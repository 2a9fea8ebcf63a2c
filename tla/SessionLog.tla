----------------------------- MODULE SessionLog -----------------------------
(***************************************************************************)
(* The files of a session under its single writer: numbered JSONL segments *)
(* that are appended to, rotated, scanned on open, and cut back when their *)
(* last line is torn (store/event-store.ts, segments.ts,                   *)
(* session-store.ts).  The writer holds the lease throughout.              *)
(*                                                                         *)
(* A line is [seq, id, size]: the id tells apart two events that were      *)
(* given the same seq, the size stands for its bytes.  A segment records   *)
(* what its file holds and how much of that is on stable storage.  The     *)
(* truncation (or removal) of a torn tail and its fsync are one step: a    *)
(* crash in between leaves the file as it was or as it becomes.            *)
(***************************************************************************)
EXTENDS Integers, Sequences, FiniteSets, SequencesExt

CONSTANTS
  FirstSeq,    \* firstOwnSeq(manifest): 1, or one past the fork point
  Cap,         \* settings.segmentMaxBytes
  Sizes,       \* byte lengths of event lines
  HeaderSize,  \* byte length of a segment header
  FaultModels, \* the kinds of fault ("process", "power", "io") that may happen together
  MaxAppends,  \* bound of the model: append() calls
  MaxFaults,   \* bound of the model: faults
  MaxForks,    \* bound of the model: forks taken
  NoLine       \* no event is being appended

ASSUME SegmentAssumption ==
  /\ FirstSeq \in Nat \ {0} /\ Cap \in Nat /\ HeaderSize \in Nat
  /\ Sizes \subseteq Nat \ {0}
  /\ FaultModels \subseteq SUBSET {"process", "power", "io"} /\ FaultModels # {}
  /\ MaxAppends \in Nat /\ MaxFaults \in Nat /\ MaxForks \in Nat

VARIABLES
  segs,       \* the segment files, in order
  pc,         \* where the writer is
  lastSeq,    \* #lastSeq
  segEvents,  \* #segmentEvents
  segBytes,   \* #segmentBytes
  cur,        \* the line append() is working on
  appends,    \* append() calls so far
  faults,     \* faults so far
  happened,   \* the kinds of fault so far
  acked,      \* lines whose append() resolved
  forks       \* for each fork taken: the lines it inherited

vars == <<segs, pc, lastSeq, segEvents, segBytes, cur, appends, faults, happened, acked, forks>>
position == <<lastSeq, segEvents, segBytes>>

Line == [seq : FirstSeq..FirstSeq + MaxAppends, id : 1..MaxAppends, size : Sizes]

ASSUME NoLineAssumption == NoLine \notin Line

\* header: the header line is complete.  torn: bytes of an incomplete line follow.
\* durable: lines on stable storage, -1 if not even the header is.  linked: so is the file's name.
Segment == [first : Nat, header : BOOLEAN, lines : Seq(Line), torn : BOOLEAN,
            durable : Int, linked : BOOLEAN]

States == {"closed", "scan", "copy", "cut", "rescan", "idle", "poisoned",
           "header", "syncheader", "syncdir", "write", "sync"}

N == Len(segs)
Bytes(seg) ==
  LET sum[n \in 0..Len(seg.lines)] == IF n = 0 THEN HeaderSize ELSE sum[n-1] + seg.lines[n].size
  IN sum[Len(seg.lines)]

----------------------------------------------------------------------------
(* scanSegments *)

\* The first_seq the header of segment i has to declare.
Expected(i) == IF i = 1 THEN FirstSeq ELSE segs[i-1].first + Len(segs[i-1].lines)

\* Any damage but an incomplete end of the last segment is an invalid item.
Damaged(i) ==
  \/ ~segs[i].header /\ i < N
  \/ segs[i].torn /\ i < N
  \/ segs[i].header /\ segs[i].first # Expected(i)
  \/ \E k \in 1..Len(segs[i].lines) : segs[i].lines[k].seq # segs[i].first + k - 1

Corrupt == \E i \in 1..N : Damaged(i)

HeaderOnly == N > 0 /\ ~segs[N].header
TornTail   == N > 0 /\ (segs[N].torn \/ HeaderOnly)

\* The log a reader gets, and its last seq.
Events == FlattenSeq([i \in 1..N |-> segs[i].lines])
LastOwnSeq == FirstSeq - 1 + Len(Events)

\* summarizeTail: the last segment alone.
SummarySeq ==
  IF N = 0 \/ segs[N].lines = <<>> THEN FirstSeq - 1
  ELSE segs[N].first + Len(segs[N].lines) - 1

----------------------------------------------------------------------------
Init ==
  /\ segs = <<>>
  /\ pc = "closed"
  /\ lastSeq = 0 /\ segEvents = 0 /\ segBytes = 0
  /\ cur = NoLine
  /\ appends = 0 /\ faults = 0 /\ happened = {}
  /\ acked = {}
  /\ forks = {}

\* A writer that is gone forgets its position.
Forget == lastSeq' = 0 /\ segEvents' = 0 /\ segBytes' = 0 /\ cur' = NoLine

----------------------------------------------------------------------------
(* openForWrite *)

OpenForWrite ==
  /\ pc = "closed"
  /\ pc' = "scan"
  /\ UNCHANGED <<segs, position, cur, appends, faults, happened, acked, forks>>

\* scanOwn's position, and the append handle opened there.
TakePosition ==
  /\ lastSeq' = LastOwnSeq
  /\ segEvents' = Len(segs[N].lines)
  /\ segBytes' = Bytes(segs[N])

\* createSegment: open(..., "wx").
NewSegment(first) ==
  segs' = Append(segs, [first |-> first, header |-> FALSE, lines |-> <<>>, torn |-> FALSE,
                        durable |-> -1, linked |-> FALSE])

CreateFirst ==
  /\ NewSegment(FirstSeq)
  /\ lastSeq' = FirstSeq - 1 /\ segEvents' = 0 /\ segBytes' = HeaderSize
  /\ pc' = "header"

\* The scan decides: refuse, cut a torn tail, create segment 1, or go on after the last line.
Scan ==
  /\ pc = "scan"
  /\ \/ Corrupt /\ pc' = "closed" /\ UNCHANGED <<segs, position>>
     \/ ~Corrupt /\ TornTail /\ pc' = "copy" /\ UNCHANGED <<segs, position>>
     \/ ~Corrupt /\ N = 0 /\ CreateFirst
     \/ ~Corrupt /\ N > 0 /\ ~TornTail /\ TakePosition /\ pc' = "idle" /\ UNCHANGED segs
  /\ UNCHANGED <<cur, appends, faults, happened, acked, forks>>

\* quarantineTail: the torn bytes are copied to another file first.
CopyTail ==
  /\ pc = "copy"
  /\ pc' = "cut"
  /\ UNCHANGED <<segs, position, cur, appends, faults, happened, acked, forks>>

\* Mutated: a segment with a torn tail is always removed.
CutTail_WholeSegment ==
  /\ pc = "cut"
  /\ segs' = Front(segs)
  /\ pc' = "rescan"
  /\ UNCHANGED <<position, cur, appends, faults, happened, acked, forks>>

\* A segment without a header is removed, a torn line is truncated.
CutTail ==
  /\ pc = "cut"
  /\ IF HeaderOnly
       THEN segs' = Front(segs) /\ UNCHANGED position /\ pc' = "rescan"
       ELSE /\ segs' = [segs EXCEPT ![N].torn = FALSE, ![N].linked = TRUE,
                                     ![N].durable = Len(segs[N].lines)]
            /\ TakePosition
            /\ pc' = "idle"
  /\ UNCHANGED <<cur, appends, faults, happened, acked, forks>>

\* #positionAfterDroppedSegment
Rescan ==
  /\ pc = "rescan"
  /\ \/ N = 0 /\ CreateFirst
     \/ N > 0 /\ (Corrupt \/ TornTail) /\ pc' = "closed" /\ UNCHANGED <<segs, position>>
     \/ N > 0 /\ ~Corrupt /\ ~TornTail /\ TakePosition /\ pc' = "idle" /\ UNCHANGED segs
  /\ UNCHANGED <<cur, appends, faults, happened, acked, forks>>

----------------------------------------------------------------------------
(* createSegment, while opening or while rotating for cur *)

WriteHeader ==
  /\ pc = "header"
  /\ segs' = [segs EXCEPT ![N].header = TRUE]
  /\ pc' = "syncheader"
  /\ UNCHANGED <<position, cur, appends, faults, happened, acked, forks>>

SyncHeader ==
  /\ pc = "syncheader"
  /\ segs' = [segs EXCEPT ![N].durable = 0]
  /\ pc' = "syncdir"
  /\ UNCHANGED <<position, cur, appends, faults, happened, acked, forks>>

\* Mutated: a rotation does not start to count bytes anew.
SyncDirectory_KeepsBytes ==
  /\ pc = "syncdir"
  /\ segs' = [segs EXCEPT ![N].linked = TRUE]
  /\ segEvents' = 0
  /\ pc' = IF cur = NoLine THEN "idle" ELSE "write"
  /\ UNCHANGED <<lastSeq, segBytes, cur, appends, faults, happened, acked, forks>>

SyncDirectory ==
  /\ pc = "syncdir"
  /\ segs' = [segs EXCEPT ![N].linked = TRUE]
  /\ segEvents' = 0 /\ segBytes' = HeaderSize
  /\ pc' = IF cur = NoLine THEN "idle" ELSE "write"
  /\ UNCHANGED <<lastSeq, cur, appends, faults, happened, acked, forks>>

----------------------------------------------------------------------------
(* #appendNow *)

AppendStart(size) ==
  /\ pc = "idle" /\ appends < MaxAppends
  /\ appends' = appends + 1
  /\ cur' = [seq |-> lastSeq + 1, id |-> appends + 1, size |-> size]
  /\ IF segEvents > 0 /\ segBytes + size > Cap
       THEN NewSegment(lastSeq + 1) /\ pc' = "header"
       ELSE pc' = "write" /\ UNCHANGED segs
  /\ UNCHANGED <<position, faults, happened, acked, forks>>

WriteLine ==
  /\ pc = "write"
  /\ segs' = [segs EXCEPT ![N].lines = Append(@, cur)]
  /\ pc' = "sync"
  /\ UNCHANGED <<position, cur, appends, faults, happened, acked, forks>>

\* Mutated: the line is acknowledged without datasync.
SyncLine_NoSync ==
  /\ pc = "sync"
  /\ segBytes' = segBytes + cur.size
  /\ segEvents' = segEvents + 1
  /\ lastSeq' = cur.seq
  /\ acked' = acked \cup {cur}
  /\ cur' = NoLine
  /\ pc' = "idle"
  /\ UNCHANGED <<segs, appends, faults, happened, forks>>

\* datasync returns: the position advances and the promise resolves.
SyncLine ==
  /\ pc = "sync"
  /\ segs' = [segs EXCEPT ![N].durable = Len(segs[N].lines)]
  /\ segBytes' = segBytes + cur.size
  /\ segEvents' = segEvents + 1
  /\ lastSeq' = cur.seq
  /\ acked' = acked \cup {cur}
  /\ cur' = NoLine
  /\ pc' = "idle"
  /\ UNCHANGED <<appends, faults, happened, forks>>

Close ==
  /\ pc \in {"idle", "poisoned"}
  /\ pc' = "closed"
  /\ Forget
  /\ UNCHANGED <<segs, appends, faults, happened, acked, forks>>

\* fork(sessionId, upToSeq): #assertForkPoint asks the summary, from any process.
Fork(seq) ==
  /\ Cardinality(forks) < MaxForks
  /\ FirstSeq <= seq /\ seq <= SummarySeq
  /\ forks' = forks \cup {SubSeq(Events, 1, seq - FirstSeq + 1)}
  /\ UNCHANGED <<segs, pc, position, cur, appends, faults, happened, acked>>

----------------------------------------------------------------------------
(* Faults *)

\* What an interrupted write leaves in the file: nothing, a part of it, or all of it.
Interrupted ==
  \/ UNCHANGED segs
  \/ pc \in {"header", "write"} /\ segs' = [segs EXCEPT ![N].torn = TRUE]
  \/ pc = "header" /\ segs' = [segs EXCEPT ![N].header = TRUE]
  \/ pc = "write" /\ segs' = [segs EXCEPT ![N].lines = Append(@, cur)]

Fault(kind) ==
  /\ \E kinds \in FaultModels : happened \cup {kind} \subseteq kinds
  /\ faults < MaxFaults
  /\ faults' = faults + 1 /\ happened' = happened \cup {kind}

\* The process dies; the kernel still has what it wrote.
ProcessCrash ==
  /\ pc # "closed" /\ Fault("process")
  /\ Interrupted
  /\ pc' = "closed" /\ Forget
  /\ UNCHANGED <<appends, acked, forks>>

\* A write or sync fails: append() poisons the store, open() gives the lease back.
IoError ==
  /\ pc \notin {"closed", "idle", "poisoned"} /\ Fault("io")
  /\ Interrupted
  /\ IF cur # NoLine
       THEN pc' = "poisoned" /\ cur' = NoLine /\ UNCHANGED position
       ELSE pc' = "closed" /\ Forget
  /\ UNCHANGED <<appends, acked, forks>>

\* What is left of a segment: at least its durable lines, at most what was written.
Remains(i) ==
  LET seg == segs[i]
      more(k) == seg.torn \/ k < Len(seg.lines) \/ (i = N /\ pc \in {"header", "write"})
  IN { [seg EXCEPT !.lines = SubSeq(seg.lines, 1, x[1]), !.torn = x[2], !.durable = x[1], !.linked = TRUE] :
         x \in { y \in (0..Len(seg.lines)) \X BOOLEAN :
                   seg.header /\ y[1] >= seg.durable /\ (y[2] => more(y[1])) } }
     \cup
     { [seg EXCEPT !.header = FALSE, !.lines = <<>>, !.torn = t, !.linked = TRUE] :
         t \in { x \in BOOLEAN : seg.durable = -1 } }

\* The machine loses power: what was not synced may be gone, a new file with its name.
PowerLoss ==
  /\ Fault("power")
  /\ \E n \in {N} \cup { N - 1 : x \in { i \in 1..N : i = N /\ ~segs[i].linked } } :
       segs' \in { s \in [1..n -> UNION { Remains(i) : i \in 1..n }] :
                     \A i \in 1..n : s[i] \in Remains(i) }
  /\ pc' = "closed" /\ Forget
  /\ UNCHANGED <<appends, acked, forks>>

----------------------------------------------------------------------------
OpenStep   == OpenForWrite \/ Scan \/ CopyTail \/ CutTail \/ Rescan
CreateStep == WriteHeader \/ SyncHeader \/ SyncDirectory
AppendStep == (\E size \in Sizes : AppendStart(size)) \/ WriteLine \/ SyncLine
FaultStep  == ProcessCrash \/ IoError \/ PowerLoss

Next ==
  \/ OpenStep \/ CreateStep \/ AppendStep \/ Close
  \/ \E seq \in FirstSeq .. FirstSeq + MaxAppends : Fork(seq)
  \/ FaultStep

Spec == Init /\ [][Next]_vars

----------------------------------------------------------------------------
(* The type invariant. *)
TypeOK ==
  /\ segs \in Seq(Segment)
  /\ pc \in States
  /\ lastSeq \in Nat /\ segEvents \in Nat /\ segBytes \in Nat
  /\ cur \in Line \cup {NoLine}
  /\ appends \in 0..MaxAppends /\ faults \in 0..MaxFaults
  /\ \E kinds \in FaultModels : happened \subseteq kinds
  /\ acked \subseteq Line
  /\ \A f \in forks : f \in Seq(Line)

(* ADR-03, core-and-store.md:47: an event whose append() resolved can be   *)
(* read from then on, at its seq, after every crash and every reopening:   *)
(* no fault damages the segments or takes the line away.                   *)
AckedReadable ==
  /\ ~Corrupt
  /\ \A line \in acked : \E i \in 1..Len(Events) : Events[i] = line

(* events-and-storage.md, core-and-store.md: a crash leaves at worst an     *)
(* incomplete last line of the last segment, never damage before it.       *)
NeverCorrupt == ~Corrupt

(* event-store.ts:114-118: what the writer remembers of its position is    *)
(* what a scan would find, however it was opened and whatever it cut off.  *)
PositionExact ==
  pc = "idle" =>
    /\ ~TornTail
    /\ lastSeq = LastOwnSeq
    /\ segEvents = Len(segs[N].lines)
    /\ segBytes = Bytes(segs[N])

(* readSessionItems: a fork reads its ancestor up to the fork point, so    *)
(* the events it was forked from stay the ancestor's first ones.  A fork   *)
(* point may not be on stable storage yet, so power loss is excepted.      *)
ForkHistoryStable ==
  "power" \notin happened => ~Corrupt /\ \A f \in forks : IsPrefix(f, Events)

(* The files implement the log that was promised.                          *)
Promised == LET all == { i \in 1..Len(Events) : Events[i] \in acked }
            IN IF all = {} THEN 0 ELSE CHOOSE n \in all : \A i \in all : i <= n

Durable == INSTANCE DurableLog WITH Events <- Line, log <- Events, promised <- Promised
ImplementsDurableLog == Durable!Spec
=============================================================================
