--------------------------- MODULE SessionWriters ---------------------------
(***************************************************************************)
(* The lease together with what it protects: writers of SessionLease that  *)
(* open the session, find its last seq, and append events after verify()   *)
(* (store/event-store.ts, store/session-store.ts).  The segments are       *)
(* abstracted to one log of [seq, token] lines; SessionLog models them.    *)
(***************************************************************************)
EXTENDS SessionLease, Sequences

CONSTANTS
  Heartbeat,    \* settings.heartbeatMs
  MaxEvents     \* bound of the model: lines in the log

ASSUME AppendAssumption == Heartbeat \in Nat /\ MaxEvents \in Nat

VARIABLES
  log,      \* the lines of the session's segments
  lastSeq,  \* #lastSeq of a writer
  append    \* where a writer's append queue is

wvars == <<now, lock, mutex, aside, pc, job, tries, seen, taken, due, expires, lost,
           log, lastSeq, append>>

AppendStates == {"closed", "idle", "renewing", "verified", "poisoned"}
Line == [seq : Nat, token : Writers]

\* What scanSegments requires of the log: the seq of a line is its position.
DenseSeq == \A i \in 1..Len(log) : log[i].seq = i

WInit ==
  /\ Init
  /\ log = <<>>
  /\ lastSeq = [w \in Writers |-> 0]
  /\ append = [w \in Writers |-> "closed"]

\* Mutated: the log is taken to end one line earlier.
OpenLog_OffByOne(w) ==
  /\ AtLabel(w, "held") /\ append[w] = "closed" /\ ~lost[w]
  /\ lastSeq' = [lastSeq EXCEPT ![w] = Len(log) - 1]
  /\ append' = [append EXCEPT ![w] = "idle"]
  /\ UNCHANGED vars /\ UNCHANGED log

\* openForWrite, the lease taken: the log is read, a corrupt one is given back.
OpenLog(w) ==
  /\ AtLabel(w, "held") /\ append[w] = "closed" /\ ~lost[w]
  /\ IF DenseSeq
       THEN /\ lastSeq' = [lastSeq EXCEPT ![w] = Len(log)]
            /\ append' = [append EXCEPT ![w] = "idle"]
            /\ UNCHANGED vars
       ELSE StartRelease(w) /\ UNCHANGED <<lastSeq, append>>
  /\ UNCHANGED log

(***************************************************************************)
(* #appendNow: verify() reads the token, or renews when the lease ends     *)
(* within a heartbeat, and joins a renewal that is already under way.      *)
(***************************************************************************)
NearExpiry(w) == now + Heartbeat >= expires[w]
Holding(w) == pc[w] \notin {"refused", "released", "crashed"}

VerifyFails(w) ==
  /\ Holding(w) /\ append[w] = "idle" /\ lost[w]
  /\ append' = [append EXCEPT ![w] = "poisoned"]
  /\ UNCHANGED vars /\ UNCHANGED <<log, lastSeq>>

VerifyByRenewal(w) ==
  /\ Holding(w) /\ append[w] = "idle" /\ ~lost[w] /\ NearExpiry(w)
  /\ append' = [append EXCEPT ![w] = "renewing"]
  /\ IF pc[w] = "held" THEN StartRenew(w) ELSE UNCHANGED vars
  /\ UNCHANGED <<log, lastSeq>>

RenewalAwaited(w) ==
  /\ append[w] = "renewing" /\ pc[w] \in {"held", "lost"}
  /\ append' = [append EXCEPT ![w] = IF lost[w] THEN "poisoned" ELSE "verified"]
  /\ UNCHANGED vars /\ UNCHANGED <<log, lastSeq>>

\* Mutated: an append trusts the lease it has in memory.
VerifyByToken_Blind(w) ==
  /\ Holding(w) /\ append[w] = "idle" /\ ~lost[w]
  /\ append' = [append EXCEPT ![w] = "verified"]
  /\ UNCHANGED vars /\ UNCHANGED <<log, lastSeq>>

VerifyByToken(w) ==
  /\ Holding(w) /\ append[w] = "idle" /\ ~lost[w] /\ ~NearExpiry(w)
  /\ lost' = [lost EXCEPT ![w] = ~Owns(w)]
  /\ append' = [append EXCEPT ![w] = IF Owns(w) THEN "verified" ELSE "poisoned"]
  /\ UNCHANGED <<now, lock, mutex, aside, pc, job, tries, seen, taken, due, expires>>
  /\ UNCHANGED <<log, lastSeq>>

\* The line goes to the end of the file (O_APPEND), wherever that is by now.
AppendLine(w) ==
  /\ Holding(w) /\ append[w] = "verified" /\ Len(log) < MaxEvents
  /\ log' = Append(log, [seq |-> lastSeq[w] + 1, token |-> w])
  /\ lastSeq' = [lastSeq EXCEPT ![w] = @ + 1]
  /\ append' = [append EXCEPT ![w] = "idle"]
  /\ UNCHANGED vars

\* close() waits for the appends queued before it.
Close(w) ==
  /\ append[w] \in {"idle", "poisoned"}
  /\ StartRelease(w)
  /\ append' = [append EXCEPT ![w] = "closed"]
  /\ UNCHANGED <<log, lastSeq>>

AppendStep(w) ==
  \/ OpenLog(w) \/ VerifyFails(w) \/ VerifyByRenewal(w) \/ RenewalAwaited(w)
  \/ VerifyByToken(w) \/ AppendLine(w) \/ Close(w)

\* A heartbeat timer fires, a pending file operation ends, or a process dies.
LeaseStep(w) ==
  /\ Step(w) \/ StartRenew(w) \/ Crash(w)
  /\ UNCHANGED <<log, lastSeq, append>>

\* verify() is answered, and the append it let through is made, as promptly as the lease's own steps.
Appending(w) ==
  /\ Holding(w)
  /\ append[w] = "verified" \/ (append[w] = "renewing" /\ pc[w] \in {"held", "lost"})

WTick ==
  /\ \A w \in Writers \ Suspendable : ~Appending(w)
  /\ Tick
  /\ UNCHANGED <<log, lastSeq, append>>

WNext == WTick \/ \E w \in Writers : LeaseStep(w) \/ AppendStep(w)

WSpec == WInit /\ [][WNext]_wvars

\* A lease call that was made runs to its end: the event loop runs every pending continuation.
FairWSpec ==
  WSpec /\ \A w \in Writers : WF_wvars(Step(w) /\ UNCHANGED <<log, lastSeq, append>>)

----------------------------------------------------------------------------
(* core-and-store.md:55-59, ADR-03: there is a single writer at a time, so *)
(* no two events of a session share a seq and none is missing, whoever     *)
(* took the session over from whom; a log that broke this is corrupt.      *)
LogStaysDense == DenseSeq

(* A writer that verify() let through is still the only one that can be:   *)
(* two writers are never both between verify() and their write.            *)
OneVerified ==
  \A v, w \in Writers :
    Holding(v) /\ Holding(w) /\ append[v] = "verified" /\ append[w] = "verified" => v = w

(* Every lease call comes back: an opener holds the session or is refused,  *)
(* a close leaves the mutex, whatever stale file a dead writer has left.    *)
CallsEnd == AcquireEnds /\ ReleaseEnds
=============================================================================
