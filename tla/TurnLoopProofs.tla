--------------------------- MODULE TurnLoopProofs ---------------------------
(***************************************************************************)
(* What the agent loop keeps for any number of turns, steps, calls,        *)
(* steers, refused appends and crashes.  As long as the store takes        *)
(* appends, the log and the driver agree on the open turn, the open step   *)
(* and the call in the gateway, so the projection accepts whatever is      *)
(* appended next; once it is poisoned, nothing more is appended until the  *)
(* process is gone, and recovery starts from the log alone.                *)
(***************************************************************************)
EXTENDS TurnLoop, SessionStateProofs

\* What the log says of the entities of a turn.
TurnOf     == proj.state["turn"]
StepOf     == proj.state["step"]
CallOf     == proj.state["toolCall"]
ApprovalOf == proj.state["approval"]

\* The awaits inside a call that was proposed, and those of a step.
Invoking == {"decide", "request", "broker", "answer", "start", "run", "result"}
Calling  == {"snapshot", "propose"} \cup Invoking
Batching == {"batch", "skipOne", "reply"} \cup Calling
Stepping == {"prepare", "stream", "failure", "assistant", "settled", "usage", "skip", "images", "endStep"} \cup Batching
Turning  == {"user", "loop", "steer", "endTurn"} \cup Stepping
Resting  == {"idle", "ended", "down", "closing"}
Places   == {"catch"} \cup Turning \cup Resting

Answers == {"allowed-once", "allowed-for-scope", "rejected", "cancelled", "unavailable"}
Results == {"denied", "cancelled", "succeeded", "failed"}
OpenCall == {"proposed", "awaiting_approval", "executing"}
Endings == {"settled", "aborted", "errored"} \X {"cancelled", "failed", "budget_exceeded", "completed", "continue"}

\* The turn went through its normal end.
Returned == at = "ended" /\ outcome \notin {"thrown", Absent}

(* How far the calls have come.                                            *)

Served == call - Len(batch)

\* Calls that the gateway has seen, or may have seen before an error.
Touched == IF batch # <<>> /\ at \in {"reply", "catch", "ended"} \cup Invoking THEN Served + 1 ELSE Served

-----------------------------------------------------------------------------
(* The invariant, part by part                                             *)

LogReads == ProjectionOK(proj) /\ proj.status = "ok"

Types ==
  /\ at \in Places /\ store \in {"ok", "poisoned"}
  /\ faults \in Nat /\ crashes \in Nat
  /\ asked \in {"nothing", "calls", "cutOff"}
  /\ aborted \in BOOLEAN /\ paused \in BOOLEAN /\ endsTurn \in BOOLEAN /\ grew \in BOOLEAN
  /\ caches \in [snapshot : BOOLEAN, granted : BOOLEAN]
  /\ told \in [decided : [Calls -> {"allow", "ask", "deny", Absent}], executed : [Calls -> Nat],
               answers : [Calls -> Nat], late : Nat, steered : Seq(Nat), leftover : Seq(Nat), given : Nat]
  /\ outcome \in Outcomes

\* A poisoned store is noticed by the append that failed, and takes none after it.
Poisoned == store = "poisoned" => at \in {"reply", "catch", "ended", "idle"}

\* The identifiers handed out suffice for what is left of the turn.
Allotted == turn * MaxSteps

Counted ==
  /\ turn \in 0..MaxTurns /\ turnSteps \in 0..MaxSteps /\ step \in Nat
  /\ step <= Allotted
  /\ at \notin Resting => turn > 0 /\ step + (MaxSteps - turnSteps) <= Allotted
  /\ at \in Stepping => step > 0
  /\ at = "steer" => turnSteps < MaxSteps

\* The batch is the last of the calls handed out.
Batched ==
  /\ call \in 0..MaxCalls /\ base \in 0..call
  /\ batch \in Seq(Nat) /\ Len(batch) <= call - base
  /\ \A i \in 1..Len(batch) : batch[i] = Served + i
  /\ at \in {"skip", "skipOne", "reply"} \cup Calling => batch # <<>>
  /\ at \in {"failure", "images", "endStep"} \cup (Turning \ Stepping) \cup {"prepare", "stream"} \cup (Resting \ {"ended"})
       => batch = <<>>
  /\ Returned => batch = <<>>

\* A step has no result until it is known how it ends.
Ended ==
  /\ at \in {"failure", "skip", "endStep"} => ending \in Endings
  /\ at \in Batching \cup {"prepare", "stream", "assistant", "settled", "images"} => ending = NoEnding
  /\ at = "usage" => ending = NoEnding \/ (ending \in Endings /\ batch = <<>>)

\* Nothing is known of an entity before its identifier is handed out.
Unknown ==
  /\ \A t \in Ids["turn"] : t > turn => TurnOf[t] = Absent
  /\ \A s \in Ids["step"] : s > step => StepOf[s] = Absent
  /\ \A c \in Calls : c > Touched => CallOf[c] = Absent /\ ApprovalOf[c] = Absent /\ told.executed[c] = 0

\* While the driver can still append, its turn and its step are open in the log, and no other.
InTurn ==
  /\ at \in Turning \/ (at = "catch" /\ store = "ok") => TurnOf[turn] = "open"
  /\ Returned => TurnOf[turn] = "closed"
  /\ at \in Stepping => StepOf[step] = "open"
  /\ at \in Turning \/ Returned =>
       \A s \in Ids["step"] : step - turnSteps < s /\ s <= step /\ (at \in Stepping => s # step) => StepOf[s] # "open"

Permitted ==
  \/ told.decided[C] = "allow"
  \/ told.decided[C] = "ask" /\ (caches.granted \/ ApprovalOf[C] = "allowed")

\* The log's account of the call in the gateway.
InCall ==
  /\ at = "decide" => CallOf[C] = "proposed" /\ ApprovalOf[C] = Absent /\ told.executed[C] = 0
  /\ at = "request" => CallOf[C] = "awaiting_approval" /\ ApprovalOf[C] = Absent /\ told.decided[C] = "ask" /\ told.executed[C] = 0
  /\ at \in {"broker", "answer"} =>
       CallOf[C] = "awaiting_approval" /\ ApprovalOf[C] = "pending" /\ told.decided[C] = "ask" /\ told.executed[C] = 0
  /\ at = "answer" => answer \in Answers
  /\ at = "start" =>
       CallOf[C] \in {"proposed", "awaiting_approval"} /\ ApprovalOf[C] # "pending" /\ Permitted /\ told.executed[C] = 0
  /\ at = "run" => CallOf[C] = "executing" /\ ApprovalOf[C] # "pending" /\ Permitted /\ told.executed[C] = 1
  /\ at = "result" =>
       /\ result \in Results /\ CallOf[C] \in OpenCall /\ ApprovalOf[C] # "pending"
       /\ result = "denied" => CallOf[C] # "executing"
       /\ result \in {"succeeded", "failed"} => CallOf[C] = "executing" /\ told.executed[C] = 1

\* LogTellsWhatRan, in the terms of this module.
Told ==
  \A c \in Calls :
    /\ told.executed[c] > 0 => CallOf[c] \in {"executing", "succeeded", "failed", "cancelled", "interrupted"}
    /\ CallOf[c] \in {"succeeded", "failed"} => told.executed[c] > 0
    /\ told.executed[c] <= 1

\* If no append fails, a call that has come back is closed.
Closed(c) == CallOf[c] \notin OpenCall /\ ApprovalOf[c] # "pending"

ServedClosed ==
  /\ faults = 0 => at # "catch"
  /\ faults = 0 /\ (at \in Turning \/ Returned) => \A c \in Calls : base < c /\ c <= Served => Closed(c)
  /\ faults = 0 /\ at = "reply" => Closed(C)

Answered ==
  /\ \A c \in Calls : told.answers[c] <= 1 /\ (c > Served => told.answers[c] = 0)
  /\ at \in Turning => \A c \in Calls : base < c /\ c <= Served => told.answers[c] = 1

\* A steer is in a sequence of steers; they are in order; those of one all come before those of another.
Has(s, n)    == \E i \in 1..Len(s) : s[i] = n
Ascending(s) == \A i, j \in 1..Len(s) : i < j => s[i] < s[j]
Below(s, t)  == \A m, n \in Nat : Has(s, m) /\ Has(t, n) => m < n

\* Where the steers are.  Only an append that failed may have left one in the log and in the queue.
Steering ==
  /\ steers \in Seq(Nat) /\ Len(steers) <= told.given
  /\ Ascending(told.steered) /\ Ascending(told.leftover) /\ Ascending(steers)
  /\ \A n : Has(told.steered, n) \/ Has(told.leftover, n) \/ Has(steers, n) => n \in 1..told.given
  /\ Below(told.leftover, steers)
  /\ store = "ok" => Below(told.steered, steers)
  /\ faults = 0 => store = "ok" /\ \A n : ~(Has(told.steered, n) /\ Has(told.leftover, n))
  /\ crashes = 0 => \A n \in 1..told.given : Has(told.steered, n) \/ Has(told.leftover, n) \/ Has(steers, n)

Late ==
  /\ told.late <= 1
  /\ (at \notin Resting /\ ~aborted) \/ at \in Calling \ {"run", "result"} => told.late = 0

Planned == at = "closing" => closings = Closings(proj)

Inv ==
  /\ LogReads /\ Types /\ Poisoned /\ Counted /\ Batched /\ Ended /\ Unknown /\ InTurn /\ InCall
  /\ Told /\ ServedClosed /\ Answered /\ Steering /\ Late /\ Planned
-----------------------------------------------------------------------------
(* What an append does to the log                                          *)

\* One entity of the log moves, all others stay.
Moves(m, id, s) ==
  /\ LogReads'
  /\ proj'.state[m] = [proj.state[m] EXCEPT ![id] = s]
  /\ \A n \in Machines \ {m} : proj'.state[n] = proj.state[n]

LEMMA Applied ==
  ASSUME LogReads, NEW e, e.machine \in Machines, e.id \in Ids[e.machine], e.to \in States(e.machine),
         e.op \notin {"note", "require"}, Accepted(proj, e), proj' = Apply(proj, e)
  PROVE  Moves(e.machine, e.id, e.to)
<1>1. /\ ProjectionOK(proj') /\ proj'.status = "ok"
      /\ proj'.state[e.machine][e.id] = e.to
      /\ \A m \in Machines : \A id \in Ids[m] :
           m # e.machine \/ id # e.id => proj'.state[m][id] = proj.state[m][id]
  BY ApplyMoves DEF LogReads
<1>2. \A m \in Machines : proj'.state[m] \in [Ids[m] -> States(m) \cup {Absent}]
  BY <1>1 DEF ProjectionOK
<1>3. \A m \in Machines : proj.state[m] \in [Ids[m] -> States(m) \cup {Absent}]
  BY DEF LogReads, ProjectionOK
<1>4. proj'.state[e.machine] = [proj.state[e.machine] EXCEPT ![e.id] = e.to]
  BY <1>1, <1>2, <1>3
<1>5. ASSUME NEW n \in Machines \ {e.machine} PROVE proj'.state[n] = proj.state[n]
  BY <1>1, <1>2, <1>3
<1> QED BY <1>1, <1>4, <1>5 DEF Moves, LogReads

LEMMA NoteKeeps == ASSUME NEW p, NEW type PROVE Apply(p, Note(type)) = p
BY DEF Apply, Note, Event

\* Every entity of a turn stays as it is.
Stays == TurnOf' = TurnOf /\ StepOf' = StepOf /\ CallOf' = CallOf /\ ApprovalOf' = ApprovalOf

LEMMA OpenNames ==
  /\ "open" \in States("turn") /\ "closed" \in States("turn")
  /\ {"open", "settled", "aborted", "errored"} \subseteq States("step")
  /\ {"proposed", "awaiting_approval", "executing", "denied", "succeeded", "failed", "cancelled", "interrupted"} \subseteq States("toolCall")
  /\ {"pending", "allowed", "rejected", "cancelled", "unavailable"} \subseteq States("approval")
BY DEF States, TRANSITIONS

LEMMA TurnTransitions ==
  /\ Legal("turn", "open", "closed")
  /\ \A to \in {"settled", "aborted", "errored"} : Legal("step", "open", to)
  /\ \A to \in {"allowed", "rejected", "cancelled", "unavailable"} : Legal("approval", "pending", to)
BY DEF Legal, States, TRANSITIONS

LEMMA CallTransitions ==
  /\ \A from \in {"proposed", "awaiting_approval"} : \A to \in {"denied", "cancelled", "executing"} : Legal("toolCall", from, to)
  /\ Legal("toolCall", "proposed", "awaiting_approval")
  /\ \A to \in {"succeeded", "failed", "cancelled"} : Legal("toolCall", "executing", to)
BY DEF Legal, States, TRANSITIONS

LEMMA MovesTurn ==
  ASSUME NEW t, NEW s, Moves("turn", t, s)
  PROVE  LogReads' /\ TurnOf' = [TurnOf EXCEPT ![t] = s] /\ StepOf' = StepOf /\ CallOf' = CallOf /\ ApprovalOf' = ApprovalOf
BY MachineNames DEF Moves, TurnOf, StepOf, CallOf, ApprovalOf

LEMMA MovesStep ==
  ASSUME NEW t, NEW s, Moves("step", t, s)
  PROVE  LogReads' /\ TurnOf' = TurnOf /\ StepOf' = [StepOf EXCEPT ![t] = s] /\ CallOf' = CallOf /\ ApprovalOf' = ApprovalOf
BY MachineNames DEF Moves, TurnOf, StepOf, CallOf, ApprovalOf

LEMMA MovesCall ==
  ASSUME NEW t, NEW s, Moves("toolCall", t, s)
  PROVE  LogReads' /\ TurnOf' = TurnOf /\ StepOf' = StepOf /\ CallOf' = [CallOf EXCEPT ![t] = s] /\ ApprovalOf' = ApprovalOf
BY MachineNames DEF Moves, TurnOf, StepOf, CallOf, ApprovalOf

LEMMA MovesApproval ==
  ASSUME NEW t, NEW s, Moves("approval", t, s)
  PROVE  LogReads' /\ TurnOf' = TurnOf /\ StepOf' = StepOf /\ CallOf' = CallOf /\ ApprovalOf' = [ApprovalOf EXCEPT ![t] = s]
BY MachineNames DEF Moves, TurnOf, StepOf, CallOf, ApprovalOf

(* The events of the driver and the gateway, each in the state it is       *)
(* appended in.                                                            *)

LEMMA TurnStartApplied ==
  ASSUME LogReads, NEW t \in Ids["turn"], TurnOf[t] = Absent, proj' = Apply(proj, TurnStarted(t))
  PROVE  Moves("turn", t, "open")
<1> DEFINE e == TurnStarted(t)
<1>1. e.machine = "turn" /\ e.id = t /\ e.to = "open" /\ e.op = "create" /\ e.within = Absent
  BY DEF TurnStarted, Create, Event
<1>2. Accepted(proj, e) BY <1>1 DEF Accepted, TurnOf
<1> HIDE DEF e
<1>3. proj' = Apply(proj, e) BY DEF e
<1> QED BY <1>1, <1>2, <1>3, Applied, OpenNames, MachineNames

LEMMA TurnEndApplied ==
  ASSUME LogReads, NEW t \in Ids["turn"], TurnOf[t] = "open", proj' = Apply(proj, TurnEnded(t))
  PROVE  Moves("turn", t, "closed")
<1> DEFINE e == TurnEnded(t)
<1>1. e.machine = "turn" /\ e.id = t /\ e.to = "closed" /\ e.op = "advanceTo"
  BY DEF TurnEnded, AdvanceTo, Event
<1>2. Accepted(proj, e) BY <1>1, TurnTransitions DEF Accepted, TurnOf
<1> HIDE DEF e
<1>3. proj' = Apply(proj, e) BY DEF e
<1> QED BY <1>1, <1>2, <1>3, Applied, OpenNames, MachineNames

LEMMA StepStartApplied ==
  ASSUME LogReads, NEW s \in Ids["step"], StepOf[s] = Absent, NEW t, TurnOf[t] = "open",
         proj' = Apply(proj, StepStarted(s, t))
  PROVE  Moves("step", s, "open")
<1> DEFINE e == StepStarted(s, t)
<1>1. e.machine = "step" /\ e.id = s /\ e.to = "open" /\ e.op = "create" /\ e.within = t
  BY DEF StepStarted, Event
<1>2. Accepted(proj, e) BY <1>1 DEF Accepted, TurnOf, StepOf
<1> HIDE DEF e
<1>3. proj' = Apply(proj, e) BY DEF e
<1> QED BY <1>1, <1>2, <1>3, Applied, OpenNames, MachineNames

LEMMA StepEndApplied ==
  ASSUME LogReads, NEW s \in Ids["step"], StepOf[s] = "open", NEW to \in {"settled", "aborted", "errored"},
         proj' = Apply(proj, StepEnded(s, to))
  PROVE  Moves("step", s, to)
<1> DEFINE e == StepEnded(s, to)
<1>1. e.machine = "step" /\ e.id = s /\ e.to = to /\ e.op = "advanceTo"
  BY DEF StepEnded, AdvanceTo, Event
<1>2. Accepted(proj, e) BY <1>1, TurnTransitions DEF Accepted, StepOf
<1> HIDE DEF e
<1>3. proj' = Apply(proj, e) BY DEF e
<1> QED BY <1>1, <1>2, <1>3, Applied, OpenNames, MachineNames

LEMMA CallProposedApplied ==
  ASSUME LogReads, NEW c \in Ids["toolCall"], CallOf[c] = Absent, proj' = Apply(proj, CallProposed(c))
  PROVE  Moves("toolCall", c, "proposed")
<1> DEFINE e == CallProposed(c)
<1>1. e.machine = "toolCall" /\ e.id = c /\ e.to = "proposed" /\ e.op = "create" /\ e.within = Absent
  BY DEF CallProposed, Create, Event
<1>2. Accepted(proj, e) BY <1>1 DEF Accepted, CallOf
<1> HIDE DEF e
<1>3. proj' = Apply(proj, e) BY DEF e
<1> QED BY <1>1, <1>2, <1>3, Applied, OpenNames, MachineNames

\* The events that take a call from one state to another.
LEMMA CallAdvanced ==
  ASSUME LogReads, NEW c \in Ids["toolCall"], NEW to \in States("toolCall"), Legal("toolCall", CallOf[c], to),
         NEW type, proj' = Apply(proj, AdvanceTo(type, "toolCall", c, to))
  PROVE  Moves("toolCall", c, to)
<1> DEFINE e == AdvanceTo(type, "toolCall", c, to)
<1>1. e.machine = "toolCall" /\ e.id = c /\ e.to = to /\ e.op = "advanceTo"
  BY DEF AdvanceTo, Event
<1>2. Accepted(proj, e) BY <1>1 DEF Accepted, CallOf
<1> HIDE DEF e
<1>3. proj' = Apply(proj, e) BY DEF e
<1> QED BY <1>1, <1>2, <1>3, Applied, MachineNames

LEMMA PolicyNoted ==
  ASSUME LogReads, NEW c \in Ids["toolCall"], CallOf[c] # Absent, NEW decision, decision # "ask",
         proj' = Apply(proj, PolicyDecided(c, decision))
  PROVE  proj' = proj
<1> DEFINE e == PolicyDecided(c, decision)
<1>1. e.machine = "toolCall" /\ e.id = c /\ e.op = "require"
  BY DEF PolicyDecided, Event
<1>2. Accepted(proj, e) BY <1>1 DEF Accepted, CallOf
<1> HIDE DEF e
<1>3. proj' = Apply(proj, e) BY DEF e
<1> QED BY <1>1, <1>2, <1>3 DEF Apply

LEMMA ApprovalRequestApplied ==
  ASSUME LogReads, NEW a \in Ids["approval"], ApprovalOf[a] = Absent, proj' = Apply(proj, ApprovalRequested(a))
  PROVE  Moves("approval", a, "pending")
<1> DEFINE e == ApprovalRequested(a)
<1>1. e.machine = "approval" /\ e.id = a /\ e.to = "pending" /\ e.op = "create" /\ e.within = Absent
  BY DEF ApprovalRequested, Create, Event
<1>2. Accepted(proj, e) BY <1>1 DEF Accepted, ApprovalOf
<1> HIDE DEF e
<1>3. proj' = Apply(proj, e) BY DEF e
<1> QED BY <1>1, <1>2, <1>3, Applied, OpenNames, MachineNames

LEMMA ApprovalDecisionApplied ==
  ASSUME LogReads, NEW a \in Ids["approval"], ApprovalOf[a] = "pending", NEW outc \in Answers,
         proj' = Apply(proj, ApprovalDecided(a, outc))
  PROVE  Moves("approval", a, OutcomeState(outc))
<1> DEFINE e == ApprovalDecided(a, outc)
<1>1. e.machine = "approval" /\ e.id = a /\ e.to = OutcomeState(outc) /\ e.op = "decide"
  BY DEF ApprovalDecided, Event
<1>0. OutcomeState(outc) \in {"allowed", "rejected", "cancelled", "unavailable"}
  BY DEF OutcomeState, Answers
<1>2. Accepted(proj, e) BY <1>0, <1>1, TurnTransitions DEF Accepted, ApprovalOf
<1> HIDE DEF e
<1>3. proj' = Apply(proj, e) BY DEF e
<1> QED BY <1>0, <1>1, <1>2, <1>3, Applied, OpenNames, MachineNames

-----------------------------------------------------------------------------
(* Appends that go through, and appends that fail                          *)

Written == store = "ok" /\ store' = "ok" /\ faults' = faults
Failed  == store' \in {"ok", "poisoned"} /\ faults' = faults + 1

LEMMA AppendFails ==
  ASSUME NEW e, Types, store = "ok", Refused(e) \/ Rejected
  PROVE  Failed /\ proj' \in {proj, Apply(proj, e)} /\ (store' = "ok" => proj' = proj)
BY DEF Types, Refused, Rejected, Failed

LEMMA NoteAppended ==
  ASSUME LogReads, Types, store = "ok", NEW type, NEW large \in BOOLEAN, NEW next, Append_(Note(type), large, next)
  PROVE  proj' = proj /\ ((Written /\ at' = next) \/ (Failed /\ at' = "catch"))
<1>1. Apply(proj, Note(type)) = proj
  BY NoteKeeps
<1>2. CASE Logged(Note(type)) /\ at' = next
  BY <1>1, <1>2 DEF Logged, Written
<1>3. CASE (Refused(Note(type)) \/ Rejected) /\ at' = "catch"
  <2>1. Failed /\ proj' \in {proj, Apply(proj, Note(type))}
    BY <1>3, AppendFails
  <2> QED BY <1>1, <1>3, <2>1
<1> QED BY <1>2, <1>3 DEF Append_, Throws

LEMMA Same == ASSUME LogReads, proj' = proj PROVE LogReads' /\ Stays
BY DEF LogReads, Stays, TurnOf, StepOf, CallOf, ApprovalOf

LEMMA Kinds == Ids["turn"] = 1..MaxTurns /\ Ids["step"] = 1..MaxTurns * MaxSteps
               /\ Ids["toolCall"] = Calls /\ Ids["approval"] = Calls /\ Calls = 1..MaxCalls /\ MaxCalls \in Nat /\ MaxSteps \in Nat
               /\ MaxTurns \in Nat
BY TurnAssumption DEF Calls

\* No state of an entity is Absent.
LEMMA Absentees ==
  Absent \notin {"open", "closed", "settled", "aborted", "errored", "proposed", "awaiting_approval", "executing", "denied",
                 "succeeded", "failed", "cancelled", "interrupted", "pending", "allowed", "rejected", "unavailable"}
BY AbsentAssumption, OpenNames, MachineNames

LEMMA Entities ==
  ASSUME LogReads
  PROVE  /\ TurnOf \in [Ids["turn"] -> States("turn") \cup {Absent}]
         /\ StepOf \in [Ids["step"] -> States("step") \cup {Absent}]
         /\ CallOf \in [Calls -> States("toolCall") \cup {Absent}]
         /\ ApprovalOf \in [Calls -> States("approval") \cup {Absent}]
BY Kinds, MachineNames DEF LogReads, ProjectionOK, TurnOf, StepOf, CallOf, ApprovalOf

\* The call whose turn it is.
LEMMA HeadCall ==
  ASSUME Batched, batch # <<>>
  PROVE  /\ C = Served + 1 /\ C \in Calls /\ base < C /\ C <= call /\ Len(batch) \in Nat \ {0}
         /\ Tail(batch) \in Seq(Nat) /\ Len(Tail(batch)) = Len(batch) - 1
         /\ \A i \in 1..Len(batch) - 1 : Tail(batch)[i] = C + i
<1>1. Len(batch) \in Nat \ {0}
  BY DEF Batched
<1>2. C = batch[1]
  BY <1>1 DEF C, Batched
<1>3. \A i \in 1..Len(batch) - 1 : Tail(batch)[i] = batch[i + 1]
  BY <1>1 DEF Batched
<1>4. Tail(batch) \in Seq(Nat) /\ Len(Tail(batch)) = Len(batch) - 1
  BY <1>1 DEF Batched
<1> QED BY <1>1, <1>2, <1>3, <1>4, Kinds DEF Batched, Served

-----------------------------------------------------------------------------
(* Sequences of steers                                                     *)

LEMMA HasNone == Ascending(<<>>) /\ (\A n : ~Has(<<>>, n)) /\ <<>> \in Seq(Nat)
BY DEF Ascending, Has

LEMMA HasNat == ASSUME NEW s \in Seq(Nat), NEW n, Has(s, n) PROVE n \in Nat
BY DEF Has

LEMMA HasAppended ==
  ASSUME NEW s \in Seq(Nat), NEW x \in Nat
  PROVE  /\ Append(s, x) \in Seq(Nat) /\ Len(Append(s, x)) = Len(s) + 1
         /\ \A n : Has(Append(s, x), n) <=> Has(s, n) \/ n = x
         /\ Ascending(s) /\ (\A n \in Nat : Has(s, n) => n < x) => Ascending(Append(s, x))
<1> DEFINE t == Append(s, x)
<1>1. t \in Seq(Nat) /\ Len(s) \in Nat /\ Len(t) = Len(s) + 1 /\ t[Len(s) + 1] = x /\ \A i \in 1..Len(s) : t[i] = s[i]
  OBVIOUS
<1> HIDE DEF t
<1>2. ASSUME NEW n PROVE Has(t, n) <=> Has(s, n) \/ n = x
  <2>1. ASSUME Has(t, n) PROVE Has(s, n) \/ n = x
    BY <1>1, <2>1 DEF Has
  <2>2. ASSUME Has(s, n) PROVE Has(t, n)
    BY <1>1, <2>2 DEF Has
  <2>3. Has(t, x)
    BY <1>1 DEF Has
  <2> QED BY <2>1, <2>2, <2>3
<1>3. ASSUME Ascending(s), \A n \in Nat : Has(s, n) => n < x PROVE Ascending(t)
  <2>1. \A i \in 1..Len(s) : s[i] \in Nat /\ Has(s, s[i])
    BY DEF Has
  <2>2. SUFFICES ASSUME NEW i \in 1..Len(t), NEW j \in 1..Len(t), i < j PROVE t[i] < t[j]
    BY DEF Ascending
  <2>6. Len(s) \in Nat /\ Len(t) = Len(s) + 1
    BY <1>1
  <2>7. i \in 1..Len(s) /\ (j \in 1..Len(s) \/ j = Len(s) + 1)
    BY <2>2, <2>6
  <2>3. i \in 1..Len(s) /\ t[i] = s[i] /\ (j \in 1..Len(s) \/ j = Len(s) + 1)
    BY <1>1, <2>7
  <2>4. CASE j \in 1..Len(s)
    <3>1. s[i] < s[j]
      BY <1>3, <2>2, <2>3, <2>4 DEF Ascending
    <3> QED BY <1>1, <2>3, <2>4, <3>1
  <2>5. CASE j = Len(s) + 1
    <3>1. s[i] < x
      BY <1>3, <2>1, <2>3
    <3> QED BY <1>1, <2>3, <2>5, <3>1
  <2> QED BY <2>3, <2>4, <2>5
<1> QED BY <1>1, <1>2, <1>3 DEF t

LEMMA HasHead ==
  ASSUME NEW s \in Seq(Nat), s # <<>>
  PROVE  /\ Head(s) \in Nat /\ Tail(s) \in Seq(Nat) /\ Len(Tail(s)) = Len(s) - 1 /\ Len(s) \in Nat \ {0}
         /\ \A n : Has(s, n) <=> n = Head(s) \/ Has(Tail(s), n)
         /\ Ascending(s) => Ascending(Tail(s)) /\ \A n \in Nat : Has(Tail(s), n) => Head(s) < n
<1> DEFINE t == Tail(s)
           h == Head(s)
<1>1. /\ h \in Nat /\ t \in Seq(Nat) /\ Len(s) \in Nat \ {0} /\ Len(t) = Len(s) - 1 /\ h = s[1]
      /\ \A i \in 1..Len(t) : t[i] = s[i + 1]
  OBVIOUS
<1> HIDE DEF t, h
<1>2. ASSUME NEW n PROVE Has(s, n) <=> n = h \/ Has(t, n)
  <2>1. ASSUME NEW i \in 1..Len(s), s[i] = n PROVE n = h \/ Has(t, n)
    <3>1. CASE i = 1
      BY <1>1, <2>1, <3>1
    <3>2. CASE i # 1
      <4>1. i - 1 \in 1..Len(t) /\ t[i - 1] = n
        BY <1>1, <2>1, <3>2
      <4> QED BY <4>1 DEF Has
    <3> QED BY <3>1, <3>2
  <2>2. ASSUME NEW i \in 1..Len(t), t[i] = n PROVE Has(s, n)
    <3>1. i + 1 \in 1..Len(s) /\ s[i + 1] = n
      BY <1>1, <2>2
    <3> QED BY <3>1 DEF Has
  <2>3. Has(s, h)
    BY <1>1 DEF Has
  <2> QED BY <2>1, <2>2, <2>3 DEF Has
<1>3. ASSUME Ascending(s) PROVE Ascending(t) /\ \A n \in Nat : Has(t, n) => h < n
  <2>1. \A i, j \in 1..Len(t) : i < j => t[i] < t[j]
    <3>1. TAKE i, j \in 1..Len(t)
    <3>2. i + 1 \in 1..Len(s) /\ j + 1 \in 1..Len(s)
      BY <1>1
    <3>3. t[i] = s[i + 1] /\ t[j] = s[j + 1] /\ (i + 1 < j + 1 <=> i < j)
      BY <1>1
    <3>4. i + 1 < j + 1 => s[i + 1] < s[j + 1]
      BY <1>3, <3>2 DEF Ascending
    <3> QED BY <3>3, <3>4
  <2>2. ASSUME NEW i \in 1..Len(t) PROVE h < t[i]
    <3>1. 1 \in 1..Len(s) /\ i + 1 \in 1..Len(s) /\ 1 < i + 1
      BY <1>1
    <3>2. s[1] < s[i + 1]
      BY <1>3, <3>1 DEF Ascending
    <3> QED BY <1>1, <3>2
  <2> QED BY <2>1, <2>2 DEF Ascending, Has
<1> QED BY <1>1, <1>2, <1>3 DEF t, h

LEMMA HasJoined ==
  ASSUME NEW s \in Seq(Nat), NEW t \in Seq(Nat)
  PROVE  /\ s \o t \in Seq(Nat)
         /\ \A n : Has(s \o t, n) <=> Has(s, n) \/ Has(t, n)
         /\ Ascending(s) /\ Ascending(t) /\ Below(s, t) => Ascending(s \o t)
<1> DEFINE u == s \o t
<1>1. /\ u \in Seq(Nat) /\ Len(s) \in Nat /\ Len(t) \in Nat /\ Len(u) = Len(s) + Len(t)
      /\ \A i \in 1..Len(s) : u[i] = s[i]
      /\ \A i \in 1..Len(u) : i > Len(s) => u[i] = t[i - Len(s)]
  OBVIOUS
<1>2. \A i \in 1..Len(t) : Len(s) + i \in 1..Len(u) /\ u[Len(s) + i] = t[i]
  BY <1>1
<1> HIDE DEF u
<1>3. ASSUME NEW n PROVE Has(u, n) <=> Has(s, n) \/ Has(t, n)
  <2>1. ASSUME NEW i \in 1..Len(u), u[i] = n PROVE Has(s, n) \/ Has(t, n)
    <3>1. CASE i <= Len(s)
      <4>1. i \in 1..Len(s) /\ s[i] = n
        BY <1>1, <2>1, <3>1
      <4> QED BY <4>1 DEF Has
    <3>2. CASE i > Len(s)
      <4>1. i - Len(s) \in 1..Len(t) /\ t[i - Len(s)] = n
        BY <1>1, <2>1, <3>2
      <4> QED BY <4>1 DEF Has
    <3> QED BY <1>1, <3>1, <3>2
  <2>2. ASSUME NEW i \in 1..Len(s), s[i] = n PROVE Has(u, n)
    <3>1. i \in 1..Len(u) /\ u[i] = n
      BY <1>1, <2>2
    <3> QED BY <3>1 DEF Has
  <2>3. ASSUME NEW i \in 1..Len(t), t[i] = n PROVE Has(u, n)
    BY <1>2, <2>3 DEF Has
  <2> QED BY <2>1, <2>2, <2>3 DEF Has
<1>4. ASSUME Ascending(s), Ascending(t), Below(s, t) PROVE Ascending(u)
  <2>1. SUFFICES ASSUME NEW i \in 1..Len(u), NEW j \in 1..Len(u), i < j PROVE u[i] < u[j]
    BY DEF Ascending
  <2>2. CASE j <= Len(s)
    <3>1. i \in 1..Len(s) /\ j \in 1..Len(s) /\ u[i] = s[i] /\ u[j] = s[j]
      BY <1>1, <2>1, <2>2
    <3> QED BY <1>4, <2>1, <3>1 DEF Ascending
  <2>3. CASE i <= Len(s) /\ j > Len(s)
    <3>1. i \in 1..Len(s) /\ j - Len(s) \in 1..Len(t)
      BY <1>1, <2>3
    <3>2. u[i] = s[i] /\ u[j] = t[j - Len(s)]
      <4>1. u[i] = s[i]
        BY <1>1, <3>1
      <4>2. j \in 1..Len(u) /\ j > Len(s)
        BY <2>3
      <4> QED BY <1>1, <4>1, <4>2
    <3>3. s[i] \in Nat /\ t[j - Len(s)] \in Nat
      BY <3>1
    <3>4. Has(s, u[i]) /\ Has(t, u[j]) /\ u[i] \in Nat /\ u[j] \in Nat
      BY <3>1, <3>2, <3>3 DEF Has
    <3> QED BY <1>4, <3>4 DEF Below
  <2>4. CASE i > Len(s)
    <3>1. i - Len(s) \in 1..Len(t) /\ j - Len(s) \in 1..Len(t) /\ i - Len(s) < j - Len(s)
      BY <1>1, <2>1, <2>4
    <3>2. u[i] = t[i - Len(s)] /\ u[j] = t[j - Len(s)]
      BY <1>1, <2>1, <2>4
    <3> QED BY <1>4, <3>1, <3>2 DEF Ascending
  <2> QED BY <1>1, <2>2, <2>3, <2>4
<1> QED BY <1>1, <1>3, <1>4 DEF u

-----------------------------------------------------------------------------
(* The actions                                                             *)

\* What is allotted to the turns so far is within what there is for all of them.
LEMMA AllotmentBound ==
  ASSUME turn \in 0..MaxTurns
  PROVE  turn * MaxSteps \in Nat /\ turn * MaxSteps <= MaxTurns * MaxSteps /\ (turn + 1) * MaxSteps = turn * MaxSteps + MaxSteps
BY Kinds

USE Kinds, Absentees
USE DEF counters, step_vars, gateway, user, Stays, Written, Failed, Places, Turning, Stepping, Batching, Calling, Invoking, Resting,
        Answers, Results, OpenCall

\* The steers are left alone by whatever else happens.
LEMMA SteeringStays ==
  ASSUME Types, Steering, UNCHANGED <<steers, crashes>>,
         told'.steered = told.steered, told'.leftover = told.leftover, told'.given = told.given,
         \/ UNCHANGED <<store, faults>>
         \/ Failed /\ store = "ok"
  PROVE  Steering'
<1>1. faults' = 0 => faults = 0 /\ store' = store
  BY DEF Types
<1>2. store' = "ok" => store = "ok"
  OBVIOUS
<1> QED BY <1>1, <1>2 DEF Steering

(* An append of the driver that fails leaves the turn to catch.            *)
GivesUp ==
  /\ at \in Turning /\ store = "ok" /\ Failed /\ at' = "catch"
  /\ LogReads' /\ (store' = "ok" => Stays)
  /\ UNCHANGED <<turn, call, base, batch, aborted, crashes>>
  /\ told'.answers = told.answers /\ told'.late = told.late

LEMMA FailureKeeps ==
  ASSUME Inv, GivesUp, Types', Counted', Unknown', Told', Steering'
  PROVE  Inv'
<1> USE DEF Inv, GivesUp
<1>1. faults' # 0
  BY DEF Types
<1>2. (Poisoned /\ Ended /\ InCall /\ Planned)'
  BY DEF Poisoned, Ended, InCall, Planned
<1>3. (Late /\ Answered)'
  BY DEF Late, Answered, Served
<1>4. (Batched /\ ServedClosed)'
  BY <1>1 DEF Batched, Served, ServedClosed, Returned
<1>5. InTurn'
  BY DEF InTurn, Returned
<1> QED BY <1>2, <1>3, <1>4, <1>5

(* An append of the gateway that fails ends the call, and if the log has   *)
(* not grown since the invocation began, the turn.                         *)
CallFails ==
  /\ at \in Calling /\ store = "ok" /\ Failed /\ at' \in {"reply", "catch"}
  /\ LogReads' /\ TurnOf' = TurnOf /\ StepOf' = StepOf /\ (store' = "ok" => Stays)
  /\ \A c \in Calls \ {C} : CallOf'[c] = CallOf[c] /\ ApprovalOf'[c] = ApprovalOf[c]
  /\ UNCHANGED <<counters, batch, ending, aborted, steers, crashes, told>>

LEMMA CallFailureKeeps ==
  ASSUME Inv, CallFails, Types', Told'
  PROVE  Inv'
<1> USE DEF Inv, CallFails
<1>1. faults' # 0 /\ batch # <<>> /\ C = Served + 1
  BY HeadCall DEF Types, Batched
<1>2. (Poisoned /\ Ended /\ InCall /\ Planned /\ Late)'
  BY <1>1 DEF Poisoned, Ended, InCall, Planned, Late
<1>3. (Counted /\ Answered)'
  BY DEF Counted, Allotted, Answered, Served
<1>4. (Batched /\ ServedClosed)'
  BY <1>1 DEF Batched, Served, ServedClosed, Returned
<1>5. InTurn'
  BY <1>1 DEF InTurn, Returned
<1>6. Touched \in Nat /\ Touched <= Served + 1 /\ Touched' = Served + 1 /\ Served \in Nat /\ Served + 1 = C
  BY <1>1, HeadCall DEF Touched, Served, Batched
<1>7. told' = told /\ turn' = turn /\ step' = step
  OBVIOUS
<1>8. Unknown'
  <2>1. TurnOf' = TurnOf /\ StepOf' = StepOf
    OBVIOUS
  <2>2. ASSUME NEW c \in Calls, c > Touched'
        PROVE  CallOf'[c] = Absent /\ ApprovalOf'[c] = Absent /\ told'.executed[c] = 0
    <3>1. c # C /\ c > Touched
      BY <1>6, <2>2
    <3>2. CallOf'[c] = CallOf[c] /\ ApprovalOf'[c] = ApprovalOf[c]
      BY <3>1
    <3> QED BY <1>7, <3>1, <3>2 DEF Unknown
  <2> QED BY <1>7, <2>1, <2>2 DEF Unknown
<1>9. Steering'
  BY SteeringStays
<1> QED BY <1>2, <1>3, <1>4, <1>5, <1>8, <1>9

\* A note that cannot be appended.
LEMMA NoteFailureKeeps ==
  ASSUME Inv, at \in Turning, store = "ok", Failed, at' = "catch", proj' = proj, Types',
         UNCHANGED <<counters, batch, steers, aborted, crashes, told>>
  PROVE  Inv'
<1> USE DEF Inv
<1>1. LogReads' /\ Stays
  BY Same
<1>2. Counted' /\ Told'
  BY <1>1 DEF Counted, Allotted, Told
<1>3. Unknown'
  <2>1. Touched \in Nat /\ Touched' \in Nat /\ Touched <= Touched'
    BY DEF Touched, Served, Batched
  <2>2. \A c \in Calls : c > Touched' => c > Touched
    BY <2>1
  <2> QED BY <1>1, <2>2 DEF Unknown
<1>4. Steering'
  BY SteeringStays
<1>5. GivesUp
  BY <1>1 DEF GivesUp
<1> QED BY <1>2, <1>3, <1>4, <1>5, FailureKeeps

LEMMA UserMessageKeeps == ASSUME Inv, UserMessage PROVE Inv'
<1> USE DEF Inv
<1>1. at = "user" /\ store = "ok"
  BY DEF UserMessage, Poisoned, Types, Batched
<1>2. proj' = proj /\ ((UNCHANGED <<store, faults>> /\ at' = "loop") \/ (Failed /\ at' = "catch"))
  BY <1>1, NoteAppended DEF UserMessage, Message, Written
<1>3. UNCHANGED <<counters, step_vars, outcome, gateway, user, closings, crashes, told>>
  BY DEF UserMessage
<1>4. LogReads' /\ Stays
  BY <1>2, Same
<1>5. Types'
  <2>1. at' \in Places /\ store' \in {"ok", "poisoned"} /\ faults' \in Nat
    BY <1>1, <1>2 DEF Types
  <2> QED BY <1>3, <2>1 DEF Types, Outcomes
<1>6. CASE Failed /\ at' = "catch"
  BY <1>1, <1>2, <1>3, <1>5, <1>6, NoteFailureKeeps
<1>7. CASE UNCHANGED <<store, faults>> /\ at' = "loop"
  <2>1. (Poisoned)'
    BY <1>1, <1>3, <1>4, <1>7 DEF Types, Poisoned, Outcomes
  <2>2. (Counted /\ Ended)'
    BY <1>1, <1>3, <1>4, <1>7 DEF Counted, Allotted, Ended, Batched
  <2>3. (Batched /\ Unknown)'
    BY <1>1, <1>3, <1>4, <1>7 DEF Batched, Served, Unknown, Touched, Returned
  <2>4. (InTurn /\ InCall)'
    BY <1>1, <1>3, <1>4, <1>7 DEF InTurn, Returned, InCall, Permitted, C
  <2>5. (Told /\ ServedClosed)'
    BY <1>1, <1>3, <1>4, <1>7 DEF Types, Told, ServedClosed, Closed, Served, Returned, Batched, C
  <2>6. (Answered /\ Late /\ Planned)'
    BY <1>1, <1>3, <1>4, <1>7 DEF Types, Answered, Served, Batched, Late, Planned
  <2>7. Steering'
    BY <1>3, <1>7, SteeringStays
  <2> QED BY <1>4, <1>5, <2>1, <2>2, <2>3, <2>4, <2>5, <2>6, <2>7
<1> QED BY <1>2, <1>6, <1>7

LEMMA FlushImagesKeeps == ASSUME Inv, FlushImages PROVE Inv'
<1> USE DEF Inv
<1>1. at = "batch" /\ batch = <<>> /\ store = "ok"
  BY DEF FlushImages, Poisoned, Types, Batched
<1>2. proj' = proj /\ ((UNCHANGED <<store, faults>> /\ at' = "images") \/ (Failed /\ at' = "catch"))
  BY <1>1, NoteAppended DEF FlushImages, Message, Written
<1>3. UNCHANGED <<counters, step_vars, outcome, gateway, user, closings, crashes, told>>
  BY DEF FlushImages
<1>4. LogReads' /\ Stays
  BY <1>2, Same
<1>5. Types'
  <2>1. at' \in Places /\ store' \in {"ok", "poisoned"} /\ faults' \in Nat
    BY <1>1, <1>2 DEF Types
  <2> QED BY <1>3, <2>1 DEF Types, Outcomes
<1>6. CASE Failed /\ at' = "catch"
  BY <1>1, <1>2, <1>3, <1>5, <1>6, NoteFailureKeeps
<1>7. CASE UNCHANGED <<store, faults>> /\ at' = "images"
  <2>1. (Poisoned)'
    BY <1>1, <1>3, <1>4, <1>7 DEF Types, Poisoned, Outcomes
  <2>2. (Counted /\ Ended)'
    BY <1>1, <1>3, <1>4, <1>7 DEF Counted, Allotted, Ended, Batched
  <2>3. (Batched /\ Unknown)'
    BY <1>1, <1>3, <1>4, <1>7 DEF Batched, Served, Unknown, Touched, Returned
  <2>4. (InTurn /\ InCall)'
    BY <1>1, <1>3, <1>4, <1>7 DEF InTurn, Returned, InCall, Permitted, C
  <2>5. (Told /\ ServedClosed)'
    BY <1>1, <1>3, <1>4, <1>7 DEF Types, Told, ServedClosed, Closed, Served, Returned, Batched, C
  <2>6. (Answered /\ Late /\ Planned)'
    BY <1>1, <1>3, <1>4, <1>7 DEF Types, Answered, Served, Batched, Late, Planned
  <2>7. Steering'
    BY <1>3, <1>7, SteeringStays
  <2> QED BY <1>4, <1>5, <2>1, <2>2, <2>3, <2>4, <2>5, <2>6, <2>7
<1> QED BY <1>2, <1>6, <1>7

LEMMA PrepareKeeps == ASSUME Inv, Prepare PROVE Inv'
<1> USE DEF Inv
<1>1. at = "prepare" /\ batch = <<>> /\ store = "ok"
  BY DEF Prepare, Poisoned, Types, Batched
<1>2. proj' = proj /\ ((UNCHANGED <<store, faults>> /\ ((at' = "stream" /\ ending' = ending) \/ (at' = "endStep" /\ ending' \in Endings))) \/ (Failed /\ at' = "catch"))
  <2>1. CASE Append_(Note("model/request_prepared"), TRUE, "stream") /\ UNCHANGED ending
    BY <1>1, <2>1, NoteAppended DEF Written
  <2>2. CASE /\ UNCHANGED log
             /\ EndWith("aborted", "cancelled") \/ EndWith("errored", "failed") \/ EndWith("aborted", "budget_exceeded")
    BY <2>2 DEF EndWith, Endings, log
  <2> QED BY <1>1, <2>1, <2>2 DEF Prepare
<1>3. UNCHANGED <<counters, batch, asked, outcome, gateway, user, closings, crashes, told>>
  BY DEF Prepare
<1>4. LogReads' /\ Stays
  BY <1>2, Same
<1>5. Types'
  <2>1. at' \in Places /\ store' \in {"ok", "poisoned"} /\ faults' \in Nat
    BY <1>1, <1>2 DEF Types
  <2> QED BY <1>3, <2>1 DEF Types, Outcomes
<1>6. CASE Failed /\ at' = "catch"
  BY <1>1, <1>2, <1>3, <1>5, <1>6, NoteFailureKeeps
<1>7. CASE UNCHANGED <<store, faults>> /\ ((at' = "stream" /\ ending' = ending) \/ (at' = "endStep" /\ ending' \in Endings))
  <2>1. (Poisoned)'
    BY <1>1, <1>3, <1>4, <1>7 DEF Types, Poisoned, Outcomes
  <2>2. (Counted /\ Ended)'
    BY <1>1, <1>3, <1>4, <1>7 DEF Counted, Allotted, Ended, Batched
  <2>3. (Batched /\ Unknown)'
    BY <1>1, <1>3, <1>4, <1>7 DEF Batched, Served, Unknown, Touched, Returned
  <2>4. (InTurn /\ InCall)'
    BY <1>1, <1>3, <1>4, <1>7 DEF InTurn, Returned, InCall, Permitted, C
  <2>5. (Told /\ ServedClosed)'
    BY <1>1, <1>3, <1>4, <1>7 DEF Types, Told, ServedClosed, Closed, Served, Returned, Batched, C
  <2>6. (Answered /\ Late /\ Planned)'
    BY <1>1, <1>3, <1>4, <1>7 DEF Types, Answered, Served, Batched, Late, Planned
  <2>7. Steering'
    BY <1>3, <1>7, SteeringStays
  <2> QED BY <1>4, <1>5, <2>1, <2>2, <2>3, <2>4, <2>5, <2>6, <2>7
<1> QED BY <1>2, <1>6, <1>7

LEMMA RecordResponseKeeps == ASSUME Inv, RecordResponse PROVE Inv'
<1> USE DEF Inv
<1>1. at \in {"failure", "assistant", "settled", "usage"} /\ store = "ok"
  BY DEF RecordResponse, Poisoned, Types, Batched
<1>2. proj' = proj /\ ((UNCHANGED <<store, faults>> /\ ((at = "failure" /\ at' = "usage") \/ (at = "assistant" /\ at' = "settled") \/ (at = "settled" /\ at' = "usage")
        \/ (at = "usage" /\ at' = (IF ending = NoEnding THEN "batch" ELSE "endStep")))) \/ (Failed /\ at' = "catch"))
  <2> DEFINE next == CASE at = "assistant" -> "settled" [] at \in {"failure", "settled"} -> "usage"
                       [] OTHER -> IF ending = NoEnding THEN "batch" ELSE "endStep"
  <2>1. CASE at = "failure"
    BY <1>1, <2>1, NoteAppended DEF RecordResponse, Message, Written
  <2>2. CASE at = "assistant"
    BY <1>1, <2>2, NoteAppended DEF RecordResponse, Message, Written
  <2>3. CASE at = "settled"
    BY <1>1, <2>3, NoteAppended DEF RecordResponse, Message, Written
  <2>4. CASE at = "usage"
    <3>1. \/ Append_(Note("provider/usage"), FALSE, next)
          \/ at' = next /\ UNCHANGED log
      BY <2>4 DEF RecordResponse
    <3>2. next = IF ending = NoEnding THEN "batch" ELSE "endStep"
      BY <2>4
    <3> HIDE DEF next
    <3>3. CASE Append_(Note("provider/usage"), FALSE, next)
      BY <1>1, <2>4, <3>2, <3>3, NoteAppended DEF Written
    <3>4. CASE at' = next /\ UNCHANGED log
      BY <2>4, <3>2, <3>4 DEF log
    <3> QED BY <3>1, <3>3, <3>4
  <2> QED BY <1>1, <2>1, <2>2, <2>3, <2>4
<1>3. UNCHANGED <<counters, step_vars, outcome, gateway, user, closings, crashes, told>>
  BY DEF RecordResponse
<1>4. LogReads' /\ Stays
  BY <1>2, Same
<1>5. Types'
  <2>1. at' \in Places /\ store' \in {"ok", "poisoned"} /\ faults' \in Nat
    BY <1>1, <1>2 DEF Types
  <2> QED BY <1>3, <2>1 DEF Types, Outcomes
<1>6. CASE Failed /\ at' = "catch"
  BY <1>1, <1>2, <1>3, <1>5, <1>6, NoteFailureKeeps
<1>7. CASE UNCHANGED <<store, faults>> /\ ((at = "failure" /\ at' = "usage") \/ (at = "assistant" /\ at' = "settled") \/ (at = "settled" /\ at' = "usage")
        \/ (at = "usage" /\ at' = (IF ending = NoEnding THEN "batch" ELSE "endStep")))
  <2>1. (Poisoned)'
    BY <1>1, <1>3, <1>4, <1>7 DEF Types, Poisoned, Outcomes
  <2>2. (Counted /\ Ended)'
    BY <1>1, <1>3, <1>4, <1>7 DEF Counted, Allotted, Ended, Batched
  <2>3. (Batched /\ Unknown)'
    BY <1>1, <1>3, <1>4, <1>7 DEF Batched, Served, Unknown, Touched, Returned, Ended
  <2>4. (InTurn /\ InCall)'
    BY <1>1, <1>3, <1>4, <1>7 DEF InTurn, Returned, InCall, Permitted, C
  <2>5. (Told /\ ServedClosed)'
    BY <1>1, <1>3, <1>4, <1>7 DEF Types, Told, ServedClosed, Closed, Served, Returned, Batched, C
  <2>6. (Answered /\ Late /\ Planned)'
    BY <1>1, <1>3, <1>4, <1>7 DEF Types, Answered, Served, Batched, Late, Planned
  <2>7. Steering'
    BY <1>3, <1>7, SteeringStays
  <2> QED BY <1>4, <1>5, <2>1, <2>2, <2>3, <2>4, <2>5, <2>6, <2>7
<1> QED BY <1>2, <1>6, <1>7

LEMMA LeaveLoopKeeps == ASSUME Inv, LeaveLoop PROVE Inv'
<1> USE DEF Inv
<1>1. at = "loop" /\ batch = <<>>
  BY DEF LeaveLoop, Batched
<1>2. proj' = proj /\ UNCHANGED <<store, faults>>
  BY DEF LeaveLoop, log
<1>3. LogReads' /\ Stays
  BY <1>2, Same
<1>4. (Types /\ Poisoned)'
  BY <1>1, <1>2, <1>3 DEF LeaveLoop, Types, Poisoned, Outcomes
<1>5. (Counted /\ Ended)'
  BY <1>1, <1>2, <1>3 DEF LeaveLoop, Counted, Allotted, Ended, Batched
<1>6. (Batched /\ Unknown)'
  BY <1>1, <1>2, <1>3 DEF LeaveLoop, Batched, Served, Unknown, Touched, Returned
<1>7. (InTurn /\ InCall)'
  BY <1>1, <1>2, <1>3 DEF LeaveLoop, InTurn, Returned, InCall, Permitted, C
<1>8. (Told /\ ServedClosed)'
  BY <1>1, <1>2, <1>3 DEF LeaveLoop, Types, Told, ServedClosed, Closed, Served, Returned, Batched, C
<1>9. (Answered /\ Late /\ Planned)'
  BY <1>1, <1>2, <1>3 DEF LeaveLoop, Types, Answered, Served, Batched, Late, Planned
<1>10. Steering'
  BY <1>2, SteeringStays DEF LeaveLoop
<1> QED BY <1>3, <1>4, <1>5, <1>6, <1>7, <1>8, <1>9, <1>10

LEMMA StreamFailedKeeps == ASSUME Inv, StreamFailed PROVE Inv'
<1> USE DEF Inv
<1>1. at = "stream" /\ batch = <<>> /\ ending' \in Endings
  BY DEF StreamFailed, Batched, Endings
<1>2. proj' = proj /\ UNCHANGED <<store, faults>>
  BY DEF StreamFailed, log
<1>3. LogReads' /\ Stays
  BY <1>2, Same
<1>4. (Types /\ Poisoned)'
  BY <1>1, <1>2, <1>3 DEF StreamFailed, Types, Poisoned, Outcomes
<1>5. (Counted /\ Ended)'
  BY <1>1, <1>2, <1>3 DEF StreamFailed, Counted, Allotted, Ended, Batched
<1>6. (Batched /\ Unknown)'
  BY <1>1, <1>2, <1>3 DEF StreamFailed, Batched, Served, Unknown, Touched, Returned
<1>7. (InTurn /\ InCall)'
  BY <1>1, <1>2, <1>3 DEF StreamFailed, InTurn, Returned, InCall, Permitted, C
<1>8. (Told /\ ServedClosed)'
  BY <1>1, <1>2, <1>3 DEF StreamFailed, Types, Told, ServedClosed, Closed, Served, Returned, Batched, C
<1>9. (Answered /\ Late /\ Planned)'
  BY <1>1, <1>2, <1>3 DEF StreamFailed, Types, Answered, Served, Batched, Late, Planned
<1>10. Steering'
  BY <1>2, SteeringStays DEF StreamFailed
<1> QED BY <1>3, <1>4, <1>5, <1>6, <1>7, <1>8, <1>9, <1>10

LEMMA NextCallKeeps == ASSUME Inv, NextCall PROVE Inv'
<1> USE DEF Inv
<1>1. at = "batch" /\ batch # <<>> /\ (at' = "skip" => ending' \in Endings)
  BY DEF NextCall, Endings
<1>2. proj' = proj /\ UNCHANGED <<store, faults>>
  BY DEF NextCall, log
<1>3. LogReads' /\ Stays
  BY <1>2, Same
<1>4. (Types /\ Poisoned)'
  BY <1>1, <1>2, <1>3 DEF NextCall, Types, Poisoned, Outcomes
<1>5. (Counted /\ Ended)'
  BY <1>1, <1>2, <1>3 DEF NextCall, Counted, Allotted, Ended, Batched
<1>6. (Batched /\ Unknown)'
  BY <1>1, <1>2, <1>3 DEF NextCall, Batched, Served, Unknown, Touched, Returned
<1>7. (InTurn /\ InCall)'
  BY <1>1, <1>2, <1>3 DEF NextCall, InTurn, Returned, InCall, Permitted, C
<1>8. (Told /\ ServedClosed)'
  BY <1>1, <1>2, <1>3 DEF NextCall, Types, Told, ServedClosed, Closed, Served, Returned, Batched, C
<1>9. (Answered /\ Late /\ Planned)'
  BY <1>1, <1>2, <1>3 DEF NextCall, Types, Answered, Served, Batched, Late, Planned
<1>10. Steering'
  BY <1>2, SteeringStays DEF NextCall
<1> QED BY <1>3, <1>4, <1>5, <1>6, <1>7, <1>8, <1>9, <1>10

LEMMA BatchDoneKeeps == ASSUME Inv, BatchDone PROVE Inv'
<1> USE DEF Inv
<1>1. at \in {"batch", "images"} /\ batch = <<>> /\ ending' \in Endings /\ at' = "endStep"
  BY DEF BatchDone, EndWith, Endings
<1>2. proj' = proj /\ UNCHANGED <<store, faults>>
  BY DEF BatchDone, log
<1>3. LogReads' /\ Stays
  BY <1>2, Same
<1>4. (Types /\ Poisoned)'
  BY <1>1, <1>2, <1>3 DEF BatchDone, Types, Poisoned, Outcomes
<1>5. (Counted /\ Ended)'
  BY <1>1, <1>2, <1>3 DEF BatchDone, Counted, Allotted, Ended, Batched
<1>6. (Batched /\ Unknown)'
  BY <1>1, <1>2, <1>3 DEF BatchDone, Batched, Served, Unknown, Touched, Returned
<1>7. (InTurn /\ InCall)'
  BY <1>1, <1>2, <1>3 DEF BatchDone, InTurn, Returned, InCall, Permitted, C
<1>8. (Told /\ ServedClosed)'
  BY <1>1, <1>2, <1>3 DEF BatchDone, Types, Told, ServedClosed, Closed, Served, Returned, Batched, C
<1>9. (Answered /\ Late /\ Planned)'
  BY <1>1, <1>2, <1>3 DEF BatchDone, Types, Answered, Served, Batched, Late, Planned
<1>10. Steering'
  BY <1>2, SteeringStays DEF BatchDone
<1> QED BY <1>3, <1>4, <1>5, <1>6, <1>7, <1>8, <1>9, <1>10

LEMMA InvalidKeeps == ASSUME Inv, Invalid PROVE Inv'
<1> USE DEF Inv
<1>1. at = "decide" /\ at' = "result" /\ result' = "denied"
  BY DEF Invalid, Finish
<1>2. proj' = proj /\ UNCHANGED <<store, faults>>
  BY DEF Invalid, log
<1>3. LogReads' /\ Stays
  BY <1>2, Same
<1>4. (Types /\ Poisoned)'
  BY <1>1, <1>2, <1>3 DEF Invalid, Types, Poisoned, Outcomes
<1>5. (Counted /\ Ended)'
  BY <1>1, <1>2, <1>3 DEF Invalid, Counted, Allotted, Ended, Batched
<1>6. (Batched /\ Unknown)'
  BY <1>1, <1>2, <1>3 DEF Invalid, Batched, Served, Unknown, Touched, Returned
<1>7. (InTurn /\ InCall)'
  BY <1>1, <1>2, <1>3 DEF Invalid, InTurn, Returned, InCall, Permitted, C
<1>8. (Told /\ ServedClosed)'
  BY <1>1, <1>2, <1>3 DEF Invalid, Types, Told, ServedClosed, Closed, Served, Returned, Batched, C
<1>9. (Answered /\ Late /\ Planned)'
  BY <1>1, <1>2, <1>3 DEF Invalid, Types, Answered, Served, Batched, Late, Planned
<1>10. Steering'
  BY <1>2, SteeringStays DEF Invalid
<1> QED BY <1>3, <1>4, <1>5, <1>6, <1>7, <1>8, <1>9, <1>10

LEMMA AnswerKeeps == ASSUME Inv, Answer PROVE Inv'
<1> USE DEF Inv
<1>1. at = "broker" /\ at' = "answer" /\ answer' \in Answers
  BY DEF Answer
<1>2. proj' = proj /\ UNCHANGED <<store, faults>>
  BY DEF Answer, log
<1>3. LogReads' /\ Stays
  BY <1>2, Same
<1>4. (Types /\ Poisoned)'
  BY <1>1, <1>2, <1>3 DEF Answer, Types, Poisoned, Outcomes
<1>5. (Counted /\ Ended)'
  BY <1>1, <1>2, <1>3 DEF Answer, Counted, Allotted, Ended, Batched
<1>6. (Batched /\ Unknown)'
  BY <1>1, <1>2, <1>3 DEF Answer, Batched, Served, Unknown, Touched, Returned
<1>7. (InTurn /\ InCall)'
  BY <1>1, <1>2, <1>3 DEF Answer, InTurn, Returned, InCall, Permitted, C
<1>8. (Told /\ ServedClosed)'
  BY <1>1, <1>2, <1>3 DEF Answer, Types, Told, ServedClosed, Closed, Served, Returned, Batched, C
<1>9. (Answered /\ Late /\ Planned)'
  BY <1>1, <1>2, <1>3 DEF Answer, Types, Answered, Served, Batched, Late, Planned
<1>10. Steering'
  BY <1>2, SteeringStays DEF Answer
<1> QED BY <1>3, <1>4, <1>5, <1>6, <1>7, <1>8, <1>9, <1>10

LEMMA NoSandboxKeeps == ASSUME Inv, NoSandbox PROVE Inv'
<1> USE DEF Inv
<1>1. at = "start" /\ at' = "result" /\ result' = "denied"
  BY DEF NoSandbox, Finish
<1>2. proj' = proj /\ UNCHANGED <<store, faults>>
  BY DEF NoSandbox, log
<1>3. LogReads' /\ Stays
  BY <1>2, Same
<1>4. (Types /\ Poisoned)'
  BY <1>1, <1>2, <1>3 DEF NoSandbox, Types, Poisoned, Outcomes
<1>5. (Counted /\ Ended)'
  BY <1>1, <1>2, <1>3 DEF NoSandbox, Counted, Allotted, Ended, Batched
<1>6. (Batched /\ Unknown)'
  BY <1>1, <1>2, <1>3 DEF NoSandbox, Batched, Served, Unknown, Touched, Returned
<1>7. (InTurn /\ InCall)'
  BY <1>1, <1>2, <1>3 DEF NoSandbox, InTurn, Returned, InCall, Permitted, C
<1>8. (Told /\ ServedClosed)'
  BY <1>1, <1>2, <1>3 DEF NoSandbox, Types, Told, ServedClosed, Closed, Served, Returned, Batched, C
<1>9. (Answered /\ Late /\ Planned)'
  BY <1>1, <1>2, <1>3 DEF NoSandbox, Types, Answered, Served, Batched, Late, Planned
<1>10. Steering'
  BY <1>2, SteeringStays DEF NoSandbox
<1> QED BY <1>3, <1>4, <1>5, <1>6, <1>7, <1>8, <1>9, <1>10

LEMMA ToolReturnsKeeps == ASSUME Inv, ToolReturns PROVE Inv'
<1> USE DEF Inv
<1>1. at = "run" /\ at' = "result" /\ result' \in {"succeeded", "failed", "cancelled"}
  BY DEF ToolReturns, Finish
<1>2. proj' = proj /\ UNCHANGED <<store, faults>>
  BY DEF ToolReturns, log
<1>3. LogReads' /\ Stays
  BY <1>2, Same
<1>4. (Types /\ Poisoned)'
  BY <1>1, <1>2, <1>3 DEF ToolReturns, Types, Poisoned, Outcomes
<1>5. (Counted /\ Ended)'
  BY <1>1, <1>2, <1>3 DEF ToolReturns, Counted, Allotted, Ended, Batched
<1>6. (Batched /\ Unknown)'
  BY <1>1, <1>2, <1>3 DEF ToolReturns, Batched, Served, Unknown, Touched, Returned
<1>7. (InTurn /\ InCall)'
  BY <1>1, <1>2, <1>3 DEF ToolReturns, InTurn, Returned, InCall, Permitted, C
<1>8. (Told /\ ServedClosed)'
  BY <1>1, <1>2, <1>3 DEF ToolReturns, Types, Told, ServedClosed, Closed, Served, Returned, Batched, C
<1>9. (Answered /\ Late /\ Planned)'
  BY <1>1, <1>2, <1>3 DEF ToolReturns, Types, Answered, Served, Batched, Late, Planned
<1>10. Steering'
  BY <1>2, SteeringStays DEF ToolReturns
<1> QED BY <1>3, <1>4, <1>5, <1>6, <1>7, <1>8, <1>9, <1>10

LEMMA AbortKeeps == ASSUME Inv, Abort PROVE Inv'
<1> USE DEF Inv
<1>1. at \notin Resting /\ aborted' = TRUE
  BY DEF Abort, Running
<1>2. proj' = proj /\ UNCHANGED <<store, faults>>
  BY DEF Abort, log
<1>3. LogReads' /\ Stays
  BY <1>2, Same
<1>4. (Types /\ Poisoned)'
  BY <1>1, <1>2, <1>3 DEF Abort, Types, Poisoned, Outcomes
<1>5. (Counted /\ Ended)'
  BY <1>1, <1>2, <1>3 DEF Abort, Counted, Allotted, Ended, Batched
<1>6. (Batched /\ Unknown)'
  BY <1>1, <1>2, <1>3 DEF Abort, Batched, Served, Unknown, Touched, Returned
<1>7. (InTurn /\ InCall)'
  BY <1>1, <1>2, <1>3 DEF Abort, InTurn, Returned, InCall, Permitted, C
<1>8. (Told /\ ServedClosed)'
  BY <1>1, <1>2, <1>3 DEF Abort, Types, Told, ServedClosed, Closed, Served, Returned, Batched, C
<1>9. (Answered /\ Late /\ Planned)'
  BY <1>1, <1>2, <1>3 DEF Abort, Types, Answered, Served, Batched, Late, Planned
<1>10. Steering'
  BY <1>2, SteeringStays DEF Abort
<1> QED BY <1>3, <1>4, <1>5, <1>6, <1>7, <1>8, <1>9, <1>10

LEMMA PauseOrResumeKeeps == ASSUME Inv, PauseOrResume PROVE Inv'
<1> USE DEF Inv
<1>1. at \in {"loop", "steer"}
  BY DEF PauseOrResume
<1>2. proj' = proj /\ UNCHANGED <<store, faults>>
  BY DEF PauseOrResume, log
<1>3. LogReads' /\ Stays
  BY <1>2, Same
<1>4. (Types /\ Poisoned)'
  BY <1>1, <1>2, <1>3 DEF PauseOrResume, Types, Poisoned, Outcomes
<1>5. (Counted /\ Ended)'
  BY <1>1, <1>2, <1>3 DEF PauseOrResume, Counted, Allotted, Ended, Batched
<1>6. (Batched /\ Unknown)'
  BY <1>1, <1>2, <1>3 DEF PauseOrResume, Batched, Served, Unknown, Touched, Returned
<1>7. (InTurn /\ InCall)'
  BY <1>1, <1>2, <1>3 DEF PauseOrResume, InTurn, Returned, InCall, Permitted, C
<1>8. (Told /\ ServedClosed)'
  BY <1>1, <1>2, <1>3 DEF PauseOrResume, Types, Told, ServedClosed, Closed, Served, Returned, Batched, C
<1>9. (Answered /\ Late /\ Planned)'
  BY <1>1, <1>2, <1>3 DEF PauseOrResume, Types, Answered, Served, Batched, Late, Planned
<1>10. Steering'
  BY <1>2, SteeringStays DEF PauseOrResume
<1> QED BY <1>3, <1>4, <1>5, <1>6, <1>7, <1>8, <1>9, <1>10

LEMMA SnapshotKeeps == ASSUME Inv, Snapshot PROVE Inv'
<1> USE DEF Inv
<1>1. at = "snapshot" /\ store = "ok" /\ batch # <<>>
  BY DEF Snapshot, Poisoned, Types, Batched
<1>2. C = Served + 1 /\ C \in Calls /\ base < C /\ C <= call /\ Served \in Nat
  BY <1>1, HeadCall DEF Served, Batched
<1>3. batch # <<>>
  BY <1>1, <1>2 DEF Batched
<1>4. CallOf \in [Calls -> States("toolCall") \cup {Absent}] /\ ApprovalOf \in [Calls -> States("approval") \cup {Absent}]
  BY Entities
<1>5. ASSUME proj' = Apply(proj, Note("policy/snapshot"))
      PROVE  LogReads' /\ TurnOf' = TurnOf /\ StepOf' = StepOf /\ CallOf' = CallOf /\ ApprovalOf' = ApprovalOf
  BY <1>1, <1>2, <1>3, <1>5, NoteKeeps, Same DEF Stays
<1>6. CASE Unlogged(Note("policy/snapshot"))
  <2>1. Failed /\ proj' \in {proj, Apply(proj, Note("policy/snapshot"))} /\ (store' = "ok" => proj' = proj)
    BY <1>1, <1>6, AppendFails DEF Unlogged
  <2>2. LogReads' /\ TurnOf' = TurnOf /\ StepOf' = StepOf /\ (Stays \/ (CallOf' = CallOf /\ ApprovalOf' = ApprovalOf))
    BY <1>5, <2>1, Same
  <2>3. at' \in {"reply", "catch"} /\ UNCHANGED <<counters, step_vars, outcome, user, crashes>> /\ told' = told
    BY <1>1, <1>6 DEF Snapshot, Unlogged, Written, Logged
  <2>4. CallFails
    BY <1>1, <1>4, <2>1, <2>2, <2>3, Same DEF CallFails
  <2>5. Types'
    BY <1>1, <2>1, <2>3 DEF Snapshot, Types, Outcomes
  <2>6. Told'
    BY <1>1, <1>2, <1>3, <1>4, <2>2, <2>3 DEF Told
  <2> QED BY <2>4, <2>5, <2>6, CallFailureKeeps
<1>7. CASE Logged(Note("policy/snapshot"))
  <2>1. Written /\ LogReads' /\ TurnOf' = TurnOf /\ StepOf' = StepOf /\ CallOf' = CallOf /\ ApprovalOf' = ApprovalOf
    BY <1>1, <1>5, <1>7 DEF Logged
  <2>2. ~Unlogged(Note("policy/snapshot"))
    <3>1. SUFFICES ASSUME Unlogged(Note("policy/snapshot")) PROVE FALSE
      OBVIOUS
    <3>2. Failed
      BY <1>1, <3>1, AppendFails DEF Unlogged
    <3> QED BY <2>1, <3>2 DEF Types
  <2>3. at' = "propose" /\ UNCHANGED <<counters, step_vars, outcome, endsTurn, user, closings, crashes>> /\ told' = told /\ result' = result /\ answer' = answer /\ grew' = TRUE
        /\ caches'.granted = caches.granted /\ caches' \in [snapshot : BOOLEAN, granted : BOOLEAN]
    BY <1>1, <1>2, <1>3, <2>2 DEF Snapshot, Types
  <2>4. C' = C /\ Served' = Served
    BY <2>3 DEF C, Served
  <2>5. (Types /\ Poisoned)'
    BY <1>1, <1>2, <1>3, <1>4, <2>1, <2>3, <2>4 DEF Types, Poisoned, Outcomes
  <2>6. (Counted /\ Ended)'
    BY <1>1, <1>2, <1>3, <1>4, <2>1, <2>3, <2>4 DEF Counted, Allotted, Ended
  <2>7. (Batched)'
    BY <1>1, <1>2, <1>3, <1>4, <2>1, <2>3, <2>4 DEF Batched, Served, Returned
  <2>8. (Unknown)'
    BY <1>1, <1>2, <1>3, <1>4, <2>1, <2>3, <2>4 DEF Unknown, Touched
  <2>9. (InTurn)'
    BY <1>1, <1>2, <1>3, <1>4, <2>1, <2>3, <2>4 DEF InTurn, Returned
  <2>10. (InCall)'
    BY <1>1, <1>2, <1>3, <1>4, <2>1, <2>3, <2>4 DEF InCall, Permitted, Types
  <2>11. (Told)'
    BY <1>1, <1>2, <1>3, <1>4, <2>1, <2>3, <2>4 DEF Types, Told
  <2>12. (ServedClosed)'
    BY <1>1, <1>2, <1>3, <1>4, <2>1, <2>3, <2>4 DEF Types, ServedClosed, Closed, Returned
  <2>13. (Answered)'
    BY <1>1, <1>2, <1>3, <1>4, <2>1, <2>3, <2>4 DEF Answered
  <2>14. (Late /\ Planned)'
    BY <1>1, <1>2, <1>3, <1>4, <2>1, <2>3, <2>4 DEF Types, Late, Planned
  <2>15. Steering'
    BY <1>1, <1>2, <1>3, <1>4, <2>1, <2>3, <2>4, SteeringStays
  <2> QED BY <2>1, <2>5, <2>6, <2>7, <2>8, <2>9, <2>10, <2>11, <2>12, <2>13, <2>14, <2>15
<1> QED BY <1>6, <1>7 DEF Snapshot

LEMMA ProposeKeeps == ASSUME Inv, Propose PROVE Inv'
<1> USE DEF Inv
<1>1. at = "propose" /\ store = "ok" /\ batch # <<>>
  BY DEF Propose, Poisoned, Types, Batched
<1>2. C = Served + 1 /\ C \in Calls /\ base < C /\ C <= call /\ Served \in Nat
  BY <1>1, HeadCall DEF Served, Batched
<1>3. CallOf[C] = Absent /\ ApprovalOf[C] = Absent /\ told.executed[C] = 0
  <2>1. Touched = Served
    BY <1>1 DEF Touched
  <2> QED BY <1>2, <2>1 DEF Unknown
<1>4. CallOf \in [Calls -> States("toolCall") \cup {Absent}] /\ ApprovalOf \in [Calls -> States("approval") \cup {Absent}]
  BY Entities
<1>5. ASSUME proj' = Apply(proj, CallProposed(C))
      PROVE  LogReads' /\ TurnOf' = TurnOf /\ StepOf' = StepOf /\ CallOf' = [CallOf EXCEPT ![C] = "proposed"] /\ ApprovalOf' = ApprovalOf
  BY <1>1, <1>2, <1>3, <1>5, CallProposedApplied, MovesCall
<1>6. CASE Unlogged(CallProposed(C))
  <2>1. Failed /\ proj' \in {proj, Apply(proj, CallProposed(C))} /\ (store' = "ok" => proj' = proj)
    BY <1>1, <1>6, AppendFails DEF Unlogged
  <2>2. LogReads' /\ TurnOf' = TurnOf /\ StepOf' = StepOf /\ (Stays \/ (CallOf' = [CallOf EXCEPT ![C] = "proposed"] /\ ApprovalOf' = ApprovalOf))
    BY <1>5, <2>1, Same
  <2>3. at' \in {"reply", "catch"} /\ UNCHANGED <<counters, step_vars, outcome, user, crashes>> /\ told' = told
    BY <1>1, <1>6 DEF Propose, Unlogged, Written, Logged
  <2>4. CallFails
    BY <1>1, <1>4, <2>1, <2>2, <2>3, Same DEF CallFails
  <2>5. Types'
    BY <1>1, <2>1, <2>3 DEF Propose, Types, Outcomes
  <2>6. Told'
    BY <1>1, <1>2, <1>3, <1>4, <2>2, <2>3 DEF Told
  <2> QED BY <2>4, <2>5, <2>6, CallFailureKeeps
<1>7. CASE Logged(CallProposed(C))
  <2>1. Written /\ LogReads' /\ TurnOf' = TurnOf /\ StepOf' = StepOf /\ CallOf' = [CallOf EXCEPT ![C] = "proposed"] /\ ApprovalOf' = ApprovalOf
    BY <1>1, <1>5, <1>7 DEF Logged
  <2>2. ~Unlogged(CallProposed(C))
    <3>1. SUFFICES ASSUME Unlogged(CallProposed(C)) PROVE FALSE
      OBVIOUS
    <3>2. Failed
      BY <1>1, <3>1, AppendFails DEF Unlogged
    <3> QED BY <2>1, <3>2 DEF Types
  <2>3. at' = "decide" /\ UNCHANGED <<counters, step_vars, outcome, endsTurn, user, closings, crashes>> /\ told' = told /\ result' = result /\ answer' = answer /\ grew' = TRUE /\ caches' = caches
    BY <1>1, <1>2, <1>3, <2>2 DEF Propose
  <2>4. C' = C /\ Served' = Served
    BY <2>3 DEF C, Served
  <2>5. (Types /\ Poisoned)'
    BY <1>1, <1>2, <1>3, <1>4, <2>1, <2>3, <2>4 DEF Types, Poisoned, Outcomes
  <2>6. (Counted /\ Ended)'
    BY <1>1, <1>2, <1>3, <1>4, <2>1, <2>3, <2>4 DEF Counted, Allotted, Ended
  <2>7. (Batched)'
    BY <1>1, <1>2, <1>3, <1>4, <2>1, <2>3, <2>4 DEF Batched, Served, Returned
  <2>8. (Unknown)'
    BY <1>1, <1>2, <1>3, <1>4, <2>1, <2>3, <2>4 DEF Unknown, Touched
  <2>9. (InTurn)'
    BY <1>1, <1>2, <1>3, <1>4, <2>1, <2>3, <2>4 DEF InTurn, Returned
  <2>10. (InCall)'
    BY <1>1, <1>2, <1>3, <1>4, <2>1, <2>3, <2>4 DEF InCall, Permitted, Types
  <2>11. (Told)'
    BY <1>1, <1>2, <1>3, <1>4, <2>1, <2>3, <2>4 DEF Types, Told
  <2>12. (ServedClosed)'
    BY <1>1, <1>2, <1>3, <1>4, <2>1, <2>3, <2>4 DEF Types, ServedClosed, Closed, Returned
  <2>13. (Answered)'
    BY <1>1, <1>2, <1>3, <1>4, <2>1, <2>3, <2>4 DEF Answered
  <2>14. (Late /\ Planned)'
    BY <1>1, <1>2, <1>3, <1>4, <2>1, <2>3, <2>4 DEF Types, Late, Planned
  <2>15. Steering'
    BY <1>1, <1>2, <1>3, <1>4, <2>1, <2>3, <2>4, SteeringStays
  <2> QED BY <2>1, <2>5, <2>6, <2>7, <2>8, <2>9, <2>10, <2>11, <2>12, <2>13, <2>14, <2>15
<1> QED BY <1>6, <1>7 DEF Propose

LEMMA RequestApprovalKeeps == ASSUME Inv, RequestApproval PROVE Inv'
<1> USE DEF Inv
<1>1. at = "request" /\ store = "ok" /\ batch # <<>>
  BY DEF RequestApproval, Poisoned, Types, Batched
<1>2. C = Served + 1 /\ C \in Calls /\ base < C /\ C <= call /\ Served \in Nat
  BY <1>1, HeadCall DEF Served, Batched
<1>3. ApprovalOf[C] = Absent /\ CallOf[C] = "awaiting_approval" /\ told.decided[C] = "ask" /\ told.executed[C] = 0
  BY <1>1, <1>2 DEF InCall
<1>4. CallOf \in [Calls -> States("toolCall") \cup {Absent}] /\ ApprovalOf \in [Calls -> States("approval") \cup {Absent}]
  BY Entities
<1>5. ASSUME proj' = Apply(proj, ApprovalRequested(C))
      PROVE  LogReads' /\ TurnOf' = TurnOf /\ StepOf' = StepOf /\ CallOf' = CallOf /\ ApprovalOf' = [ApprovalOf EXCEPT ![C] = "pending"]
  BY <1>1, <1>2, <1>3, <1>5, ApprovalRequestApplied, MovesApproval
<1>6. CASE Unlogged(ApprovalRequested(C))
  <2>1. Failed /\ proj' \in {proj, Apply(proj, ApprovalRequested(C))} /\ (store' = "ok" => proj' = proj)
    BY <1>1, <1>6, AppendFails DEF Unlogged
  <2>2. LogReads' /\ TurnOf' = TurnOf /\ StepOf' = StepOf /\ (Stays \/ (CallOf' = CallOf /\ ApprovalOf' = [ApprovalOf EXCEPT ![C] = "pending"]))
    BY <1>5, <2>1, Same
  <2>3. at' \in {"reply", "catch"} /\ UNCHANGED <<counters, step_vars, outcome, user, crashes>> /\ told' = told
    BY <1>1, <1>6 DEF RequestApproval, Unlogged, Written, Logged
  <2>4. CallFails
    BY <1>1, <1>4, <2>1, <2>2, <2>3, Same DEF CallFails
  <2>5. Types'
    BY <1>1, <2>1, <2>3 DEF RequestApproval, Types, Outcomes
  <2>6. Told'
    BY <1>1, <1>2, <1>3, <1>4, <2>2, <2>3 DEF Told
  <2> QED BY <2>4, <2>5, <2>6, CallFailureKeeps
<1>7. CASE Logged(ApprovalRequested(C))
  <2>1. Written /\ LogReads' /\ TurnOf' = TurnOf /\ StepOf' = StepOf /\ CallOf' = CallOf /\ ApprovalOf' = [ApprovalOf EXCEPT ![C] = "pending"]
    BY <1>1, <1>5, <1>7 DEF Logged
  <2>2. ~Unlogged(ApprovalRequested(C))
    <3>1. SUFFICES ASSUME Unlogged(ApprovalRequested(C)) PROVE FALSE
      OBVIOUS
    <3>2. Failed
      BY <1>1, <3>1, AppendFails DEF Unlogged
    <3> QED BY <2>1, <3>2 DEF Types
  <2>3. at' = "broker" /\ UNCHANGED <<counters, step_vars, outcome, endsTurn, user, closings, crashes>> /\ told' = told /\ UNCHANGED gateway
    BY <1>1, <1>2, <1>3, <2>2 DEF RequestApproval
  <2>4. C' = C /\ Served' = Served
    BY <2>3 DEF C, Served
  <2>5. (Types /\ Poisoned)'
    BY <1>1, <1>2, <1>3, <1>4, <2>1, <2>3, <2>4 DEF Types, Poisoned, Outcomes
  <2>6. (Counted /\ Ended)'
    BY <1>1, <1>2, <1>3, <1>4, <2>1, <2>3, <2>4 DEF Counted, Allotted, Ended
  <2>7. (Batched)'
    BY <1>1, <1>2, <1>3, <1>4, <2>1, <2>3, <2>4 DEF Batched, Served, Returned
  <2>8. (Unknown)'
    BY <1>1, <1>2, <1>3, <1>4, <2>1, <2>3, <2>4 DEF Unknown, Touched
  <2>9. (InTurn)'
    BY <1>1, <1>2, <1>3, <1>4, <2>1, <2>3, <2>4 DEF InTurn, Returned
  <2>10. (InCall)'
    BY <1>1, <1>2, <1>3, <1>4, <2>1, <2>3, <2>4 DEF InCall, Permitted, Types
  <2>11. (Told)'
    BY <1>1, <1>2, <1>3, <1>4, <2>1, <2>3, <2>4 DEF Types, Told
  <2>12. (ServedClosed)'
    BY <1>1, <1>2, <1>3, <1>4, <2>1, <2>3, <2>4 DEF Types, ServedClosed, Closed, Returned
  <2>13. (Answered)'
    BY <1>1, <1>2, <1>3, <1>4, <2>1, <2>3, <2>4 DEF Answered
  <2>14. (Late /\ Planned)'
    BY <1>1, <1>2, <1>3, <1>4, <2>1, <2>3, <2>4 DEF Types, Late, Planned
  <2>15. Steering'
    BY <1>1, <1>2, <1>3, <1>4, <2>1, <2>3, <2>4, SteeringStays
  <2> QED BY <2>1, <2>5, <2>6, <2>7, <2>8, <2>9, <2>10, <2>11, <2>12, <2>13, <2>14, <2>15
<1> QED BY <1>6, <1>7 DEF RequestApproval

LEMMA RecordAnswerKeeps == ASSUME Inv, RecordAnswer PROVE Inv'
<1> USE DEF Inv
<1>1. at = "answer" /\ store = "ok" /\ batch # <<>>
  BY DEF RecordAnswer, Poisoned, Types, Batched
<1>2. C = Served + 1 /\ C \in Calls /\ base < C /\ C <= call /\ Served \in Nat
  BY <1>1, HeadCall DEF Served, Batched
<1>3. ApprovalOf[C] = "pending" /\ CallOf[C] = "awaiting_approval" /\ told.decided[C] = "ask" /\ told.executed[C] = 0 /\ answer \in Answers
  BY <1>1, <1>2 DEF InCall
<1>4. CallOf \in [Calls -> States("toolCall") \cup {Absent}] /\ ApprovalOf \in [Calls -> States("approval") \cup {Absent}]
  BY Entities
<1>5. ASSUME proj' = Apply(proj, ApprovalDecided(C, answer))
      PROVE  LogReads' /\ TurnOf' = TurnOf /\ StepOf' = StepOf /\ CallOf' = CallOf /\ ApprovalOf' = [ApprovalOf EXCEPT ![C] = OutcomeState(answer)]
  BY <1>1, <1>2, <1>3, <1>5, ApprovalDecisionApplied, MovesApproval
<1>6. CASE Unlogged(ApprovalDecided(C, answer))
  <2>1. Failed /\ proj' \in {proj, Apply(proj, ApprovalDecided(C, answer))} /\ (store' = "ok" => proj' = proj)
    BY <1>1, <1>6, AppendFails DEF Unlogged
  <2>2. LogReads' /\ TurnOf' = TurnOf /\ StepOf' = StepOf /\ (Stays \/ (CallOf' = CallOf /\ ApprovalOf' = [ApprovalOf EXCEPT ![C] = OutcomeState(answer)]))
    BY <1>5, <2>1, Same
  <2>3. at' \in {"reply", "catch"} /\ UNCHANGED <<counters, step_vars, outcome, user, crashes>> /\ told' = told
    BY <1>1, <1>6 DEF RecordAnswer, Unlogged, Written, Logged
  <2>4. CallFails
    BY <1>1, <1>4, <2>1, <2>2, <2>3, Same DEF CallFails
  <2>5. Types'
    <3>1. caches' \in [snapshot : BOOLEAN, granted : BOOLEAN]
      BY DEF RecordAnswer, Types
    <3> QED BY <1>1, <2>1, <2>3, <3>1 DEF RecordAnswer, Types
  <2>6. Told'
    BY <1>1, <1>2, <1>3, <1>4, <2>2, <2>3 DEF Told
  <2> QED BY <2>4, <2>5, <2>6, CallFailureKeeps
<1>7. CASE Logged(ApprovalDecided(C, answer))
  <2>1. Written /\ LogReads' /\ TurnOf' = TurnOf /\ StepOf' = StepOf /\ CallOf' = CallOf /\ ApprovalOf' = [ApprovalOf EXCEPT ![C] = OutcomeState(answer)]
    BY <1>1, <1>5, <1>7 DEF Logged
  <2>2. ~Unlogged(ApprovalDecided(C, answer))
    <3>1. SUFFICES ASSUME Unlogged(ApprovalDecided(C, answer)) PROVE FALSE
      OBVIOUS
    <3>2. Failed
      BY <1>1, <3>1, AppendFails DEF Unlogged
    <3> QED BY <2>1, <3>2 DEF Types
  <2>3. UNCHANGED <<counters, step_vars, outcome, endsTurn, grew, user, closings, crashes, told>>
        /\ (IF OutcomeState(answer) = "allowed" THEN at' = "start" ELSE at' = "result" /\ result' \in {"cancelled", "denied"})
        /\ caches' \in [snapshot : BOOLEAN, granted : BOOLEAN]
    BY <1>1, <1>2, <1>3, <2>2 DEF RecordAnswer, Finish, Types
  <2>4. C' = C /\ Served' = Served
    BY <2>3 DEF C, Served
  <2>5. (Types /\ Poisoned)'
    BY <1>1, <1>2, <1>3, <1>4, <2>1, <2>3, <2>4 DEF Types, Poisoned, Outcomes
  <2>6. (Counted /\ Ended)'
    BY <1>1, <1>2, <1>3, <1>4, <2>1, <2>3, <2>4 DEF Counted, Allotted, Ended
  <2>7. (Batched)'
    BY <1>1, <1>2, <1>3, <1>4, <2>1, <2>3, <2>4 DEF Batched, Served, Returned
  <2>8. (Unknown)'
    BY <1>1, <1>2, <1>3, <1>4, <2>1, <2>3, <2>4 DEF Unknown, Touched
  <2>9. (InTurn)'
    BY <1>1, <1>2, <1>3, <1>4, <2>1, <2>3, <2>4 DEF InTurn, Returned
  <2>10. InCall'
    <3>1. ApprovalOf'[C] = OutcomeState(answer) /\ OutcomeState(answer) \in {"allowed", "rejected", "cancelled", "unavailable"}
      BY <1>2, <1>3, <1>4, <2>1 DEF OutcomeState
    <3> HIDE DEF OutcomeState
    <3>2. CallOf'[C] = "awaiting_approval" /\ told' = told /\ CallOf' = CallOf /\ told.decided[C] = "ask" /\ told.executed[C] = 0
      BY <1>3, <2>1, <2>3
    <3>3. CASE OutcomeState(answer) = "allowed"
      BY <2>3, <2>4, <3>1, <3>2, <3>3 DEF InCall, Permitted
    <3>4. CASE OutcomeState(answer) # "allowed"
      BY <2>3, <2>4, <3>1, <3>2, <3>4 DEF InCall, Permitted
    <3> QED BY <3>3, <3>4
  <2>11. (Told)'
    BY <1>1, <1>2, <1>3, <1>4, <2>1, <2>3, <2>4 DEF Types, Told
  <2>12. (ServedClosed)'
    BY <1>1, <1>2, <1>3, <1>4, <2>1, <2>3, <2>4 DEF Types, ServedClosed, Closed, Returned
  <2>13. (Answered)'
    BY <1>1, <1>2, <1>3, <1>4, <2>1, <2>3, <2>4 DEF Answered
  <2>14. (Late /\ Planned)'
    BY <1>1, <1>2, <1>3, <1>4, <2>1, <2>3, <2>4 DEF Types, Late, Planned
  <2>15. Steering'
    BY <1>1, <1>2, <1>3, <1>4, <2>1, <2>3, <2>4, SteeringStays
  <2> QED BY <2>1, <2>5, <2>6, <2>7, <2>8, <2>9, <2>10, <2>11, <2>12, <2>13, <2>14, <2>15
<1> QED BY <1>6, <1>7 DEF RecordAnswer

LEMMA StartExecutionKeeps == ASSUME Inv, StartExecution PROVE Inv'
<1> USE DEF Inv
<1>1. at = "start" /\ store = "ok" /\ batch # <<>>
  BY DEF StartExecution, Poisoned, Types, Batched
<1>2. C = Served + 1 /\ C \in Calls /\ base < C /\ C <= call /\ Served \in Nat
  BY <1>1, HeadCall DEF Served, Batched
<1>3. ApprovalOf[C] # "pending" /\ CallOf[C] \in {"proposed", "awaiting_approval"} /\ Permitted /\ told.executed[C] = 0
  BY <1>1, <1>2 DEF InCall
<1>4. CallOf \in [Calls -> States("toolCall") \cup {Absent}] /\ ApprovalOf \in [Calls -> States("approval") \cup {Absent}]
  BY Entities
<1>5. ASSUME proj' = Apply(proj, ExecutionStarted(C))
      PROVE  LogReads' /\ TurnOf' = TurnOf /\ StepOf' = StepOf /\ CallOf' = [CallOf EXCEPT ![C] = "executing"] /\ ApprovalOf' = ApprovalOf
  BY <1>1, <1>2, <1>3, <1>5, CallAdvanced, CallTransitions, OpenNames, MovesCall DEF ExecutionStarted
<1>6. CASE Unlogged(ExecutionStarted(C))
  <2>1. Failed /\ proj' \in {proj, Apply(proj, ExecutionStarted(C))} /\ (store' = "ok" => proj' = proj)
    BY <1>1, <1>6, AppendFails DEF Unlogged
  <2>2. LogReads' /\ TurnOf' = TurnOf /\ StepOf' = StepOf /\ (Stays \/ (CallOf' = [CallOf EXCEPT ![C] = "executing"] /\ ApprovalOf' = ApprovalOf))
    BY <1>5, <2>1, Same
  <2>3. at' \in {"reply", "catch"} /\ UNCHANGED <<counters, step_vars, outcome, user, crashes>> /\ told' = told
    BY <1>1, <1>6 DEF StartExecution, Unlogged, Written, Logged
  <2>4. CallFails
    BY <1>1, <1>4, <2>1, <2>2, <2>3, Same DEF CallFails
  <2>5. Types'
    BY <1>1, <2>1, <2>3 DEF StartExecution, Types, Outcomes
  <2>6. Told'
    BY <1>1, <1>2, <1>3, <1>4, <2>2, <2>3 DEF Told
  <2> QED BY <2>4, <2>5, <2>6, CallFailureKeeps
<1>7. CASE Logged(ExecutionStarted(C))
  <2>1. Written /\ LogReads' /\ TurnOf' = TurnOf /\ StepOf' = StepOf /\ CallOf' = [CallOf EXCEPT ![C] = "executing"] /\ ApprovalOf' = ApprovalOf
    BY <1>1, <1>5, <1>7 DEF Logged
  <2>2. ~Unlogged(ExecutionStarted(C))
    <3>1. SUFFICES ASSUME Unlogged(ExecutionStarted(C)) PROVE FALSE
      OBVIOUS
    <3>2. Failed
      BY <1>1, <3>1, AppendFails DEF Unlogged
    <3> QED BY <2>1, <3>2 DEF Types
  <2>3. /\ at' = "run" /\ UNCHANGED <<counters, step_vars, outcome, gateway, user, closings, crashes>>
        /\ told' \in [decided : [Calls -> {"allow", "ask", "deny", Absent}], executed : [Calls -> Nat],
               answers : [Calls -> Nat], late : Nat, steered : Seq(Nat), leftover : Seq(Nat), given : Nat]
        /\ told'.executed = [told.executed EXCEPT ![C] = 1] /\ told'.late <= 1
        /\ told'.decided = told.decided /\ told'.answers = told.answers
        /\ told'.steered = told.steered /\ told'.leftover = told.leftover /\ told'.given = told.given
        /\ (~aborted => told'.late = 0)
    <3>1. /\ at' = "run" /\ UNCHANGED <<counters, step_vars, outcome, gateway, user, closings, crashes>> /\ told' = Begun
      BY <2>2 DEF StartExecution
    <3>2. told.late = 0
      BY <1>1 DEF Late
    <3>3. /\ told'.executed = [told.executed EXCEPT ![C] = told.executed[C] + 1]
          /\ told'.late = (IF aborted THEN told.late + 1 ELSE told.late)
      BY <3>1 DEF Begun, Types
    <3>4. /\ told'.decided = told.decided /\ told'.answers = told.answers
          /\ told'.steered = told.steered /\ told'.leftover = told.leftover /\ told'.given = told.given
      BY <3>1 DEF Begun, Types
    <3>5. told' \in [decided : [Calls -> {"allow", "ask", "deny", Absent}], executed : [Calls -> Nat],
               answers : [Calls -> Nat], late : Nat, steered : Seq(Nat), leftover : Seq(Nat), given : Nat]
      <4> DEFINE executed == [told.executed EXCEPT ![C] = @ + 1]
                 late == IF aborted THEN told.late + 1 ELSE told.late
      <4>0. told.executed \in [Calls -> Nat] /\ told.late \in Nat
        BY DEF Types
      <4>1. executed \in [Calls -> Nat] /\ late \in Nat
        <5>1. executed \in [Calls -> Nat]
          <6> HIDE DEF C
          <6> QED BY <4>0, <1>2
        <5>2. late \in Nat
          BY <4>0
        <5> QED BY <5>1, <5>2
      <4>2. Begun = [told EXCEPT !.executed = executed, !.late = late]
        BY DEF Begun
      <4> HIDE DEF executed, late
      <4> QED BY <3>1, <4>1, <4>2 DEF Types
    <3> QED BY <1>3, <3>1, <3>2, <3>3, <3>4, <3>5
  <2>4. C' = C /\ Served' = Served
    BY <2>3 DEF C, Served
  <2>5. (Types /\ Poisoned)'
    BY <1>1, <1>2, <1>3, <1>4, <2>1, <2>3, <2>4 DEF Types, Poisoned, Outcomes
  <2>6. (Counted /\ Ended)'
    BY <1>1, <1>2, <1>3, <1>4, <2>1, <2>3, <2>4 DEF Counted, Allotted, Ended
  <2>7. (Batched)'
    BY <1>1, <1>2, <1>3, <1>4, <2>1, <2>3, <2>4 DEF Batched, Served, Returned
  <2>8. (Unknown)'
    BY <1>1, <1>2, <1>3, <1>4, <2>1, <2>3, <2>4 DEF Unknown, Touched
  <2>9. (InTurn)'
    BY <1>1, <1>2, <1>3, <1>4, <2>1, <2>3, <2>4 DEF InTurn, Returned
  <2>10. (InCall)'
    BY <1>1, <1>2, <1>3, <1>4, <2>1, <2>3, <2>4 DEF InCall, Permitted, Types
  <2>11. Told'
    <3>1. ASSUME NEW c \in Calls \ {C} PROVE CallOf'[c] = CallOf[c] /\ told'.executed[c] = told.executed[c]
      BY <1>2, <1>4, <2>1, <2>3 DEF Types
    <3>2. CallOf'[C] = "executing" /\ told'.executed[C] = 1
      BY <1>2, <1>4, <2>1, <2>3 DEF Types
    <3>3. ASSUME NEW c \in Calls
          PROVE  /\ told'.executed[c] > 0 => CallOf'[c] \in {"executing", "succeeded", "failed", "cancelled", "interrupted"}
                 /\ CallOf'[c] \in {"succeeded", "failed"} => told'.executed[c] > 0
                 /\ told'.executed[c] <= 1
      BY <3>1, <3>2 DEF Told
    <3> QED BY <3>3 DEF Told
  <2>12. (ServedClosed)'
    BY <1>1, <1>2, <1>3, <1>4, <2>1, <2>3, <2>4 DEF Types, ServedClosed, Closed, Returned
  <2>13. (Answered)'
    BY <1>1, <1>2, <1>3, <1>4, <2>1, <2>3, <2>4 DEF Answered
  <2>14. (Late /\ Planned)'
    BY <1>1, <1>2, <1>3, <1>4, <2>1, <2>3, <2>4 DEF Types, Late, Planned
  <2>15. Steering'
    BY <1>1, <1>2, <1>3, <1>4, <2>1, <2>3, <2>4, SteeringStays
  <2> QED BY <2>1, <2>5, <2>6, <2>7, <2>8, <2>9, <2>10, <2>11, <2>12, <2>13, <2>14, <2>15
<1> QED BY <1>6, <1>7 DEF StartExecution

LEMMA StreamDoneKeeps == ASSUME Inv, StreamDone PROVE Inv'
<1> USE DEF Inv
<1>1. /\ at = "stream" /\ at' = "assistant" /\ batch = <<>> /\ proj' = proj /\ asked' \in {"nothing", "calls", "cutOff"}
      /\ UNCHANGED <<store, faults, turn, step, turnSteps, base, ending, outcome, gateway, user, closings, crashes, told>>
  BY DEF StreamDone, Batched, log
<1>2. PICK n \in 0..MaxCalls - call : batch' = [i \in 1..n |-> call + i] /\ call' = call + n
  BY DEF StreamDone
<1>3. n \in Nat /\ call \in Nat /\ base \in 0..call /\ call' \in 0..MaxCalls
  BY <1>2 DEF Batched
<1>4. batch' \in Seq(Nat) /\ Len(batch') = n /\ Served' = call /\ Served = call
  BY <1>1, <1>2, <1>3 DEF Served
<1>5. LogReads' /\ Stays
  BY <1>1, Same
<1>6. (Types /\ Poisoned)'
  BY <1>1 DEF Types, Poisoned
<1>7. (Counted /\ Ended)'
  BY <1>1 DEF Counted, Allotted, Ended
<1>8. Batched'
  BY <1>1, <1>2, <1>3, <1>4 DEF Batched, Returned
<1>9. Unknown'
  <2>1. Touched' = Touched
    BY <1>1, <1>4 DEF Touched
  <2> QED BY <1>1, <1>5, <2>1 DEF Unknown
<1>10. (InTurn /\ InCall /\ Told)'
  BY <1>1, <1>5 DEF InTurn, Returned, InCall, Told
<1>11. ServedClosed' /\ Answered'
  BY <1>1, <1>3, <1>4, <1>5 DEF ServedClosed, Closed, Returned, Answered
<1>12. (Late /\ Planned)'
  BY <1>1 DEF Late, Planned
<1>13. Steering'
  BY <1>1, SteeringStays
<1> QED BY <1>5, <1>6, <1>7, <1>8, <1>9, <1>10, <1>11, <1>12, <1>13

LEMMA SteerKeeps == ASSUME Inv, Steer PROVE Inv'
<1> USE DEF Inv
<1>1. /\ at \notin Resting /\ at' = at /\ proj' = proj /\ steers' = Append(steers, told.given + 1)
      /\ UNCHANGED <<store, faults, counters, step_vars, outcome, gateway, aborted, paused, closings, crashes>>
  BY DEF Steer, Running, log
<1>2. /\ told' \in [decided : [Calls -> {"allow", "ask", "deny", Absent}], executed : [Calls -> Nat],
               answers : [Calls -> Nat], late : Nat, steered : Seq(Nat), leftover : Seq(Nat), given : Nat]
      /\ told'.given = told.given + 1 /\ told'.decided = told.decided /\ told'.executed = told.executed
      /\ told'.answers = told.answers /\ told'.late = told.late /\ told'.steered = told.steered /\ told'.leftover = told.leftover
  <2>1. told.given + 1 \in Nat /\ told' = [told EXCEPT !.given = told.given + 1]
    BY DEF Steer, Types
  <2>2. /\ told'.given = told.given + 1 /\ told'.decided = told.decided /\ told'.executed = told.executed
        /\ told'.answers = told.answers /\ told'.late = told.late /\ told'.steered = told.steered /\ told'.leftover = told.leftover
    BY <2>1 DEF Types
  <2>3. told' \in [decided : [Calls -> {"allow", "ask", "deny", Absent}], executed : [Calls -> Nat],
               answers : [Calls -> Nat], late : Nat, steered : Seq(Nat), leftover : Seq(Nat), given : Nat]
    BY <2>1 DEF Types
  <2> QED BY <2>2, <2>3
<1>3. LogReads' /\ Stays
  BY <1>1, Same
<1>4. (Types /\ Poisoned)'
  BY <1>1, <1>2 DEF Types, Poisoned
<1>5. (Counted /\ Ended)'
  BY <1>1 DEF Counted, Allotted, Ended
<1>6. (Batched /\ Unknown)'
  BY <1>1, <1>2, <1>3 DEF Batched, Served, Unknown, Touched, Returned
<1>7. (InTurn /\ InCall)'
  BY <1>1, <1>2, <1>3 DEF InTurn, Returned, InCall, Permitted, C
<1>8. (Told /\ ServedClosed)'
  BY <1>1, <1>2, <1>3 DEF Told, ServedClosed, Closed, Served, Returned, C
<1>9. (Answered /\ Late /\ Planned)'
  BY <1>1, <1>2 DEF Answered, Served, Late, Planned
<1>10. Steering'
  <2> DEFINE x == told.given + 1
  <2>1. x \in Nat /\ told.given \in Nat /\ told.steered \in Seq(Nat) /\ told.leftover \in Seq(Nat) /\ steers \in Seq(Nat)
    BY DEF Types, Steering
  <2>2. /\ steers' \in Seq(Nat) /\ Len(steers') = Len(steers) + 1
        /\ \A n : Has(steers', n) <=> Has(steers, n) \/ n = x
        /\ Ascending(steers')
    <3>1. \A n \in Nat : Has(steers, n) => n < x
      BY <2>1 DEF Steering
    <3> QED BY <1>1, <2>1, <3>1, HasAppended DEF Steering
  <2> HIDE DEF x
  <2>10. told'.given = x /\ x = told.given + 1
    BY <1>2 DEF x
  <2>3. \A n \in 1..told.given : n < x /\ n \in 1..told'.given
    BY <2>1, <2>10
  <2>4. x \in 1..told'.given /\ \A n \in 1..told'.given : n \in 1..told.given \/ n = x
    BY <2>1, <2>10
  <2>5. Len(steers') <= told'.given
    BY <1>2, <2>1, <2>2 DEF Steering
  <2>6. \A n : Has(told.steered, n) \/ Has(told.leftover, n) => n < x
    BY <2>3 DEF Steering
  <2>7. Below(told.leftover, steers') /\ (store = "ok" => Below(told.steered, steers'))
    BY <2>2, <2>6 DEF Steering, Below
  <2>8. crashes = 0 => \A n \in 1..told'.given : Has(told'.steered, n) \/ Has(told'.leftover, n) \/ Has(steers', n)
    BY <1>2, <2>2, <2>4 DEF Steering
  <2>9. \A n : Has(told'.steered, n) \/ Has(told'.leftover, n) \/ Has(steers', n) => n \in 1..told'.given
    BY <1>2, <2>2, <2>3, <2>4 DEF Steering
  <2> QED BY <1>1, <1>2, <2>2, <2>5, <2>7, <2>8, <2>9 DEF Steering
<1> QED BY <1>3, <1>4, <1>5, <1>6, <1>7, <1>8, <1>9, <1>10

LEMMA TakeLeftoverKeeps == ASSUME Inv, TakeLeftover PROVE Inv'
<1> USE DEF Inv
<1>1. /\ at = "ended" /\ at' = "idle" /\ proj' = proj /\ batch' = <<>> /\ asked' = "nothing" /\ steers' = <<>> /\ aborted' = FALSE
      /\ endsTurn' = FALSE /\ grew' = FALSE
      /\ UNCHANGED <<store, faults, counters, outcome, caches, paused, closings, crashes>>
  BY DEF TakeLeftover, log
<1>2. told.leftover \in Seq(Nat) /\ steers \in Seq(Nat)
  BY DEF Types, Steering
<1>3. /\ told' \in [decided : [Calls -> {"allow", "ask", "deny", Absent}], executed : [Calls -> Nat],
               answers : [Calls -> Nat], late : Nat, steered : Seq(Nat), leftover : Seq(Nat), given : Nat]
      /\ told'.given = told.given /\ told'.decided = told.decided /\ told'.executed = told.executed
      /\ told'.answers = told.answers /\ told'.late = told.late /\ told'.steered = told.steered
      /\ told'.leftover = told.leftover \o steers
  BY <1>2, HasJoined DEF TakeLeftover, Types
<1>4. LogReads' /\ Stays
  BY <1>1, Same
<1>5. (Types /\ Poisoned)'
  BY <1>1, <1>3 DEF Types, Poisoned
<1>6. (Counted /\ Ended /\ Batched)'
  BY <1>1 DEF Counted, Allotted, Ended, Batched, Served, Returned
<1>7. Served' = call /\ Served <= call /\ Touched' = call /\ Touched <= call /\ Touched \in Nat /\ call \in Nat /\ Served \in Nat
  BY <1>1 DEF Served, Touched, Batched
<1>8. Unknown'
  <2>1. \A c \in Calls : c > Touched' => c > Touched
    BY <1>7
  <2> QED BY <1>1, <1>3, <1>4, <2>1 DEF Unknown
<1>9. (InTurn /\ InCall /\ Told /\ ServedClosed)'
  BY <1>1, <1>3, <1>4 DEF InTurn, Returned, InCall, Told, ServedClosed
<1>10. Answered'
  <2>1. \A c \in Calls : c > Served' => c > Served
    BY <1>7
  <2> QED BY <1>1, <1>3, <2>1 DEF Answered
<1>11. (Late /\ Planned)'
  BY <1>1, <1>3 DEF Late, Planned
<1>12. Steering'
  <2>1. /\ \A n : Has(told'.leftover, n) <=> Has(told.leftover, n) \/ Has(steers, n)
        /\ Ascending(told'.leftover)
    BY <1>2, <1>3, HasJoined DEF Steering
  <2>2. /\ \A n : ~Has(steers', n)
        /\ steers' \in Seq(Nat) /\ Len(steers') = 0 /\ Ascending(steers')
    BY <1>1, HasNone
  <2>3. faults = 0 => \A n : ~(Has(told.steered, n) /\ Has(told'.leftover, n))
    <3>1. ASSUME faults = 0, NEW n, Has(told.steered, n), Has(steers, n) PROVE FALSE
      <4>1. n \in Nat
        BY <1>2, <3>1, HasNat
      <4>2. n < n
        BY <3>1, <4>1 DEF Steering, Below
      <4> QED BY <4>1, <4>2
    <3> QED BY <2>1, <3>1 DEF Steering
  <2>4. told.given \in Nat
    BY DEF Types
  <2>5. Below(told'.leftover, steers') /\ Below(told'.steered, steers')
    BY <2>2 DEF Below
  <2> QED BY <1>1, <1>3, <2>1, <2>2, <2>3, <2>4, <2>5 DEF Steering
<1> QED BY <1>4, <1>5, <1>6, <1>8, <1>9, <1>10, <1>11, <1>12

LEMMA CrashKeeps == ASSUME Inv, Crash PROVE Inv'
<1> USE DEF Inv
<1>1. /\ at' = "down" /\ store' = "ok" /\ proj' = proj /\ batch' = <<>> /\ asked' = "nothing" /\ steers' = <<>>
      /\ outcome' = Absent /\ endsTurn' = FALSE /\ grew' = FALSE /\ caches' \in [snapshot : BOOLEAN, granted : BOOLEAN]
      /\ aborted' = FALSE /\ paused' = FALSE /\ crashes' = crashes + 1 /\ UNCHANGED <<faults, counters, told>>
  BY DEF Crash
<1>2. LogReads' /\ Stays
  BY <1>1, Same
<1>3. (Types /\ Poisoned)'
  <2>1. crashes' \in Nat /\ outcome' \in Outcomes /\ at' \in Places
    BY <1>1 DEF Types, Outcomes
  <2> QED BY <1>1, <2>1 DEF Types, Poisoned
<1>4. (Counted /\ Ended /\ Batched)'
  BY <1>1 DEF Counted, Allotted, Ended, Batched, Served, Returned
<1>5. Served' = call /\ Served <= call /\ Touched' = call /\ Touched <= call /\ Touched \in Nat /\ call \in Nat /\ Served \in Nat
  BY <1>1 DEF Served, Touched, Batched
<1>6. Unknown'
  <2>1. \A c \in Calls : c > Touched' => c > Touched
    BY <1>5
  <2> QED BY <1>1, <1>2, <2>1 DEF Unknown
<1>7. (InTurn /\ InCall /\ Told /\ ServedClosed)'
  BY <1>1, <1>2 DEF InTurn, Returned, InCall, Told, ServedClosed
<1>8. Answered'
  <2>1. \A c \in Calls : c > Served' => c > Served
    BY <1>5
  <2> QED BY <1>1, <2>1 DEF Answered
<1>9. (Late /\ Planned)'
  BY <1>1 DEF Late, Planned
<1>10. Steering'
  <2>1. /\ \A n : ~Has(steers', n)
        /\ steers' \in Seq(Nat) /\ Len(steers') = 0 /\ Ascending(steers')
    BY <1>1, HasNone
  <2>2. told.given \in Nat /\ crashes' # 0
    BY <1>1 DEF Types
  <2>3. Below(told.leftover, steers') /\ Below(told.steered, steers')
    BY <2>1 DEF Below
  <2> QED BY <1>1, <2>1, <2>2, <2>3 DEF Steering
<1> QED BY <1>2, <1>3, <1>4, <1>6, <1>7, <1>8, <1>9, <1>10

LEMMA ResumeKeeps == ASSUME Inv, Resume PROVE Inv'
<1> USE DEF Inv
<1>1. /\ at = "down" /\ at' = "closing" /\ proj' = proj /\ closings' = Closings(proj)
      /\ UNCHANGED <<store, faults, counters, step_vars, outcome, gateway, user, crashes, told>>
  BY DEF Resume, log
<1>2. LogReads' /\ Stays
  BY <1>1, Same
<1>3. (Types /\ Poisoned /\ Counted /\ Ended)'
  BY <1>1 DEF Types, Poisoned, Counted, Allotted, Ended
<1>4. (Batched /\ Unknown /\ InTurn /\ InCall)'
  BY <1>1, <1>2 DEF Batched, Served, Unknown, Touched, Returned, InTurn, InCall
<1>5. (Told /\ ServedClosed /\ Answered /\ Late)'
  BY <1>1, <1>2 DEF Told, ServedClosed, Returned, Answered, Served, Late
<1>6. Planned'
  BY <1>1 DEF Planned
<1>7. Steering'
  BY <1>1, SteeringStays
<1> QED BY <1>2, <1>3, <1>4, <1>5, <1>6, <1>7

\* How recovery closes a call.
LEMMA CallClosed ==
  ASSUME NEW e \in Closings(proj), e.machine = "toolCall"
  PROVE  \/ CallOf[e.id] = "proposed" /\ e.to = "cancelled"
         \/ CallOf[e.id] \in {"awaiting_approval", "executing"} /\ e.to = "interrupted"
<1>1. PICK m \in Machines : \E id \in Ids[m] : ToClose(m, proj.state[m][id]) /\ e = ClosingOf(m, id, proj.state[m][id])
  BY ClosingsByEntity
<1>2. PICK id \in Ids[m] : ToClose(m, proj.state[m][id]) /\ e = ClosingOf(m, id, proj.state[m][id])
  BY <1>1
<1>3. m = "toolCall" /\ e.id = id
  BY <1>2, ClosingFields
<1>4. CASE CallOf[id] = "proposed"
  <2>1. e = ResultRecorded(id, "cancelled")
    BY <1>2, <1>3, <1>4 DEF ClosingOf, CallOf
  <2> QED BY <1>3, <1>4, <2>1 DEF ResultRecorded, AdvanceTo, Event
<1>5. CASE CallOf[id] # "proposed"
  <2>1. e = ToolInterrupted(id) /\ CallOf[id] \in {"awaiting_approval", "executing"}
    BY <1>2, <1>3, <1>5 DEF ClosingOf, CallOf, ToClose
  <2> QED BY <1>3, <2>1 DEF ToolInterrupted, AdvanceTo, Event
<1> QED BY <1>4, <1>5

LEMMA CloseKeeps == ASSUME Inv, Close PROVE Inv'
<1> USE DEF Inv
<1>1. /\ at = "closing" /\ at' \in {"closing", "idle"} /\ batch = <<>>
      /\ UNCHANGED <<store, faults, counters, step_vars, outcome, gateway, user, crashes, told>>
  BY DEF Close, Batched
<1>2. (Types /\ Poisoned /\ Counted /\ Ended)'
  BY <1>1 DEF Types, Poisoned, Counted, Allotted, Ended
<1>3. (Batched /\ Answered /\ Late)'
  BY <1>1 DEF Batched, Served, Returned, Answered, Late
<1>4. Steering'
  BY <1>1, SteeringStays
<1>5. (InTurn /\ InCall /\ ServedClosed)'
  BY <1>1 DEF InTurn, Returned, InCall, ServedClosed
<1>6. Touched' = Touched
  BY <1>1 DEF Touched, Served
<1>7. ASSUME NEW e \in NextClosings(closings), proj' = Apply(proj, e), closings' = closings \ {e}
      PROVE  LogReads' /\ Unknown' /\ Told' /\ Planned'
  <2>1. e \in Closings(proj) /\ closings = Closings(proj)
    BY <1>1, <1>7 DEF NextClosings, Planned
  <2>2. ProjectionOK(proj) /\ proj.status = "ok"
    BY DEF LogReads
  <2>3. /\ Accepted(proj, e)
        /\ e.machine \in Machines /\ e.id \in Ids[e.machine] /\ e.to \in States(e.machine)
        /\ e.op \notin {"note", "require"}
        /\ Legal(e.machine, proj.state[e.machine][e.id], e.to)
        /\ Closings(Apply(proj, e)) = Closings(proj) \ {e}
    BY <2>1, <2>2, ClosingCloses
  <2>4. Moves(e.machine, e.id, e.to)
    BY <1>7, <2>3, Applied
  <2>5. /\ LogReads'
        /\ proj'.state[e.machine] = [proj.state[e.machine] EXCEPT ![e.id] = e.to]
        /\ \A n \in Machines \ {e.machine} : proj'.state[n] = proj.state[n]
    BY <2>4 DEF Moves
  <2>6. proj.state[e.machine][e.id] # Absent
    BY <2>3, AbsentAssumption DEF Legal
  <2>7. ASSUME NEW n \in Machines, NEW id \in Ids[n], proj.state[n][id] = Absent PROVE proj'.state[n][id] = Absent
    <3>1. CASE n = e.machine
      <4>1. id # e.id
        BY <2>6, <2>7, <3>1
      <4> QED BY <2>2, <2>5, <2>7, <3>1, <4>1 DEF ProjectionOK
    <3>2. CASE n # e.machine
      BY <2>5, <2>7, <3>2
    <3> QED BY <3>1, <3>2
  <2>8. Unknown'
    <3>1. \A t \in Ids["turn"] : TurnOf[t] = Absent => TurnOf'[t] = Absent
      BY <2>7, MachineNames DEF TurnOf
    <3>2. \A s \in Ids["step"] : StepOf[s] = Absent => StepOf'[s] = Absent
      BY <2>7, MachineNames DEF StepOf
    <3>3. \A c \in Calls : (CallOf[c] = Absent => CallOf'[c] = Absent) /\ (ApprovalOf[c] = Absent => ApprovalOf'[c] = Absent)
      BY <2>7, MachineNames DEF CallOf, ApprovalOf
    <3> QED BY <1>1, <1>6, <3>1, <3>2, <3>3 DEF Unknown
  <2>9. Told'
    <3>1. CASE e.machine = "toolCall"
      <4>1. \/ CallOf[e.id] = "proposed" /\ e.to = "cancelled"
            \/ CallOf[e.id] \in {"awaiting_approval", "executing"} /\ e.to = "interrupted"
        BY <2>1, <3>1, CallClosed
      <4>2. CallOf' = [CallOf EXCEPT ![e.id] = e.to] /\ e.id \in Calls /\ CallOf \in [Calls -> States("toolCall") \cup {Absent}]
        BY <2>3, <2>5, <3>1, Entities DEF CallOf
      <4> QED BY <1>1, <4>1, <4>2 DEF Told
    <3>2. CASE e.machine # "toolCall"
      <4>1. CallOf' = CallOf
        BY <2>5, <3>2, MachineNames DEF CallOf
      <4> QED BY <1>1, <4>1 DEF Told
    <3> QED BY <3>1, <3>2
  <2>10. Planned'
    BY <1>7, <2>1, <2>3 DEF Planned
  <2> QED BY <2>5, <2>8, <2>9, <2>10
<1>8. ASSUME proj' = proj, at' = "idle"
      PROVE  LogReads' /\ Unknown' /\ Told' /\ Planned'
  <2>1. LogReads' /\ Stays
    BY <1>8, Same
  <2> QED BY <1>1, <1>6, <1>8, <2>1 DEF Unknown, Told, Planned
<1>9. LogReads' /\ Unknown' /\ Told' /\ Planned'
  BY <1>7, <1>8 DEF Close
<1> QED BY <1>2, <1>3, <1>4, <1>5, <1>9

LEMMA DecideKeeps == ASSUME Inv, Decide PROVE Inv'
<1> USE DEF Inv
<1>1. at = "decide" /\ store = "ok" /\ batch # <<>>
  BY DEF Decide, Poisoned, Types, Batched
<1>2. C = Served + 1 /\ C \in Calls /\ base < C /\ C <= call /\ Served \in Nat
  BY <1>1, HeadCall DEF Served, Batched
<1>3. CallOf[C] = "proposed" /\ ApprovalOf[C] = Absent /\ told.executed[C] = 0
  BY <1>1 DEF InCall
<1>4. CallOf \in [Calls -> States("toolCall") \cup {Absent}] /\ ApprovalOf \in [Calls -> States("approval") \cup {Absent}]
  BY Entities
<1>5. /\ UNCHANGED <<counters, step_vars, outcome, endsTurn, grew, caches, answer, user, closings, crashes>>
      /\ \E decision \in {"allow", "ask", "deny"} :
           \/ /\ Logged(PolicyDecided(C, decision))
              /\ told' = [told EXCEPT !.decided[C] = decision]
              /\ CASE decision = "deny" -> Finish("denied")
                   [] decision = "ask" -> at' \in {"request"} \cup (IF caches.granted THEN {"start"} ELSE {}) /\ UNCHANGED result
                   [] decision = "allow" -> at' = "start" /\ UNCHANGED result
           \/ Unlogged(PolicyDecided(C, decision)) /\ UNCHANGED <<result, told>>
  BY DEF Decide
<1>6. PICK decision \in {"allow", "ask", "deny"} :
           \/ /\ Logged(PolicyDecided(C, decision))
              /\ told' = [told EXCEPT !.decided[C] = decision]
              /\ CASE decision = "deny" -> Finish("denied")
                   [] decision = "ask" -> at' \in {"request"} \cup (IF caches.granted THEN {"start"} ELSE {}) /\ UNCHANGED result
                   [] decision = "allow" -> at' = "start" /\ UNCHANGED result
           \/ Unlogged(PolicyDecided(C, decision)) /\ UNCHANGED <<result, told>>
  BY <1>5
<1> DEFINE calls == IF decision = "ask" THEN [CallOf EXCEPT ![C] = "awaiting_approval"] ELSE CallOf
<1>7. ASSUME proj' = Apply(proj, PolicyDecided(C, decision))
      PROVE  LogReads' /\ TurnOf' = TurnOf /\ StepOf' = StepOf /\ ApprovalOf' = ApprovalOf /\ CallOf' = calls
  <2>1. CASE decision = "ask"
    <3>1. proj' = Apply(proj, AdvanceTo("tool/policy_decided", "toolCall", C, "awaiting_approval"))
      BY <1>7, <2>1 DEF PolicyDecided
    <3>2. Moves("toolCall", C, "awaiting_approval")
      BY <1>2, <1>3, <3>1, CallAdvanced, CallTransitions, OpenNames
    <3> QED BY <2>1, <3>2, MovesCall
  <2>2. CASE decision # "ask"
    <3>1. proj' = proj
      BY <1>2, <1>3, <1>7, <2>2, PolicyNoted
    <3> QED BY <2>2, <3>1, Same
  <2> QED BY <2>1, <2>2
<1>8. calls[C] \in {"proposed", "awaiting_approval"} /\ calls \in [Calls -> States("toolCall") \cup {Absent}]
      /\ (\A c \in Calls \ {C} : calls[c] = CallOf[c]) /\ (calls[C] = "awaiting_approval" <=> decision = "ask")
  BY <1>2, <1>3, <1>4, OpenNames
<1> HIDE DEF calls
<1>9. CASE Unlogged(PolicyDecided(C, decision)) /\ UNCHANGED <<result, told>>
  <2>1. Failed /\ proj' \in {proj, Apply(proj, PolicyDecided(C, decision))} /\ (store' = "ok" => proj' = proj)
    BY <1>1, <1>9, AppendFails DEF Unlogged
  <2>2. LogReads' /\ TurnOf' = TurnOf /\ StepOf' = StepOf /\ ApprovalOf' = ApprovalOf /\ CallOf' \in {CallOf, calls}
    BY <1>7, <2>1, Same
  <2>3. at' \in {"reply", "catch"} /\ told' = told
    BY <1>9 DEF Unlogged
  <2>4. CallFails
    BY <1>1, <1>5, <1>8, <2>1, <2>2, <2>3, Same DEF CallFails
  <2>5. Types'
    BY <1>5, <1>9, <2>1, <2>3 DEF Types
  <2>6. Told'
    BY <1>2, <1>3, <1>8, <2>2, <2>3 DEF Told
  <2> QED BY <2>4, <2>5, <2>6, CallFailureKeeps
<1>10. CASE /\ Logged(PolicyDecided(C, decision))
            /\ told' = [told EXCEPT !.decided[C] = decision]
            /\ CASE decision = "deny" -> Finish("denied")
                 [] decision = "ask" -> at' \in {"request"} \cup (IF caches.granted THEN {"start"} ELSE {}) /\ UNCHANGED result
                 [] decision = "allow" -> at' = "start" /\ UNCHANGED result
  <2>1. Written /\ LogReads' /\ TurnOf' = TurnOf /\ StepOf' = StepOf /\ ApprovalOf' = ApprovalOf /\ CallOf' = calls
    BY <1>1, <1>7, <1>10 DEF Logged
  <2>2. \/ decision = "deny" /\ at' = "result" /\ result' = "denied"
        \/ decision = "ask" /\ at' = "request"
        \/ (decision = "allow" \/ (decision = "ask" /\ caches.granted)) /\ at' = "start"
    BY <1>10 DEF Finish
  <2>3. /\ told'.decided = [told.decided EXCEPT ![C] = decision] /\ told'.executed = told.executed /\ told'.answers = told.answers
        /\ told'.late = told.late /\ told'.steered = told.steered /\ told'.leftover = told.leftover /\ told'.given = told.given
    BY <1>10 DEF Types
  <2>4. told' \in [decided : [Calls -> {"allow", "ask", "deny", Absent}], executed : [Calls -> Nat],
               answers : [Calls -> Nat], late : Nat, steered : Seq(Nat), leftover : Seq(Nat), given : Nat]
    <3> DEFINE decided == [told.decided EXCEPT ![C] = decision]
    <3>1. decided \in [Calls -> {"allow", "ask", "deny", Absent}]
      <4>1. told.decided \in [Calls -> {"allow", "ask", "deny", Absent}]
        BY DEF Types
      <4> HIDE DEF C
      <4> QED BY <1>2, <4>1
    <3>2. told' = [told EXCEPT !.decided = decided]
      BY <1>10
    <3> HIDE DEF decided
    <3> QED BY <3>1, <3>2 DEF Types
  <2>5. told'.decided[C] = decision
    BY <1>2, <2>3 DEF Types
  <2>6. C' = C /\ Served' = Served
    BY <1>5 DEF C, Served
  <2>7. (Types /\ Poisoned)'
    BY <1>5, <2>1, <2>2, <2>4 DEF Types, Poisoned
  <2>8. (Counted /\ Ended /\ Batched)'
    BY <1>1, <1>5, <2>1, <2>2, <2>6 DEF Counted, Allotted, Ended, Batched, Returned
  <2>9. Unknown'
    BY <1>1, <1>5, <1>8, <2>1, <2>2, <2>3, <2>6, <1>2 DEF Unknown, Touched
  <2>10. InTurn'
    BY <1>1, <1>5, <2>1, <2>2 DEF InTurn, Returned
  <2>11. InCall'
    BY <1>3, <1>5, <1>8, <2>1, <2>2, <2>3, <2>5, <2>6 DEF InCall, Permitted
  <2>12. Told'
    BY <1>2, <1>3, <1>8, <2>1, <2>3 DEF Told
  <2>13. ServedClosed'
    BY <1>1, <1>2, <1>5, <1>8, <2>1, <2>2, <2>6 DEF ServedClosed, Closed, Returned
  <2>14. (Answered /\ Late /\ Planned)'
    BY <1>1, <1>5, <2>1, <2>2, <2>3, <2>6 DEF Answered, Late, Planned
  <2>15. Steering'
    BY <1>5, <2>1, <2>3, SteeringStays
  <2> QED BY <2>1, <2>7, <2>8, <2>9, <2>10, <2>11, <2>12, <2>13, <2>14, <2>15
<1> QED BY <1>6, <1>9, <1>10

LEMMA RecordResultKeeps == ASSUME Inv, RecordResult PROVE Inv'
<1> USE DEF Inv
<1>1. at = "result" /\ at' = "reply" /\ store = "ok" /\ batch # <<>>
  BY DEF RecordResult, Poisoned, Types, Batched
<1>2. C = Served + 1 /\ C \in Calls /\ base < C /\ C <= call /\ Served \in Nat
  BY <1>1, HeadCall DEF Served, Batched
<1>3. /\ result \in Results /\ CallOf[C] \in OpenCall /\ ApprovalOf[C] # "pending"
      /\ result = "denied" => CallOf[C] # "executing"
      /\ result \in {"succeeded", "failed"} => CallOf[C] = "executing" /\ told.executed[C] = 1
  BY <1>1 DEF InCall
<1>4. CallOf \in [Calls -> States("toolCall") \cup {Absent}] /\ ApprovalOf \in [Calls -> States("approval") \cup {Absent}]
  BY Entities
<1>5. /\ UNCHANGED <<counters, step_vars, outcome, grew, caches, answer, user, closings, crashes, told>>
      /\ result' = Absent /\ endsTurn' \in BOOLEAN
  BY DEF RecordResult, Types
<1>6. Legal("toolCall", CallOf[C], result) /\ result \in States("toolCall")
  BY <1>3, CallTransitions, OpenNames
<1>7. ASSUME proj' = Apply(proj, ResultRecorded(C, result))
      PROVE  LogReads' /\ TurnOf' = TurnOf /\ StepOf' = StepOf /\ CallOf' = [CallOf EXCEPT ![C] = result] /\ ApprovalOf' = ApprovalOf
  BY <1>2, <1>6, <1>7, CallAdvanced, MovesCall DEF ResultRecorded
<1>8. CASE Refused(ResultRecorded(C, result)) \/ Rejected
  <2>1. Failed /\ proj' \in {proj, Apply(proj, ResultRecorded(C, result))} /\ (store' = "ok" => proj' = proj)
    BY <1>1, <1>8, AppendFails
  <2>2. LogReads' /\ TurnOf' = TurnOf /\ StepOf' = StepOf /\ (Stays \/ (CallOf' = [CallOf EXCEPT ![C] = result] /\ ApprovalOf' = ApprovalOf))
    BY <1>7, <2>1, Same
  <2>3. CallFails
    BY <1>1, <1>4, <1>5, <2>1, <2>2, Same DEF CallFails
  <2>4. Types'
    BY <1>1, <1>5, <2>1 DEF Types
  <2>5. Told'
    BY <1>2, <1>3, <1>4, <1>5, <2>2 DEF Told
  <2> QED BY <2>3, <2>4, <2>5, CallFailureKeeps
<1>9. CASE Logged(ResultRecorded(C, result))
  <2>1. Written /\ LogReads' /\ TurnOf' = TurnOf /\ StepOf' = StepOf /\ CallOf' = [CallOf EXCEPT ![C] = result] /\ ApprovalOf' = ApprovalOf
    BY <1>1, <1>7, <1>9 DEF Logged
  <2>2. C' = C /\ Served' = Served
    BY <1>5 DEF C, Served
  <2>3. (Types /\ Poisoned)'
    BY <1>1, <1>5, <2>1 DEF Types, Poisoned
  <2>4. (Counted /\ Ended /\ Batched)'
    BY <1>1, <1>5, <2>2 DEF Counted, Allotted, Ended, Batched, Returned
  <2>5. (Unknown /\ InTurn /\ InCall)'
    BY <1>1, <1>2, <1>4, <1>5, <2>1, <2>2 DEF Unknown, Touched, InTurn, Returned, InCall
  <2>6. CallOf'[C] = result /\ result \notin OpenCall /\ \A c \in Calls \ {C} : CallOf'[c] = CallOf[c]
    BY <1>2, <1>3, <1>4, <2>1
  <2>7. Told'
    BY <1>3, <1>5, <2>6 DEF Told
  <2>8. ServedClosed'
    BY <1>1, <1>2, <1>3, <1>5, <2>1, <2>2, <2>6 DEF ServedClosed, Closed, Returned
  <2>9. (Answered /\ Late /\ Planned)'
    BY <1>1, <1>5, <2>2 DEF Answered, Late, Planned
  <2>10. Steering'
    BY <1>5, <2>1, SteeringStays
  <2> QED BY <2>1, <2>3, <2>4, <2>5, <2>7, <2>8, <2>9, <2>10
<1> QED BY <1>8, <1>9 DEF RecordResult

\* A result message: the head of the batch is answered.
TakesAnswer ==
  /\ batch # <<>> /\ batch' = Tail(batch)
  /\ told' = [told EXCEPT !.answers[C] = @ + 1]

LEMMA AnswerTaken ==
  ASSUME Types, Batched, Answered, TakesAnswer, call' = call, base' = base
  PROVE  /\ Served' = C /\ Served = C - 1 /\ C \in Calls /\ base < C /\ C <= call /\ Served' \in Nat
         /\ batch' \in Seq(Nat) /\ Len(batch') <= call - base /\ \A i \in 1..Len(batch') : batch'[i] = Served' + i
         /\ told' \in [decided : [Calls -> {"allow", "ask", "deny", Absent}], executed : [Calls -> Nat],
               answers : [Calls -> Nat], late : Nat, steered : Seq(Nat), leftover : Seq(Nat), given : Nat]
         /\ told'.decided = told.decided /\ told'.executed = told.executed /\ told'.late = told.late
         /\ told'.steered = told.steered /\ told'.leftover = told.leftover /\ told'.given = told.given
         /\ told'.answers[C] = 1 /\ \A c \in Calls \ {C} : told'.answers[c] = told.answers[c]
<1>1. /\ C = Served + 1 /\ C \in Calls /\ base < C /\ C <= call /\ Len(batch) \in Nat \ {0}
      /\ Tail(batch) \in Seq(Nat) /\ Len(Tail(batch)) = Len(batch) - 1
      /\ \A i \in 1..Len(batch) - 1 : Tail(batch)[i] = C + i
  BY HeadCall DEF TakesAnswer
<1>2. call \in Nat /\ base \in Nat /\ Len(batch) <= call - base /\ Served = call - Len(batch)
  BY DEF Batched, Served
<1>3. Len(batch') = Len(batch) - 1 /\ Served' = call - (Len(batch) - 1)
  BY <1>1 DEF TakesAnswer, Served
<1>4. Served' = C /\ Served = C - 1 /\ Served' \in Nat
  BY <1>1, <1>2, <1>3
<1>5. batch' \in Seq(Nat) /\ Len(batch') <= call - base /\ \A i \in 1..Len(batch') : batch'[i] = Served' + i
  BY <1>1, <1>2, <1>3, <1>4 DEF TakesAnswer
<1>6. told.answers \in [Calls -> Nat] /\ told.answers[C] = 0
  <2>1. told.answers \in [Calls -> Nat]
    BY DEF Types
  <2>2. C > Served
    BY <1>1, <1>2
  <2> QED BY <1>1, <2>1, <2>2 DEF Answered
<1> DEFINE answers == [told.answers EXCEPT ![C] = 1]
<1>7. told' = [told EXCEPT !.answers = [told.answers EXCEPT ![C] = told.answers[C] + 1]]
  BY DEF TakesAnswer
<1>8. told' = [told EXCEPT !.answers = answers]
  BY <1>6, <1>7
<1>9. answers \in [Calls -> Nat] /\ answers[C] = 1 /\ \A c \in Calls \ {C} : answers[c] = told.answers[c]
  <2> HIDE DEF C
  <2> QED BY <1>1, <1>6
<1> HIDE DEF answers
<1>10. /\ told'.answers = answers /\ told'.decided = told.decided /\ told'.executed = told.executed /\ told'.late = told.late
       /\ told'.steered = told.steered /\ told'.leftover = told.leftover /\ told'.given = told.given
  BY <1>8 DEF Types
<1>11. told' \in [decided : [Calls -> {"allow", "ask", "deny", Absent}], executed : [Calls -> Nat],
               answers : [Calls -> Nat], late : Nat, steered : Seq(Nat), leftover : Seq(Nat), given : Nat]
  BY <1>8, <1>9 DEF Types
<1> QED BY <1>1, <1>4, <1>5, <1>9, <1>10, <1>11

LEMMA SkipKeeps == ASSUME Inv, Skip PROVE Inv'
<1> USE DEF Inv
<1>1. at \in {"skip", "skipOne"} /\ store = "ok" /\ batch # <<>>
  BY DEF Skip, Poisoned, Types, Batched
<1>2. UNCHANGED <<counters, asked, ending, outcome, gateway, user, closings, crashes>>
  BY DEF Skip
<1>3. Apply(proj, Message) = proj
  BY NoteKeeps DEF Message
<1>4. CASE Throws(Message, TRUE) /\ UNCHANGED <<batch, told>>
  <2>1. Failed /\ proj' = proj /\ at' = "catch"
    BY <1>1, <1>3, <1>4, AppendFails DEF Throws
  <2>2. Types'
    BY <1>2, <1>4, <2>1 DEF Types
  <2> QED BY <1>1, <1>2, <1>4, <2>1, <2>2, NoteFailureKeeps
<1>5. CASE /\ Logged(Message)
           /\ batch' = Tail(batch) /\ told' = [told EXCEPT !.answers[C] = @ + 1]
           /\ at' = IF at = "skipOne" THEN "batch" ELSE IF batch' = <<>> THEN "endStep" ELSE "skip"
  <2>1. proj' = proj /\ Written /\ TakesAnswer
    BY <1>1, <1>3, <1>5 DEF Logged, TakesAnswer
  <2>2. LogReads' /\ Stays
    BY <2>1, Same
  <2>3. \/ at = "skipOne" /\ at' = "batch"
        \/ at = "skip" /\ at' = (IF batch' = <<>> THEN "endStep" ELSE "skip")
    BY <1>1, <1>5
  <2>4. /\ Served' = C /\ Served = C - 1 /\ C \in Calls /\ base < C /\ C <= call /\ Served' \in Nat
        /\ batch' \in Seq(Nat) /\ Len(batch') <= call - base /\ \A i \in 1..Len(batch') : batch'[i] = Served' + i
        /\ told' \in [decided : [Calls -> {"allow", "ask", "deny", Absent}], executed : [Calls -> Nat],
               answers : [Calls -> Nat], late : Nat, steered : Seq(Nat), leftover : Seq(Nat), given : Nat]
        /\ told'.decided = told.decided /\ told'.executed = told.executed /\ told'.late = told.late
        /\ told'.steered = told.steered /\ told'.leftover = told.leftover /\ told'.given = told.given
        /\ told'.answers[C] = 1 /\ \A c \in Calls \ {C} : told'.answers[c] = told.answers[c]
    BY <1>2, <2>1, AnswerTaken
  <2>14. C \in Calls /\ C \in Nat /\ Served' = C /\ Served = C - 1 /\ base < C
    BY <2>4
  <2>5. (Types /\ Poisoned)'
    BY <1>2, <2>1, <2>3, <2>4 DEF Types, Poisoned
  <2>6. (Counted /\ Ended)'
    BY <1>1, <1>2, <2>3 DEF Counted, Allotted, Ended
  <2>7. Batched'
    BY <1>1, <1>2, <2>3, <2>4 DEF Batched, Returned
  <2>8. Unknown'
    <3>1. at' \in {"batch", "endStep", "skip"}
      BY <2>3
    <3>2. Touched' = C
      BY <2>4, <3>1 DEF Touched
    <3>3. Touched = Served \/ Touched = C
      BY <1>1, <2>4 DEF Touched
    <3>4. \A c \in Calls : c > Touched' => c > Touched
      BY <2>14, <3>2, <3>3
    <3> QED BY <1>2, <2>2, <2>4, <3>4 DEF Unknown
  <2>9. (InTurn /\ InCall /\ Told)'
    BY <1>1, <1>2, <2>2, <2>3, <2>4 DEF InTurn, Returned, InCall, Told
  <2>10. ServedClosed'
    <3>1. faults = 0 => Closed(C)
      <4>1. C > Touched
        BY <1>1, <2>14 DEF Touched
      <4> QED BY <2>4, <4>1 DEF Unknown, Closed
    <3>2. \A c \in Calls : c <= Served' => c <= Served \/ c = C
      BY <2>14
    <3> QED BY <1>1, <1>2, <2>1, <2>2, <2>3, <2>4, <3>1, <3>2 DEF ServedClosed, Closed, Returned
  <2>11. Answered'
    <3>1. \A c \in Calls : (c <= Served' => c <= Served \/ c = C) /\ (c > Served' => c > Served /\ c # C)
      BY <2>14
    <3>2. ASSUME NEW c \in Calls PROVE told'.answers[c] <= 1 /\ (c > Served' => told'.answers[c] = 0)
      <4>1. CASE c = C
        BY <2>4, <2>14, <4>1
      <4>2. CASE c # C
        <5>1. told'.answers[c] = told.answers[c]
          BY <2>4, <4>2
        <5> QED BY <3>1, <5>1 DEF Answered
      <4> QED BY <4>1, <4>2
    <3>3. ASSUME NEW c \in Calls, base < c, c <= Served' PROVE told'.answers[c] = 1
      BY <1>1, <2>4, <3>1, <3>3 DEF Answered
    <3> QED BY <1>2, <3>2, <3>3 DEF Answered
  <2>12. (Late /\ Planned)'
    BY <1>1, <1>2, <2>3, <2>4 DEF Late, Planned
  <2>13. Steering'
    BY <1>2, <2>1, <2>4, SteeringStays
  <2> QED BY <2>2, <2>5, <2>6, <2>7, <2>8, <2>9, <2>10, <2>11, <2>12, <2>13
<1> QED BY <1>4, <1>5 DEF Skip

LEMMA ReplyKeeps == ASSUME Inv, Reply PROVE Inv'
<1> USE DEF Inv
<1>1. at = "reply" /\ batch # <<>>
  BY DEF Reply, Batched
<1>2. UNCHANGED <<counters, asked, outcome, caches, answer, user, closings, crashes>> /\ endsTurn' = FALSE /\ result' = Absent /\ grew' = FALSE
  BY DEF Reply
<1>3. Apply(proj, Message) = proj
  BY NoteKeeps DEF Message
<1>4. CASE Throws(Message, TRUE) /\ UNCHANGED <<batch, ending, told>>
  <2>1. CASE store = "ok"
    <3>1. Failed /\ proj' = proj /\ at' = "catch"
      BY <1>3, <1>4, <2>1, AppendFails DEF Throws
    <3>2. Types'
      <4>1. endsTurn' \in BOOLEAN /\ grew' \in BOOLEAN /\ at' \in Places /\ told' = told
        BY <1>2, <1>4, <3>1
      <4>2. store' \in {"ok", "poisoned"} /\ faults' \in Nat /\ UNCHANGED <<asked, outcome, caches, user, crashes>>
        BY <1>2, <3>1 DEF Types
      <4> QED BY <4>1, <4>2 DEF Types
    <3> QED BY <1>1, <1>2, <1>4, <2>1, <3>1, <3>2, NoteFailureKeeps
  <2>2. CASE store = "poisoned"
    <3>1. proj' = proj /\ store' = "poisoned" /\ faults' = faults /\ at' = "catch"
      BY <1>4, <2>2 DEF Throws, Refused, Rejected, log
    <3>2. faults # 0
      BY <2>2 DEF Steering
    <3>3. LogReads' /\ Stays
      BY <3>1, Same
    <3>4. (Types /\ Poisoned /\ Counted /\ Ended)'
      BY <1>1, <1>2, <1>4, <3>1 DEF Types, Poisoned, Counted, Allotted, Ended
    <3>5. (Batched /\ Unknown)'
      BY <1>1, <1>2, <1>4, <3>1, <3>3 DEF Batched, Served, Returned, Unknown, Touched
    <3>6. (InTurn /\ InCall /\ Told /\ ServedClosed)'
      BY <1>2, <1>4, <3>1, <3>2, <3>3 DEF InTurn, Returned, InCall, Told, ServedClosed
    <3>7. (Answered /\ Late /\ Planned)'
      BY <1>1, <1>2, <1>4, <3>1 DEF Answered, Served, Late, Planned
    <3>8. Steering'
      BY <1>2, <1>4, <2>2, <3>1, SteeringStays
    <3> QED BY <3>3, <3>4, <3>5, <3>6, <3>7, <3>8
  <2> QED BY <2>1, <2>2 DEF Types
<1>5. CASE /\ Logged(Message)
           /\ batch' = Tail(batch) /\ told' = [told EXCEPT !.answers[C] = @ + 1]
           /\ IF endsTurn
                THEN ending' = <<"settled", "completed">> /\ at' = IF batch' = <<>> THEN "endStep" ELSE "skip"
                ELSE at' = "batch" /\ UNCHANGED ending
  <2>1. proj' = proj /\ Written /\ store = "ok" /\ TakesAnswer
    BY <1>1, <1>3, <1>5 DEF Logged, TakesAnswer
  <2>2. LogReads' /\ Stays
    BY <2>1, Same
  <2>3. \/ at' = "batch" /\ ending' = ending
        \/ ending' \in Endings /\ at' = (IF batch' = <<>> THEN "endStep" ELSE "skip")
    BY <1>1, <1>5 DEF Endings
  <2>4. /\ Served' = C /\ Served = C - 1 /\ C \in Calls /\ base < C /\ C <= call /\ Served' \in Nat
        /\ batch' \in Seq(Nat) /\ Len(batch') <= call - base /\ \A i \in 1..Len(batch') : batch'[i] = Served' + i
        /\ told' \in [decided : [Calls -> {"allow", "ask", "deny", Absent}], executed : [Calls -> Nat],
               answers : [Calls -> Nat], late : Nat, steered : Seq(Nat), leftover : Seq(Nat), given : Nat]
        /\ told'.decided = told.decided /\ told'.executed = told.executed /\ told'.late = told.late
        /\ told'.steered = told.steered /\ told'.leftover = told.leftover /\ told'.given = told.given
        /\ told'.answers[C] = 1 /\ \A c \in Calls \ {C} : told'.answers[c] = told.answers[c]
    BY <1>2, <2>1, AnswerTaken
  <2>14. C \in Calls /\ C \in Nat /\ Served' = C /\ Served = C - 1 /\ base < C
    BY <2>4
  <2>5. (Types /\ Poisoned)'
    BY <1>2, <2>1, <2>3, <2>4 DEF Types, Poisoned
  <2>6. (Counted /\ Ended)'
    BY <1>1, <1>2, <2>3 DEF Counted, Allotted, Ended
  <2>7. Batched'
    BY <1>1, <1>2, <2>3, <2>4 DEF Batched, Returned
  <2>8. Unknown'
    <3>1. at' \in {"batch", "endStep", "skip"}
      BY <2>3
    <3>2. Touched' = C
      BY <2>4, <3>1 DEF Touched
    <3>3. Touched = Served \/ Touched = C
      BY <1>1, <2>4 DEF Touched
    <3>4. \A c \in Calls : c > Touched' => c > Touched
      BY <2>14, <3>2, <3>3
    <3> QED BY <1>2, <2>2, <2>4, <3>4 DEF Unknown
  <2>9. (InTurn /\ InCall /\ Told)'
    BY <1>1, <1>2, <2>2, <2>3, <2>4 DEF InTurn, Returned, InCall, Told
  <2>10. ServedClosed'
    <3>1. faults = 0 => Closed(C)
      BY <1>1 DEF ServedClosed
    <3>2. \A c \in Calls : c <= Served' => c <= Served \/ c = C
      BY <2>14
    <3> QED BY <1>1, <1>2, <2>1, <2>2, <2>3, <2>4, <3>1, <3>2 DEF ServedClosed, Closed, Returned
  <2>11. Answered'
    <3>1. \A c \in Calls : (c <= Served' => c <= Served \/ c = C) /\ (c > Served' => c > Served /\ c # C)
      BY <2>14
    <3>2. ASSUME NEW c \in Calls PROVE told'.answers[c] <= 1 /\ (c > Served' => told'.answers[c] = 0)
      <4>1. CASE c = C
        BY <2>4, <2>14, <4>1
      <4>2. CASE c # C
        <5>1. told'.answers[c] = told.answers[c]
          BY <2>4, <4>2
        <5> QED BY <3>1, <5>1 DEF Answered
      <4> QED BY <4>1, <4>2
    <3>3. ASSUME NEW c \in Calls, base < c, c <= Served' PROVE told'.answers[c] = 1
      BY <1>1, <2>4, <3>1, <3>3 DEF Answered
    <3> QED BY <1>2, <3>2, <3>3 DEF Answered
  <2>12. (Late /\ Planned)'
    BY <1>1, <1>2, <2>3, <2>4 DEF Late, Planned
  <2>13. Steering'
    BY <1>2, <2>1, <2>4, SteeringStays
  <2> QED BY <2>2, <2>5, <2>6, <2>7, <2>8, <2>9, <2>10, <2>11, <2>12, <2>13
<1> QED BY <1>4, <1>5 DEF Reply

\* An append of the driver that is more than a note.
LEMMA Appended ==
  ASSUME Types, store = "ok", NEW e, NEW large \in BOOLEAN, NEW next, Append_(e, large, next)
  PROVE  \/ Written /\ proj' = Apply(proj, e) /\ at' = next
         \/ Failed /\ proj' \in {proj, Apply(proj, e)} /\ (store' = "ok" => proj' = proj) /\ at' = "catch"
<1>1. CASE Logged(e) /\ at' = next
  BY <1>1 DEF Logged
<1>2. CASE (Refused(e) \/ Rejected) /\ at' = "catch"
  <2>1. Failed /\ proj' \in {proj, Apply(proj, e)} /\ (store' = "ok" => proj' = proj)
    BY <1>2, AppendFails
  <2> QED BY <1>2, <2>1
<1> QED BY <1>1, <1>2 DEF Append_, Throws

LEMMA EndStepKeeps == ASSUME Inv, EndStep PROVE Inv'
<1> USE DEF Inv
<1>1. at = "endStep" /\ store = "ok" /\ batch = <<>> /\ step > 0 /\ step \in Ids["step"] /\ turn \in Nat
  <2>1. at = "endStep" /\ store = "ok" /\ batch = <<>> /\ step > 0
    BY DEF EndStep, Poisoned, Types, Batched, Counted
  <2>2. step <= MaxTurns * MaxSteps
    BY AllotmentBound DEF Counted, Allotted
  <2> QED BY <2>1, <2>2 DEF Counted
<1>2. ending \in Endings /\ StepOf[step] = "open" /\ ending[1] \in {"settled", "aborted", "errored"}
  BY <1>1 DEF Ended, InTurn, Endings
<1>3. /\ batch' = <<>> /\ asked' = "nothing" /\ ending' = NoEnding
      /\ UNCHANGED <<counters, gateway, user, closings, crashes, told>>
      /\ outcome' \in Outcomes
  <2>1. ending[2] # "continue" => ending[2] \in Outcomes
    BY <1>2 DEF Endings, Outcomes
  <2> QED BY <2>1 DEF EndStep, Types
<1>4. ASSUME proj' = Apply(proj, StepEnded(step, ending[1]))
      PROVE  LogReads' /\ TurnOf' = TurnOf /\ StepOf' = [StepOf EXCEPT ![step] = ending[1]] /\ CallOf' = CallOf /\ ApprovalOf' = ApprovalOf
  BY <1>1, <1>2, <1>4, StepEndApplied, MovesStep
<1>5. \E next \in {"loop", "endTurn"} : Append_(StepEnded(step, ending[1]), FALSE, next)
  BY DEF EndStep
<1>6. \/ Written /\ proj' = Apply(proj, StepEnded(step, ending[1])) /\ at' \in {"loop", "endTurn"}
      \/ /\ Failed /\ proj' \in {proj, Apply(proj, StepEnded(step, ending[1]))} /\ (store' = "ok" => proj' = proj) /\ at' = "catch"
  BY <1>1, <1>5, Appended
<1>7. LogReads' /\ TurnOf' = TurnOf /\ CallOf' = CallOf /\ ApprovalOf' = ApprovalOf
      /\ (StepOf' = StepOf \/ StepOf' = [StepOf EXCEPT ![step] = ending[1]])
  BY <1>4, <1>6, Same
<1>8. Unknown'
  <2>1. \A s \in Ids["step"] : s > step => StepOf'[s] = StepOf[s]
    BY <1>1, <1>7, Entities
  <2>2. Touched' = call /\ Touched = call
    BY <1>1, <1>3 DEF Touched, Served, Batched
  <2> QED BY <1>3, <1>7, <2>1, <2>2 DEF Unknown
<1>9. Types'
  <2>1. store' \in {"ok", "poisoned"} /\ faults' \in Nat /\ at' \in Places
    BY <1>6 DEF Types
  <2> QED BY <1>3, <2>1 DEF Types
<1>10. Counted'
  BY <1>1, <1>3, <1>6 DEF Counted, Allotted
<1>11. Told'
  BY <1>3, <1>7 DEF Told
<1>12. Steering'
  BY <1>1, <1>3, <1>6, SteeringStays
<1>13. CASE Written /\ proj' = Apply(proj, StepEnded(step, ending[1])) /\ at' \in {"loop", "endTurn"}
  <2>1. Served' = Served
    BY <1>1, <1>3 DEF Served
  <2>2. (Poisoned /\ Ended /\ InCall /\ Late /\ Planned)'
    BY <1>1, <1>3, <1>13 DEF Poisoned, Ended, InCall, Late, Planned
  <2>3. (Batched /\ ServedClosed /\ Answered)'
    BY <1>1, <1>3, <1>7, <1>13, <2>1 DEF Batched, Returned, ServedClosed, Closed, Answered
  <2>4. InTurn'
    <3>1. StepOf' = [StepOf EXCEPT ![step] = ending[1]]
      BY <1>4, <1>13
    <3>2. \A s \in Ids["step"] : s # step => StepOf'[s] = StepOf[s]
      BY <3>1, Entities
    <3>3. StepOf'[step] # "open"
      BY <1>1, <1>2, <3>1, Entities
    <3> QED BY <1>1, <1>3, <1>7, <1>13, <3>2, <3>3 DEF InTurn, Returned
  <2> QED BY <1>7, <1>8, <1>9, <1>10, <1>11, <1>12, <2>2, <2>3, <2>4
<1>14. CASE Failed /\ (store' = "ok" => proj' = proj) /\ at' = "catch"
  <2>1. GivesUp
    BY <1>1, <1>3, <1>7, <1>14, Same DEF GivesUp
  <2> QED BY <1>8, <1>9, <1>10, <1>11, <1>12, <2>1, FailureKeeps
<1> QED BY <1>6, <1>13, <1>14

LEMMA EndTurnKeeps == ASSUME Inv, EndTurn PROVE Inv'
<1> USE DEF Inv
<1>1. at = "endTurn" /\ store = "ok" /\ batch = <<>> /\ turn \in Ids["turn"] /\ TurnOf[turn] = "open"
  BY DEF EndTurn, Poisoned, Types, Batched, Counted, InTurn
<1>2. UNCHANGED <<counters, step_vars, outcome, gateway, user, closings, crashes, told>>
  BY DEF EndTurn
<1>3. ASSUME proj' = Apply(proj, TurnEnded(turn))
      PROVE  LogReads' /\ TurnOf' = [TurnOf EXCEPT ![turn] = "closed"] /\ StepOf' = StepOf /\ CallOf' = CallOf /\ ApprovalOf' = ApprovalOf
  BY <1>1, <1>3, TurnEndApplied, MovesTurn
<1>4. \/ Written /\ proj' = Apply(proj, TurnEnded(turn)) /\ at' = "ended"
      \/ /\ Failed /\ proj' \in {proj, Apply(proj, TurnEnded(turn))} /\ (store' = "ok" => proj' = proj) /\ at' = "catch"
  BY <1>1, Appended DEF EndTurn
<1>5. LogReads' /\ StepOf' = StepOf /\ CallOf' = CallOf /\ ApprovalOf' = ApprovalOf
      /\ (TurnOf' = TurnOf \/ TurnOf' = [TurnOf EXCEPT ![turn] = "closed"])
  BY <1>3, <1>4, Same
<1>6. Unknown'
  <2>1. \A t \in Ids["turn"] : t > turn => TurnOf'[t] = TurnOf[t]
    BY <1>1, <1>5, Entities
  <2>2. Touched' = call /\ Touched = call
    BY <1>1, <1>2 DEF Touched, Served, Batched
  <2> QED BY <1>2, <1>5, <2>1, <2>2 DEF Unknown
<1>7. Types'
  <2>1. store' \in {"ok", "poisoned"} /\ faults' \in Nat /\ at' \in Places
    BY <1>4 DEF Types
  <2> QED BY <1>2, <2>1 DEF Types
<1>8. Counted' /\ Told'
  BY <1>1, <1>2, <1>4, <1>5 DEF Counted, Allotted, Told
<1>9. Steering'
  BY <1>1, <1>2, <1>4, SteeringStays
<1>10. CASE Written /\ proj' = Apply(proj, TurnEnded(turn)) /\ at' = "ended"
  <2>1. Served' = Served
    BY <1>2 DEF Served
  <2>2. (Poisoned /\ Ended /\ InCall /\ Late /\ Planned)'
    BY <1>1, <1>2, <1>10 DEF Poisoned, Ended, InCall, Late, Planned
  <2>3. (Batched /\ ServedClosed /\ Answered)'
    BY <1>1, <1>2, <1>5, <1>10, <2>1 DEF Batched, Returned, ServedClosed, Closed, Answered
  <2>4. TurnOf'[turn] = "closed"
    BY <1>1, <1>3, <1>10, Entities
  <2>5. InTurn'
    BY <1>1, <1>2, <1>5, <1>10, <2>4 DEF InTurn, Returned
  <2> QED BY <1>5, <1>6, <1>7, <1>8, <1>9, <2>2, <2>3, <2>5
<1>11. CASE Failed /\ (store' = "ok" => proj' = proj) /\ at' = "catch"
  <2>1. GivesUp
    BY <1>1, <1>2, <1>5, <1>11, Same DEF GivesUp
  <2> QED BY <1>6, <1>7, <1>8, <1>9, <2>1, FailureKeeps
<1> QED BY <1>4, <1>10, <1>11

LEMMA StartStepKeeps == ASSUME Inv, StartStep PROVE Inv'
<1> USE DEF Inv
<1>1. at \in {"loop", "steer"} /\ store = "ok" /\ batch = <<>> /\ turnSteps < MaxSteps /\ turn \in Ids["turn"] /\ TurnOf[turn] = "open"
  <2>1. at \in {"loop", "steer"} /\ turnSteps < MaxSteps
    BY DEF StartStep, MayGoOn, Counted
  <2>2. store = "ok" /\ batch = <<>>
    BY <2>1 DEF Poisoned, Types, Batched
  <2>3. turn \in Ids["turn"] /\ TurnOf[turn] = "open"
    BY <2>1 DEF Counted, InTurn
  <2> QED BY <2>1, <2>2, <2>3
<1>2. /\ step' = step + 1 /\ turnSteps' = turnSteps + 1
      /\ batch' = <<>> /\ asked' = "nothing" /\ ending' = NoEnding
      /\ UNCHANGED <<turn, call, base, outcome, gateway, user, closings, crashes, told>>
  BY DEF StartStep
<1>3. /\ step \in Nat /\ turnSteps \in 0..MaxSteps /\ Allotted \in Nat /\ step' \in Ids["step"]
      /\ step' + (MaxSteps - turnSteps') <= Allotted /\ step' <= Allotted
  <2>1. step \in Nat /\ turnSteps \in 0..MaxSteps /\ step + (MaxSteps - turnSteps) <= Allotted
    BY <1>1 DEF Counted
  <2>2. Allotted \in Nat /\ Allotted <= MaxTurns * MaxSteps
    BY AllotmentBound DEF Counted, Allotted
  <2>3. MaxTurns * MaxSteps \in Nat
    OBVIOUS
  <2> HIDE DEF Allotted
  <2> QED BY <1>1, <1>2, <2>1, <2>2, <2>3
<1>4. StepOf[step'] = Absent
  BY <1>2, <1>3 DEF Unknown
<1>5. ASSUME proj' = Apply(proj, StepStarted(step', turn))
      PROVE  LogReads' /\ TurnOf' = TurnOf /\ StepOf' = [StepOf EXCEPT ![step'] = "open"] /\ CallOf' = CallOf /\ ApprovalOf' = ApprovalOf
  BY <1>1, <1>3, <1>4, <1>5, StepStartApplied, MovesStep
<1>6. \/ Written /\ proj' = Apply(proj, StepStarted(step', turn)) /\ at' = "prepare"
      \/ /\ Failed /\ proj' \in {proj, Apply(proj, StepStarted(step', turn))} /\ (store' = "ok" => proj' = proj) /\ at' = "catch"
  BY <1>1, Appended DEF StartStep
<1>7. LogReads' /\ TurnOf' = TurnOf /\ CallOf' = CallOf /\ ApprovalOf' = ApprovalOf
      /\ (StepOf' = StepOf \/ StepOf' = [StepOf EXCEPT ![step'] = "open"])
  BY <1>5, <1>6, Same
<1>8. Unknown'
  <2>1. \A s \in Ids["step"] : s > step' => StepOf'[s] = StepOf[s] /\ s > step
    BY <1>2, <1>3, <1>7, Entities
  <2>2. Touched' = call /\ Touched = call
    BY <1>1, <1>2 DEF Touched, Served, Batched
  <2> QED BY <1>2, <1>7, <2>1, <2>2 DEF Unknown
<1>9. Types'
  <2>1. store' \in {"ok", "poisoned"} /\ faults' \in Nat /\ at' \in Places
    BY <1>6 DEF Types
  <2> QED BY <1>2, <2>1 DEF Types
<1>10. Counted'
  <2>1. Allotted' = Allotted /\ turnSteps' \in 0..MaxSteps /\ step' \in Nat /\ step' > 0 /\ turn' \in 0..MaxTurns /\ turn' > 0
    <3>1. Allotted' = Allotted
      BY <1>2 DEF Allotted
    <3>2. turnSteps' \in 0..MaxSteps /\ step' \in Nat /\ step' > 0
      BY <1>1, <1>2, <1>3
    <3>3. turn' \in 0..MaxTurns /\ turn' > 0
      BY <1>1, <1>2
    <3> QED BY <3>1, <3>2, <3>3
  <2>2. at' # "steer"
    BY <1>6
  <2> HIDE DEF Allotted
  <2> QED BY <1>3, <2>1, <2>2 DEF Counted
<1>11. Told'
  BY <1>2, <1>7 DEF Told
<1>12. Steering'
  BY <1>1, <1>2, <1>6, SteeringStays
<1>13. CASE Written /\ proj' = Apply(proj, StepStarted(step', turn)) /\ at' = "prepare"
  <2>1. Served' = Served
    BY <1>1, <1>2 DEF Served
  <2>2. (Poisoned /\ Ended /\ InCall /\ Late /\ Planned)'
    BY <1>1, <1>2, <1>13 DEF Poisoned, Ended, InCall, Late, Planned
  <2>3. (Batched /\ ServedClosed /\ Answered)'
    BY <1>1, <1>2, <1>7, <1>13, <2>1 DEF Batched, Returned, ServedClosed, Closed, Answered
  <2>4. InTurn'
    <3>1. StepOf' = [StepOf EXCEPT ![step'] = "open"]
      BY <1>5, <1>13
    <3>2. StepOf'[step'] = "open"
      BY <1>3, <3>1, Entities
    <3>3. \A s \in Ids["step"] : s # step' => StepOf'[s] = StepOf[s]
      BY <3>1, Entities
    <3>4. \A s \in Ids["step"] : step' - turnSteps' < s /\ s <= step' /\ s # step' => step - turnSteps < s /\ s <= step
      BY <1>2, <1>3
    <3>5. \A s \in Ids["step"] : step - turnSteps < s /\ s <= step => StepOf[s] # "open"
      BY <1>1 DEF InTurn
    <3> QED BY <1>1, <1>2, <1>7, <1>13, <3>2, <3>3, <3>4, <3>5 DEF InTurn, Returned
  <2> QED BY <1>7, <1>8, <1>9, <1>10, <1>11, <1>12, <2>2, <2>3, <2>4
<1>14. CASE Failed /\ (store' = "ok" => proj' = proj) /\ at' = "catch"
  <2>1. GivesUp
    BY <1>1, <1>2, <1>7, <1>14, Same DEF GivesUp
  <2> QED BY <1>8, <1>9, <1>10, <1>11, <1>12, <2>1, FailureKeeps
<1> QED BY <1>6, <1>13, <1>14

LEMMA CatchKeeps == ASSUME Inv, Catch PROVE Inv'
<1> USE DEF Inv
<1>1. at = "catch" /\ at' = "ended" /\ outcome' = "thrown"
      /\ UNCHANGED <<counters, step_vars, gateway, user, closings, crashes, told>>
  BY DEF Catch
<1>2. turn \in Ids["turn"]
  BY <1>1 DEF Counted
<1>3. /\ LogReads' /\ StepOf' = StepOf /\ CallOf' = CallOf /\ ApprovalOf' = ApprovalOf
      /\ (TurnOf' = TurnOf \/ TurnOf' = [TurnOf EXCEPT ![turn] = "closed"])
      /\ (Written \/ (Failed /\ store = "ok") \/ UNCHANGED <<store, faults>>)
  <2>1. ASSUME store = "ok", proj' = Apply(proj, TurnEnded(turn))
        PROVE  LogReads' /\ TurnOf' = [TurnOf EXCEPT ![turn] = "closed"] /\ StepOf' = StepOf /\ CallOf' = CallOf /\ ApprovalOf' = ApprovalOf
    <3>1. TurnOf[turn] = "open"
      BY <1>1, <2>1 DEF InTurn
    <3> QED BY <1>2, <2>1, <3>1, TurnEndApplied, MovesTurn
  <2>2. CASE Logged(TurnEnded(turn))
    BY <2>1, <2>2 DEF Logged
  <2>3. CASE Refused(TurnEnded(turn)) /\ store = "ok"
    <3>1. Failed /\ proj' \in {proj, Apply(proj, TurnEnded(turn))}
      BY <2>3, AppendFails
    <3> QED BY <2>1, <2>3, <3>1, Same
  <2>4. CASE Refused(TurnEnded(turn)) /\ store = "poisoned"
    <3>1. proj' = proj /\ UNCHANGED <<store, faults>>
      BY <2>4 DEF Refused, log
    <3> QED BY <3>1, Same
  <2> QED BY <2>2, <2>3, <2>4 DEF Catch, Types
<1>4. ~Returned'
  BY <1>1 DEF Returned
<1>5. (Types /\ Poisoned)'
  <2>1. store' \in {"ok", "poisoned"} /\ faults' \in Nat
    BY <1>3 DEF Types
  <2> QED BY <1>1, <2>1 DEF Types, Poisoned, Outcomes
<1>6. (Counted /\ Ended /\ Batched)'
  BY <1>1, <1>4 DEF Counted, Allotted, Ended, Batched, Served
<1>7. Unknown'
  <2>1. Touched' = Touched
    BY <1>1 DEF Touched, Served
  <2>2. \A t \in Ids["turn"] : t > turn => TurnOf'[t] = TurnOf[t]
    BY <1>2, <1>3, Entities
  <2> QED BY <1>1, <1>3, <2>1, <2>2 DEF Unknown
<1>8. (InTurn /\ InCall /\ Told /\ ServedClosed)'
  BY <1>1, <1>3, <1>4 DEF InTurn, InCall, Told, ServedClosed
<1>9. (Answered /\ Late /\ Planned)'
  BY <1>1 DEF Answered, Served, Late, Planned
<1>10. Steering'
  BY <1>1, <1>3, SteeringStays
<1> QED BY <1>3, <1>5, <1>6, <1>7, <1>8, <1>9, <1>10

LEMMA StartTurnKeeps == ASSUME Inv, StartTurn PROVE Inv'
<1> USE DEF Inv
<1>1. /\ at = "idle" /\ turn' = turn + 1 /\ turnSteps' = 0 /\ base' = call /\ aborted' = FALSE /\ outcome' = Absent
      /\ UNCHANGED <<step, call, step_vars, gateway, paused, steers, closings, crashes>>
      /\ turn < MaxTurns /\ batch = <<>>
  BY DEF StartTurn, Batched
<1>2. turn' \in Ids["turn"] /\ turn \in Nat /\ TurnOf[turn'] = Absent
  <2>1. turn' \in Ids["turn"] /\ turn \in Nat /\ turn' > turn
    BY <1>1 DEF Counted
  <2> QED BY <2>1 DEF Unknown
<1>3. /\ told' \in [decided : [Calls -> {"allow", "ask", "deny", Absent}], executed : [Calls -> Nat],
               answers : [Calls -> Nat], late : Nat, steered : Seq(Nat), leftover : Seq(Nat), given : Nat]
      /\ told'.decided = told.decided /\ told'.executed = told.executed /\ told'.answers = told.answers /\ told'.late = 0
      /\ told'.steered = told.steered /\ told'.leftover = told.leftover /\ told'.given = told.given
  BY DEF StartTurn, Types
<1>4. \/ Logged(TurnStarted(turn')) /\ at' = "user"
      \/ Refused(TurnStarted(turn')) /\ at' = "ended"
  BY DEF StartTurn
<1>5. ASSUME proj' = Apply(proj, TurnStarted(turn'))
      PROVE  LogReads' /\ TurnOf' = [TurnOf EXCEPT ![turn'] = "open"] /\ StepOf' = StepOf /\ CallOf' = CallOf /\ ApprovalOf' = ApprovalOf
  BY <1>2, <1>5, TurnStartApplied, MovesTurn
<1>6. /\ LogReads' /\ StepOf' = StepOf /\ CallOf' = CallOf /\ ApprovalOf' = ApprovalOf
      /\ (TurnOf' = TurnOf \/ TurnOf' = [TurnOf EXCEPT ![turn'] = "open"])
      /\ \/ Written /\ at' = "user" /\ TurnOf' = [TurnOf EXCEPT ![turn'] = "open"]
         \/ ((Failed /\ store = "ok") \/ UNCHANGED <<store, faults>>) /\ at' = "ended"
  <2>1. CASE Logged(TurnStarted(turn')) /\ at' = "user"
    BY <1>5, <2>1 DEF Logged
  <2>2. CASE Refused(TurnStarted(turn')) /\ at' = "ended" /\ store = "ok"
    <3>1. Failed /\ proj' \in {proj, Apply(proj, TurnStarted(turn'))}
      BY <2>2, AppendFails
    <3> QED BY <1>5, <2>2, <3>1, Same
  <2>3. CASE Refused(TurnStarted(turn')) /\ at' = "ended" /\ store = "poisoned"
    <3>1. proj' = proj /\ UNCHANGED <<store, faults>>
      BY <2>3 DEF Refused, log
    <3> QED BY <2>3, <3>1, Same
  <2> QED BY <1>4, <2>1, <2>2, <2>3 DEF Types
<1>7. ~Returned' /\ Served' = call /\ Served = call /\ call \in Nat
  BY <1>1 DEF Returned, Served, Batched
<1>8. (Types /\ Poisoned)'
  <2>1. store' \in {"ok", "poisoned"} /\ faults' \in Nat /\ at' \in {"user", "ended"} /\ (at' = "user" => store' = "ok")
    BY <1>6 DEF Types
  <2> QED BY <1>1, <1>3, <2>1 DEF Types, Poisoned, Outcomes
<1>9. Counted'
  <2>1. turn \in 0..MaxTurns /\ step \in Nat /\ step <= turn * MaxSteps
    BY DEF Counted, Allotted
  <2>2. turn * MaxSteps \in Nat /\ turn' * MaxSteps = turn * MaxSteps + MaxSteps
    BY <1>1, <2>1, AllotmentBound
  <2>3. Allotted' = turn' * MaxSteps
    BY DEF Allotted
  <2>4. step' <= Allotted' /\ step' + (MaxSteps - turnSteps') <= Allotted' /\ turn' \in 0..MaxTurns /\ turn' > 0 /\ turnSteps' \in 0..MaxSteps
    BY <1>1, <2>1, <2>2, <2>3
  <2>5. at' \in {"user", "ended"}
    BY <1>6
  <2> HIDE DEF Allotted
  <2> QED BY <1>1, <2>1, <2>4, <2>5 DEF Counted
<1>10. (Ended /\ Batched)'
  BY <1>1, <1>6, <1>7 DEF Ended, Batched
<1>11. Unknown'
  <2>1. Touched' = call /\ Touched = call
    BY <1>1, <1>7 DEF Touched
  <2>2. \A t \in Ids["turn"] : t > turn' => TurnOf'[t] = TurnOf[t] /\ t > turn
    BY <1>1, <1>2, <1>6, Entities
  <2> QED BY <1>1, <1>3, <1>6, <2>1, <2>2 DEF Unknown
<1>12. InTurn'
  <2>1. at' = "user" => TurnOf'[turn'] = "open"
    BY <1>2, <1>6, Entities
  <2>2. ~(\E s \in Ids["step"] : step' - turnSteps' < s /\ s <= step')
    BY <1>1 DEF Counted
  <2>3. at' \in {"user", "ended"}
    BY <1>6
  <2> QED BY <1>7, <2>1, <2>2, <2>3 DEF InTurn
<1>13. (InCall /\ Told)'
  BY <1>3, <1>6 DEF InCall, Told
<1>14. ServedClosed' /\ Answered'
  BY <1>1, <1>3, <1>6, <1>7 DEF ServedClosed, Answered
<1>15. (Late /\ Planned)'
  BY <1>3, <1>6 DEF Late, Planned
<1>16. Steering'
  BY <1>1, <1>3, <1>6, SteeringStays
<1> QED BY <1>6, <1>8, <1>9, <1>10, <1>11, <1>12, <1>13, <1>14, <1>15, <1>16

LEMMA DrainSteerKeeps == ASSUME Inv, DrainSteer PROVE Inv'
<1> USE DEF Inv
<1>1. at \in {"loop", "steer"} /\ store = "ok" /\ batch = <<>> /\ turnSteps < MaxSteps /\ steers # <<>>
  <2>1. at \in {"loop", "steer"} /\ turnSteps < MaxSteps /\ steers # <<>>
    BY DEF DrainSteer, MayGoOn, Counted
  <2> QED BY <2>1 DEF Poisoned, Types, Batched
<1>2. UNCHANGED <<counters, step_vars, outcome, gateway, aborted, paused, closings, crashes>>
  BY DEF DrainSteer
<1>3. Apply(proj, Note("steer/queued")) = proj
  BY NoteKeeps
<1>4. \/ Written /\ proj' = proj /\ at' = "steer" /\ steers' = Tail(steers) /\ told' = Steered
      \/ Failed /\ proj' = proj /\ at' = "catch" /\ steers' = steers /\ (told' = told \/ (store' = "poisoned" /\ told' = Steered))
  <2>1. CASE Logged(Note("steer/queued")) /\ at' = "steer" /\ steers' = Tail(steers) /\ told' = Steered
    BY <1>3, <2>1 DEF Logged
  <2>2. CASE /\ Throws(Note("steer/queued"), TRUE)
             /\ told' = told \/ (store' # store /\ told' = Steered)
             /\ UNCHANGED steers
    <3>1. Failed /\ proj' = proj /\ at' = "catch"
      BY <1>1, <1>3, <2>2, AppendFails DEF Throws
    <3> QED BY <1>1, <2>2, <3>1
  <2> QED BY <2>1, <2>2 DEF DrainSteer
<1>5. LogReads' /\ Stays
  BY <1>4, Same
<1>6. /\ Head(steers) \in Nat /\ Tail(steers) \in Seq(Nat) /\ Len(Tail(steers)) = Len(steers) - 1 /\ Len(steers) \in Nat \ {0}
      /\ \A n : Has(steers, n) <=> n = Head(steers) \/ Has(Tail(steers), n)
      /\ Ascending(Tail(steers)) /\ \A n \in Nat : Has(Tail(steers), n) => Head(steers) < n
  BY <1>1, HasHead DEF Steering
<1>7. told.steered \in Seq(Nat) /\ told.leftover \in Seq(Nat) /\ told.given \in Nat
  BY DEF Types
<1>8. /\ Append(told.steered, Head(steers)) \in Seq(Nat)
      /\ \A n : Has(Append(told.steered, Head(steers)), n) <=> Has(told.steered, n) \/ n = Head(steers)
      /\ Ascending(Append(told.steered, Head(steers)))
  <2>1. \A n \in Nat : Has(told.steered, n) => n < Head(steers)
    BY <1>1, <1>6 DEF Steering, Below
  <2> QED BY <1>6, <1>7, <2>1, HasAppended DEF Steering
<1> DEFINE steered == Append(told.steered, Head(steers))
           head == Head(steers)
           tail == Tail(steers)
<1>9. ASSUME told' = Steered
      PROVE  /\ told'.steered = steered
             /\ told'.decided = told.decided /\ told'.executed = told.executed /\ told'.answers = told.answers /\ told'.late = told.late
             /\ told'.leftover = told.leftover /\ told'.given = told.given
             /\ told' \in [decided : [Calls -> {"allow", "ask", "deny", Absent}], executed : [Calls -> Nat],
               answers : [Calls -> Nat], late : Nat, steered : Seq(Nat), leftover : Seq(Nat), given : Nat]
  <2>1. told' = [told EXCEPT !.steered = steered]
    BY <1>9 DEF Steered
  <2> HIDE DEF steered
  <2>2. steered \in Seq(Nat)
    BY <1>8 DEF steered
  <2> QED BY <2>1, <2>2 DEF Types
<1>10. /\ told' \in [decided : [Calls -> {"allow", "ask", "deny", Absent}], executed : [Calls -> Nat],
               answers : [Calls -> Nat], late : Nat, steered : Seq(Nat), leftover : Seq(Nat), given : Nat]
       /\ told'.decided = told.decided /\ told'.executed = told.executed /\ told'.answers = told.answers /\ told'.late = told.late
       /\ told'.leftover = told.leftover /\ told'.given = told.given
       /\ \/ Written /\ at' = "steer" /\ steers' = tail /\ told'.steered = steered
          \/ Failed /\ at' = "catch" /\ steers' = steers /\ told'.steered = told.steered
          \/ Failed /\ at' = "catch" /\ steers' = steers /\ told'.steered = steered /\ store' = "poisoned"
  <2>1. CASE told' = told
    BY <1>4, <1>9, <2>1 DEF Types
  <2>2. CASE told' = Steered
    BY <1>4, <1>9, <2>2
  <2> QED BY <1>4, <2>1, <2>2
<1> HIDE DEF steered, head, tail
<1>11. Types'
  <2>1. store' \in {"ok", "poisoned"} /\ faults' \in Nat /\ at' \in Places
    BY <1>10 DEF Types
  <2> QED BY <1>2, <1>10, <2>1 DEF Types
<1>12. Counted' /\ Told'
  BY <1>1, <1>2, <1>5, <1>10 DEF Counted, Allotted, Told
<1>13. Unknown'
  <2>1. Touched' = Touched
    BY <1>1, <1>2, <1>10 DEF Touched, Served
  <2> QED BY <1>2, <1>5, <1>10, <2>1 DEF Unknown
<1>14. Steering'
  <2>1. /\ steered \in Seq(Nat) /\ Ascending(steered) /\ \A n : Has(steered, n) <=> Has(told.steered, n) \/ n = head
    BY <1>8 DEF steered, head
  <2>2. /\ head \in Nat /\ tail \in Seq(Nat) /\ Len(tail) <= told.given
        /\ \A n : Has(steers, n) <=> n = head \/ Has(tail, n)
        /\ Ascending(tail) /\ \A n \in Nat : Has(tail, n) => head < n
    BY <1>6, <1>7 DEF head, tail, Steering
  <2>3. CASE Written /\ steers' = tail /\ told'.steered = steered
    <3>1. Below(told'.leftover, steers')
      BY <1>10, <2>2, <2>3 DEF Steering, Below
    <3>2. Below(told'.steered, steers')
      BY <1>1, <2>1, <2>2, <2>3 DEF Steering, Below
    <3>3. \A n : Has(told'.steered, n) \/ Has(told'.leftover, n) \/ Has(steers', n)
                   <=> Has(told.steered, n) \/ Has(told.leftover, n) \/ Has(steers, n)
      BY <1>10, <2>1, <2>2, <2>3
    <3>4. ASSUME faults = 0, NEW n PROVE ~(Has(told'.steered, n) /\ Has(told'.leftover, n))
      <4>1. CASE n = head
        <5>1. Has(steers, head)
          BY <2>2
        <5>2. Has(told.leftover, head) => head < head
          BY <2>2, <5>1 DEF Steering, Below
        <5> QED BY <1>10, <2>2, <4>1, <5>2
      <4>2. CASE n # head
        BY <1>10, <2>1, <2>3, <3>4, <4>2 DEF Steering
      <4> QED BY <4>1, <4>2
    <3> QED BY <1>1, <1>2, <1>10, <2>1, <2>2, <2>3, <3>1, <3>2, <3>3, <3>4 DEF Steering
  <2>4. CASE Failed /\ steers' = steers /\ told'.steered = told.steered
    BY <1>1, <1>2, <1>10, <2>4, SteeringStays
  <2>5. CASE Failed /\ steers' = steers /\ told'.steered = steered /\ store' = "poisoned"
    <3>1. \A n : Has(told'.steered, n) \/ Has(told'.leftover, n) \/ Has(steers', n)
                   <=> Has(told.steered, n) \/ Has(told.leftover, n) \/ Has(steers, n)
      BY <1>10, <2>1, <2>2, <2>5
    <3>2. faults' # 0
      BY <2>5 DEF Types
    <3> QED BY <1>2, <1>10, <2>1, <2>5, <3>1, <3>2 DEF Steering
  <2> QED BY <1>10, <2>3, <2>4, <2>5
<1>15. CASE Written /\ at' = "steer"
  <2>1. (Poisoned /\ Ended /\ Late /\ Planned /\ InCall /\ InTurn)'
    BY <1>1, <1>2, <1>5, <1>10, <1>15 DEF Poisoned, Ended, Late, Planned, InCall, InTurn, Returned
  <2>2. (Batched /\ ServedClosed /\ Answered)'
    BY <1>1, <1>2, <1>5, <1>10, <1>15 DEF Batched, Served, ServedClosed, Closed, Returned, Answered
  <2> QED BY <1>5, <1>11, <1>12, <1>13, <1>14, <2>1, <2>2
<1>16. CASE Failed /\ at' = "catch"
  <2>1. GivesUp
    BY <1>1, <1>2, <1>5, <1>10, <1>16 DEF GivesUp
  <2> QED BY <1>11, <1>12, <1>13, <1>14, <2>1, FailureKeeps
<1> QED BY <1>10, <1>15, <1>16

-----------------------------------------------------------------------------
(* The invariant                                                           *)

LEMMA InitInv == Init => Inv
<1> SUFFICES ASSUME Init PROVE Inv
  OBVIOUS
<1>1. /\ proj = Empty /\ store = "ok" /\ at = "idle" /\ turn = 0 /\ step = 0 /\ call = 0 /\ turnSteps = 0 /\ base = 0
      /\ batch = <<>> /\ asked = "nothing" /\ outcome = Absent /\ endsTurn = FALSE /\ grew = FALSE
      /\ caches = [snapshot |-> FALSE, granted |-> FALSE] /\ aborted = FALSE /\ paused = FALSE /\ steers = <<>>
      /\ faults = 0 /\ crashes = 0
  BY DEF Init
<1>2. /\ told.decided = [c \in Calls |-> Absent] /\ told.executed = [c \in Calls |-> 0] /\ told.answers = [c \in Calls |-> 0]
      /\ told.late = 0 /\ told.steered = <<>> /\ told.leftover = <<>> /\ told.given = 0
  BY DEF Init
<1>3. told \in [decided : [Calls -> {"allow", "ask", "deny", Absent}], executed : [Calls -> Nat],
               answers : [Calls -> Nat], late : Nat, steered : Seq(Nat), leftover : Seq(Nat), given : Nat]
  BY HasNone DEF Init
<1>4. LogReads
  BY <1>1, EmptyOK DEF LogReads
<1>5. /\ \A t \in Ids["turn"] : TurnOf[t] = Absent
      /\ \A s \in Ids["step"] : StepOf[s] = Absent
      /\ \A c \in Calls : CallOf[c] = Absent /\ ApprovalOf[c] = Absent
  BY <1>1, MachineNames DEF Empty, TurnOf, StepOf, CallOf, ApprovalOf
<1>6. Types /\ Poisoned
  BY <1>1, <1>3 DEF Types, Poisoned, Outcomes
<1>7. Counted
  <2>1. Allotted \in Nat
    BY <1>1 DEF Allotted
  <2> HIDE DEF Allotted
  <2> QED BY <1>1, <2>1 DEF Counted
<1>8. Batched /\ Ended
  <2>1. batch \in Seq(Nat) /\ Len(batch) = 0
    BY <1>1, HasNone
  <2> QED BY <1>1, <2>1 DEF Batched, Ended, Served, Returned
<1>9. Unknown /\ InTurn /\ InCall
  BY <1>1, <1>2, <1>5 DEF Unknown, InTurn, InCall, Returned
<1>10. Told /\ ServedClosed /\ Answered /\ Late /\ Planned
  BY <1>1, <1>2, <1>5 DEF Told, ServedClosed, Returned, Answered, Late, Planned
<1>11. Steering
  <2>1. \A s : ~Has(<<>>, s)
    BY HasNone
  <2>2. Below(<<>>, <<>>)
    BY <2>1 DEF Below
  <2>3. \A n : n \notin 1..0
    OBVIOUS
  <2> QED BY <1>1, <1>2, <2>1, <2>2, <2>3, HasNone DEF Steering
<1> QED BY <1>4, <1>6, <1>7, <1>8, <1>9, <1>10, <1>11 DEF Inv

LEMMA NextInv == Inv /\ [Next]_vars => Inv'
<1> SUFFICES ASSUME Inv, [Next]_vars PROVE Inv'
  OBVIOUS
<1>1. CASE UNCHANGED vars
  <2>1. UNCHANGED <<proj, store, faults, at, counters, step_vars, outcome, gateway, user, closings, crashes, told>>
    BY <1>1 DEF vars, log
  <2>2. LogReads' /\ Stays
    BY <2>1, Same DEF Inv
  <2>3. (Types /\ Poisoned /\ Counted /\ Ended)'
    BY <2>1 DEF Inv, Types, Poisoned, Counted, Allotted, Ended
  <2>4. (Batched /\ Unknown /\ InTurn)'
    BY <2>1, <2>2 DEF Inv, Batched, Served, Unknown, Touched, InTurn, Returned
  <2>5. (InCall /\ Told /\ ServedClosed)'
    BY <2>1, <2>2 DEF Inv, InCall, Permitted, C, Told, ServedClosed, Closed, Returned, Served
  <2>6. (Answered /\ Late /\ Planned)'
    BY <2>1 DEF Inv, Answered, Served, Late, Planned
  <2>7. Steering'
    BY <2>1, SteeringStays DEF Inv
  <2> QED BY <2>2, <2>3, <2>4, <2>5, <2>6, <2>7 DEF Inv
<1>2. CASE StartTurn \/ TakeLeftover
  BY <1>2, StartTurnKeeps, TakeLeftoverKeeps
<1>3. CASE DriverStep
  BY <1>3, UserMessageKeeps, LeaveLoopKeeps, DrainSteerKeeps, StartStepKeeps, EndTurnKeeps, CatchKeeps, PrepareKeeps,
     RecordResponseKeeps, NextCallKeeps, SkipKeeps, ReplyKeeps, FlushImagesKeeps, BatchDoneKeeps, EndStepKeeps DEF DriverStep
<1>4. CASE StreamDone \/ StreamFailed
  BY <1>4, StreamDoneKeeps, StreamFailedKeeps
<1>5. CASE GatewayStep
  BY <1>5, SnapshotKeeps, ProposeKeeps, InvalidKeeps, DecideKeeps, RequestApprovalKeeps, RecordAnswerKeeps, NoSandboxKeeps,
     StartExecutionKeeps, RecordResultKeeps DEF GatewayStep
<1>6. CASE Answer \/ ToolReturns
  BY <1>6, AnswerKeeps, ToolReturnsKeeps
<1>7. CASE Steer \/ Abort \/ PauseOrResume
  BY <1>7, SteerKeeps, AbortKeeps, PauseOrResumeKeeps
<1>8. CASE Crash \/ Resume \/ Close
  BY <1>8, CrashKeeps, ResumeKeeps, CloseKeeps
<1> QED BY <1>1, <1>2, <1>3, <1>4, <1>5, <1>6, <1>7, <1>8 DEF Next

(* The log and the driver agree in every state the loop can reach, with    *)
(* appends refused, aborts, crashes and recoveries at any await: the       *)
(* inductive invariant behind the theorems below (driver.ts, gateway.ts).  *)
THEOREM Invariant == Spec => []Inv
<1>1. Init => Inv
  BY InitInv
<1>2. Inv /\ [Next]_vars => Inv'
  BY NextInv
<1> QED BY <1>1, <1>2, PTL DEF Spec

-----------------------------------------------------------------------------
(* What it gives                                                           *)

(* The variables of the loop have the values its code can give them        *)
(* (driver.ts, gateway.ts).                                                *)
THEOREM TypesHold == Spec => []TypeOK
<1>1. Inv => TypeOK
  <2> SUFFICES ASSUME Inv PROVE TypeOK
    OBVIOUS
  <2> USE DEF Inv
  <2>1. \A m \in Machines : proj.state[m] \in [Ids[m] -> States(m) \cup {Absent}]
    BY DEF LogReads, ProjectionOK
  <2>2. turn \in 0..MaxTurns /\ turnSteps \in 0..MaxSteps /\ step \in 0..MaxTurns * MaxSteps
    <3>1. turn \in 0..MaxTurns /\ turnSteps \in 0..MaxSteps /\ step \in Nat /\ step <= turn * MaxSteps
      BY DEF Counted, Allotted
    <3>2. turn * MaxSteps \in Nat /\ turn * MaxSteps <= MaxTurns * MaxSteps /\ MaxTurns * MaxSteps \in Nat
      BY <3>1, AllotmentBound
    <3> QED BY <3>1, <3>2
  <2>3. base <= call /\ call <= MaxCalls
    BY DEF Batched
  <2>4. batch \in Seq(base + 1 .. call)
    <3>1. batch \in Seq(Nat) /\ Len(batch) \in Nat /\ Len(batch) <= call - base /\ call \in Nat /\ base \in Nat
      BY DEF Batched
    <3>2. \A i \in 1..Len(batch) : batch[i] \in base + 1 .. call
      BY <3>1 DEF Batched, Served
    <3> QED BY <3>1, <3>2
  <2> QED BY <2>1, <2>2, <2>3, <2>4 DEF TypeOK, Types, Steering
<1> QED BY <1>1, Invariant, PTL

(* identity-and-state.md §2: for any number of turns, calls, refused       *)
(* appends and crashes, the projection accepts every event the driver, the *)
(* gateway and recovery append (driver.ts, gateway.ts, recovery.ts).       *)
THEOREM NeverCorruptHolds == Spec => []NeverCorrupt
<1>1. Inv => NeverCorrupt
  BY DEF Inv, LogReads, NeverCorrupt
<1> QED BY <1>1, Invariant, PTL

(* gateway.ts:164-345: a tool runs only when its start is in the log,      *)
(* after a recorded decision that allows it or a recorded approval.        *)
THEOREM RecordedBeforeRunHolds == Spec => []RecordedBeforeRun
<1>1. Inv => RecordedBeforeRun
  BY DEF Inv, InCall, Permitted, CallOf, ApprovalOf, RecordedBeforeRun
<1> QED BY <1>1, Invariant, PTL

(* identity-and-state.md §3: also after any number of crashes and          *)
(* recoveries, what the log says of a call agrees with whether it ran, and *)
(* no call runs twice (gateway.ts, recovery.ts).                           *)
THEOREM LogTellsWhatRanHolds == Spec => []LogTellsWhatRan
<1>1. Inv => LogTellsWhatRan
  BY DEF Inv, Told, CallOf, LogTellsWhatRan
<1> QED BY <1>1, Invariant, PTL

(* driver.ts:268-308: no request goes out before every call of the turn    *)
(* has its one result message.                                             *)
THEOREM AnsweredOnceHolds == Spec => []AnsweredOnce
<1>1. Inv => AnsweredOnce
  <2> SUFFICES ASSUME Inv PROVE AnsweredOnce
    OBVIOUS
  <2>1. \A c \in Calls : told.answers[c] <= 1
    BY DEF Inv, Answered
  <2>2. ASSUME at = "stream", NEW c \in base + 1 .. call PROVE told.answers[c] = 1
    <3>1. batch = <<>> /\ call \in 0..MaxCalls /\ base \in 0..call
      BY <2>2 DEF Inv, Batched
    <3>2. c \in Calls /\ base < c /\ c <= Served
      BY <3>1 DEF Served
    <3> QED BY <2>2, <3>2 DEF Inv, Answered
  <2> QED BY <2>1, <2>2 DEF AnsweredOnce
<1> QED BY <1>1, Invariant, PTL

LEMMA OpenEntity ==
  ASSUME NEW m, NEW id, <<m, id>> \in Open(proj)
  PROVE  m \in DOMAIN OpenStates /\ id \in Ids[m] /\ proj.state[m][id] \in OpenStates[m]
<1>1. PICK n \in DOMAIN OpenStates : <<m, id>> \in {n} \X Ids[n] /\ proj.state[m][id] \in OpenStates[m]
  BY DEF Open
<1> QED BY <1>1

(* events-and-storage.md:89: a turn that returned has left neither itself  *)
(* nor a step open, nor, if no append failed, a call or an approval        *)
(* (driver.ts, #endStep and the end of runTurn).                           *)
THEOREM TurnLeavesNothingOpenHolds == Spec => []TurnLeavesNothingOpen
<1>1. Inv => TurnLeavesNothingOpen
  <2> SUFFICES ASSUME Inv, at = "ended", outcome \notin {"thrown", Absent}
               PROVE  /\ <<"turn", turn>> \notin Open(proj)
                      /\ \A s \in step - turnSteps + 1 .. step : <<"step", s>> \notin Open(proj)
                      /\ faults = 0 => \A c \in base + 1 .. call :
                           <<"toolCall", c>> \notin Open(proj) /\ <<"approval", c>> \notin Open(proj)
    BY DEF TurnLeavesNothingOpen
  <2> USE DEF Inv
  <2>1. Returned /\ batch = <<>>
    BY DEF Returned, Batched
  <2>2. <<"turn", turn>> \notin Open(proj)
    <3>1. TurnOf[turn] = "closed"
      BY <2>1 DEF InTurn
    <3> QED BY <3>1, OpenEntity DEF TurnOf, OpenStates
  <2>3. ASSUME NEW s \in step - turnSteps + 1 .. step, <<"step", s>> \in Open(proj) PROVE FALSE
    <3>1. s \in Ids["step"] /\ StepOf[s] = "open"
      BY <2>3, OpenEntity DEF StepOf, OpenStates
    <3>2. step - turnSteps < s /\ s <= step
      BY DEF Counted
    <3> QED BY <2>1, <3>1, <3>2 DEF InTurn
  <2>4. ASSUME faults = 0, NEW c \in base + 1 .. call
        PROVE  <<"toolCall", c>> \notin Open(proj) /\ <<"approval", c>> \notin Open(proj)
    <3>1. c \in Calls /\ base < c /\ c <= Served
      BY <2>1 DEF Batched, Served
    <3>2. CallOf[c] \notin OpenCall /\ ApprovalOf[c] # "pending"
      BY <2>1, <2>4, <3>1 DEF ServedClosed, Closed
    <3> QED BY <3>2, OpenEntity DEF CallOf, ApprovalOf, OpenStates
  <2> QED BY <2>2, <2>3, <2>4
<1> QED BY <1>1, Invariant, PTL

(* driver.ts:294: after an abort at most the call whose turn had come is   *)
(* still begun.                                                            *)
THEOREM AbortStopsBatchHolds == Spec => []AbortStopsBatch
<1>1. Inv => AbortStopsBatch
  BY DEF Inv, Late, AbortStopsBatch
<1> QED BY <1>1, Invariant, PTL

LEMMA RangeHas == ASSUME NEW s \in Seq(Nat) PROVE \A n : n \in Range(s) <=> Has(s, n)
BY DEF Range, Has

LEMMA AscendingInjective ==
  ASSUME NEW s \in Seq(Nat), Ascending(s)
  PROVE  IsInjective(s)
<1>1. DOMAIN s = 1..Len(s) /\ Len(s) \in Nat
  OBVIOUS
<1>2. ASSUME NEW i \in 1..Len(s), NEW j \in 1..Len(s), s[i] = s[j] PROVE i = j
  <2>1. s[i] \in Nat /\ s[j] \in Nat
    OBVIOUS
  <2>2. (i < j => s[i] < s[j]) /\ (j < i => s[j] < s[i])
    BY DEF Ascending
  <2>3. ~(i < j) /\ ~(j < i)
    BY <1>2, <2>1, <2>2
  <2> QED BY <1>1, <2>3
<1> QED BY <1>1, <1>2 DEF IsInjective

LEMMA JoinedInjective ==
  ASSUME NEW s \in Seq(Nat), NEW t \in Seq(Nat), IsInjective(s), IsInjective(t), \A n : ~(Has(s, n) /\ Has(t, n))
  PROVE  IsInjective(s \o t)
<1> DEFINE u == s \o t
<1>1. /\ u \in Seq(Nat) /\ Len(s) \in Nat /\ Len(t) \in Nat /\ Len(u) = Len(s) + Len(t)
      /\ \A i \in 1..Len(s) : u[i] = s[i]
      /\ \A i \in 1..Len(u) : i > Len(s) => u[i] = t[i - Len(s)]
      /\ DOMAIN s = 1..Len(s) /\ DOMAIN t = 1..Len(t) /\ DOMAIN u = 1..Len(u)
  OBVIOUS
<1> HIDE DEF u
<1>2. ASSUME NEW i \in 1..Len(u), i <= Len(s) PROVE i \in 1..Len(s) /\ u[i] = s[i] /\ Has(s, u[i])
  <2>1. i \in 1..Len(s)
    BY <1>1, <1>2
  <2> QED BY <1>1, <2>1 DEF Has
<1>3. ASSUME NEW i \in 1..Len(u), i > Len(s) PROVE i - Len(s) \in 1..Len(t) /\ u[i] = t[i - Len(s)] /\ Has(t, u[i])
  <2>1. i - Len(s) \in 1..Len(t)
    BY <1>1, <1>3
  <2>2. u[i] = t[i - Len(s)]
    BY <1>1, <1>3
  <2> QED BY <2>1, <2>2 DEF Has
<1>4. ASSUME NEW i \in 1..Len(u), NEW j \in 1..Len(u), u[i] = u[j] PROVE i = j
  <2>1. CASE i <= Len(s) /\ j <= Len(s)
    BY <1>1, <1>2, <1>4, <2>1 DEF IsInjective
  <2>2. CASE i > Len(s) /\ j > Len(s)
    <3>1. i - Len(s) = j - Len(s)
      BY <1>1, <1>3, <1>4, <2>2 DEF IsInjective
    <3> QED BY <1>1, <3>1
  <2>3. CASE (i <= Len(s) /\ j > Len(s)) \/ (i > Len(s) /\ j <= Len(s))
    BY <1>2, <1>3, <1>4, <2>3
  <2> QED BY <1>1, <2>1, <2>2, <2>3
<1>5. IsInjective(u)
  BY <1>1, <1>4 DEF IsInjective
<1> QED BY <1>5 DEF u

(* driver.ts:172, conversation.ts:1454: while the process lives, no steer  *)
(* is lost; if no append fails none is delivered twice; and they keep      *)
(* their order.                                                            *)
THEOREM SteersKeptHolds == Spec => []SteersKept
<1>1. Inv => SteersKept
  <2> SUFFICES ASSUME Inv PROVE SteersKept
    OBVIOUS
  <2> USE DEF Inv
  <2> DEFINE kept == told.steered \o told.leftover \o steers
             logged == told.steered \o told.leftover
  <2>1. told.steered \in Seq(Nat) /\ told.leftover \in Seq(Nat) /\ steers \in Seq(Nat) /\ told.given \in Nat
    BY DEF Types, Steering
  <2>2. logged \in Seq(Nat) /\ \A n : Has(logged, n) <=> Has(told.steered, n) \/ Has(told.leftover, n)
    BY <2>1, HasJoined
  <2>3. kept = logged \o steers
    OBVIOUS
  <2> HIDE DEF logged
  <2>4. kept \in Seq(Nat) /\ \A n : Has(kept, n) <=> Has(logged, n) \/ Has(steers, n)
    BY <2>1, <2>2, <2>3, HasJoined
  <2> HIDE DEF kept
  <2>5. \A n : n \in Range(kept) <=> Has(kept, n)
    BY <2>4, RangeHas
  <2>6. crashes = 0 => Range(kept) = 1..told.given
    BY <2>2, <2>4, <2>5 DEF Steering
  <2>7. ASSUME faults = 0 PROVE IsInjective(kept)
    <3>1. IsInjective(logged)
      <4>1. IsInjective(told.steered) /\ IsInjective(told.leftover)
        BY <2>1, AscendingInjective DEF Steering
      <4>2. \A n : ~(Has(told.steered, n) /\ Has(told.leftover, n))
        BY <2>7 DEF Steering
      <4> QED BY <2>1, <4>1, <4>2, JoinedInjective DEF logged
    <3>2. IsInjective(steers)
      BY <2>1, AscendingInjective DEF Steering
    <3>3. ASSUME NEW n, Has(logged, n), Has(steers, n) PROVE FALSE
      <4>1. n \in Nat
        BY <2>1, <3>3, HasNat
      <4>2. n < n
        BY <2>2, <2>7, <3>3, <4>1 DEF Steering, Below
      <4> QED BY <4>1, <4>2
    <3> QED BY <2>1, <2>2, <2>3, <3>1, <3>2, <3>3, JoinedInjective
  <2>8. \A part \in {told.steered, told.leftover, steers} :
          \A i, j \in 1..Len(part) : i < j => part[i] < part[j]
    BY DEF Steering, Ascending
  <2> QED BY <2>6, <2>7, <2>8 DEF SteersKept, kept
<1> QED BY <1>1, Invariant, PTL
=============================================================================
