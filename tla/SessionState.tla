---------------------------- MODULE SessionState ----------------------------
(***************************************************************************)
(* What a session log means: the state machines of contracts/state.ts, the *)
(* projection that replays events into entity states (core/projection.ts)  *)
(* and the events with which a session is closed after a crash             *)
(* (core/recovery.ts).                                                     *)
(*                                                                         *)
(* A projection is [status, state]: state[m][id] is the state of entity id *)
(* of machine m, Absent if no event has mentioned it.  An event is what it *)
(* does to one entity; its other fields are left out.  Turns are handled   *)
(* as a machine of their own with an open and a closed state.              *)
(***************************************************************************)
EXTENDS Naturals, FiniteSets

CONSTANTS
  Ids,     \* for each machine, the identifiers its entities may have
  Absent   \* no such entity yet

TRANSITIONS == [
  run |-> [
    created |-> {"running", "cancelled", "failed"},
    running |-> {"waiting_for_approval", "interrupted", "completed", "failed", "cancelled"},
    waiting_for_approval |-> {"running", "interrupted", "failed", "cancelled"},
    interrupted |-> {"running", "failed", "cancelled"},
    completed |-> {}, failed |-> {}, cancelled |-> {}],
  plan |-> [
    draft |-> {"proposed", "superseded"},
    proposed |-> {"approved", "rejected", "superseded"},
    approved |-> {"superseded", "invalidated"},
    rejected |-> {}, superseded |-> {}, invalidated |-> {}],
  task |-> [
    draft |-> {"awaiting_approval", "ready", "cancelled"},
    awaiting_approval |-> {"ready", "cancelled"},
    ready |-> {"running", "blocked", "cancelled"},
    running |-> {"needs_context", "blocked", "interrupted", "failed", "verifying", "cancelled"},
    needs_context |-> {"running", "ready", "cancelled"},
    blocked |-> {"ready", "cancelled"},
    interrupted |-> {"ready", "failed", "cancelled"},
    failed |-> {"retry_pending", "cancelled"},
    retry_pending |-> {"ready", "cancelled"},
    verifying |-> {"reviewing", "completed", "failed", "cancelled"},
    reviewing |-> {"changes_requested", "completed", "failed", "cancelled"},
    changes_requested |-> {"ready", "cancelled"},
    completed |-> {}, cancelled |-> {}],
  attempt |-> [
    queued |-> {"running", "cancelled"},
    running |-> {"waiting_for_approval", "succeeded", "failed", "cancelled", "interrupted"},
    waiting_for_approval |-> {"running", "failed", "cancelled", "interrupted"},
    succeeded |-> {}, failed |-> {}, cancelled |-> {}, interrupted |-> {}],
  toolCall |-> [
    proposed |-> {"awaiting_approval", "executing", "denied", "cancelled"},
    awaiting_approval |-> {"executing", "denied", "cancelled", "interrupted"},
    executing |-> {"succeeded", "failed", "cancelled", "interrupted"},
    denied |-> {}, succeeded |-> {}, failed |-> {}, cancelled |-> {}, interrupted |-> {}],
  approval |-> [
    pending |-> {"allowed", "rejected", "cancelled", "unavailable", "expired"},
    allowed |-> {"invalidated", "expired"},
    rejected |-> {}, cancelled |-> {}, unavailable |-> {}, expired |-> {}, invalidated |-> {}],
  step |-> [
    open |-> {"settled", "aborted", "errored"},
    settled |-> {}, aborted |-> {}, errored |-> {}],
  turn |-> [open |-> {"closed"}, closed |-> {}]]

Machines == DOMAIN TRANSITIONS
States(m) == DOMAIN TRANSITIONS[m]

\* Mutated: only the names of the states are checked.
Legal_KnownStates(m, from, to) == from \in States(m) /\ to \in States(m)

\* validateTransition(m, from, to).ok
Legal(m, from, to) ==
  from \in States(m) /\ to \in States(m) /\ to \in TRANSITIONS[m][from]

ASSUME AbsentAssumption == \A m \in Machines : Absent \notin States(m)

Terminal(m, s) == s \in States(m) /\ TRANSITIONS[m][s] = {}

----------------------------------------------------------------------------
(* Events.  op says how SessionProjector dispatches it; within is the turn *)
(* that has to be open for it.                                             *)

Event(type, op, m, id, from, to, within) ==
  [type |-> type, op |-> op, machine |-> m, id |-> id, from |-> from, to |-> to, within |-> within]

Create(type, m, id, to)        == Event(type, "create", m, id, Absent, to, Absent)
Advance(type, m, id, from, to) == Event(type, "advance", m, id, from, to, Absent)
AdvanceTo(type, m, id, to)     == Event(type, "advanceTo", m, id, Absent, to, Absent)

\* Events that leave every entity alone: messages, steering, model requests, policies...
Note(type) == Event(type, "note", Absent, Absent, Absent, Absent, Absent)

RunCreated(r)            == Create("run/created", "run", r, "created")
RunChanged(r, from, to)  == Advance("run/state_changed", "run", r, from, to)
PlanProposed(p)          == Event("plan/proposed", "put", "plan", p, Absent, "proposed", Absent)
PlanChanged(p, from, to) == Advance("plan/state_changed", "plan", p, from, to)
TaskCreated(t)           == Create("task/created", "task", t, "draft")
TaskChanged(t, from, to) == Advance("task/state_changed", "task", t, from, to)
AttemptStarted(a)           == Create("attempt/started", "attempt", a, "running")
AttemptChanged(a, from, to) == Advance("attempt/state_changed", "attempt", a, from, to)

CallProposed(c) == Create("tool/call_proposed", "toolCall", c, "proposed")
PolicyDecided(c, decision) ==
  IF decision = "ask" THEN AdvanceTo("tool/policy_decided", "toolCall", c, "awaiting_approval")
  ELSE Event("tool/policy_decided", "require", "toolCall", c, Absent, Absent, Absent)
ExecutionStarted(c)  == AdvanceTo("tool/execution_started", "toolCall", c, "executing")
ResultRecorded(c, s) == AdvanceTo("tool/result_recorded", "toolCall", c, s)
ToolInterrupted(c)   == AdvanceTo("tool/interrupted", "toolCall", c, "interrupted")

ApprovalRequested(a) == Create("approval/requested", "approval", a, "pending")
\* APPROVAL_OUTCOME_STATE; a decision nobody asked for creates the approval.
OutcomeState(outcome) == IF outcome \in {"allowed-once", "allowed-for-scope"} THEN "allowed" ELSE outcome
ApprovalDecided(a, outcome) ==
  Event("approval/decided", "decide", "approval", a, Absent, OutcomeState(outcome), Absent)
ApprovalInvalidated(a) == AdvanceTo("approval/invalidated", "approval", a, "invalidated")

TurnStarted(t)    == Create("turn/started", "turn", t, "open")
TurnEnded(t)      == AdvanceTo("turn/ended", "turn", t, "closed")
StepStarted(s, t) == Event("step/started", "create", "step", s, Absent, "open", t)
StepEnded(s, to)  == AdvanceTo("step/ended", "step", s, to)

----------------------------------------------------------------------------
(* SessionProjector *)

Empty == [status |-> "ok", state |-> [m \in Machines |-> [id \in Ids[m] |-> Absent]]]

\* What #dispatch checks before it changes anything.
Accepted(p, e) ==
  LET now == p.state[e.machine][e.id]
  IN CASE e.op = "create"    -> now = Absent /\ (e.within # Absent => p.state["turn"][e.within] = "open")
       [] e.op = "put"       -> TRUE
       [] e.op = "require"   -> now # Absent
       [] e.op = "advance"   -> now = e.from /\ Legal(e.machine, now, e.to)
       [] e.op = "advanceTo" -> Legal(e.machine, now, e.to)
       [] e.op = "decide"    -> now = Absent \/ Legal(e.machine, now, e.to)

Halted(p) == p.status # "ok"

\* One event.  A projector that has halted does not move any more.
Apply(p, e) ==
  IF Halted(p) \/ e.op = "note" THEN p
  ELSE IF ~Accepted(p, e) THEN [p EXCEPT !.status = "corrupt"]
  ELSE IF e.op = "require" THEN p
  ELSE [p EXCEPT !.state[e.machine][e.id] = e.to]

\* An event type or version that only a newer Synorch writes.
ApplyUnsupported(p) == IF Halted(p) THEN p ELSE [p EXCEPT !.status = "unsupported"]

----------------------------------------------------------------------------
(* planRecovery: the closing events, and the order they are appended in.   *)

InState(p, m, states) == { id \in Ids[m] : p.state[m][id] \in states }

\* Mutated: whatever has not ended is interrupted.
Interruptible_Unchecked(p, m) ==
  { id \in Ids[m] : p.state[m][id] \in States(m) \ {"interrupted"} /\ ~Terminal(m, p.state[m][id]) }

\* closeMachine: RECOVERY_STATE where the table lets an entity go there.
Interruptible(p, m) ==
  { id \in Ids[m] : p.state[m][id] # "interrupted" /\ Legal(m, p.state[m][id], "interrupted") }

\* Mutated: a call that was only proposed is interrupted like the others.
CallClosings_AllInterrupted(p) ==
  { ToolInterrupted(c) : c \in InState(p, "toolCall", {"proposed", "executing", "awaiting_approval"}) }

\* Mutated: a call that was running is taken for failed.
CallClosings_Failed(p) ==
  { ToolInterrupted(c) : c \in InState(p, "toolCall", {"awaiting_approval"}) }
  \cup { ResultRecorded(c, "failed") : c \in InState(p, "toolCall", {"executing"}) }
  \cup { ResultRecorded(c, "cancelled") : c \in InState(p, "toolCall", {"proposed"}) }

CallClosings(p) ==
  { ToolInterrupted(c) : c \in InState(p, "toolCall", {"executing", "awaiting_approval"}) }
  \cup { ResultRecorded(c, "cancelled") : c \in InState(p, "toolCall", {"proposed"}) }

Closings(p) ==
  CallClosings(p)
  \cup { ApprovalDecided(a, "cancelled") : a \in InState(p, "approval", {"pending"}) }
  \cup { StepEnded(s, "aborted") : s \in InState(p, "step", {"open"}) }
  \cup { TurnEnded(t) : t \in InState(p, "turn", {"open"}) }
  \cup { AttemptChanged(a, p.state["attempt"][a], "interrupted") : a \in Interruptible(p, "attempt") }
  \cup { TaskChanged(t, p.state["task"][t], "interrupted") : t \in Interruptible(p, "task") }
  \cup { RunChanged(r, p.state["run"][r], "interrupted") : r \in Interruptible(p, "run") }

Rank == [toolCall |-> 1, approval |-> 2, step |-> 3, turn |-> 4, attempt |-> 5, task |-> 6, run |-> 7]

\* Those of the closings that come next; a Map's own order among equals is left open.
NextClosings(closings) ==
  { e \in closings : \A other \in closings : Rank[e.machine] <= Rank[other.machine] }

OpenStates == [toolCall |-> {"proposed", "awaiting_approval", "executing"}, approval |-> {"pending"},
               step |-> {"open"}, turn |-> {"open"}]

\* Entities that nobody would ever close: what a live writer is in the middle of.
Open(p) ==
  { x \in UNION { {m} \X Ids[m] : m \in DOMAIN OpenStates } : p.state[x[1]][x[2]] \in OpenStates[x[1]] }
=============================================================================
