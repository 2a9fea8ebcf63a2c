------------------------------ MODULE Recovery ------------------------------
(***************************************************************************)
(* recoverSession (core/recovery.ts) against everything a session's        *)
(* writers can leave behind: the log grows by any event the projection     *)
(* accepts, the process dies, the log is opened again, read, and closed    *)
(* one event at a time, and the process may die again before that is over. *)
(* The store is SessionLog's: what was appended is read back.              *)
(***************************************************************************)
EXTENDS SessionState

CONSTANTS
  MaxEntities,  \* bound of the model: entities in one log
  MaxCrashes    \* bound of the model: how often the process dies

ASSUME BoundAssumption == MaxEntities \in Nat /\ MaxCrashes \in Nat

VARIABLES
  proj,      \* the projection of the log
  mode,      \* what the process that holds the log is doing
  closings,  \* plan.closings that are not appended yet
  crashes    \* how often the process died

vars == <<proj, mode, closings, crashes>>

Modes == {"live", "down", "closing", "recovered"}

Init ==
  /\ proj = Empty
  /\ mode = "live"
  /\ closings = {}
  /\ crashes = 0

----------------------------------------------------------------------------
(* What the writers of the log append while the session is live.           *)

CreationEvents ==
  { RunCreated(r) : r \in Ids["run"] } \cup { PlanProposed(p) : p \in Ids["plan"] }
  \cup { TaskCreated(t) : t \in Ids["task"] } \cup { AttemptStarted(a) : a \in Ids["attempt"] }
  \cup { CallProposed(c) : c \in Ids["toolCall"] } \cup { ApprovalRequested(a) : a \in Ids["approval"] }
  \cup { TurnStarted(t) : t \in Ids["turn"] }
  \cup { StepStarted(s, t) : s \in Ids["step"], t \in Ids["turn"] }

Entities == { x \in UNION { {m} \X Ids[m] : m \in Machines } : proj.state[x[1]][x[2]] # Absent }

\* Every change of state the tables allow, whichever event type carries it.
ChangeEvents ==
  UNION { { Advance("state_changed", m, id, proj.state[m][id], to) :
              id \in Ids[m], to \in States(m) } : m \in Machines }

Write ==
  /\ mode = "live"
  /\ \E e \in CreationEvents \cup ChangeEvents :
       /\ Accepted(proj, e) /\ (e \in CreationEvents => Cardinality(Entities) < MaxEntities)
       /\ proj' = Apply(proj, e)
  /\ UNCHANGED <<mode, closings, crashes>>

\* A newer Synorch used the session in between.
WriteNewer ==
  /\ mode = "live"
  /\ proj' = ApplyUnsupported(proj)
  /\ UNCHANGED <<mode, closings, crashes>>

----------------------------------------------------------------------------
(* recoverSession *)

\* The log is read and judged, the closings are planned, session/resumed is appended.
Resume ==
  /\ mode = "down"
  /\ ~Halted(proj)
  /\ proj' = Apply(proj, Note("session/resumed"))
  /\ closings' = Closings(proj)
  /\ mode' = "closing"
  /\ UNCHANGED crashes

\* Mutated: one closing is appended for each kind of entity.
Close_OneOfEach(e) ==
  /\ mode = "closing"
  /\ e \in NextClosings(closings)
  /\ proj' = Apply(proj, e)
  /\ closings' = { other \in closings : other.machine # e.machine }
  /\ UNCHANGED <<mode, crashes>>

\* for (const closing of plan.closings) await store.append(...)
Close(e) ==
  /\ mode = "closing"
  /\ e \in NextClosings(closings)
  /\ proj' = Apply(proj, e)
  /\ closings' = closings \ {e}
  /\ UNCHANGED <<mode, crashes>>

\* recoverSession returns its report.
Recovered ==
  /\ mode = "closing" /\ closings = {}
  /\ mode' = "recovered"
  /\ UNCHANGED <<proj, closings, crashes>>

\* The session goes on; an interrupted run may run again.
GoOn ==
  /\ mode = "recovered"
  /\ mode' = "live"
  /\ UNCHANGED <<proj, closings, crashes>>

\* The process dies, between any two appends.
Crash ==
  /\ mode # "down" /\ crashes < MaxCrashes
  /\ mode' = "down" /\ closings' = {} /\ crashes' = crashes + 1
  /\ UNCHANGED proj

----------------------------------------------------------------------------
RecoveryStep == Resume \/ (\E e \in closings : Close(e)) \/ Recovered
Next == Write \/ WriteNewer \/ RecoveryStep \/ GoOn \/ Crash

Spec == Init /\ [][Next]_vars

----------------------------------------------------------------------------
(* The type invariant. *)
TypeOK ==
  /\ proj.status \in {"ok", "unsupported", "corrupt"}
  /\ \A m \in Machines : proj.state[m] \in [Ids[m] -> States(m) \cup {Absent}]
  /\ mode \in Modes
  /\ \A e \in closings : e.machine \in Machines /\ e.id \in Ids[e.machine]
  /\ crashes \in 0..MaxCrashes

(* identity-and-state.md §2, core-and-store.md §5: the closings are planned *)
(* on one reading of the log and appended one after the other, and still   *)
(* none of them is a transition the projection rejects, whatever was open  *)
(* and whenever an earlier recovery was cut short: a recovery never makes  *)
(* a session unreadable.                                                   *)
NeverCorrupt == proj.status # "corrupt"

(* events-and-storage.md:89: a recovery that returns has paired every      *)
(* tool/call_proposed, approval/requested, step/started and turn/started.  *)
NothingOpen == mode = "recovered" => Open(proj) = {}

(* core-and-store.md:110: a second recovery finds nothing to close, also   *)
(* when the first one was interrupted.                                     *)
Idempotent == mode = "recovered" => Closings(proj) = {}

(* recovery.ts:42-47: a log that is corrupt or of a newer version is       *)
(* neither closed nor resumed.                                             *)
OnlyReadable == mode \in {"closing", "recovered"} => proj.status = "ok"

(* identity-and-state.md §2: an entity that has ended stays as it ended,   *)
(* in particular through recovery; only a plan may be proposed anew under  *)
(* its old identifier.                                                     *)
EndedStays ==
  [][\A m \in Machines \ {"plan"} : \A id \in Ids[m] :
       Terminal(m, proj.state[m][id]) => proj'.state[m][id] = proj.state[m][id]]_vars

(* identity-and-state.md §3: recovery never invents an outcome.  A call    *)
(* that may have run becomes interrupted, one that cannot have run is      *)
(* cancelled, and nothing it touches becomes a success.                    *)
OutcomeUnknown ==
  [][mode = "closing" =>
       \A c \in Ids["toolCall"] :
         proj'.state["toolCall"][c] # proj.state["toolCall"][c] =>
           proj'.state["toolCall"][c] =
             IF proj.state["toolCall"][c] = "proposed" THEN "cancelled" ELSE "interrupted"]_vars
=============================================================================
