----------------------------- MODULE Scheduler -----------------------------
(***************************************************************************)
(* The task graph of a run (orchestration/scheduler.ts): which tasks of    *)
(* the approved plan may start, which have to wait, and which never will.  *)
(*                                                                         *)
(* A task waits for the tasks it depends on, for a place within the limits *)
(* of the run and of its provider, and for every running owner of a path   *)
(* it also owns.  All tasks of a run share its one workspace, so that      *)
(* MaxGlobal is the smaller of limits.global and limits.perWorkspace.      *)
(***************************************************************************)
EXTENDS Naturals, FiniteSets

CONSTANTS
  Tasks,         \* every task a plan of the run may come to have
  Planned,       \* those of the plan the run starts with
  Place,          \* a task's place in the order of the plan
  DependsOn,     \* the tasks each one depends on
  Overlapping,   \* the pairs of tasks that own a common path
  Provider,      \* the provider each task is routed to
  MaxGlobal, MaxPerProvider

\* What createDagScheduler refuses to work with.
ASSUME GraphAssumption ==
  /\ IsFiniteSet(Tasks) /\ Planned \subseteq Tasks
  /\ Place \in [Tasks -> Nat] /\ \A t, u \in Tasks : t # u => Place[t] # Place[u]
  /\ DependsOn \in [Tasks -> SUBSET Tasks]
  /\ \A t \in Planned : DependsOn[t] \subseteq Planned
ASSUME AcyclicAssumption ==
  \A S \in SUBSET Tasks : S # {} => \E t \in S : DependsOn[t] \cap S = {}
ASSUME LimitAssumption == MaxGlobal \in Nat \ {0} /\ MaxPerProvider \in Nat \ {0}

VARIABLE sched   \* states: "unknown" until the task is added

ScheduledStates == {"unknown", "pending", "running", "completed", "failed", "skipped"}

In(state) == {t \in Tasks : sched[t] = state}

Overlaps(t, u) == <<t, u>> \in Overlapping \/ <<u, t>> \in Overlapping

----------------------------------------------------------------------------

SchedInit == sched = [t \in Tasks |-> IF t \in Planned THEN "pending" ELSE "unknown"]

\* Mutated: the limit counts one task too many.
Fits_OneMore(t, active) ==
  /\ Cardinality(active) <= MaxGlobal
  /\ Cardinality({u \in active : Provider[u] = Provider[t]}) < MaxPerProvider
  /\ \A u \in active : ~Overlaps(t, u)

Fits(t, active) ==
  /\ Cardinality(active) < MaxGlobal
  /\ Cardinality({u \in active : Provider[u] = Provider[t]}) < MaxPerProvider
  /\ \A u \in active : ~Overlaps(t, u)

DependenciesCompleted(t) == \A u \in DependsOn[t] : sched[u] = "completed"

\* Mutated: a dependency that has started is enough.
Ready_OnceStarted == {t \in In("pending") : \A u \in DependsOn[t] : sched[u] # "pending"}

Ready == {t \in In("pending") : DependenciesCompleted(t)}

\* startable(): in the order of the plan, each task that fits beside what runs
\* and what was selected before it.  There is exactly one such set.
Startable(S) ==
  S = {t \in Ready : Fits(t, In("running") \cup {u \in S : Place[u] < Place[t]})}

\* skipDependents(k): what waits for k, or for a task skipped because of k.
\* The graph has no cycle, so that this also is exactly one set.
Dependents(k, S) ==
  S = {t \in In("pending") : DependsOn[t] \cap ({k} \cup S) # {}}

\* The loop of the coordinator starts all that startable() returned at once.
StartAll(S) ==
  /\ Startable(S)
  /\ sched' = [t \in Tasks |-> IF t \in S THEN "running" ELSE sched[t]]

Finish(k, outcome) ==
  /\ sched[k] = "running"
  /\ \E S \in SUBSET In("pending") :
       /\ IF outcome = "failed" THEN Dependents(k, S) ELSE S = {}
       /\ sched' = [t \in Tasks |-> IF t = k THEN outcome ELSE IF t \in S THEN "skipped" ELSE sched[t]]

SkipPending == sched' = [t \in Tasks |-> IF sched[t] = "pending" THEN "skipped" ELSE sched[t]]

\* Mutated: what the new task depends on is not looked at.
Add_Pending(S) ==
  /\ \A t \in S : sched[t] = "unknown" /\ \A u \in DependsOn[t] : sched[u] # "unknown"
  /\ sched' = [t \in Tasks |-> IF t \in S THEN "pending" ELSE sched[t]]

\* add(), for each task of S; a task may not depend on another one of S.
Add(S) ==
  /\ \A t \in S : sched[t] = "unknown" /\ \A u \in DependsOn[t] : sched[u] # "unknown"
  /\ sched' = [t \in Tasks |->
       IF t \notin S THEN sched[t]
       ELSE IF \E u \in DependsOn[t] : sched[u] \in {"failed", "skipped"} THEN "skipped" ELSE "pending"]

Done == \A t \in Tasks : sched[t] \in {"unknown", "completed", "failed", "skipped"}

SchedNext ==
  \/ \E S \in SUBSET Tasks : StartAll(S)
  \/ \E t \in Tasks, outcome \in {"completed", "failed"} : Finish(t, outcome)
  \/ SkipPending
  \/ \E S \in SUBSET Tasks : Add(S)

SchedSpec == SchedInit /\ [][SchedNext]_sched

----------------------------------------------------------------------------
(* Properties *)

SchedTypeOK == sched \in [Tasks -> ScheduledStates]

\* What runs together was started by different calls of start() and joined by
\* tasks added later: still no two running tasks own a common path, the limits
\* of the run and of each provider hold, and everything a task was started on
\* the strength of is completed (scheduler.ts:103-154).
RunningApart ==
  /\ \A t, u \in In("running") : t # u => ~Overlaps(t, u)
  /\ \A t \in In("running") \cup In("completed") : DependenciesCompleted(t)

WithinLimits ==
  /\ Cardinality(In("running")) <= MaxGlobal
  /\ \A t \in In("running") :
       Cardinality({u \in In("running") : Provider[u] = Provider[t]}) <= MaxPerProvider

\* The run loop ends when nothing is in flight (coordinator.ts:1784): the tasks
\* that are pending then are cancelled.  So no pending task may be left when
\* nothing runs unless startable() offers one; in particular none may wait for
\* a task that failed or was skipped.
NeverStuck ==
  In("running") = {} /\ In("pending") # {} => \E S \in SUBSET Ready : S # {} /\ Startable(S)
=============================================================================
