------------------------- MODULE CoordinatorProofs -------------------------
(***************************************************************************)
(* The scheduler keeps its promises for every graph without cycles, every  *)
(* set of owned paths and every pair of limits, whatever order its         *)
(* operations are called in.                                               *)
(*                                                                         *)
(* The limits: of the tasks one call of startable() selects, the last one  *)
(* in the order of the plan was found to fit beside all the others.  The   *)
(* progress: among the pending tasks one depends on none of them, so it is *)
(* ready, and the first ready task in the order of the plan always fits.   *)
(*                                                                         *)
(* The run loop and the tasks use the scheduler as it is meant to be used: *)
(* every step of a run is a step of the scheduler or leaves it alone, so   *)
(* that what holds of the scheduler holds of every run.                    *)
(***************************************************************************)
EXTENDS Coordinator, FiniteSetTheorems, SequenceTheorems, WellFoundedInduction, TLAPS

LEMMA LeastNatural ==
  ASSUME NEW T, T \subseteq Nat, T # {}
  PROVE  \E n \in T : \A m \in T : n <= m
<1>1. IsWellFoundedOn(OpToRel(<, Nat), Nat)
  BY NatLessThanWellFounded
<1>2. PICK n \in T : \A m \in T : ~(<<m, n>> \in OpToRel(<, Nat))
  BY <1>1, WFMin
<1>3. \A m \in T : ~(m < n)
  BY <1>2 DEF OpToRel
<1> QED BY <1>3

(* A non-empty finite set of tasks has a last one in the order of the plan. *)
LEMMA LastTask ==
  ASSUME NEW S \in SUBSET Tasks, S # {}
  PROVE  \E t \in S : \A u \in S : u # t => Place[u] < Place[t]
<1> DEFINE NoLast(A) == \A t \in A : \E u \in A : u # t /\ ~(Place[u] < Place[t])
           Sizes == {k \in Nat : \E A \in SUBSET S : A # {} /\ NoLast(A) /\ Cardinality(A) = k}
<1>1. IsFiniteSet(S)
  BY GraphAssumption, FS_Subset
<1>2. SUFFICES ASSUME NoLast(S) PROVE FALSE
  OBVIOUS
<1>3. Cardinality(S) \in Sizes
  BY <1>1, <1>2, FS_CardinalityType
<1>4. PICK k \in Sizes : \A j \in Sizes : k <= j
  BY <1>3, LeastNatural
<1>5. PICK A \in SUBSET S : A # {} /\ NoLast(A) /\ Cardinality(A) = k
  BY <1>4
<1>6. PICK x \in A : TRUE
  BY <1>5
<1>7. IsFiniteSet(A) /\ IsFiniteSet(A \ {x}) /\ Cardinality(A \ {x}) = k - 1
  BY <1>1, <1>5, <1>6, FS_Subset, FS_RemoveElement
<1>8. k \in Nat /\ k - 1 \in Nat
  BY <1>7, FS_CardinalityType, <1>4
<1>9. A \ {x} # {}
  BY <1>5, <1>6
<1>10. ~NoLast(A \ {x})
  <2>1. SUFFICES ASSUME NoLast(A \ {x}) PROVE FALSE
    OBVIOUS
  <2>2. k - 1 \in Sizes
    BY <2>1, <1>7, <1>8, <1>9
  <2> QED BY <2>2, <1>4, <1>8
<1>11. PICK m \in A \ {x} : \A u \in A \ {x} : u # m => Place[u] < Place[m]
  BY <1>10
<1>12. Place[x] \in Nat /\ Place[m] \in Nat /\ Place[x] # Place[m] /\ \A u \in A : Place[u] \in Nat
  BY <1>5, <1>6, <1>11, GraphAssumption
<1>13. CASE Place[x] < Place[m]
  BY <1>13, <1>11, <1>5
<1>14. CASE Place[m] < Place[x]
  <2>1. \A u \in A : u # x => Place[u] < Place[x]
    BY <1>14, <1>11, <1>12
  <2> QED BY <2>1, <1>5, <1>6
<1> QED BY <1>12, <1>13, <1>14

(* In a set of tasks that is not empty one depends on no other.            *)
LEMMA FirstTask ==
  ASSUME NEW S \in SUBSET Tasks, S # {}
  PROVE  \E t \in S : DependsOn[t] \cap S = {}
BY AcyclicAssumption

----------------------------------------------------------------------------
(* Type correctness *)

LEMMA AddedState ==
  ASSUME NEW S, Add(S), SchedTypeOK, NEW t \in Tasks
  PROVE  /\ t \notin S => sched'[t] = sched[t]
         /\ t \in S => sched[t] = "unknown" /\ sched'[t] \in {"pending", "skipped"}
BY DEF Add, SchedTypeOK

\* Every task is in one of the states of the scheduler (scheduler.ts:27).
THEOREM SchedulerTypes == SchedSpec => []SchedTypeOK
<1>1. SchedInit => SchedTypeOK
  BY GraphAssumption DEF SchedInit, SchedTypeOK, ScheduledStates
<1>2. SchedTypeOK /\ [SchedNext]_sched => SchedTypeOK'
  <2> SUFFICES ASSUME SchedTypeOK, [SchedNext]_sched PROVE SchedTypeOK'
    OBVIOUS
  <2> USE DEF SchedTypeOK, ScheduledStates
  <2>1. ASSUME NEW S \in SUBSET Tasks, StartAll(S) PROVE SchedTypeOK'
    BY <2>1 DEF StartAll
  <2>2. ASSUME NEW t \in Tasks, NEW outcome \in {"completed", "failed"}, Finish(t, outcome) PROVE SchedTypeOK'
    BY <2>2 DEF Finish
  <2>3. CASE SkipPending
    BY <2>3 DEF SkipPending
  <2>4. ASSUME NEW S \in SUBSET Tasks, Add(S) PROVE SchedTypeOK'
    BY <2>4 DEF Add
  <2>5. CASE UNCHANGED sched
    BY <2>5
  <2> QED BY <2>1, <2>2, <2>3, <2>4, <2>5 DEF SchedNext
<1> QED BY <1>1, <1>2, PTL DEF SchedSpec

----------------------------------------------------------------------------
(* What runs together *)

\* What every operation of the scheduler leaves as it is.
LEMMA CompletedStays ==
  ASSUME SchedTypeOK, [SchedNext]_sched, NEW t \in Tasks, sched[t] = "completed"
  PROVE  sched'[t] = "completed"
<1> USE DEF SchedTypeOK
<1>1. ASSUME NEW S \in SUBSET Tasks, StartAll(S) PROVE sched'[t] = "completed"
  <2>1. t \notin S
    BY <1>1 DEF StartAll, Startable, Ready, In
  <2> QED BY <1>1, <2>1 DEF StartAll
<1>2. ASSUME NEW k \in Tasks, NEW outcome \in {"completed", "failed"}, Finish(k, outcome) PROVE sched'[t] = "completed"
  BY <1>2 DEF Finish, In
<1>3. CASE SkipPending
  BY <1>3 DEF SkipPending
<1>4. ASSUME NEW S \in SUBSET Tasks, Add(S) PROVE sched'[t] = "completed"
  BY <1>4, AddedState
<1> QED BY <1>1, <1>2, <1>3, <1>4 DEF SchedNext

\* What runs afterwards ran before, unless it has just been started.
LEMMA OnlyStartRuns ==
  ASSUME SchedTypeOK, [SchedNext]_sched, ~\E S \in SUBSET Tasks : StartAll(S)
  PROVE  In("running")' \subseteq In("running")
<1> USE DEF SchedTypeOK, In
<1>1. ASSUME NEW k \in Tasks, NEW outcome \in {"completed", "failed"}, Finish(k, outcome) PROVE In("running")' \subseteq In("running")
  BY <1>1 DEF Finish
<1>2. CASE SkipPending
  BY <1>2 DEF SkipPending
<1>3. ASSUME NEW S \in SUBSET Tasks, Add(S) PROVE In("running")' \subseteq In("running")
  BY <1>3, AddedState
<1>4. CASE UNCHANGED sched
  BY <1>4
<1> QED BY <1>1, <1>2, <1>3, <1>4 DEF SchedNext

LEMMA StartRuns ==
  ASSUME SchedTypeOK, NEW S \in SUBSET Tasks, StartAll(S)
  PROVE  /\ In("running")' = In("running") \cup S
         /\ S \subseteq Ready
         /\ \A t \in S : Fits(t, In("running") \cup {u \in S : Place[u] < Place[t]})
<1>1. S = {t \in Ready : Fits(t, In("running") \cup {u \in S : Place[u] < Place[t]})}
  BY DEF StartAll, Startable
<1>2. S \subseteq Ready /\ \A t \in S : Fits(t, In("running") \cup {u \in S : Place[u] < Place[t]})
  BY <1>1
<1>3. In("running")' = In("running") \cup S
  BY DEF StartAll, SchedTypeOK, In
<1> QED BY <1>2, <1>3

\* Two running tasks never own a common path, and nothing runs or has completed
\* whose dependencies have not (scheduler.ts:103-154).
THEOREM OwnersRunApart == SchedSpec => []RunningApart
<1>1. SchedInit => RunningApart
  BY DEF SchedInit, RunningApart, In
<1>2. ASSUME SchedTypeOK, RunningApart, [SchedNext]_sched PROVE RunningApart'
  <2>1. ASSUME NEW t \in In("running")' \cup In("completed")' PROVE DependenciesCompleted(t)'
    <3>1. t \in Tasks /\ DependsOn[t] \subseteq Tasks
      BY GraphAssumption DEF In
    <3>2. DependenciesCompleted(t)
      <4>1. CASE t \in In("running") \cup In("completed")
        BY <4>1, <1>2 DEF RunningApart
      <4>2. CASE t \notin In("running") \cup In("completed")
        <5>1. t \in Ready
          <6> USE DEF SchedTypeOK, In
          <6>1. ASSUME NEW S \in SUBSET Tasks, StartAll(S) PROVE t \in Ready
            BY <6>1, <4>2, <2>1, <1>2, StartRuns DEF StartAll
          <6>2. ASSUME NEW k \in Tasks, NEW outcome \in {"completed", "failed"}, Finish(k, outcome) PROVE t \in Ready
            BY <6>2, <4>2, <2>1, <1>2 DEF Finish
          <6>3. CASE SkipPending
            BY <6>3, <4>2, <2>1, <1>2 DEF SkipPending
          <6>4. ASSUME NEW S \in SUBSET Tasks, Add(S) PROVE t \in Ready
            BY <6>4, <4>2, <2>1, <1>2, AddedState
          <6>5. CASE UNCHANGED sched
            BY <6>5, <4>2, <2>1
          <6> QED BY <6>1, <6>2, <6>3, <6>4, <6>5, <1>2 DEF SchedNext
        <5> QED BY <5>1 DEF Ready
      <4> QED BY <4>1, <4>2
    <3> QED BY <3>1, <3>2, <1>2, CompletedStays DEF DependenciesCompleted
  <2>2. ASSUME NEW t \in In("running")', NEW u \in In("running")', t # u PROVE ~Overlaps(t, u)
    <3>1. CASE ~\E S \in SUBSET Tasks : StartAll(S)
      BY <3>1, <2>2, <1>2, OnlyStartRuns DEF RunningApart
    <3>2. ASSUME NEW S \in SUBSET Tasks, StartAll(S) PROVE ~Overlaps(t, u)
      <4>1. /\ t \in In("running") \cup S /\ u \in In("running") \cup S
            /\ \A x \in S : Fits(x, In("running") \cup {y \in S : Place[y] < Place[x]})
        BY <3>2, <2>2, <1>2, StartRuns
      <4>2. CASE t \in In("running") /\ u \in In("running")
        BY <4>2, <2>2, <1>2 DEF RunningApart
      <4>3. CASE t \in S /\ u \in In("running")
        BY <4>1, <4>3 DEF Fits
      <4>4. CASE u \in S /\ t \in In("running")
        BY <4>1, <4>4 DEF Fits, Overlaps
      <4>5. CASE t \in S /\ u \in S
        <5>1. Place[t] < Place[u] \/ Place[u] < Place[t]
          BY <4>5, <2>2, GraphAssumption
        <5> QED BY <5>1, <4>1, <4>5 DEF Fits, Overlaps
      <4> QED BY <4>1, <4>2, <4>3, <4>4, <4>5
    <3> QED BY <3>1, <3>2
  <2>3. RunningApart' <=> /\ \A t, u \in In("running")' : t # u => ~Overlaps(t, u)
                          /\ \A t \in In("running")' \cup In("completed")' : DependenciesCompleted(t)'
    BY DEF RunningApart, Overlaps
  <2> QED BY <2>1, <2>2, <2>3
<1>3. SchedTypeOK /\ RunningApart /\ [SchedNext]_sched => RunningApart'
  BY <1>2
<1> QED BY <1>1, <1>3, SchedulerTypes, PTL DEF SchedSpec

----------------------------------------------------------------------------
(* How much runs together *)

LEMMA SubsetCard ==
  ASSUME NEW A \in SUBSET Tasks, NEW B \in SUBSET A
  PROVE  /\ IsFiniteSet(A) /\ IsFiniteSet(B)
         /\ Cardinality(A) \in Nat /\ Cardinality(B) \in Nat /\ Cardinality(B) <= Cardinality(A)
<1>1. IsFiniteSet(A)
  BY GraphAssumption, FS_Subset
<1>2. IsFiniteSet(B) /\ Cardinality(B) <= Cardinality(A)
  BY <1>1, FS_Subset
<1> QED BY <1>1, <1>2, FS_CardinalityType

\* If all of A but t is within B, and B is below the limit, then A is within it.
LEMMA OneMore ==
  ASSUME NEW A \in SUBSET Tasks, NEW B \in SUBSET Tasks, NEW t, A \ {t} \subseteq B,
         NEW limit \in Nat, Cardinality(B) < limit
  PROVE  Cardinality(A) <= limit
<1>1. IsFiniteSet(A) /\ Cardinality(A) \in Nat
  BY SubsetCard
<1>2. Cardinality(A \ {t}) = IF t \in A THEN Cardinality(A) - 1 ELSE Cardinality(A)
  BY <1>1, FS_RemoveElement
<1>3. Cardinality(A \ {t}) <= Cardinality(B) /\ Cardinality(B) \in Nat
  BY SubsetCard
<1> QED BY <1>1, <1>2, <1>3

\* Never more run than the run allows, nor of one provider than it allows: the
\* tasks that one call of startable() selects count for one another
\* (scheduler.ts:130-141).
THEOREM LimitsHold == SchedSpec => []WithinLimits
<1> DEFINE Of(p, A) == {u \in A : Provider[u] = p}
<1>1. SchedInit => WithinLimits
  <2> SUFFICES ASSUME SchedInit PROVE WithinLimits
    OBVIOUS
  <2>1. In("running") = {}
    BY DEF SchedInit, In
  <2> QED BY <2>1, FS_EmptySet, LimitAssumption DEF WithinLimits
<1>2. ASSUME SchedTypeOK, WithinLimits, [SchedNext]_sched PROVE WithinLimits'
  <2> DEFINE R == In("running")
  <2>0. R \in SUBSET Tasks
    BY DEF In
  <2>1. CASE ~\E S \in SUBSET Tasks : StartAll(S)
    <3>1. R' \subseteq R
      BY <2>1, <1>2, OnlyStartRuns
    <3>2. Cardinality(R') <= MaxGlobal
      BY <2>0, <3>1, <1>2, SubsetCard, LimitAssumption DEF WithinLimits
    <3>3. ASSUME NEW t \in R' PROVE Cardinality(Of(Provider[t], R')) <= MaxPerProvider
      <4>1. Of(Provider[t], R') \in SUBSET Of(Provider[t], R) /\ Of(Provider[t], R) \in SUBSET Tasks
        BY <2>0, <3>1
      <4>2. Cardinality(Of(Provider[t], R)) <= MaxPerProvider
        BY <3>1, <1>2 DEF WithinLimits
      <4> HIDE DEF Of
      <4> QED BY <4>1, <4>2, SubsetCard, LimitAssumption
    <3> QED BY <3>2, <3>3 DEF WithinLimits
  <2>2. ASSUME NEW S \in SUBSET Tasks, StartAll(S) PROVE WithinLimits'
    <3>1. /\ R' = R \cup S
          /\ \A t \in S : Fits(t, R \cup {u \in S : Place[u] < Place[t]})
      BY <2>2, <1>2, StartRuns
    <3>2. Cardinality(R \cup S) <= MaxGlobal
      <4>1. CASE S = {}
        BY <4>1, <1>2 DEF WithinLimits
      <4>2. CASE S # {}
        <5>1. PICK t \in S : \A u \in S : u # t => Place[u] < Place[t]
          BY <4>2, LastTask
        <5> DEFINE B == R \cup {u \in S : Place[u] < Place[t]}
        <5>2. Cardinality(B) < MaxGlobal
          BY <3>1 DEF Fits
        <5>3. R \cup S \in SUBSET Tasks /\ B \in SUBSET Tasks /\ (R \cup S) \ {t} \subseteq B
          BY <2>0, <5>1
        <5> HIDE DEF B
        <5> QED BY <5>2, <5>3, OneMore, LimitAssumption
      <4> QED BY <4>1, <4>2
    <3>3. ASSUME NEW t \in R \cup S PROVE Cardinality(Of(Provider[t], R \cup S)) <= MaxPerProvider
      <4> DEFINE P == Of(Provider[t], S)
      <4>1. CASE P = {}
        <5>1. t \in R /\ Of(Provider[t], R \cup S) = Of(Provider[t], R)
          BY <4>1, <3>3
        <5>2. Cardinality(Of(Provider[t], R)) <= MaxPerProvider
          BY <5>1, <1>2 DEF WithinLimits
        <5> QED BY <5>1, <5>2
      <4>2. CASE P # {}
        <5>1. PICK x \in P : \A u \in P : u # x => Place[u] < Place[x]
          BY <4>2, LastTask
        <5> DEFINE B == Of(Provider[x], R \cup {u \in S : Place[u] < Place[x]})
        <5>2. x \in S /\ Provider[x] = Provider[t]
          BY <5>1
        <5>3. Cardinality(B) < MaxPerProvider
          BY <3>1, <5>2 DEF Fits
        <5>4. Of(Provider[t], R \cup S) \in SUBSET Tasks /\ B \in SUBSET Tasks
          BY <2>0
        <5>5. Of(Provider[t], R \cup S) \ {x} \subseteq B
          BY <5>1, <5>2
        <5> HIDE DEF B, Of
        <5> QED BY <5>3, <5>4, <5>5, OneMore, LimitAssumption
      <4> QED BY <4>1, <4>2
    <3> QED BY <3>1, <3>2, <3>3 DEF WithinLimits
  <2> QED BY <2>1, <2>2
<1>3. SchedTypeOK /\ WithinLimits /\ [SchedNext]_sched => WithinLimits'
  BY <1>2
<1> QED BY <1>1, <1>3, SchedulerTypes, PTL DEF SchedSpec

----------------------------------------------------------------------------
(* What waits *)

\* startable() returns something: the tasks are taken one place after the other.
LEMMA StartableExists == \E S \in SUBSET Ready : Startable(S)
<1> DEFINE Chosen(n, S) == S = {t \in Ready : Place[t] < n /\ Fits(t, In("running") \cup {u \in S : Place[u] < Place[t]})}
           Unreached == {n \in Nat : ~\E S \in SUBSET Ready : Chosen(n, S)}
<1>0. Ready \subseteq Tasks /\ Place \in [Tasks -> Nat]
  BY GraphAssumption DEF Ready, In
<1>1. Unreached = {}
  <2>1. SUFFICES ASSUME Unreached # {} PROVE FALSE
    OBVIOUS
  <2>2. PICK n \in Unreached : \A m \in Unreached : n <= m
    BY <2>1, LeastNatural
  <2>3. n # 0
    <3>1. Chosen(0, {})
      BY <1>0
    <3> HIDE DEF Chosen
    <3>2. \E S \in SUBSET Ready : Chosen(0, S)
      BY <3>1
    <3> QED BY <3>2
  <2>4. n - 1 \in Nat /\ n - 1 \notin Unreached
    <3> HIDE DEF Chosen
    <3>1. n \in Nat
      BY <2>2
    <3> QED BY <2>2, <2>3, <3>1
  <2>5. PICK S \in SUBSET Ready : Chosen(n - 1, S)
    <3> HIDE DEF Chosen
    <3> QED BY <2>4
  <2> DEFINE Last == {t \in Ready : Place[t] = n - 1 /\ Fits(t, In("running") \cup {u \in S : Place[u] < Place[t]})}
  <2>6. \A t \in Ready : Place[t] < n => {u \in S \cup Last : Place[u] < Place[t]} = {u \in S : Place[u] < Place[t]}
    BY <1>0
  <2>7. \A t \in Ready : Place[t] < n <=> (Place[t] < n - 1 \/ Place[t] = n - 1)
    BY <1>0
  <2>8. Chosen(n, S \cup Last)
    BY <2>5, <2>6, <2>7
  <2> QED BY <2>8, <2>2
<1>2. \E n \in Nat : \A t \in Ready : Place[t] < n
  <2>1. CASE Ready = {}
    BY <2>1
  <2>2. CASE Ready # {}
    <3>1. PICK t \in Ready : \A u \in Ready : u # t => Place[u] < Place[t]
      BY <2>2, <1>0, LastTask
    <3>2. \A u \in Ready : Place[u] < Place[t] + 1
      BY <3>1, <1>0
    <3> QED BY <3>2, <1>0
  <2> QED BY <2>1, <2>2
<1>3. PICK n \in Nat : \A t \in Ready : Place[t] < n
  BY <1>2
<1>4. PICK S \in SUBSET Ready : Chosen(n, S)
  BY <1>1
<1>5. S = {t \in Ready : Fits(t, In("running") \cup {u \in S : Place[u] < Place[t]})}
  BY <1>3, <1>4
<1> QED BY <1>5 DEF Startable

\* What a pending task depends on has neither failed nor been skipped, and is known.
DependenciesOpen ==
  \A t \in In("pending") : \A u \in DependsOn[t] : sched[u] \in {"pending", "running", "completed"}

LEMMA PendingIsOpen == SchedSpec => []DependenciesOpen
<1>1. SchedInit => DependenciesOpen
  BY GraphAssumption DEF SchedInit, DependenciesOpen, In
<1>2. ASSUME SchedTypeOK, DependenciesOpen, [SchedNext]_sched PROVE DependenciesOpen'
  <2> SUFFICES ASSUME NEW t \in Tasks, sched'[t] = "pending", NEW u \in DependsOn[t]
               PROVE  sched'[u] \in {"pending", "running", "completed"}
    BY GraphAssumption DEF DependenciesOpen, In
  <2>0. u \in Tasks /\ (sched[t] = "pending" => sched[u] \in {"pending", "running", "completed"})
    BY <1>2, GraphAssumption DEF DependenciesOpen, In
  <2> USE <1>2, <2>0 DEF SchedTypeOK
  <2>1. ASSUME NEW S \in SUBSET Tasks, StartAll(S) PROVE sched'[u] \in {"pending", "running", "completed"}
    BY <2>1 DEF StartAll
  <2>2. ASSUME NEW k \in Tasks, NEW outcome \in {"completed", "failed"}, Finish(k, outcome)
        PROVE  sched'[u] \in {"pending", "running", "completed"}
    <3>1. PICK S \in SUBSET In("pending") :
            /\ IF outcome = "failed" THEN Dependents(k, S) ELSE S = {}
            /\ sched' = [x \in Tasks |-> IF x = k THEN outcome ELSE IF x \in S THEN "skipped" ELSE sched[x]]
      BY <2>2 DEF Finish
    <3>2. t # k /\ t \notin S /\ sched[t] = "pending"
      BY <3>1
    <3>3. CASE outcome = "failed"
      <4>1. DependsOn[t] \cap ({k} \cup S) = {}
        BY <3>1, <3>2, <3>3 DEF Dependents, In
      <4> QED BY <4>1, <3>1, <3>2
    <3>4. CASE outcome = "completed"
      BY <3>1, <3>2, <3>4
    <3> QED BY <3>3, <3>4
  <2>3. CASE SkipPending
    BY <2>3 DEF SkipPending
  <2>4. ASSUME NEW S \in SUBSET Tasks, Add(S) PROVE sched'[u] \in {"pending", "running", "completed"}
    <3>1. \A x \in S : \A y \in DependsOn[x] : sched[y] # "unknown"
      BY <2>4 DEF Add
    <3>2. CASE t \in S
      <4>1. sched[u] \notin {"unknown", "failed", "skipped"}
        BY <2>4, <3>1, <3>2 DEF Add
      <4> QED BY <2>4, <4>1, AddedState DEF ScheduledStates
    <3>3. CASE t \notin S
      BY <2>4, <3>3, AddedState
    <3> QED BY <3>2, <3>3
  <2> QED BY <2>1, <2>2, <2>3, <2>4 DEF SchedNext
<1>3. SchedTypeOK /\ DependenciesOpen /\ [SchedNext]_sched => DependenciesOpen'
  BY <1>2
<1> QED BY <1>1, <1>3, SchedulerTypes, PTL DEF SchedSpec

\* Nothing pending is ever left behind: when nothing runs, startable() offers a
\* task as long as one is pending, also after tasks have failed, were skipped
\* or were added (scheduler.ts:120-189, coordinator.ts:1784).
THEOREM NothingGetsStuck == SchedSpec => []NeverStuck
<1>1. ASSUME SchedTypeOK, DependenciesOpen, In("running") = {}, In("pending") # {}
      PROVE  \E S \in SUBSET Ready : S # {} /\ Startable(S)
  <2>1. PICK t \in In("pending") : DependsOn[t] \cap In("pending") = {}
    BY <1>1, FirstTask DEF In
  <2>2. t \in Ready
    <3>1. \A u \in DependsOn[t] : sched[u] = "completed"
      BY <1>1, <2>1, GraphAssumption DEF DependenciesOpen, In
    <3> QED BY <3>1, <2>1 DEF Ready, DependenciesCompleted
  <2>3. \A x : Fits(x, {})
    <3>1. \A x : {u \in {} : Provider[u] = Provider[x]} = {}
      OBVIOUS
    <3> QED BY <3>1, FS_EmptySet, LimitAssumption DEF Fits
  <2>4. PICK S \in SUBSET Ready : Startable(S)
    BY StartableExists
  <2>5. S # {}
    <3>1. SUFFICES ASSUME S = {} PROVE FALSE
      OBVIOUS
    <3>2. {} = {x \in Ready : Fits(x, {})}
      BY <3>1, <2>4, <1>1 DEF Startable
    <3> QED BY <3>2, <2>2, <2>3
  <2> QED BY <2>4, <2>5
<1>2. SchedTypeOK /\ DependenciesOpen => NeverStuck
  BY <1>1 DEF NeverStuck
<1> QED BY <1>2, SchedulerTypes, PendingIsOpen, PTL

----------------------------------------------------------------------------
(* A run *)

\* Only known tasks are on their way into the plan.
SpawnedOK == spawned \subseteq Tasks

LEMMA Adds ==
  ASSUME SpawnedOK, AddSpawned
  PROVE  UNCHANGED sched \/ \E S \in SUBSET Tasks : Add(S)
BY DEF SpawnedOK, AddSpawned

LEMMA StartsSome ==
  ASSUME Starts
  PROVE  \E S \in SUBSET Ready : StartAll(S) /\ at' = [t \in Tasks |-> IF t \in S THEN "begin" ELSE at[t]]
BY DEF Starts

LEMMA ReadyTasks == Ready \subseteq Tasks /\ \A t \in Ready : sched[t] = "pending"
BY DEF Ready, In

LEMMA RunTaskSchedules ==
  ASSUME SpawnedOK, NEW t \in Tasks, RunTask(t)
  PROVE  UNCHANGED sched \/ \E S \in SUBSET Tasks : Add(S)
<1>1. CASE UNCHANGED sched
  BY <1>1
<1>2. CASE Triage(t) \/ Decided(t) \/ Replanned(t)
  BY <1>2 DEF Triage, Decided, Replanned
<1>3. CASE LeaveTriage(t)
  BY <1>3, Adds DEF LeaveTriage
<1> QED BY <1>1, <1>2, <1>3 DEF RunTask

LEMMA NextSchedules ==
  ASSUME SpawnedOK, [Next]_vars
  PROVE  [SchedNext]_sched
<1>1. ASSUME NEW t \in Tasks, RunTask(t) PROVE [SchedNext]_sched
  BY <1>1, RunTaskSchedules DEF SchedNext
<1>2. ASSUME NEW t \in Tasks, TaskOver(t) PROVE [SchedNext]_sched
  BY <1>2 DEF TaskOver, SchedNext
<1>3. ASSUME NEW w \in Tasks \cup {"turn"}, Revises(w) PROVE [SchedNext]_sched
  BY <1>3 DEF Revises
<1>4. CASE Loop
  BY <1>4, StartsSome, ReadyTasks DEF Loop, SchedNext
<1>5. CASE StartAfterTurn
  BY <1>5, StartsSome, ReadyTasks DEF StartAfterTurn, SchedNext
<1>6. CASE Race \/ After \/ Consult
  BY <1>6 DEF Race, After, Consult
<1>7. CASE LeaveConsult
  BY <1>7, Adds DEF LeaveConsult, SchedNext
<1>8. CASE Drain
  BY <1>8 DEF Drain, SchedNext
<1>9. CASE Steer \/ Interrupt \/ Exhaust \/ \E t \in Tasks : CancelWorker(t)
  BY <1>9 DEF Steer, Interrupt, Exhaust, CancelWorker
<1>10. CASE UNCHANGED vars
  BY <1>10 DEF vars
<1> QED BY <1>1, <1>2, <1>3, <1>4, <1>5, <1>6, <1>7, <1>8, <1>9, <1>10 DEF Next, Harness

LEMMA SpawnedKnown == Spec => []SpawnedOK
<1>1. Init => SpawnedOK
  BY DEF Init, SpawnedOK
<1>2. ASSUME SpawnedOK, [Next]_vars PROVE SpawnedOK'
  <2> USE <1>2 DEF SpawnedOK
  <2>1. ASSUME NEW t \in Tasks, RunTask(t) PROVE spawned' \subseteq Tasks
    <3>1. CASE UNCHANGED spawned
      BY <3>1
    <3>2. CASE Triage(t)
      BY <3>2 DEF Triage, Spawns, Spawnable
    <3>3. CASE LeaveTriage(t)
      BY <3>3 DEF LeaveTriage, LeaveTurn
    <3>4. CASE Decided(t) \/ Replanned(t)
      BY <3>4 DEF Decided, Replanned
    <3> QED BY <2>1, <3>1, <3>2, <3>3, <3>4 DEF RunTask, planVars
  <2>2. ASSUME NEW t \in Tasks, TaskOver(t) PROVE spawned' \subseteq Tasks
    BY <2>2 DEF TaskOver, planVars
  <2>3. ASSUME NEW w \in Tasks \cup {"turn"}, Revises(w) PROVE spawned' \subseteq Tasks
    BY <2>3 DEF Revises
  <2>4. CASE Loop \/ StartAfterTurn \/ Race \/ After \/ Drain
    BY <2>4 DEF Loop, StartAfterTurn, Race, After, Drain, planVars
  <2>5. CASE Consult
    BY <2>5 DEF Consult, Spawnable
  <2>6. CASE LeaveConsult
    BY <2>6 DEF LeaveConsult, LeaveTurn
  <2>7. CASE Steer \/ Interrupt \/ Exhaust \/ \E t \in Tasks : CancelWorker(t)
    BY <2>7 DEF Steer, Interrupt, Exhaust, CancelWorker, planVars
  <2>8. CASE UNCHANGED vars
    BY <2>8 DEF vars, planVars
  <2> QED BY <2>1, <2>2, <2>3, <2>4, <2>5, <2>6, <2>7, <2>8 DEF Next, Harness
<1> QED BY <1>1, <1>2, PTL DEF Spec

\* A run only ever uses the scheduler through its operations, each when it may
\* be called: what the scheduler promises, it promises every run
\* (coordinator.ts:1430-1834 over scheduler.ts).
THEOREM RunSchedules == Spec => SchedSpec
<1>1. Init => SchedInit
  BY DEF Init
<1>2. SpawnedOK /\ [Next]_vars => [SchedNext]_sched
  BY NextSchedules
<1> QED BY <1>1, <1>2, SpawnedKnown, PTL DEF Spec, SchedSpec

\* No two running tasks of a run own a common path, and none was started before
\* what it depends on had completed.
THEOREM RunKeepsOwnersApart == Spec => []RunningApart
BY RunSchedules, OwnersRunApart, PTL

\* A run stays within its limits and those of every provider.
THEOREM RunWithinLimits == Spec => []WithinLimits
BY RunSchedules, LimitsHold, PTL

\* A run whose loop ends because nothing is in flight has no pending task that
\* could still have been started.
THEOREM RunNeverStuck == Spec => []NeverStuck
BY RunSchedules, NothingGetsStuck, PTL

----------------------------------------------------------------------------
(* What a task may cost *)

Phases == {"idle", "begin", "loop", "attempt", "verify", "review", "replan", "completed", "failed", "gone"} \cup Triages
Counts == [retry : Nat, revise : Nat, repack : Nat, review : Nat, run : Nat]

\* No attempt of the current round has been dispatched yet.
Before == {"idle", "begin", "loop"}

\* Where runTask stands while an attempt is owed, and before the scheduler is told.
Steady == Phases \ (Before \cup {"gone"})

TasksTyped == at \in [Tasks -> Phases] /\ count \in [Tasks -> Counts]

Within(n, limit) == IF n < limit THEN n ELSE limit

\* The attempts so far are paid for, and the present one is the one still owed.
Paid(t) ==
  /\ count[t].retry <= TriageRetries /\ count[t].repack <= MaxRepackages
  /\ Kind[t] = "work" =>
       count[t].run <= count[t].retry + Within(count[t].revise, ReviewRevisions) + count[t].repack
                       + (IF at[t] \in Before THEN 0 ELSE 1)

\* A step of t leaves the other tasks alone, and t within its means.
StaysPaid(t) ==
  /\ TasksTyped' /\ Paid(t)'
  /\ \A u \in Tasks \ {t} : at'[u] = at[u] /\ count'[u] = count[u]
  /\ at[t] \in {"idle", "gone"} \/ at'[t] \notin {"idle", "gone"}

LEMMA GoesTo ==
  ASSUME NEW t, NEW path, NEW next, Goes(t, path, next)
  PROVE  \E x \in {next, "failed"} : at' = [at EXCEPT ![t] = x]
BY DEF Goes, ThrowsIn

LEMMA AgainGoesTo ==
  ASSUME NEW t, NEW path, NEW then, Again(t, path, then)
  PROVE  \E x \in {"loop", "failed"} : at' = [at EXCEPT ![t] = x]
BY GoesTo DEF Again, ThrowsIn

LEMMA CountedOne ==
  ASSUME TasksTyped, NEW t \in Tasks, NEW c \in {"retry", "repack", "review", "run"}, Counted(t, c)
  PROVE  /\ count' \in [Tasks -> Counts]
         /\ \A u \in Tasks \ {t} : count'[u] = count[u]
         /\ count'[t].revise = count[t].revise
         /\ \A d \in {"retry", "repack", "run"} : count'[t][d] = count[t][d] + (IF d = c THEN 1 ELSE 0)
<1>1. count[t] \in Counts
  BY DEF TasksTyped
<1>2. count' = [count EXCEPT ![t] = [count[t] EXCEPT ![c] = count[t][c] + 1]]
  BY DEF Counted
<1>3. [count[t] EXCEPT ![c] = count[t][c] + 1] \in Counts
  BY <1>1 DEF Counts
<1>4. count'[t] = [count[t] EXCEPT ![c] = count[t][c] + 1]
  BY <1>2 DEF TasksTyped
<1>5. count' \in [Tasks -> Counts] /\ \A u \in Tasks \ {t} : count'[u] = count[u]
  BY <1>2, <1>3 DEF TasksTyped
<1>6. \A d \in {"retry", "repack", "run"} : count'[t][d] = count[t][d] + (IF d = c THEN 1 ELSE 0)
  BY <1>1, <1>4 DEF Counts
<1>7. count'[t].revise = count[t].revise
  BY <1>1, <1>4 DEF Counts
<1> QED BY <1>5, <1>6, <1>7

LEMMA SpentSome ==
  ASSUME TasksTyped, NEW t \in Tasks, NEW r \in Nat, NEW v \in Nat, Spent(t, r, v)
  PROVE  /\ count' \in [Tasks -> Counts]
         /\ \A u \in Tasks \ {t} : count'[u] = count[u]
         /\ count'[t].retry = count[t].retry + r /\ count'[t].revise = count[t].revise + v
         /\ count'[t].repack = count[t].repack /\ count'[t].run = count[t].run
<1>1. count[t] \in Counts
  BY DEF TasksTyped
<1> DEFINE c == [retry |-> count[t].retry + r, revise |-> count[t].revise + v,
                 repack |-> count[t].repack, review |-> 0, run |-> count[t].run]
<1>2. count' = [count EXCEPT ![t] = c]
  BY DEF Spent, TasksTyped
<1>3. c \in Counts
  BY <1>1 DEF Counts
<1>4. /\ c.retry = count[t].retry + r /\ c.revise = count[t].revise + v
      /\ c.repack = count[t].repack /\ c.run = count[t].run
  BY <1>1 DEF Counts
<1> HIDE DEF c
<1>5. count'[t] = c /\ count' \in [Tasks -> Counts] /\ \A u \in Tasks \ {t} : count'[u] = count[u]
  BY <1>2, <1>3 DEF TasksTyped
<1> QED BY <1>4, <1>5

\* Ending or going on with an attempt costs nothing more.
LEMMA GoesOn ==
  ASSUME TasksTyped, NEW t \in Tasks, Paid(t), at[t] \notin Before, UNCHANGED count,
         NEW x \in Steady, at' = [at EXCEPT ![t] = x]
  PROVE  StaysPaid(t)
BY DEF TasksTyped, Paid, StaysPaid, Steady, Before

LEMMA Failing == "failed" \in Steady
BY DEF Phases, Before, Steady

LEMMA GoesOnTo ==
  ASSUME TasksTyped, NEW t \in Tasks, Paid(t), at[t] \notin Before, UNCHANGED count,
         NEW path, NEW next \in Steady, Goes(t, path, next)
  PROVE  StaysPaid(t)
BY GoesTo, GoesOn, Failing

LEMMA ReviseStaysPaid ==
  ASSUME TasksTyped, NEW t \in Tasks, Paid(t), at[t] \notin Before, NEW r \in {0, 1}, Revise(t, r),
         IF r = 0 THEN count[t].revise < ReviewRevisions ELSE Left(t)
  PROVE  StaysPaid(t)
<1>1. PICK x \in {"loop", "failed"} : at' = [at EXCEPT ![t] = x]
  BY AgainGoesTo DEF Revise
<1>2. Spent(t, r, 1)
  BY DEF Revise
<1>3. /\ count' \in [Tasks -> Counts]
      /\ \A u \in Tasks \ {t} : count'[u] = count[u]
      /\ count'[t].retry = count[t].retry + r /\ count'[t].revise = count[t].revise + 1
      /\ count'[t].repack = count[t].repack /\ count'[t].run = count[t].run
  BY <1>2, SpentSome
<1>4. at'[t] = x /\ at' \in [Tasks -> Phases] /\ \A u \in Tasks \ {t} : at'[u] = at[u]
  BY <1>1 DEF TasksTyped, Phases
<1>5. count[t] \in Counts
  BY DEF TasksTyped
<1> QED BY <1>3, <1>4, <1>5, BudgetAssumption DEF StaysPaid, Paid, TasksTyped, Counts, Within, Left

LEMMA RetryStaysPaid ==
  ASSUME TasksTyped, NEW t \in Tasks, Paid(t), at[t] \notin Before, RetryOrFail(t)
  PROVE  StaysPaid(t)
<1>1. CASE count[t].retry < TriageRetries
  <2>1. PICK x \in {"loop", "failed"} : at' = [at EXCEPT ![t] = x]
    BY <1>1, AgainGoesTo DEF RetryOrFail
  <2>2. Spent(t, 1, 0)
    BY <1>1 DEF RetryOrFail
  <2>3. /\ count' \in [Tasks -> Counts]
        /\ \A u \in Tasks \ {t} : count'[u] = count[u]
        /\ count'[t].retry = count[t].retry + 1 /\ count'[t].revise = count[t].revise + 0
        /\ count'[t].repack = count[t].repack /\ count'[t].run = count[t].run
    BY <2>2, SpentSome
  <2>4. at'[t] = x /\ at' \in [Tasks -> Phases] /\ \A u \in Tasks \ {t} : at'[u] = at[u]
    BY <2>1 DEF TasksTyped, Phases
  <2>5. count[t] \in Counts
    BY DEF TasksTyped
  <2> QED BY <2>3, <2>4, <2>5, <1>1, BudgetAssumption DEF StaysPaid, Paid, TasksTyped, Counts, Within
<1>2. CASE ~(count[t].retry < TriageRetries)
  BY <1>2, GoesOnTo, Failing DEF RetryOrFail
<1> QED BY <1>1, <1>2

LEMMA IntegrateStaysPaid ==
  ASSUME TasksTyped, NEW t \in Tasks, Paid(t), at[t] \notin Before, Integrate(t)
  PROVE  StaysPaid(t)
<1>1. UNCHANGED count /\ \E next \in {"completed", "failed"} : \E path : Goes(t, path, next)
  BY DEF Integrate
<1>2. {"completed", "failed"} \subseteq Steady
  BY DEF Phases, Before, Steady
<1> QED BY <1>1, <1>2, GoesOnTo

LEMMA AsksStaysPaid ==
  ASSUME TasksTyped, NEW t \in Tasks, Paid(t), at[t] \notin Before, UNCHANGED count,
         NEW path, NEW why \in Triages, Asks(t, path, why)
  PROVE  StaysPaid(t)
<1>1. why \in Steady
  BY DEF Phases, Before, Triages, Steady
<1> QED BY <1>1, GoesOnTo DEF Asks

LEMMA StandsPaid ==
  ASSUME TasksTyped, NEW t \in Tasks, Paid(t), UNCHANGED <<at, count>>
  PROVE  StaysPaid(t)
BY DEF TasksTyped, Paid, StaysPaid

LEMMA EndCancelledStaysPaid ==
  ASSUME TasksTyped, NEW t \in Tasks, Paid(t), at[t] \notin Before, EndCancelled(t)
  PROVE  StaysPaid(t) /\ at'[t] = "failed"
<1>1. UNCHANGED count /\ at' = [at EXCEPT ![t] = "failed"]
  BY GoesTo DEF EndCancelled, ThrowsIn
<1> QED BY <1>1, GoesOn, Failing DEF TasksTyped

LEMMA BeginStaysPaid ==
  ASSUME TasksTyped, NEW t \in Tasks, Paid(t), Begin(t)
  PROVE  StaysPaid(t)
<1>1. UNCHANGED count /\ at[t] = "begin" /\ \E x \in {"completed", "loop", "failed"} : at' = [at EXCEPT ![t] = x]
  BY GoesTo DEF Begin
<1>2. {"completed", "loop", "failed"} \subseteq Phases
  BY DEF Phases
<1>3. count[t] \in Counts
  BY DEF TasksTyped
<1> QED BY <1>1, <1>2, <1>3, BudgetAssumption DEF TasksTyped, Paid, StaysPaid, Before, Counts, Within

LEMMA DispatchStaysPaid ==
  ASSUME TasksTyped, NEW t \in Tasks, Paid(t), Dispatch(t)
  PROVE  StaysPaid(t)
<1>0. count[t] \in Counts /\ at[t] \in Before /\ {"attempt", "failed"} \subseteq Phases \ Before
  BY DEF TasksTyped, Dispatch, Before, Phases, Steady
<1>1. CASE UNCHANGED count /\ \E path : Goes(t, path, "failed")
  <2>1. at' = [at EXCEPT ![t] = "failed"]
    BY <1>1, GoesTo
  <2> QED BY <2>1, <1>0, <1>1, BudgetAssumption DEF TasksTyped, Paid, StaysPaid, Counts, Within
<1>2. CASE Goes(t, <<"running">>, "attempt") /\ Counted(t, "run")
  <2>1. PICK x \in {"attempt", "failed"} : at' = [at EXCEPT ![t] = x]
    BY <1>2, GoesTo
  <2>2. at'[t] = x /\ at' \in [Tasks -> Phases] /\ \A u \in Tasks \ {t} : at'[u] = at[u]
    BY <2>1, <1>0 DEF TasksTyped
  <2>3. /\ count' \in [Tasks -> Counts]
        /\ \A u \in Tasks \ {t} : count'[u] = count[u]
        /\ count'[t].revise = count[t].revise
        /\ count'[t].retry = count[t].retry /\ count'[t].repack = count[t].repack /\ count'[t].run = count[t].run + 1
    <3>1. \A d \in {"retry", "repack", "run"} : count'[t][d] = count[t][d] + (IF d = "run" THEN 1 ELSE 0)
      BY <1>2, CountedOne
    <3>2. count' \in [Tasks -> Counts] /\ (\A u \in Tasks \ {t} : count'[u] = count[u]) /\ count'[t].revise = count[t].revise
      BY <1>2, CountedOne
    <3> QED BY <3>1, <3>2, <1>0 DEF Counts
  <2> QED BY <2>2, <2>3, <1>0, BudgetAssumption DEF TasksTyped, Paid, StaysPaid, Counts, Within
<1>3. CASE UNCHANGED at /\ count[t].repack < MaxRepackages /\ Counted(t, "repack")
  <2>1. /\ count' \in [Tasks -> Counts]
        /\ \A u \in Tasks \ {t} : count'[u] = count[u]
        /\ count'[t].revise = count[t].revise
        /\ count'[t].retry = count[t].retry /\ count'[t].repack = count[t].repack + 1 /\ count'[t].run = count[t].run
    <3>1. \A d \in {"retry", "repack", "run"} : count'[t][d] = count[t][d] + (IF d = "repack" THEN 1 ELSE 0)
      BY <1>3, CountedOne
    <3>2. count' \in [Tasks -> Counts] /\ (\A u \in Tasks \ {t} : count'[u] = count[u]) /\ count'[t].revise = count[t].revise
      BY <1>3, CountedOne
    <3> QED BY <3>1, <3>2, <1>0 DEF Counts
  <2> QED BY <2>1, <1>3, <1>0, BudgetAssumption DEF TasksTyped, Paid, StaysPaid, Counts, Within
<1> QED BY <1>1, <1>2, <1>3 DEF Dispatch

LEMMA AgainCountedStaysPaid ==
  ASSUME TasksTyped, NEW t \in Tasks, Paid(t), at[t] \notin Before, NEW path, NEW then, Again(t, path, then),
         NEW c \in {"retry", "repack"}, Counted(t, c),
         count[t][c] < (IF c = "retry" THEN TriageRetries ELSE MaxRepackages)
  PROVE  StaysPaid(t)
<1>1. PICK x \in {"loop", "failed"} : at' = [at EXCEPT ![t] = x]
  BY AgainGoesTo
<1>2. at'[t] = x /\ at' \in [Tasks -> Phases] /\ \A u \in Tasks \ {t} : at'[u] = at[u]
  BY <1>1 DEF TasksTyped, Phases
<1>3. count[t] \in Counts
  BY DEF TasksTyped
<1>4. \A d \in {"retry", "repack", "run"} : count'[t][d] = count[t][d] + (IF d = c THEN 1 ELSE 0)
  BY CountedOne
<1>5. /\ count' \in [Tasks -> Counts]
      /\ \A u \in Tasks \ {t} : count'[u] = count[u]
      /\ count'[t].revise = count[t].revise
  BY CountedOne
<1>6. CASE c = "retry"
  <2>1. count'[t].retry = count[t].retry + 1 /\ count'[t].repack = count[t].repack /\ count'[t].run = count[t].run
    BY <1>3, <1>4, <1>6 DEF Counts
  <2> QED BY <1>2, <1>3, <1>5, <1>6, <2>1, BudgetAssumption DEF TasksTyped, Paid, StaysPaid, Counts, Within
<1>7. CASE c = "repack"
  <2>1. count'[t].retry = count[t].retry /\ count'[t].repack = count[t].repack + 1 /\ count'[t].run = count[t].run
    BY <1>3, <1>4, <1>7 DEF Counts
  <2> QED BY <1>2, <1>3, <1>5, <1>7, <2>1, BudgetAssumption DEF TasksTyped, Paid, StaysPaid, Counts, Within
<1> QED BY <1>6, <1>7

LEMMA ReportStaysPaid ==
  ASSUME TasksTyped, NEW t \in Tasks, Paid(t), Report(t)
  PROVE  StaysPaid(t)
<1>0. at[t] \notin Before /\ {"verify", "failed"} \subseteq Steady /\ {"report", "claimed", "produced"} \subseteq Triages
  BY DEF Report, Before, Phases, Triages, Steady
<1>1. CASE EndCancelled(t)
  BY <1>0, <1>1, EndCancelledStaysPaid
<1>2. CASE Restale(t) /\ Again(t, <<"needs_context", "ready">>, "needs_context") /\ Counted(t, "repack")
  BY <1>0, <1>2, AgainCountedStaysPaid DEF Restale
<1>3. CASE UNCHANGED count /\ \E path : \E next \in {"verify", "failed"} : Goes(t, path, next)
  BY <1>0, <1>3, GoesOnTo
<1>4. CASE UNCHANGED count /\ \E path : \E why \in {"report", "claimed", "produced"} : Asks(t, path, why)
  BY <1>0, <1>4, AsksStaysPaid
<1>5. CASE RetryOrFail(t)
  BY <1>0, <1>5, RetryStaysPaid
<1> QED BY <1>1, <1>2, <1>3, <1>4, <1>5 DEF Report

LEMMA VerifiedStaysPaid ==
  ASSUME TasksTyped, NEW t \in Tasks, Paid(t), Verified(t)
  PROVE  StaysPaid(t)
<1>0. at[t] \notin Before /\ {"review", "failed"} \subseteq Steady /\ {"unverified", "unrunnable"} \subseteq Triages
  BY DEF Verified, Before, Phases, Triages, Steady
<1>1. CASE UNCHANGED count /\ \E path : \E why \in {"unverified", "unrunnable"} : Asks(t, path, why)
  BY <1>0, <1>1, AsksStaysPaid
<1>2. CASE Integrate(t)
  BY <1>0, <1>2, IntegrateStaysPaid
<1>3. CASE UNCHANGED count /\ \E path : \E next \in {"review", "failed"} : Goes(t, path, next)
  BY <1>0, <1>3, GoesOnTo
<1>4. CASE RetryOrFail(t)
  BY <1>0, <1>4, RetryStaysPaid
<1> QED BY <1>1, <1>2, <1>3, <1>4 DEF Verified

\* Repeating a review costs none of what an attempt is paid with.
LEMMA RereviewStaysPaid ==
  ASSUME TasksTyped, NEW t \in Tasks, Paid(t), Counted(t, "review"), UNCHANGED at
  PROVE  StaysPaid(t)
<1>1. \A d \in {"retry", "repack", "run"} : count'[t][d] = count[t][d] + (IF d = "review" THEN 1 ELSE 0)
  BY CountedOne
<1>2. /\ count' \in [Tasks -> Counts]
      /\ \A u \in Tasks \ {t} : count'[u] = count[u]
      /\ count'[t].revise = count[t].revise
  BY CountedOne
<1>3. count[t] \in Counts
  BY DEF TasksTyped
<1>4. count'[t].retry = count[t].retry /\ count'[t].repack = count[t].repack /\ count'[t].run = count[t].run
  BY <1>1, <1>3 DEF Counts
<1> QED BY <1>2, <1>4 DEF TasksTyped, Paid, StaysPaid

LEMMA ReviewedStaysPaid ==
  ASSUME TasksTyped, NEW t \in Tasks, Paid(t), Reviewed(t)
  PROVE  StaysPaid(t)
<1>0. at[t] \notin Before /\ "failed" \in Steady /\ {"unaccepted", "blocker"} \subseteq Triages
  BY DEF Reviewed, Before, Phases, Triages, Steady
<1>1. CASE EndCancelled(t)
  BY <1>0, <1>1, EndCancelledStaysPaid
<1>2. CASE Integrate(t)
  BY <1>0, <1>2, IntegrateStaysPaid
<1>3. CASE UNCHANGED <<at, count>>
  BY <1>3, StandsPaid
<1>4. CASE Counted(t, "review") /\ UNCHANGED at
  BY <1>4, RereviewStaysPaid
<1>5. CASE UNCHANGED count /\ \E path : Goes(t, path, "failed")
  BY <1>0, <1>5, GoesOnTo
<1>6. CASE count[t].revise < ReviewRevisions /\ Revise(t, 0)
  BY <1>0, <1>6, ReviseStaysPaid
<1>7. CASE UNCHANGED count /\ \E path : \E why \in {"unaccepted", "blocker"} : Asks(t, path, why)
  BY <1>0, <1>7, AsksStaysPaid
<1> QED BY <1>1, <1>2, <1>3, <1>4, <1>5, <1>6, <1>7 DEF Reviewed

\* What only an integration review does: it is not paid for.
LEMMA NotWorkStaysPaid ==
  ASSUME TasksTyped, NEW t \in Tasks, Paid(t), Kind[t] # "work",
         UNCHANGED count \/ Counted(t, "run") \/ Counted(t, "review"),
         NEW x \in Phases, at' = [at EXCEPT ![t] = x], x \in {"idle", "gone"} => x = at[t]
  PROVE  StaysPaid(t)
<1>1. count[t] \in Counts
  BY DEF TasksTyped
<1>2. /\ count' \in [Tasks -> Counts] /\ \A u \in Tasks \ {t} : count'[u] = count[u]
      /\ count'[t].retry = count[t].retry /\ count'[t].repack = count[t].repack
  <2>1. CASE UNCHANGED count
    BY <2>1 DEF TasksTyped
  <2>2. ASSUME NEW c \in {"run", "review"}, Counted(t, c)
        PROVE  /\ count' \in [Tasks -> Counts] /\ \A u \in Tasks \ {t} : count'[u] = count[u]
               /\ count'[t].retry = count[t].retry /\ count'[t].repack = count[t].repack
    <3>1. count' \in [Tasks -> Counts] /\ \A u \in Tasks \ {t} : count'[u] = count[u]
      BY <2>2, CountedOne
    <3>2. \A d \in {"retry", "repack", "run"} : count'[t][d] = count[t][d] + (IF d = c THEN 1 ELSE 0)
      BY <2>2, CountedOne
    <3> QED BY <3>1, <3>2, <1>1 DEF Counts
  <2> QED BY <2>1, <2>2
<1> QED BY <1>2 DEF TasksTyped, Paid, StaysPaid

LEMMA IntegrationStaysPaid ==
  ASSUME TasksTyped, NEW t \in Tasks, Paid(t), IntegrationDispatch(t) \/ IntegrationReviewed(t)
  PROVE  StaysPaid(t)
<1>0. {"attempt", "failed", "completed", "integration"} \subseteq Phases
  BY DEF Phases, Triages
<1>1. CASE IntegrationDispatch(t)
  <2>1. Kind[t] # "work" /\ (UNCHANGED count \/ Counted(t, "run"))
    BY <1>1 DEF IntegrationDispatch
  <2>2. \E x \in {"attempt", "failed"} : at' = [at EXCEPT ![t] = x]
    BY <1>1, GoesTo DEF IntegrationDispatch
  <2> QED BY <1>0, <2>1, <2>2, NotWorkStaysPaid
<1>2. CASE IntegrationReviewed(t)
  <2>1. Kind[t] # "work" /\ (UNCHANGED count \/ Counted(t, "review"))
    BY <1>2 DEF IntegrationReviewed
  <2>2. UNCHANGED at \/ \E x \in {"completed", "failed", "integration"} : at' = [at EXCEPT ![t] = x]
    BY <1>2, GoesTo DEF IntegrationReviewed, Asks
  <2>3. CASE UNCHANGED at
    <3>1. at[t] \in Phases /\ at' = [at EXCEPT ![t] = at[t]]
      BY <2>3 DEF TasksTyped
    <3> QED BY <2>1, <3>1, NotWorkStaysPaid
  <2> QED BY <1>0, <2>1, <2>2, <2>3, NotWorkStaysPaid
<1> QED BY <1>1, <1>2

LEMMA TriageStaysPaid ==
  ASSUME TasksTyped, NEW t \in Tasks, Paid(t), Triage(t) \/ LeaveTriage(t)
  PROVE  StaysPaid(t)
<1>1. at[t] \notin Before
  BY DEF Triage, LeaveTriage, Triages, Before
<1>2. UNCHANGED count /\ (UNCHANGED at \/ at' = [at EXCEPT ![t] = "failed"])
  BY DEF Triage, LeaveTriage, ThrowsIn
<1> QED BY <1>1, <1>2, StandsPaid, GoesOn, Failing

LEMMA FailsTriageStaysPaid ==
  ASSUME TasksTyped, NEW t \in Tasks, Paid(t), at[t] \notin Before, FailsTriage(t)
  PROVE  StaysPaid(t)
BY GoesOnTo, Failing DEF FailsTriage

LEMMA VerifiesStaysPaid ==
  ASSUME TasksTyped, NEW t \in Tasks, Paid(t), at[t] \notin Before, NEW path, NEW f, VerifiesAgain(t, path, f)
  PROVE  StaysPaid(t)
<1>1. "verify" \in Steady
  BY DEF Phases, Before, Steady
<1> QED BY <1>1, GoesOnTo DEF VerifiesAgain

LEMMA RetryDecidedStaysPaid ==
  ASSUME TasksTyped, NEW t \in Tasks, Paid(t), at[t] \in Triages, RetryDecided(t)
  PROVE  StaysPaid(t)
<1>0. at[t] \notin Before
  BY DEF Triages, Before
<1>1. CASE ~Left(t)
  BY <1>0, <1>1, FailsTriageStaysPaid DEF RetryDecided
<1>2. CASE Left(t)
  <2>1. CASE Claimed(t)
    <3>1. Again(t, <<"ready">>, "needs_context") /\ Counted(t, "retry")
      BY <1>2, <2>1 DEF RetryDecided, Claimed
    <3> QED BY <1>0, <1>2, <3>1, AgainCountedStaysPaid DEF Left
  <2>2. CASE at[t] \in {"unaccepted", "blocker"}
    BY <1>0, <1>2, <2>2, ReviseStaysPaid DEF RetryDecided, Claimed
  <2>3. CASE at[t] = "integration"
    <3>1. Goes(t, <<"changes_requested", "ready">>, "loop") /\ Spent(t, 1, 0)
      BY <1>2, <2>3 DEF RetryDecided, Claimed
    <3>2. PICK x \in {"loop", "failed"} : at' = [at EXCEPT ![t] = x]
      BY <3>1, GoesTo
    <3>3. at'[t] = x /\ at' \in [Tasks -> Phases] /\ \A u \in Tasks \ {t} : at'[u] = at[u]
      BY <3>2 DEF TasksTyped, Phases
    <3>4. /\ count' \in [Tasks -> Counts]
          /\ \A u \in Tasks \ {t} : count'[u] = count[u]
          /\ count'[t].retry = count[t].retry + 1 /\ count'[t].revise = count[t].revise + 0
          /\ count'[t].repack = count[t].repack /\ count'[t].run = count[t].run
      BY <3>1, SpentSome
    <3>5. count[t] \in Counts
      BY DEF TasksTyped
    <3> QED BY <3>3, <3>4, <3>5, <1>2, <1>0, BudgetAssumption DEF TasksTyped, Paid, StaysPaid, Counts, Within, Left
  <2>4. CASE at[t] \notin {"claimed", "produced", "unaccepted", "blocker", "integration"}
    <3>1. RetryOrFail(t)
      BY <1>2, <2>4 DEF RetryDecided, Claimed
    <3> QED BY <1>0, <3>1, RetryStaysPaid
  <2> QED BY <2>1, <2>2, <2>3, <2>4 DEF Claimed
<1> QED BY <1>1, <1>2

LEMMA DecidedStaysPaid ==
  ASSUME TasksTyped, NEW t \in Tasks, Paid(t), Decided(t)
  PROVE  StaysPaid(t)
<1>0. at[t] \notin Before /\ at[t] \in Triages /\ "replan" \in Steady
  BY DEF Decided, Triages, Before, Phases, Steady
<1>1. CASE \E path, f : VerifiesAgain(t, path, f)
  BY <1>0, <1>1, VerifiesStaysPaid
<1>2. CASE AcceptDecided(t)
  <2>1. Integrate(t) \/ \E path, f : VerifiesAgain(t, path, f)
    BY <1>2 DEF AcceptDecided
  <2> QED BY <1>0, <1>1, <2>1, IntegrateStaysPaid
<1>3. CASE RetryDecided(t)
  BY <1>0, <1>3, RetryDecidedStaysPaid
<1>4. CASE FailsTriage(t)
  BY <1>0, <1>4, FailsTriageStaysPaid
<1>5. CASE UNCHANGED count /\ at' = [at EXCEPT ![t] = "replan"]
  BY <1>0, <1>5, GoesOn
<1> QED BY <1>1, <1>2, <1>3, <1>4, <1>5 DEF Decided

LEMMA ReplannedStaysPaid ==
  ASSUME TasksTyped, NEW t \in Tasks, Paid(t), Replanned(t)
  PROVE  StaysPaid(t)
<1>0. at[t] \notin Before
  BY DEF Replanned, Before
<1>1. CASE RetryOrFail(t)
  BY <1>0, <1>1, RetryStaysPaid
<1>2. CASE UNCHANGED count /\ at' = [at EXCEPT ![t] = "failed"]
  BY <1>0, <1>2, GoesOn, Failing
<1>3. CASE UNCHANGED count /\ Goes(t, <<"failed">>, "failed")
  BY <1>0, <1>3, GoesOnTo, Failing
<1> QED BY <1>1, <1>2, <1>3 DEF Replanned, ThrowsIn

LEMMA RunTaskStaysPaid ==
  ASSUME TasksTyped, NEW t \in Tasks, Paid(t), RunTask(t)
  PROVE  StaysPaid(t)
BY BeginStaysPaid, DispatchStaysPaid, ReportStaysPaid, VerifiedStaysPaid, ReviewedStaysPaid, IntegrationStaysPaid,
   TriageStaysPaid, DecidedStaysPaid, ReplannedStaysPaid DEF RunTask

----------------------------------------------------------------------------

\* What runTask works on is running, and what it has left has finished.
PhaseOK ==
  \A t \in Tasks :
    /\ at[t] \notin {"idle", "gone"} => sched[t] = "running"
    /\ at[t] = "gone" => sched[t] \in {"completed", "failed"}

CostInv == TasksTyped /\ PhaseOK /\ \A t \in Tasks : Paid(t)

LEMMA AtWork ==
  ASSUME NEW t \in Tasks, RunTask(t)
  PROVE  at[t] \notin {"idle", "gone"}
BY DEF RunTask, Begin, Dispatch, Report, Verified, Reviewed, IntegrationDispatch, IntegrationReviewed, Triage, LeaveTriage,
   Decided, Replanned, Triages

\* Only starting and finishing tasks concern those at work.
LEMMA StandsStill ==
  ASSUME SchedTypeOK, CostInv, UNCHANGED <<at, count>>,
         UNCHANGED sched \/ SkipPending \/ \E S \in SUBSET Tasks : Add(S)
  PROVE  CostInv'
<1>1. \A t \in Tasks : sched[t] \in {"running", "completed", "failed"} => sched'[t] = sched[t]
  BY AddedState DEF SchedTypeOK, SkipPending
<1> QED BY <1>1 DEF CostInv, TasksTyped, PhaseOK, Paid

LEMMA StartsKeepCost ==
  ASSUME SchedTypeOK, CostInv, UNCHANGED count, Starts
  PROVE  CostInv'
<1>1. PICK S \in SUBSET Ready : StartAll(S) /\ at' = [t \in Tasks |-> IF t \in S THEN "begin" ELSE at[t]]
  BY StartsSome
<1>2. S \subseteq Tasks /\ \A t \in S : sched[t] = "pending"
  BY ReadyTasks
<1>3. \A t \in Tasks : sched'[t] = IF t \in S THEN "running" ELSE sched[t]
  BY <1>1 DEF StartAll
<1>4. \A t \in S : at[t] = "idle"
  BY <1>2 DEF CostInv, PhaseOK
<1>5. TasksTyped'
  BY <1>1, <1>2 DEF CostInv, TasksTyped, Phases
<1>6. PhaseOK'
  BY <1>1, <1>2, <1>3 DEF CostInv, PhaseOK
<1>7. \A t \in Tasks : Paid(t)'
  BY <1>1, <1>4 DEF CostInv, Paid, Before
<1> QED BY <1>5, <1>6, <1>7 DEF CostInv

LEMMA TaskOverKeepsCost ==
  ASSUME SchedTypeOK, CostInv, NEW t \in Tasks, TaskOver(t)
  PROVE  CostInv'
<1>1. /\ at' = [at EXCEPT ![t] = "gone"] /\ count' = [count EXCEPT ![t] = NoCount]
      /\ at[t] \in {"completed", "failed"} /\ Finish(t, at[t])
  BY DEF TaskOver
<1>2. NoCount \in Counts /\ "gone" \in Phases
  BY DEF NoCount, Counts, Phases
<1>3. TasksTyped'
  BY <1>1, <1>2 DEF CostInv, TasksTyped
<1>4. sched'[t] = at[t] /\ \A u \in Tasks \ {t} : sched[u] # "pending" => sched'[u] = sched[u]
  BY <1>1 DEF Finish, SchedTypeOK, In
<1>5. at'[t] = "gone" /\ count'[t] = NoCount /\ \A u \in Tasks \ {t} : at'[u] = at[u] /\ count'[u] = count[u]
  BY <1>1 DEF CostInv, TasksTyped
<1>6. PhaseOK'
  BY <1>1, <1>4, <1>5 DEF CostInv, PhaseOK
<1>7. Paid(t)'
  <2>1. NoCount.retry = 0 /\ NoCount.revise = 0 /\ NoCount.repack = 0 /\ NoCount.run = 0
    BY DEF NoCount
  <2> QED BY <1>5, <2>1, BudgetAssumption DEF Paid, Within, Before
<1>8. \A u \in Tasks \ {t} : Paid(u)'
  BY <1>5 DEF CostInv, Paid
<1> QED BY <1>3, <1>6, <1>7, <1>8 DEF CostInv

LEMMA RunTaskKeepsCost ==
  ASSUME SpawnedOK, SchedTypeOK, CostInv, NEW t \in Tasks, RunTask(t)
  PROVE  CostInv'
<1>1. StaysPaid(t)
  BY RunTaskStaysPaid DEF CostInv
<1>2. \A u \in Tasks : sched[u] \in {"running", "completed", "failed"} => sched'[u] = sched[u]
  BY RunTaskSchedules, AddedState
<1>3. at[t] \notin {"idle", "gone"} /\ at'[t] \notin {"idle", "gone"} /\ sched[t] = "running"
  BY <1>1, AtWork DEF StaysPaid, CostInv, PhaseOK
<1>4. PhaseOK'
  BY <1>1, <1>2, <1>3 DEF CostInv, PhaseOK, StaysPaid
<1>5. \A u \in Tasks : Paid(u)'
  BY <1>1 DEF CostInv, Paid, StaysPaid
<1> QED BY <1>1, <1>4, <1>5 DEF CostInv, StaysPaid

LEMMA CostInductive == Spec => []CostInv
<1>1. Init => CostInv
  <2> SUFFICES ASSUME Init PROVE CostInv
    OBVIOUS
  <2>1. at = [t \in Tasks |-> "idle"] /\ count = [t \in Tasks |-> NoCount]
    BY DEF Init
  <2>2. NoCount \in Counts /\ NoCount.retry = 0 /\ NoCount.revise = 0 /\ NoCount.repack = 0 /\ NoCount.run = 0
    BY DEF NoCount, Counts
  <2>3. TasksTyped
    BY <2>1, <2>2 DEF TasksTyped, Phases
  <2>4. PhaseOK
    BY <2>1 DEF PhaseOK
  <2>5. \A t \in Tasks : Paid(t)
    BY <2>1, <2>2, BudgetAssumption DEF Paid, Within, Before
  <2> QED BY <2>3, <2>4, <2>5 DEF CostInv
<1>2. ASSUME SpawnedOK, SchedTypeOK, CostInv, [Next]_vars PROVE CostInv'
  <2>1. ASSUME NEW t \in Tasks, RunTask(t) PROVE CostInv'
    BY <1>2, <2>1, RunTaskKeepsCost
  <2>2. ASSUME NEW t \in Tasks, TaskOver(t) PROVE CostInv'
    BY <1>2, <2>2, TaskOverKeepsCost
  <2>3. ASSUME NEW w \in Tasks \cup {"turn"}, Revises(w) PROVE CostInv'
    BY <1>2, <2>3, StandsStill DEF Revises, taskVars
  <2>4. CASE Loop
    <3>1. UNCHANGED count /\ (UNCHANGED <<sched, at>> \/ Starts)
      BY <2>4 DEF Loop
    <3> QED BY <1>2, <3>1, StandsStill, StartsKeepCost
  <2>5. CASE StartAfterTurn
    BY <1>2, <2>5, StartsKeepCost DEF StartAfterTurn
  <2>6. CASE Race \/ After \/ Consult
    BY <1>2, <2>6, StandsStill DEF Race, After, Consult, taskVars
  <2>7. CASE LeaveConsult
    BY <1>2, <2>7, StandsStill, Adds DEF LeaveConsult
  <2>8. CASE Drain
    BY <1>2, <2>8, StandsStill DEF Drain
  <2>9. CASE Steer \/ Interrupt \/ Exhaust \/ \E t \in Tasks : CancelWorker(t)
    BY <1>2, <2>9, StandsStill DEF Steer, Interrupt, Exhaust, CancelWorker, taskVars
  <2>10. CASE UNCHANGED vars
    BY <1>2, <2>10, StandsStill DEF vars, taskVars
  <2> QED BY <1>2, <2>1, <2>2, <2>3, <2>4, <2>5, <2>6, <2>7, <2>8, <2>9, <2>10 DEF Next, Harness
<1>3. SpawnedOK /\ SchedTypeOK /\ CostInv /\ [Next]_vars => CostInv'
  BY <1>2
<1>4. Spec => []SchedTypeOK
  BY RunSchedules, SchedulerTypes, PTL
<1> QED BY <1>1, <1>3, <1>4, SpawnedKnown, PTL DEF Spec

\* No task gets more attempts than its first one and those its retries, its
\* revisions and its fresh packets pay for, whatever the reports, the reviews
\* and the orchestrator say (coordinator.ts:1056-1424).
THEOREM AttemptsArePaidFor == Spec => []AttemptsBounded
<1>1. CostInv => AttemptsBounded
  <2> SUFFICES ASSUME CostInv, NEW t \in Tasks, Kind[t] = "work"
               PROVE  count[t].run <= 1 + TriageRetries + ReviewRevisions + MaxRepackages
    BY DEF AttemptsBounded
  <2>1. Paid(t) /\ count[t] \in Counts
    BY DEF CostInv, TasksTyped
  <2> QED BY <2>1, BudgetAssumption DEF Paid, Counts, Within
<1> QED BY <1>1, CostInductive, PTL

----------------------------------------------------------------------------
(* What the user has cancelled *)

\* A task whose attempt the user cancelled is at that attempt, or has come to its end.
CancelInv ==
  /\ userCancelled \subseteq Tasks
  /\ \A t \in userCancelled : Kind[t] = "work" => at[t] \in {"attempt", "review", "failed", "gone"}

LEMMA CancelEnds ==
  ASSUME CancelInv, NEW t \in userCancelled, Kind[t] = "work", RunTask(t)
  PROVE  EndCancelled(t) /\ UNCHANGED integrated
<1>1. at[t] \in {"attempt", "review", "failed", "gone"}
  BY DEF CancelInv
<1>2. ~(Begin(t) \/ Dispatch(t) \/ Verified(t) \/ IntegrationDispatch(t) \/ IntegrationReviewed(t)
        \/ Triage(t) \/ LeaveTriage(t) \/ Decided(t) \/ Replanned(t))
  BY <1>1 DEF Begin, Dispatch, Verified, IntegrationDispatch, IntegrationReviewed, Triage, LeaveTriage, Decided, Replanned, Triages
<1>3. CASE Report(t)
  BY <1>3 DEF Report, CancelledByUser
<1>4. CASE Reviewed(t)
  BY <1>4 DEF Reviewed, CancelledByUser
<1> QED BY <1>2, <1>3, <1>4 DEF RunTask

LEMMA IntegratesOwn ==
  ASSUME NEW t \in Tasks, RunTask(t)
  PROVE  integrated' \subseteq integrated \cup {t}
<1>1. CASE UNCHANGED integrated
  BY <1>1
<1>2. CASE Integrate(t)
  BY <1>2 DEF Integrate
<1>3. CASE Begin(t) \/ Dispatch(t) \/ Report(t) \/ IntegrationDispatch(t) \/ IntegrationReviewed(t) \/ Triage(t) \/ LeaveTriage(t) \/ Replanned(t)
  BY <1>1, <1>3 DEF Begin, Dispatch, Report, IntegrationDispatch, IntegrationReviewed, Triage, LeaveTriage, Replanned
<1>4. CASE Verified(t)
  BY <1>1, <1>2, <1>4 DEF Verified
<1>5. CASE Reviewed(t)
  BY <1>1, <1>2, <1>5 DEF Reviewed
<1>6. CASE Decided(t)
  <2>1. AcceptDecided(t) => Integrate(t) \/ UNCHANGED integrated
    BY DEF AcceptDecided, VerifiesAgain
  <2>2. RetryDecided(t) => UNCHANGED integrated
    BY DEF RetryDecided
  <2> QED BY <1>1, <1>2, <1>6, <2>1, <2>2 DEF Decided, VerifiesAgain
<1> QED BY <1>3, <1>4, <1>5, <1>6 DEF RunTask

LEMMA CancelledOnlyByUser ==
  ASSUME NEW t \in Tasks, RunTask(t)
  PROVE  userCancelled' \subseteq userCancelled
<1>1. CASE UNCHANGED userCancelled
  BY <1>1
<1>2. CASE Dispatch(t)
  BY <1>2 DEF Dispatch
<1> QED BY <1>1, <1>2 DEF RunTask, Begin, Report, Verified, Reviewed, IntegrationDispatch, IntegrationReviewed, Triage, LeaveTriage,
  Decided, Replanned

\* What a step may not do to a task that the user has cancelled.
LeftAlone(t) == count'[t].run <= count[t].run /\ (t \in integrated' => t \in integrated)

LEMMA CancelStep ==
  ASSUME SchedTypeOK, CostInv, CancelInv, [Next]_vars
  PROVE  CancelInv' /\ \A t \in userCancelled : Kind[t] = "work" => LeftAlone(t)
<1>0. \A t \in Tasks : count[t].run \in Nat
  BY DEF CostInv, TasksTyped, Counts
<1> USE DEF CancelInv
<1>1. ASSUME NEW u \in Tasks, RunTask(u)
      PROVE  CancelInv' /\ \A t \in userCancelled : Kind[t] = "work" => LeftAlone(t)
  <2>1. StaysPaid(u)
    BY <1>1, RunTaskStaysPaid DEF CostInv
  <2>2. userCancelled' \subseteq userCancelled /\ integrated' \subseteq integrated \cup {u}
    BY <1>1, CancelledOnlyByUser, IntegratesOwn
  <2>3. ASSUME NEW t \in userCancelled, Kind[t] = "work"
        PROVE  LeftAlone(t) /\ at'[t] \in {"attempt", "review", "failed", "gone"}
    <3>1. CASE t = u
      <4>1. EndCancelled(t) /\ UNCHANGED integrated
        BY <1>1, <2>3, <3>1, CancelEnds
      <4>2. UNCHANGED count /\ at' = [at EXCEPT ![t] = "failed"]
        BY <4>1, GoesTo DEF EndCancelled, ThrowsIn
      <4> QED BY <4>1, <4>2, <1>0 DEF LeftAlone, CostInv, TasksTyped
    <3>2. CASE t # u
      BY <2>1, <2>2, <2>3, <3>2, <1>0 DEF StaysPaid, LeftAlone
    <3> QED BY <3>1, <3>2
  <2> QED BY <2>2, <2>3
<1>2. ASSUME NEW u \in Tasks, TaskOver(u)
      PROVE  CancelInv' /\ \A t \in userCancelled : Kind[t] = "work" => LeftAlone(t)
  <2>1. /\ at' = [at EXCEPT ![u] = "gone"] /\ count' = [count EXCEPT ![u] = NoCount]
        /\ UNCHANGED <<userCancelled, integrated>>
    BY <1>2 DEF TaskOver
  <2>2. NoCount.run = 0
    BY DEF NoCount
  <2> QED BY <2>1, <2>2, <1>0 DEF LeftAlone, CostInv, TasksTyped
<1>3. ASSUME UNCHANGED <<at, count, integrated, userCancelled>>
      PROVE  CancelInv' /\ \A t \in userCancelled : Kind[t] = "work" => LeftAlone(t)
  BY <1>3, <1>0 DEF LeftAlone
<1>4. ASSUME Starts, UNCHANGED <<count, integrated, userCancelled>>
      PROVE  CancelInv' /\ \A t \in userCancelled : Kind[t] = "work" => LeftAlone(t)
  <2>1. PICK S \in SUBSET Ready : at' = [t \in Tasks |-> IF t \in S THEN "begin" ELSE at[t]]
    BY <1>4, StartsSome
  <2>2. \A t \in S : at[t] = "idle"
    BY ReadyTasks DEF CostInv, PhaseOK
  <2> QED BY <2>1, <2>2, <1>4, <1>0 DEF LeftAlone
<1>5. ASSUME NEW u \in Tasks, CancelWorker(u)
      PROVE  CancelInv' /\ \A t \in userCancelled : Kind[t] = "work" => LeftAlone(t)
  BY <1>5, <1>0 DEF CancelWorker, LeftAlone
<1>6. ASSUME NEW w \in Tasks \cup {"turn"}, Revises(w) PROVE UNCHANGED <<at, count, integrated, userCancelled>>
  BY <1>6 DEF Revises, taskVars
<1>7. CASE Loop
  <2>1. UNCHANGED <<count, integrated, userCancelled>> /\ (UNCHANGED at \/ Starts)
    BY <1>7 DEF Loop
  <2> QED BY <2>1, <1>3, <1>4
<1>8. CASE StartAfterTurn
  BY <1>8, <1>4 DEF StartAfterTurn
<1>9. CASE Race \/ After \/ Consult \/ LeaveConsult \/ Drain
  <2>1. UNCHANGED <<at, count, integrated, userCancelled>>
    BY <1>9 DEF Race, After, Consult, LeaveConsult, Drain, taskVars
  <2> QED BY <2>1, <1>3
<1>10. CASE Steer \/ Interrupt \/ Exhaust \/ UNCHANGED vars
  <2>1. UNCHANGED <<at, count, integrated, userCancelled>>
    BY <1>10 DEF Steer, Interrupt, Exhaust, vars, taskVars
  <2> QED BY <2>1, <1>3
<1> QED BY <1>1, <1>2, <1>3, <1>5, <1>6, <1>7, <1>8, <1>9, <1>10 DEF Next, Harness

\* A task of which the user has cancelled an attempt is neither tried again nor
\* integrated, in no step of any run, however late the cancel comes and whatever
\* becomes of the revert (coordinator.ts:1103-1109, 1319-1324, 1453).
THEOREM CancelIsFinal == Spec => UserCancelIsFinal
<1>1. Init => CancelInv
  BY DEF Init, CancelInv
<1>2. SchedTypeOK /\ CostInv /\ CancelInv /\ [Next]_vars => CancelInv'
  BY CancelStep
<1>3. SchedTypeOK /\ CostInv /\ CancelInv /\ [Next]_vars =>
        [\A t \in userCancelled : Kind[t] = "work" =>
           /\ count'[t].run <= count[t].run
           /\ t \in integrated' => t \in integrated]_vars
  BY CancelStep DEF LeftAlone
<1>4. Spec => []SchedTypeOK
  BY RunSchedules, SchedulerTypes, PTL
<1> QED BY <1>1, <1>2, <1>3, <1>4, CostInductive, PTL DEF Spec, UserCancelIsFinal

----------------------------------------------------------------------------
(* How a run ends *)

\* What a task's log may say where runTask stands.
Stands(phase, state) ==
  /\ phase = "begin" => state = "draft"
  /\ phase = "loop" => state = "ready"
  /\ phase \in {"attempt", "report"} => state = "running"
  /\ phase \in {"claimed", "produced"} => state = "needs_context"
  /\ phase \in {"verify", "unverified", "unrunnable", "replan"} => state = "verifying"
  /\ phase \in {"review", "unaccepted", "blocker", "integration"} => state = "reviewing"
  /\ phase = "completed" => state = "completed"
  /\ phase = "failed" => state \in {"failed", "cancelled", "blocked"}

TaskStates == State!States("task") \cup {"none"}
PlanStates == {"proposed", "approved", "superseded", "rejected"}
Flags == {"partial", "waived", "widened", "answered"}
Options == {"none", "retry", "fail", "review", "accept", "waive", "replace"}
Revisions == [step : {"none", "proposed", "refused", "asked", "approved", "superseded", "accepted", "threw"}, plan : Nat]

RunTyped ==
  /\ setup \in Setups
  /\ task \in [Tasks -> TaskStates] /\ flags \in [Tasks -> SUBSET Flags] /\ decision \in [Tasks -> Options]
  /\ turns \in Seq(Tasks \cup {"main"}) /\ plans \in Seq(PlanStates) /\ revising \in [Tasks \cup {"turn"} -> Revisions]
  /\ integrated \subseteq Tasks

\* What the scheduler has a task as, where runTask stands and what the log says agree.
Placed ==
  \A t \in Tasks :
    /\ at[t] = "idle" => \/ sched[t] = "unknown" /\ task[t] = "none"
                         \/ sched[t] \in {"pending", "skipped"} /\ task[t] = "draft"
                         \/ sched[t] = "skipped" /\ task[t] = "cancelled"
    /\ at[t] \notin {"idle", "gone"} => Stands(at[t], task[t])
    /\ at[t] = "gone" => \/ sched[t] = "completed" /\ task[t] = "completed"
                         \/ sched[t] = "failed" /\ task[t] \in {"failed", "cancelled", "blocked"}
    /\ t \in integrated => at[t] \in {"completed", "gone"} /\ task[t] = "completed"

\* A decision is one that is offered where its task stands, until the task acts on it.
Deciding ==
  \A t \in Tasks :
    /\ decision[t] # "none" => at[t] \in Triages
    /\ decision[t] = "accept" => at[t] \notin {"produced", "blocker"}
    /\ decision[t] = "review" => at[t] = "produced"
    /\ decision[t] \in {"waive", "replace"} => at[t] = "unrunnable"
    /\ at[t] \in {"unrunnable", "replan"} => t \in setup.unrunnable
    /\ "answered" \in flags[t] => at[t] \in Triages \cup {"replan", "completed", "failed"}

\* Who has the orchestrator's turn, or waits for it.
Waiting == {turns[i] : i \in 1..Len(turns)}
OnceEach == \A i, j \in 1..Len(turns) : turns[i] = turns[j] => i = j
Consulting == {"consult", "consulted", "lastConsult", "lastConsulted"}
Consulted == {"consulted", "lastConsulted"}

Queued ==
  /\ OnceEach
  /\ "main" \in Waiting => main \in Consulting
  /\ main \in Consulted => HasTurn("main")
  /\ \A t \in Tasks \cap Waiting : at[t] \in Triages /\ "answered" \notin flags[t]

\* A revision of the orchestrator's turn belongs to whoever has the turn.
TurnHeld ==
  revising["turn"].step # "none" => main \in Consulted \/ \E t \in Tasks : HasTurn(t) /\ decision[t] # "none"

\* Only the turn's revision asks the user, and the run waits exactly then.
OneAsks ==
  /\ main # "over" => run = IF Asking /\ revising["turn"].step = "asked" THEN "waiting_for_approval" ELSE "running"
  /\ revising["turn"].step # "threw"
  /\ Asking => \A t \in Tasks : revising[t].step = "none"

SettleInv == RunTyped /\ Placed /\ Deciding /\ Queued /\ TurnHeld /\ OneAsks /\ RunSettled

LEMMA Endings ==
  \A s \in {"draft", "ready", "running", "needs_context", "verifying", "reviewing", "changes_requested", "failed", "blocked"} :
    Caught(s) \in {"failed", "cancelled"}
<1> USE DEF Caught, State!Legal, State!States, State!TRANSITIONS
<1>1. Caught("draft") \in {"failed", "cancelled"} OBVIOUS
<1>2. Caught("ready") \in {"failed", "cancelled"} OBVIOUS
<1>3. Caught("running") \in {"failed", "cancelled"} OBVIOUS
<1>4. Caught("needs_context") \in {"failed", "cancelled"} OBVIOUS
<1>5. Caught("verifying") \in {"failed", "cancelled"} OBVIOUS
<1>6. Caught("reviewing") \in {"failed", "cancelled"} OBVIOUS
<1>7. Caught("changes_requested") \in {"failed", "cancelled"} OBVIOUS
<1>8. Caught("failed") \in {"failed", "cancelled"} OBVIOUS
<1>9. Caught("blocked") \in {"failed", "cancelled"} OBVIOUS
<1> HIDE DEF Caught, State!Legal, State!States, State!TRANSITIONS
<1> QED BY <1>1, <1>2, <1>3, <1>4, <1>5, <1>6, <1>7, <1>8, <1>9

LEMMA Completes == \A s \in {"verifying", "reviewing"} : LegalPath(s, <<"completed">>)
<1>1. State!Legal("task", "verifying", "completed") BY DEF State!Legal, State!States, State!TRANSITIONS
<1>2. State!Legal("task", "reviewing", "completed") BY DEF State!Legal, State!States, State!TRANSITIONS
<1>3. DOMAIN <<"completed">> = {1} /\ <<"completed">>[1] = "completed" OBVIOUS
<1> QED BY <1>1, <1>2, <1>3 DEF LegalPath

LEMMA RunTable ==
  /\ State!Legal("run", "running", "waiting_for_approval") /\ State!Legal("run", "waiting_for_approval", "running")
  /\ \A to \in {"completed", "failed", "cancelled"} : State!Legal("run", "running", to) /\ State!Terminal("run", to)
<1> USE DEF State!Legal, State!States, State!TRANSITIONS, State!Terminal
<1>1. State!Legal("run", "running", "waiting_for_approval") OBVIOUS
<1>2. State!Legal("run", "waiting_for_approval", "running") OBVIOUS
<1>3. State!Legal("run", "running", "completed") /\ State!Terminal("run", "completed") OBVIOUS
<1>4. State!Legal("run", "running", "failed") /\ State!Terminal("run", "failed") OBVIOUS
<1>5. State!Legal("run", "running", "cancelled") /\ State!Terminal("run", "cancelled") OBVIOUS
<1> HIDE DEF State!Legal, State!States, State!TRANSITIONS, State!Terminal
<1> QED BY <1>1, <1>2, <1>3, <1>4, <1>5

LEMMA StatesNamed ==
  TaskStates = {"none", "draft", "awaiting_approval", "ready", "running", "needs_context", "blocked", "interrupted",
                "failed", "retry_pending", "verifying", "reviewing", "changes_requested", "completed", "cancelled"}
BY DEF TaskStates, State!States, State!TRANSITIONS

LEMMA PendingIsDraft == ~State!Terminal("task", "draft")
BY DEF State!Terminal, State!States, State!TRANSITIONS

\* Where the phase and the log's state of t are these two, and those of the others what they were.
Lands(t, phase, state) ==
  /\ at' = [at EXCEPT ![t] = phase]
  /\ task' = [task EXCEPT ![t] = state]

LEMMA ThrowLands ==
  ASSUME NEW t, NEW from, ThrowsIn(t, from)
  PROVE  Lands(t, "failed", Caught(from))
BY DEF ThrowsIn, Lands

LEMMA GoesLands ==
  ASSUME RunTyped, NEW t \in Tasks, NEW path, NEW next, Goes(t, path, next)
  PROVE  \/ Lands(t, next, IF path = <<>> THEN task[t] ELSE path[Len(path)])
         \/ Lands(t, "failed", Caught(task[t]))
<1>1. CASE LegalPath(task[t], path)
  BY <1>1 DEF Goes, Lands, RunTyped
<1>2. CASE ~LegalPath(task[t], path)
  BY <1>2, ThrowLands DEF Goes
<1> QED BY <1>1, <1>2

Live == {"draft", "ready", "running", "needs_context", "verifying", "reviewing", "changes_requested", "failed", "blocked"}
Working == Phases \ {"idle", "gone"}

\* t comes to one of these phases, and its log says so.
Comes(t, phases) ==
  \E phase \in phases, state \in TaskStates : Lands(t, phase, state) /\ Stands(phase, state)

Last(path, state) == IF path = <<>> THEN state ELSE path[Len(path)]

LEMMA ThrowComes ==
  ASSUME NEW t, NEW from \in Live, ThrowsIn(t, from)
  PROVE  Comes(t, {"failed"})
<1>1. Caught(from) \in {"failed", "cancelled"}
  BY Endings DEF Live
<1>2. Lands(t, "failed", Caught(from))
  BY ThrowLands
<1>3. Stands("failed", Caught(from)) /\ Caught(from) \in TaskStates
  BY <1>1, StatesNamed DEF Stands
<1> QED BY <1>2, <1>3 DEF Comes

LEMMA GoesComes ==
  ASSUME RunTyped, NEW t \in Tasks, task[t] \in Live, NEW path, NEW next, Goes(t, path, next),
         Stands(next, Last(path, task[t])), Last(path, task[t]) \in TaskStates
  PROVE  Comes(t, {next, "failed"})
<1>1. CASE Lands(t, next, Last(path, task[t]))
  BY <1>1 DEF Comes
<1>2. CASE Lands(t, "failed", Caught(task[t]))
  <2>1. Caught(task[t]) \in {"failed", "cancelled"}
    BY Endings DEF Live
  <2>2. Stands("failed", Caught(task[t])) /\ Caught(task[t]) \in TaskStates
    BY <2>1, StatesNamed DEF Stands
  <2> QED BY <1>2, <2>2 DEF Comes
<1> QED BY <1>1, <1>2, GoesLands DEF Last

\* The same for a path that is spelled out.
LEMMA PathComes ==
  ASSUME RunTyped, NEW t \in Tasks, task[t] \in Live, NEW path, NEW next, Goes(t, path, next),
         NEW state \in TaskStates, path # <<>>, path[Len(path)] = state, Stands(next, state)
  PROVE  Comes(t, {next, "failed"})
BY GoesComes DEF Last

LEMMA OneComes ==
  ASSUME RunTyped, NEW t \in Tasks, task[t] \in Live, NEW state \in TaskStates, NEW next, Goes(t, <<state>>, next), Stands(next, state)
  PROVE  Comes(t, {next, "failed"})
<1>1. <<state>> # <<>> /\ <<state>>[Len(<<state>>)] = state
  OBVIOUS
<1> QED BY <1>1, PathComes

LEMMA AgainComes ==
  ASSUME RunTyped, NEW t \in Tasks, task[t] \in Live, NEW path, path # <<>>, path[Len(path)] = "ready", NEW then \in Live,
         Again(t, path, then)
  PROVE  Comes(t, {"loop", "failed"}) /\ flags' = [flags EXCEPT ![t] = {}]
<1>1. Stands("loop", "ready") /\ "ready" \in TaskStates
  BY StatesNamed DEF Stands
<1>2. CASE Goes(t, path, "loop")
  BY <1>1, <1>2, PathComes DEF Again
<1>3. CASE ThrowsIn(t, then)
  <2>1. Comes(t, {"failed"})
    BY <1>3, ThrowComes
  <2> QED BY <2>1 DEF Comes, Again
<1> QED BY <1>2, <1>3 DEF Again

\* What a step of runTask(t) that neither takes nor leaves a turn does to the run.
Went(t) ==
  \E phase \in Working, state \in TaskStates, f \in SUBSET Flags :
    /\ Lands(t, phase, state) /\ Stands(phase, state)
    /\ flags' = [flags EXCEPT ![t] = f]
    /\ "answered" \in f => phase \in {"replan", "completed", "failed"}
    /\ phase \in {"unrunnable", "replan"} => t \in setup.unrunnable
    /\ turns' = IF phase \in Triages THEN Append(turns, t) ELSE turns
    /\ decision' = [decision EXCEPT ![t] = "none"]
    /\ \/ UNCHANGED integrated
       \/ phase = "completed" /\ integrated' = integrated \cup ({t} \cap Writing)

\* What is known of t when it takes a step.
Here(t) ==
  /\ RunTyped /\ at[t] \in Working /\ Stands(at[t], task[t])
  /\ decision[t] # "none" => at[t] \in Triages
  /\ "answered" \in flags[t] => at[t] \in Triages \cup {"replan", "completed", "failed"}

Undecided(t) == (UNCHANGED decision /\ decision[t] = "none") \/ decision' = [decision EXCEPT ![t] = "none"]

LEMMA LiveAtWork ==
  ASSUME NEW t, Here(t), at[t] \notin {"completed", "failed"}
  PROVE  task[t] \in Live
<1>1. at[t] \in {"begin", "loop", "attempt", "verify", "review", "replan", "report", "claimed", "produced", "unverified", "unrunnable",
                 "unaccepted", "blocker", "integration"}
  BY DEF Here, Working, Phases, Triages
<1> QED BY <1>1 DEF Here, Stands, Live

LEMMA DecisionNone ==
  ASSUME RunTyped, NEW t \in Tasks, Undecided(t)
  PROVE  decision' = [decision EXCEPT ![t] = "none"]
BY DEF RunTyped, Undecided

\* runTask goes on by itself.
LEMMA GoesOnWent ==
  ASSUME RunTyped, NEW t \in Tasks, NEW f \in SUBSET Flags,
         NEW phases \in SUBSET {"loop", "attempt", "verify", "review", "completed", "failed"}, Comes(t, phases),
         flags' = [flags EXCEPT ![t] = f], "answered" \in f => phases \subseteq {"completed", "failed"},
         UNCHANGED turns, Undecided(t), UNCHANGED integrated
  PROVE  Went(t)
<1>1. PICK phase \in phases, state \in TaskStates : Lands(t, phase, state) /\ Stands(phase, state)
  BY DEF Comes
<1>2. phase \in {"loop", "attempt", "verify", "review", "completed", "failed"}
  OBVIOUS
<1>3. phase \in Working /\ phase \notin Triages /\ phase \notin {"unrunnable", "replan"}
  BY <1>2 DEF Working, Phases, Triages
<1>4. decision' = [decision EXCEPT ![t] = "none"]
  BY DecisionNone
<1>5. "answered" \in f => phase \in {"replan", "completed", "failed"}
  OBVIOUS
<1>6. turns' = IF phase \in Triages THEN Append(turns, t) ELSE turns
  BY <1>3
<1> QED BY <1>1, <1>3, <1>4, <1>5, <1>6 DEF Went

LEMMA SameFlags ==
  ASSUME RunTyped, NEW t \in Tasks, UNCHANGED flags
  PROVE  flags[t] \in SUBSET Flags /\ flags' = [flags EXCEPT ![t] = flags[t]]
BY DEF RunTyped

\* runTask goes on, or ends, and remembers what it did.
LEMMA KeepsOnWent ==
  ASSUME RunTyped, NEW t \in Tasks, UNCHANGED flags,
         NEW phases \in SUBSET {"loop", "attempt", "verify", "review", "completed", "failed"}, Comes(t, phases),
         "answered" \in flags[t] => phases \subseteq {"completed", "failed"},
         UNCHANGED turns, Undecided(t), UNCHANGED integrated
  PROVE  Went(t)
BY SameFlags, GoesOnWent

\* runTask waits for a turn of the orchestrator.
LEMMA AsksWent ==
  ASSUME NEW t \in Tasks, Here(t), UNCHANGED flags, at[t] \notin Triages, at[t] \notin {"replan", "completed", "failed"},
         NEW path, NEW why \in Triages, Asks(t, path, why), Stands(why, Last(path, task[t])), Last(path, task[t]) \in TaskStates,
         why = "unrunnable" => t \in setup.unrunnable, LegalPath(task[t], path),
         UNCHANGED <<decision, integrated>>
  PROVE  Went(t)
<1>0. RunTyped /\ decision[t] = "none" /\ "answered" \notin flags[t]
  BY DEF Here
<1>1. Lands(t, why, Last(path, task[t]))
  BY <1>0 DEF Asks, Goes, Lands, Last, RunTyped
<1>2. why \in Working /\ why # "replan"
  BY DEF Working, Phases, Triages
<1>3. turns' = Append(turns, t)
  BY DEF Asks
<1>4. decision' = [decision EXCEPT ![t] = "none"]
  BY <1>0, DecisionNone DEF Undecided
<1>5. flags[t] \in SUBSET Flags /\ flags' = [flags EXCEPT ![t] = flags[t]]
  BY <1>0, SameFlags
<1>6. turns' = IF why \in Triages THEN Append(turns, t) ELSE turns
  BY <1>3
<1>7. "answered" \in flags[t] => why \in {"replan", "completed", "failed"}
  BY <1>0
<1>8. why \in {"unrunnable", "replan"} => t \in setup.unrunnable
  BY <1>2
<1> QED BY <1>0, <1>1, <1>2, <1>4, <1>5, <1>6, <1>7, <1>8 DEF Went

LEMMA RetryWent ==
  ASSUME RunTyped, NEW t \in Tasks, task[t] \in Live, RetryOrFail(t), UNCHANGED turns, Undecided(t), UNCHANGED integrated
  PROVE  Went(t)
<1>1. CASE count[t].retry < TriageRetries
  <2>1. Again(t, <<"failed", "retry_pending", "ready">>, "failed")
    BY <1>1 DEF RetryOrFail
  <2>2. "failed" \in Live
    BY DEF Live
  <2>3. Comes(t, {"loop", "failed"}) /\ flags' = [flags EXCEPT ![t] = {}]
    BY <2>1, <2>2, AgainComes
  <2>4. {} \in SUBSET Flags
    OBVIOUS
  <2> QED BY <2>3, <2>4, GoesOnWent
<1>2. CASE ~(count[t].retry < TriageRetries)
  <2>1. Goes(t, <<"failed">>, "failed") /\ UNCHANGED flags
    BY <1>2 DEF RetryOrFail
  <2>2. Stands("failed", "failed") /\ "failed" \in TaskStates
    BY StatesNamed DEF Stands
  <2>3. Comes(t, {"failed", "failed"})
    BY <2>1, <2>2, OneComes
  <2> QED BY <2>1, <2>3, KeepsOnWent
<1> QED BY <1>1, <1>2

LEMMA ReviseWent ==
  ASSUME RunTyped, NEW t \in Tasks, task[t] \in Live, NEW r, Revise(t, r), UNCHANGED turns, Undecided(t), UNCHANGED integrated
  PROVE  Went(t)
<1>1. Again(t, <<"changes_requested", "ready">>, "changes_requested")
  BY DEF Revise
<1>2. "changes_requested" \in Live
  BY DEF Live
<1>3. Comes(t, {"loop", "failed"}) /\ flags' = [flags EXCEPT ![t] = {}]
  BY <1>1, <1>2, AgainComes
<1>4. {} \in SUBSET Flags
  OBVIOUS
<1> QED BY <1>3, <1>4, GoesOnWent

\* A change is in the main tree only if its task has completed.
LEMMA IntegrateWent ==
  ASSUME RunTyped, NEW t \in Tasks, task[t] \in {"verifying", "reviewing"}, Integrate(t), UNCHANGED turns, Undecided(t)
  PROVE  Went(t)
<1>0. task[t] \in Live /\ UNCHANGED flags
  BY DEF Live, Integrate
<1>1. CASE Goes(t, <<"completed">>, "completed") /\ integrated' = integrated \cup ({t} \cap Writing)
  <2>1. LegalPath(task[t], <<"completed">>)
    BY Completes
  <2>2. Lands(t, "completed", "completed")
    BY <1>1, <2>1 DEF Goes, Lands, RunTyped
  <2>3. Stands("completed", "completed") /\ "completed" \in TaskStates /\ "completed" \in Working /\ "completed" \notin Triages
    BY StatesNamed DEF Stands, Working, Phases, Triages
  <2>4. decision' = [decision EXCEPT ![t] = "none"]
    BY DecisionNone
  <2>5. flags[t] \in SUBSET Flags /\ flags' = [flags EXCEPT ![t] = flags[t]]
    BY <1>0, SameFlags
  <2> QED BY <1>1, <2>2, <2>3, <2>4, <2>5 DEF Went
<1>2. CASE Goes(t, <<"failed">>, "failed") /\ UNCHANGED integrated
  <2>1. Stands("failed", "failed") /\ "failed" \in TaskStates
    BY StatesNamed DEF Stands
  <2>2. Comes(t, {"failed", "failed"})
    BY <1>0, <1>2, <2>1, OneComes
  <2> QED BY <1>0, <1>2, <2>2, KeepsOnWent
<1> QED BY <1>1, <1>2 DEF Integrate

LEMMA Waits ==
  /\ \A s : LegalPath(s, <<>>)
  /\ LegalPath("running", <<"needs_context">>) /\ LegalPath("running", <<"verifying", "reviewing">>)
<1>1. State!Legal("task", "running", "needs_context") BY DEF State!Legal, State!States, State!TRANSITIONS
<1>2. State!Legal("task", "running", "verifying") BY DEF State!Legal, State!States, State!TRANSITIONS
<1>3. State!Legal("task", "verifying", "reviewing") BY DEF State!Legal, State!States, State!TRANSITIONS
<1>4. \A s : LegalPath(s, <<>>) BY DEF LegalPath
<1>5. LegalPath("running", <<"needs_context">>) BY <1>1 DEF LegalPath
<1>6. LegalPath("running", <<"verifying", "reviewing">>)
  <2> DEFINE path == <<"verifying", "reviewing">>
  <2>1. DOMAIN path = {1, 2} /\ path[1] = "verifying" /\ path[2] = "reviewing" OBVIOUS
  <2> HIDE DEF path
  <2>2. \A i \in DOMAIN path : State!Legal("task", IF i = 1 THEN "running" ELSE path[i - 1], path[i])
    BY <2>1, <1>2, <1>3
  <2>3. LegalPath("running", path)
    BY <2>2 DEF LegalPath
  <2> QED BY <2>3 DEF path
<1> QED BY <1>4, <1>5, <1>6

LEMMA StaysComes ==
  ASSUME NEW t \in Tasks, Here(t), CostInv, UNCHANGED <<task, at>>
  PROVE  Comes(t, {at[t]})
<1>1. Lands(t, at[t], task[t]) /\ task[t] \in TaskStates
  BY DEF Lands, Here, RunTyped, CostInv, TasksTyped
<1> QED BY <1>1 DEF Comes, Here

LEMMA BeginWent ==
  ASSUME NEW t \in Tasks, Here(t), Begin(t)
  PROVE  Went(t)
<1>1. RunTyped /\ task[t] \in Live /\ UNCHANGED <<turns, flags, integrated>> /\ Undecided(t) /\ "answered" \notin flags[t]
  BY LiveAtWork DEF Begin, Here, Undecided, Triages
<1>2. CASE Goes(t, <<"ready", "running", "verifying", "completed">>, "completed")
  <2>1. Stands("completed", "completed") /\ "completed" \in TaskStates
    BY StatesNamed DEF Stands
  <2>2. Comes(t, {"completed", "failed"})
    <3> DEFINE path == <<"ready", "running", "verifying", "completed">>
    <3>1. path # <<>> /\ path[Len(path)] = "completed" /\ Goes(t, path, "completed")
      BY <1>2
    <3> HIDE DEF path
    <3> QED BY <1>1, <2>1, <3>1, PathComes
  <2> QED BY <1>1, <2>2, KeepsOnWent
<1>3. CASE Goes(t, <<"ready">>, "loop")
  <2>1. Stands("loop", "ready") /\ "ready" \in TaskStates
    BY StatesNamed DEF Stands
  <2>2. Comes(t, {"loop", "failed"})
    BY <1>1, <1>3, <2>1, OneComes
  <2> QED BY <1>1, <2>2, KeepsOnWent
<1> QED BY <1>2, <1>3 DEF Begin

\* Both kinds of dispatch.
LEMMA DispatchWent ==
  ASSUME NEW t \in Tasks, Here(t), CostInv, Dispatch(t) \/ IntegrationDispatch(t)
  PROVE  Went(t)
<1>1. RunTyped /\ task[t] \in Live /\ UNCHANGED <<turns, flags, integrated>> /\ Undecided(t) /\ "answered" \notin flags[t]
  BY LiveAtWork DEF Dispatch, IntegrationDispatch, Here, Undecided, Triages
<1>2. CASE Goes(t, <<"cancelled">>, "failed")
  <2>1. Stands("failed", "cancelled") /\ "cancelled" \in TaskStates
    BY StatesNamed DEF Stands
  <2>2. Comes(t, {"failed", "failed"})
    BY <1>1, <1>2, <2>1, OneComes
  <2> QED BY <1>1, <2>2, KeepsOnWent
<1>3. CASE Goes(t, <<"running">>, "attempt")
  <2>1. Stands("attempt", "running") /\ "running" \in TaskStates
    BY StatesNamed DEF Stands
  <2>2. Comes(t, {"attempt", "failed"})
    BY <1>1, <1>3, <2>1, OneComes
  <2> QED BY <1>1, <2>2, KeepsOnWent
<1>4. CASE UNCHANGED <<task, at>>
  <2>1. Comes(t, {at[t]}) /\ at[t] = "loop"
    BY <1>4, StaysComes DEF Dispatch, IntegrationDispatch
  <2> QED BY <1>1, <2>1, KeepsOnWent
<1>5. CASE Goes(t, <<"blocked">>, "failed")
  <2>1. Stands("failed", "blocked") /\ "blocked" \in TaskStates
    BY StatesNamed DEF Stands
  <2>2. Comes(t, {"failed", "failed"})
    BY <1>1, <1>5, <2>1, OneComes
  <2> QED BY <1>1, <2>2, KeepsOnWent
<1> QED BY <1>2, <1>3, <1>4, <1>5 DEF Dispatch, IntegrationDispatch

LEMMA EndCancelledWent ==
  ASSUME NEW t \in Tasks, Here(t), at[t] \in {"attempt", "review"}, EndCancelled(t), UNCHANGED <<decision, integrated>>
  PROVE  Went(t)
<1>1. RunTyped /\ task[t] \in Live /\ UNCHANGED <<turns, flags>> /\ Undecided(t) /\ "answered" \notin flags[t]
  BY LiveAtWork DEF EndCancelled, Here, Undecided, Triages
<1>2. CASE Goes(t, <<"cancelled">>, "failed")
  <2>1. Stands("failed", "cancelled") /\ "cancelled" \in TaskStates
    BY StatesNamed DEF Stands
  <2>2. Comes(t, {"failed", "failed"})
    BY <1>1, <1>2, <2>1, OneComes
  <2> QED BY <1>1, <2>2, KeepsOnWent
<1>3. CASE ThrowsIn(t, task[t])
  <2>1. Comes(t, {"failed"})
    BY <1>1, <1>3, ThrowComes
  <2> QED BY <1>1, <2>1, KeepsOnWent
<1> QED BY <1>2, <1>3 DEF EndCancelled

LEMMA ReportWent ==
  ASSUME NEW t \in Tasks, Here(t), Report(t)
  PROVE  Went(t)
<1>1. /\ RunTyped /\ task[t] \in Live /\ task[t] = "running" /\ UNCHANGED <<decision, integrated>> /\ Undecided(t)
      /\ at[t] = "attempt" /\ "answered" \notin flags[t] /\ at[t] \notin Triages
  BY LiveAtWork DEF Report, Here, Undecided, Triages, Stands
<1>2. CASE EndCancelled(t)
  BY <1>1, <1>2, EndCancelledWent
<1>3. CASE Again(t, <<"needs_context", "ready">>, "needs_context") /\ UNCHANGED turns
  <2>1. "needs_context" \in Live /\ {} \in SUBSET Flags
    BY DEF Live
  <2>2. Comes(t, {"loop", "failed"}) /\ flags' = [flags EXCEPT ![t] = {}]
    BY <1>1, <1>3, <2>1, AgainComes
  <2> QED BY <1>1, <1>3, <2>1, <2>2, GoesOnWent
<1>4. CASE Goes(t, <<"needs_context", "cancelled">>, "failed") /\ UNCHANGED <<turns, flags>>
  <2>1. Stands("failed", "cancelled") /\ "cancelled" \in TaskStates
    BY StatesNamed DEF Stands
  <2>2. Comes(t, {"failed", "failed"})
    BY <1>1, <1>4, <2>1, PathComes
  <2> QED BY <1>1, <1>4, <2>2, KeepsOnWent
<1>5. CASE Goes(t, <<"blocked">>, "failed") /\ UNCHANGED <<turns, flags>>
  <2>1. Stands("failed", "blocked") /\ "blocked" \in TaskStates
    BY StatesNamed DEF Stands
  <2>2. Comes(t, {"failed", "failed"})
    BY <1>1, <1>5, <2>1, OneComes
  <2> QED BY <1>1, <1>5, <2>2, KeepsOnWent
<1>6. CASE /\ Goes(t, <<"verifying">>, "verify") /\ UNCHANGED turns
           /\ UNCHANGED flags \/ flags' = [flags EXCEPT ![t] = {"partial"}]
  <2>1. Stands("verify", "verifying") /\ "verifying" \in TaskStates /\ {"partial"} \in SUBSET Flags
    BY StatesNamed DEF Stands, Flags
  <2>2. Comes(t, {"verify", "failed"})
    BY <1>1, <1>6, <2>1, OneComes
  <2>3. CASE UNCHANGED flags
    BY <1>1, <1>6, <2>2, <2>3, KeepsOnWent
  <2>4. CASE flags' = [flags EXCEPT ![t] = {"partial"}]
    BY <1>1, <1>6, <2>1, <2>2, <2>4, GoesOnWent
  <2> QED BY <1>6, <2>3, <2>4
<1>7. CASE Asks(t, <<>>, "report") /\ UNCHANGED flags
  <2>1. Last(<<>>, task[t]) = "running" /\ Stands("report", "running") /\ "running" \in TaskStates /\ "report" \in Triages
    BY <1>1, StatesNamed DEF Last, Stands, Triages
  <2>2. LegalPath(task[t], <<>>)
    BY Waits
  <2> QED BY <1>1, <1>7, <2>1, <2>2, AsksWent
<1>8. ASSUME NEW why \in {"claimed", "produced"}, Asks(t, <<"needs_context">>, why), UNCHANGED flags PROVE Went(t)
  <2>1. Last(<<"needs_context">>, task[t]) = "needs_context"
    BY DEF Last
  <2>2. Stands(why, "needs_context") /\ "needs_context" \in TaskStates /\ why \in Triages
    BY StatesNamed DEF Stands, Triages
  <2>3. LegalPath(task[t], <<"needs_context">>)
    BY <1>1, Waits
  <2>4. why = "unrunnable" => t \in setup.unrunnable
    OBVIOUS
  <2> QED BY <1>1, <1>8, <2>1, <2>2, <2>3, <2>4, AsksWent
<1>9. CASE RetryOrFail(t) /\ UNCHANGED turns
  BY <1>1, <1>9, RetryWent
<1> QED BY <1>2, <1>3, <1>4, <1>5, <1>6, <1>7, <1>8, <1>9 DEF Report

LEMMA VerifiedWent ==
  ASSUME NEW t \in Tasks, Here(t), Verified(t)
  PROVE  Went(t)
<1>1. /\ RunTyped /\ task[t] \in Live /\ task[t] = "verifying" /\ UNCHANGED decision /\ Undecided(t)
      /\ at[t] = "verify" /\ "answered" \notin flags[t] /\ at[t] \notin Triages
  BY LiveAtWork DEF Verified, Here, Undecided, Triages, Stands
<1>2. ASSUME NEW why \in {"unverified"} \cup {w \in {"unrunnable"} : t \in setup.unrunnable}, Asks(t, <<>>, why),
             UNCHANGED <<flags, integrated>>
      PROVE  Went(t)
  <2>1. Last(<<>>, task[t]) = "verifying" /\ Stands(why, "verifying") /\ "verifying" \in TaskStates /\ why \in Triages
    BY <1>1, StatesNamed DEF Last, Stands, Triages
  <2>2. LegalPath(task[t], <<>>)
    BY Waits
  <2>3. why = "unrunnable" => t \in setup.unrunnable
    OBVIOUS
  <2> QED BY <1>1, <1>2, <2>1, <2>2, <2>3, AsksWent
<1>3. CASE Integrate(t) /\ UNCHANGED turns
  BY <1>1, <1>3, IntegrateWent
<1>4. CASE /\ Goes(t, <<"reviewing">>, "review") \/ Goes(t, <<"reviewing", "failed">>, "failed")
           /\ flags' = [flags EXCEPT ![t] = @ \ {"waived"}] /\ UNCHANGED <<turns, integrated>>
  <2>1. Stands("review", "reviewing") /\ "reviewing" \in TaskStates /\ Stands("failed", "failed") /\ "failed" \in TaskStates
    BY StatesNamed DEF Stands
  <2>2. flags[t] \ {"waived"} \in SUBSET Flags /\ "answered" \notin flags[t] \ {"waived"}
    BY <1>1 DEF RunTyped
  <2>3. CASE Goes(t, <<"reviewing">>, "review")
    <3>1. Comes(t, {"review", "failed"})
      BY <1>1, <2>1, <2>3, OneComes
    <3> QED BY <1>1, <1>4, <2>2, <3>1, GoesOnWent
  <2>4. CASE Goes(t, <<"reviewing", "failed">>, "failed")
    <3>1. Comes(t, {"failed", "failed"})
      BY <1>1, <2>1, <2>4, PathComes
    <3> QED BY <1>1, <1>4, <2>2, <3>1, GoesOnWent
  <2> QED BY <1>4, <2>3, <2>4
<1>5. CASE RetryOrFail(t) /\ UNCHANGED <<turns, integrated>>
  BY <1>1, <1>5, RetryWent
<1> QED BY <1>2, <1>3, <1>4, <1>5 DEF Verified

LEMMA ReviewedWent ==
  ASSUME NEW t \in Tasks, Here(t), CostInv, Reviewed(t)
  PROVE  Went(t)
<1>1. /\ RunTyped /\ task[t] \in Live /\ task[t] = "reviewing" /\ UNCHANGED decision /\ Undecided(t)
      /\ at[t] = "review" /\ "answered" \notin flags[t] /\ at[t] \notin Triages
  BY LiveAtWork DEF Reviewed, Here, Undecided, Triages, Stands
<1>2. CASE EndCancelled(t) /\ UNCHANGED integrated
  BY <1>1, <1>2, EndCancelledWent
<1>3. CASE Integrate(t) /\ UNCHANGED turns
  BY <1>1, <1>3, IntegrateWent
<1>4. CASE flags' = [flags EXCEPT ![t] = @ \cup {"widened"}] /\ UNCHANGED <<task, at, turns, integrated>>
  <2>1. Comes(t, {"review"})
    BY <1>1, <1>4, StaysComes
  <2>2. flags[t] \cup {"widened"} \in SUBSET Flags /\ "answered" \notin flags[t] \cup {"widened"}
    BY <1>1 DEF RunTyped, Flags
  <2> QED BY <1>1, <1>4, <2>1, <2>2, GoesOnWent
<1>5. CASE UNCHANGED <<task, at, turns, flags, integrated>>
  <2>1. Comes(t, {"review"})
    BY <1>1, <1>5, StaysComes
  <2> QED BY <1>1, <1>5, <2>1, KeepsOnWent
<1>6. CASE Goes(t, <<"failed">>, "failed") /\ UNCHANGED <<turns, flags, integrated>>
  <2>1. Stands("failed", "failed") /\ "failed" \in TaskStates
    BY StatesNamed DEF Stands
  <2>2. Comes(t, {"failed", "failed"})
    BY <1>1, <1>6, <2>1, OneComes
  <2> QED BY <1>1, <1>6, <2>2, KeepsOnWent
<1>7. CASE Revise(t, 0) /\ UNCHANGED <<turns, integrated>>
  BY <1>1, <1>7, ReviseWent
<1>8. ASSUME NEW why \in {"unaccepted", "blocker"}, Asks(t, <<>>, why), UNCHANGED <<flags, integrated>> PROVE Went(t)
  <2>1. Last(<<>>, task[t]) = "reviewing" /\ Stands(why, "reviewing") /\ "reviewing" \in TaskStates /\ why \in Triages
    BY <1>1, StatesNamed DEF Last, Stands, Triages
  <2>2. LegalPath(task[t], <<>>)
    BY Waits
  <2>3. why = "unrunnable" => t \in setup.unrunnable
    OBVIOUS
  <2> QED BY <1>1, <1>8, <2>1, <2>2, <2>3, AsksWent
<1> QED BY <1>2, <1>3, <1>4, <1>5, <1>6, <1>7, <1>8 DEF Reviewed

LEMMA IntegrationReviewedWent ==
  ASSUME NEW t \in Tasks, Here(t), CostInv, IntegrationReviewed(t)
  PROVE  Went(t)
<1>1. /\ RunTyped /\ task[t] \in Live /\ task[t] = "running" /\ UNCHANGED <<flags, decision, integrated>> /\ Undecided(t)
      /\ at[t] = "attempt" /\ "answered" \notin flags[t] /\ at[t] \notin Triages
  BY LiveAtWork DEF IntegrationReviewed, Here, Undecided, Triages, Stands
<1>2. CASE UNCHANGED <<task, at, turns>>
  <2>1. Comes(t, {"attempt"})
    BY <1>1, <1>2, StaysComes
  <2> QED BY <1>1, <1>2, <2>1, KeepsOnWent
<1>3. CASE Goes(t, <<"failed">>, "failed") /\ UNCHANGED turns
  <2>1. Stands("failed", "failed") /\ "failed" \in TaskStates
    BY StatesNamed DEF Stands
  <2>2. Comes(t, {"failed", "failed"})
    BY <1>1, <1>3, <2>1, OneComes
  <2> QED BY <1>1, <1>3, <2>2, KeepsOnWent
<1>4. CASE Goes(t, <<"verifying", "reviewing", "completed">>, "completed") /\ UNCHANGED turns
  <2>1. Stands("completed", "completed") /\ "completed" \in TaskStates
    BY StatesNamed DEF Stands
  <2>2. Comes(t, {"completed", "failed"})
    BY <1>1, <1>4, <2>1, PathComes
  <2> QED BY <1>1, <1>4, <2>2, KeepsOnWent
<1>5. CASE Asks(t, <<"verifying", "reviewing">>, "integration")
  <2>1. /\ Last(<<"verifying", "reviewing">>, task[t]) = "reviewing" /\ Stands("integration", "reviewing")
        /\ "reviewing" \in TaskStates /\ "integration" \in Triages
    BY StatesNamed DEF Last, Stands, Triages
  <2>2. LegalPath(task[t], <<"verifying", "reviewing">>)
    BY <1>1, Waits
  <2> QED BY <1>1, <1>5, <2>1, <2>2, AsksWent
<1> QED BY <1>2, <1>3, <1>4, <1>5 DEF IntegrationReviewed

LEMMA FailsTriageWent ==
  ASSUME NEW t \in Tasks, Here(t), at[t] \in Triages, FailsTriage(t), UNCHANGED <<turns, integrated>>,
         decision' = [decision EXCEPT ![t] = "none"]
  PROVE  Went(t)
<1>1. RunTyped /\ task[t] \in Live /\ Undecided(t) /\ UNCHANGED flags
  BY LiveAtWork DEF FailsTriage, Here, Undecided, Triages
<1>2. PICK state \in {"cancelled", "failed"} : Goes(t, <<state>>, "failed")
  BY DEF FailsTriage
<1>3. Stands("failed", state) /\ state \in TaskStates
  BY StatesNamed DEF Stands
<1>4. Comes(t, {"failed", "failed"})
  BY <1>1, <1>2, <1>3, OneComes
<1> QED BY <1>1, <1>4, KeepsOnWent

LEMMA VerifiesWent ==
  ASSUME NEW t \in Tasks, Here(t), at[t] \in Triages, NEW f \in {"partial", "waived"}, NEW path, VerifiesAgain(t, path, f),
         path = <<"verifying">> \/ (path = <<>> /\ task[t] = "verifying" /\ ~Claimed(t)),
         UNCHANGED turns, decision' = [decision EXCEPT ![t] = "none"]
  PROVE  Went(t)
<1>1. RunTyped /\ task[t] \in Live /\ Undecided(t) /\ UNCHANGED integrated
  BY LiveAtWork DEF VerifiesAgain, Here, Undecided, Triages
<1>2. Stands("verify", "verifying") /\ "verifying" \in TaskStates
  BY StatesNamed DEF Stands
<1>3. Comes(t, {"verify", "failed"})
  <2>1. CASE path = <<>>
    <3>1. Goes(t, <<>>, "verify") /\ Last(<<>>, task[t]) = "verifying"
      BY <2>1 DEF VerifiesAgain, Last
    <3> QED BY <1>1, <1>2, <3>1, GoesComes
  <2>2. CASE path = <<"verifying">> /\ ~Claimed(t)
    <3>1. Goes(t, <<"verifying">>, "verify")
      BY <2>2 DEF VerifiesAgain
    <3> QED BY <1>1, <1>2, <3>1, OneComes
  <2>3. CASE path = <<"verifying">> /\ Claimed(t)
    <3> DEFINE whole == <<"running">> \o <<"verifying">>
    <3>1. whole # <<>> /\ whole[Len(whole)] = "verifying" /\ Goes(t, whole, "verify")
      BY <2>3 DEF VerifiesAgain
    <3> HIDE DEF whole
    <3> QED BY <1>1, <1>2, <3>1, PathComes
  <2> QED BY <2>1, <2>2, <2>3
<1>4. (flags[t] \ {"answered"}) \cup {f} \in SUBSET Flags /\ "answered" \notin (flags[t] \ {"answered"}) \cup {f}
  BY <1>1 DEF RunTyped, Flags
<1>5. flags' = [flags EXCEPT ![t] = (flags[t] \ {"answered"}) \cup {f}]
  BY DEF VerifiesAgain
<1> QED BY <1>1, <1>3, <1>4, <1>5, GoesOnWent

LEMMA RetryDecidedWent ==
  ASSUME NEW t \in Tasks, Here(t), at[t] \in Triages, RetryDecided(t), UNCHANGED turns, decision' = [decision EXCEPT ![t] = "none"]
  PROVE  Went(t)
<1>1. RunTyped /\ task[t] \in Live /\ Undecided(t) /\ UNCHANGED integrated
  BY LiveAtWork DEF RetryDecided, Here, Undecided, Triages
<1>2. CASE ~Left(t)
  BY <1>1, <1>2, FailsTriageWent DEF RetryDecided
<1>3. CASE Left(t) /\ Claimed(t)
  <2>1. Again(t, <<"ready">>, "needs_context")
    BY <1>3 DEF RetryDecided, Claimed
  <2>2. "needs_context" \in Live /\ {} \in SUBSET Flags /\ <<"ready">> # <<>> /\ <<"ready">>[Len(<<"ready">>)] = "ready"
    BY DEF Live
  <2>3. Comes(t, {"loop", "failed"}) /\ flags' = [flags EXCEPT ![t] = {}]
    BY <1>1, <2>1, <2>2, AgainComes
  <2> QED BY <1>1, <2>2, <2>3, GoesOnWent
<1>4. CASE Left(t) /\ at[t] \in {"unaccepted", "blocker"}
  <2>1. Revise(t, 1)
    BY <1>4 DEF RetryDecided, Claimed
  <2> QED BY <1>1, <2>1, ReviseWent
<1>5. CASE Left(t) /\ at[t] = "integration"
  <2> DEFINE path == <<"changes_requested", "ready">>
  <2>1. Goes(t, path, "loop") /\ flags' = [flags EXCEPT ![t] = {}] /\ path # <<>> /\ path[Len(path)] = "ready"
    BY <1>5 DEF RetryDecided, Claimed
  <2> HIDE DEF path
  <2>2. Stands("loop", "ready") /\ "ready" \in TaskStates /\ {} \in SUBSET Flags
    BY StatesNamed DEF Stands
  <2>3. Comes(t, {"loop", "failed"})
    BY <1>1, <2>1, <2>2, PathComes
  <2> QED BY <1>1, <2>1, <2>2, <2>3, GoesOnWent
<1>6. CASE Left(t) /\ ~Claimed(t) /\ at[t] \notin {"unaccepted", "blocker", "integration"}
  <2>1. RetryOrFail(t)
    BY <1>6 DEF RetryDecided
  <2> QED BY <1>1, <2>1, RetryWent
<1> QED BY <1>2, <1>3, <1>4, <1>5, <1>6

\* What a decision is about.
Offered(t) ==
  /\ decision[t] = "accept" => at[t] \notin {"produced", "blocker"}
  /\ decision[t] = "review" => at[t] = "produced"
  /\ decision[t] \in {"waive", "replace"} => at[t] = "unrunnable"
  /\ at[t] \in {"unrunnable", "replan"} => t \in setup.unrunnable

LEMMA AcceptWent ==
  ASSUME NEW t \in Tasks, Here(t), at[t] \in Triages, Offered(t), decision[t] = "accept", AcceptDecided(t), UNCHANGED turns,
         decision' = [decision EXCEPT ![t] = "none"]
  PROVE  Went(t)
<1>1. CASE at[t] \in {"report", "claimed"}
  <2>1. VerifiesAgain(t, <<"verifying">>, "waived")
    BY <1>1 DEF AcceptDecided
  <2>2. "waived" \in {"partial", "waived"} /\ <<"verifying">> = <<"verifying">>
    OBVIOUS
  <2> QED BY <2>1, <2>2, VerifiesWent
<1>2. CASE at[t] \in {"unverified", "unrunnable"}
  <2>1. VerifiesAgain(t, <<>>, "waived")
    BY <1>2 DEF AcceptDecided
  <2>2. task[t] = "verifying" /\ ~Claimed(t)
    BY <1>2 DEF Here, Stands, Claimed
  <2>3. "waived" \in {"partial", "waived"} /\ <<>> = <<>>
    OBVIOUS
  <2> QED BY <2>1, <2>2, <2>3, VerifiesWent
<1>3. CASE at[t] \in {"unaccepted", "integration"}
  <2>1. Integrate(t) /\ task[t] = "reviewing" /\ RunTyped /\ Undecided(t)
    BY <1>3 DEF AcceptDecided, Here, Stands, Undecided
  <2> QED BY <2>1, IntegrateWent
<1> QED BY <1>1, <1>2, <1>3 DEF Offered, Triages

LEMMA DecidedWent ==
  ASSUME NEW t \in Tasks, Here(t), Offered(t), Decided(t)
  PROVE  Went(t)
<1>1. at[t] \in Triages /\ UNCHANGED turns /\ decision' = [decision EXCEPT ![t] = "none"]
  BY DEF Decided
<1>2. CASE decision[t] = "review" /\ VerifiesAgain(t, <<"verifying">>, "partial")
  <2>1. "partial" \in {"partial", "waived"} /\ <<"verifying">> = <<"verifying">>
    OBVIOUS
  <2> QED BY <1>1, <1>2, <2>1, VerifiesWent
<1>3. CASE decision[t] = "waive" /\ VerifiesAgain(t, <<>>, "waived")
  <2>1. task[t] = "verifying" /\ ~Claimed(t)
    BY <1>3 DEF Here, Stands, Claimed, Offered
  <2>2. "waived" \in {"partial", "waived"} /\ <<>> = <<>>
    OBVIOUS
  <2> QED BY <1>1, <1>3, <2>1, <2>2, VerifiesWent
<1>4. CASE decision[t] = "accept" /\ AcceptDecided(t)
  BY <1>1, <1>4, AcceptWent
<1>5. CASE RetryDecided(t)
  BY <1>1, <1>5, RetryDecidedWent
<1>6. CASE FailsTriage(t) /\ UNCHANGED integrated
  BY <1>1, <1>6, FailsTriageWent
<1>7. CASE decision[t] = "replace" /\ at' = [at EXCEPT ![t] = "replan"] /\ UNCHANGED <<task, flags, integrated>>
  <2>1. at[t] = "unrunnable" /\ t \in setup.unrunnable /\ RunTyped
    BY <1>7 DEF Offered, Here
  <2>2. Lands(t, "replan", task[t]) /\ Stands("replan", task[t]) /\ task[t] \in TaskStates
    BY <1>7, <2>1 DEF Lands, Stands, Here, RunTyped
  <2>3. "replan" \in Working /\ "replan" \notin Triages
    BY DEF Working, Phases, Triages
  <2>4. flags[t] \in SUBSET Flags /\ flags' = [flags EXCEPT ![t] = flags[t]]
    BY <1>7, <2>1, SameFlags
  <2> QED BY <1>1, <1>7, <2>1, <2>2, <2>3, <2>4 DEF Went
<1> QED BY <1>1, <1>2, <1>3, <1>4, <1>5, <1>6, <1>7 DEF Decided

LEMMA ReplannedWent ==
  ASSUME NEW t \in Tasks, Here(t), Replanned(t)
  PROVE  Went(t)
<1>1. /\ RunTyped /\ at[t] = "replan" /\ task[t] \in Live /\ UNCHANGED <<turns, decision, integrated>> /\ Undecided(t)
  BY LiveAtWork DEF Replanned, Here, Undecided, Triages
<1>2. CASE RetryOrFail(t)
  BY <1>1, <1>2, RetryWent
<1>3. CASE Goes(t, <<"failed">>, "failed") /\ UNCHANGED flags
  <2>1. Stands("failed", "failed") /\ "failed" \in TaskStates
    BY StatesNamed DEF Stands
  <2>2. Comes(t, {"failed", "failed"})
    BY <1>1, <1>3, <2>1, OneComes
  <2> QED BY <1>1, <1>3, <2>2, KeepsOnWent
<1>4. CASE ThrowsIn(t, task[t]) /\ UNCHANGED flags
  <2>1. Comes(t, {"failed"})
    BY <1>1, <1>4, ThrowComes
  <2> QED BY <1>1, <1>4, <2>1, KeepsOnWent
<1> QED BY <1>2, <1>3, <1>4 DEF Replanned

\* The queue of the orchestrator's turns.
LEMMA Joins ==
  ASSUME RunTyped, OnceEach, NEW w \in Tasks \cup {"main"}, w \notin Waiting, turns' = Append(turns, w)
  PROVE  /\ turns' \in Seq(Tasks \cup {"main"}) /\ OnceEach' /\ Waiting' = Waiting \cup {w}
         /\ \A v : HasTurn(v) => HasTurn(v)'
<1>1. turns \in Seq(Tasks \cup {"main"}) /\ Len(turns) \in Nat
  BY DEF RunTyped
<1>2. Len(turns') = Len(turns) + 1 /\ \A i \in 1..Len(turns) + 1 : turns'[i] = IF i = Len(turns) + 1 THEN w ELSE turns[i]
  BY <1>1
<1>3. turns' \in Seq(Tasks \cup {"main"})
  BY <1>1
<1>4. OnceEach'
  BY <1>1, <1>2 DEF OnceEach, Waiting
<1>5. Waiting' = Waiting \cup {w}
  <2>1. Waiting' \subseteq Waiting \cup {w}
    BY <1>1, <1>2 DEF Waiting
  <2>2. w \in Waiting'
    BY <1>1, <1>2 DEF Waiting
  <2>3. Waiting \subseteq Waiting'
    <3> SUFFICES ASSUME NEW i \in 1..Len(turns) PROVE turns[i] \in Waiting'
      BY DEF Waiting
    <3>1. i \in 1..Len(turns') /\ turns'[i] = turns[i]
      BY <1>1, <1>2
    <3> QED BY <3>1 DEF Waiting
  <2> QED BY <2>1, <2>2, <2>3
<1>6. ASSUME NEW v, HasTurn(v) PROVE HasTurn(v)'
  <2>1. turns # <<>> /\ Head(turns) = v
    BY <1>6 DEF HasTurn
  <2>2. turns' # <<>> /\ Head(turns') = Head(turns)
    BY <1>1, <2>1
  <2> QED BY <2>1, <2>2 DEF HasTurn
<1> QED BY <1>3, <1>4, <1>5, <1>6

LEMMA FirstWaits ==
  ASSUME RunTyped, NEW w, HasTurn(w)
  PROVE  w \in Waiting
<1>1. Len(turns) \in Nat /\ Len(turns) # 0 /\ Head(turns) = turns[1] /\ Head(turns) = w
  BY DEF RunTyped, HasTurn
<1>2. 1 \in 1..Len(turns) /\ turns[1] = w
  BY <1>1
<1> QED BY <1>2 DEF Waiting

LEMMA Leaves ==
  ASSUME RunTyped, OnceEach, NEW w, HasTurn(w), turns' = Tail(turns)
  PROVE  /\ turns' \in Seq(Tasks \cup {"main"}) /\ OnceEach' /\ Waiting' \subseteq Waiting \ {w}
<1>1. turns \in Seq(Tasks \cup {"main"}) /\ Len(turns) \in Nat /\ turns # <<>> /\ Head(turns) = turns[1] /\ Head(turns) = w
  BY DEF RunTyped, HasTurn
<1>2. Len(turns') = Len(turns) - 1 /\ \A i \in 1..Len(turns') : turns'[i] = turns[i + 1]
  BY <1>1
<1>3. Len(turns) # 0 /\ \A i \in 1..Len(turns') : i + 1 \in 1..Len(turns) /\ i + 1 # 1
  BY <1>1, <1>2
<1>4. turns' \in Seq(Tasks \cup {"main"})
  BY <1>1
<1>5. OnceEach'
  <2> SUFFICES ASSUME NEW i \in 1..Len(turns'), NEW j \in 1..Len(turns'), turns'[i] = turns'[j] PROVE i = j
    BY DEF OnceEach
  <2>1. i + 1 = j + 1
    BY <1>2, <1>3 DEF OnceEach
  <2> QED BY <2>1
<1>6. Waiting' \subseteq Waiting \ {w}
  <2> SUFFICES ASSUME NEW i \in 1..Len(turns') PROVE turns'[i] \in Waiting /\ turns'[i] # w
    BY DEF Waiting
  <2>1. i + 1 \in 1..Len(turns) /\ i + 1 # 1 /\ turns'[i] = turns[i + 1] /\ 1 \in 1..Len(turns)
    BY <1>1, <1>2, <1>3
  <2> QED BY <1>1, <2>1 DEF Waiting, OnceEach
<1> QED BY <1>4, <1>5, <1>6

LEMMA NobodyWaits ==
  ASSUME RunTyped, Waiting = {}
  PROVE  turns = <<>>
<1>1. turns \in Seq(Tasks \cup {"main"}) /\ Len(turns) \in Nat
  BY DEF RunTyped
<1>2. ~(Len(turns) >= 1)
  <2> SUFFICES ASSUME Len(turns) >= 1 PROVE FALSE
    OBVIOUS
  <2>1. 1 \in 1..Len(turns)
    BY <1>1
  <2> QED BY <2>1 DEF Waiting
<1>3. Len(turns) = 0
  BY <1>1, <1>2
<1> QED BY <1>1, <1>3

----------------------------------------------------------------------------

\* In what is not said to be approved by the user, two tasks may revise the plan at once; in
\* what is, only the orchestrator's turn may: no verification turns out unrunnable.
OneReviser == \A s \in Setups : s.mode = "ask" => s.unrunnable = {}

RunInv == SpawnedOK /\ SchedTypeOK /\ CostInv /\ SettleInv

\* Who has the turn, and has not decided, finds no revision of it.
LEMMA NoneRevises ==
  ASSUME RunInv, NEW w \in Tasks \cup {"main"}, HasTurn(w), w = "main" => main \notin Consulted, w # "main" => decision[w] = "none"
  PROVE  revising["turn"].step = "none"
<1>1. w # "main" => main \notin Consulted
  BY DEF RunInv, SettleInv, Queued, HasTurn
<1>2. \A t \in Tasks : HasTurn(t) => t = w
  BY DEF HasTurn
<1> QED BY <1>1, <1>2, NameAssumption DEF RunInv, SettleInv, TurnHeld

LEMMA StaysSettled ==
  ASSUME RunInv, UNCHANGED <<setup, task, at, flags, decision, turns, plans, revising, integrated, sched, run, main>>
  PROVE  SettleInv'
<1> USE DEF RunInv, SettleInv
<1>1. RunTyped' BY DEF RunTyped
<1>2. Placed' BY DEF Placed
<1>3. Deciding' BY DEF Deciding
<1>4. Queued' BY DEF Queued, Waiting, OnceEach, HasTurn
<1>5. TurnHeld' BY DEF TurnHeld, HasTurn
<1>6. OneAsks' BY DEF OneAsks, Asking
<1>7. RunSettled' BY DEF RunSettled, Inflight, Known
<1> QED BY <1>1, <1>2, <1>3, <1>4, <1>5, <1>6, <1>7

LEMMA HereAtWork ==
  ASSUME RunInv, NEW t \in Tasks, RunTask(t)
  PROVE  Here(t) /\ Offered(t) /\ t \notin integrated
<1>1. at[t] \notin {"idle", "gone"} /\ at[t] \notin {"completed", "failed"}
  BY DEF RunTask, Begin, Dispatch, Report, Verified, Reviewed, IntegrationDispatch, IntegrationReviewed, Triage, LeaveTriage,
     Decided, Replanned, Triages
<1>2. at[t] \in Working /\ Stands(at[t], task[t]) /\ t \notin integrated
  BY <1>1 DEF RunInv, CostInv, TasksTyped, SettleInv, Placed, Working
<1>3. RunTyped /\ (decision[t] # "none" => at[t] \in Triages) /\ Offered(t)
      /\ ("answered" \in flags[t] => at[t] \in Triages \cup {"replan", "completed", "failed"})
  BY DEF RunInv, SettleInv, Deciding, Offered
<1> QED BY <1>2, <1>3 DEF Here

\* Steps of runTask that neither take nor leave a turn.
LEMMA WentSettles ==
  ASSUME RunInv, NEW t \in Tasks, Here(t), t \notin integrated, Went(t), t \notin Waiting,
         UNCHANGED <<sched, setup, main>>, main # "over"
  PROVE  /\ task' \in [Tasks -> TaskStates] /\ flags' \in [Tasks -> SUBSET Flags] /\ decision' \in [Tasks -> Options]
         /\ turns' \in Seq(Tasks \cup {"main"}) /\ integrated' \subseteq Tasks
         /\ Placed' /\ Deciding' /\ Queued' /\ RunSettled'
         /\ revising'["turn"] = revising["turn"] => TurnHeld'
<1>1. PICK phase \in Working, state \in TaskStates, f \in SUBSET Flags :
        /\ Lands(t, phase, state) /\ Stands(phase, state)
        /\ flags' = [flags EXCEPT ![t] = f]
        /\ "answered" \in f => phase \in {"replan", "completed", "failed"}
        /\ phase \in {"unrunnable", "replan"} => t \in setup.unrunnable
        /\ turns' = IF phase \in Triages THEN Append(turns, t) ELSE turns
        /\ decision' = [decision EXCEPT ![t] = "none"]
        /\ \/ UNCHANGED integrated
           \/ phase = "completed" /\ integrated' = integrated \cup ({t} \cap Writing)
  BY DEF Went
<1>2. RunTyped /\ at \in [Tasks -> Phases] /\ Placed /\ Deciding /\ Queued /\ TurnHeld /\ OnceEach
  BY DEF RunInv, CostInv, TasksTyped, SettleInv, Queued
<1>3. at'[t] = phase /\ task'[t] = state /\ \A u \in Tasks \ {t} : at'[u] = at[u] /\ task'[u] = task[u]
  BY <1>1, <1>2 DEF Lands, RunTyped
<1>4. flags'[t] = f /\ decision'[t] = "none" /\ \A u \in Tasks \ {t} : flags'[u] = flags[u] /\ decision'[u] = decision[u]
  BY <1>1, <1>2 DEF RunTyped
<1>5. task' \in [Tasks -> TaskStates] /\ flags' \in [Tasks -> SUBSET Flags] /\ decision' \in [Tasks -> Options]
  <2>1. "none" \in Options
    BY DEF Options
  <2> QED BY <1>1, <1>2, <2>1 DEF Lands, RunTyped
<1>6. integrated' \subseteq Tasks /\ integrated \subseteq integrated' /\ (t \in integrated' => phase = "completed")
      /\ \A u \in Tasks \ {t} : u \in integrated' => u \in integrated
  BY <1>1, <1>2 DEF RunTyped
<1>7. phase \notin {"idle", "gone"}
  BY DEF Working
<1>8. Placed'
  <2>1. ASSUME NEW u \in Tasks \ {t}
        PROVE  /\ at'[u] = "idle" => \/ sched'[u] = "unknown" /\ task'[u] = "none"
                                     \/ sched'[u] \in {"pending", "skipped"} /\ task'[u] = "draft"
                                     \/ sched'[u] = "skipped" /\ task'[u] = "cancelled"
               /\ at'[u] \notin {"idle", "gone"} => Stands(at'[u], task'[u])
               /\ at'[u] = "gone" => \/ sched'[u] = "completed" /\ task'[u] = "completed"
                                     \/ sched'[u] = "failed" /\ task'[u] \in {"failed", "cancelled", "blocked"}
               /\ u \in integrated' => at'[u] \in {"completed", "gone"} /\ task'[u] = "completed"
    BY <1>2, <1>3, <1>6 DEF Placed
  <2>2. t \in integrated' => at'[t] \in {"completed", "gone"} /\ task'[t] = "completed"
    BY <1>1, <1>3, <1>6 DEF Stands
  <2> QED BY <1>1, <1>3, <1>7, <2>1, <2>2 DEF Placed
<1>9. Deciding'
  BY <1>1, <1>2, <1>3, <1>4 DEF Deciding
<1>10. turns' \in Seq(Tasks \cup {"main"}) /\ Queued' /\ \A v : HasTurn(v) => HasTurn(v)'
  <2>1. CASE phase \in Triages
    <3>1. /\ turns' \in Seq(Tasks \cup {"main"}) /\ OnceEach' /\ Waiting' = Waiting \cup {t}
          /\ \A v : HasTurn(v) => HasTurn(v)'
      BY <1>1, <1>2, <2>1, Joins
    <3>2. "answered" \notin f
      BY <1>1, <2>1 DEF Triages
    <3>3. t # "main"
      BY NameAssumption
    <3> QED BY <1>2, <1>3, <1>4, <2>1, <3>1, <3>2, <3>3 DEF Queued
  <2>2. CASE phase \notin Triages
    <3>1. UNCHANGED turns
      BY <1>1, <2>2
    <3>2. Waiting' = Waiting /\ OnceEach' /\ \A v : HasTurn(v)' <=> HasTurn(v)
      BY <1>2, <3>1 DEF Waiting, OnceEach, HasTurn
    <3> QED BY <1>2, <1>3, <1>4, <3>1, <3>2 DEF Queued, RunTyped
  <2> QED BY <2>1, <2>2
<1>11. RunSettled'
  BY DEF RunSettled
<1>12. ASSUME revising'["turn"] = revising["turn"] PROVE TurnHeld'
  <2> SUFFICES ASSUME revising["turn"].step # "none", main \notin Consulted
               PROVE  \E u \in Tasks : HasTurn(u)' /\ decision'[u] # "none"
    BY <1>12 DEF TurnHeld
  <2>1. PICK u \in Tasks : HasTurn(u) /\ decision[u] # "none"
    BY <1>2 DEF TurnHeld
  <2>2. u # t
    BY <1>2, <2>1, FirstWaits
  <2> QED BY <1>4, <1>10, <2>1, <2>2
<1> QED BY <1>5, <1>6, <1>8, <1>9, <1>10, <1>11, <1>12

LEMMA RevisingOne ==
  ASSUME RunTyped, NEW w \in Tasks \cup {"turn"}, NEW r \in Revisions, revising' = [revising EXCEPT ![w] = r]
  PROVE  /\ revising' \in [Tasks \cup {"turn"} -> Revisions] /\ revising'[w] = r
         /\ \A v \in (Tasks \cup {"turn"}) \ {w} : revising'[v] = revising[v]
BY DEF RunTyped

LEMMA ProposesOne ==
  ASSUME RunTyped, NEW w \in Tasks \cup {"turn"}, Proposes(w)
  PROVE  /\ plans' \in Seq(PlanStates)
         /\ \E r \in Revisions : r.step \in {"proposed", "refused"} /\ revising' = [revising EXCEPT ![w] = r]
<1>1. plans \in Seq(PlanStates) /\ Len(plans) \in Nat /\ revising[w] \in Revisions
  BY DEF RunTyped
<1>2. CASE plans' = Append(plans, "proposed") /\ revising' = [revising EXCEPT ![w] = [step |-> "proposed", plan |-> Len(plans) + 1]]
  <2>1. plans' \in Seq(PlanStates)
    BY <1>1, <1>2 DEF PlanStates
  <2>2. [step |-> "proposed", plan |-> Len(plans) + 1] \in Revisions
    BY <1>1 DEF Revisions
  <2> QED BY <1>2, <2>1, <2>2
<1>3. CASE revising' = [revising EXCEPT ![w].step = "refused"] /\ UNCHANGED plans
  <2>1. [revising[w] EXCEPT !.step = "refused"] \in Revisions /\ [revising[w] EXCEPT !.step = "refused"].step = "refused"
    BY <1>1 DEF Revisions
  <2>2. revising' = [revising EXCEPT ![w] = [revising[w] EXCEPT !.step = "refused"]]
    BY <1>3
  <2> QED BY <1>1, <1>3, <2>1, <2>2
<1> QED BY <1>2, <1>3 DEF Proposes

LEMMA StepsOne ==
  ASSUME RunTyped, NEW w \in Tasks \cup {"turn"},
         NEW step \in {"none", "proposed", "refused", "asked", "approved", "superseded", "accepted", "threw"}, Steps(w, step)
  PROVE  \E r \in Revisions : r.step = step /\ revising' = [revising EXCEPT ![w] = r]
<1>1. revising[w] \in Revisions
  BY DEF RunTyped
<1>2. [revising[w] EXCEPT !.step = step] \in Revisions /\ [revising[w] EXCEPT !.step = step].step = step
  BY <1>1 DEF Revisions
<1>3. revising' = [revising EXCEPT ![w] = [revising[w] EXCEPT !.step = step]]
  BY DEF Steps
<1> QED BY <1>2, <1>3

LEMMA PlansChange ==
  ASSUME NEW s \in Seq(PlanStates), NEW i, NEW state \in PlanStates
  PROVE  [s EXCEPT ![i] = state] \in Seq(PlanStates)
<1>1. PICK n \in Nat : s \in [1..n -> PlanStates]
  BY SeqDef
<1>2. [s EXCEPT ![i] = state] \in [1..n -> PlanStates]
  BY <1>1
<1> QED BY <1>2, SeqDef

LEMMA NoRevisionOK == NoRevision \in Revisions /\ NoRevision.step = "none"
BY DEF NoRevision, Revisions

\* What an operation on the plan leaves alone.
LEMMA AddsPlaced ==
  ASSUME RunInv, AddSpawned, UNCHANGED <<at, integrated>>
  PROVE  task' \in [Tasks -> TaskStates] /\ Placed'
<1>1. /\ SpawnedOK /\ SchedTypeOK /\ CostInv /\ RunTyped /\ Placed
  BY DEF RunInv, SettleInv
<1>2. CASE UNCHANGED <<sched, task>>
  BY <1>1, <1>2 DEF RunTyped, Placed
<1>3. CASE Add(spawned) /\ task' = [t \in Tasks |-> IF t \in spawned THEN "draft" ELSE task[t]]
  <2>1. task' \in [Tasks -> TaskStates]
    BY <1>1, <1>3, StatesNamed DEF RunTyped
  <2>2. \A t \in Tasks : t \in spawned => sched[t] = "unknown" /\ sched'[t] \in {"pending", "skipped"} /\ task'[t] = "draft"
    BY <1>3 DEF Add
  <2>3. \A t \in Tasks : t \notin spawned => sched'[t] = sched[t] /\ task'[t] = task[t]
    BY <1>3 DEF Add
  <2>4. \A t \in Tasks : t \in spawned => at[t] = "idle"
    BY <1>1, <2>2 DEF CostInv, PhaseOK
  <2>5. ASSUME NEW t \in Tasks
        PROVE  /\ at'[t] = "idle" => \/ sched'[t] = "unknown" /\ task'[t] = "none"
                                     \/ sched'[t] \in {"pending", "skipped"} /\ task'[t] = "draft"
                                     \/ sched'[t] = "skipped" /\ task'[t] = "cancelled"
               /\ at'[t] \notin {"idle", "gone"} => Stands(at'[t], task'[t])
               /\ at'[t] = "gone" => \/ sched'[t] = "completed" /\ task'[t] = "completed"
                                     \/ sched'[t] = "failed" /\ task'[t] \in {"failed", "cancelled", "blocked"}
               /\ t \in integrated' => at'[t] \in {"completed", "gone"} /\ task'[t] = "completed"
    BY <1>1, <2>2, <2>3, <2>4 DEF Placed
  <2> QED BY <2>1, <2>5 DEF Placed
<1> QED BY <1>2, <1>3 DEF AddSpawned

LEMMA WentRunTask ==
  ASSUME RunInv, NEW t \in Tasks, RunTask(t), ~Triage(t), ~LeaveTriage(t)
  PROVE  Went(t) /\ t \notin Waiting
<1>1. Here(t) /\ Offered(t) /\ CostInv /\ Queued
  BY HereAtWork DEF RunInv, SettleInv
<1>2. CASE Begin(t)
  BY <1>1, <1>2, BeginWent DEF Begin, Queued, Triages
<1>3. CASE Dispatch(t) \/ IntegrationDispatch(t)
  BY <1>1, <1>3, DispatchWent DEF Dispatch, IntegrationDispatch, Queued, Triages
<1>4. CASE Report(t)
  BY <1>1, <1>4, ReportWent DEF Report, Queued, Triages
<1>5. CASE Verified(t)
  BY <1>1, <1>5, VerifiedWent DEF Verified, Queued, Triages
<1>6. CASE Reviewed(t)
  BY <1>1, <1>6, ReviewedWent DEF Reviewed, Queued, Triages
<1>7. CASE IntegrationReviewed(t)
  BY <1>1, <1>7, IntegrationReviewedWent DEF IntegrationReviewed, Queued, Triages
<1>8. CASE Decided(t)
  BY <1>1, <1>8, DecidedWent DEF Decided, Queued
<1>9. CASE Replanned(t)
  BY <1>1, <1>9, ReplannedWent DEF Replanned, Queued, Triages
<1> QED BY <1>2, <1>3, <1>4, <1>5, <1>6, <1>7, <1>8, <1>9 DEF RunTask

LEMMA WentKeeps ==
  ASSUME OneReviser, RunInv, NEW t \in Tasks, RunTask(t), ~Triage(t), ~LeaveTriage(t)
  PROVE  SettleInv'
<1>0. Here(t) /\ Offered(t) /\ t \notin integrated /\ Went(t) /\ t \notin Waiting
  BY HereAtWork, WentRunTask
<1>1. UNCHANGED <<sched, run, setup, main>> /\ main # "over"
  BY DEF RunTask, Decided, Replanned, loopVars
<1>2. /\ task' \in [Tasks -> TaskStates] /\ flags' \in [Tasks -> SUBSET Flags] /\ decision' \in [Tasks -> Options]
      /\ turns' \in Seq(Tasks \cup {"main"}) /\ integrated' \subseteq Tasks
      /\ Placed' /\ Deciding' /\ Queued' /\ RunSettled'
      /\ revising'["turn"] = revising["turn"] => TurnHeld'
  BY <1>0, <1>1, WentSettles
<1>3. RunTyped /\ OneAsks
  BY DEF RunInv, SettleInv
<1>4. t # "turn"
  BY NameAssumption
<1>5. /\ plans' \in Seq(PlanStates) /\ revising' \in [Tasks \cup {"turn"} -> Revisions]
      /\ revising'["turn"] = revising["turn"]
      /\ Asking => \A u \in Tasks : revising'[u].step = "none"
  <2>1. CASE UNCHANGED <<plans, revising>>
    BY <1>3, <2>1 DEF RunTyped, OneAsks
  <2>2. CASE decision[t] = "replace" /\ Proposes(t)
    <3>1. t \in setup.unrunnable
      BY <1>0, <2>2 DEF Offered
    <3>2. ~Asking
      BY <1>3, <3>1 DEF RunTyped, OneReviser, Asking
    <3>3. plans' \in Seq(PlanStates) /\ \E r \in Revisions : revising' = [revising EXCEPT ![t] = r]
      BY <1>3, <2>2, ProposesOne
    <3>4. revising' \in [Tasks \cup {"turn"} -> Revisions] /\ revising'["turn"] = revising["turn"]
      BY <1>3, <1>4, <3>3, RevisingOne
    <3> QED BY <3>2, <3>3, <3>4
  <2>3. CASE UNCHANGED plans /\ revising' = [revising EXCEPT ![t] = NoRevision]
    <3>1. /\ revising' \in [Tasks \cup {"turn"} -> Revisions] /\ revising'[t] = NoRevision
          /\ \A v \in (Tasks \cup {"turn"}) \ {t} : revising'[v] = revising[v]
      BY <1>3, <2>3, RevisingOne, NoRevisionOK
    <3> QED BY <1>3, <1>4, <2>3, <3>1, NoRevisionOK DEF RunTyped, OneAsks
  <2>4. CASE Decided(t)
    BY <2>1, <2>2, <2>4 DEF Decided
  <2>5. CASE Replanned(t)
    BY <2>3, <2>5 DEF Replanned
  <2> QED BY <2>1, <2>4, <2>5 DEF RunTask, planVars
<1>6. RunTyped'
  BY <1>1, <1>2, <1>3, <1>5 DEF RunTyped
<1>7. OneAsks'
  BY <1>1, <1>3, <1>5 DEF OneAsks, Asking
<1> QED BY <1>2, <1>5, <1>6, <1>7 DEF SettleInv

LEMMA TriageKeeps ==
  ASSUME RunInv, NEW t \in Tasks, RunTask(t), Triage(t)
  PROVE  SettleInv'
<1>0. RunTyped /\ Placed /\ Deciding /\ Queued /\ OneAsks
  BY DEF RunInv, SettleInv
<1>1. at[t] \in Triages /\ HasTurn(t) /\ decision[t] = "none" /\ main # "over" /\ t # "turn" /\ t # "main"
  BY NameAssumption DEF RunTask, Triage
<1>2. UNCHANGED <<sched, run, turns, task, at, flags, integrated, setup, main>>
  BY DEF RunTask, Triage, loopVars
<1>3. PICK d \in Decisions(t) : decision' = [decision EXCEPT ![t] = d]
  BY DEF Triage
<1>4. /\ d \in Options /\ d # "none" /\ (d = "accept" => at[t] \notin {"produced", "blocker"})
      /\ (d = "review" => at[t] = "produced") /\ (d \in {"waive", "replace"} => at[t] = "unrunnable")
  <2>1. CASE at[t] = "produced"
    BY <2>1 DEF Decisions, Options
  <2>2. CASE at[t] \in {"report", "claimed", "unverified"}
    BY <2>2 DEF Decisions, Options
  <2>3. CASE at[t] = "unrunnable"
    BY <2>3 DEF Decisions, Options
  <2>4. CASE at[t] \in {"unaccepted", "integration"}
    BY <2>4 DEF Decisions, Options
  <2>5. CASE at[t] = "blocker"
    BY <2>5 DEF Decisions, Options
  <2> QED BY <1>1, <2>1, <2>2, <2>3, <2>4, <2>5 DEF Triages
<1>5. decision' \in [Tasks -> Options] /\ decision'[t] = d /\ \A u \in Tasks \ {t} : decision'[u] = decision[u]
  BY <1>0, <1>3, <1>4 DEF RunTyped
<1>6. revising["turn"].step = "none"
  BY <1>1, NoneRevises
<1>7. /\ plans' \in Seq(PlanStates) /\ revising' \in [Tasks \cup {"turn"} -> Revisions]
      /\ revising'["turn"].step \in {"none", "proposed", "refused"} /\ \A u \in Tasks : revising'[u] = revising[u]
  <2>1. CASE UNCHANGED <<plans, revising>>
    BY <1>0, <1>6, <2>1 DEF RunTyped
  <2>2. CASE Proposes("turn")
    <3>1. plans' \in Seq(PlanStates) /\ \E r \in Revisions : r.step \in {"proposed", "refused"} /\ revising' = [revising EXCEPT !["turn"] = r]
      BY <1>0, <2>2, ProposesOne
    <3>2. PICK r \in Revisions : r.step \in {"proposed", "refused"} /\ revising' = [revising EXCEPT !["turn"] = r]
      BY <3>1
    <3>3. /\ revising' \in [Tasks \cup {"turn"} -> Revisions] /\ revising'["turn"] = r
          /\ \A v \in (Tasks \cup {"turn"}) \ {"turn"} : revising'[v] = revising[v]
      BY <1>0, <3>2, RevisingOne
    <3> QED BY <3>1, <3>2, <3>3, NameAssumption
  <2> QED BY <2>1, <2>2 DEF Triage, Spawns
<1>8. RunTyped'
  BY <1>0, <1>2, <1>5, <1>7 DEF RunTyped
<1>9. Placed'
  BY <1>0, <1>2 DEF Placed
<1>10. Deciding'
  BY <1>0, <1>1, <1>2, <1>4, <1>5 DEF Deciding
<1>11. Queued'
  BY <1>0, <1>2 DEF Queued, Waiting, OnceEach, HasTurn
<1>12. TurnHeld'
  BY <1>1, <1>2, <1>4, <1>5 DEF TurnHeld, HasTurn
<1>13. OneAsks'
  BY <1>0, <1>2, <1>6, <1>7 DEF OneAsks, Asking
<1>14. RunSettled'
  BY <1>1, <1>2 DEF RunSettled
<1> QED BY <1>8, <1>9, <1>10, <1>11, <1>12, <1>13, <1>14 DEF SettleInv

\* Whoever had the turn leaves it, and takes its revision along.
LEMMA TurnPasses ==
  ASSUME RunInv, NEW w \in Tasks \cup {"main"}, HasTurn(w), LeaveTurn
  PROVE  /\ turns' \in Seq(Tasks \cup {"main"}) /\ OnceEach' /\ Waiting' \subseteq Waiting \ {w}
         /\ revising' \in [Tasks \cup {"turn"} -> Revisions] /\ revising'["turn"].step = "none"
         /\ \A u \in Tasks : revising'[u] = revising[u]
         /\ revising["turn"].step # "asked"
<1>1. RunTyped /\ OnceEach
  BY DEF RunInv, SettleInv, Queued
<1>2. /\ revising' \in [Tasks \cup {"turn"} -> Revisions] /\ revising'["turn"] = NoRevision
      /\ \A v \in (Tasks \cup {"turn"}) \ {"turn"} : revising'[v] = revising[v]
  BY <1>1, RevisingOne, NoRevisionOK DEF LeaveTurn
<1>3. turns' \in Seq(Tasks \cup {"main"}) /\ OnceEach' /\ Waiting' \subseteq Waiting \ {w}
  BY <1>1, Leaves DEF LeaveTurn
<1>4. revising["turn"].step # "asked"
  BY DEF LeaveTurn, TurnOver
<1> QED BY <1>2, <1>3, <1>4, NoRevisionOK, NameAssumption

LEMMA LeaveTriageKeeps ==
  ASSUME RunInv, NEW t \in Tasks, RunTask(t), LeaveTriage(t)
  PROVE  SettleInv'
<1>0. RunTyped /\ Placed /\ Deciding /\ Queued /\ OneAsks
  BY DEF RunInv, SettleInv
<1>1. at[t] \in Triages /\ HasTurn(t) /\ main # "over" /\ t # "main" /\ LeaveTurn /\ ~Threw("turn")
  BY <1>0, NameAssumption DEF RunTask, LeaveTriage, OneAsks, Threw
<1>2. /\ AddSpawned /\ flags' = [flags EXCEPT ![t] = @ \cup {"answered"}]
      /\ UNCHANGED <<at, decision, run, integrated, plans, setup, main>>
  BY <1>1 DEF RunTask, LeaveTriage, loopVars
<1>3. /\ turns' \in Seq(Tasks \cup {"main"}) /\ OnceEach' /\ Waiting' \subseteq Waiting \ {t}
      /\ revising' \in [Tasks \cup {"turn"} -> Revisions] /\ revising'["turn"].step = "none"
      /\ \A u \in Tasks : revising'[u] = revising[u]
      /\ revising["turn"].step # "asked"
  BY <1>1, TurnPasses
<1>4. task' \in [Tasks -> TaskStates] /\ Placed'
  BY <1>2, AddsPlaced
<1>5. flags' \in [Tasks -> SUBSET Flags] /\ \A u \in Tasks \ {t} : flags'[u] = flags[u]
  BY <1>0, <1>2 DEF RunTyped, Flags
<1>6. RunTyped'
  BY <1>0, <1>2, <1>3, <1>4, <1>5 DEF RunTyped
<1>7. Deciding'
  BY <1>0, <1>1, <1>2, <1>5 DEF Deciding
<1>8. Queued'
  <2>1. main \notin Consulted
    BY <1>0, <1>1 DEF Queued, HasTurn
  <2> QED BY <1>0, <1>2, <1>3, <1>5, <2>1 DEF Queued
<1>9. TurnHeld'
  BY <1>3 DEF TurnHeld
<1>10. OneAsks'
  BY <1>0, <1>2, <1>3 DEF OneAsks, Asking
<1>11. RunSettled'
  BY <1>1, <1>2 DEF RunSettled
<1> QED BY <1>4, <1>6, <1>7, <1>8, <1>9, <1>10, <1>11 DEF SettleInv

\* The task is over, the scheduler is told, and what waits for a failed task is skipped.
LEMMA TaskOverSettles ==
  ASSUME RunInv, NEW t \in Tasks, TaskOver(t), main # "over"
  PROVE  SettleInv'
<1>0. RunTyped /\ Placed /\ Deciding /\ Queued /\ OneAsks /\ TurnHeld /\ PhaseOK /\ at \in [Tasks -> Phases] /\ SchedTypeOK
  BY DEF RunInv, SettleInv, CostInv, TasksTyped
<1>1. /\ at[t] \in {"completed", "failed"} /\ at' = [at EXCEPT ![t] = "gone"] /\ flags' = [flags EXCEPT ![t] = {}]
      /\ UNCHANGED <<setup, run, turns, task, decision, integrated, plans, revising, main>>
  BY DEF TaskOver, planVars, loopVars
<1>2. /\ sched'[t] = at[t] /\ at'[t] = "gone"
      /\ \A u \in Tasks \ {t} : at'[u] = at[u] /\ flags'[u] = flags[u]
                                /\ (sched'[u] = sched[u] \/ (sched[u] = "pending" /\ sched'[u] = "skipped"))
  <2>1. PICK S \in SUBSET In("pending") : sched' = [u \in Tasks |-> IF u = t THEN at[t] ELSE IF u \in S THEN "skipped" ELSE sched[u]]
    BY DEF TaskOver, Finish
  <2> QED BY <1>0, <1>1, <2>1 DEF In, RunTyped
<1>3. RunTyped'
  BY <1>0, <1>1 DEF RunTyped
<1>4. Placed'
  <2>1. ASSUME NEW u \in Tasks \ {t}
        PROVE  /\ at'[u] = "idle" => \/ sched'[u] = "unknown" /\ task'[u] = "none"
                                     \/ sched'[u] \in {"pending", "skipped"} /\ task'[u] = "draft"
                                     \/ sched'[u] = "skipped" /\ task'[u] = "cancelled"
               /\ at'[u] \notin {"idle", "gone"} => Stands(at'[u], task'[u])
               /\ at'[u] = "gone" => \/ sched'[u] = "completed" /\ task'[u] = "completed"
                                     \/ sched'[u] = "failed" /\ task'[u] \in {"failed", "cancelled", "blocked"}
               /\ u \in integrated' => at'[u] \in {"completed", "gone"} /\ task'[u] = "completed"
    BY <1>0, <1>1, <1>2 DEF Placed
  <2>2. \/ sched'[t] = "completed" /\ task'[t] = "completed"
        \/ sched'[t] = "failed" /\ task'[t] \in {"failed", "cancelled", "blocked"}
    BY <1>0, <1>1, <1>2 DEF Placed, Stands
  <2>3. t \in integrated' => task'[t] = "completed"
    BY <1>0, <1>1 DEF Placed
  <2> QED BY <1>2, <2>1, <2>2, <2>3 DEF Placed
<1>5. flags'[t] = {} /\ at[t] \notin Triages
  BY <1>0, <1>1 DEF RunTyped, Triages
<1>6. Deciding'
  BY <1>0, <1>1, <1>2, <1>5 DEF Deciding
<1>7. Queued'
  BY <1>0, <1>1, <1>2, <1>5 DEF Queued, Waiting, OnceEach, HasTurn
<1>8. TurnHeld' /\ OneAsks' /\ RunSettled'
  BY <1>0, <1>1 DEF TurnHeld, OneAsks, RunSettled, HasTurn, Asking
<1> QED BY <1>3, <1>4, <1>6, <1>7, <1>8 DEF SettleInv

LEMMA RevisionKeeps ==
  ASSUME RunInv, NEW w \in Tasks \cup {"turn"}, Revises(w)
  PROVE  SettleInv'
<1>0. RunTyped /\ Placed /\ Deciding /\ Queued /\ OneAsks /\ TurnHeld
  BY DEF RunInv, SettleInv
<1>1. /\ UNCHANGED <<sched, setup, turns, task, at, flags, decision, integrated, main>> /\ main # "over" /\ Revision(w)
  BY DEF Revises, taskVars, loopVars
<1>2. Asking => w = "turn"
  <2>1. revising[w].step # "none"
    BY <1>1 DEF Revision, AskRun, Answered, Supersede, Approve
  <2> QED BY <1>0, <2>1 DEF OneAsks
<1>3. /\ Asking => /\ revising["turn"].step = "proposed" => run = "running"
                   /\ revising["turn"].step = "asked" => run = "waiting_for_approval"
      /\ ~Asking => run = "running"
      /\ revising["turn"].step \notin {"asked"} => run = "running"
  BY <1>0, <1>1 DEF OneAsks
<1> DEFINE Outcome(step) ==
      /\ Steps(w, step)
      /\ step \in {"proposed", "refused", "asked", "approved", "superseded", "accepted"}
      /\ run' = IF Asking /\ step = "asked" THEN "waiting_for_approval" ELSE IF Asking THEN "running" ELSE run
<1>4. plans' \in Seq(PlanStates) /\ \E step : Outcome(step)
  <2>0. plans \in Seq(PlanStates)
    BY <1>0 DEF RunTyped
  <2>1. CASE AskRun(w)
    <3>1. Outcome("asked")
      <4>1. CASE Asking
        <5>1. MoveRun(w, "waiting_for_approval", "asked") /\ run = "running"
          BY <1>2, <1>3, <2>1, <4>1 DEF AskRun
        <5> QED BY <4>1, <5>1, RunTable DEF MoveRun
      <4>2. CASE ~Asking
        BY <2>1, <4>2 DEF AskRun
      <4> QED BY <4>1, <4>2
    <3> QED BY <2>0, <2>1, <3>1 DEF AskRun
  <2>2. CASE Answered(w)
    <3>1. PICK approved \in BOOLEAN :
             LET next == IF approved THEN "approved" ELSE "refused"
             IN /\ IF Asking THEN MoveRun(w, "running", next) ELSE Steps(w, next) /\ UNCHANGED run
                /\ plans' = IF approved \/ revising'[w].step = "threw" THEN plans
                            ELSE [plans EXCEPT ![revising[w].plan] = "rejected"]
      BY <2>2 DEF Answered
    <3> DEFINE next == IF approved THEN "approved" ELSE "refused"
    <3>2. Outcome(next)
      <4>1. CASE Asking
        <5>1. MoveRun(w, "running", next) /\ run = "waiting_for_approval"
          BY <1>2, <1>3, <2>2, <3>1, <4>1 DEF Answered
        <5> QED BY <4>1, <5>1, RunTable DEF MoveRun
      <4>2. CASE ~Asking
        BY <3>1, <4>2
      <4> QED BY <4>1, <4>2
    <3>3. plans' \in Seq(PlanStates)
      BY <2>0, <3>1, PlansChange DEF PlanStates
    <3> QED BY <3>2, <3>3
  <2>3. CASE Supersede(w)
    <3>1. Outcome("superseded") /\ plans' = [plans EXCEPT ![approvedPlan] = "superseded"]
      BY <1>2, <1>3, <2>3 DEF Supersede
    <3>2. plans' \in Seq(PlanStates)
      BY <2>0, <3>1, PlansChange DEF PlanStates
    <3> QED BY <3>1, <3>2
  <2>4. CASE Approve(w)
    <3>1. Outcome("accepted") /\ plans' = [plans EXCEPT ![revising[w].plan] = "approved"]
      BY <1>2, <1>3, <2>4 DEF Approve
    <3>2. plans' \in Seq(PlanStates)
      BY <2>0, <3>1, PlansChange DEF PlanStates
    <3> QED BY <3>1, <3>2
  <2> QED BY <1>1, <2>1, <2>2, <2>3, <2>4 DEF Revision
<1>5. PICK step : Outcome(step)
  BY <1>4
<1>6. PICK r \in Revisions : r.step = step /\ revising' = [revising EXCEPT ![w] = r]
  BY <1>0, <1>5, StepsOne
<1>7. /\ revising' \in [Tasks \cup {"turn"} -> Revisions] /\ revising'[w] = r
      /\ \A v \in (Tasks \cup {"turn"}) \ {w} : revising'[v] = revising[v]
  BY <1>0, <1>6, RevisingOne
<1>8. RunTyped'
  BY <1>0, <1>1, <1>4, <1>7 DEF RunTyped
<1>9. Placed' /\ Deciding'
  BY <1>0, <1>1 DEF Placed, Deciding
<1>10. Queued'
  BY <1>0, <1>1 DEF Queued, Waiting, OnceEach, HasTurn
<1>11. TurnHeld'
  <2>1. revising'["turn"].step # "none" => revising["turn"].step # "none"
    BY <1>1, <1>7 DEF Revision, AskRun, Answered, Supersede, Approve
  <2> QED BY <1>0, <1>1, <2>1 DEF TurnHeld, HasTurn
<1>12. OneAsks'
  <2>1. revising'["turn"].step # "threw"
    BY <1>0, <1>5, <1>6, <1>7 DEF OneAsks
  <2>2. Asking' <=> Asking
    BY <1>1 DEF Asking
  <2>3. Asking => \A t \in Tasks : revising'[t].step = "none"
    BY <1>0, <1>2, <1>7, NameAssumption DEF OneAsks
  <2>4. run' = IF Asking /\ revising'["turn"].step = "asked" THEN "waiting_for_approval" ELSE "running"
    BY <1>2, <1>3, <1>5, <1>6, <1>7
  <2> QED BY <2>1, <2>2, <2>3, <2>4 DEF OneAsks
<1>13. RunSettled'
  BY <1>1 DEF RunSettled
<1> QED BY <1>8, <1>9, <1>10, <1>11, <1>12, <1>13 DEF SettleInv

LEMMA StartsSettle ==
  ASSUME RunInv, Starts, UNCHANGED <<setup, run, turns, task, flags, decision, integrated, plans, revising>>, main \notin Consulting,
         main # "over"
  PROVE  SettleInv'
<1>0. RunTyped /\ Placed /\ Deciding /\ Queued /\ OneAsks /\ TurnHeld /\ PhaseOK /\ OnceEach
  BY DEF RunInv, SettleInv, CostInv, Queued
<1>1. PICK S \in SUBSET Ready : StartAll(S) /\ at' = [t \in Tasks |-> IF t \in S THEN "begin" ELSE at[t]]
  BY StartsSome
<1>2. S \subseteq Tasks /\ \A t \in S : sched[t] = "pending"
  BY ReadyTasks
<1>3. \A t \in Tasks : /\ t \in S => sched'[t] = "running" /\ at'[t] = "begin" /\ at[t] = "idle" /\ task[t] = "draft"
                       /\ t \notin S => sched'[t] = sched[t] /\ at'[t] = at[t]
  <2>1. \A t \in S : at[t] = "idle"
    BY <1>0, <1>2 DEF PhaseOK
  <2>2. \A t \in S : task[t] = "draft"
    BY <1>0, <1>2, <2>1 DEF Placed
  <2> QED BY <1>1, <1>2, <2>1, <2>2 DEF StartAll
<1>4. RunTyped'
  BY <1>0 DEF RunTyped
<1>5. Placed'
  BY <1>0, <1>3 DEF Placed, Stands
<1>6. "idle" \notin Triages \cup {"replan", "completed", "failed"} /\ "idle" # "unrunnable"
  BY DEF Triages
<1>7. Deciding'
  BY <1>0, <1>3, <1>6 DEF Deciding
<1>8. main' \in {"after", "race"}
  BY DEF Starts
<1>9. Queued'
  BY <1>0, <1>3, <1>6, <1>8 DEF Queued, Waiting, OnceEach, HasTurn, Consulted, Consulting
<1>10. TurnHeld'
  BY <1>0, <1>8 DEF TurnHeld, HasTurn, Consulted, Consulting
<1>11. OneAsks' /\ RunSettled'
  BY <1>0, <1>8 DEF OneAsks, Asking, RunSettled
<1> QED BY <1>4, <1>5, <1>7, <1>9, <1>10, <1>11 DEF SettleInv

\* The loop of the run moves, and nothing else but perhaps the queue.
LEMMA MainSettles ==
  ASSUME RunInv, UNCHANGED <<setup, task, at, flags, decision, plans, revising, integrated, sched, run>>,
         main \notin Consulting, main # "over", main' # "over",
         \/ UNCHANGED turns /\ main' \notin Consulting
         \/ main' \in {"consult", "lastConsult"} /\ turns' = Append(turns, "main")
  PROVE  SettleInv'
<1>0. RunTyped /\ Placed /\ Deciding /\ Queued /\ OneAsks /\ TurnHeld /\ OnceEach
  BY DEF RunInv, SettleInv, Queued
<1>1. "main" \notin Waiting /\ main' \notin Consulted /\ main \notin Consulted
  BY <1>0 DEF Queued, Consulting, Consulted
<1>2. turns' \in Seq(Tasks \cup {"main"}) /\ Queued' /\ \A v : HasTurn(v) => HasTurn(v)'
  <2>1. CASE UNCHANGED turns /\ main' \notin Consulting
    BY <1>0, <1>1, <2>1 DEF Queued, RunTyped, Waiting, OnceEach, HasTurn
  <2>2. CASE main' \in {"consult", "lastConsult"} /\ turns' = Append(turns, "main")
    <3>1. /\ turns' \in Seq(Tasks \cup {"main"}) /\ OnceEach' /\ Waiting' = Waiting \cup {"main"}
          /\ \A v : HasTurn(v) => HasTurn(v)'
      BY <1>0, <1>1, <2>2, Joins
    <3> QED BY <1>0, <1>1, <2>2, <3>1, NameAssumption DEF Queued, Consulting
  <2> QED BY <2>1, <2>2
<1>3. RunTyped'
  BY <1>0, <1>2 DEF RunTyped
<1>4. Placed' /\ Deciding' /\ OneAsks' /\ RunSettled'
  BY <1>0 DEF Placed, Deciding, OneAsks, Asking, RunSettled
<1>5. TurnHeld'
  BY <1>0, <1>1, <1>2 DEF TurnHeld
<1> QED BY <1>2, <1>3, <1>4, <1>5 DEF SettleInv

LEMMA ConsultKeeps ==
  ASSUME RunInv, Consult
  PROVE  SettleInv'
<1>0. RunTyped /\ Placed /\ Deciding /\ Queued /\ OneAsks
  BY DEF RunInv, SettleInv
<1>1. /\ HasTurn("main") /\ main \in {"consult", "lastConsult"} /\ main' \in Consulted
      /\ UNCHANGED <<sched, setup, run, turns, task, at, flags, decision, integrated>>
  BY DEF Consult, Consulted, taskVars
<1>2. revising["turn"].step = "none"
  BY <1>1, NoneRevises DEF Consulted
<1>3. /\ plans' \in Seq(PlanStates) /\ revising' \in [Tasks \cup {"turn"} -> Revisions]
      /\ revising'["turn"].step \in {"none", "proposed", "refused"} /\ \A u \in Tasks : revising'[u] = revising[u]
  <2>1. CASE UNCHANGED <<plans, revising>>
    BY <1>0, <1>2, <2>1 DEF RunTyped
  <2>2. CASE Proposes("turn")
    <3>1. plans' \in Seq(PlanStates) /\ \E r \in Revisions : r.step \in {"proposed", "refused"} /\ revising' = [revising EXCEPT !["turn"] = r]
      BY <1>0, <2>2, ProposesOne
    <3>2. PICK r \in Revisions : r.step \in {"proposed", "refused"} /\ revising' = [revising EXCEPT !["turn"] = r]
      BY <3>1
    <3>3. /\ revising' \in [Tasks \cup {"turn"} -> Revisions] /\ revising'["turn"] = r
          /\ \A v \in (Tasks \cup {"turn"}) \ {"turn"} : revising'[v] = revising[v]
      BY <1>0, <3>2, RevisingOne
    <3> QED BY <3>1, <3>2, <3>3, NameAssumption
  <2> QED BY <2>1, <2>2 DEF Consult
<1>4. RunTyped'
  BY <1>0, <1>1, <1>3 DEF RunTyped
<1>5. Placed' /\ Deciding'
  BY <1>0, <1>1 DEF Placed, Deciding
<1>6. Queued'
  BY <1>0, <1>1 DEF Queued, Waiting, OnceEach, HasTurn, Consulted, Consulting
<1>7. TurnHeld'
  BY <1>1 DEF TurnHeld
<1>8. OneAsks' /\ RunSettled'
  BY <1>0, <1>1, <1>2, <1>3 DEF OneAsks, Asking, RunSettled, Consulted
<1> QED BY <1>4, <1>5, <1>6, <1>7, <1>8 DEF SettleInv

LEMMA LeaveConsultKeeps ==
  ASSUME RunInv, LeaveConsult
  PROVE  SettleInv'
<1>0. RunTyped /\ Placed /\ Deciding /\ Queued /\ OneAsks
  BY DEF RunInv, SettleInv
<1>1. HasTurn("main") /\ main \in Consulted /\ LeaveTurn /\ ~Threw("turn")
  BY <1>0 DEF LeaveConsult, Queued, Consulted, OneAsks, Threw
<1>2. /\ AddSpawned /\ main' \in {"start", "drain", "loop"} /\ main # "over"
      /\ UNCHANGED <<at, flags, decision, run, integrated, plans, setup>>
  BY <1>1 DEF LeaveConsult, Consulted
<1>3. /\ turns' \in Seq(Tasks \cup {"main"}) /\ OnceEach' /\ Waiting' \subseteq Waiting \ {"main"}
      /\ revising' \in [Tasks \cup {"turn"} -> Revisions] /\ revising'["turn"].step = "none"
      /\ \A u \in Tasks : revising'[u] = revising[u]
      /\ revising["turn"].step # "asked"
  BY <1>1, TurnPasses
<1>4. task' \in [Tasks -> TaskStates] /\ Placed'
  BY <1>2, AddsPlaced
<1>5. RunTyped'
  BY <1>0, <1>2, <1>3, <1>4 DEF RunTyped
<1>6. Deciding'
  BY <1>0, <1>2 DEF Deciding
<1>7. Queued'
  BY <1>0, <1>2, <1>3 DEF Queued, Consulted
<1>8. TurnHeld'
  BY <1>3 DEF TurnHeld
<1>9. OneAsks' /\ RunSettled'
  BY <1>0, <1>2, <1>3 DEF OneAsks, Asking, RunSettled
<1> QED BY <1>4, <1>5, <1>6, <1>7, <1>8, <1>9 DEF SettleInv

\* Nothing is in flight, so nobody has the turn or waits for it, and no revision is under way.
LEMMA DrainKeeps ==
  ASSUME RunInv, Drain
  PROVE  SettleInv'
<1>0. RunTyped /\ Placed /\ Deciding /\ Queued /\ OneAsks /\ TurnHeld /\ PhaseOK /\ SchedTypeOK /\ at \in [Tasks -> Phases]
  BY DEF RunInv, SettleInv, CostInv, TasksTyped
<1>1. /\ main = "drain" /\ main' = "over" /\ SkipPending /\ UNCHANGED <<setup, turns, at, flags, decision, integrated, plans, revising>>
      /\ task' = [t \in Tasks |-> IF sched[t] = "pending" /\ ~State!Terminal("task", task[t]) THEN "cancelled" ELSE task[t]]
  BY DEF Drain, Ends, planVars
<1>2. \A t \in Tasks : at[t] \in {"idle", "gone"}
  BY DEF Drain, Inflight
<1>3. turns = <<>>
  <2>1. Waiting \cap Tasks = {}
    BY <1>0, <1>2 DEF Queued, Triages
  <2>2. "main" \notin Waiting
    BY <1>0, <1>1 DEF Queued, Consulting
  <2>3. Waiting \subseteq Tasks \cup {"main"}
    BY <1>0 DEF RunTyped, Waiting
  <2> QED BY <1>0, <2>1, <2>2, <2>3, NobodyWaits
<1>4. revising["turn"].step = "none" /\ run = "running"
  <2>1. \A w : ~HasTurn(w)
    BY <1>3 DEF HasTurn
  <2>2. revising["turn"].step = "none"
    BY <1>0, <1>1, <2>1 DEF TurnHeld, Consulted
  <2> QED BY <1>0, <1>1, <2>2 DEF OneAsks
<1>5. PICK to \in {"completed", "failed", "cancelled"} :
        run' = to /\ (to = "completed" => \A t \in Known : task'[t] = "completed")
  <2> DEFINE to == CASE aborted -> "cancelled"
                     [] ~aborted /\ budgetStop -> "failed"
                     [] OTHER -> IF \A t \in Known : task'[t] = "completed" THEN "completed" ELSE "failed"
  <2>1. to \in {"completed", "failed", "cancelled"} /\ (to = "completed" => \A t \in Known : task'[t] = "completed")
    OBVIOUS
  <2>2. Ends(to)
    BY DEF Drain
  <2> HIDE DEF to
  <2>3. run' = to
    BY <1>4, <2>1, <2>2, RunTable DEF Ends
  <2> QED BY <2>1, <2>3
<1>6. \A t \in Tasks : sched'[t] = IF sched[t] = "pending" THEN "skipped" ELSE sched[t]
  BY <1>1 DEF SkipPending
<1>7. \A t \in Tasks : /\ sched[t] = "pending" => at[t] = "idle" /\ task'[t] = "cancelled"
                       /\ sched[t] # "pending" => task'[t] = task[t]
  <2>1. ASSUME NEW t \in Tasks, sched[t] = "pending" PROVE at[t] = "idle" /\ task[t] = "draft"
    BY <1>0, <1>2, <2>1 DEF PhaseOK, Placed
  <2> QED BY <1>1, <2>1, PendingIsDraft
<1>8. Placed'
  BY <1>0, <1>1, <1>6, <1>7 DEF Placed
<1>9. RunTyped'
  BY <1>0, <1>1, StatesNamed DEF RunTyped
<1>10. Deciding'
  BY <1>0, <1>1 DEF Deciding
<1>11. Queued'
  BY <1>0, <1>1 DEF Queued, Waiting, OnceEach, HasTurn, Consulting, Consulted
<1>12. TurnHeld' /\ OneAsks'
  BY <1>0, <1>1, <1>4 DEF TurnHeld, OneAsks, Asking
<1>13. RunSettled'
  <2>1. State!Terminal("run", run')
    BY <1>5, RunTable
  <2>2. Inflight' = {}
    BY <1>1, <1>2 DEF Inflight
  <2>3. Known' = Known
    BY <1>6 DEF Known
  <2>4. ASSUME NEW t \in Known
        PROVE  /\ \/ task'[t] \in {"completed", "cancelled", "failed", "blocked"}
                  \/ task'[t] = "draft" /\ sched'[t] = "skipped"
               /\ (task'[t] = "completed") = (sched'[t] = "completed")
               /\ t \in integrated' => task'[t] = "completed"
    <3>1. t \in Tasks /\ sched[t] # "unknown"
      BY DEF Known
    <3>2. CASE at[t] = "idle"
      BY <1>0, <1>1, <1>6, <1>7, <3>1, <3>2 DEF Placed
    <3>3. CASE at[t] = "gone"
      BY <1>0, <1>1, <1>6, <1>7, <3>1, <3>3 DEF Placed
    <3> QED BY <1>2, <3>1, <3>2, <3>3
  <2>5. turns' = <<>> /\ (run' = "completed" => \A t \in Known : task'[t] = "completed")
    BY <1>1, <1>3, <1>5
  <2> QED BY <2>1, <2>2, <2>3, <2>4, <2>5 DEF RunSettled
<1> QED BY <1>8, <1>9, <1>10, <1>11, <1>12, <1>13 DEF SettleInv

LEMMA InitSettles == Init => SettleInv
<1> SUFFICES ASSUME Init PROVE SettleInv
  OBVIOUS
<1>1. /\ setup \in Setups /\ run = "running" /\ plans = <<"approved">> /\ turns = <<>> /\ main = "loop" /\ integrated = {}
      /\ revising = [w \in Tasks \cup {"turn"} |-> NoRevision]
      /\ task = [t \in Tasks |-> IF t \in Planned THEN "draft" ELSE "none"]
      /\ at = [t \in Tasks |-> "idle"] /\ flags = [t \in Tasks |-> {}] /\ decision = [t \in Tasks |-> "none"]
      /\ sched = [t \in Tasks |-> IF t \in Planned THEN "pending" ELSE "unknown"]
  BY DEF Init, SchedInit
<1>2. "none" \in Options /\ "approved" \in PlanStates /\ "idle" \notin Triages \cup {"replan"}
  BY DEF Options, PlanStates, Triages
<1>3. RunTyped
  <2>1. plans \in Seq(PlanStates)
    BY <1>1, <1>2
  <2>2. turns \in Seq(Tasks \cup {"main"})
    BY <1>1
  <2> QED BY <1>1, <1>2, <2>1, <2>2, NoRevisionOK, StatesNamed DEF RunTyped
<1>4. Placed
  BY <1>1 DEF Placed
<1>5. Deciding
  BY <1>1, <1>2 DEF Deciding, Triages
<1>6. Queued
  BY <1>1 DEF Queued, Waiting, OnceEach, Consulted
<1>7. TurnHeld /\ OneAsks
  BY <1>1, NoRevisionOK DEF TurnHeld, OneAsks
<1>8. RunSettled
  BY <1>1 DEF RunSettled
<1> QED BY <1>3, <1>4, <1>5, <1>6, <1>7, <1>8 DEF SettleInv

LEMMA NextSettles ==
  ASSUME OneReviser, RunInv, [Next]_vars
  PROVE  SettleInv'
<1>1. ASSUME NEW t \in Tasks, RunTask(t) PROVE SettleInv'
  BY <1>1, WentKeeps, TriageKeeps, LeaveTriageKeeps
<1>2. ASSUME NEW t \in Tasks, main # "over" /\ TaskOver(t) PROVE SettleInv'
  BY <1>2, TaskOverSettles
<1>3. ASSUME NEW w \in Tasks \cup {"turn"}, Revises(w) PROVE SettleInv'
  BY <1>3, RevisionKeeps
<1>4. CASE Loop
  <2>0. main \notin Consulting /\ main # "over" /\ UNCHANGED <<setup, run, task, flags, decision, integrated, plans, revising>>
    BY <1>4 DEF Loop, Consulting, planVars
  <2>1. CASE Starts /\ UNCHANGED turns
    BY <2>0, <2>1, StartsSettle
  <2>2. CASE UNCHANGED <<sched, at, turns>> /\ main' = "after"
    <3>1. main' \notin Consulting /\ main' # "over"
      BY <2>2 DEF Consulting
    <3> QED BY <2>0, <2>2, <3>1, MainSettles
  <2>3. CASE UNCHANGED <<sched, at>> /\ TakesTurn("consult")
    <3>1. main' \in {"consult", "lastConsult"} /\ turns' = Append(turns, "main") /\ main' # "over"
      BY <2>3 DEF TakesTurn
    <3> QED BY <2>0, <2>3, <3>1, MainSettles
  <2> QED BY <1>4, <2>1, <2>2, <2>3 DEF Loop
<1>5. CASE StartAfterTurn
  <2>1. /\ main \notin Consulting /\ main # "over" /\ Starts
        /\ UNCHANGED <<setup, run, turns, task, flags, decision, integrated, plans, revising>>
    BY <1>5 DEF StartAfterTurn, Consulting, planVars
  <2> QED BY <2>1, StartsSettle
<1>6. CASE Race
  <2>1. /\ main \notin Consulting /\ main # "over" /\ main' # "over" /\ main' \notin Consulting
        /\ UNCHANGED <<setup, run, turns, task, at, flags, decision, integrated, plans, revising, sched>>
    BY <1>6 DEF Race, Consulting, planVars, taskVars
  <2> QED BY <2>1, MainSettles
<1>7. CASE After
  <2>1. /\ main \notin Consulting /\ main # "over"
        /\ UNCHANGED <<setup, run, task, at, flags, decision, integrated, plans, revising, sched>>
    BY <1>7 DEF After, Consulting, planVars, taskVars
  <2>2. \/ UNCHANGED turns /\ main' = "drain"
        \/ main' = "lastConsult" /\ turns' = Append(turns, "main")
    BY <1>7 DEF After, TakesTurn
  <2>3. /\ main' # "over"
        /\ \/ UNCHANGED turns /\ main' \notin Consulting
           \/ main' \in {"consult", "lastConsult"} /\ turns' = Append(turns, "main")
    BY <2>2 DEF Consulting
  <2> QED BY <2>1, <2>3, MainSettles
<1>8. CASE Consult
  BY <1>8, ConsultKeeps
<1>9. CASE LeaveConsult
  BY <1>9, LeaveConsultKeeps
<1>10. CASE Drain
  BY <1>10, DrainKeeps
<1>11. CASE Steer \/ Interrupt \/ Exhaust \/ (\E t \in Tasks : CancelWorker(t)) \/ UNCHANGED vars
  <2>1. UNCHANGED <<setup, task, at, flags, decision, turns, plans, revising, integrated, sched, run, main>>
    BY <1>11 DEF Steer, Interrupt, Exhaust, CancelWorker, vars, taskVars, planVars, loopVars
  <2> QED BY <2>1, StaysSettled
<1> QED BY <1>1, <1>2, <1>3, <1>4, <1>5, <1>6, <1>7, <1>8, <1>9, <1>10, <1>11 DEF Next, Harness

\* A run that is over has settled everything it began: the run is in an end
\* state, nothing is in flight or waits for the orchestrator, the log and the
\* scheduler agree on what has completed, and only that is in the main tree,
\* whatever tasks, orchestrator, budget and user did, and in whatever order
\* (coordinator.ts:1747-1834).  It is assumed that the run does not both ask the
\* user and meet with a verification that cannot be run: otherwise a revision
\* of the plan may fail in the middle of the loop, and the run with it.
THEOREM RunEndsSettled == OneReviser /\ Spec => []RunSettled
<1>1. Init => SettleInv
  BY InitSettles
<1>2. OneReviser /\ SpawnedOK /\ SchedTypeOK /\ CostInv /\ SettleInv /\ [Next]_vars => SettleInv'
  BY NextSettles DEF RunInv
<1>3. SettleInv => RunSettled
  BY DEF SettleInv
<1>4. Spec => []SchedTypeOK
  BY RunSchedules, SchedulerTypes, PTL
<1>5. ASSUME OneReviser PROVE Spec => []RunSettled
  <2>1. SpawnedOK /\ SchedTypeOK /\ CostInv /\ SettleInv /\ [Next]_vars => SettleInv'
    BY <1>2, <1>5
  <2> QED BY <1>1, <1>3, <1>4, <2>1, CostInductive, SpawnedKnown, PTL DEF Spec
<1> QED BY <1>5
=============================================================================
