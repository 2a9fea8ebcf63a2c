---------------------------- MODULE Coordinator ----------------------------
(***************************************************************************)
(* A run after its plan is approved (orchestration/coordinator.ts): the    *)
(* loop that starts the tasks of the plan, what becomes of each task       *)
(* (runTask, runIntegrationReview), the turns of the orchestrator that     *)
(* tasks and the loop wait for one another in, the revisions of the plan,  *)
(* and the user, who steers, cancels a worker or interrupts the run.       *)
(*                                                                         *)
(* One action is one stretch of code between two awaits that matter: the   *)
(* end of an attempt, of a verification or a review, the orchestrator's    *)
(* turn, a plan approval.  A failing step of the harness (a revert, a      *)
(* dispose) throws out of runTask.  at[t] is where runTask(t) stands;      *)
(* task[t] is entry.state, which is also what the log says.                *)
(***************************************************************************)
EXTENDS Scheduler, Sequences

CONSTANTS
  Kind,              \* "work", "config" (reviewer of one task), "integration"
  Writing,           \* the tasks that own paths
  Risk,              \* "trivial", "standard", "high-risk"
  Setups,            \* the policy mode; how an attempt of each task may end; the tasks whose
                     \* verification may turn out unrunnable; bounds: the tasks the orchestrator
                     \* may add, and those for which the harness or the review may meet with
                     \* anything but success
  Proportional,      \* limits.review is not "always"
  TriageRetries, ReviewRevisions, MaxRepackages, MaxReviewAttempts, MaxSpawnedTasks,
  MaxPlans,          \* bound: versions of the plan
  MaxEvents          \* bound: what the user and the clock do to the run

ASSUME BudgetAssumption == {TriageRetries, ReviewRevisions, MaxRepackages} \subseteq Nat
\* What else may have the orchestrator's turn, or revise the plan, is not a task.
ASSUME NameAssumption == {"main", "turn"} \cap Tasks = {}

State == INSTANCE SessionState WITH Ids <- [m \in {} |-> {}], Absent <- "none"

VARIABLES
  setup,
  run,            \* runState
  plans,          \* the recorded state of each version of the plan
  approvedPlan,   \* the version in force
  revising,       \* approveRevision: of the orchestrator's turn, and of each task's reviseVerification
  turns,          \* orchestratorQueue: who has the turn, and who waits for it
  spawned,        \* the tasks spawned in this turn
  steering,       \* messages queued for the orchestrator
  events,         \* what the user and the clock have done so far
  main,           \* where the run's loop stands
  raced,          \* inflight, when the loop began to wait
  budgetStop,
  task, at,
  count,          \* retries, revisions, repackages; reviews of this artifact; worker attempts so far
  flags,          \* what runTask remembers of this attempt
  decision,       \* of the task's triage
  userCancelled,  \* the tasks whose attempt the user cancelled
  integrated,     \* the tasks whose change is in the main tree
  aborted,        \* signal.aborted
  exhausted       \* ~budget.exhausted().ok

taskVars == <<task, at, count, flags, decision, userCancelled, integrated>>
planVars == <<plans, approvedPlan, revising, spawned>>
loopVars == <<main, raced, budgetStop>>
userVars == <<steering, events, aborted, exhausted>>
vars == <<sched, setup, run, turns, taskVars, planVars, loopVars, userVars>>

MayFail(t) == t \in setup.troubled

Known == {t \in Tasks : sched[t] # "unknown"}
Inflight == {t \in Tasks : at[t] \notin {"idle", "gone"}}
NoRevision == [step |-> "none", plan |-> 0]
NoCount == [retry |-> 0, revise |-> 0, repack |-> 0, review |-> 0, run |-> 0]
Triages == {"report", "claimed", "produced", "unverified", "unrunnable", "unaccepted", "blocker", "integration"}

Init ==
  /\ SchedInit /\ setup \in Setups /\ run = "running"
  /\ plans = <<"approved">> /\ approvedPlan = 1 /\ spawned = {}
  /\ revising = [w \in Tasks \cup {"turn"} |-> NoRevision]
  /\ turns = <<>> /\ steering = 0 /\ events = 0
  /\ main = "loop" /\ raced = {} /\ budgetStop = FALSE
  /\ task = [t \in Tasks |-> IF t \in Planned THEN "draft" ELSE "none"]
  /\ at = [t \in Tasks |-> "idle"] /\ count = [t \in Tasks |-> NoCount]
  /\ flags = [t \in Tasks |-> {}] /\ decision = [t \in Tasks |-> "none"]
  /\ userCancelled = {} /\ integrated = {}
  /\ aborted = FALSE /\ exhausted = FALSE

----------------------------------------------------------------------------
(* What the steps of runTask are made of *)

LegalPath(from, path) ==
  \A i \in DOMAIN path : State!Legal("task", IF i = 1 THEN from ELSE path[i - 1], path[i])

\* Mutated: only the move to failed is tried.
Caught_FailedOnly(from) == IF State!Legal("task", from, "failed") THEN "failed" ELSE from

\* The catch of the loop: failed, else cancelled, else the task stays as it is.
Caught(from) ==
  IF State!Legal("task", from, "failed") THEN "failed"
  ELSE IF State!Legal("task", from, "cancelled") THEN "cancelled" ELSE from

ThrowsIn(t, from) ==
  /\ task' = [task EXCEPT ![t] = Caught(from)]
  /\ at' = [at EXCEPT ![t] = "failed"]

\* The moves of one stretch of code; move() throws on one the table does not have.
Goes(t, path, next) ==
  IF LegalPath(task[t], path)
  THEN /\ task' = [task EXCEPT ![t] = IF path = <<>> THEN @ ELSE path[Len(path)]]
       /\ at' = [at EXCEPT ![t] = next]
  ELSE ThrowsIn(t, task[t])

Counted(t, c) == count' = [count EXCEPT ![t][c] = @ + 1]

\* The next artifact's reviews are counted from the start.
Spent(t, retries, revisions) ==
  count' = [count EXCEPT ![t] = [retry |-> @.retry + retries, revise |-> @.revise + revisions,
                                 repack |-> @.repack, review |-> 0, run |-> @.run]]

\* The attempt is taken back and another one is due.  Reverting it or disposing
\* of its workspace may throw, in the state the task has then.
Again(t, path, then) ==
  /\ \/ Goes(t, path, "loop")
     \/ MayFail(t) /\ ThrowsIn(t, then)
  /\ flags' = [flags EXCEPT ![t] = {}]

RetryOrFail(t) ==
  IF count[t].retry < TriageRetries
  THEN /\ Again(t, <<"failed", "retry_pending", "ready">>, "failed")
       /\ Spent(t, 1, 0)
  ELSE Goes(t, <<"failed">>, "failed") /\ UNCHANGED <<count, flags>>

\* Mutated: the revision is not counted.
Revise_Uncounted(t, retries) ==
  /\ Again(t, <<"changes_requested", "ready">>, "changes_requested")
  /\ Spent(t, retries, 0)

Revise(t, retries) ==
  /\ Again(t, <<"changes_requested", "ready">>, "changes_requested")
  /\ Spent(t, retries, 1)

\* integrate(pinned artifact): a change of a read-only task is nothing to integrate.
Integrate(t) ==
  /\ \/ Goes(t, <<"completed">>, "completed") /\ integrated' = integrated \cup ({t} \cap Writing)
     \/ MayFail(t) /\ Goes(t, <<"failed">>, "failed") /\ UNCHANGED integrated
  /\ UNCHANGED <<count, flags>>

\* triageReport: the task waits for a turn of the orchestrator.
Asks(t, path, why) ==
  /\ Goes(t, path, why)
  /\ turns' = Append(turns, t)

----------------------------------------------------------------------------
(* runTask *)

Begin(t) ==
  /\ at[t] = "begin"
  /\ IF Kind[t] = "config"
     THEN Goes(t, <<"ready", "running", "verifying", "completed">>, "completed")
     ELSE Goes(t, <<"ready">>, "loop")
  /\ UNCHANGED <<turns, count, flags, decision, userCancelled, integrated>>

\* A provider the user allows to be replaced changes nothing here.
Dispatch(t) ==
  /\ at[t] = "loop" /\ Kind[t] = "work"
  /\ IF aborted \/ exhausted
     THEN Goes(t, <<"cancelled">>, "failed") /\ UNCHANGED <<count, userCancelled>>
     ELSE \/ /\ Goes(t, <<"running">>, "attempt")
             /\ Counted(t, "run")
             /\ userCancelled' = userCancelled \ {t}
          \/ /\ MayFail(t) /\ count[t].repack < MaxRepackages   \* stale_packet
             /\ Counted(t, "repack")
             /\ UNCHANGED <<task, at, userCancelled>>
          \/ MayFail(t) /\ Goes(t, <<"blocked">>, "failed") /\ UNCHANGED <<count, userCancelled>>
  /\ UNCHANGED <<turns, flags, decision, integrated>>

\* Mutated: the report of an attempt the user cancelled is handled like any other.
CancelledByUser_Late(t) == FALSE

CancelledByUser(t) == t \in userCancelled

\* The user's cancel ends the task: the change is reverted, the workspace disposed of.
EndCancelled(t) ==
  /\ \/ Goes(t, <<"cancelled">>, "failed")
     \/ MayFail(t) /\ ThrowsIn(t, task[t])
  /\ UNCHANGED <<turns, count, flags>>

\* A context that stays stale is refreshed within a limit.
Restale(t) == count[t].repack < MaxRepackages

\* handle.completion
Report(t) ==
  /\ at[t] = "attempt" /\ Kind[t] = "work"
  /\ \E r \in setup.reports[t] :
       IF CancelledByUser(t) THEN EndCancelled(t)
       ELSE \/ /\ r = "stale"
               /\ IF Restale(t)
                  THEN Again(t, <<"needs_context", "ready">>, "needs_context") /\ Counted(t, "repack")
                  ELSE Goes(t, <<"needs_context", "cancelled">>, "failed") /\ UNCHANGED <<count, flags>>
               /\ UNCHANGED turns
            \/ r = "blocked" /\ Goes(t, <<"blocked">>, "failed") /\ UNCHANGED <<turns, count, flags>>
            \/ /\ r = "partial" /\ t \in Writing    \* with a produced change
               /\ Goes(t, <<"verifying">>, "verify")
               /\ flags' = [flags EXCEPT ![t] = {"partial"}]
               /\ UNCHANGED <<turns, count>>
            \/ r = "partial" /\ Asks(t, <<>>, "report") /\ UNCHANGED <<count, flags>>
            \/ /\ r = "needs_context"
               /\ \E why \in {"claimed"} \cup {w \in {"produced"} : t \in Writing} :
                    Asks(t, <<"needs_context">>, why)
               /\ UNCHANGED <<count, flags>>
            \/ r = "failed" /\ RetryOrFail(t) /\ UNCHANGED turns
            \/ r = "completed" /\ Goes(t, <<"verifying">>, "verify") /\ UNCHANGED <<turns, count, flags>>
  /\ UNCHANGED <<decision, userCancelled, integrated>>

\* reviewWarranted: whether the change edits existing files is seen only now.
Warranted(t) ==
  CASE Risk[t] = "trivial" -> {FALSE}
    [] Risk[t] = "high-risk" \/ ~Proportional -> {TRUE}
    [] OTHER -> BOOLEAN

\* workers.verify
Verified(t) ==
  /\ at[t] = "verify"
  /\ \/ /\ \E why \in {"unverified"} \cup {w \in {"unrunnable"} : t \in setup.unrunnable} :
             MayFail(t) /\ "waived" \notin flags[t] /\ Asks(t, <<>>, why)
        /\ UNCHANGED <<count, flags, integrated>>
     \/ \E warranted \in Warranted(t) :
          IF ~warranted /\ "partial" \notin flags[t]
          THEN Integrate(t) /\ UNCHANGED turns
          ELSE /\ \/ Goes(t, <<"reviewing">>, "review")
                  \/ MayFail(t) /\ t \notin Writing /\ Goes(t, <<"reviewing", "failed">>, "failed")   \* no pinned artifact
               /\ flags' = [flags EXCEPT ![t] = @ \ {"waived"}]
               /\ UNCHANGED <<turns, count, integrated>>
     \/ MayFail(t) /\ RetryOrFail(t) /\ UNCHANGED <<turns, integrated>>
  /\ UNCHANGED <<decision, userCancelled>>

\* The last review of this artifact may be repeated once more, without being
\* counted, when its verdict was limited by what the reviewer could read.
Reviewed(t) ==
  /\ at[t] = "review"
  /\ \/ CancelledByUser(t) /\ EndCancelled(t) /\ UNCHANGED integrated
     \/ ~CancelledByUser(t) /\ Integrate(t) /\ UNCHANGED turns   \* accept, or only minor findings
     \/ ~CancelledByUser(t) /\ MayFail(t) /\
        \/ /\ "widened" \notin flags[t]                         \* scopeLimitedReview
           /\ flags' = [flags EXCEPT ![t] = @ \cup {"widened"}]
           /\ UNCHANGED <<task, at, turns, count, integrated>>
        \/ /\ count[t].review + 1 < MaxReviewAttempts           \* invalid
           /\ Counted(t, "review")
           /\ UNCHANGED <<task, at, turns, flags, integrated>>
        \/ /\ count[t].review + 1 = MaxReviewAttempts           \* invalid to the last
           /\ UNCHANGED turns
           /\ IF Proportional /\ Risk[t] # "high-risk" /\ "partial" \notin flags[t]
              THEN Integrate(t)
              ELSE Goes(t, <<"failed">>, "failed") /\ UNCHANGED <<count, flags, integrated>>
        \/ /\ UNCHANGED integrated                              \* revise or block
           /\ IF count[t].revise < ReviewRevisions
              THEN Revise(t, 0) /\ UNCHANGED turns
              ELSE \E why \in {"unaccepted", "blocker"} : Asks(t, <<>>, why) /\ UNCHANGED <<count, flags>>
  /\ UNCHANGED <<decision, userCancelled>>

----------------------------------------------------------------------------
(* The orchestrator's turn about a task *)

Left(t) == count[t].retry < TriageRetries

\* What DelegationPort.triage accepts, and what is taken without a decision.
Decisions(t) ==
  {"retry", "fail"} \cup
  CASE at[t] = "produced"   -> {"review"}
    [] at[t] \in {"report", "claimed", "unverified"} -> IF t \in Writing THEN {} ELSE {"accept"}
    [] at[t] = "unrunnable" -> (IF t \in Writing THEN {"waive"} ELSE {"accept"})
                               \cup (IF Left(t) THEN {"replace"} ELSE {})
    [] at[t] \in {"unaccepted", "integration"} -> {"accept"}
    [] OTHER -> {}

\* task_spawn, while the orchestrator is consulted: tasks the plan does not have,
\* the limit being compared with what this turn has spawned.
Spawnable ==
  {S \in SUBSET {t \in Tasks : t \in setup.adds /\ sched[t] = "unknown" /\ DependsOn[t] \subseteq Known} :
     ~exhausted /\ S # {} /\ Cardinality(S) <= MaxSpawnedTasks}

\* The revised plan is recorded as proposed, unless it does not validate.
Proposes(w) ==
  \/ /\ Len(plans) < MaxPlans
     /\ plans' = Append(plans, "proposed")
     /\ revising' = [revising EXCEPT ![w] = [step |-> "proposed", plan |-> Len(plans) + 1]]
  \/ revising' = [revising EXCEPT ![w].step = "refused"] /\ UNCHANGED plans

Spawns ==
  \/ spawned' = {} /\ UNCHANGED <<plans, revising>>
  \/ spawned' \in Spawnable /\ Proposes("turn")

HasTurn(w) == turns # <<>> /\ Head(turns) = w

Triage(t) ==
  /\ at[t] \in Triages /\ HasTurn(t) /\ decision[t] = "none"
  /\ \E d \in Decisions(t) : decision' = [decision EXCEPT ![t] = d]
  /\ Spawns
  /\ UNCHANGED <<sched, run, turns, task, at, count, flags, userCancelled, integrated, approvedPlan>>

\* applyRevision has come to its end, if there was anything to apply.
TurnOver == revising["turn"].step \in {"none", "accepted", "refused", "threw"}
Threw(w) == revising[w].step = "threw"

\* Mutated: the turn is not passed on.
LeaveTurn_Kept ==
  /\ TurnOver
  /\ spawned' = {} /\ UNCHANGED turns
  /\ revising' = [revising EXCEPT !["turn"] = NoRevision]

LeaveTurn ==
  /\ TurnOver
  /\ turns' = Tail(turns) /\ spawned' = {}
  /\ revising' = [revising EXCEPT !["turn"] = NoRevision]

\* The spawned tasks join the run when its plan is approved.
AddSpawned ==
  IF revising["turn"].step = "accepted"
  THEN Add(spawned) /\ task' = [t \in Tasks |-> IF t \in spawned THEN "draft" ELSE task[t]]
  ELSE UNCHANGED <<sched, task>>

LeaveTriage(t) ==
  /\ at[t] \in Triages /\ HasTurn(t) /\ decision[t] # "none"
  /\ LeaveTurn
  /\ IF Threw("turn")
     THEN /\ ThrowsIn(t, task[t])
          /\ decision' = [decision EXCEPT ![t] = "none"]
          /\ UNCHANGED <<sched, flags>>
     ELSE /\ AddSpawned
          /\ flags' = [flags EXCEPT ![t] = @ \cup {"answered"}]
          /\ UNCHANGED <<at, decision>>
  /\ UNCHANGED <<run, count, userCancelled, integrated, plans, approvedPlan>>

Claimed(t) == at[t] \in {"claimed", "produced"}

FailsTriage(t) ==
  /\ Goes(t, IF Claimed(t) THEN <<"cancelled">> ELSE <<"failed">>, "failed")
  /\ UNCHANGED <<count, flags>>

VerifiesAgain(t, path, f) ==
  /\ Goes(t, IF Claimed(t) THEN <<"running">> \o path ELSE path, "verify")
  /\ flags' = [flags EXCEPT ![t] = (@ \ {"answered"}) \cup {f}]
  /\ UNCHANGED <<count, integrated>>

AcceptDecided(t) ==
  CASE at[t] \in {"report", "claimed"}        -> VerifiesAgain(t, <<"verifying">>, "waived")
    [] at[t] \in {"unverified", "unrunnable"} -> VerifiesAgain(t, <<>>, "waived")
    [] OTHER -> Integrate(t)

RetryDecided(t) ==
  /\ IF ~Left(t) THEN FailsTriage(t)
     ELSE CASE Claimed(t) -> Again(t, <<"ready">>, "needs_context") /\ Counted(t, "retry")
            [] at[t] \in {"unaccepted", "blocker"} -> Revise(t, 1)
            [] at[t] = "integration" ->
                 /\ Goes(t, <<"changes_requested", "ready">>, "loop")
                 /\ Spent(t, 1, 0)
                 /\ flags' = [flags EXCEPT ![t] = {}]
            [] OTHER -> RetryOrFail(t)
  /\ UNCHANGED integrated

Decided(t) ==
  /\ at[t] \in Triages /\ "answered" \in flags[t]
  /\ decision' = [decision EXCEPT ![t] = "none"]
  /\ \/ /\ \/ decision[t] = "review" /\ VerifiesAgain(t, <<"verifying">>, "partial")
           \/ decision[t] = "waive"  /\ VerifiesAgain(t, <<>>, "waived")
           \/ decision[t] = "accept" /\ AcceptDecided(t)
           \/ decision[t] = "retry"  /\ RetryDecided(t)
           \/ decision[t] = "fail"   /\ FailsTriage(t) /\ UNCHANGED integrated
        /\ UNCHANGED <<plans, revising>>
     \/ /\ decision[t] = "replace"
        /\ Proposes(t)
        /\ at' = [at EXCEPT ![t] = "replan"]
        /\ UNCHANGED <<task, count, flags, integrated>>
  /\ UNCHANGED <<sched, run, turns, userCancelled, approvedPlan, spawned>>

\* After reviseVerification, which does not wait for a turn.
Replanned(t) ==
  /\ at[t] = "replan" /\ revising[t].step \in {"accepted", "refused", "threw"}
  /\ revising' = [revising EXCEPT ![t] = NoRevision]
  /\ CASE revising[t].step = "accepted" -> RetryOrFail(t)
       [] revising[t].step = "refused"  -> Goes(t, <<"failed">>, "failed") /\ UNCHANGED <<count, flags>>
       [] OTHER                         -> ThrowsIn(t, task[t]) /\ UNCHANGED <<count, flags>>
  /\ UNCHANGED <<sched, run, turns, decision, userCancelled, integrated, plans, approvedPlan, spawned>>

----------------------------------------------------------------------------
(* approveRevision: w is the orchestrator's turn, or the task whose verification is replaced *)

Steps(w, step) == revising' = [revising EXCEPT ![w].step = step]
Asking == setup.mode = "ask"

\* moveRun throws on a move the table does not have.
MoveRun(w, to, next) ==
  IF State!Legal("run", run, to)
  THEN run' = to /\ Steps(w, next)
  ELSE Steps(w, "threw") /\ UNCHANGED run

AskRun(w) ==
  /\ revising[w].step = "proposed"
  /\ IF Asking THEN MoveRun(w, "waiting_for_approval", "asked")
     ELSE Steps(w, "asked") /\ UNCHANGED run
  /\ UNCHANGED <<plans, approvedPlan>>

Answered(w) ==
  /\ revising[w].step = "asked"
  /\ \E approved \in BOOLEAN :
       LET next == IF approved THEN "approved" ELSE "refused"
       IN /\ IF Asking THEN MoveRun(w, "running", next) ELSE Steps(w, next) /\ UNCHANGED run
          /\ plans' = IF approved \/ revising'[w].step = "threw" THEN plans
                      ELSE [plans EXCEPT ![revising[w].plan] = "rejected"]
  /\ UNCHANGED approvedPlan

Supersede(w) ==
  /\ revising[w].step = "approved"
  /\ plans' = [plans EXCEPT ![approvedPlan] = "superseded"]
  /\ Steps(w, "superseded")
  /\ UNCHANGED <<run, approvedPlan>>

Approve(w) ==
  /\ revising[w].step = "superseded"
  /\ plans' = [plans EXCEPT ![revising[w].plan] = "approved"]
  /\ approvedPlan' = revising[w].plan
  /\ Steps(w, "accepted")
  /\ UNCHANGED run

Revision(w) == AskRun(w) \/ Answered(w) \/ Supersede(w) \/ Approve(w)

----------------------------------------------------------------------------
(* runIntegrationReview *)

IntegrationDispatch(t) ==
  /\ at[t] = "loop" /\ Kind[t] = "integration"
  /\ IF aborted THEN Goes(t, <<"cancelled">>, "failed") /\ UNCHANGED count
     ELSE \/ Goes(t, <<"running">>, "attempt") /\ Counted(t, "run")
          \/ MayFail(t) /\ Goes(t, <<"blocked">>, "failed") /\ UNCHANGED count
  /\ UNCHANGED <<turns, flags, decision, userCancelled, integrated>>

\* The verdict.  A cancelled review is an invalid one, and is repeated.
IntegrationReviewed(t) ==
  /\ at[t] = "attempt" /\ Kind[t] = "integration"
  /\ \/ /\ MayFail(t) /\ count[t].review + 1 < MaxReviewAttempts
        /\ \/ Counted(t, "review") /\ UNCHANGED <<task, at>>
           \/ Goes(t, <<"failed">>, "failed") /\ UNCHANGED count   \* the next dispatch throws
        /\ UNCHANGED turns
     \/ Goes(t, <<"verifying", "reviewing", "completed">>, "completed") /\ UNCHANGED <<turns, count>>
     \/ MayFail(t) /\ Asks(t, <<"verifying", "reviewing">>, "integration") /\ UNCHANGED count
  /\ UNCHANGED <<flags, decision, userCancelled, integrated>>

----------------------------------------------------------------------------
(* The loop of the run *)

\* What the loop does when runTask has ended: a failed task's attempts are
\* reverted, every workspace is disposed of, then the scheduler is told.
TaskOver(t) ==
  /\ at[t] \in {"completed", "failed"}
  /\ Finish(t, at[t])
  /\ at' = [at EXCEPT ![t] = "gone"]
  /\ flags' = [flags EXCEPT ![t] = {}] /\ count' = [count EXCEPT ![t] = NoCount]
  /\ UNCHANGED <<setup, run, turns, task, decision, userCancelled, integrated, planVars, loopVars, userVars>>

Starts ==
  \E S \in SUBSET Ready :
    /\ StartAll(S)
    /\ at' = [t \in Tasks |-> IF t \in S THEN "begin" ELSE at[t]]
    /\ raced' = Inflight \cup S
    /\ main' = IF raced' = {} THEN "after" ELSE "race"

TakesTurn(next) == turns' = Append(turns, "main") /\ main' = next

Loop ==
  /\ main = "loop"
  /\ CASE Done \/ aborted ->
            main' = "after" /\ UNCHANGED <<sched, at, raced, budgetStop, turns>>
       [] ~Done /\ ~aborted /\ exhausted ->
            main' = "after" /\ budgetStop' = TRUE /\ UNCHANGED <<sched, at, raced, turns>>
       [] ~Done /\ ~aborted /\ ~exhausted /\ steering > 0 ->
            TakesTurn("consult") /\ UNCHANGED <<sched, at, raced, budgetStop>>
       [] OTHER -> Starts /\ UNCHANGED <<budgetStop, turns>>
  /\ UNCHANGED <<setup, run, task, count, flags, decision, userCancelled, integrated, planVars, userVars>>

\* After a consultation within the loop, without another look at the rest.
StartAfterTurn ==
  /\ main = "start" /\ Starts
  /\ UNCHANGED <<setup, run, turns, budgetStop, task, count, flags, decision, userCancelled, integrated, planVars, userVars>>

\* Promise.race(inflight.values())
Race ==
  /\ main = "race" /\ raced \ Inflight # {}
  /\ main' = "loop" /\ raced' = {}
  /\ UNCHANGED <<sched, setup, run, turns, budgetStop, taskVars, planVars, userVars>>

After ==
  /\ main = "after"
  /\ IF aborted \/ budgetStop \/ steering = 0
     THEN main' = "drain" /\ UNCHANGED turns
     ELSE TakesTurn("lastConsult")
  /\ UNCHANGED <<sched, setup, run, raced, budgetStop, taskVars, planVars, userVars>>

\* revise(): the messages are taken, the orchestrator consulted; a revision only
\* when a task is left to apply it to.
Consult ==
  /\ main \in {"consult", "lastConsult"} /\ HasTurn("main") /\ steering > 0
  /\ steering' = 0
  /\ \/ In("pending") = {} /\ spawned' = {} /\ UNCHANGED <<plans, revising>>
     \/ In("pending") # {} /\ spawned' = {} /\ Proposes("turn")
     \/ spawned' \in Spawnable /\ Proposes("turn")
  /\ main' = IF main = "consult" THEN "consulted" ELSE "lastConsulted"
  /\ UNCHANGED <<sched, setup, run, turns, taskVars, approvedPlan, raced, budgetStop, events, aborted, exhausted>>

\* The end of the run: its log is closed.
Ends(to) == run' = (IF State!Legal("run", run, to) THEN to ELSE run) /\ main' = "over"

LeaveConsult ==
  /\ main \in {"consulted", "lastConsulted"}
  /\ LeaveTurn
  /\ IF Threw("turn") THEN Ends(IF aborted THEN "cancelled" ELSE "failed") /\ UNCHANGED <<sched, task>>
     ELSE /\ AddSpawned
          /\ main' = IF main = "consulted" THEN "start" ELSE IF Done' THEN "drain" ELSE "loop"
          /\ UNCHANGED run
  /\ UNCHANGED <<setup, at, count, flags, decision, userCancelled, integrated, plans, approvedPlan, raced, budgetStop, userVars>>

Drain ==
  /\ main = "drain" /\ Inflight = {}
  /\ SkipPending
  /\ task' = [t \in Tasks |-> IF sched[t] = "pending" /\ ~State!Terminal("task", task[t]) THEN "cancelled" ELSE task[t]]
  /\ Ends(CASE aborted -> "cancelled"
            [] ~aborted /\ budgetStop -> "failed"
            [] OTHER -> IF \A t \in Known : task'[t] = "completed" THEN "completed" ELSE "failed")
  /\ UNCHANGED <<setup, turns, at, count, flags, decision, userCancelled, integrated, planVars, raced, budgetStop, userVars>>

----------------------------------------------------------------------------
(* The user, and the clock *)

Occurs == main # "over" /\ events < MaxEvents /\ events' = events + 1

Steer ==
  /\ Occurs /\ steering' = steering + 1
  /\ UNCHANGED <<sched, setup, run, turns, taskVars, planVars, loopVars, aborted, exhausted>>

Interrupt ==
  /\ Occurs /\ ~aborted /\ aborted' = TRUE
  /\ UNCHANGED <<sched, setup, run, turns, taskVars, planVars, loopVars, steering, exhausted>>

Exhaust ==
  /\ Occurs /\ ~exhausted /\ exhausted' = TRUE
  /\ UNCHANGED <<sched, setup, run, turns, taskVars, planVars, loopVars, steering, aborted>>

\* workers.cancel took the cancel: the attempt had not finished.
CancelWorker(t) ==
  /\ Occurs /\ at[t] \in {"attempt", "review"} /\ t \notin userCancelled
  /\ userCancelled' = userCancelled \cup {t}
  /\ UNCHANGED <<sched, setup, run, turns, task, at, count, flags, decision, integrated, planVars, loopVars, steering, aborted, exhausted>>

----------------------------------------------------------------------------

RunTask(t) ==
  /\ main # "over"
  /\ \/ /\ Begin(t) \/ Dispatch(t) \/ Report(t) \/ Verified(t) \/ Reviewed(t)
           \/ IntegrationDispatch(t) \/ IntegrationReviewed(t)
        /\ UNCHANGED <<sched, run, planVars>>
     \/ Triage(t) \/ LeaveTriage(t) \/ Decided(t) \/ Replanned(t)
  /\ UNCHANGED <<setup, loopVars, userVars>>

Revises(w) ==
  /\ main # "over"
  /\ Revision(w)
  /\ UNCHANGED <<sched, setup, turns, taskVars, spawned, loopVars, userVars>>

Harness ==
  \/ \E t \in Tasks : RunTask(t) \/ (main # "over" /\ TaskOver(t))
  \/ \E w \in Tasks \cup {"turn"} : Revises(w)
  \/ Loop \/ StartAfterTurn \/ Race \/ After \/ Consult \/ LeaveConsult \/ Drain

Next == Harness \/ Steer \/ Interrupt \/ Exhaust \/ (\E t \in Tasks : CancelWorker(t))

Spec == Init /\ [][Next]_vars

\* Attempts end (their time is limited), the orchestrator's turns end, a user
\* who is asked answers, and the harness does its next step.
FairSpec == Spec /\ WF_vars(Harness)

----------------------------------------------------------------------------
(* Properties *)

\* What a task may cost: every attempt after the first is paid for by a retry,
\* a revision or a fresh packet, whatever mix of reports, verdicts and
\* decisions of the orchestrator asked for it (coordinator.ts:1056-1058).
AttemptsBounded ==
  \A t \in Tasks : Kind[t] = "work" =>
    count[t].run <= 1 + TriageRetries + ReviewRevisions + MaxRepackages

\* "never auto-retried (user intent)", coordinator.ts:1453: once the user has
\* cancelled an attempt its task gets no other one, and nothing of it reaches
\* the main tree, however late the cancel comes.
UserCancelIsFinal ==
  [][\A t \in userCancelled : Kind[t] = "work" =>
       /\ count'[t].run <= count[t].run
       /\ t \in integrated' => t \in integrated]_vars

\* When the run is over, nothing is in flight and no task is half way: it has
\* completed, failed, blocked or been cancelled, or it is the draft of a task
\* that was skipped.  Exactly the completed tasks are completed for the
\* scheduler, only they have a change in the main tree, and a run that
\* completed completed all of them (coordinator.ts:1747-1827).
RunSettled ==
  main = "over" =>
    /\ State!Terminal("run", run) /\ Inflight = {} /\ turns = <<>>
    /\ \A t \in Known :
         /\ \/ task[t] \in {"completed", "cancelled", "failed", "blocked"}
            \/ task[t] = "draft" /\ sched[t] = "skipped"
         /\ (task[t] = "completed") = (sched[t] = "completed")
         /\ t \in integrated => task[t] = "completed"
    /\ run = "completed" => \A t \in Known : task[t] = "completed"

\* "Only an approved revision supersedes the running plan" (coordinator.ts:1643):
\* at no time are two versions of the plan approved.
AtMostOneApproved == \A i, j \in 1..Len(plans) : plans[i] = "approved" /\ plans[j] = "approved" => i = j

\* Every run ends, whatever its tasks, its user and its orchestrator do
\* (coordinator.ts:1747-1795).
RunEnds == <>(main = "over")
=============================================================================
