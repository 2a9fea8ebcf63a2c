------------------------------ MODULE TurnLoop ------------------------------
(***************************************************************************)
(* The agent loop over one session: AgentDriver.runTurn and its model step *)
(* (core/driver.ts), the tool gateway a call goes through (tools/gateway.  *)
(* ts) with its approvals, and what recovery makes of the log when the     *)
(* process dies in between.  Every await is a point where the user steers, *)
(* pauses or aborts, where an append may be refused, and where the process *)
(* may die.                                                                *)
(*                                                                         *)
(* An append is durable or refused (SessionLog).  A refused one poisons    *)
(* the store, and its line may be on disk all the same; a payload that is  *)
(* too long, or a blob that cannot be stored, is refused without either.   *)
(***************************************************************************)
EXTENDS SessionState, Sequences, SequencesExt

CONSTANTS
  MaxSteps,    \* input.maxSteps
  MaxTurns, MaxCalls, MaxSteers, MaxFaults, MaxCrashes   \* bounds of the model

ASSUME TurnAssumption ==
  /\ MaxSteps \in Nat /\ MaxTurns \in Nat /\ MaxCalls \in Nat
  /\ MaxSteers \in Nat /\ MaxFaults \in Nat /\ MaxCrashes \in Nat
  /\ Ids["turn"] = 1..MaxTurns /\ Ids["step"] = 1..MaxTurns * MaxSteps
  /\ Ids["toolCall"] = 1..MaxCalls /\ Ids["approval"] = 1..MaxCalls

VARIABLES
  proj,      \* the projection of the log
  store,     \* "ok", or "poisoned" by an append that failed
  at,        \* the await the driver is in
  turn, step, call,  \* identifiers handed out so far
  turnSteps, \* steps of this turn
  base,      \* calls handed out before this turn
  batch,     \* calls of the step that have no result message yet
  asked,     \* what the step's message asked for: "nothing", "calls", "cutOff" calls
  ending,    \* the step's last state and result
  outcome,   \* of the turn; "thrown" when runTurn throws
  result,    \* the state finish() records
  endsTurn,  \* the call was a terminal control tool
  grew,      \* events.lastSeq has grown during this invocation
  caches,    \* the gateway's recordedPolicies and scopedGrants
  answer,    \* of the approval broker
  aborted, paused,
  steers,    \* #steers
  closings,  \* recovery's closings that are not appended yet
  faults, crashes,
  told       \* what happened: see Init

log == <<proj, store, faults>>
user == <<aborted, paused, steers>>
step_vars == <<batch, asked, ending>>
gateway == <<result, endsTurn, grew, caches, answer>>
counters == <<turn, step, call, turnSteps, base>>
vars == <<log, at, counters, step_vars, outcome, gateway, user, closings, crashes, told>>

Calls == 1..MaxCalls
Outcomes == {"completed", "cancelled", "failed", "budget_exceeded", "max_steps", "thrown", Absent}
NoEnding == <<Absent, Absent>>

Init ==
  /\ proj = Empty /\ store = "ok" /\ at = "idle"
  /\ turn = 0 /\ step = 0 /\ call = 0 /\ turnSteps = 0 /\ base = 0
  /\ batch = <<>> /\ asked = "nothing" /\ ending = NoEnding /\ outcome = Absent
  /\ result = Absent /\ endsTurn = FALSE /\ grew = FALSE /\ answer = Absent
  /\ caches = [snapshot |-> FALSE, granted |-> FALSE]
  /\ aborted = FALSE /\ paused = FALSE /\ steers = <<>>
  /\ closings = {} /\ faults = 0 /\ crashes = 0
  /\ told = [decided  |-> [c \in Calls |-> Absent],  \* recorded policy decisions
             executed |-> [c \in Calls |-> 0],       \* executions begun
             answers  |-> [c \in Calls |-> 0],       \* result messages recorded
             late     |-> 0,                         \* executions begun since the abort
             steered  |-> <<>>,                      \* steers in the log
             leftover |-> <<>>,                      \* steers that became the next turn's message
             given    |-> 0]                         \* steers so far

Running == at \notin {"idle", "ended", "down", "closing"}
C == Head(batch)

----------------------------------------------------------------------------
(* EventStore.append *)

Logged(e) == store = "ok" /\ proj' = Apply(proj, e) /\ UNCHANGED <<store, faults>>

Refused(e) ==
  \/ /\ store = "ok" /\ faults < MaxFaults
     /\ store' = "poisoned" /\ faults' = faults + 1 /\ proj' \in {proj, Apply(proj, e)}
  \/ store = "poisoned" /\ UNCHANGED log

\* The payload is too long, or its blob cannot be stored.
Rejected == store = "ok" /\ faults < MaxFaults /\ faults' = faults + 1 /\ UNCHANGED <<proj, store>>

\* An append of the driver: when it throws, so does the turn.
Throws(e, large) == (Refused(e) \/ (large /\ Rejected)) /\ at' = "catch"
Append_(e, large, next) == (Logged(e) /\ at' = next) \/ Throws(e, large)

Message == Note("message/recorded")

----------------------------------------------------------------------------
(* runTurn *)

StartTurn ==
  /\ at = "idle" /\ turn < MaxTurns
  /\ turn' = turn + 1 /\ turnSteps' = 0 /\ base' = call
  /\ aborted' = FALSE /\ outcome' = Absent /\ told' = [told EXCEPT !.late = 0]
  /\ \/ Logged(TurnStarted(turn')) /\ at' = "user"
     \/ Refused(TurnStarted(turn')) /\ at' = "ended"
  /\ UNCHANGED <<step, call, step_vars, gateway, paused, steers, closings, crashes>>

UserMessage ==
  /\ at = "user"
  /\ Append_(Message, TRUE, "loop")
  /\ UNCHANGED <<counters, step_vars, outcome, gateway, user, closings, crashes, told>>

\* Mutated: an abort does not end the wait of a paused driver.
LeaveLoop_Paused ==
  /\ at = "loop"
  /\ \/ turnSteps >= MaxSteps /\ outcome' = "max_steps"
     \/ turnSteps < MaxSteps /\ aborted /\ ~paused /\ outcome' = "cancelled"
  /\ at' = "endTurn"
  /\ UNCHANGED <<log, counters, step_vars, gateway, user, closings, crashes, told>>

\* The loop's condition fails, or the abort is seen.
LeaveLoop ==
  /\ at = "loop"
  /\ \/ turnSteps >= MaxSteps /\ outcome' = "max_steps"
     \/ turnSteps < MaxSteps /\ aborted /\ outcome' = "cancelled"
  /\ at' = "endTurn"
  /\ UNCHANGED <<log, counters, step_vars, gateway, user, closings, crashes, told>>

\* Past #whilePaused and the abort check, or already taking the steers.
MayGoOn == at = "steer" \/ (at = "loop" /\ turnSteps < MaxSteps /\ ~paused /\ ~aborted)

Steered == [told EXCEPT !.steered = Append(@, Head(steers))]

\* Mutated: the steer leaves the queue before it is recorded.
DrainSteer_ShiftFirst ==
  /\ MayGoOn /\ steers # <<>>
  /\ steers' = Tail(steers)
  /\ \/ /\ Logged(Note("steer/queued")) /\ at' = "steer"
        /\ told' = Steered
     \/ Throws(Note("steer/queued"), TRUE) /\ UNCHANGED told
  /\ UNCHANGED <<counters, step_vars, outcome, gateway, aborted, paused, closings, crashes>>

DrainSteer ==
  /\ MayGoOn /\ steers # <<>>
  /\ \/ /\ Logged(Note("steer/queued")) /\ at' = "steer"
        /\ steers' = Tail(steers)
        /\ told' = Steered
     \/ /\ Throws(Note("steer/queued"), TRUE)
        /\ told' = told \/ (store' # store /\ told' = Steered)
        /\ UNCHANGED steers
  /\ UNCHANGED <<counters, step_vars, outcome, gateway, aborted, paused, closings, crashes>>

StartStep ==
  /\ MayGoOn /\ steers = <<>>
  /\ step' = step + 1 /\ turnSteps' = turnSteps + 1
  /\ batch' = <<>> /\ asked' = "nothing" /\ ending' = NoEnding
  /\ Append_(StepStarted(step', turn), FALSE, "prepare")
  /\ UNCHANGED <<turn, call, base, outcome, gateway, user, closings, crashes, told>>

EndTurn ==
  /\ at = "endTurn"
  /\ Append_(TurnEnded(turn), FALSE, "ended")
  /\ UNCHANGED <<counters, step_vars, outcome, gateway, user, closings, crashes, told>>

\* catch: turn/ended as far as possible, then the error goes to the caller.
Catch ==
  /\ at = "catch"
  /\ Logged(TurnEnded(turn)) \/ Refused(TurnEnded(turn))
  /\ at' = "ended" /\ outcome' = "thrown"
  /\ UNCHANGED <<counters, step_vars, gateway, user, closings, crashes, told>>

\* The conversation takes what was typed too late (drainSteers).
TakeLeftover ==
  /\ at = "ended"
  /\ told' = [told EXCEPT !.leftover = @ \o steers] /\ steers' = <<>>
  /\ at' = "idle" /\ batch' = <<>> /\ asked' = "nothing" /\ ending' = NoEnding
  /\ result' = Absent /\ endsTurn' = FALSE /\ grew' = FALSE /\ answer' = Absent
  /\ aborted' = FALSE
  /\ UNCHANGED <<log, counters, outcome, caches, paused, closings, crashes>>

----------------------------------------------------------------------------
(* #modelStep *)

EndWith(state, next) == ending' = <<state, next>> /\ at' = "endStep"

\* Mutated: a step that could not be prepared is not ended.
Prepare_StepLeftOpen ==
  /\ at = "prepare"
  /\ \/ aborted /\ outcome' = "cancelled" /\ at' = "endTurn" /\ UNCHANGED log
     \/ ~aborted /\ outcome' \in {"failed", "budget_exceeded"} /\ at' = "endTurn" /\ UNCHANGED log
     \/ ~aborted /\ Append_(Note("model/request_prepared"), TRUE, "stream") /\ UNCHANGED outcome
  /\ UNCHANGED <<counters, step_vars, gateway, user, closings, crashes, told>>

\* #prepare: the context is built, the envelope stored and the request recorded.
Prepare ==
  /\ at = "prepare"
  /\ \/ aborted /\ EndWith("aborted", "cancelled") /\ UNCHANGED log
     \/ ~aborted /\ EndWith("errored", "failed") /\ UNCHANGED log
     \/ ~aborted /\ EndWith("aborted", "budget_exceeded") /\ UNCHANGED log
     \/ ~aborted /\ Append_(Note("model/request_prepared"), TRUE, "stream") /\ UNCHANGED ending
  /\ UNCHANGED <<counters, batch, asked, outcome, gateway, user, closings, crashes, told>>

\* consumeStream: a message with n tool calls; abort always wins.
StreamDone ==
  /\ at = "stream" /\ ~aborted
  /\ \E n \in 0..MaxCalls - call :
       batch' = [i \in 1..n |-> call + i] /\ call' = call + n
  /\ asked' \in (IF batch' = <<>> THEN {"nothing"} ELSE {"calls", "cutOff"})
  /\ at' = "assistant"
  /\ UNCHANGED <<log, turn, step, turnSteps, base, ending, outcome, gateway, user, closings, crashes, told>>

\* A provider may report "cancelled" of itself.
StreamFailed ==
  /\ at = "stream"
  /\ ending' \in {<<"aborted", "cancelled">>} \cup (IF aborted THEN {} ELSE {<<"errored", "failed">>})
  /\ at' = "failure"
  /\ UNCHANGED <<log, counters, batch, asked, outcome, gateway, user, closings, crashes, told>>

\* #recordFailure, #recordSettled, #recordUsage
RecordResponse ==
  /\ \/ at = "failure" /\ Append_(Note("model/response_failed"), TRUE, "usage")
     \/ at = "assistant" /\ Append_(Message, TRUE, "settled")
     \/ at = "settled" /\ Append_(Note("model/response_settled"), FALSE, "usage")
     \/ at = "usage" /\ LET next == IF ending = NoEnding THEN "batch" ELSE "endStep"
                        IN \/ Append_(Note("provider/usage"), FALSE, next)
                           \/ at' = next /\ UNCHANGED log
  /\ UNCHANGED <<counters, step_vars, outcome, gateway, user, closings, crashes, told>>

\* Mutated: the batch goes on after an abort.
NextCall_IgnoresAbort ==
  /\ at = "batch" /\ batch # <<>>
  /\ \/ asked = "cutOff" /\ ending' = <<"settled", "continue">> /\ at' = "skip"
     \/ asked = "calls" /\ at' = "skipOne" /\ UNCHANGED ending
     \/ asked = "calls" /\ at' = (IF caches.snapshot THEN "propose" ELSE "snapshot") /\ UNCHANGED ending
  /\ grew' = FALSE
  /\ UNCHANGED <<log, counters, batch, asked, outcome, result, endsTurn, caches, answer, user, closings, crashes, told>>

\* The next call of the batch goes to the gateway, unless the output was cut off, the turn was
\* aborted or only a report was wanted.
NextCall ==
  /\ at = "batch" /\ batch # <<>>
  /\ \/ asked = "cutOff" /\ ending' = <<"settled", "continue">> /\ at' = "skip"
     \/ asked = "calls" /\ aborted /\ ending' = <<"aborted", "cancelled">> /\ at' = "skip"
     \/ asked = "calls" /\ ~aborted /\ at' = "skipOne" /\ UNCHANGED ending
     \/ asked = "calls" /\ ~aborted /\ at' = (IF caches.snapshot THEN "propose" ELSE "snapshot") /\ UNCHANGED ending
  /\ grew' = FALSE
  /\ UNCHANGED <<log, counters, batch, asked, outcome, result, endsTurn, caches, answer, user, closings, crashes, told>>

\* Mutated: the rest of a batch is dropped without an answer.
Skip_Rest ==
  /\ at \in {"skip", "skipOne"}
  /\ \/ /\ Logged(Message)
        /\ batch' = (IF at = "skip" THEN <<>> ELSE Tail(batch))
        /\ told' = [told EXCEPT !.answers[C] = @ + 1]
        /\ at' = IF at = "skipOne" THEN "batch" ELSE "endStep"
     \/ Throws(Message, TRUE) /\ UNCHANGED <<batch, told>>
  /\ UNCHANGED <<counters, asked, ending, outcome, gateway, user, closings, crashes>>

\* A call that is not run is answered as well: the rest of the batch, or this one alone.
Skip ==
  /\ at \in {"skip", "skipOne"}
  /\ \/ /\ Logged(Message)
        /\ batch' = Tail(batch) /\ told' = [told EXCEPT !.answers[C] = @ + 1]
        /\ at' = IF at = "skipOne" THEN "batch" ELSE IF batch' = <<>> THEN "endStep" ELSE "skip"
     \/ Throws(Message, TRUE) /\ UNCHANGED <<batch, told>>
  /\ UNCHANGED <<counters, asked, ending, outcome, gateway, user, closings, crashes>>

\* #recordToolResult of the call that came back from the gateway.
Reply ==
  /\ at = "reply"
  /\ \/ /\ Logged(Message)
        /\ batch' = Tail(batch) /\ told' = [told EXCEPT !.answers[C] = @ + 1]
        /\ IF endsTurn
             THEN ending' = <<"settled", "completed">> /\ at' = IF batch' = <<>> THEN "endStep" ELSE "skip"
             ELSE at' = "batch" /\ UNCHANGED ending
     \/ Throws(Message, TRUE) /\ UNCHANGED <<batch, ending, told>>
  /\ endsTurn' = FALSE /\ result' = Absent /\ grew' = FALSE
  /\ UNCHANGED <<counters, asked, outcome, caches, answer, user, closings, crashes>>

\* Images the tools returned are shown to the model.
FlushImages ==
  /\ at = "batch" /\ batch = <<>> /\ asked = "calls"
  /\ Append_(Message, TRUE, "images")
  /\ UNCHANGED <<counters, step_vars, outcome, gateway, user, closings, crashes, told>>

BatchDone ==
  /\ at \in {"batch", "images"} /\ batch = <<>>
  /\ \/ asked = "nothing" /\ EndWith("settled", IF steers = <<>> THEN "completed" ELSE "continue")
     \/ asked = "calls" /\ aborted /\ EndWith("aborted", "cancelled")
     \/ asked = "calls" /\ ~aborted /\ EndWith("settled", "continue")
  /\ UNCHANGED <<log, counters, batch, asked, outcome, gateway, user, closings, crashes, told>>

\* #endStep, and what the loop makes of its result
EndStep ==
  /\ at = "endStep"
  /\ IF ending[2] = "continue"
       THEN Append_(StepEnded(step, ending[1]), FALSE, "loop") /\ UNCHANGED outcome
       ELSE Append_(StepEnded(step, ending[1]), FALSE, "endTurn") /\ outcome' = ending[2]
  /\ batch' = <<>> /\ asked' = "nothing" /\ ending' = NoEnding
  /\ UNCHANGED <<counters, gateway, user, closings, crashes, told>>

----------------------------------------------------------------------------
(* ToolGateway.invoke.  A refused append ends the call without an          *)
(* execution (refuseUnlogged); #invokeRecorded lets the turn go on if the  *)
(* log has grown since the invocation began.                               *)

Unlogged(e) == (Refused(e) \/ Rejected) /\ at' = IF grew THEN "reply" ELSE "catch"

Snapshot ==
  /\ at = "snapshot"
  /\ \/ /\ Logged(Note("policy/snapshot")) /\ at' = "propose"
        /\ caches' = [caches EXCEPT !.snapshot = TRUE] /\ grew' = TRUE
     \/ Unlogged(Note("policy/snapshot")) /\ UNCHANGED <<caches, grew>>
  /\ UNCHANGED <<counters, step_vars, outcome, result, endsTurn, answer, user, closings, crashes, told>>

Propose ==
  /\ at = "propose"
  /\ \/ Logged(CallProposed(C)) /\ at' = "decide" /\ grew' = TRUE
     \/ Unlogged(CallProposed(C)) /\ UNCHANGED grew
  /\ UNCHANGED <<counters, step_vars, outcome, result, endsTurn, caches, answer, user, closings, crashes, told>>

\* finish(state, ...)
Finish(state) == result' = state /\ at' = "result"

\* The tool is unknown, its arguments are invalid, or it cannot say what it would do.
Invalid ==
  /\ at = "decide"
  /\ Finish("denied")
  /\ UNCHANGED <<log, counters, step_vars, outcome, endsTurn, grew, caches, answer, user, closings, crashes, told>>

\* Role, credentials, policy engine and hooks come to a decision, which is recorded.  A call that
\* has to ask does so, unless an answer for the scope covers it; which calls that covers is left open.
Decide ==
  /\ at = "decide"
  /\ \E decision \in {"allow", "ask", "deny"} :
       \/ /\ Logged(PolicyDecided(C, decision))
          /\ told' = [told EXCEPT !.decided[C] = decision]
          /\ CASE decision = "deny" -> Finish("denied")
               [] decision = "ask" -> at' \in {"request"} \cup (IF caches.granted THEN {"start"} ELSE {}) /\ UNCHANGED result
               [] decision = "allow" -> at' = "start" /\ UNCHANGED result
       \/ Unlogged(PolicyDecided(C, decision)) /\ UNCHANGED <<result, told>>
  /\ UNCHANGED <<counters, step_vars, outcome, endsTurn, grew, caches, answer, user, closings, crashes>>

RequestApproval ==
  /\ at = "request"
  /\ \/ Logged(ApprovalRequested(C)) /\ at' = "broker"
     \/ Unlogged(ApprovalRequested(C))
  /\ UNCHANGED <<counters, step_vars, outcome, gateway, user, closings, crashes, told>>

\* The human, the headless broker or the abort answers.
Answer ==
  /\ at = "broker"
  /\ answer' \in {"allowed-once", "allowed-for-scope", "rejected", "cancelled", "unavailable"}
  /\ at' = "answer"
  /\ UNCHANGED <<log, counters, step_vars, outcome, result, endsTurn, grew, caches, user, closings, crashes, told>>

\* Mutated: the answer is acted on whether or not it could be recorded.
RecordAnswer_Unlogged ==
  /\ at = "answer"
  /\ Logged(ApprovalDecided(C, answer)) \/ Refused(ApprovalDecided(C, answer)) \/ Rejected
  /\ IF OutcomeState(answer) = "allowed"
       THEN at' = "start" /\ UNCHANGED result
       ELSE Finish(IF answer = "cancelled" THEN "cancelled" ELSE "denied")
  /\ caches' = [caches EXCEPT !.granted = @ \/ answer = "allowed-for-scope"]
  /\ answer' = Absent
  /\ UNCHANGED <<counters, step_vars, outcome, endsTurn, grew, user, closings, crashes, told>>

RecordAnswer ==
  /\ at = "answer"
  /\ \/ /\ Logged(ApprovalDecided(C, answer))
        /\ IF OutcomeState(answer) = "allowed"
             THEN at' = "start" /\ UNCHANGED result
             ELSE Finish(IF answer = "cancelled" THEN "cancelled" ELSE "denied")
        /\ caches' = [caches EXCEPT !.granted = @ \/ answer = "allowed-for-scope"]
     \/ Unlogged(ApprovalDecided(C, answer)) /\ UNCHANGED <<result, caches>>
  /\ answer' = Absent
  /\ UNCHANGED <<counters, step_vars, outcome, endsTurn, grew, user, closings, crashes, told>>

NoSandbox ==
  /\ at = "start"
  /\ Finish("denied")
  /\ UNCHANGED <<log, counters, step_vars, outcome, endsTurn, grew, caches, answer, user, closings, crashes, told>>

Begun == [told EXCEPT !.executed[C] = @ + 1, !.late = IF aborted THEN @ + 1 ELSE @]

\* Mutated: the tool runs while its start is being recorded.
StartExecution_BeforeLog ==
  /\ at = "start"
  /\ told' = Begun
  /\ \/ Logged(ExecutionStarted(C)) /\ at' = "run"
     \/ Unlogged(ExecutionStarted(C))
  /\ UNCHANGED <<counters, step_vars, outcome, gateway, user, closings, crashes>>

StartExecution ==
  /\ at = "start"
  /\ \/ Logged(ExecutionStarted(C)) /\ at' = "run" /\ told' = Begun
     \/ Unlogged(ExecutionStarted(C)) /\ UNCHANGED told
  /\ UNCHANGED <<counters, step_vars, outcome, gateway, user, closings, crashes>>

\* The tool returns, fails, times out or gives up after an abort.
ToolReturns ==
  /\ at = "run"
  /\ \E state \in {"succeeded", "failed", "cancelled"} : Finish(state)
  /\ UNCHANGED <<log, counters, step_vars, outcome, endsTurn, grew, caches, answer, user, closings, crashes, told>>

\* Whether or not the result could be recorded, the driver gets it.
RecordResult ==
  /\ at = "result"
  /\ \/ /\ Logged(ResultRecorded(C, result))
        /\ endsTurn' \in { ends \in BOOLEAN : ends => result = "succeeded" }
     \/ (Refused(ResultRecorded(C, result)) \/ Rejected) /\ UNCHANGED endsTurn
  /\ at' = "reply" /\ result' = Absent
  /\ UNCHANGED <<counters, step_vars, outcome, grew, caches, answer, user, closings, crashes, told>>

----------------------------------------------------------------------------
(* The user, the process, and recovery                                     *)

Steer ==
  /\ Running /\ told.given < MaxSteers
  /\ told' = [told EXCEPT !.given = @ + 1] /\ steers' = Append(steers, told.given + 1)
  /\ UNCHANGED <<log, at, counters, step_vars, outcome, gateway, aborted, paused, closings, crashes>>

Abort ==
  /\ Running /\ ~aborted /\ aborted' = TRUE
  /\ UNCHANGED <<log, at, counters, step_vars, outcome, gateway, paused, steers, closings, crashes, told>>

\* Whoever sets #paused elsewhere might as well do so when the loop looks at it next.
PauseOrResume ==
  /\ at \in {"loop", "steer"} /\ paused' = ~paused
  /\ UNCHANGED <<log, at, counters, step_vars, outcome, gateway, aborted, steers, closings, crashes, told>>

Crash ==
  /\ at # "down" /\ crashes < MaxCrashes
  /\ crashes' = crashes + 1 /\ at' = "down" /\ store' = "ok"
  /\ batch' = <<>> /\ asked' = "nothing" /\ ending' = NoEnding /\ outcome' = Absent
  /\ result' = Absent /\ endsTurn' = FALSE /\ grew' = FALSE /\ answer' = Absent
  /\ caches' = [snapshot |-> FALSE, granted |-> FALSE]
  /\ aborted' = FALSE /\ paused' = FALSE /\ steers' = <<>> /\ closings' = {}
  /\ UNCHANGED <<proj, faults, counters, told>>

\* recoverSession: Recovery shows that it may be cut short.
Resume ==
  /\ at = "down" /\ ~Halted(proj)
  /\ closings' = Closings(proj) /\ at' = "closing"
  /\ UNCHANGED <<log, counters, step_vars, outcome, gateway, user, crashes, told>>

Close ==
  /\ at = "closing"
  /\ \/ \E e \in NextClosings(closings) :
          proj' = Apply(proj, e) /\ closings' = closings \ {e} /\ UNCHANGED at
     \/ closings = {} /\ at' = "idle" /\ UNCHANGED <<proj, closings>>
  /\ UNCHANGED <<store, faults, counters, step_vars, outcome, gateway, user, crashes, told>>

----------------------------------------------------------------------------
DriverStep ==
  \/ UserMessage \/ LeaveLoop \/ DrainSteer \/ StartStep \/ EndTurn \/ Catch
  \/ Prepare \/ RecordResponse \/ NextCall \/ Skip \/ Reply \/ FlushImages \/ BatchDone \/ EndStep
GatewayStep ==
  \/ Snapshot \/ Propose \/ Invalid \/ Decide \/ RequestApproval \/ RecordAnswer \/ NoSandbox
  \/ StartExecution \/ RecordResult

Next ==
  \/ StartTurn \/ TakeLeftover \/ DriverStep \/ StreamDone \/ StreamFailed
  \/ GatewayStep \/ Answer \/ ToolReturns
  \/ Steer \/ Abort \/ PauseOrResume \/ Crash \/ Resume \/ Close

Spec == Init /\ [][Next]_vars

\* The event loop runs what is ready.  A tool returns at the latest when its signal is aborted by
\* the timeout; a stream and an approval may stay open, but not after an abort.
FairSpec ==
  /\ Spec
  /\ WF_vars(DriverStep) /\ WF_vars(GatewayStep) /\ WF_vars(ToolReturns)
  /\ WF_vars(aborted /\ StreamFailed) /\ WF_vars(aborted /\ Answer)

----------------------------------------------------------------------------
(* The type invariant. *)
TypeOK ==
  /\ \A m \in Machines : proj.state[m] \in [Ids[m] -> States(m) \cup {Absent}]
  /\ store \in {"ok", "poisoned"}
  /\ turn \in 0..MaxTurns /\ turnSteps \in 0..MaxSteps /\ step \in 0..MaxTurns * MaxSteps
  /\ base <= call /\ call <= MaxCalls
  /\ batch \in Seq(base + 1 .. call)
  /\ asked \in {"nothing", "calls", "cutOff"}
  /\ outcome \in Outcomes
  /\ Len(steers) <= told.given

(* identity-and-state.md §2: whatever the driver, the gateway and recovery  *)
(* append in whatever order awaits, aborts, refusals and crashes bring     *)
(* about, the projection accepts every event of it.                        *)
NeverCorrupt == proj.status = "ok"

(* gateway.ts:164-345, core-and-store.md §6: a tool runs only when its     *)
(* start is on disk, after a recorded decision that allows it, or asks for *)
(* an approval that is recorded as given.                                  *)
RecordedBeforeRun ==
  at = "run" =>
    /\ proj.state["toolCall"][C] = "executing"
    /\ \/ told.decided[C] = "allow"
       \/ told.decided[C] = "ask" /\ (caches.granted \/ proj.state["approval"][C] = "allowed")

(* identity-and-state.md §3: the log never says of a call that ran that it *)
(* did not, also after a crash and a recovery, nor that one succeeded that *)
(* never ran; and no call runs twice.                                      *)
LogTellsWhatRan ==
  \A c \in Calls :
    /\ told.executed[c] > 0 =>
         proj.state["toolCall"][c] \in {"executing", "succeeded", "failed", "cancelled", "interrupted"}
    /\ proj.state["toolCall"][c] \in {"succeeded", "failed"} => told.executed[c] > 0
    /\ told.executed[c] <= 1

(* driver.ts:268-308: when a request goes out, every call of the turn so   *)
(* far has exactly one result message, whatever became of the call.        *)
AnsweredOnce ==
  /\ \A c \in Calls : told.answers[c] <= 1
  /\ at = "stream" => \A c \in base + 1 .. call : told.answers[c] = 1

(* events-and-storage.md:89: a turn that returns leaves neither itself nor  *)
(* one of its steps open, nor, if no append was refused, a call or an      *)
(* approval.                                                               *)
TurnLeavesNothingOpen ==
  at = "ended" /\ outcome \notin {"thrown", Absent} =>
    /\ <<"turn", turn>> \notin Open(proj)
    /\ \A s \in step - turnSteps + 1 .. step : <<"step", s>> \notin Open(proj)
    /\ faults = 0 => \A c \in base + 1 .. call :
         <<"toolCall", c>> \notin Open(proj) /\ <<"approval", c>> \notin Open(proj)

(* driver.ts:172, conversation.ts:1454: while the process lives no steer is *)
(* lost: it is queued, in the log, or in the next turn's message; and if   *)
(* no append fails it is in one of them only, in the order it was given.   *)
SteersKept ==
  LET kept == told.steered \o told.leftover \o steers
  IN /\ crashes = 0 => Range(kept) = 1..told.given
     /\ faults = 0 => IsInjective(kept)
     /\ \A part \in {told.steered, told.leftover, steers} :
          \A i, j \in 1..Len(part) : i < j => part[i] < part[j]

(* driver.ts:294: after an abort at most the call whose turn had come is   *)
(* still begun.                                                            *)
AbortStopsBatch == told.late <= 1

(* An aborted turn ends, paused or not, whatever it was waiting for.       *)
AbortEndsTurn == (Running /\ aborted) ~> ~Running
=============================================================================
