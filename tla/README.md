# Synorch: verification project

Synorch is a terminal coding agent. A *session* is an append-only log of typed
events; a *driver* runs model turns and tool calls and records every step in the
log; a *gateway* decides, asks for approval and executes tools; an *orchestrator*
splits a request into tasks that workers carry out in isolated copies of the
workspace. This directory holds TLA+ models of that system, the TLC runs that check
them on small instances, and the TLAPS proofs of what holds for every instance.
Paths below are relative to the repository root; `harness/` abbreviates
`src/harness/`.

Contents: 1 inventory, 2 plan, 3 modules and how they correspond to the code,
4 runs and bounds, 5 fairness, 6 findings and other differences, 7 proofs, 8 what is not modelled.

## 1. Inventory

### 1.1 Components

| Component | Source (`harness/`) | State it keeps | Operations | What makes it hard | What makes it correct |
| --- | --- | --- | --- | --- | --- |
| Session lease | `store/lease.ts` | `lock.json`, `lock.json.cas`, `lock.json.stale-*`; in memory `expires_at`, `lostReason` | acquire, take over, renew, verify, release | several processes, interleaved file operations, processes that die or stall inside one | one body in the mutex, a live lease stays, every acquire and release ends |
| Session log | `store/event-store.ts`, `segments.ts`, `session-store.ts` | segment files; cached position (`#lastSeq`, `#segmentEvents`, `#segmentBytes`), poison flag | append, rotate, open, quarantine a torn tail, fork, summarise | a crash between any two steps, failed writes and syncs, power loss | acknowledged events survive, seqs are dense and never reused, the cached position is the real one |
| Blob store | `store/blob-store.ts` | content-addressed files | put, get | concurrent writers of one digest | a stored digest reads back |
| State machines and projection | `contracts/state.ts`, `core/projection.ts` | state of every run, plan, task, attempt, turn, step, call, approval; halted or not | apply an event | eight machines, many event types, a log a newer version wrote | every writer's event is accepted |
| Session recovery | `core/recovery.ts` | the plan of closing events | recover a session | a crash in the middle of recovery | idempotent, nothing left open, nothing invented |
| Agent driver | `core/driver.ts`, `core/stream.ts` | turn, steer queue, pause flag, message batch | runTurn, steer, pause, resume, abort | steering, aborts, refused appends at every await | every call is answered once, the turn closes what it opened, no steer is lost |
| Tool gateway, approvals | `tools/gateway.ts`, `policy/approval-broker.ts` | recorded policies, scoped grants, pending requests | invoke, decide, cancel | approval racing abort, failing appends, crash during a tool | nothing runs without its record, the log never contradicts what ran |
| Policy engine | `policy/engine.ts`, `config.ts`, `command-rules.ts`, ... | rules of several layers | evaluate | precedence, intersection of layers | deny wins, a lower layer never widens |
| Scheduler | `orchestration/scheduler.ts`, `paths.ts` | task states, running set, claims on paths | startable, start, finish, skipPending, add | several starts at once, revisions | dependencies, limits and owned paths respected |
| Coordinator | `orchestration/coordinator.ts`, `planner.ts`, `plan.ts` | run state, plan revisions, tasks in flight | run, runTask, revise, steer, cancel, finish | parallel tasks, revisions while tasks run, resume | every run and task reaches an end state |
| Worker manager | `orchestration/worker-manager.ts`, `worker-control.ts`, `attempt-log.ts` | attempts and their controls | spawn, steer, pause, cancel, repair | controls racing the phases of an attempt, the wall clock | one end per attempt, a control reaches its attempt or is refused |
| Isolation, integration | `orchestration/isolation.ts`, `git.ts` | worktrees, baselines, artifacts | prepare, collect, integrate, revert, prune | multi-file writes, a main tree that changes meanwhile, crash | nothing the user wrote is overwritten, a half integration can be repaired |
| Evidence and review | `orchestration/evidence.ts`, `artifact-review.ts`, `claims.ts` | evidence pointers, claims, review results | verify, gate | stale evidence | a task completes only on evidence of its own attempt |
| Budget | `orchestration/budget.ts` | use per run and per attempt | admit, observe, cancel, raise | parallel requests in flight | the limit is passed by a bounded amount |
| Authentication | `auth/*.ts` | credential files, file locks | login, refresh, logout | several processes refresh one rotating token | a refresh token is used once, a newer token is not overwritten |
| MCP servers | `mcp/manager.ts`, `client.ts`, `approvals.ts` | slots, connections, starts in flight | load, connect, enable, revoke, reload, close | starts and reconnects racing reload and close | no connection leaks, no tool of a closed server |
| Background processes | `tools/builtin/process-bg.ts`, `tools/process.ts` | job table, read cursor | start, read, kill, kill all | exit racing kill and read | every job is killed at exit, output is read once |
| Tools | `tools/*.ts` | none of their own | read, write, patch, shell | the sandbox around a command | as their schema says |
| Memory | `memory/*.ts` | notes, proposals, index | propose, decide, write, search | decide is two writes, notes are not locked | a decision is applied once |
| Context and history | `context/*.ts` | none: rebuilt from the log | reconstruct, compact | logs of crashed sessions, the position of the cut | calls and results stay paired |
| Providers and routing | `providers/*.ts` | streams, blocked models | stream, retry, route | broken streams, quotas | one terminal item per stream |
| Claude Code backend | `providers/claude-code/`, `providers/codex-app-server.ts` | a foreign process with a loop of its own | run a step, bridge a call | bridge calls arriving late | as the driver |
| Command line, terminal | `src/cli.ts`, `harness/cli/`, `harness/tui/` | screens, the open session | commands, recovering a run's sessions | order of recoveries | every session that needs it is recovered |
| Project structure generator | `src/application/`, `src/domain/`, `src/infrastructure/`, `src/templates/` | files it generates | discover, plan, write, doctor | none: sequential text generation | covered by its tests |
| Contracts | `contracts/*.ts` | none | schemas and types | none | the state machines are in `SessionState` |

### 1.2 How they interact

```
conversation / coordinator ──runTurn, steer, pause, abort──▶ driver ──invoke──▶ gateway ──▶ tool
        │                                                      │                │  ▲
        │ run/task/attempt events                              │ append         │  └─ approval broker ◀─ user
        ▼                                                      ▼                ▼
   event store of the run                     event store of the session or attempt
        └───────────────▶ segments on disk ◀── lease (verify before every append) ┘
                                 │ reopen after a crash
                                 ▼
                      projection ─▶ recovery (closing events)
```

- Every session, and every attempt of a worker, has a log of its own, written by the one
  process that holds its lease. The coordinator writes run, task and attempt events to the
  log of the run.
- The driver and the gateway share one event store. A failed append *poisons* it: everything
  they append afterwards throws, and what was open stays open until recovery.
- A poisoned or crashed session is reopened: the scan decides what the log is (its torn
  tail is moved to quarantine), the projection replays it, and recovery appends the events
  that close what was open. Projection, history and summary all read the same segments.
- Approvals are the only place where a call waits for a person; an abort has to end that wait.
- The coordinator asks the scheduler what may start, the worker manager to run an attempt, and the
  isolation provider for the attempt's workspace, its change set, its integration or its revert. All
  tasks of a run share the scheduler, the main tree, and one turn at a time with the orchestrator.
- A tool of an MCP server reaches its connection through the manager, which starts the server if it
  is not running; the user's commands and a reload of the definitions change the same slots meanwhile.
- Steers that a turn no longer takes are drained by the conversation into the next turn's
  message.

### 1.3 What is hard to test

`hazards` in PROJECT.json lists the hazards line by line. They are of five kinds: file
protocols of several processes (lease, credential locks, notes), crashes and failed
writes between two steps of one process (log, recovery, gateway, integration), awaits of
the driver, the coordinator and the MCP manager during which something else happens,
tasks that share one tree (integration and revert), and boundaries (rotation, budgets,
limits). A hazard without a property says in its note what it would take.

## 2. Plan

The order follows how much rests on a component: everything in Synorch is recovered from
the session log, so the log and its single writer come first, then what is written to it,
then the orchestration that runs many of these side by side.

| | Modules | Composes | Proved in | State |
| --- | --- | --- | --- | --- |
| 1 | `SessionLease`, `SessionWriters` | SessionWriters extends SessionLease by the log | `SessionWritersProofs` | done |
| 2 | `SessionLog`, abstract `DurableLog` | SessionLog implements DurableLog | `SessionLogProofs` | done |
| 3 | `SessionState`, `Recovery` | Recovery extends SessionState | `SessionStateProofs`, `RecoveryProofs` | done |
| 4 | `TurnLoop` (driver, gateway, approvals, log state, recovery) | extends SessionState | `TurnLoopProofs` | done but for the backend step and the one forced credential refresh |
| 5 | `Scheduler`, `Coordinator` | Coordinator extends Scheduler, uses SessionState's tables, and implements Scheduler | `CoordinatorProofs` | done from the approval of the plan on |
| 6 | `Isolation` | the provider under the tasks of a run | `IsolationProofs` | done |
| 7 | `McpManager` | | `McpProofs` | done |

Runs are kept few: one run per question, with failure models chosen inside the specification
(`FaultModels`, `Crashable`, `Suspendable`, `Setups`, `Plans`) instead of by more runs. What the plan
leaves, in the order of its worth: the refresh of rotating credentials under a lock that is taken over
(`auth/`), background processes, the budget's bound, and accepted memory proposals.

## 3. Modules and the code

`map` in PROJECT.json gives the lines of every definition.

**`SessionLease`** (`store/lease.ts`). One file system call is one step and steps of
different writers interleave freely. A member of `Writers` is one `acquire` call with its
own random token and what its caller does with the handle; a process that opens the session
again is another writer. `lock`, `mutex` and `aside` are the three files, `pc` is the await a
writer is in, `job` is what it wants the mutex for. Time is a bounded clock; it moves in
`Tick` unless a writer that may not be suspended is in the middle of its file operations: they
take little time against the TTL and `mutexStaleMs`. Members of `Suspendable` may stall there for any time, members of `Crashable` may die between any two
steps. The write of a renewal may fail, before or after its rename; the other file calls succeed. `SameHost` chooses whether a dead holder is recognised by its pid.

**`SessionWriters`** composes the lease with what it is for: the log is read after the lease
is taken, an append calls `verify()` (with a renewal when more than a heartbeat has passed)
and writes its line in a later step. The segments are one sequence of `[seq, token]` here.

**`SessionLog`** (`event-store.ts`, `segments.ts`, `session-store.ts`). The files of one
session under its single writer. A segment records its header, its complete lines, whether a
torn line follows, how much of it is on stable storage and whether its directory entry is. An
append is the sequence of the code's awaits: rotation (header, datasync, directory sync), line,
datasync, each of which may fail; open is scan, copy of the torn tail, cut, second scan. Faults
come in kinds (`process`: the process dies; `io`: a file operation fails and the store is
poisoned; `power`: everything not synced may be lost), and a behaviour sees faults of one member
of `FaultModels` only. Lines carry an id, so that two events with the same seq can be told apart,
and a size for the rotation limit. Forks read the first lines of their ancestor and start at
`FirstSeq`.

**`DurableLog`** is what `EventStore.append` promises: a log that grows at its end and an
acknowledged prefix that no fault takes back. `SessionLog` implements it with the complete lines
of all segments as the log and the last acknowledged one as the promise.

**`SessionState`** (`contracts/state.ts`, `core/projection.ts`, planning half of `recovery.ts`).
`TRANSITIONS` is the table of the eight machines, an event is a record of what it does to the
projection, `Apply` is `SessionProjector.apply` with its two halts (corrupt, newer version), and
`Closings` is `planRecovery`. It has no variables: `Recovery` and `TurnLoop` extend it.

**`Recovery`** (`core/recovery.ts`). The log grows by any event the projection accepts; the
process dies; the log is read once, the closings are planned, then appended one by one in the order
of the code (calls, approvals, steps, turns, attempts, tasks, runs), and the process may die
between any two, after which another recovery reads what is there.

**`TurnLoop`** (`core/driver.ts`, `tools/gateway.ts`, `policy/approval-broker.ts`). `at` is the
await the driver or the gateway is in. `runTurn` is StartTurn, UserMessage, the loop (LeaveLoop,
DrainSteer, StartStep), EndTurn and Catch; the model step is Prepare, StreamDone or StreamFailed,
RecordResponse, NextCall, Skip, Reply, FlushImages, BatchDone, EndStep; `gateway.invoke` is Snapshot,
Propose, Invalid, Decide, RequestApproval, Answer, RecordAnswer, NoSandbox, StartExecution,
ToolReturns, RecordResult. Beside them the user steers, pauses, resumes and aborts at any await, an
append may be refused (which poisons the store, its line on disk or not), a payload may be rejected, and
the process may die and recover. `told` is a history variable: what really ran, what was
decided, answered and steered, against which the log is judged. A stream is what `consumeStream` may
make of it: an answer with or without calls, a cut-off one, a failure, an abort. The policy answers anything.

**`Scheduler`** (`orchestration/scheduler.ts`). `sched` is the state of each task; `Ready` is the pending
tasks whose dependencies are complete, `Startable` the set that `startable()` picks in the order of the plan: each
start counts against the limits and the owned paths of the next. `StartAll`, `Finish` (with `skipDependents`), `SkipPending`
and `Add` are the operations. The graph is a constant; whether two owned paths overlap is a relation.

**`Coordinator`** (`orchestration/coordinator.ts`) is a run from the approval of its plan to its end. `at[t]` is the await
`runTask(t)` or `runIntegrationReview(t)` is in, `task[t]` is `entry.state`; every move goes through the task table
of `SessionState` and throws when the table does not have it. `main` is where the run loop stands (starting tasks, waiting for the
first of those in flight, consulting the orchestrator over steers, draining). `turns` is the queue of `orchestratorTurn`: triage, the loop's
consultation and their plan revisions take it one at a time; `reviseVerification` does not, as in the code. `count` holds the variables of `runTask`
(retries, revisions, fresh packets, reviews of an artifact) and the attempts made. Reports, verdicts and decisions of the
orchestrator are any the code distinguishes. The user steers, cancels an attempt or interrupts the run, and the budget may be
exhausted, at any moment. A step of the harness that throws (`MayFail`) ends `runTask` in the catch of the loop.

**`Isolation`** (`orchestration/isolation.ts`, with the calls of `worker-manager.ts` and `coordinator.ts`). A file is a content, and a content is
who wrote it: nobody, the base commit, the user, a task. An attempt gets a detached worktree (a copy of the main tree's changed files, then
their identities), goes on in the worktree of the attempt before it, or waits for a slot and works in place under a snapshot. Then it
works, is collected and judged, and is integrated (path by path from a worktree), or given up: reverted, disposed (`Retire`), or tried again.
`foreign` is what others integrated while an attempt in place was active, which its revert must leave alone. At its end a task reverts all its
attempts when it failed, and disposes of them. Outside it the user edits the tree, a process an attempt left behind writes late, and the
process may die; the next start prunes. `hasty` is the one history variable: the paths that changed between two reads of the same operation, the
windows the properties name as exceptions.

**`McpManager`** (`mcp/manager.ts`, `approvals.ts`). A slot belongs to a server and to a generation: a reload makes the
slots of the next generation, stops the old ones one by one, and only then puts the new ones to use. `slot` has its fields
(`connecting` is the start in flight, `connection` may be closed), `conn` what became of each start, `registry` whose tools are
registered. `doing` is what each caller awaits: the user gives one command at a time, every worker makes one call at a time, and a
start settles at any moment (connected, failed, wants a sign-in, or no longer wanted, in which case it closes its own connection). `Close` awaits
no start. A worker takes a tool from the registry (`Take`) and asks the manager for the connection later (`Call`), of the slot that is then in
use: in between lie the gateway's policy and approval. A reload finds each server unchanged, changed, gone or new, and on or off. `astray` is
history only (section 4).

The `MC*` modules only give constants their values: identifiers for TLC's model values, symmetry
where the writers are interchangeable, small families of entities. Operators whose name has a suffix
(`OpenLog_OffByOne`) and whose comment begins with "Mutated" are plausible wrong versions of the
definition that follows them; `mutants` names the property each of them breaks. No specification uses
them.

## 4. Runs

| Run | Specification and bounds | What it shows |
| --- | --- | --- |
| `writers` | two openers that may die anywhere, TTL 2, mutex stale after 1, clock to 3, two lines | `MutexExclusion`, `RenewalNeverOverwrites`, `LiveLeaseKept`; `LogStaysDense`, `OneVerified`: a second opener continues the log of one that died, or waits for one that lives, wherever in an append, a renewal or a release it is; `CallsEnd`: the mutex of a dead process does not block the other for good |
| `lease_crash` | three openers, one may die | violated: two bodies in the mutex (section 6) |
| `log_safe` | fork starting at seq 3, lines of 1 and 2 bytes, segments of 4, 4 appends, 2 faults, 1 fork; process and io faults, or power losses | `AckedReadable`, `PositionExact`, `ForkHistoryStable`, and the refinement `ImplementsDurableLog` |
| `log_power_after_crash` | 3 appends, one death, one power loss | violated: a gap in the middle of the log (section 6) |
| `recovery` | any 3 entities of 8, 2 crashes | `NeverCorrupt`, `NothingOpen`, `OutcomeUnknown`, `EndedStays` |
| `turn_loop` | one turn of 2 steps and 2 calls, 1 steer, 1 failed append, 1 crash, pauses and an abort anywhere | `RecordedBeforeRun`, `LogTellsWhatRan`, `AnsweredOnce`, `TurnLeavesNothingOpen`, `SteersKept`, `AbortStopsBatch`, `NeverCorrupt`, `AbortEndsTurn` |
| `coordinator` | four planned tasks and one that may be added, five setups, every budget at 1, 2 versions of the plan, one thing the user or the clock does | `RunningApart`, `WithinLimits`, `NeverStuck`, `AttemptsBounded`, `RunSettled`, `UserCancelIsFinal`, `RunEnds` |
| `plan_revision` | the same plan, two tasks whose verification cannot run, 3 versions of the plan | violated: two versions of the plan are approved (section 6) |
| `isolation` | two tasks, two paths, nine plans of faults and edits | `AsReviewed`, `LeftoversAreIntegrated`, `WorkspacesFollowTheirTasks`, `RevertKeepsCompletedWork`, `EditsAreSeen`, `EveryTaskEnds` |
| `retired_revert` | one task in place that may be tried again beside one in a worktree, no faults | violated: a revert takes a completed task's work back (section 6) |
| `leaked_slot` | two tasks in place, a dispatch may fail | violated: a task waits for a slot that is never released (section 6) |
| `mcp` | two servers, one of them with approval and installed, one worker, 4 commands or calls, 1 reload | `EndsWithSession`, `OffMeansStopped`, `OneProcess`, `NothingUnlisted` |

Why the bounds are enough.

- *Lease and writers:* the races need one process inside the mutex and one to judge it; a third opener meets only the
  race of `lease_crash`, which needs a dead process and two contenders. Time matters relative to the TTL and the staleness of the
  mutex, and the clock runs past a lease lifetime and the mutex's. Two lines are one before and one after a takeover. For any number of openers
  that do not die, the proofs of section 7 say the same without a bound.
- *Log:* four appends of one or two bytes into segments of four bytes fill one segment exactly, overflow it, and open a
  third one; two faults are what it takes to damage a repaired log again. The fork case `FirstSeq = 3` subsumes a plain session,
  whose first seq is 1, because the code treats both alike through `firstOwnSeq`.
- *Recovery:* closings of different entities interact only through the projection's halt, so pairs and triples show every
  order; the proof removes the bound.
- *Turn:* two calls give a batch with a first and a rest, two steps a request after a batch, one steer is enough to be early,
  late or left over, and one refused append poisons the store for good, so a second one adds nothing.
- *Coordinator:* the plan has an implementer, an explorer beside it, a reviewer of the implementer and an integration review, so
  that one failure meets a running sibling, a dependent, a dependent of both, and a task added meanwhile that owns the same path. Each of the five
  setups lets one thing go wrong in every way: the harness and the reviews of one task (`troubled`), its reports, a verification that cannot
  run, an approval the user is asked for, a request for context. Every budget is 1, hence met and exceeded; limits of 2 are reached by three tasks. One
  event of the user or the clock at any moment is what the reactions of the code tell apart; two of them meet different guards, and the
  theorems cover any number.
- *Isolation:* the cases are pairs: an attempt with one that integrates beside it, with the user's edit, with its own predecessor in the same
  worktree, with a task after it over the same files. Two tasks, a file of the base and a new one, and at most two attempts give
  each; the nine plans name the faults that meet in one behaviour (`AnyPlan`), since all at once is beyond TLC. The theorems hold for any
  tasks, paths, attempts and faults.
- *MCP:* a server's races need a start, a stop that awaits it, and a caller that joins; four commands or calls
  after the start of the session give every pair of commands with a call between them, and one more to meet what they left. One reload has every server
  unchanged, changed, gone or new, and on or off. The second server, which the reload finds or does not, is there because a server may be new. The theorems hold for any number of all of these.

The four MCP properties and their theorems leave out the servers in `astray`, a history variable that no guard reads: a server is put
there when a start of it is begun while its slot has a live connection (an approve of a connected server; a reconnect that finds the server
connected by a call since its stop), or after a reload had come to its slot (a call meanwhile). These are the moments in which the code
does leak a process (section 6); nothing else is barred or excepted.

Deadlock is not checked in any run: processes, turns, runs and sessions end, and the bounds stop the models.
`TypeOK` says the shape of the variables; where a proof module states it, it is a theorem.

## 5. Fairness

- `SessionLease`, `SessionWriters`: weak fairness of every writer's next file operation while it lives. The event
  loop runs the continuation of a finished call; a live process is not suspended for ever. No fairness for
  crashes, nor for the caller's decision to release.
- `TurnLoop`: weak fairness of the driver's and the gateway's steps (the event loop), of a tool's return
  (each has a timeout that aborts its signal), and of the end of a stream and of an approval *only once
  the turn is aborted* (both listen to the signal). A stream or an approval that is not aborted may stay open
  for ever, and so may a pause.
- `Coordinator`: weak fairness of the harness as a whole: some continuation runs while there is one. An attempt ends (its turns are limited
  in time), a turn of the orchestrator ends, and a user who is asked for an approval answers. Nothing is assumed of
  which task goes first, of steers, cancels, interrupts or the budget.
- `Isolation`: weak fairness of each task's steps and of the start that prunes after a crash; none of edits, late writes or
  crashes, which the plans bound.
- `Recovery` and `McpManager` state safety only, without fairness.

## 6. Findings

Five runs show that the program does something else than a comment, a doc or a test says; PROJECT.json
quotes the lines.

1. `lease_crash` (`store/lease.ts:74`). A process dies inside the mutex. Two contenders read the same stale
   `lock.json.cas`; one removes it and creates its own, then the other one's `unlink`, which goes by name,
   removes that. Both are in the body that the comment says is exclusive. The race reaches the log: with a third
   opener in `writers` TLC finds a renewal and a takeover in the mutex together, the renewal writing last, and both
   writers between `verify()` and their write (`OneVerified`).
2. `log_power_after_crash` (`store/session-store.ts:119`). A process dies after `write` and before `datasync`. The next
   one reads the line as complete, goes on after it without syncing it, and rotates. A power loss then
   takes the line away and keeps the next segment: a gap, and the session is refused as corrupt.
3. `plan_revision` (`orchestration/coordinator.ts:1692`). A task whose verification cannot run replaces it by a revision of the plan that it
   makes outside the orchestrator's turn; another task's triage revises the plan inside it. Both supersede the version they found in force and approve
   their own: two versions are approved, and the first is superseded twice.
   Where approvals are asked for, the run itself fails: with `Setup("ask", ...)` and an unrunnable verification TLC finds `RunSettled`
   violated. The one revision has the run at `waiting_for_approval`, the other one's `moveRun` (1649) has no such step in the table and throws out of the
   loop's consultation, and the run ends "failed" with tasks in flight.
4. `retired_revert` (`orchestration/coordinator.ts:1776`). A failed task reverts all its attempts. Those it had disposed of before (a retry, a
   cancelled attempt) have lost their slot, and with it the record of what others integrated while they were active; so the file of a completed
   sibling counts as theirs and is restored from their snapshot.
5. `leaked_slot` (`orchestration/worker-manager.ts:699`). An attempt in place takes its slot when its workspace is made, and is registered
   much later; when a step in between throws, nothing ever gives the slot back, and the next task in place waits though nothing is active.

### Differences that TLC finds and no run keeps

- *Processes of an MCP server that outlive the session* (`EveryProcessEnds` in place of the invariants of `mcp`; line 17 of `mcp/manager.ts` says "Every
  server process ends with the session"). `/mcp approve` of a server that is approved and connected starts it again (254; `connect`, 313-315, looks
  only whether the slot is connecting); line 333 overwrites the first connection, and nothing closes it any more. So does a reconnect when a call
  has connected the server between its stop and its start (203-207). And a tool call connects a slot that a reload has stopped but not yet
  replaced (184-190, 114-115), which is then dropped with its process: `close()` stops the slots in use only. These are the servers in `astray`.
- *A start that never settles* (`CallsConnect` as a property of `mcp`). A reload copies the slot of an unchanged server with its start in flight
  (`mcp/manager.ts:109`), which when it settles clears the field of the old slot only. On the new slot `connect` (315) returns that start ever after, and no
  call connects the server again "on demand" (182).
- *A reload and the slots of unchanged servers* (`mcp/manager.ts:109`, 114). The slot of an unchanged server is copied and the old one stopped, so the
  copy still lists tools that are no longer registered ("registered now", line 31); `cli/conversation.ts:2547` reconnects only new names.
  `NothingUnlisted` is about what runs or is registered, which the copy is not.
- *A renewal after a suspension* (`store/lease.ts:189`; TLC finds it with `Suspendable = {w1}`, `RenewalNeverOverwrites`). The renewal
  checks its token, is suspended for longer than the TTL, and renames its file over the lease of the process that took over.
- *The summary right after a rotation* (`store/session-store.ts:296`; `SessionLog`'s `SummarySeq`). The last segment has no event, and the summary,
  which reads only that one, reports the last seq of an empty session; forking then refuses valid points.
- *The limit on spawned tasks* (`orchestration/coordinator.ts:1471`, 1743). It is compared with a list that every turn empties, so that two turns spawn more
  than the limit the message calls "per run"; `Spawnable` does as the code.

### Differences met while reading

- A renewal or a `verify()` that cannot read `lock.json` takes it for its own (`store/lease.ts:203`), and so may write over a lease that has been taken
  over; the model's reads do not fail.
- Recovery leaves tasks that are `verifying` or `reviewing` as they are: their table has no step to `interrupted` (`contracts/state.ts:179`,
  `core/recovery.ts:30`). A recovery that died right after `session/resumed` is not repeated for an attempt's session (`cli/runtime.ts:1261`).
- A pause that arrives during the append of a steer is noticed one step late (`core/driver.ts:199`, 229). If the first call's arguments
  cannot be stored, the turn goes on without a record of the call (`core/driver.ts:528`, 537).
- A task the scheduler has skipped with a failed dependency stays `draft` in the log (`orchestration/coordinator.ts:1796`;
  `docs/harness/reference/orchestration-and-context.md:69`); `RunSettled` allows it. An attempt the user cancels during the integration review is
  looked at again (966-974; comment at 1453): `UserCancelIsFinal` is about work tasks. A task that reports blocked, or has used up its revisions, ends
  by triage (1379-1423; lines 57 and 58 of the same doc).
- When the run loop itself throws, tasks in flight go on while `finish` closes the log. The integration review is dispatched without a look at
  the budget. The scheduler keeps the provider of a task as it was first routed (1434), though a retry routes anew (1072, 1086).
- A steer that an attempt accepts after its last step is dropped with its driver (`orchestration/worker-manager.ts:1616`). The wall clock is per
  turn, not per attempt; a cancel during the harness' own verification is seen after it, and may end as "succeeded".
- `populate` copies a file and reads its identity later (`orchestration/isolation.ts:1089`); `integrate` compares a path and writes it later (1507-1519): what
  the user saves between the two is written over. These are the exceptions in `EditsAreSeen`. An integration that fails half way leaves what it has
  written (`LeftoversAreIntegrated` says exactly that). With a third task such a leftover can come back: another owner of the path integrates over it, an
  attempt in place writes there, and its revert restores the leftover it found; hence the second half of that property. Prune restores a path the user
  has edited since, and an attempt's stray write over a file that a sibling has integrated is reverted to what was there before the attempt.

## 7. Proofs

Every theorem holds for every value of the constants that its module's named assumptions allow.

**`SessionWritersProofs`**: any set of writers, any TTL, clock bound and heartbeat, and any length of the log. Its first half is about
the lease alone (`SessionLease`):

- `TypeCorrect` (`Spec => []TypeOK`) with every fault. `TypeOK` is not inductive alone: that the third failed attempt is
  the last needs `LastTry`; `TInv` is their conjunction.
- `ExclusionCorrect`, `RenewalCorrect` and `LiveLeaseCorrect` assume `Reliable`: no writer dies or stalls inside a file
  operation. Both halves are needed: `lease_crash` is the counterexample to the one, the suspended renewal of section 6 to the other. The
  inductive invariant `IInv` says that the mutex file exists exactly while its writer is inside, with the present time in
  it (`MutexHeld`), that therefore nobody finds a stale mutex or has to put a lease back (`NoFault`), and that what a
  writer has read under the mutex is still true while it has it (`Checked`). Exclusion follows from `MutexHeld`, the two
  other theorems from `Checked`.
- Assumed of the constants: `WritersAssumption`, `TimesAssumption`, `SentinelAssumption`.

Its second half is about the same writers, which also append.
`LogKeepsItsOrder`, `OneWriterVerified` and `WritersExclude` assume `Reliable` as well, and that no time passes between `verify()` and the
write it lets through (`WTick`). The inductive invariant `WInv` adds four facts to `IInv`. `LockTime`: the lease on disk ends no
earlier than its writer thinks; it may end later, when the renewal failed after its rename. `Lease`: a lease in memory that is neither lost nor expired is the one on disk. `Job`: every
body of the mutex is entered for its own job. `Appender`: a writer that was let through still owns a lease that has not expired, and an appender
that owns the lease knows the end of the log, which is why the line it writes is the next one. Each is kept by the writer's own steps
(`OwnKeepsLease`, `OwnStepOfAppend`), by those of the others (`OthersKeepLease`: they neither take nor change a lease that lasts) and by time.

**`SessionLogProofs`**: any line and header sizes, any capacity and fork point, any number of appends, faults and forks
(`SegmentAssumption`, `NoLineAssumption`: the sentinel is no line).

- `PositionIsExact` and `ForksKeepHistory` hold whatever faults may happen together. `AckedStayReadable`, `TypeCorrect` and `FilesImplementLog` assume `PowerApart`:
  a fault model with power loss has no other fault in it. `log_safe` meets it, and `log_power_after_crash` is the counterexample without it (finding 2).
- The inductive invariant `SInv` is in two halves. `WInv` is about the writer: past the scan, at every await the segments have no damage (`Sound`) and the last of them is what
  that await needs (`Place`); what the writer remembers is what is there, but for the line under way (`Remembered`, `Pending`), which is the next one. `Sound` without a
  writer is claimed only while the faults so far were of one sort (`Safe`). The other half is about what was promised: with no fault but power loss
  (`Clean`) every segment before the last is on stable storage whole, and of the last one all but the line under way (`OnDisk`); an acknowledged line is in a segment, and
  then on stable storage (`Promises`); a fork's events begin the log (`Inherited`).
- That the log of undamaged segments has the lines in the order of their seq (`LogIs`) is shown segment by segment (`Upto`, `LaidNext`), from what concatenation does to
  `FlattenSeq` (`FlattenAppend`), and `Bytes` likewise (`BytesAppend`). These are inductions over a length; the prover cannot take the library's induction
  theorem, which has an operator for a parameter, so `Induct` states it of a set of numbers and follows from the well-foundedness of `<`.
- `FilesImplementLog` is the refinement. A line's place in the log is its seq (`Placed`), so the promised prefix changes only where `acked` or the log does: `WriteLine`, and an interrupted
  one, is `Write`; `SyncLine` is `Promise`; `PowerLoss` is `Lose`, since what it leaves is a prefix (`LogShortens`) that still has every acknowledged line (`PowerLossSafe`).
  Every other step, each by its own lemma, leaves the log as it was, header and rotation included.

**`SessionStateProofs`** holds what recovery and the turn loop both rest on: what `Apply` does to a well-formed projection (`ApplyMoves`) and what
`Closings` plans for it.

**`RecoveryProofs`**: any sets of entities, any history the writers may have left, and any number of interrupted
recoveries. The inductive invariant `Inv` says that the projection is well formed and never corrupt, that while recovery is under way
what it has left to append is exactly what a new reading of the log would plan (`PlanCurrent`), and that nothing is to be
closed once it has returned. The argument rests on four lemmas: a closing belongs to one entity and that entity has no other
(`ClosingFields`, `ClosingsByEntity`, in `SessionStateProofs`), it is accepted in the state the entity is in and moves no other entity
(`ApplyMoves`), and it takes the entity to a state that needs no closing (`ClosingCloses`). So appending one removes
itself from the plan and nothing else. The theorems: `TypeCorrect`, `RecoveryNeverCorrupts`, `OnlyReadableIsRecovered`,
`RecoveryIsIdempotent`, `RecoveryClosesEverything`, and the action properties `OutcomesStayUnknown` and `EndedForGood`.
Assumed: `AbsentAssumption` (the sentinel is not a state) and `BoundAssumption`.

**`TurnLoopProofs`**: any number of turns, steps, calls, steers, refused appends and crashes. The inductive invariant `Inv` is a conjunction of named facts
about three things that must agree at every await.

- *Log and driver.* While the store takes appends, the log has exactly the turn and the step open that the driver is in, and the state of the call in the
  gateway that its await needs (`InTurn`, `InCall`); calls and approvals not yet reached are unknown to it (`Unknown`). A refused append poisons
  the store, which then takes nothing until the process is gone (`Poisoned`): that is what makes the one event that may or may not be on disk harmless.
  Recovery starts from what the log says (`Planned`), not from what the driver knew.
- *Log and what really happened.* A call that ran has its start in the log, one the log calls done did run, none runs twice (`Told`); each call of a turn that has
  come back has its one answer and, if no append failed, is closed (`Answered`, `ServedClosed`); after an abort at most one more starts (`Late`).
- *Steers.* Queue, log and leftovers are in the order of their arrival and in this order among themselves, and nothing given is missing (`Steering`).

Each await is a lemma that keeps all of it. The theorems: `TypesHold`, `NeverCorruptHolds`, `RecordedBeforeRunHolds`, `LogTellsWhatRanHolds`,
`AnsweredOnceHolds`, `TurnLeavesNothingOpenHolds`, `AbortStopsBatchHolds`, `SteersKeptHolds`; that is every safety property of the run `turn_loop`.

**`CoordinatorProofs`**, first of the scheduler: any finite graph without cycles, any limits, and any order of `start`, `finish`, `skipPending` and `add`.

- `OwnersRunApart`: what one `startable()` picks is apart from what runs and from itself, and a completed task stays completed.
- `LimitsHold` counts over a set chosen at once: the task last in the plan's order (`LastTask`) was admitted against the count of all
  the others, which bounds the whole.
- `NothingGetsStuck`: the invariant `DependenciesOpen` says that no pending task waits for one that failed, was skipped or is unknown, which is what
  `skipDependents` and the check in `add` are for. With nothing running, a pending task that no pending task comes before exists because the graph has no cycle
  (`AcyclicAssumption`, which `createDagScheduler` enforces), is ready, and fits, as both limits are at least one.

Then of a run: any plan, setups, budgets and number of events.

- `RunSchedules` (`Spec => SchedSpec`) is the refinement: every step of a run is a step of the scheduler or leaves it alone. The run adds to the graph only tasks
  the scheduler does not know yet, with known dependencies (`SpawnedKnown`). The scheduler's three invariants then hold of every run.
- `AttemptsArePaidFor`: `CostInv` says of each task that its attempts are at most its retries, its revisions as far as the limit, and its fresh packets, plus
  the present one unless it is still owed (`Paid`). Each action of `runTask` is a lemma that keeps this. A revision is counted before it is
  compared with its limit, hence `Within`. Assumed: `BudgetAssumption`.
- `CancelIsFinal`: `CancelInv` says that the task of an attempt the user cancelled is still at that attempt, or has come to its end, so no action that dispatches or
  integrates is open to it.

- `RunEndsSettled`: the inductive invariant `SettleInv` says of each task that the await `runTask` is in, the scheduler's state and the log's agree
  (`Placed`); that a decision is one that is offered where the task stands (`Deciding`); that the queue of turns holds exactly who waits for one (`Queued`), and a
  revision made in the turn belongs to its holder (`TurnHeld`); and that the run waits for the user exactly while that revision asks (`OneAsks`), so
  that no move of the run is refused. It assumes `OneReviser`: where approvals are asked for, no verification turns out unrunnable. Without it
  the theorem is false (finding 3). `NameAssumption` keeps the names of the queue's members apart.

**`IsolationProofs`**: any tasks, paths, attempts, faults and edits (`PlansOK`).

- `TypeCorrect`, from `TInv == TypeOK /\ Started`: an attempt under way is one that was begun.
- `EditsSeen`: `EInv` follows each path that nobody has touched half way. Between copy and identity it is what the copy is (`Seen`); while the attempt has its
  worktree, identity and copy agree; and while it is being integrated the path is still what it was compared to be. A step of one
  task leaves the others' workspaces alone (`Frame`), and what it does to the tree falls under `Watch`, which makes a path hasty exactly when another task
  is half way through it (`OthersSeen`).
- `WorkspacesFollow`: `Placed` says that a task's worktrees were opened by its own attempts, that the holder of a worktree on disk is the attempt whose workspace
  it is, that what the next attempt is to go on in is there, and that a task that has ended without a failed dispatch holds nothing.
- `IntegratedAsReviewed` and `LeftoversIntegrated`, both from `RInv`. Only one task works in place, and has a slot for it (`InPlace`). What an attempt finds of
  another task's work was in its snapshot, or it was told of it (`Pure`); so what is pinned for a task brings nobody else's work (`Alone`). What is
  integrated was pinned for an owner of the path who has been judged for good, after which nothing more is pinned (`Booked`, `Past`). And the task's work in the main
  tree was either integrated, or an attempt in place still stands that will take it back (`Traces`, `Answers`); for that no snapshot may hold what somebody
  may still have to take back (`Snapshots`): a snapshot is taken with the slot, when no other attempt in place is left to answer for anything.
- `RevertKeeps` (`RevertKeepsCompletedWork`), on the same invariants and `CInv`. An attempt in place is its task's last, and that task has not completed (`Latest`).
  Of another task's work it finds what its snapshot has or what it was told of (`Told`), so its revert lists nobody else's work, and what
  comes there after the list was made is hasty (`RestoresOwn`). No attempt finds anything old that its workspace did not begin with, so none pins, seeds or
  integrates it (`Fresh`, `PinsNew`). The pruning after a crash asks nobody what it was told, but takes back owned paths only, and of these the
  snapshot has all there is of another's work (`Told`). The theorem has two hypotheses about the behaviour; without either TLC finds a counterexample in an instance the run does not have:
  - `DisposedAlone`: nobody else works in place while an attempt disposed of before is reverted. With three tasks a revert of finding 4 puts base content under
    an attempt in place, which pins that as its own change; its next attempt is seeded with it, over what another task has completed meanwhile.
  - `OwnersApart`: no task integrates a path while another owner of that path works in place. The scheduler sees to it (`OwnersRunApart`); `Plans`
    does not say it. Without it (two owners at once, a crash) the pruning takes the integrated work back.

**`McpProofs`**: any servers, workers, commands and reloads (`BoundsAreNat`, `NoneApart`, `UserIsNoWorker`, `AsksAreServers`).
`NothingOutlivesSession`, `UnwantedIsStopped`, `WhatRunsIsListed` and `RunsAtMostOnce` are about the servers that are not `astray`, without a further hypothesis; for
the others TLC finds counterexamples (section 6). The inductive invariant, too, speaks of these servers only. `RunInv`: an open connection is the one its slot knows and its server is registered;
a start in flight is its slot's `connecting`, with nothing open on that slot; all of them are of the slots in use, and after `close` nothing is open or
registered. `CommandInv`: a server that is off, not approved, or that a reload has passed, is active only while the command that stops it is on it, and that
command awaits the start in flight, unless a call may have begun it since on a slot that is still usable. `KnownInv`: what a slot has as its connection has
settled. `StartInv`: nobody does anything before the session starts. The proof is per action; those that begin a start (`Connects`) either make the server
astray or find its slot with nothing open. One process per server then follows from `RunInv` alone: two open connections are of one slot, and it knows one.

Only model-checked: all liveness (`CallsEnd`, `AbortEndsTurn`, `RunEnds`, `EveryTaskEnds`), since the prover has
neither fairness nor ENABLED; and that the segments are never damaged when power is lost after another fault, which is false (`log_power_after_crash`).

## 8. Not modelled

- *Planning and the ends of a run*: the loop before the first approval, resuming a run, the ledger, notices, packets and reports (`coordinator.ts`, `planner.ts`).
- *Attempts from inside*: what the worker manager does with pauses, steers, report-only turns, repair, capabilities and the wall clock; an attempt's turns
  are those of `TurnLoop`, its workspace is in `Isolation`, its end in `Coordinator`.
- *Isolation*: names, line endings, links, submodules, ignored and generated files, and git itself; a file is its content, and git does what it is asked or fails.
- *MCP*: servers without tools (`/mcp enable` starts a connected one of these again, `mcp/manager.ts:245`), the sign-in dialogue, configuration files, the transport, what a tool returns, and Claude's own servers.
- *Budget*: what requests cost, cancellation at the threshold, the human raise; `Coordinator` lets it be exhausted at any moment.
- *Blob store, authentication, background processes, memory, history and compaction, routing, policy layers, evidence and review, Claude Code backend*: not
  modelled; the hazards of those that have state are listed, each with its note.
- *Left out for good*: text and formats (prompts, schemas, wire formats, shell classification, patch application, pointer
  resolution), screens and arguments, the generator of project structures, network dialogues of the login flows. None has
  state that interleaves with anything. They are most of the repository's lines.
- *In the modelled parts*: manifests, permissions and directory listing of sessions; correlation ids, names and budgets carried by
  events; argument schemas, redaction and hooks of the gateway (they decide which branch is taken, and every branch is there);
  the content of messages; a log that a newer version wrote (`SessionLog`: it is refused before anything changes, `store/session-store.ts:125`); the
  digests for which an approval was granted (`TurnLoop` has one `granted` flag, and lets any later call be covered by it or not).
