----------------------------- MODULE Isolation -----------------------------
(***************************************************************************)
(* The workspaces of the attempts of a run over the user's main tree       *)
(* (orchestration/isolation.ts), as the worker manager and the coordinator *)
(* use them: an attempt works in a detached worktree, or in place          *)
(* ("scoped-dir") under a snapshot of the tree; what was reviewed is       *)
(* integrated; what is given up is reverted, and every workspace disposed. *)
(* The user edits the main tree at any time, and the process may die.      *)
(*                                                                         *)
(* A file is its content, and a content is who wrote it: the base commit,  *)
(* the user or a task.  An action is the code between two awaits at which  *)
(* another task or the user may change what it reads.                      *)
(***************************************************************************)
EXTENDS Naturals

CONSTANTS
  Task, Path,
  Plans,           \* what each task owns, reads, wants and comes after; which faults may
                   \* happen; bounds: attempts of a task, and what the user may edit (once)
  InHead,          \* the files of the base commit
  Absent, Head, User,
  MaxAttempts      \* bound of the bounds

Attempt == Task \X (1..MaxAttempts)
Content == Task \cup {Absent, Head, User}
Tree == [Path -> Content]
Changes == UNION {[S -> Content] : S \in SUBSET Path}
Workspace == [mode : {"none", "worktree", "scoped-dir"}, lease : Attempt, before : Tree,
              copied : SUBSET Path, identity : Tree, dir : {"none", "active", "integrated", "gone"}]

ASSUME PlansOK ==
  /\ MaxAttempts \in Nat /\ InHead \subseteq Path
  /\ {Absent, Head, User} \cap Task = {} /\ User \notin {Absent, Head}
  /\ Plans \subseteq
       [owned : [Task -> SUBSET Path], reads : [Task -> SUBSET Path],
        wants : [Task -> {"worktree", "scoped-dir"}], after : [Task -> SUBSET Task],
        attempts : [Task -> 0..MaxAttempts], faults : SUBSET STRING, edits : SUBSET Path]

HeadTree == [p \in Path |-> IF p \in InHead THEN Head ELSE Absent]
Nothing == [p \in {} |-> Absent]

VARIABLES
  plan,
  main,            \* the main tree
  edited,          \* the paths the user has edited (each once)
  hasty,           \* those that changed under a copy, an integration or a revert half done
  integrated,      \* digests of what this provider integrated
  ws,              \* the workspace of each attempt
  tree,            \* the files of each worktree
  onDisk,          \* the worktrees there are, by the attempt that opened them
  holder,          \* lease.holder
  slots,           \* the scoped-dir attempts that hold a slot
  foreign,         \* slot.foreign
  at,              \* where the task stands
  next,            \* where a revert goes on
  tries,           \* attempts so far
  cursor,          \* the attempt being reverted
  unlisted,        \* attempts whose dispatch failed after their workspace was made
  reuse,           \* entry.reuseFrom
  pinned,          \* the change set of the last completion
  todo,            \* paths still to restore or to write
  process

treeVars == <<ws, tree, onDisk, holder>>
slotVars == <<slots, foreign>>
taskVars == <<next, tries, cursor, unlisted, reuse, pinned, todo>>
vars == <<plan, main, edited, hasty, integrated, treeVars, slotVars, at, taskVars, process>>

NoWorkspace(a) == [mode |-> "none", lease |-> a, before |-> HeadTree, copied |-> {},
                   identity |-> HeadTree, dir |-> "none"]

Init ==
  /\ plan \in Plans
  /\ main = HeadTree /\ edited = {} /\ hasty = {} /\ integrated = Nothing
  /\ ws = [a \in Attempt |-> NoWorkspace(a)] /\ tree = [a \in Attempt |-> HeadTree]
  /\ onDisk = {} /\ holder = [a \in Attempt |-> a]
  /\ slots = {} /\ foreign = [a \in Attempt |-> Nothing]
  /\ at = [t \in Task |-> "create"] /\ next = [t \in Task |-> "none"]
  /\ tries = [t \in Task |-> 0] /\ cursor = [t \in Task |-> 0] /\ unlisted = {}
  /\ reuse = [t \in Task |-> 0] /\ pinned = [t \in Task |-> Nothing]
  /\ todo = [t \in Task |-> {}] /\ process = "up"

Current(t) == <<t, tries[t]>>
Own(t) == plan.owned[t]

\* Faults: a worktree cannot be opened ("open"), a dispatch fails after its workspace was
\* made ("prepare"), an integration fails half way ("write"), an attempt writes outside its
\* paths ("stray") or after its end ("late"), the process dies ("crash").
May(fault) == fault \in plan.faults
With(f, g) == [p \in DOMAIN f \cup DOMAIN g |-> IF p \in DOMAIN g THEN g[p] ELSE f[p]]

\* The files an attempt works on.
Files(a) == IF ws[a].mode = "worktree" THEN tree[ws[a].lease] ELSE main

\* What a scoped-dir attempt does not answer for: another workspace integrated it meanwhile.
Foreign(a, p) == a \in slots /\ p \in DOMAIN foreign[a] /\ foreign[a][p] = Files(a)[p]

ChangeSet(a) ==
  [p \in {q \in Path : Files(a)[q] # ws[a].before[q] /\ ~Foreign(a, q)} |-> Files(a)[p]]

\* A copy is kept with the snapshot; without it only the base commit can be consulted.
Restorable(a, p) ==
  \/ ws[a].before[p] = Absent
  \/ ws[a].dir # "gone"
  \/ p \in InHead /\ ws[a].before[p] = Head

\* The paths a task is half way through: copied but not identified, compared but not
\* written, listed but not restored; and those that another writes meanwhile.
Underway(t) ==
  CASE at[t] = "identify" -> ws[Current(t)].copied
    [] at[t] \in {"write", "restore"} -> todo[t]
    [] OTHER -> {}

Watch ==
  hasty' = hasty \cup
    {p \in Path : main'[p] # main[p] /\ \E t \in Task : p \in Underway(t) \cap Underway(t)'}

Ended(t) == at[t] \in {"completed", "failed"}
Go(t, to) == at' = [at EXCEPT ![t] = to]

-----------------------------------------------------------------------------
(* create *)

Skip(t) ==
  /\ at[t] = "create" /\ tries[t] = 0
  /\ \E s \in plan.after[t] : at[s] = "failed"
  /\ Go(t, "failed")
  /\ UNCHANGED <<plan, main, edited, integrated, treeVars, slotVars, taskVars, process>>

Dirty == {p \in Path : main[p] # HeadTree[p]}
Ours == {p \in Dirty : p \in DOMAIN integrated /\ integrated[p] = main[p]}
Overlap(t) == (Dirty \ Ours) \cap Own(t)
Blocked(t) == {p \in Overlap(t) : p \notin InHead \/ main[p] = Absent}

Create(t) ==
  /\ at[t] = "create" /\ tries[t] < plan.attempts[t]
  /\ \A s \in plan.after[t] : at[s] = "completed"
  /\ tries' = [tries EXCEPT ![t] = @ + 1]
  /\ IF plan.wants[t] = "worktree" /\ Blocked(t) = {}
     THEN /\ Go(t, "open")
          /\ ws' = [ws EXCEPT ![<<t, tries[t] + 1>>].copied = Ours \cup Overlap(t)]
     ELSE Go(t, "slot") /\ UNCHANGED ws
  /\ UNCHANGED <<plan, main, edited, integrated, tree, onDisk, holder, slotVars,
                 next, cursor, unlisted, reuse, pinned, todo, process>>

\* populate: the worktree gets the base commit and a copy of what is ours.
Populate(t, l) ==
  LET a == Current(t)
      files == [p \in Path |-> IF p \in ws[a].copied THEN main[p] ELSE HeadTree[p]]
  IN /\ tree' = [tree EXCEPT ![l] = files]
     /\ ws' = [ws EXCEPT ![a] =
          [mode |-> "worktree", lease |-> l, before |-> files, copied |-> @.copied,
           identity |-> @.identity, dir |-> "none"]]
     /\ Go(t, "identify")

ReuseWorktree(t) ==
  /\ at[t] = "open" /\ reuse[t] > 0
  /\ Populate(t, ws[<<t, reuse[t]>>].lease)
  /\ UNCHANGED <<plan, main, edited, integrated, onDisk, holder, slotVars, taskVars, process>>

\* What is left when a worktree that could not be reset has been discarded.
Kept(t) == IF reuse[t] > 0 THEN onDisk \ {ws[<<t, reuse[t]>>].lease} ELSE onDisk

OpenWorktree(t) ==
  /\ at[t] = "open" /\ (reuse[t] = 0 \/ May("open"))
  /\ Populate(t, Current(t)) /\ onDisk' = Kept(t) \cup {Current(t)}
  /\ UNCHANGED <<plan, main, edited, integrated, holder, slotVars, taskVars, process>>

OpenFails(t) ==
  /\ at[t] = "open" /\ May("open")
  /\ onDisk' = Kept(t) /\ Go(t, "slot")
  /\ UNCHANGED <<plan, main, edited, integrated, ws, tree, holder, slotVars, taskVars, process>>

\* The identities of what was copied are read after the copies were made.
Identify(t) ==
  LET a == Current(t) IN
  /\ at[t] = "identify"
  /\ ws' = [ws EXCEPT ![a].identity = [p \in Path |-> IF p \in ws[a].copied THEN main[p] ELSE HeadTree[p]]]
  /\ holder' = [holder EXCEPT ![ws[a].lease] = a]
  /\ Go(t, "prepare")
  /\ UNCHANGED <<plan, main, edited, integrated, tree, onDisk, slotVars, taskVars, process>>

\* acquireSlot and ScopedSnapshot.take: the snapshot has what is integrated in between.
AcquireSlot(t) ==
  LET a == Current(t) IN
  /\ at[t] = "slot"
  /\ \A b \in slots : b[1] = t
  /\ slots' = slots \cup {a}
  /\ ws' = [ws EXCEPT ![a] =
       [mode |-> "scoped-dir", lease |-> @.lease, before |-> main, copied |-> @.copied,
        identity |-> @.identity, dir |-> "active"]]
  /\ Go(t, "prepare")
  /\ UNCHANGED <<plan, main, edited, integrated, tree, onDisk, holder, foreign, taskVars, process>>

-----------------------------------------------------------------------------
(* prepare, and the attempt *)

Write(t, p, c) ==
  LET a == Current(t) IN
  IF ws[a].mode = "worktree"
  THEN tree' = [tree EXCEPT ![ws[a].lease][p] = c] /\ UNCHANGED main
  ELSE main' = [main EXCEPT ![p] = c] /\ UNCHANGED tree

\* A revision continues from the artifact of the attempt before it.
Seed(t) ==
  LET a == Current(t) IN
  IF ws[a].mode = "worktree"
  THEN tree' = [tree EXCEPT ![ws[a].lease] = With(@, pinned[t])] /\ UNCHANGED main
  ELSE main' = With(main, pinned[t]) /\ UNCHANGED tree

Prepare(t) ==
  /\ at[t] = "prepare"
  /\ Seed(t) \/ UNCHANGED <<main, tree>>
  /\ reuse' = [reuse EXCEPT ![t] = 0] /\ Go(t, "working")
  /\ UNCHANGED <<plan, edited, integrated, ws, onDisk, holder, slotVars,
                 next, tries, cursor, unlisted, pinned, todo, process>>

PrepareFails(t) ==
  /\ at[t] = "prepare" /\ May("prepare")
  /\ Seed(t) \/ UNCHANGED <<main, tree>>
  /\ unlisted' = unlisted \cup {Current(t)} /\ Go(t, "failing")
  /\ UNCHANGED <<plan, edited, integrated, ws, onDisk, holder, slotVars,
                 next, tries, cursor, reuse, pinned, todo, process>>

\* The policy keeps file tools inside the owned paths; a command may write elsewhere,
\* and a process it left behind may write after the attempt has ended.
Work(t) ==
  /\ at[t] = "working" \/ (May("late") /\ at[t] = "judged")
  /\ \E p \in IF May("stray") THEN Path ELSE Own(t) :
       Files(Current(t))[p] # t /\ Write(t, p, t)
  /\ UNCHANGED <<plan, edited, integrated, ws, onDisk, holder, slotVars, at, taskVars, process>>

Complete(t) ==
  /\ at[t] = "working"
  /\ pinned' = [pinned EXCEPT ![t] = ChangeSet(Current(t))] /\ Go(t, "judged")
  /\ UNCHANGED <<plan, main, edited, integrated, treeVars, slotVars,
                 next, tries, cursor, unlisted, reuse, todo, process>>

-----------------------------------------------------------------------------
(* The coordinator accepts the work, gives it another attempt, obeys the     *)
(* user's cancel, or fails the task.                                         *)

Judge(t) ==
  /\ at[t] = "judged"
  /\ \/ Go(t, "integrate") /\ UNCHANGED <<next, cursor>>
     \/ Go(t, "failing") /\ UNCHANGED <<next, cursor>>
     \/ \E then \in {"failing"} \cup IF tries[t] < plan.attempts[t] THEN {"create"} ELSE {} :
          /\ Go(t, "revert") /\ next' = [next EXCEPT ![t] = then]
          /\ cursor' = [cursor EXCEPT ![t] = tries[t]]
  /\ UNCHANGED <<plan, main, edited, integrated, treeVars, slotVars,
                 tries, unlisted, reuse, pinned, todo, process>>

\* Mutated: what the attempt wrote elsewhere is left.
Revert_OwnedOnly(t) ==
  LET a == <<t, cursor[t]>> IN
  /\ at[t] = "revert" /\ Go(t, "restore")
  /\ todo' = [todo EXCEPT ![t] =
       IF ws[a].mode = "scoped-dir"
       THEN {p \in DOMAIN ChangeSet(a) : p \in Own(t)} ELSE {}]
  /\ UNCHANGED <<plan, main, edited, integrated, treeVars, slotVars,
                 next, tries, cursor, unlisted, reuse, pinned, process>>

\* Only a scoped-dir attempt is reverted; a declared input keeps its change.
Revert(t) ==
  LET a == <<t, cursor[t]>> IN
  /\ at[t] = "revert" /\ Go(t, "restore")
  /\ todo' = [todo EXCEPT ![t] =
       IF ws[a].mode = "scoped-dir"
       THEN {p \in DOMAIN ChangeSet(a) : p \in Own(t) \/ p \notin plan.reads[t]} ELSE {}]
  /\ UNCHANGED <<plan, main, edited, integrated, treeVars, slotVars,
                 next, tries, cursor, unlisted, reuse, pinned, process>>

Restore(t) ==
  LET a == <<t, cursor[t]>> IN
  /\ at[t] = "restore"
  /\ \E p \in todo[t] :
       /\ todo' = [todo EXCEPT ![t] = @ \ {p}]
       /\ main' = IF Restorable(a, p) THEN [main EXCEPT ![p] = ws[a].before[p]] ELSE main
  /\ UNCHANGED <<plan, edited, integrated, treeVars, slotVars, at,
                 next, tries, cursor, unlisted, reuse, pinned, process>>

\* retire: a worktree is kept for the next attempt, any other workspace is disposed.
Retire(t) ==
  LET a == <<t, cursor[t]>> IN
  /\ at[t] = "restore" /\ todo[t] = {} /\ next[t] # "none"
  /\ Go(t, next[t]) /\ next' = [next EXCEPT ![t] = "none"] /\ cursor' = [cursor EXCEPT ![t] = 0]
  /\ IF ws[a].mode = "worktree"
     THEN reuse' = [reuse EXCEPT ![t] = cursor[t]] /\ UNCHANGED <<ws, slots, foreign>>
     ELSE /\ ws' = [ws EXCEPT ![a].dir = "gone"] /\ slots' = slots \ {a}
          /\ foreign' = [foreign EXCEPT ![a] = Nothing] /\ UNCHANGED reuse
  /\ UNCHANGED <<plan, main, edited, integrated, tree, onDisk, holder,
                 tries, unlisted, pinned, todo, process>>

-----------------------------------------------------------------------------
(* integrate *)

\* Mutated: the identity is read when it is needed.
Base_Reread(a, p) == IF p \in ws[a].copied THEN main[p] ELSE HeadTree[p]

\* The content the worktree of the attempt was made from, as integrate knows it.
Base(a, p) == IF p \in ws[a].copied THEN ws[a].identity[p] ELSE HeadTree[p]

Conflict(a, changes) ==
  \E p \in DOMAIN changes : main[p] # Base(a, p) /\ main[p] # changes[p]

IntegrateRefused(t) ==
  LET a == Current(t)  changes == ChangeSet(a) IN
  /\ at[t] = "integrate"
  /\ \/ changes # pinned[t]
     \/ ~(DOMAIN changes \subseteq Own(t))
     \/ ws[a].mode = "worktree" /\ Conflict(a, changes)
  /\ Go(t, "failing")
  /\ UNCHANGED <<plan, main, edited, integrated, treeVars, slotVars, taskVars, process>>

\* Mutated: whatever is there now is integrated.
IntegrateInPlace_Unpinned(t) ==
  LET a == Current(t)  changes == ChangeSet(a) IN
  /\ at[t] = "integrate" /\ ws[a].mode = "scoped-dir"
  /\ DOMAIN changes \subseteq Own(t)
  /\ integrated' = With(integrated, changes)
  /\ ws' = [ws EXCEPT ![a].dir = "integrated"] /\ Go(t, "accepted")
  /\ UNCHANGED <<plan, main, edited, tree, onDisk, holder, slotVars, taskVars, process>>

IntegrateInPlace(t) ==
  LET a == Current(t)  changes == ChangeSet(a) IN
  /\ at[t] = "integrate" /\ ws[a].mode = "scoped-dir"
  /\ changes = pinned[t] /\ DOMAIN changes \subseteq Own(t)
  /\ integrated' = With(integrated, changes)
  /\ ws' = [ws EXCEPT ![a].dir = "integrated"] /\ Go(t, "accepted")
  /\ UNCHANGED <<plan, main, edited, tree, onDisk, holder, slotVars, taskVars, process>>

IntegrateWorktree(t) ==
  LET a == Current(t)  changes == ChangeSet(a) IN
  /\ at[t] = "integrate" /\ ws[a].mode = "worktree"
  /\ changes = pinned[t] /\ DOMAIN changes \subseteq Own(t) /\ ~Conflict(a, changes)
  /\ todo' = [todo EXCEPT ![t] = DOMAIN changes]
  /\ Go(t, IF DOMAIN changes = {} THEN "accepted" ELSE "write")
  /\ UNCHANGED <<plan, main, edited, integrated, treeVars, slotVars,
                 next, tries, cursor, unlisted, reuse, pinned, process>>

\* Mutated: running attempts in place are not told.
WriteNext_Untold(t) ==
  /\ at[t] = "write"
  /\ \E p \in todo[t] : LET c == [q \in {p} |-> pinned[t][q]] IN
       /\ todo' = [todo EXCEPT ![t] = @ \ {p}]
       /\ Go(t, IF todo[t] = {p} THEN "accepted" ELSE "write")
       /\ main' = With(main, c) /\ integrated' = With(integrated, c)
  /\ UNCHANGED <<plan, edited, treeVars, slotVars,
                 next, tries, cursor, unlisted, reuse, pinned, process>>

WriteNext(t) ==
  /\ at[t] = "write"
  /\ \E p \in todo[t] : LET c == [q \in {p} |-> pinned[t][q]] IN
       /\ todo' = [todo EXCEPT ![t] = @ \ {p}]
       /\ Go(t, IF todo[t] = {p} THEN "accepted" ELSE "write")
       /\ main' = With(main, c) /\ integrated' = With(integrated, c)
       /\ foreign' = [a \in Attempt |-> IF a \in slots THEN With(foreign[a], c) ELSE foreign[a]]
  /\ UNCHANGED <<plan, edited, treeVars, slots,
                 next, tries, cursor, unlisted, reuse, pinned, process>>

WriteFails(t) ==
  /\ at[t] = "write" /\ May("write") /\ todo[t] # {}
  /\ todo' = [todo EXCEPT ![t] = {}] /\ Go(t, "failing")
  /\ UNCHANGED <<plan, main, edited, integrated, treeVars, slotVars,
                 next, tries, cursor, unlisted, reuse, pinned, process>>

-----------------------------------------------------------------------------
(* The end of a task *)

\* Mutated: only the last attempt is disposed.
Listed_Current(t) == {Current(t)} \ unlisted

Listed(t) == {a \in Attempt : a[1] = t /\ a[2] <= tries[t]} \ unlisted
LastListed(t) == IF Current(t) \in unlisted THEN tries[t] - 1 ELSE tries[t]

\* A failed task reverts all its attempts, the last one first.
RevertLast(t) ==
  /\ at[t] = "failing" /\ LastListed(t) > 0
  /\ cursor' = [cursor EXCEPT ![t] = LastListed(t)] /\ Go(t, "revert")
  /\ UNCHANGED <<plan, main, edited, integrated, treeVars, slotVars,
                 next, tries, unlisted, reuse, pinned, todo, process>>

RevertEarlier(t) ==
  /\ at[t] = "restore" /\ todo[t] = {} /\ next[t] = "none" /\ cursor[t] > 1
  /\ cursor' = [cursor EXCEPT ![t] = @ - 1] /\ Go(t, "revert")
  /\ UNCHANGED <<plan, main, edited, integrated, treeVars, slotVars,
                 next, tries, unlisted, reuse, pinned, todo, process>>

\* Mutated: the slot is not released.
Dispose_KeepsSlot(t, as) ==
  /\ onDisk' = onDisk \ {ws[a].lease : a \in {b \in Listed(t) : ws[b].mode = "worktree" /\ holder[ws[b].lease] = b}}
  /\ foreign' = [a \in Attempt |-> IF a \in Listed(t) THEN Nothing ELSE foreign[a]]
  /\ ws' = [a \in Attempt |-> IF a \in Listed(t) THEN NoWorkspace(a) ELSE ws[a]]
  /\ tree' = [a \in Attempt |-> IF a[1] = t THEN HeadTree ELSE tree[a]]
  /\ cursor' = [cursor EXCEPT ![t] = 0] /\ reuse' = [reuse EXCEPT ![t] = 0] /\ Go(t, as)
  /\ UNCHANGED <<slots, plan, main, edited, integrated, holder, next, tries, unlisted, pinned, todo, process>>

\* A worktree is removed by the attempt that holds it, and by no other.
Dispose(t, as) ==
  /\ onDisk' = onDisk \ {ws[a].lease : a \in {b \in Listed(t) : ws[b].mode = "worktree" /\ holder[ws[b].lease] = b}}
  /\ slots' = slots \ Listed(t)
  /\ foreign' = [a \in Attempt |-> IF a \in Listed(t) THEN Nothing ELSE foreign[a]]
  /\ ws' = [a \in Attempt |-> IF a \in Listed(t) THEN NoWorkspace(a) ELSE ws[a]]
  /\ tree' = [a \in Attempt |-> IF a[1] = t THEN HeadTree ELSE tree[a]]
  /\ cursor' = [cursor EXCEPT ![t] = 0] /\ reuse' = [reuse EXCEPT ![t] = 0] /\ Go(t, as)
  /\ UNCHANGED <<plan, main, edited, integrated, holder, next, tries, unlisted, pinned, todo, process>>

EndFailed(t) ==
  /\ \/ at[t] = "failing" /\ LastListed(t) = 0
     \/ at[t] = "restore" /\ todo[t] = {} /\ next[t] = "none" /\ cursor[t] = 1
  /\ Dispose(t, "failed")

EndCompleted(t) == at[t] = "accepted" /\ Dispose(t, "completed")

-----------------------------------------------------------------------------
(* The user, a crash, and pruneOrphanedAttempts at the next start *)

UserEdit ==
  /\ process # "pruned"
  /\ \E p \in plan.edits \ edited :
       /\ main' = [main EXCEPT ![p] = User] /\ edited' = edited \cup {p}
  /\ UNCHANGED <<plan, integrated, treeVars, slotVars, at, taskVars, process>>

Crash ==
  /\ process = "up" /\ May("crash") /\ process' = "down"
  /\ at' = [t \in Task |-> IF Ended(t) THEN at[t] ELSE "lost"]
  /\ slots' = {} /\ foreign' = [a \in Attempt |-> Nothing] /\ unlisted' = {}
  /\ next' = [t \in Task |-> "none"] /\ todo' = [t \in Task |-> {}]
  /\ tries' = [t \in Task |-> 0] /\ cursor' = [t \in Task |-> 0] /\ reuse' = [t \in Task |-> 0]
  /\ ws' = [a \in Attempt |-> IF ws[a].dir = "active" THEN ws[a] ELSE NoWorkspace(a)]
  /\ tree' = [a \in Attempt |-> HeadTree] /\ holder' = [a \in Attempt |-> a]
  /\ UNCHANGED <<plan, main, edited, integrated, onDisk, pinned>>

\* Worktrees are removed; a scoped-dir attempt is reverted inside its owned paths,
\* unless it was integrated.
Prune ==
  /\ process = "down" /\ process' = "pruned"
  /\ onDisk' = {}
  /\ main' = [p \in Path |->
       LET dead == {a \in Attempt : ws[a].dir = "active" /\ p \in Own(a[1])}
       IN IF dead = {} THEN main[p] ELSE ws[CHOOSE a \in dead : TRUE].before[p]]
  /\ ws' = [a \in Attempt |-> NoWorkspace(a)]
  /\ UNCHANGED <<plan, edited, integrated, tree, holder, slotVars, at, taskVars>>

Step(t) ==
  /\ process = "up"
  /\ \/ Skip(t) \/ Create(t) \/ ReuseWorktree(t) \/ OpenWorktree(t) \/ OpenFails(t) \/ Identify(t)
     \/ AcquireSlot(t) \/ Prepare(t) \/ PrepareFails(t) \/ Work(t) \/ Complete(t)
     \/ Judge(t) \/ Revert(t) \/ Restore(t) \/ Retire(t)
     \/ IntegrateRefused(t) \/ IntegrateInPlace(t) \/ IntegrateWorktree(t)
     \/ WriteNext(t) \/ WriteFails(t)
     \/ RevertLast(t) \/ RevertEarlier(t) \/ EndFailed(t) \/ EndCompleted(t)
  /\ Watch

Next == (\E t \in Task : Step(t)) \/ ((UserEdit \/ Crash \/ Prune) /\ Watch)

Spec == Init /\ [][Next]_vars
\* Every turn of a task ends: attempts are bounded in time, and the coordinator decides.
FairSpec == Spec /\ (\A t \in Task : WF_vars(Step(t))) /\ WF_vars(Prune /\ Watch)

-----------------------------------------------------------------------------
(* Properties *)

TypeOK ==
  /\ plan \in Plans /\ main \in Tree /\ edited \subseteq Path /\ hasty \subseteq Path
  /\ integrated \in Changes
  /\ ws \in [Attempt -> Workspace] /\ tree \in [Attempt -> Tree]
  /\ onDisk \subseteq Attempt /\ holder \in [Attempt -> Attempt]
  /\ slots \subseteq Attempt /\ foreign \in [Attempt -> Changes]
  /\ at \in [Task -> {"create", "open", "identify", "slot", "prepare", "working", "judged", "revert",
                      "restore", "integrate", "write", "accepted", "failing", "completed", "failed", "lost"}]
  /\ next \in [Task -> {"none", "create", "failing"}]
  /\ tries \in [Task -> 0..MaxAttempts] /\ cursor \in [Task -> 0..MaxAttempts]
  /\ reuse \in [Task -> 0..MaxAttempts] /\ unlisted \subseteq Attempt
  /\ pinned \in [Task -> Changes] /\ todo \in [Task -> SUBSET Path]
  /\ process \in {"up", "down", "pruned"}

Undone(t) ==
  {p \in DOMAIN pinned[t] \ edited : at[t] = "completed" /\ main[p] \in {Absent, Head}}

\* The work of a completed task stays in the main tree: reverting another task's
\* attempt does not take it back (the paths integrated meanwhile are not that attempt's).
CompletedWorkStays == \A t \in Task : Undone(t) = {}

WorkKept ==
  \A t \in Task :
    (\E p \in DOMAIN pinned[t] \ (edited' \cup hasty') :
        at[t] = "completed" /\ main[p] = t /\ main'[p] \in {Absent, Head})
      => \E s \in Task : at[s] = "restore" /\ ws[<<s, cursor[s]>>].dir = "gone"

\* Only the revert of an attempt that has been disposed before may do so: its slot, and
\* with it the record of what others integrated, is gone (coordinator.ts:1776, after retire).
\* That holds while no third task works in place beside that revert, which would take what it
\* finds restored for its own change, nor beside the integration of a path it owns (RevertKeeps).
RevertKeepsCompletedWork == [][WorkKept]_vars

\* What a provider integrated of a task is what was pinned, verified and reviewed, also
\* when a process the attempt left behind writes on.
AsReviewed ==
  \A p \in DOMAIN integrated, t \in Task : integrated[p] = t =>
    p \in DOMAIN pinned[t] /\ pinned[t][p] = t

\* A failed task, or after a crash an attempt that was pruned, leaves nothing it wrote in
\* the main tree, except what was pinned and integrated before a later write failed; only a
\* task that owns the path as well may have integrated it since.  Not said of a path that a
\* failed task declared as an input without owning it: a revert never touches one (plan.reads).
\* Nor of a failed task whose last dispatch failed after its workspace was taken: no record
\* lists that attempt, so that nothing reverts what it was seeded with (unlisted).
LeftoversAreIntegrated ==
  \A t \in Task, p \in Path :
    /\ main[p] = t
    /\ \/ process = "up" /\ at[t] = "failed" /\ (p \in Own(t) \/ p \notin plan.reads[t])
          /\ Current(t) \notin unlisted
       \/ process = "pruned" /\ at[t] # "completed" /\ p \in Own(t)
    => /\ p \in DOMAIN integrated /\ p \in DOMAIN pinned[t] /\ pinned[t][p] = t
       /\ \/ integrated[p] = t
          \/ \E s \in Task \ {t} : p \in Own(s) /\ p \in DOMAIN pinned[s] /\ integrated[p] = pinned[s][p]

EditSeen ==
  \A t \in Task, p \in Path \ hasty' :
    at[t] = "write" /\ p \in todo[t] /\ main[p] = User /\ main'[p] = t
      => ws[Current(t)].before[p] = User

\* The user's edit of a path is written over by the integration of a worktree only if the
\* worktree was made with that edit in it, whenever the edit comes; the moment between copy
\* and identity, and between comparison and write, excepted.
EditsAreSeen == [][EditSeen]_vars

\* An attempt that works in a worktree has it, whatever became of the attempts that had it
\* before; a task that has ended has left neither a worktree nor a slot behind.
WorkspacesFollowTheirTasks ==
  process = "up" => \A t \in Task :
    /\ at[t] \in {"prepare", "working", "judged", "integrate", "write"} /\ ws[Current(t)].mode = "worktree"
         => ws[Current(t)].lease \in onDisk /\ holder[ws[Current(t)].lease] = Current(t)
    /\ Ended(t) /\ (\A a \in unlisted : a[1] # t)
         => \A a \in onDisk \cup slots : a[1] # t

\* A task that works in place waits for another only while that one is active
\* (tests/harness-security-isolation.test.ts:202).
WaitsForTheActive ==
  \A t \in Task : at[t] = "slot" => \A a \in slots : ~Ended(a[1])

\* Every task ends, the waiting ones too, unless a workspace whose preparation failed
\* keeps its slot.
EveryTaskEnds ==
  <>(process # "up" \/ (\A t \in Task : Ended(t)) \/ slots \cap unlisted # {})
=============================================================================
