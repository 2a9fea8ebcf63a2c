-------------------------- MODULE IsolationProofs --------------------------
(***************************************************************************)
(* Types, what becomes of the user's edits and of the workspaces, what is  *)
(* integrated and what is left in the main tree, for any number of tasks,  *)
(* paths, attempts and plans.                                              *)
(***************************************************************************)
EXTENDS Isolation, TLAPS

(* Contents and changes *)

\* The files of the base commit are a tree.
LEMMA HeadTyped == HeadTree \in Tree
BY PlansOK DEF HeadTree, Tree, Content

\* No change is a set of changes.
LEMMA NothingTyped == Nothing \in Changes
<1>1. Nothing \in [{} -> Content]
  BY DEF Nothing
<1> QED BY <1>1 DEF Changes

\* Changes give some paths a content.
LEMMA ChangesAre ==
  ASSUME NEW g \in Changes
  PROVE  DOMAIN g \subseteq Path /\ \A p \in DOMAIN g : g[p] \in Content
<1>1. PICK S \in SUBSET Path : g \in [S -> Content]
  BY DEF Changes
<1> QED BY <1>1

\* What gives some paths a content is a set of changes.
LEMMA AreChanges ==
  ASSUME NEW S \in SUBSET Path, NEW g \in [S -> Content]
  PROVE  g \in Changes
BY DEF Changes

\* Changes laid over a tree are a tree, over changes are changes.
LEMMA WithTree ==
  ASSUME NEW f \in Tree, NEW g \in Changes
  PROVE  With(f, g) \in Tree
<1>1. DOMAIN g \subseteq Path /\ \A p \in DOMAIN g : g[p] \in Content
  BY ChangesAre
<1>2. DOMAIN f = Path /\ \A p \in Path : f[p] \in Content
  BY DEF Tree
<1>3. DOMAIN f \cup DOMAIN g = Path
  BY <1>1, <1>2
<1> QED BY <1>1, <1>2, <1>3 DEF With, Tree

\* Changes over changes.
LEMMA WithChanges ==
  ASSUME NEW f \in Changes, NEW g \in Changes
  PROVE  With(f, g) \in Changes
<1>1. DOMAIN g \subseteq Path /\ \A p \in DOMAIN g : g[p] \in Content
  BY ChangesAre
<1>2. DOMAIN f \subseteq Path /\ \A p \in DOMAIN f : f[p] \in Content
  BY ChangesAre
<1>3. With(f, g) \in [DOMAIN f \cup DOMAIN g -> Content]
  BY <1>1, <1>2 DEF With
<1>4. DOMAIN f \cup DOMAIN g \in SUBSET Path
  BY <1>1, <1>2
<1> QED BY <1>3, <1>4, AreChanges

\* One of several changes.
LEMMA OneChange ==
  ASSUME NEW g \in Changes, NEW p \in DOMAIN g
  PROVE  [q \in {p} |-> g[q]] \in Changes
<1>1. p \in Path /\ g[p] \in Content
  BY ChangesAre
<1>2. [q \in {p} |-> g[q]] \in [{p} -> Content]
  BY <1>1
<1>3. {p} \in SUBSET Path
  BY <1>1
<1> QED BY <1>2, <1>3, AreChanges

\* An attempt works on a tree.
LEMMA FilesTyped ==
  ASSUME TypeOK, NEW a \in Attempt
  PROVE  Files(a) \in Tree
BY DEF TypeOK, Files, Workspace

\* What an attempt has changed is a set of changes.
LEMMA ChangeSetTyped ==
  ASSUME TypeOK, NEW a \in Attempt
  PROVE  ChangeSet(a) \in Changes
<1> DEFINE S == {q \in Path : Files(a)[q] # ws[a].before[q] /\ ~Foreign(a, q)}
<1>1. Files(a) \in [Path -> Content]
  BY FilesTyped DEF Tree
<1>2. ChangeSet(a) \in [S -> Content]
  BY <1>1 DEF ChangeSet
<1>3. S \in SUBSET Path
  OBVIOUS
<1> HIDE DEF S
<1> QED BY <1>2, <1>3, AreChanges

\* No workspace is a workspace.
LEMMA FreshTyped ==
  ASSUME NEW a \in Attempt
  PROVE  NoWorkspace(a) \in Workspace
BY HeadTyped DEF NoWorkspace, Workspace

-----------------------------------------------------------------------------
(* Types *)

\* A task that has got so far has an attempt, one that reverts knows which, and one that
\* writes has what it writes.
Started ==
  \A t \in Task :
    /\ at[t] \in {"open", "identify", "slot", "prepare", "working", "judged", "integrate", "write"}
         => tries[t] > 0
    /\ at[t] \in {"revert", "restore"} => cursor[t] > 0
    /\ at[t] = "write" => todo[t] \subseteq DOMAIN pinned[t]

TInv == TypeOK /\ Started

\* The types hold at first.
LEMMA InitTyped == Init => TInv
<1> SUFFICES ASSUME Init PROVE TInv
  OBVIOUS
<1>1. ws \in [Attempt -> Workspace]
  BY FreshTyped DEF Init
<1>2. foreign \in [Attempt -> Changes] /\ pinned \in [Task -> Changes] /\ integrated \in Changes
  BY NothingTyped DEF Init
<1>3. tree \in [Attempt -> Tree] /\ main \in Tree
  BY HeadTyped DEF Init
<1> QED BY <1>1, <1>2, <1>3, PlansOK DEF Init, TInv, TypeOK, Started

\* A task under way has an attempt.
LEMMA CurrentTyped ==
  ASSUME TInv, NEW t \in Task,
         at[t] \in {"open", "identify", "slot", "prepare", "working", "judged", "integrate", "write"}
  PROVE  Current(t) \in Attempt /\ tries[t] \in 1..MaxAttempts
BY PlansOK DEF TInv, TypeOK, Started, Current, Attempt

\* A task that reverts knows which attempt.
LEMMA CursorTyped ==
  ASSUME TInv, NEW t \in Task, at[t] \in {"revert", "restore"}
  PROVE  <<t, cursor[t]>> \in Attempt /\ cursor[t] \in 1..MaxAttempts
BY PlansOK DEF TInv, TypeOK, Started, Attempt

\* A task begins an attempt, or is skipped.
LEMMA CreateTyped ==
  ASSUME TInv, NEW t \in Task, Skip(t) \/ Create(t), hasty' \subseteq Path
  PROVE  TInv'
<1>1. CASE Skip(t)
  BY <1>1 DEF TInv, TypeOK, Started, Skip, Go, treeVars, slotVars, taskVars
<1>2. CASE Create(t)
  <2>1. tries[t] + 1 \in 1..MaxAttempts
    <3>1. plan.attempts \in [Task -> 0..MaxAttempts]
      BY PlansOK DEF TInv, TypeOK
    <3>2. tries[t] \in 0..MaxAttempts /\ tries[t] < plan.attempts[t]
      BY <1>2 DEF Create, TInv, TypeOK
    <3> QED BY <3>1, <3>2, PlansOK
  <2>2. <<t, tries[t] + 1>> \in Attempt
    BY <2>1 DEF Attempt
  <2>3. Ours \cup Overlap(t) \in SUBSET Path
    BY DEF Ours, Overlap, Dirty
  <2>4. ws' \in [Attempt -> Workspace]
    <3> DEFINE a == <<t, tries[t] + 1>>  seeds == Ours \cup Overlap(t)
    <3>1. ws' = [ws EXCEPT ![a].copied = seeds] \/ ws' = ws
      BY <1>2 DEF Create
    <3>2. seeds \in SUBSET Path /\ a \in Attempt /\ ws \in [Attempt -> Workspace]
      BY <2>2, <2>3 DEF TInv, TypeOK
    <3>3. ws[a] \in Workspace
      BY <3>2
    <3> HIDE DEF seeds, a
    <3>4. [ws[a] EXCEPT !.copied = seeds] \in Workspace
      BY <3>2, <3>3 DEF Workspace
    <3> QED BY <3>1, <3>2, <3>4
  <2>5. at' \in [Task -> {"create", "open", "identify", "slot", "prepare", "working", "judged", "revert",
                      "restore", "integrate", "write", "accepted", "failing", "completed", "failed", "lost"}]
    BY <1>2 DEF Create, Go, TInv, TypeOK
  <2>6. Started'
    BY <1>2, <2>1 DEF Create, Go, TInv, TypeOK, Started
  <2>7. tries' \in [Task -> 0..MaxAttempts]
    BY <1>2, <2>1, PlansOK DEF Create, TInv, TypeOK
  <2> QED BY <1>2, <2>4, <2>5, <2>6, <2>7 DEF Create, TInv, TypeOK, slotVars
<1> QED BY <1>1, <1>2

\* A worktree is filled.
LEMMA PopulateTyped ==
  ASSUME TInv, NEW t \in Task, at[t] = "open", NEW l \in Attempt, Populate(t, l),
         UNCHANGED <<plan, main, edited, integrated, holder, slotVars, taskVars, process>>,
         onDisk' \subseteq Attempt, hasty' \subseteq Path
  PROVE  TInv'
<1> DEFINE files == [p \in Path |-> IF p \in ws[Current(t)].copied THEN main[p] ELSE HeadTree[p]]
<1>1. files \in Tree
  BY HeadTyped DEF TInv, TypeOK, Tree
<1>2. Current(t) \in Attempt
  BY CurrentTyped
<1>3. tree' = [tree EXCEPT ![l] = files]
  BY DEF Populate
<1>4. ws' = [ws EXCEPT ![Current(t)] = [mode |-> "worktree", lease |-> l, before |-> files,
               copied |-> ws[Current(t)].copied, identity |-> ws[Current(t)].identity, dir |-> "none"]]
  BY <1>2 DEF Populate, TInv, TypeOK
<1> HIDE DEF files
<1>5. tree' \in [Attempt -> Tree]
  BY <1>1, <1>3 DEF TInv, TypeOK
<1>6. ws' \in [Attempt -> Workspace]
  BY <1>1, <1>2, <1>4 DEF TInv, TypeOK, Workspace
<1>7. at' = [at EXCEPT ![t] = "identify"]
  BY DEF Populate, Go
<1> QED BY <1>5, <1>6, <1>7 DEF TInv, TypeOK, Started, slotVars, taskVars

\* A worktree is opened, reused or cannot be.
LEMMA OpenTyped ==
  ASSUME TInv, NEW t \in Task, ReuseWorktree(t) \/ OpenWorktree(t) \/ OpenFails(t), hasty' \subseteq Path
  PROVE  TInv'
<1>1. CASE ReuseWorktree(t)
  <2>1. <<t, reuse[t]>> \in Attempt
    BY <1>1, PlansOK DEF ReuseWorktree, TInv, TypeOK, Attempt
  <2>2. ws[<<t, reuse[t]>>].lease \in Attempt
    BY <2>1 DEF TInv, TypeOK, Workspace
  <2> QED BY <1>1, <2>2, PopulateTyped DEF ReuseWorktree, TInv, TypeOK
<1>2. CASE OpenWorktree(t)
  <2>1. Current(t) \in Attempt
    BY <1>2, CurrentTyped DEF OpenWorktree
  <2>2. onDisk' \subseteq Attempt
    BY <1>2, <2>1 DEF OpenWorktree, Kept, TInv, TypeOK
  <2> QED BY <1>2, <2>1, <2>2, PopulateTyped DEF OpenWorktree
<1>3. CASE OpenFails(t)
  <2>1. onDisk' \subseteq Attempt
    BY <1>3 DEF OpenFails, Kept, TInv, TypeOK
  <2>2. tries[t] > 0
    BY <1>3 DEF OpenFails, TInv, Started
  <2> QED BY <1>3, <2>1, <2>2 DEF OpenFails, Go, TInv, TypeOK, Started, slotVars, taskVars
<1> QED BY <1>1, <1>2, <1>3

\* A workspace is made.
LEMMA IdentifyTyped ==
  ASSUME TInv, NEW t \in Task, Identify(t) \/ AcquireSlot(t), hasty' \subseteq Path
  PROVE  TInv'
<1>0. Current(t) \in Attempt /\ tries[t] > 0
  BY CurrentTyped DEF Identify, AcquireSlot
<1>1. CASE Identify(t)
  <2> DEFINE id == [p \in Path |-> IF p \in ws[Current(t)].copied THEN main[p] ELSE HeadTree[p]]
  <2>1. id \in Tree
    BY HeadTyped DEF TInv, TypeOK, Tree
  <2>2. ws' = [ws EXCEPT ![Current(t)].identity = id]
    BY <1>1 DEF Identify
  <2> HIDE DEF id
  <2>3. ws' \in [Attempt -> Workspace]
    BY <1>0, <2>1, <2>2 DEF TInv, TypeOK, Workspace
  <2>4. holder' \in [Attempt -> Attempt]
    BY <1>0, <1>1 DEF Identify, TInv, TypeOK
  <2> QED BY <1>0, <1>1, <2>3, <2>4 DEF Identify, Go, TInv, TypeOK, Started, slotVars, taskVars
<1>2. CASE AcquireSlot(t)
  <2>1. ws' = [ws EXCEPT ![Current(t)] = [mode |-> "scoped-dir", lease |-> ws[Current(t)].lease, before |-> main,
                 copied |-> ws[Current(t)].copied, identity |-> ws[Current(t)].identity, dir |-> "active"]]
    BY <1>0, <1>2 DEF AcquireSlot, TInv, TypeOK
  <2>2. ws' \in [Attempt -> Workspace]
    BY <1>0, <2>1 DEF TInv, TypeOK, Workspace
  <2> QED BY <1>0, <1>2, <2>2 DEF AcquireSlot, Go, TInv, TypeOK, Started, taskVars
<1> QED BY <1>1, <1>2

\* Only the place of the task, and what the action names, is touched.
LEMMA WorkTyped ==
  ASSUME TInv, NEW t \in Task,
         Prepare(t) \/ PrepareFails(t) \/ Work(t) \/ Complete(t) \/ Judge(t), hasty' \subseteq Path
  PROVE  TInv'
<1> DEFINE a == Current(t)
<1>0. a \in Attempt /\ tries[t] \in 1..MaxAttempts
  BY CurrentTyped DEF Prepare, PrepareFails, Work, Complete, Judge
<1>1. ws[a] \in Workspace /\ ws[a].lease \in Attempt /\ pinned[t] \in Changes
  BY <1>0 DEF TInv, TypeOK, Workspace
<1>2. ASSUME Seed(t) \/ UNCHANGED <<main, tree>>
      PROVE  main' \in Tree /\ tree' \in [Attempt -> Tree]
  <2>1. With(main, pinned[t]) \in Tree
    BY <1>1, WithTree DEF TInv, TypeOK
  <2>2. With(tree[ws[a].lease], pinned[t]) \in Tree
    BY <1>1, WithTree DEF TInv, TypeOK
  <2>3. CASE UNCHANGED <<main, tree>>
    BY <2>3 DEF TInv, TypeOK
  <2>4. CASE Seed(t) /\ ws[a].mode = "worktree"
    <3>1. tree' = [tree EXCEPT ![ws[a].lease] = With(tree[ws[a].lease], pinned[t])] /\ main' = main
      BY <1>1, <2>4 DEF Seed, TInv, TypeOK
    <3> QED BY <1>1, <2>2, <3>1 DEF TInv, TypeOK
  <2>5. CASE Seed(t) /\ ws[a].mode # "worktree"
    BY <2>1, <2>5 DEF Seed, TInv, TypeOK
  <2> QED BY <1>2, <2>3, <2>4, <2>5
<1>3. CASE Prepare(t)
  <2>1. main' \in Tree /\ tree' \in [Attempt -> Tree]
    BY <1>2, <1>3 DEF Prepare
  <2>2. reuse' \in [Task -> 0..MaxAttempts]
    BY <1>3, PlansOK DEF Prepare, TInv, TypeOK
  <2> QED BY <1>0, <1>3, <2>1, <2>2 DEF Prepare, Go, TInv, TypeOK, Started, slotVars
<1>4. CASE PrepareFails(t)
  <2>1. main' \in Tree /\ tree' \in [Attempt -> Tree]
    BY <1>2, <1>4 DEF PrepareFails
  <2> QED BY <1>0, <1>4, <2>1 DEF PrepareFails, Go, TInv, TypeOK, Started, slotVars
<1>5. CASE Work(t)
  <2>1. PICK p \in Path : Write(t, p, t)
    <3>1. Own(t) \subseteq Path
      BY PlansOK DEF Own, TInv, TypeOK
    <3> QED BY <1>5, <3>1 DEF Work
  <2>2. CASE ws[a].mode = "worktree"
    <3> DEFINE l == ws[a].lease
    <3>1. tree' = [tree EXCEPT ![l] = [tree[l] EXCEPT ![p] = t]] /\ main' = main
      BY <1>1, <2>1, <2>2 DEF Write, TInv, TypeOK
    <3>2. [tree[l] EXCEPT ![p] = t] \in Tree
      BY <1>1 DEF TInv, TypeOK, Tree, Content
    <3> HIDE DEF l, a
    <3> QED BY <3>1, <3>2, <1>1, <1>5 DEF TInv, TypeOK, Started, slotVars, taskVars, Work
  <2>3. CASE ws[a].mode # "worktree"
    <3>1. main' = [main EXCEPT ![p] = t] /\ tree' = tree
      BY <2>1, <2>3 DEF Write
    <3>2. main' \in Tree
      BY <3>1 DEF TInv, TypeOK, Tree, Content
    <3> QED BY <1>5, <3>1, <3>2 DEF Work, TInv, TypeOK, Started, slotVars, taskVars
  <2> QED BY <2>2, <2>3
<1>6. CASE Complete(t)
  <2>1. ChangeSet(a) \in Changes
    BY <1>0, ChangeSetTyped DEF TInv
  <2> QED BY <1>0, <1>6, <2>1 DEF Complete, Go, TInv, TypeOK, Started, slotVars, treeVars
<1>7. CASE Judge(t)
  <2>1. next' \in [Task -> {"none", "create", "failing"}] /\ cursor' \in [Task -> 0..MaxAttempts]
    BY <1>0, <1>7, PlansOK DEF Judge, TInv, TypeOK
  <2>2. at' \in [Task -> {"create", "open", "identify", "slot", "prepare", "working", "judged", "revert",
                      "restore", "integrate", "write", "accepted", "failing", "completed", "failed", "lost"}]
    BY <1>7 DEF Judge, Go, TInv, TypeOK
  <2>3. Started'
    BY <1>0, <1>7 DEF Judge, Go, TInv, TypeOK, Started
  <2> QED BY <1>7, <2>1, <2>2, <2>3 DEF Judge, TInv, TypeOK, slotVars, treeVars
<1> QED BY <1>3, <1>4, <1>5, <1>6, <1>7

\* An attempt is reverted and retired.
LEMMA RevertTyped ==
  ASSUME TInv, NEW t \in Task, Revert(t) \/ Restore(t) \/ Retire(t), hasty' \subseteq Path
  PROVE  TInv'
<1> DEFINE a == <<t, cursor[t]>>
<1>0. a \in Attempt /\ cursor[t] \in 1..MaxAttempts
  BY CursorTyped DEF Revert, Restore, Retire
<1>1. ws[a] \in Workspace /\ ws[a].before \in Tree
  BY <1>0 DEF TInv, TypeOK, Workspace
<1>2. CASE Revert(t)
  <2> DEFINE theirs == IF ws[a].mode = "scoped-dir"
                       THEN {p \in DOMAIN ChangeSet(a) : p \in Own(t) \/ p \notin plan.reads[t]} ELSE {}
  <2>1. theirs \subseteq Path
    BY DEF ChangeSet
  <2>2. todo' = [todo EXCEPT ![t] = theirs]
    BY <1>2 DEF Revert
  <2> HIDE DEF theirs
  <2>3. todo' \in [Task -> SUBSET Path]
    BY <2>1, <2>2 DEF TInv, TypeOK
  <2> QED BY <1>0, <1>2, <2>3 DEF Revert, Go, TInv, TypeOK, Started, slotVars, treeVars
<1>3. CASE Restore(t)
  <2>1. main' \in Tree
    <3>1. PICK p \in todo[t] : main' = [main EXCEPT ![p] = ws[a].before[p]] \/ main' = main
      BY <1>3 DEF Restore
    <3>2. p \in Path
      BY <3>1 DEF TInv, TypeOK
    <3>3. ws[a].before[p] \in Content
      BY <1>1, <3>2 DEF Tree
    <3> HIDE DEF a
    <3> QED BY <3>1, <3>2, <3>3 DEF TInv, TypeOK, Tree
  <2>2. todo' \in [Task -> SUBSET Path]
    BY <1>3 DEF Restore, TInv, TypeOK
  <2> QED BY <1>3, <2>1, <2>2 DEF Restore, TInv, TypeOK, Started, slotVars, treeVars
<1>4. CASE Retire(t)
  <2>1. /\ next' \in [Task -> {"none", "create", "failing"}] /\ cursor' \in [Task -> 0..MaxAttempts]
        /\ reuse' \in [Task -> 0..MaxAttempts]
    BY <1>0, <1>4, PlansOK DEF Retire, TInv, TypeOK
  <2>2. [ws[a] EXCEPT !.dir = "gone"] \in Workspace
    BY <1>1 DEF Workspace
  <2>3. ws' = [ws EXCEPT ![a].dir = "gone"] \/ ws' = ws
    BY <1>4 DEF Retire
  <2>4. foreign' = [foreign EXCEPT ![a] = Nothing] \/ foreign' = foreign
    BY <1>4 DEF Retire
  <2>5. slots' \subseteq Attempt
    BY <1>4 DEF Retire, TInv, TypeOK
  <2> HIDE DEF a
  <2>6. ws' \in [Attempt -> Workspace]
    BY <1>0, <2>2, <2>3 DEF TInv, TypeOK
  <2>7. foreign' \in [Attempt -> Changes]
    BY <1>0, <2>4, NothingTyped DEF TInv, TypeOK
  <2>8. at' = [at EXCEPT ![t] = next[t]] /\ next[t] \in {"create", "failing"}
    BY <1>4 DEF Retire, Go, TInv, TypeOK
  <2>9. Started'
    BY <1>4, <2>8 DEF Retire, TInv, TypeOK, Started
  <2> QED BY <1>4, <2>1, <2>5, <2>6, <2>7, <2>8, <2>9 DEF Retire, TInv, TypeOK
<1> QED BY <1>2, <1>3, <1>4

\* An integration is refused, done, or done in part.
LEMMA IntegrateTyped ==
  ASSUME TInv, NEW t \in Task,
         IntegrateRefused(t) \/ IntegrateInPlace(t) \/ IntegrateWorktree(t) \/ WriteNext(t) \/ WriteFails(t),
         hasty' \subseteq Path
  PROVE  TInv'
<1> DEFINE a == Current(t)
<1>0. a \in Attempt /\ tries[t] > 0
  BY CurrentTyped DEF IntegrateRefused, IntegrateInPlace, IntegrateWorktree, WriteNext, WriteFails
<1>1. CASE IntegrateRefused(t)
  BY <1>1 DEF IntegrateRefused, Go, TInv, TypeOK, Started, slotVars, treeVars, taskVars
<1>2. CASE IntegrateInPlace(t)
  <2>1. With(integrated, ChangeSet(a)) \in Changes
    BY <1>0, ChangeSetTyped, WithChanges DEF TInv, TypeOK
  <2>2. [ws[a] EXCEPT !.dir = "integrated"] \in Workspace
    BY <1>0 DEF TInv, TypeOK, Workspace
  <2>3. ws' = [ws EXCEPT ![a].dir = "integrated"] /\ integrated' = With(integrated, ChangeSet(a))
    BY <1>2 DEF IntegrateInPlace
  <2> HIDE DEF a
  <2>4. ws' \in [Attempt -> Workspace]
    BY <1>0, <2>2, <2>3 DEF TInv, TypeOK
  <2> QED BY <1>2, <2>1, <2>3, <2>4 DEF IntegrateInPlace, Go, TInv, TypeOK, Started, slotVars, taskVars
<1>3. CASE IntegrateWorktree(t)
  <2>1. DOMAIN ChangeSet(a) \subseteq Path
    BY DEF ChangeSet
  <2>2. todo' \in [Task -> SUBSET Path]
    BY <1>3, <2>1 DEF IntegrateWorktree, TInv, TypeOK
  <2>3. at' = [at EXCEPT ![t] = "accepted"] \/ at' = [at EXCEPT ![t] = "write"]
    BY <1>3 DEF IntegrateWorktree, Go
  <2> QED BY <1>0, <1>3, <2>2, <2>3 DEF IntegrateWorktree, TInv, TypeOK, Started, slotVars, treeVars
<1>4. CASE WriteNext(t)
  <2>1. PICK p \in todo[t] :
          LET c == [q \in {p} |-> pinned[t][q]]
          IN  /\ todo' = [todo EXCEPT ![t] = @ \ {p}]
              /\ Go(t, IF todo[t] = {p} THEN "accepted" ELSE "write")
              /\ main' = With(main, c) /\ integrated' = With(integrated, c)
              /\ foreign' = [b \in Attempt |-> IF b \in slots THEN With(foreign[b], c) ELSE foreign[b]]
    BY <1>4 DEF WriteNext
  <2> DEFINE c == [q \in {p} |-> pinned[t][q]]
  <2>2. c \in Changes
    BY <1>4, <2>1, OneChange DEF WriteNext, TInv, TypeOK, Started
  <2>3. todo' = [todo EXCEPT ![t] = @ \ {p}] /\ main' = With(main, c) /\ integrated' = With(integrated, c)
    BY <2>1
  <2>4. foreign' = [b \in Attempt |-> IF b \in slots THEN With(foreign[b], c) ELSE foreign[b]]
    BY <2>1
  <2>5. at' = [at EXCEPT ![t] = "accepted"] \/ at' = [at EXCEPT ![t] = "write"]
    BY <2>1 DEF Go
  <2> HIDE DEF c
  <2>6. main' \in Tree /\ integrated' \in Changes
    BY <2>2, <2>3, WithTree, WithChanges DEF TInv, TypeOK
  <2>7. \A b \in Attempt : With(foreign[b], c) \in Changes
    BY <2>2, WithChanges DEF TInv, TypeOK
  <2>8. foreign' \in [Attempt -> Changes]
    BY <2>4, <2>7 DEF TInv, TypeOK
  <2>9. todo' \in [Task -> SUBSET Path]
    BY <2>3 DEF TInv, TypeOK
  <2>10. Started'
    BY <1>0, <1>4, <2>3, <2>5 DEF WriteNext, TInv, TypeOK, Started
  <2> QED BY <1>4, <2>5, <2>6, <2>8, <2>9, <2>10 DEF WriteNext, TInv, TypeOK, treeVars
<1>5. CASE WriteFails(t)
  BY <1>5 DEF WriteFails, Go, TInv, TypeOK, Started, slotVars, treeVars
<1> QED BY <1>1, <1>2, <1>3, <1>4, <1>5
\* A failed task reverts its attempts.
LEMMA FailingTyped ==
  ASSUME TInv, NEW t \in Task, RevertLast(t) \/ RevertEarlier(t), hasty' \subseteq Path
  PROVE  TInv'
<1>1. CASE RevertLast(t)
  <2>1. LastListed(t) \in 1..MaxAttempts
    BY <1>1, PlansOK DEF RevertLast, LastListed, TInv, TypeOK
  <2>2. cursor' = [cursor EXCEPT ![t] = LastListed(t)]
    BY <1>1 DEF RevertLast
  <2> QED BY <1>1, <2>1, <2>2 DEF RevertLast, Go, TInv, TypeOK, Started, slotVars, treeVars
<1>2. CASE RevertEarlier(t)
  <2>1. cursor[t] - 1 \in 1..MaxAttempts
    BY <1>2, PlansOK DEF RevertEarlier, TInv, TypeOK
  <2> QED BY <1>2, <2>1 DEF RevertEarlier, Go, TInv, TypeOK, Started, slotVars, treeVars
<1> QED BY <1>1, <1>2

\* A task ends.
LEMMA EndTyped ==
  ASSUME TInv, NEW t \in Task, EndFailed(t) \/ EndCompleted(t), hasty' \subseteq Path
  PROVE  TInv'
<1>1. PICK as \in {"failed", "completed"} : Dispose(t, as)
  BY DEF EndFailed, EndCompleted
<1>2. ws' \in [Attempt -> Workspace]
  BY <1>1, FreshTyped DEF Dispose, TInv, TypeOK
<1>3. foreign' \in [Attempt -> Changes]
  BY <1>1, NothingTyped DEF Dispose, TInv, TypeOK
<1>4. tree' \in [Attempt -> Tree]
  BY <1>1, HeadTyped DEF Dispose, TInv, TypeOK
<1>5. onDisk' \subseteq Attempt /\ slots' \subseteq Attempt
  BY <1>1 DEF Dispose, TInv, TypeOK
<1>6. cursor' \in [Task -> 0..MaxAttempts] /\ reuse' \in [Task -> 0..MaxAttempts]
  BY <1>1, PlansOK DEF Dispose, TInv, TypeOK
<1>7. at' = [at EXCEPT ![t] = as]
  BY <1>1 DEF Dispose, Go
<1>8. Started'
  BY <1>1, <1>7 DEF Dispose, TInv, TypeOK, Started
<1> QED BY <1>1, <1>2, <1>3, <1>4, <1>5, <1>6, <1>7, <1>8 DEF Dispose, TInv, TypeOK

\* The user, a crash and the next start.
LEMMA OutsideTyped ==
  ASSUME TInv, UserEdit \/ Crash \/ Prune, hasty' \subseteq Path
  PROVE  TInv'
<1>1. CASE UserEdit
  <2>1. PICK p \in plan.edits \ edited : main' = [main EXCEPT ![p] = User] /\ edited' = edited \cup {p}
    BY <1>1 DEF UserEdit
  <2>2. plan.edits \subseteq Path
    BY PlansOK DEF TInv, TypeOK
  <2>3. main' \in Tree /\ edited' \subseteq Path
    BY <2>1, <2>2 DEF TInv, TypeOK, Tree, Content
  <2> QED BY <1>1, <2>3 DEF UserEdit, TInv, TypeOK, Started, slotVars, treeVars, taskVars
<1>2. CASE Crash
  <2>1. ws' \in [Attempt -> Workspace]
    BY <1>2, FreshTyped DEF Crash, TInv, TypeOK
  <2>2. foreign' \in [Attempt -> Changes] /\ tree' \in [Attempt -> Tree] /\ holder' \in [Attempt -> Attempt]
    BY <1>2, NothingTyped, HeadTyped DEF Crash
  <2>3. /\ tries' \in [Task -> 0..MaxAttempts] /\ cursor' \in [Task -> 0..MaxAttempts]
        /\ reuse' \in [Task -> 0..MaxAttempts]
    BY <1>2, PlansOK DEF Crash
  <2>4. at' \in [Task -> {"completed", "failed", "lost"}]
    BY <1>2 DEF Crash, Ended
  <2>5. Started'
    BY <2>4 DEF Started
  <2> QED BY <1>2, <2>1, <2>2, <2>3, <2>4, <2>5 DEF Crash, TInv, TypeOK
<1>3. CASE Prune
  <2>1. ws' \in [Attempt -> Workspace]
    BY <1>3, FreshTyped DEF Prune
  <2>2. main' \in Tree
    <3>1. ASSUME NEW p \in Path PROVE main'[p] \in Content
      <4> DEFINE dead == {a \in Attempt : ws[a].dir = "active" /\ p \in Own(a[1])}
      <4>1. main'[p] = IF dead = {} THEN main[p] ELSE ws[CHOOSE a \in dead : TRUE].before[p]
        BY <1>3 DEF Prune
      <4>2. CASE dead = {}
        BY <4>1, <4>2 DEF TInv, TypeOK, Tree
      <4>3. CASE dead # {}
        <5>1. (CHOOSE a \in dead : TRUE) \in Attempt
          BY <4>3
        <5>2. ws[CHOOSE a \in dead : TRUE].before \in Tree
          BY <5>1 DEF TInv, TypeOK, Workspace
        <5> QED BY <4>1, <4>3, <5>2 DEF Tree
      <4> QED BY <4>2, <4>3
    <3>2. main' = [p \in Path |-> main'[p]]
      BY <1>3 DEF Prune
    <3> QED BY <3>1, <3>2 DEF Tree
  <2> QED BY <1>3, <2>1, <2>2 DEF Prune, TInv, TypeOK, Started, slotVars, taskVars
<1> QED BY <1>1, <1>2, <1>3

\* Every step keeps the types.
LEMMA NextTyped == TInv /\ [Next]_vars => TInv'
<1> SUFFICES ASSUME TInv, [Next]_vars PROVE TInv'
  OBVIOUS
<1>1. CASE UNCHANGED vars
  BY <1>1 DEF vars, treeVars, slotVars, taskVars, TInv, TypeOK, Started
<1>2. ASSUME Watch PROVE hasty' \subseteq Path
  BY <1>2 DEF Watch, TInv, TypeOK
<1>3. ASSUME NEW t \in Task, Step(t) PROVE TInv'
  BY <1>2, <1>3, CreateTyped, OpenTyped, IdentifyTyped, WorkTyped, RevertTyped, IntegrateTyped,
     FailingTyped, EndTyped DEF Step
<1>4. ASSUME UserEdit \/ Crash \/ Prune, Watch PROVE TInv'
  BY <1>2, <1>4, OutsideTyped
<1> QED BY <1>1, <1>3, <1>4 DEF Next

\* Every variable keeps its type.
THEOREM TypeCorrect == Spec => []TypeOK
<1>1. TInv => TypeOK
  BY DEF TInv
<1> QED BY InitTyped, NextTyped, <1>1, PTL DEF Spec
-----------------------------------------------------------------------------
(* The user's edits *)

WithLease == {"prepare", "working", "judged", "integrate", "write"}

\* What is known of a path of a task that nobody has touched half way: the copy in a new
\* worktree is what is in the main tree; its identity is the copy; and what integrate has
\* compared is still as it was.
Seen(t, p) ==
  LET a == Current(t) IN
  /\ at[t] = "identify" /\ p \in ws[a].copied => main[p] = ws[a].before[p]
  /\ at[t] \in WithLease /\ ws[a].mode = "worktree" /\ p \in ws[a].copied => ws[a].identity[p] = ws[a].before[p]
  /\ at[t] = "write" /\ p \in todo[t] =>
       ws[a].mode = "worktree" /\ (main[p] = Base(a, p) \/ main[p] = pinned[t][p])

EInv ==
  /\ process # "up" => \A t \in Task : at[t] \in {"completed", "failed", "lost"}
  /\ \A t \in Task, p \in Path \ hasty : Seen(t, p)

\* What the steps of others leave alone of a task.
Untouched(t) ==
  /\ at'[t] = at[t] /\ tries'[t] = tries[t] /\ todo'[t] = todo[t] /\ pinned'[t] = pinned[t]
  /\ \A n \in 1..MaxAttempts : ws'[<<t, n>>] = ws[<<t, n>>]

\* A task's step leaves the others alone.
LEMMA Frame ==
  ASSUME TInv, NEW s \in Task, NEW t \in Task \ {s}, Step(s)
  PROVE  Untouched(t)
<1> USE DEF Untouched
<1>0. \A n \in 1..MaxAttempts : \A m : <<t, n>> # <<s, m>> /\ <<t, n>> \in Attempt
  BY DEF Attempt
<1>1. CASE Skip(s) \/ Create(s) \/ Identify(s) \/ AcquireSlot(s)
  BY <1>0, <1>1 DEF TInv, TypeOK, Skip, Create, Identify, AcquireSlot, Current, Go, taskVars, treeVars
<1>2. CASE ReuseWorktree(s) \/ OpenWorktree(s) \/ OpenFails(s)
  BY <1>0, <1>2 DEF TInv, TypeOK, ReuseWorktree, OpenWorktree, OpenFails, Populate, Current, Go, taskVars
<1>3. CASE Prepare(s) \/ PrepareFails(s) \/ Work(s) \/ Complete(s) \/ Judge(s)
  BY <1>3 DEF TInv, TypeOK, Prepare, PrepareFails, Work, Complete, Judge, Go, taskVars, treeVars
<1>4. CASE Revert(s) \/ Restore(s)
  BY <1>4 DEF TInv, TypeOK, Revert, Restore, Go, treeVars
<1>5. CASE Retire(s)
  BY <1>0, <1>5 DEF TInv, TypeOK, Retire, Go
<1>6. CASE IntegrateRefused(s) \/ IntegrateInPlace(s) \/ IntegrateWorktree(s)
  BY <1>0, <1>6 DEF TInv, TypeOK, IntegrateRefused, IntegrateInPlace, IntegrateWorktree, Current, Go, taskVars, treeVars
<1>7. CASE WriteNext(s) \/ WriteFails(s)
  BY <1>7 DEF TInv, TypeOK, WriteNext, WriteFails, Go, treeVars
<1>8. CASE RevertLast(s) \/ RevertEarlier(s)
  BY <1>8 DEF TInv, TypeOK, RevertLast, RevertEarlier, Go, treeVars
<1>9. CASE EndFailed(s) \/ EndCompleted(s)
  <2>1. PICK as : Dispose(s, as)
    BY <1>9 DEF EndFailed, EndCompleted
  <2>2. \A n \in 1..MaxAttempts : <<t, n>> \notin Listed(s)
    BY DEF Listed
  <2>3. \A n \in 1..MaxAttempts : ws'[<<t, n>>] = ws[<<t, n>>]
    BY <1>0, <2>1, <2>2 DEF Dispose
  <2> QED BY <2>1, <2>3 DEF Dispose, Go, TInv, TypeOK
<1> QED BY <1>1, <1>2, <1>3, <1>4, <1>5, <1>6, <1>7, <1>8, <1>9 DEF Step

\* A path of an untouched task that changes becomes hasty when the task is half way
\* through it, and is unknown of otherwise.
LEMMA OthersSeen ==
  ASSUME TInv, NEW t \in Task, Untouched(t), NEW p \in Path \ hasty', Seen(t, p), Watch
  PROVE  Seen(t, p)'
<1>1. CASE at[t] \notin {"identify"} \cup WithLease
  BY <1>1 DEF Untouched, Seen, WithLease
<1>2. CASE at[t] \in {"identify"} \cup WithLease
  <2>1. tries[t] \in 1..MaxAttempts
    BY <1>2, CurrentTyped DEF WithLease
  <2>2. Current(t)' = Current(t) /\ ws'[Current(t)] = ws[Current(t)]
    BY <2>1 DEF Untouched, Current
  <2>3. Underway(t)' = Underway(t)
    BY <2>2 DEF Underway, Untouched
  <2>4. p \in Underway(t) => main'[p] = main[p]
    BY <2>3 DEF Watch
  <2>5. at[t] = "identify" => Underway(t) = ws[Current(t)].copied
    BY DEF Underway
  <2>6. at[t] = "write" => Underway(t) = todo[t]
    BY DEF Underway
  <2>7. at[t] = "write" /\ p \in todo[t] => Base(Current(t), p)' = Base(Current(t), p)
    BY <2>2 DEF Base, HeadTree
  <2>8. at'[t] = at[t] /\ todo'[t] = todo[t] /\ pinned'[t] = pinned[t]
    BY DEF Untouched
  <2>9. at'[t] = "identify" /\ p \in ws'[Current(t)'].copied => main'[p] = ws'[Current(t)'].before[p]
    BY <2>2, <2>4, <2>5, <2>8 DEF Seen
  <2>10. at'[t] \in WithLease /\ ws'[Current(t)'].mode = "worktree" /\ p \in ws'[Current(t)'].copied
           => ws'[Current(t)'].identity[p] = ws'[Current(t)'].before[p]
    BY <2>2, <2>8 DEF Seen
  <2>11. at'[t] = "write" /\ p \in todo'[t] =>
           ws'[Current(t)'].mode = "worktree" /\ (main'[p] = Base(Current(t), p)' \/ main'[p] = pinned'[t][p])
    BY <2>2, <2>4, <2>6, <2>7, <2>8 DEF Seen
  <2> QED BY <2>9, <2>10, <2>11 DEF Seen, WithLease
<1> QED BY <1>1, <1>2
\* A task's own step keeps what is known of its paths.
LEMMA OwnSeen ==
  ASSUME TInv, NEW t \in Task, Step(t), NEW p \in Path \ hasty', Seen(t, p)
  PROVE  Seen(t, p)'
<1> DEFINE a == Current(t)
<1>1. ASSUME at'[t] \notin {"identify"} \cup WithLease
      PROVE  Seen(t, p)'
  BY <1>1 DEF Seen, WithLease
<1>2. CASE \/ Skip(t) \/ Create(t) \/ OpenFails(t) \/ PrepareFails(t) \/ Revert(t) \/ Retire(t)
           \/ IntegrateRefused(t) \/ IntegrateInPlace(t) \/ WriteFails(t) \/ RevertLast(t) \/ RevertEarlier(t)
  <2>1. at'[t] \in {"failed", "open", "slot", "failing", "restore", "create", "accepted", "revert"}
    BY <1>2 DEF Skip, Create, OpenFails, PrepareFails, Revert, Retire, IntegrateRefused, IntegrateInPlace,
       WriteFails, RevertLast, RevertEarlier, Go, TInv, TypeOK
  <2> QED BY <1>1, <2>1 DEF WithLease
<1>3. CASE Restore(t)
  <2>1. at'[t] = "restore"
    BY <1>3 DEF Restore
  <2> QED BY <1>1, <2>1 DEF WithLease
<1>4. CASE EndFailed(t) \/ EndCompleted(t)
  <2>1. at'[t] \in {"failed", "completed"}
    BY <1>4 DEF EndFailed, EndCompleted, Dispose, Go, TInv, TypeOK
  <2> QED BY <1>1, <2>1 DEF WithLease
<1>5. CASE ReuseWorktree(t) \/ OpenWorktree(t)
  <2>1. PICK l : Populate(t, l) /\ UNCHANGED <<main, tries>> /\ at[t] = "open"
    BY <1>5 DEF ReuseWorktree, OpenWorktree, taskVars
  <2>2. a \in Attempt /\ Current(t)' = a
    BY <2>1, CurrentTyped DEF Current
  <2>3. at'[t] = "identify"
    BY <2>1 DEF Populate, Go, TInv, TypeOK
  <2>4. ws'[a].copied = ws[a].copied /\ (p \in ws[a].copied => ws'[a].before[p] = main[p])
    BY <2>1, <2>2 DEF Populate, TInv, TypeOK
  <2> QED BY <2>1, <2>2, <2>3, <2>4 DEF Seen, WithLease
<1>6. CASE Identify(t)
  <2>1. a \in Attempt /\ Current(t)' = a
    BY <1>6, CurrentTyped DEF Identify, Current, taskVars
  <2>2. ws[a] \in Workspace
    BY <2>1 DEF TInv, TypeOK
  <2>3. /\ ws'[a].copied = ws[a].copied /\ ws'[a].before = ws[a].before
        /\ p \in ws[a].copied => ws'[a].identity[p] = main[p]
    BY <1>6, <2>1, <2>2 DEF Identify, TInv, TypeOK, Workspace
  <2>4. at[t] = "identify" /\ at'[t] = "prepare"
    BY <1>6 DEF Identify, Go, TInv, TypeOK
  <2> QED BY <2>1, <2>3, <2>4 DEF Seen, WithLease
<1>7. CASE AcquireSlot(t)
  <2>1. a \in Attempt /\ Current(t)' = a
    BY <1>7, CurrentTyped DEF AcquireSlot, Current, taskVars
  <2>2. ws'[a].mode = "scoped-dir" /\ at'[t] = "prepare"
    BY <1>7, <2>1 DEF AcquireSlot, Go, TInv, TypeOK
  <2> QED BY <2>1, <2>2 DEF Seen, WithLease
<1>8. CASE Prepare(t) \/ Work(t) \/ Complete(t) \/ Judge(t)
  <2>1. ws' = ws /\ tries' = tries
    BY <1>8 DEF Prepare, Work, Complete, Judge, treeVars, taskVars
  <2>2. at[t] \in WithLease /\ at'[t] \in {"working", "judged", "integrate", "failing", "revert"}
    BY <1>8 DEF Prepare, Work, Complete, Judge, Go, WithLease, TInv, TypeOK
  <2>3. Current(t)' = a
    BY <2>1 DEF Current
  <2> QED BY <2>1, <2>2, <2>3 DEF Seen, WithLease
<1>9. CASE IntegrateWorktree(t)
  <2>1. ws' = ws /\ Current(t)' = a /\ main' = main /\ pinned' = pinned
    BY <1>9 DEF IntegrateWorktree, treeVars, Current
  <2>2. at[t] = "integrate" /\ at'[t] \in {"accepted", "write"} /\ ws[a].mode = "worktree"
    BY <1>9 DEF IntegrateWorktree, Go, TInv, TypeOK
  <2>3. todo'[t] = DOMAIN pinned[t]
    BY <1>9 DEF IntegrateWorktree, TInv, TypeOK
  <2>4. p \in DOMAIN pinned[t] => main[p] = Base(a, p) \/ main[p] = pinned[t][p]
    BY <1>9 DEF IntegrateWorktree, Conflict
  <2>5. Base(a, p)' = Base(a, p)
    BY <2>1 DEF Base, HeadTree
  <2> QED BY <2>1, <2>2, <2>3, <2>4, <2>5 DEF Seen, WithLease
<1>10. CASE WriteNext(t)
  <2>1. ws' = ws /\ Current(t)' = a /\ pinned' = pinned
    BY <1>10 DEF WriteNext, treeVars, Current
  <2>2. PICK q \in todo[t] : /\ todo' = [todo EXCEPT ![t] = @ \ {q}]
                             /\ main' = With(main, [r \in {q} |-> pinned[t][r]])
    BY <1>10 DEF WriteNext
  <2>3. at[t] = "write" /\ at'[t] \in {"accepted", "write"}
    BY <1>10 DEF WriteNext, Go, TInv, TypeOK
  <2>4. p \in todo'[t] => p \in todo[t] /\ main'[p] = main[p]
    BY <2>2 DEF With, TInv, TypeOK, Tree
  <2>5. Base(a, p)' = Base(a, p)
    BY <2>1 DEF Base, HeadTree
  <2> QED BY <2>1, <2>3, <2>4, <2>5 DEF Seen, WithLease
<1> QED BY <1>2, <1>3, <1>4, <1>5, <1>6, <1>7, <1>8, <1>9, <1>10 DEF Step

\* What is known of the paths holds at first.
LEMMA InitSeen == Init => EInv
BY DEF Init, EInv, Seen, WithLease

\* Every step keeps what is known of the paths.
LEMMA NextSeen == TInv /\ EInv /\ [Next]_vars => EInv'
<1> SUFFICES ASSUME TInv, EInv, [Next]_vars PROVE EInv'
  OBVIOUS
<1>1. CASE UNCHANGED vars
  BY <1>1 DEF vars, treeVars, slotVars, taskVars, EInv, Seen, Current, Base, HeadTree
<1>2. CASE Next
  <2>1. Watch
    BY <1>2 DEF Next, Step
  <2>2. hasty \subseteq hasty'
    BY <2>1 DEF Watch
  <2>3. CASE \E s \in Task : Step(s)
    <3>1. PICK s \in Task : Step(s)
      BY <2>3
    <3>2. process' = "up"
      BY <3>1 DEF Step, Skip, Create, ReuseWorktree, OpenWorktree, OpenFails, Identify, AcquireSlot, Prepare,
         PrepareFails, Work, Complete, Judge, Revert, Restore, Retire, IntegrateRefused, IntegrateInPlace,
         IntegrateWorktree, WriteNext, WriteFails, RevertLast, RevertEarlier, EndFailed, EndCompleted, Dispose
    <3>3. ASSUME NEW t \in Task, NEW p \in Path \ hasty' PROVE Seen(t, p)'
      <4>1. Seen(t, p)
        BY <2>2, <3>3 DEF EInv
      <4>2. CASE s = t
        BY <3>1, <4>1, <4>2, OwnSeen
      <4>3. CASE s # t
        BY <2>1, <3>1, <4>1, <4>3, Frame, OthersSeen
      <4> QED BY <4>2, <4>3
    <3> QED BY <3>2, <3>3 DEF EInv
  <2>4. CASE UserEdit
    <3>1. process' = process /\ at' = at /\ \A t \in Task : Untouched(t)
      BY <2>4 DEF UserEdit, Untouched, taskVars, treeVars
    <3> QED BY <2>1, <2>2, <3>1, OthersSeen DEF EInv
  <2>5. CASE Crash
    <3>1. \A t \in Task : at'[t] \in {"completed", "failed", "lost"}
      BY <2>5 DEF Crash, Ended
    <3> QED BY <3>1 DEF EInv, Seen, WithLease
  <2>6. CASE Prune
    <3>1. at' = at /\ \A t \in Task : at[t] \in {"completed", "failed", "lost"}
      BY <2>6 DEF Prune, EInv
    <3> QED BY <3>1 DEF EInv, Seen, WithLease
  <2> QED BY <1>2, <2>3, <2>4, <2>5, <2>6 DEF Next
<1> QED BY <1>1, <1>2
\* The edit that a write meets was there when the worktree was made.
LEMMA StepSeen == TInv /\ EInv /\ [Next]_vars => [EditSeen]_vars
<1> SUFFICES ASSUME TInv, EInv, Next, NEW t \in Task, NEW p \in Path \ hasty',
                    at[t] = "write", p \in todo[t], main[p] = User, main'[p] = t
             PROVE  ws[Current(t)].before[p] = User
  BY DEF EditSeen
<1>1. Watch
  BY DEF Next, Step
<1>2. t # User /\ main'[p] # main[p]
  BY PlansOK
<1>3. p \notin Underway(t)'
  BY <1>1, <1>2 DEF Watch, Underway
<1>4. Step(t) \/ Crash
  <2>1. ASSUME NEW s \in Task \ {t}, Step(s) PROVE FALSE
    <3>1. Untouched(t)
      BY <2>1, Frame
    <3> QED BY <1>3, <3>1 DEF Untouched, Underway
  <2>2. ASSUME UserEdit PROVE FALSE
    BY <1>3, <2>2 DEF UserEdit, taskVars, Underway
  <2>3. ASSUME Prune PROVE FALSE
    BY <1>3, <2>3 DEF Prune, taskVars, Underway
  <2> QED BY <2>1, <2>2, <2>3 DEF Next
<1>5. ~Crash
  BY <1>2 DEF Crash
<1>6. WriteNext(t)
  <2>1. WriteNext(t) \/ WriteFails(t)
    BY <1>4, <1>5 DEF Step, Skip, Create, ReuseWorktree, OpenWorktree, OpenFails, Identify, AcquireSlot, Prepare,
       PrepareFails, Work, Complete, Judge, Revert, Restore, Retire, IntegrateRefused, IntegrateInPlace,
       IntegrateWorktree, RevertLast, RevertEarlier, EndFailed, EndCompleted
  <2> QED BY <1>2, <2>1 DEF WriteFails
<1>7. PICK q \in todo[t] : main' = With(main, [r \in {q} |-> pinned[t][r]])
  BY <1>6 DEF WriteNext
<1>8. q = p /\ pinned[t][p] = t
  BY <1>2, <1>7 DEF With, TInv, TypeOK, Tree
<1>9. Seen(t, p)
  BY <1>1 DEF EInv, Watch
<1>10. Base(Current(t), p) = User /\ ws[Current(t)].mode = "worktree"
  BY <1>2, <1>8, <1>9 DEF Seen
<1>11. p \in ws[Current(t)].copied /\ ws[Current(t)].identity[p] = User
  BY <1>10, PlansOK DEF Base, HeadTree
<1> QED BY <1>9, <1>10, <1>11 DEF Seen, WithLease

\* The integration of a worktree writes over an edit of the user only if the worktree was
\* made with that edit in it.
THEOREM EditsSeen == Spec => EditsAreSeen
<1>1. Init => TInv /\ EInv
  BY InitTyped, InitSeen
<1>2. TInv /\ EInv /\ [Next]_vars => (TInv /\ EInv)'
  BY NextTyped, NextSeen
<1> QED BY <1>1, <1>2, StepSeen, PTL DEF Spec, EditsAreSeen
-----------------------------------------------------------------------------
(* Workspaces *)

Of(t) == {a \in Attempt : a[1] = t}

\* Where the workspaces of a task are, while the process is up: a worktree is held by the
\* attempt that was given it last, attempts to come have nothing, and what the next one
\* continues in is there.
Placed(t) ==
  /\ \A a \in Of(t) : ws[a].lease \in Of(t)
  /\ \A a \in Of(t) : a[2] > tries[t] => ws[a].mode = "none" /\ a \notin onDisk \cup slots
  /\ \A a \in Of(t) : holder[a] = a \/ a[2] < tries[t]
  /\ \A a \in Of(t) : a \in onDisk =>
       holder[a] \in Of(t) /\ ws[holder[a]].mode = "worktree" /\ ws[holder[a]].lease = a
  /\ at[t] \in {"open", "slot"} => ws[Current(t)].mode = "none"
  /\ at[t] \in {"create", "open"} /\ reuse[t] > 0 => ws[<<t, reuse[t]>>].lease \in onDisk
  /\ at[t] = "identify" => ws[Current(t)].mode = "worktree" /\ ws[Current(t)].lease \in onDisk
  /\ at[t] \in WithLease /\ ws[Current(t)].mode = "worktree" =>
       ws[Current(t)].lease \in onDisk /\ holder[ws[Current(t)].lease] = Current(t)
  /\ next[t] # "none" => at[t] \in {"revert", "restore"} /\ cursor[t] = tries[t]
  /\ next[t] # "none" /\ ws[Current(t)].mode = "worktree" => ws[Current(t)].lease \in onDisk
  /\ at[t] \in {"working", "judged"} \/ next[t] # "none" => reuse[t] = 0
  /\ Ended(t) /\ (\A a \in unlisted : a[1] # t) => \A a \in Of(t) : a \notin onDisk \cup slots

PInv == process = "up" => \A t \in Task : Placed(t)

\* What the steps of others leave alone of the workspaces of a task.
Apart(t) ==
  /\ reuse'[t] = reuse[t] /\ next'[t] = next[t] /\ cursor'[t] = cursor[t]
  /\ \A a \in Of(t) : /\ ws'[a] = ws[a] /\ holder'[a] = holder[a]
                      /\ (a \in onDisk') <=> (a \in onDisk)
                      /\ (a \in slots') <=> (a \in slots)
                      /\ (a \in unlisted') <=> (a \in unlisted)

\* The attempts of a task.
LEMMA OfAttempts ==
  ASSUME NEW t \in Task, NEW n \in 1..MaxAttempts
  PROVE  <<t, n>> \in Of(t)
BY DEF Of, Attempt

\* An attempt of a task is the task and a number.
LEMMA OfShape ==
  ASSUME NEW t \in Task, NEW a \in Of(t)
  PROVE  a = <<t, a[2]>> /\ a[2] \in 1..MaxAttempts
BY DEF Of, Attempt

\* No attempt is of two tasks.
LEMMA OfOthers ==
  ASSUME NEW s \in Task, NEW t \in Task \ {s}, NEW a \in Of(t)
  PROVE  a \in Attempt /\ a \notin Of(s) /\ \A n : a # <<s, n>>
BY DEF Of, Attempt

\* A task's step leaves the workspaces of the others alone.
LEMMA ApartFrame ==
  ASSUME TInv, NEW s \in Task, NEW t \in Task \ {s}, Step(s), Placed(s)
  PROVE  Apart(t)
<1> USE DEF Apart
<1>0. \A a \in Of(t) : a \in Attempt /\ a \notin Of(s) /\ \A n : a # <<s, n>>
  BY OfOthers
<1>1. ASSUME NEW b \in Of(s) PROVE ws[b].lease \in Of(s)
  BY <1>1 DEF Placed
<1>2. CASE Skip(s) \/ Create(s) \/ AcquireSlot(s)
  BY <1>0, <1>2 DEF TInv, TypeOK, Skip, Create, AcquireSlot, Current, Go, taskVars, treeVars, slotVars
<1>3. CASE Identify(s)
  <2>1. Current(s) \in Of(s)
    BY <1>3, CurrentTyped, OfAttempts DEF Identify, Current
  <2>2. ws[Current(s)].lease \in Of(s)
    BY <1>1, <2>1
  <2> QED BY <1>0, <1>3, <2>2 DEF TInv, TypeOK, Identify, Current, taskVars, slotVars
<1>4. CASE ReuseWorktree(s) \/ OpenWorktree(s) \/ OpenFails(s)
  <2>1. reuse[s] > 0 => ws[<<s, reuse[s]>>].lease \in Of(s)
    BY <1>1, OfAttempts, PlansOK DEF TInv, TypeOK
  <2>2. Current(s) \in Of(s)
    BY <1>4, CurrentTyped, OfAttempts DEF ReuseWorktree, OpenWorktree, OpenFails, Current
  <2>3. \A a \in Of(t) : (a \in onDisk') <=> (a \in onDisk)
    BY <1>0, <1>4, <2>1, <2>2 DEF ReuseWorktree, OpenWorktree, OpenFails, Kept
  <2> QED BY <1>0, <1>4, <2>3
      DEF TInv, TypeOK, ReuseWorktree, OpenWorktree, OpenFails, Populate, Current, taskVars, slotVars
<1>5. CASE Prepare(s) \/ PrepareFails(s) \/ Work(s) \/ Complete(s) \/ Judge(s)
  BY <1>0, <1>5 DEF TInv, TypeOK, Prepare, PrepareFails, Work, Complete, Judge, Current, taskVars, treeVars, slotVars
<1>6. CASE Revert(s) \/ Restore(s)
  BY <1>6 DEF Revert, Restore, treeVars, slotVars
<1>7. CASE Retire(s)
  BY <1>0, <1>7 DEF TInv, TypeOK, Retire
<1>8. CASE IntegrateRefused(s) \/ IntegrateInPlace(s) \/ IntegrateWorktree(s)
  BY <1>0, <1>8 DEF TInv, TypeOK, IntegrateRefused, IntegrateInPlace, IntegrateWorktree, Current, taskVars, treeVars, slotVars
<1>9. CASE WriteNext(s) \/ WriteFails(s)
  BY <1>9 DEF WriteNext, WriteFails, treeVars, slotVars
<1>10. CASE RevertLast(s) \/ RevertEarlier(s)
  BY <1>10 DEF TInv, TypeOK, RevertLast, RevertEarlier, treeVars, slotVars
<1>11. CASE EndFailed(s) \/ EndCompleted(s)
  <2>1. PICK as : Dispose(s, as)
    BY <1>11 DEF EndFailed, EndCompleted
  <2>2. Listed(s) \subseteq Of(s)
    BY DEF Listed, Of
  <2>3. \A a \in Of(t) : a \notin Listed(s) /\ \A b \in Listed(s) : a # ws[b].lease
    BY <1>0, <1>1, <2>2
  <2>4. \A a \in Of(t) : /\ ws'[a] = ws[a]
                         /\ (a \in onDisk') <=> (a \in onDisk)
                         /\ (a \in slots') <=> (a \in slots)
    BY <1>0, <2>1, <2>3 DEF Dispose
  <2>5. reuse'[t] = reuse[t] /\ cursor'[t] = cursor[t]
    BY <2>1 DEF Dispose, TInv, TypeOK
  <2>6. next' = next /\ holder' = holder /\ unlisted' = unlisted
    BY <2>1 DEF Dispose
  <2> QED BY <2>4, <2>5, <2>6
<1> QED BY <1>2, <1>3, <1>4, <1>5, <1>6, <1>7, <1>8, <1>9, <1>10, <1>11 DEF Step

\* Workspaces left alone stay where they are.
LEMMA OthersPlaced ==
  ASSUME TInv, NEW t \in Task, Untouched(t), Apart(t), Placed(t)
  PROVE  Placed(t)'
<1>1. /\ at'[t] = at[t] /\ tries'[t] = tries[t] /\ Current(t)' = Current(t) /\ (Ended(t))' = Ended(t)
      /\ reuse'[t] = reuse[t] /\ next'[t] = next[t] /\ cursor'[t] = cursor[t]
  BY DEF Untouched, Apart, Current, Ended
<1>2. tries[t] > 0 => Current(t) \in Of(t)
  BY OfAttempts, PlansOK DEF TInv, TypeOK, Current
<1>3. \A a \in Of(t) : /\ ws'[a] = ws[a] /\ holder'[a] = holder[a]
                       /\ (a \in onDisk') <=> (a \in onDisk)
                       /\ (a \in slots') <=> (a \in slots)
                       /\ ws[a].lease \in Of(t)
  BY DEF Apart, Placed
<1>4. \A a \in Of(t) : a \in onDisk' => holder'[a] \in Of(t) /\ ws'[holder'[a]].mode = "worktree" /\ ws'[holder'[a]].lease = a
  BY <1>3 DEF Placed
<1>5. at'[t] \in {"open", "slot", "identify"} \cup WithLease => Current(t) \in Of(t)
  BY <1>1, <1>2, CurrentTyped DEF WithLease, TInv, Started
<1>6. next'[t] # "none" => Current(t) \in Of(t)
  BY <1>1, <1>2 DEF Placed, TInv, Started
<1>7. reuse'[t] > 0 => <<t, reuse'[t]>> \in Of(t)
  BY <1>1, OfAttempts, PlansOK DEF TInv, TypeOK
<1>8. (\A a \in unlisted' : a[1] # t) => (\A a \in unlisted : a[1] # t)
  BY DEF Apart, Of, TInv, TypeOK
<1> QED BY <1>1, <1>3, <1>4, <1>5, <1>6, <1>7, <1>8 DEF Placed
\* An attempt without a workspace.
LEMMA NothingThere == \A a : NoWorkspace(a).lease = a /\ NoWorkspace(a).mode = "none"
BY DEF NoWorkspace

\* Whose workspace is whose, when only their state changes.
LEMMA SamePlaces ==
  ASSUME NEW t \in Task, Placed(t), holder' = holder, onDisk' = onDisk, tries'[t] = tries[t],
         \A b \in Of(t) : ws'[b].mode = ws[b].mode /\ ws'[b].lease = ws[b].lease,
         slots' \subseteq slots
  PROVE  /\ \A b \in Of(t) : ws'[b].lease \in Of(t)
         /\ \A b \in Of(t) : b[2] > tries'[t] => ws'[b].mode = "none" /\ b \notin onDisk' \cup slots'
         /\ \A b \in Of(t) : holder'[b] = b \/ b[2] < tries'[t]
         /\ \A b \in Of(t) : b \in onDisk' =>
              holder'[b] \in Of(t) /\ ws'[holder'[b]].mode = "worktree" /\ ws'[holder'[b]].lease = b
BY DEF Placed

\* A step that gives no workspace and takes none.
LEMMA StayPlaced ==
  ASSUME TInv, NEW t \in Task, Placed(t), UNCHANGED <<treeVars, slots, tries, unlisted, reuse>>,
         \/ at[t] \in {"integrate", "write"} /\ next' = next
         \/ at'[t] \in {"restore", "revert"} /\ at[t] = at'[t] /\ next' = next /\ cursor' = cursor
         \/ at[t] = "revert" /\ at'[t] = "restore" /\ next' = next /\ cursor' = cursor
         \/ at[t] \in {"failing", "restore"} /\ next[t] = "none" /\ at'[t] = "revert" /\ next' = next,
         at'[t] \in {"revert", "restore", "failing", "accepted", "write"}
  PROVE  Placed(t)'
<1>1. /\ Current(t)' = Current(t) /\ ws' = ws /\ onDisk' = onDisk /\ holder' = holder /\ slots' = slots
      /\ tries' = tries /\ reuse' = reuse /\ next' = next
  BY DEF treeVars, slotVars, Current
<1>2. next'[t] # "none" => next[t] # "none" /\ at[t] \in {"revert", "restore"} /\ cursor'[t] = tries[t]
  BY <1>1 DEF Placed
<1>3. at[t] = "write" => at'[t] \in {"revert", "restore", "failing", "accepted", "write"}
  OBVIOUS
<1>4. at'[t] = "write" => at[t] \in {"integrate", "write"}
  OBVIOUS
<1>5. next'[t] # "none" => at'[t] \in {"revert", "restore"}
  BY <1>2
<1> QED BY <1>1, <1>2, <1>4, <1>5 DEF Placed, WithLease, Ended

\* A task's own step keeps its workspaces in place.
LEMMA OwnPlaced ==
  ASSUME TInv, NEW t \in Task, Step(t), Placed(t)
  PROVE  Placed(t)'
<1> DEFINE a == Current(t)
<1>1. CASE Skip(t)
  <2>1. tries[t] = 0 /\ at[t] = "create" /\ at'[t] = "failed" /\ next[t] = "none"
    BY <1>1 DEF Skip, Go, TInv, TypeOK, Placed
  <2>2. UNCHANGED <<treeVars, slotVars, tries, next, reuse, unlisted, cursor>> /\ Current(t)' = a
    BY <1>1 DEF Skip, taskVars, Current
  <2>3. \A b \in Of(t) : b[2] > tries[t]
    BY <2>1 DEF Of, Attempt
  <2> QED BY <2>1, <2>2, <2>3 DEF Placed, treeVars, slotVars, WithLease
<1>2. CASE Create(t)
  <2> DEFINE c == <<t, tries[t] + 1>>
  <2>1. /\ tries[t] \in Nat /\ tries'[t] = tries[t] + 1 /\ Current(t)' = c /\ at'[t] \in {"open", "slot"}
        /\ at[t] = "create" /\ next[t] = "none"
    BY <1>2 DEF Create, Go, TInv, TypeOK, Current, Placed
  <2>2. UNCHANGED <<tree, onDisk, holder, slotVars, next, cursor, unlisted, reuse>>
    BY <1>2 DEF Create
  <2>3. c \in Of(t)
    <3>1. plan.attempts \in [Task -> 0..MaxAttempts] /\ tries[t] < plan.attempts[t]
      BY <1>2, PlansOK DEF Create, TInv, TypeOK
    <3>2. tries[t] + 1 \in 1..MaxAttempts
      BY <2>1, <3>1, PlansOK
    <3> QED BY <3>2, OfAttempts
  <2>4. \A b \in Attempt : ws'[b].mode = ws[b].mode /\ ws'[b].lease = ws[b].lease
    <3> DEFINE seeds == Ours \cup Overlap(t)
    <3>1. ws' = [ws EXCEPT ![c].copied = seeds] \/ ws' = ws
      BY <1>2 DEF Create
    <3>2. ws \in [Attempt -> Workspace]
      BY DEF TInv, TypeOK
    <3> HIDE DEF seeds, a, c
    <3> QED BY <3>1, <3>2 DEF Workspace
  <2>5. ws[c].mode = "none"
    BY <2>1, <2>3 DEF Placed
  <2>6. \A b \in Of(t) : b \in Attempt
    BY DEF Of
  <2>7. \A b \in Of(t) : b[2] \in Nat
    BY DEF Of, Attempt
  <2>8. reuse[t] > 0 => <<t, reuse[t]>> \in Of(t)
    BY OfAttempts, PlansOK DEF TInv, TypeOK
  <2>9. \A b \in Of(t) : b \in onDisk' =>
          holder'[b] \in Of(t) /\ ws'[holder'[b]].mode = "worktree" /\ ws'[holder'[b]].lease = b
    BY <2>2, <2>4, <2>6 DEF Placed
  <2>10. ws'[c].mode = "none"
    BY <2>3, <2>4, <2>5, <2>6
  <2>11. reuse'[t] > 0 => ws'[<<t, reuse'[t]>>].lease \in onDisk'
    BY <2>1, <2>2, <2>4, <2>6, <2>8 DEF Placed
  <2>12. \A b \in Of(t) : /\ ws'[b].lease \in Of(t)
                          /\ b[2] > tries'[t] => ws'[b].mode = "none" /\ b \notin onDisk' \cup slots'
                          /\ holder'[b] = b \/ b[2] < tries'[t]
    BY <2>1, <2>2, <2>4, <2>6, <2>7 DEF Placed, slotVars
  <2>13. next'[t] = "none"
    BY <2>1, <2>2
  <2> HIDE DEF c
  <2> QED BY <2>1, <2>9, <2>10, <2>11, <2>12, <2>13 DEF Placed, WithLease, Ended
<1>3. CASE ReuseWorktree(t) \/ OpenWorktree(t)
  <2>1. PICK l : Populate(t, l) /\ at[t] = "open" /\ onDisk' \subseteq onDisk \cup {a} /\ l \in onDisk' /\ l \in Of(t)
                 /\ (a \in onDisk' => a \in onDisk \/ l = a)
    <3>1. CASE ReuseWorktree(t)
      <4>1. ws[<<t, reuse[t]>>].lease \in onDisk /\ <<t, reuse[t]>> \in Of(t)
        BY <3>1, OfAttempts, PlansOK DEF ReuseWorktree, Placed, TInv, TypeOK
      <4> QED BY <3>1, <4>1 DEF ReuseWorktree, Placed
    <3>2. CASE OpenWorktree(t)
      <4>1. a \in Of(t)
        BY <3>2, CurrentTyped, OfAttempts DEF OpenWorktree, Current
      <4> QED BY <3>2, <4>1 DEF OpenWorktree, Kept
    <3> QED BY <1>3, <3>1, <3>2
  <2>2. UNCHANGED <<holder, slots, tries, next, cursor, unlisted, reuse>> /\ Current(t)' = a /\ at'[t] = "identify"
    BY <1>3, <2>1 DEF ReuseWorktree, OpenWorktree, Populate, Go, slotVars, taskVars, Current, TInv, TypeOK
  <2>3. a \in Of(t) /\ a \in Attempt /\ a[2] = tries[t]
    BY <2>1, CurrentTyped, OfAttempts DEF Current
  <2>4. ws'[a].mode = "worktree" /\ ws'[a].lease = l /\ \A b \in Of(t) \ {a} : ws'[b] = ws[b]
    BY <2>1, <2>3 DEF Populate, TInv, TypeOK, Of
  <2>5. ws[a].mode = "none" /\ holder[a] = a /\ next[t] = "none"
    BY <2>1, <2>3, PlansOK DEF Placed, TInv, TypeOK
  <2>6. \A b \in Of(t) : b \in onDisk' =>
          holder'[b] \in Of(t) /\ ws'[holder'[b]].mode = "worktree" /\ ws'[holder'[b]].lease = b
    <3>1. SUFFICES ASSUME NEW b \in Of(t), b \in onDisk'
                   PROVE  holder[b] \in Of(t) /\ ws'[holder[b]].mode = "worktree" /\ ws'[holder[b]].lease = b
      BY <2>2
    <3>2. CASE b \in onDisk
      <4>1. holder[b] \in Of(t) /\ ws[holder[b]].mode = "worktree" /\ ws[holder[b]].lease = b
        BY <3>2 DEF Placed
      <4> QED BY <2>4, <2>5, <4>1
    <3>3. CASE b \notin onDisk
      BY <2>1, <2>3, <2>4, <2>5, <3>1, <3>3
    <3> QED BY <3>2, <3>3
  <2>7. \A b \in Of(t) : ws'[b].lease \in Of(t)
    BY <2>1, <2>4 DEF Placed
  <2>8. \A b \in Of(t) : b[2] > tries'[t] => ws'[b].mode = "none" /\ b \notin onDisk' \cup slots'
    <3>1. \A b \in Of(t) : b[2] > tries[t] => b # a
      BY <2>3, PlansOK DEF TInv, TypeOK
    <3> QED BY <2>1, <2>2, <2>4, <3>1 DEF Placed
  <2>9. \A b \in Of(t) : holder'[b] = b \/ b[2] < tries'[t]
    BY <2>2 DEF Placed
  <2> HIDE DEF a
  <2> QED BY <2>1, <2>2, <2>4, <2>5, <2>6, <2>7, <2>8, <2>9 DEF Placed, WithLease, Ended
<1>4. CASE OpenFails(t)
  <2>1. /\ UNCHANGED <<ws, holder, slots, tries, next, cursor, unlisted, reuse>> /\ Current(t)' = a
        /\ at[t] = "open" /\ at'[t] = "slot" /\ onDisk' \subseteq onDisk
    BY <1>4 DEF OpenFails, Kept, Go, slotVars, taskVars, Current, TInv, TypeOK
  <2>2. next[t] = "none"
    BY <2>1 DEF Placed
  <2> QED BY <2>1, <2>2 DEF Placed, WithLease, Ended
<1>5. CASE Identify(t)
  <2> DEFINE l == ws[a].lease
  <2>1. a \in Of(t) /\ a \in Attempt /\ a[2] = tries[t]
    BY <1>5, CurrentTyped, OfAttempts DEF Identify, Current
  <2>2. UNCHANGED <<onDisk, slots, tries, next, cursor, unlisted, reuse>> /\ Current(t)' = a
        /\ at[t] = "identify" /\ at'[t] = "prepare"
    BY <1>5 DEF Identify, Go, slotVars, taskVars, Current, TInv, TypeOK
  <2>3. \A b \in Attempt : ws'[b].mode = ws[b].mode /\ ws'[b].lease = ws[b].lease
    <3> DEFINE id == [p \in Path |-> IF p \in ws[a].copied THEN main[p] ELSE HeadTree[p]]
    <3>1. ws' = [ws EXCEPT ![a].identity = id]
      BY <1>5 DEF Identify
    <3> HIDE DEF id, a
    <3> QED BY <3>1 DEF TInv, TypeOK, Workspace
  <2>4. l \in Of(t) /\ l \in Attempt /\ l \in onDisk /\ ws[a].mode = "worktree" /\ next[t] = "none"
    BY <2>1, <2>2 DEF Placed, Of
  <2>5. holder'[l] = a /\ \A b \in Attempt \ {l} : holder'[b] = holder[b]
    BY <1>5, <2>4 DEF Identify, TInv, TypeOK
  <2>6. l = a \/ l[2] < tries[t]
    <3>1. ~(l[2] > tries[t])
      BY <2>4 DEF Placed
    <3>2. l = <<t, l[2]>> /\ l[2] \in 1..MaxAttempts
      BY <2>4, OfShape
    <3>3. tries[t] \in 0..MaxAttempts /\ a = <<t, tries[t]>>
      BY DEF TInv, TypeOK, Current
    <3> HIDE DEF l, a
    <3> QED BY <3>1, <3>2, <3>3, PlansOK
  <2>7. \A b \in Of(t) : b \in Attempt
    BY DEF Of
  <2> HIDE DEF l, a
  <2>8. \A b \in Of(t) : holder'[b] = b \/ b[2] < tries'[t]
    BY <2>2, <2>5, <2>6, <2>7 DEF Placed
  <2>9. \A b \in Of(t) : b \in onDisk' =>
          holder'[b] \in Of(t) /\ ws'[holder'[b]].mode = "worktree" /\ ws'[holder'[b]].lease = b
    <3>1. \A b \in Of(t) \ {l} : b \in onDisk' =>
            holder'[b] \in Of(t) /\ ws'[holder'[b]].mode = "worktree" /\ ws'[holder'[b]].lease = b
      BY <2>2, <2>3, <2>5, <2>7 DEF Placed
    <3>2. holder'[l] \in Of(t) /\ ws'[holder'[l]].mode = "worktree" /\ ws'[holder'[l]].lease = l
      BY <2>1, <2>3, <2>4, <2>5 DEF l
    <3> QED BY <3>1, <3>2
  <2>10. ws'[a].lease = l /\ l \in onDisk'
    BY <2>1, <2>2, <2>3, <2>4 DEF l
  <2>11. \A b \in Of(t) : /\ ws'[b].lease \in Of(t)
                          /\ b[2] > tries'[t] => ws'[b].mode = "none" /\ b \notin onDisk' \cup slots'
    BY <2>2, <2>3, <2>7 DEF Placed
  <2>12. next'[t] = "none" /\ at'[t] = "prepare" /\ Current(t)' = a
    BY <2>2, <2>4
  <2> QED BY <2>5, <2>8, <2>9, <2>10, <2>11, <2>12 DEF Placed, WithLease, Ended
<1>6. CASE AcquireSlot(t)
  <2>1. a \in Of(t) /\ a \in Attempt /\ a[2] = tries[t]
    BY <1>6, CurrentTyped, OfAttempts DEF AcquireSlot, Current
  <2>2. /\ UNCHANGED <<onDisk, holder, tries, next, cursor, unlisted, reuse>> /\ Current(t)' = a
        /\ at[t] = "slot" /\ at'[t] = "prepare" /\ slots' = slots \cup {a}
    BY <1>6 DEF AcquireSlot, Go, taskVars, Current, TInv, TypeOK
  <2>3. /\ ws'[a].mode = "scoped-dir" /\ ws'[a].lease = ws[a].lease
        /\ \A b \in Attempt \ {a} : ws'[b] = ws[b]
    BY <1>6, <2>1 DEF AcquireSlot, TInv, TypeOK
  <2>4. ws[a].mode = "none" /\ next[t] = "none" /\ tries[t] \in 0..MaxAttempts
    BY <2>2 DEF Placed, TInv, TypeOK
  <2>5. \A b \in Of(t) : b \in Attempt
    BY DEF Of
  <2>6. \A b \in Of(t) : b[2] > tries[t] => b # a
    BY <2>1, <2>4, PlansOK
  <2> HIDE DEF a
  <2>7. \A b \in Of(t) : b \in onDisk' =>
          holder'[b] \in Of(t) /\ ws'[holder'[b]].mode = "worktree" /\ ws'[holder'[b]].lease = b
    <3>1. \A b \in Of(t) : b \in onDisk =>
            holder[b] \in Of(t) /\ ws[holder[b]].mode = "worktree" /\ ws[holder[b]].lease = b
      BY DEF Placed
    <3>2. \A b \in Of(t) : b \in onDisk => holder[b] # a
      BY <2>4, <3>1
    <3> QED BY <2>2, <2>3, <2>5, <3>1, <3>2
  <2>8. \A b \in Of(t) : /\ ws'[b].lease \in Of(t)
                         /\ b[2] > tries'[t] => ws'[b].mode = "none" /\ b \notin onDisk' \cup slots'
                         /\ holder'[b] = b \/ b[2] < tries'[t]
    BY <2>1, <2>2, <2>3, <2>5, <2>6 DEF Placed
  <2>9. next'[t] = "none" /\ ws'[Current(t)'].mode = "scoped-dir"
    BY <2>2, <2>3, <2>4
  <2> QED BY <2>2, <2>7, <2>8, <2>9 DEF Placed, WithLease, Ended
<1>7. CASE Prepare(t) \/ PrepareFails(t) \/ Work(t) \/ Complete(t) \/ Judge(t)
  <2>1. UNCHANGED <<ws, onDisk, holder, slots, tries>> /\ Current(t)' = a
    BY <1>7 DEF Prepare, PrepareFails, Work, Complete, Judge, treeVars, slotVars, taskVars, Current
  <2>2. /\ at[t] \in {"prepare", "working", "judged"} /\ at'[t] \in {"working", "judged", "integrate", "failing", "revert"}
        /\ at'[t] \in {"working", "judged"} => reuse'[t] = 0 /\ next' = next
        /\ next'[t] # "none" => at'[t] = "revert" /\ at[t] = "judged" /\ cursor'[t] = tries[t] /\ reuse' = reuse
    <3>1. next[t] = "none" /\ (at[t] \in {"working", "judged"} => reuse[t] = 0)
      BY <1>7 DEF Prepare, PrepareFails, Work, Complete, Judge, Placed
    <3>2. CASE Prepare(t) \/ PrepareFails(t)
      BY <3>1, <3>2 DEF Prepare, PrepareFails, Go, TInv, TypeOK
    <3>3. CASE Work(t) \/ Complete(t)
      BY <3>1, <3>3 DEF Work, Complete, Go, taskVars, TInv, TypeOK
    <3>4. CASE Judge(t)
      BY <3>1, <3>4 DEF Judge, Go, TInv, TypeOK
    <3> QED BY <1>7, <3>2, <3>3, <3>4
  <2>3. reuse[t] = 0 \/ at[t] = "prepare"
    BY <2>2 DEF Placed
  <2>4. next'[t] # "none" => reuse'[t] = 0 /\ (ws[a].mode = "worktree" => ws[a].lease \in onDisk)
    BY <2>2, <2>3 DEF Placed, WithLease
  <2>5. next[t] = "none"
    BY <2>2 DEF Placed
  <2> HIDE DEF a
  <2> QED BY <2>1, <2>2, <2>4, <2>5, SamePlaces DEF Placed, WithLease, Ended, a
<1>8. CASE Retire(t)
  <2> DEFINE c == <<t, cursor[t]>>
  <2>1. /\ UNCHANGED <<onDisk, holder, tries, unlisted>> /\ Current(t)' = a /\ c = a
        /\ at[t] = "restore" /\ at'[t] \in {"create", "failing"} /\ next'[t] = "none" /\ slots' \subseteq slots
    BY <1>8 DEF Retire, Go, Current, Placed, TInv, TypeOK
  <2>2. a \in Of(t) /\ c \in Attempt
    BY <2>1, CursorTyped, OfAttempts
  <2>3. \A b \in Attempt : ws'[b].mode = ws[b].mode /\ ws'[b].lease = ws[b].lease
    <3>1. ws' = [ws EXCEPT ![c].dir = "gone"] \/ ws' = ws
      BY <1>8 DEF Retire
    <3>2. ws \in [Attempt -> Workspace]
      BY DEF TInv, TypeOK
    <3> HIDE DEF a, c
    <3> QED BY <3>1, <3>2 DEF Workspace
  <2>4. \/ ws[a].mode = "worktree" /\ reuse'[t] = tries[t]
        \/ ws[a].mode # "worktree" /\ reuse' = reuse
    <3>1. cursor[t] = tries[t]
      BY <2>1 DEF Current
    <3>2. \/ ws[c].mode = "worktree" /\ reuse' = [reuse EXCEPT ![t] = cursor[t]]
          \/ ws[c].mode # "worktree" /\ reuse' = reuse
      BY <1>8 DEF Retire
    <3>3. reuse \in [Task -> 0..MaxAttempts]
      BY DEF TInv, TypeOK
    <3> HIDE DEF a, c
    <3> QED BY <2>1, <3>1, <3>2, <3>3
  <2>5. next[t] # "none" /\ reuse[t] = 0
    BY <1>8 DEF Retire, Placed
  <2>6. reuse'[t] > 0 => ws'[<<t, reuse'[t]>>].lease \in onDisk'
    <3>1. reuse'[t] > 0 => <<t, reuse'[t]>> = a /\ ws[a].lease \in onDisk
      BY <2>4, <2>5 DEF Placed, Current
    <3> HIDE DEF a
    <3> QED BY <2>1, <2>2, <2>3, <3>1
  <2>7. \A b \in Of(t) : b \in Attempt
    BY DEF Of
  <2> HIDE DEF a, c
  <2> QED BY <2>1, <2>3, <2>6, <2>7, SamePlaces DEF Placed, WithLease, Ended
<1>9. CASE IntegrateInPlace(t)
  <2>1. a \in Attempt
    BY <1>9, CurrentTyped DEF IntegrateInPlace
  <2>2. /\ UNCHANGED <<onDisk, holder, slots, tries, next, cursor, unlisted, reuse>> /\ Current(t)' = a
        /\ at[t] = "integrate" /\ at'[t] = "accepted"
    BY <1>9 DEF IntegrateInPlace, Go, slotVars, taskVars, Current, TInv, TypeOK
  <2>3. \A b \in Attempt : ws'[b].mode = ws[b].mode /\ ws'[b].lease = ws[b].lease
    <3>1. ws' = [ws EXCEPT ![a].dir = "integrated"]
      BY <1>9 DEF IntegrateInPlace
    <3> HIDE DEF a
    <3> QED BY <3>1 DEF TInv, TypeOK, Workspace
  <2>4. next'[t] = "none"
    BY <2>2 DEF Placed
  <2>5. \A b \in Of(t) : b \in Attempt
    BY DEF Of
  <2> HIDE DEF a
  <2> QED BY <2>2, <2>3, <2>4, <2>5, SamePlaces DEF Placed, WithLease, Ended
<1>10. CASE \/ Revert(t) \/ Restore(t) \/ IntegrateRefused(t) \/ IntegrateWorktree(t)
            \/ WriteNext(t) \/ WriteFails(t) \/ RevertLast(t) \/ RevertEarlier(t)
  <2>1. UNCHANGED <<treeVars, slots, tries, unlisted, reuse, next>>
    BY <1>10 DEF Revert, Restore, IntegrateRefused, IntegrateWorktree, WriteNext, WriteFails, RevertLast,
       RevertEarlier, slotVars, taskVars
  <2>2. CASE IntegrateRefused(t) \/ IntegrateWorktree(t) \/ WriteNext(t) \/ WriteFails(t)
    <3>1. at[t] \in {"integrate", "write"} /\ at'[t] \in {"failing", "accepted", "write"}
      BY <2>2 DEF IntegrateRefused, IntegrateWorktree, WriteNext, WriteFails, Go, TInv, TypeOK
    <3> QED BY <2>1, <3>1, StayPlaced
  <2>3. CASE Revert(t) \/ Restore(t)
    <3>1. cursor' = cursor
      BY <2>3 DEF Revert, Restore
    <3>2. at[t] \in {"revert", "restore"} /\ at'[t] = "restore"
      BY <2>3 DEF Revert, Restore, Go, TInv, TypeOK
    <3> QED BY <2>1, <3>1, <3>2, StayPlaced
  <2>4. CASE RevertLast(t) \/ RevertEarlier(t)
    <3>1. at[t] \in {"failing", "restore"} /\ at'[t] = "revert" /\ next[t] = "none"
      BY <2>4 DEF RevertLast, RevertEarlier, Go, Placed, TInv, TypeOK
    <3> QED BY <2>1, <3>1, StayPlaced
  <2> QED BY <1>10, <2>2, <2>3, <2>4
<1>11. CASE EndFailed(t) \/ EndCompleted(t)
  <2>1. PICK as \in {"failed", "completed"} : Dispose(t, as)
    BY <1>11 DEF EndFailed, EndCompleted
  <2>2. next'[t] = "none"
    BY <1>11, <2>1 DEF EndFailed, EndCompleted, Dispose, Placed
  <2>3. at'[t] \in {"failed", "completed"} /\ UNCHANGED <<holder, tries, unlisted>>
    BY <2>1 DEF Dispose, Go, TInv, TypeOK
  <2>4. /\ \A b \in Of(t) : ws'[b] = IF b \in Listed(t) THEN NoWorkspace(b) ELSE ws[b]
        /\ onDisk' \subseteq onDisk /\ slots' = slots \ Listed(t)
        /\ \A b \in Listed(t) : ws[b].mode = "worktree" /\ holder[ws[b].lease] = b => ws[b].lease \notin onDisk'
    BY <2>1 DEF Dispose, Of
  <2>5. Listed(t) = {b \in Of(t) : ~(b[2] > tries[t])} \ unlisted
    <3>1. \A b \in Of(t) : b[2] <= tries[t] <=> ~(b[2] > tries[t])
      BY OfShape, PlansOK DEF TInv, TypeOK
    <3> QED BY <3>1 DEF Listed, Of
  <2>6. \A b \in Of(t) : ws'[b] = ws[b] \/ (ws'[b].lease = b /\ ws'[b].mode = "none")
    BY <2>4, NothingThere
  <2>7. \A b \in Of(t) : /\ ws'[b].lease \in Of(t)
                         /\ b[2] > tries'[t] => ws'[b].mode = "none" /\ b \notin onDisk' \cup slots'
    BY <2>3, <2>4, <2>6 DEF Placed
  <2>8. \A b \in Of(t) : b \in onDisk' =>
          holder'[b] \in Of(t) /\ ws'[holder'[b]].mode = "worktree" /\ ws'[holder'[b]].lease = b
    <3>1. SUFFICES ASSUME NEW b \in Of(t), b \in onDisk'
                   PROVE  holder[b] \in Of(t) /\ ws'[holder[b]].mode = "worktree" /\ ws'[holder[b]].lease = b
      BY <2>3
    <3>2. holder[b] \in Of(t) /\ ws[holder[b]].mode = "worktree" /\ ws[holder[b]].lease = b
      BY <2>4, <3>1 DEF Placed
    <3>3. holder[b] \notin Listed(t)
      BY <2>4, <3>1, <3>2
    <3> QED BY <2>4, <3>2, <3>3
  <2>9. (\A b \in unlisted : b[1] # t) => \A b \in Of(t) : b \notin onDisk' \cup slots'
    <3>1. SUFFICES ASSUME \A b \in unlisted : b[1] # t, NEW b \in Of(t)
                   PROVE  b \notin onDisk' \cup slots'
      OBVIOUS
    <3>2. Of(t) \cap unlisted = {}
      BY <3>1 DEF Of
    <3>3. b \in slots' => b[2] > tries[t]
      BY <2>4, <2>5, <3>2
    <3>4. b \in onDisk' => holder[b][2] > tries[t] /\ holder[b] \in Of(t) /\ ws[holder[b]].mode = "worktree"
      <4>1. b \in onDisk' => holder[b] \in Of(t) /\ ws[holder[b]].mode = "worktree" /\ ws[holder[b]].lease = b
        BY <2>4 DEF Placed
      <4>2. b \in onDisk' => holder[b] \notin Listed(t)
        BY <2>4, <4>1
      <4> QED BY <2>5, <3>2, <4>1, <4>2
    <3> QED BY <2>4, <3>3, <3>4 DEF Placed
  <2>10. \A b \in Of(t) : holder'[b] = b \/ b[2] < tries'[t]
    BY <2>3 DEF Placed
  <2> QED BY <2>2, <2>3, <2>7, <2>8, <2>9, <2>10 DEF Placed, WithLease, Ended
<1> QED BY <1>1, <1>2, <1>3, <1>4, <1>5, <1>6, <1>7, <1>8, <1>9, <1>10, <1>11 DEF Step

\* The workspaces are in place at first.
LEMMA InitPlaced == Init => PInv
<1> SUFFICES ASSUME Init, NEW t \in Task PROVE Placed(t)
  BY DEF PInv
<1>1. \A a \in Of(t) : a \in Attempt /\ ws[a] = NoWorkspace(a) /\ holder[a] = a
  BY DEF Init, Of
<1>2. onDisk = {} /\ slots = {} /\ at[t] = "create" /\ next[t] = "none" /\ reuse[t] = 0
  BY DEF Init
<1>3. \A a \in Of(t) : ws[a].lease = a /\ ws[a].mode = "none"
  BY <1>1, NothingThere
<1> QED BY <1>1, <1>2, <1>3 DEF Placed, WithLease, Ended

\* Every step keeps the workspaces in place.
LEMMA NextPlaced == TInv /\ PInv /\ [Next]_vars => PInv'
<1> SUFFICES ASSUME TInv, PInv, [Next]_vars, process' = "up", NEW t \in Task
             PROVE  Placed(t)'
  BY DEF PInv
<1>1. CASE \E s \in Task : Step(s)
  <2>1. PICK s \in Task : Step(s)
    BY <1>1
  <2>2. \A r \in Task : Placed(r)
    BY <2>1 DEF Step, PInv
  <2>3. CASE s = t
    BY <2>1, <2>2, <2>3, OwnPlaced
  <2>4. CASE s # t
    <3>1. Untouched(t) /\ Apart(t)
      BY <2>1, <2>2, <2>4, Frame, ApartFrame
    <3> QED BY <2>2, <3>1, OthersPlaced
  <2> QED BY <2>3, <2>4
<1>2. CASE UNCHANGED vars \/ UserEdit
  <2>1. UNCHANGED <<at, treeVars, slotVars, taskVars, process>>
    BY <1>2 DEF vars, UserEdit
  <2>2. Untouched(t) /\ Apart(t) /\ Placed(t)
    BY <2>1 DEF Untouched, Apart, PInv, treeVars, slotVars, taskVars
  <2> QED BY <2>2, OthersPlaced
<1>3. ~Crash /\ ~Prune
  BY DEF Crash, Prune
<1> QED BY <1>1, <1>2, <1>3 DEF Next

\* An attempt in a worktree has it, and a task that has ended has left nothing behind.
THEOREM WorkspacesFollow == Spec => []WorkspacesFollowTheirTasks
<1>1. Init => TInv /\ PInv
  BY InitTyped, InitPlaced
<1>2. TInv /\ PInv /\ [Next]_vars => (TInv /\ PInv)'
  BY NextTyped, NextPlaced
<1>3. TInv /\ PInv => WorkspacesFollowTheirTasks
  <2> SUFFICES ASSUME TInv, PInv, process = "up", NEW t \in Task
               PROVE  /\ at[t] \in WithLease /\ ws[Current(t)].mode = "worktree"
                           => ws[Current(t)].lease \in onDisk /\ holder[ws[Current(t)].lease] = Current(t)
                      /\ Ended(t) /\ (\A a \in unlisted : a[1] # t)
                           => \A a \in onDisk \cup slots : a[1] # t
    BY DEF WorkspacesFollowTheirTasks, WithLease
  <2>1. Placed(t)
    BY DEF PInv
  <2>2. \A a \in onDisk \cup slots : a[1] = t => a \in Of(t)
    BY DEF Of, TInv, TypeOK
  <2> QED BY <2>1, <2>2 DEF Placed
<1> QED BY <1>1, <1>2, <1>3, PTL DEF Spec
-----------------------------------------------------------------------------
(* What is integrated, and what is left *)

Holding == {"prepare", "working", "judged", "integrate"}

\* The work of the task has been judged for good: nothing more is pinned for it.
Past(t) ==
  \/ at[t] \in {"write", "accepted", "failing", "completed", "failed", "lost"}
  \/ at[t] \in {"revert", "restore"} /\ next[t] = "none"

\* Changes that bring no other task's work.
Alone(t, g) == \A p \in DOMAIN g : g[p] \in Task => g[p] = t

\* What the workspace of a task is, wherever its attempt stands.
Standing(t) ==
  /\ at[t] \in Holding => ws[Current(t)].mode = "worktree" \/ ws[Current(t)].dir = "active"
  /\ at[t] = "write" => DOMAIN pinned[t] \subseteq Own(t)
  /\ at[t] = "restore" /\ todo[t] # {} => ws[<<t, cursor[t]>>].mode = "scoped-dir"
  /\ \A a \in unlisted : a[1] = t => at[t] \in {"failing", "revert", "restore", "failed"} /\ next[t] = "none"

\* Whoever works in place has a slot, and only one task has.
InPlace ==
  /\ \A a \in slots, b \in slots : a[1] = b[1]
  /\ \A a \in Attempt :
       /\ ws[a].dir = "active" => ws[a].mode = "scoped-dir" /\ (process = "up" => a \in slots)
       /\ ws[a].mode = "scoped-dir" => (ws[a].dir \in {"active", "gone"} \/ at[a[1]] = "accepted")

\* What an attempt finds of another task's work was there when it began, or it was told of.
Pure(t) ==
  LET a == Current(t) IN
  at[t] \in {"identify", "prepare", "working"} => \A p \in Path :
    Files(a)[p] \in Task \ {t} =>
      Files(a)[p] = ws[a].before[p] \/ (ws[a].mode = "scoped-dir" /\ Foreign(a, p))

\* What has been integrated is what was pinned for an owner of the path, for good.
Booked ==
  \A p \in DOMAIN integrated : \E s \in Task :
    Past(s) /\ p \in DOMAIN pinned[s] /\ p \in Own(s) /\ integrated[p] = pinned[s][p]

\* A path that was integrated, and the task's work there was reviewed for good.
Was(t, p) == Past(t) /\ p \in DOMAIN pinned[t] /\ pinned[t][p] = t /\ p \in DOMAIN integrated

\* What the revert of a task restores.
Cleans(t, p) == p \in Own(t) \/ p \notin plan.reads[t]

\* No snapshot has what a task may have to take back, and none is told of it.
Snapshots ==
  \A a \in Attempt, t \in Task, p \in Path : Cleans(t, p) =>
    /\ ws[a].mode = "scoped-dir" /\ ws[a].before[p] = t => Was(t, p)
    /\ p \in DOMAIN foreign[a] /\ foreign[a][p] = t => Was(t, p)

\* The attempt in place of a task that may still have left something, and will restore it;
\* one whose dispatch failed will not.
Answers(t, p) ==
  /\ Current(t) \in Attempt /\ ws[Current(t)].dir = "active"
  /\ \/ at[t] \in Holding \cup {"failing"} \/ Current(t) \in unlisted
     \/ cursor[t] = tries[t] /\ (at[t] = "revert" \/ (at[t] = "restore" /\ p \in todo[t]))

\* A task's work in the main tree was integrated, or somebody will still take it back.
Traces ==
  \A t \in Task, p \in Path : main[p] = t =>
    /\ process = "up" /\ Cleans(t, p) => Was(t, p) \/ Answers(t, p)
    /\ process = "down" /\ p \in Own(t) => Was(t, p) \/ \E a \in Of(t) : ws[a].dir = "active"
    /\ process = "pruned" /\ p \in Own(t) => Was(t, p)

AloneInv == \A t \in Task : Pure(t) /\ Alone(t, pinned[t])
StandInv == process = "up" => \A t \in Task : Standing(t)

RInv == InPlace /\ StandInv /\ AloneInv /\ Booked /\ Snapshots /\ Traces

\* A task that has been judged for good stays so, and nothing more is pinned for it.
LEMMA PastStays ==
  ASSUME TInv, PInv, [Next]_vars, NEW t \in Task, Past(t)
  PROVE  Past(t)' /\ pinned'[t] = pinned[t]
<1>1. CASE UNCHANGED vars \/ UserEdit \/ Prune
  BY <1>1 DEF vars, UserEdit, Prune, taskVars, Past
<1>2. CASE Crash
  BY <1>2 DEF Crash, Past, Ended
<1>3. ASSUME NEW s \in Task \ {t}, Step(s) PROVE Past(t)' /\ pinned'[t] = pinned[t]
  <2>1. Placed(s)
    BY <1>3 DEF PInv, Step
  <2> QED BY <1>3, <2>1, Frame, ApartFrame DEF Untouched, Apart, Past
<1>4. CASE Step(t)
  <2>1. Placed(t)
    BY <1>4 DEF PInv, Step
  <2>2. CASE RevertLast(t) \/ RevertEarlier(t)
    BY <2>1, <2>2 DEF RevertLast, RevertEarlier, Go, Past, Placed, TInv, TypeOK
  <2>3. CASE Revert(t) \/ Restore(t)
    BY <2>3 DEF Revert, Restore, Go, Past, TInv, TypeOK
  <2>4. CASE WriteNext(t) \/ WriteFails(t)
    BY <2>4 DEF WriteNext, WriteFails, Go, Past, TInv, TypeOK
  <2>5. CASE EndFailed(t) \/ EndCompleted(t)
    BY <2>5 DEF EndFailed, EndCompleted, Dispose, Go, Past, TInv, TypeOK
  <2>6. ~Retire(t)
    BY DEF Retire, Past
  <2>7. ~(Skip(t) \/ Create(t) \/ ReuseWorktree(t) \/ OpenWorktree(t) \/ OpenFails(t) \/ Identify(t) \/ AcquireSlot(t))
    BY DEF Past, Skip, Create, ReuseWorktree, OpenWorktree, OpenFails, Identify, AcquireSlot
  <2>8. ~(Prepare(t) \/ PrepareFails(t) \/ Complete(t) \/ Judge(t) \/ IntegrateRefused(t) \/ IntegrateInPlace(t) \/ IntegrateWorktree(t) \/ Work(t))
    BY DEF Past, Prepare, PrepareFails, Complete, Judge, IntegrateRefused, IntegrateInPlace, IntegrateWorktree, Work
  <2> QED BY <1>4, <2>2, <2>3, <2>4, <2>5, <2>6, <2>7, <2>8 DEF Step
<1> QED BY <1>1, <1>2, <1>3, <1>4 DEF Next

\* What has been integrated stays so.
LEMMA IntegratedStays ==
  ASSUME [Next]_vars
  PROVE  DOMAIN integrated \subseteq DOMAIN integrated' /\ plan' = plan
<1>1. CASE UNCHANGED vars \/ UserEdit \/ Prune \/ Crash
  BY <1>1 DEF vars, UserEdit, Prune, Crash
<1>2. ASSUME NEW t \in Task, Step(t) PROVE DOMAIN integrated \subseteq DOMAIN integrated' /\ plan' = plan
  <2>1. CASE IntegrateInPlace(t) \/ WriteNext(t)
    BY <2>1 DEF IntegrateInPlace, WriteNext, With
  <2>2. CASE ~(IntegrateInPlace(t) \/ WriteNext(t))
    BY <1>2, <2>2 DEF Step, Skip, Create, ReuseWorktree, OpenWorktree, OpenFails, Identify, AcquireSlot, Prepare,
       PrepareFails, Work, Complete, Judge, Revert, Restore, Retire, IntegrateRefused, IntegrateWorktree,
       WriteFails, RevertLast, RevertEarlier, EndFailed, EndCompleted, Dispose
  <2> QED BY <2>1, <2>2
<1> QED BY <1>1, <1>2 DEF Next

\* What was integrated of a task, and reviewed, stays so.
LEMMA WasStays ==
  ASSUME TInv, PInv, [Next]_vars, NEW t \in Task, NEW p, Was(t, p)
  PROVE  Was(t, p)'
BY PastStays, IntegratedStays DEF Was

\* Only what is pinned for an owner is integrated.
LEMMA NextBooked ==
  ASSUME TInv, PInv, StandInv, Booked, [Next]_vars
  PROVE  Booked'
<1> SUFFICES ASSUME NEW p \in DOMAIN integrated'
             PROVE  \E s \in Task : /\ Past(s)' /\ p \in DOMAIN pinned'[s] /\ p \in Own(s)'
                                    /\ integrated'[p] = pinned'[s][p]
  BY DEF Booked
<1>1. plan' = plan
  BY IntegratedStays
<1>2. ASSUME p \in DOMAIN integrated, integrated'[p] = integrated[p]
      PROVE  \E s \in Task : /\ Past(s)' /\ p \in DOMAIN pinned'[s] /\ p \in Own(s)'
                             /\ integrated'[p] = pinned'[s][p]
  <2>1. PICK s \in Task : Past(s) /\ p \in DOMAIN pinned[s] /\ p \in Own(s) /\ integrated[p] = pinned[s][p]
    BY <1>2 DEF Booked
  <2> QED BY <1>1, <1>2, <2>1, PastStays DEF Own
<1>3. CASE UNCHANGED vars \/ UserEdit \/ Prune \/ Crash
  BY <1>2, <1>3 DEF vars, UserEdit, Prune, Crash
<1>4. ASSUME NEW t \in Task, IntegrateInPlace(t), StandInv
      PROVE  \E s \in Task : /\ Past(s)' /\ p \in DOMAIN pinned'[s] /\ p \in Own(s)'
                             /\ integrated'[p] = pinned'[s][p]
  <2>1. integrated' = With(integrated, pinned[t]) /\ DOMAIN pinned[t] \subseteq Own(t) /\ pinned' = pinned
        /\ at'[t] = "accepted"
    BY <1>4 DEF IntegrateInPlace, Go, taskVars, TInv, TypeOK
  <2>2. CASE p \in DOMAIN pinned[t]
    BY <1>1, <2>1, <2>2 DEF With, Past, Own
  <2>3. CASE p \notin DOMAIN pinned[t]
    BY <1>2, <2>1, <2>3 DEF With
  <2> QED BY <2>2, <2>3
<1>5. ASSUME NEW t \in Task, WriteNext(t), Step(t)
      PROVE  \E s \in Task : /\ Past(s)' /\ p \in DOMAIN pinned'[s] /\ p \in Own(s)'
                             /\ integrated'[p] = pinned'[s][p]
  <2>1. PICK q \in todo[t] : integrated' = With(integrated, [r \in {q} |-> pinned[t][r]])
    BY <1>5 DEF WriteNext
  <2>2. q \in DOMAIN pinned[t] /\ q \in Own(t) /\ pinned' = pinned /\ at'[t] \in {"write", "accepted"}
    BY <1>5 DEF WriteNext, Go, TInv, TypeOK, Started, Step, StandInv, Standing
  <2>3. CASE p = q
    BY <1>1, <2>1, <2>2, <2>3 DEF With, Past, Own
  <2>4. CASE p # q
    BY <1>2, <2>1, <2>4 DEF With
  <2> QED BY <2>3, <2>4
<1>6. ASSUME NEW t \in Task, Step(t), ~(IntegrateInPlace(t) \/ WriteNext(t))
      PROVE  integrated' = integrated
  BY <1>6 DEF Step, Skip, Create, ReuseWorktree, OpenWorktree, OpenFails, Identify, AcquireSlot, Prepare,
     PrepareFails, Work, Complete, Judge, Revert, Restore, Retire, IntegrateRefused, IntegrateWorktree,
     WriteFails, RevertLast, RevertEarlier, EndFailed, EndCompleted, Dispose
<1> QED BY <1>2, <1>3, <1>4, <1>5, <1>6 DEF Next

\* What others leave alone of a task keeps what is known of its workspace.
LEMMA OthersStand ==
  ASSUME TInv, TInv', NEW t \in Task, Untouched(t), Apart(t), plan' = plan, Standing(t)
  PROVE  Standing(t)'
<1>1. at'[t] = at[t] /\ tries'[t] = tries[t] /\ Current(t)' = Current(t) /\ todo'[t] = todo[t]
      /\ pinned'[t] = pinned[t] /\ cursor'[t] = cursor[t] /\ next'[t] = next[t] /\ Own(t)' = Own(t)
  BY DEF Untouched, Apart, Current, Own
<1>2. at[t] \in Holding => Current(t) \in Of(t)
  BY CurrentTyped, OfAttempts DEF Holding, Current
<1>3. at[t] = "restore" => <<t, cursor[t]>> \in Of(t)
  BY CursorTyped, OfAttempts
<1>4. \A a \in Of(t) : ws'[a] = ws[a] /\ ((a \in unlisted') <=> (a \in unlisted))
  BY DEF Apart
<1>5. \A a \in unlisted' : a[1] = t => a \in unlisted
  <2>1. unlisted' \subseteq Attempt
    BY DEF TInv, TypeOK
  <2> QED BY <1>4, <2>1 DEF Of
<1> QED BY <1>1, <1>2, <1>3, <1>4, <1>5 DEF Standing

\* So does a task's own step.
LEMMA OwnStand ==
  ASSUME TInv, NEW t \in Task, Step(t), Placed(t), Standing(t)
  PROVE  Standing(t)'
<1> DEFINE a == Current(t)
<1>1. CASE Skip(t) \/ Create(t) \/ ReuseWorktree(t) \/ OpenWorktree(t) \/ OpenFails(t)
  <2>1. at[t] \in {"create", "open"} /\ at'[t] \in {"failed", "open", "slot", "identify"} /\ unlisted' = unlisted
    BY <1>1 DEF Skip, Create, ReuseWorktree, OpenWorktree, OpenFails, Populate, Go, taskVars, TInv, TypeOK
  <2> QED BY <2>1 DEF Standing, Holding
<1>2. CASE Identify(t) \/ AcquireSlot(t)
  <2>1. a \in Attempt /\ Current(t)' = a /\ at[t] \in {"identify", "slot"} /\ at'[t] = "prepare" /\ unlisted' = unlisted
    BY <1>2, CurrentTyped DEF Identify, AcquireSlot, Current, Go, taskVars, TInv, TypeOK
  <2>2. ws'[a].mode = "worktree" \/ ws'[a].dir = "active"
    <3>1. CASE Identify(t)
      <4> DEFINE id == [p \in Path |-> IF p \in ws[a].copied THEN main[p] ELSE HeadTree[p]]
      <4>1. ws' = [ws EXCEPT ![a].identity = id] /\ ws[a].mode = "worktree"
        BY <3>1 DEF Identify, Placed
      <4> HIDE DEF id, a
      <4> QED BY <2>1, <4>1 DEF TInv, TypeOK, Workspace
    <3>2. CASE AcquireSlot(t)
      BY <2>1, <3>2 DEF AcquireSlot, TInv, TypeOK
    <3> QED BY <1>2, <3>1, <3>2
  <2> HIDE DEF a
  <2> QED BY <2>1, <2>2 DEF Standing, Holding
<1>3. CASE Prepare(t) \/ Work(t) \/ Complete(t)
  <2>1. /\ Current(t)' = a /\ ws' = ws /\ unlisted' = unlisted
        /\ at[t] \in {"prepare", "working", "judged"} /\ at'[t] \in {"working", "judged"}
    BY <1>3 DEF Prepare, Work, Complete, Current, Go, treeVars, taskVars, TInv, TypeOK
  <2> QED BY <2>1 DEF Standing, Holding
<1>4. CASE PrepareFails(t)
  <2>1. at[t] = "prepare" /\ at'[t] = "failing" /\ next' = next
    BY <1>4 DEF PrepareFails, Go, TInv, TypeOK
  <2>2. next[t] = "none"
    BY <2>1 DEF Placed
  <2> QED BY <2>1, <2>2 DEF Standing, Holding
<1>5. CASE Judge(t)
  <2>1. /\ Current(t)' = a /\ ws' = ws /\ unlisted' = unlisted
        /\ at[t] = "judged" /\ at'[t] \in {"integrate", "failing", "revert"}
    BY <1>5 DEF Judge, Current, Go, treeVars, TInv, TypeOK
  <2> QED BY <2>1 DEF Standing, Holding
<1>6. CASE Revert(t) \/ Restore(t)
  <2>1. /\ UNCHANGED <<ws, unlisted, cursor, next>> /\ at[t] \in {"revert", "restore"} /\ at'[t] = "restore"
    BY <1>6 DEF Revert, Restore, Go, treeVars, TInv, TypeOK
  <2>2. todo'[t] # {} => ws[<<t, cursor[t]>>].mode = "scoped-dir"
    <3>1. CASE Revert(t)
      BY <3>1 DEF Revert, TInv, TypeOK
    <3>2. CASE Restore(t)
      BY <3>2 DEF Restore, Standing
    <3> QED BY <1>6, <3>1, <3>2
  <2> QED BY <2>1, <2>2 DEF Standing, Holding
<1>7. CASE Retire(t)
  <2>1. at[t] = "restore" /\ next[t] # "none" /\ at'[t] \in {"create", "failing"} /\ unlisted' = unlisted
    BY <1>7 DEF Retire, Go, TInv, TypeOK
  <2> QED BY <2>1 DEF Standing, Holding
<1>8. CASE IntegrateRefused(t) \/ IntegrateInPlace(t) \/ WriteFails(t)
  <2>1. at[t] \in {"integrate", "write"} /\ at'[t] \in {"failing", "accepted"} /\ unlisted' = unlisted
    BY <1>8 DEF IntegrateRefused, IntegrateInPlace, WriteFails, Go, taskVars, TInv, TypeOK
  <2> QED BY <2>1 DEF Standing, Holding
<1>9. CASE IntegrateWorktree(t) \/ WriteNext(t)
  <2>1. /\ at[t] \in {"integrate", "write"} /\ at'[t] \in {"write", "accepted"}
        /\ unlisted' = unlisted /\ pinned' = pinned /\ Own(t)' = Own(t)
    BY <1>9 DEF IntegrateWorktree, WriteNext, Own, Go, TInv, TypeOK
  <2>2. DOMAIN pinned[t] \subseteq Own(t)
    BY <1>9 DEF IntegrateWorktree, WriteNext, Standing
  <2> QED BY <2>1, <2>2 DEF Standing, Holding
<1>10. CASE RevertLast(t) \/ RevertEarlier(t)
  <2>1. at[t] \in {"failing", "restore"} /\ at'[t] = "revert" /\ unlisted' = unlisted /\ next' = next
    BY <1>10 DEF RevertLast, RevertEarlier, Go, TInv, TypeOK
  <2> QED BY <2>1 DEF Standing, Holding
<1>11. CASE EndFailed(t)
  <2>1. at[t] \in {"failing", "restore"} /\ at'[t] = "failed" /\ unlisted' = unlisted /\ next' = next
    BY <1>11 DEF EndFailed, Dispose, Go, TInv, TypeOK
  <2> QED BY <2>1 DEF Standing, Holding
<1>12. CASE EndCompleted(t)
  <2>1. at[t] = "accepted" /\ at'[t] = "completed" /\ unlisted' = unlisted
    BY <1>12 DEF EndCompleted, Dispose, Go, TInv, TypeOK
  <2> QED BY <2>1 DEF Standing, Holding
<1> QED BY <1>1, <1>2, <1>3, <1>4, <1>5, <1>6, <1>7, <1>8, <1>9, <1>10, <1>11, <1>12 DEF Step

\* Every step keeps what is known of the workspaces.
LEMMA NextStands ==
  ASSUME TInv, TInv', PInv, StandInv, [Next]_vars
  PROVE  StandInv'
<1> SUFFICES ASSUME process' = "up", NEW t \in Task PROVE Standing(t)'
  BY DEF StandInv
<1>1. CASE UNCHANGED vars \/ UserEdit
  BY <1>1 DEF vars, UserEdit, treeVars, taskVars, StandInv, Standing, Own, Current
<1>2. ASSUME NEW s \in Task, Step(s) PROVE Standing(t)'
  <2>1. Placed(s) /\ Standing(t) /\ plan' = plan
    BY <1>2, IntegratedStays DEF PInv, StandInv, Step, Next
  <2>2. CASE s = t
    BY <1>2, <2>1, <2>2, OwnStand
  <2>3. CASE s # t
    BY <1>2, <2>1, <2>3, Frame, ApartFrame, OthersStand
  <2> QED BY <2>2, <2>3
<1>3. ~Crash /\ ~Prune
  BY DEF Crash, Prune
<1> QED BY <1>1, <1>2, <1>3 DEF Next

\* An attempt without a workspace has none in place.
LEMMA NothingInPlace == \A a : NoWorkspace(a).mode = "none" /\ NoWorkspace(a).dir = "none"
BY DEF NoWorkspace

\* What a step of a task does to the workspaces in place.
LEMMA OwnInPlace ==
  ASSUME TInv, NEW t \in Task, Step(t), Placed(t), Standing(t), InPlace, NEW b \in Of(t)
  PROVE  /\ ws'[b].dir = "active" => ws'[b].mode = "scoped-dir" /\ b \in slots'
         /\ ws'[b].mode = "scoped-dir" => (ws'[b].dir \in {"active", "gone"} \/ at'[t] = "accepted")
<1> DEFINE a == Current(t)
<1>0. /\ process = "up" /\ b \in Attempt /\ b[1] = t /\ ws[b] \in Workspace
      /\ ws[b].dir = "active" => ws[b].mode = "scoped-dir" /\ b \in slots
      /\ ws[b].mode = "scoped-dir" => (ws[b].dir \in {"active", "gone"} \/ at[t] = "accepted")
  BY DEF Step, Of, InPlace, TInv, TypeOK
<1>1. ASSUME ws'[b] = ws[b] \/ (ws'[b].mode = ws[b].mode /\ ws'[b].dir = ws[b].dir),
             b \in slots => b \in slots', at[t] # "accepted"
      PROVE  /\ ws'[b].dir = "active" => ws'[b].mode = "scoped-dir" /\ b \in slots'
             /\ ws'[b].mode = "scoped-dir" => (ws'[b].dir \in {"active", "gone"} \/ at'[t] = "accepted")
  BY <1>0, <1>1
<1>2. CASE Create(t)
  <2> DEFINE seeds == Ours \cup Overlap(t)  c == <<t, tries[t] + 1>>
  <2>1. (ws' = [ws EXCEPT ![c].copied = seeds] \/ ws' = ws) /\ slots' = slots /\ at[t] = "create"
    BY <1>2 DEF Create, slotVars
  <2> HIDE DEF seeds, c
  <2>2. ws'[b].mode = ws[b].mode /\ ws'[b].dir = ws[b].dir
    BY <1>0, <2>1 DEF TInv, TypeOK, Workspace
  <2> QED BY <1>1, <2>1, <2>2
<1>3. CASE ReuseWorktree(t) \/ OpenWorktree(t)
  <2>1. PICK l : Populate(t, l) /\ at[t] = "open" /\ slots' = slots
    BY <1>3 DEF ReuseWorktree, OpenWorktree, slotVars
  <2>2. a \in Attempt
    BY <2>1, CurrentTyped
  <2>3. CASE b = a
    <3>1. ws'[b].mode = "worktree" /\ ws'[b].dir = "none"
      BY <2>1, <2>2, <2>3 DEF Populate, TInv, TypeOK
    <3> QED BY <3>1
  <2>4. CASE b # a
    BY <1>0, <1>1, <2>1, <2>4 DEF Populate, TInv, TypeOK
  <2> QED BY <2>3, <2>4
<1>4. CASE Identify(t)
  <2> DEFINE id == [p \in Path |-> IF p \in ws[a].copied THEN main[p] ELSE HeadTree[p]]
  <2>1. ws' = [ws EXCEPT ![a].identity = id] /\ slots' = slots /\ at[t] = "identify"
    BY <1>4 DEF Identify, slotVars
  <2> HIDE DEF id, a
  <2>2. ws'[b].mode = ws[b].mode /\ ws'[b].dir = ws[b].dir
    BY <1>0, <2>1 DEF TInv, TypeOK, Workspace
  <2> QED BY <1>1, <2>1, <2>2
<1>5. CASE AcquireSlot(t)
  <2>1. a \in Attempt /\ at[t] = "slot" /\ slots' = slots \cup {a}
    BY <1>5, CurrentTyped DEF AcquireSlot
  <2>2. CASE b = a
    <3>1. ws'[b].mode = "scoped-dir" /\ ws'[b].dir = "active"
      BY <1>5, <2>1, <2>2 DEF AcquireSlot, TInv, TypeOK
    <3> QED BY <2>1, <2>2, <3>1
  <2>3. CASE b # a
    BY <1>0, <1>1, <1>5, <2>1, <2>3 DEF AcquireSlot, TInv, TypeOK
  <2> QED BY <2>2, <2>3
<1>6. CASE Retire(t)
  <2> DEFINE c == <<t, cursor[t]>>
  <2>1. /\ at[t] = "restore" /\ c \in Attempt
        /\ \/ ws' = ws /\ slots' = slots
           \/ ws[c].mode # "worktree" /\ ws' = [ws EXCEPT ![c].dir = "gone"] /\ slots' = slots \ {c}
    BY <1>6, CursorTyped DEF Retire
  <2> HIDE DEF c
  <2>2. CASE b = c /\ ws' = [ws EXCEPT ![c].dir = "gone"]
    BY <1>0, <2>1, <2>2 DEF TInv, TypeOK, Workspace
  <2>3. CASE b # c \/ (ws' = ws /\ slots' = slots)
    BY <1>0, <1>1, <2>1, <2>3 DEF TInv, TypeOK
  <2> QED BY <2>1, <2>2, <2>3
<1>7. CASE IntegrateInPlace(t)
  <2>1. ws' = [ws EXCEPT ![a].dir = "integrated"] /\ slots' = slots /\ at[t] = "integrate" /\ at'[t] = "accepted"
    BY <1>7 DEF IntegrateInPlace, slotVars, Go, TInv, TypeOK
  <2> HIDE DEF a
  <2> QED BY <1>0, <2>1 DEF TInv, TypeOK, Workspace
<1>8. CASE EndFailed(t) \/ EndCompleted(t)
  <2>1. PICK as \in {"failed", "completed"} : Dispose(t, as)
    BY <1>8 DEF EndFailed, EndCompleted
  <2>2. ws'[b] = (IF b \in Listed(t) THEN NoWorkspace(b) ELSE ws[b]) /\ slots' = slots \ Listed(t)
    BY <1>0, <2>1 DEF Dispose
  <2>3. CASE b \in Listed(t)
    BY <2>2, <2>3 DEF NoWorkspace
  <2>4. CASE b \notin Listed(t) /\ at[t] # "accepted"
    BY <1>1, <2>2, <2>4
  <2>5. CASE b \notin Listed(t) /\ at[t] = "accepted"
    <3>1. b \notin unlisted
      BY <1>0, <2>5 DEF Standing
    <3>2. b[2] \in Nat /\ tries[t] \in Nat
      BY OfShape, PlansOK DEF TInv, TypeOK
    <3>3. b[2] > tries[t]
      BY <1>0, <2>5, <3>1, <3>2 DEF Listed
    <3>4. ws[b].mode = "none"
      BY <3>3 DEF Placed
    <3> QED BY <1>0, <2>2, <2>5, <3>4
  <2> QED BY <2>3, <2>4, <2>5
<1>9. CASE Skip(t) \/ OpenFails(t) \/ Prepare(t) \/ PrepareFails(t) \/ Work(t) \/ Complete(t) \/ Judge(t)
  <2>1. ws' = ws /\ slots' = slots /\ at[t] # "accepted"
    BY <1>9 DEF Skip, OpenFails, Prepare, PrepareFails, Work, Complete, Judge, slotVars, treeVars
  <2> QED BY <1>1, <2>1
<1>10. CASE Revert(t) \/ Restore(t) \/ IntegrateRefused(t) \/ IntegrateWorktree(t)
            \/ WriteNext(t) \/ WriteFails(t) \/ RevertLast(t) \/ RevertEarlier(t)
  <2>1. ws' = ws /\ slots' = slots /\ at[t] # "accepted"
    BY <1>10 DEF Revert, Restore, IntegrateRefused, IntegrateWorktree, WriteNext, WriteFails, RevertLast, RevertEarlier,
       slotVars, treeVars
  <2> QED BY <1>1, <2>1
<1> QED BY <1>2, <1>3, <1>4, <1>5, <1>6, <1>7, <1>8, <1>9, <1>10 DEF Step

\* Tasks take steps while the process is up.
LEMMA StepUp ==
  ASSUME NEW s \in Task, Step(s)
  PROVE  process = "up" /\ process' = "up"
BY DEF Step, Skip, Create, ReuseWorktree, OpenWorktree, OpenFails, Identify, AcquireSlot, Prepare,
   PrepareFails, Work, Complete, Judge, Revert, Restore, Retire, IntegrateRefused, IntegrateInPlace, IntegrateWorktree,
   WriteNext, WriteFails, RevertLast, RevertEarlier, EndFailed, EndCompleted, Dispose

\* The slots are one task's, and so is what is in place.
LEMMA NextInPlace ==
  ASSUME TInv, TInv', PInv, StandInv, InPlace, [Next]_vars
  PROVE  InPlace'
<1>1. CASE UNCHANGED vars \/ UserEdit
  BY <1>1 DEF vars, UserEdit, treeVars, slotVars, InPlace
<1>2. ASSUME NEW s \in Task, Step(s) PROVE InPlace'
  <2>0. Placed(s) /\ Standing(s) /\ process = "up" /\ process' = "up"
    BY <1>2, StepUp DEF PInv, StandInv
  <2>1. \A a \in slots', b \in slots' : a[1] = b[1]
    <3>1. CASE AcquireSlot(s)
      BY <3>1 DEF AcquireSlot, Current, InPlace
    <3>2. CASE ~AcquireSlot(s)
      <4>1. slots' \subseteq slots
        BY <1>2, <3>2 DEF Step, Skip, Create, ReuseWorktree, OpenWorktree, OpenFails, Identify, Prepare,
           PrepareFails, Work, Complete, Judge, Revert, Restore, Retire, IntegrateRefused, IntegrateInPlace, IntegrateWorktree,
           WriteNext, WriteFails, RevertLast, RevertEarlier, EndFailed, EndCompleted, Dispose, slotVars
      <4> QED BY <4>1 DEF InPlace
    <3> QED BY <3>1, <3>2
  <2>2. ASSUME NEW b \in Attempt
        PROVE  /\ ws'[b].dir = "active" => ws'[b].mode = "scoped-dir" /\ b \in slots'
               /\ ws'[b].mode = "scoped-dir" => (ws'[b].dir \in {"active", "gone"} \/ at'[b[1]] = "accepted")
    <3>1. b \in Of(b[1]) /\ b[1] \in Task
      BY DEF Of, Attempt
    <3>2. CASE b[1] = s
      BY <1>2, <2>0, <3>1, <3>2, OwnInPlace
    <3>3. CASE b[1] # s
      <4>1. Untouched(b[1]) /\ Apart(b[1])
        BY <1>2, <2>0, <3>1, <3>3, Frame, ApartFrame
      <4>2. ws'[b] = ws[b] /\ at'[b[1]] = at[b[1]] /\ ((b \in slots') <=> (b \in slots))
        BY <3>1, <4>1 DEF Untouched, Apart
      <4> QED BY <2>0, <4>2 DEF InPlace
    <3> QED BY <3>2, <3>3
  <2> QED BY <2>0, <2>1, <2>2 DEF InPlace
<1>3. CASE Crash
  <2>1. slots' = {} /\ process' = "down"
    BY <1>3 DEF Crash
  <2>2. ASSUME NEW b \in Attempt
        PROVE  /\ ws'[b].dir = "active" => ws'[b].mode = "scoped-dir"
               /\ ws'[b].mode = "scoped-dir" => ws'[b].dir \in {"active", "gone"}
    <3>1. ws'[b] = IF ws[b].dir = "active" THEN ws[b] ELSE NoWorkspace(b)
      BY <1>3 DEF Crash
    <3> QED BY <3>1 DEF InPlace, NoWorkspace
  <2> QED BY <2>1, <2>2 DEF InPlace
<1>4. CASE Prune
  <2>1. \A b \in Attempt : ws'[b] = NoWorkspace(b)
    BY <1>4 DEF Prune
  <2>2. \A b \in Attempt : ws'[b].mode = "none" /\ ws'[b].dir = "none"
    BY <2>1, NothingInPlace
  <2>3. slots' = slots
    BY <1>4 DEF Prune, slotVars
  <2> QED BY <2>2, <2>3 DEF InPlace
<1> QED BY <1>1, <1>2, <1>3, <1>4 DEF Next

\* An attempt in place is on the only slot there is.
LEMMA OneInPlace ==
  ASSUME InPlace, process = "up", NEW s \in Task, NEW t \in Task, NEW a \in Of(s), NEW b \in Of(t),
         ws[a].dir = "active", ws[b].dir = "active"
  PROVE  s = t
BY DEF InPlace, Of

\* What a step of a task may do to a path of the main tree: its attempt in place writes or
\* is seeded, its work is integrated, or an attempt of it is reverted.
LEMMA MainMoves ==
  ASSUME TInv, NEW s \in Task, Step(s), Placed(s), Standing(s), InPlace, Alone(s, pinned[s]),
         NEW p \in Path, main'[p] # main[p]
  PROVE  \/ /\ Prepare(s) \/ PrepareFails(s) \/ Work(s)
            /\ Current(s) \in Of(s) /\ ws[Current(s)].mode = "scoped-dir" /\ ws[Current(s)].dir = "active"
            /\ main'[p] \in Task => main'[p] = s
            /\ main'[p] = s \/ (p \in DOMAIN pinned[s] /\ main'[p] = pinned[s][p])
         \/ WriteNext(s) /\ p \in todo[s] /\ main'[p] = pinned[s][p] /\ p \in DOMAIN pinned[s]
         \/ /\ Restore(s) /\ p \in todo[s] /\ main'[p] = ws[<<s, cursor[s]>>].before[p]
            /\ <<s, cursor[s]>> \in Of(s) /\ ws[<<s, cursor[s]>>].mode = "scoped-dir"
            /\ main'[p] \in Task => ws[<<s, cursor[s]>>].dir = "active"
<1> DEFINE a == Current(s)
<1>1. CASE Prepare(s) \/ PrepareFails(s) \/ Work(s)
  <2>1. at[s] \in Holding /\ a \in Of(s)
    BY <1>1, CurrentTyped, OfAttempts DEF Prepare, PrepareFails, Work, Holding, Current
  <2>2. ws[a].mode # "worktree"
    BY <1>1 DEF Prepare, PrepareFails, Work, Seed, Write
  <2>3. ws[a].mode = "scoped-dir" /\ ws[a].dir = "active"
    BY <2>1, <2>2, StepUp DEF Standing, InPlace, Of
  <2>4. CASE Prepare(s) \/ PrepareFails(s)
    <3>1. main' = With(main, pinned[s]) /\ DOMAIN main = Path
      BY <2>2, <2>4 DEF Prepare, PrepareFails, Seed, TInv, TypeOK, Tree
    <3>2. p \in DOMAIN pinned[s] /\ main'[p] = pinned[s][p]
      BY <3>1 DEF With
    <3> QED BY <1>1, <2>1, <2>3, <3>2 DEF Alone
  <2>5. CASE Work(s)
    <3>1. PICK q : main' = [main EXCEPT ![q] = s]
      BY <2>2, <2>5 DEF Work, Write
    <3>2. main'[p] = s
      BY <3>1 DEF TInv, TypeOK, Tree
    <3> QED BY <1>1, <2>1, <2>3, <3>2
  <2> QED BY <1>1, <2>4, <2>5
<1>2. CASE WriteNext(s)
  <2>1. PICK q \in todo[s] : main' = With(main, [r \in {q} |-> pinned[s][r]])
    BY <1>2 DEF WriteNext
  <2>2. p = q /\ main'[p] = pinned[s][p]
    BY <2>1 DEF With, TInv, TypeOK, Tree
  <2>3. p \in DOMAIN pinned[s]
    BY <1>2, <2>1, <2>2 DEF WriteNext, TInv, Started
  <2> QED BY <1>2, <2>1, <2>2, <2>3
<1>3. CASE Restore(s)
  <2> DEFINE b == <<s, cursor[s]>>
  <2>1. PICK q \in todo[s] : main' = IF Restorable(b, q) THEN [main EXCEPT ![q] = ws[b].before[q]] ELSE main
    BY <1>3 DEF Restore
  <2>2. b \in Of(s) /\ ws[b].mode = "scoped-dir"
    BY <1>3, <2>1, CursorTyped, OfAttempts DEF Restore, Standing
  <2>3. p = q /\ main'[p] = ws[b].before[p] /\ Restorable(b, p)
    BY <2>1 DEF TInv, TypeOK, Tree
  <2>4. ws[b].dir \in {"active", "gone"}
    BY <1>3, <2>2 DEF Restore, InPlace, Of
  <2>5. main'[p] \in Task => ws[b].dir = "active"
    BY <2>3, <2>4, PlansOK DEF Restorable
  <2> QED BY <1>3, <2>1, <2>2, <2>3, <2>5
<1>4. ~(Prepare(s) \/ PrepareFails(s) \/ Work(s) \/ WriteNext(s) \/ Restore(s)) => main' = main
  BY DEF Step, Skip, Create, ReuseWorktree, OpenWorktree, OpenFails, Identify, AcquireSlot, Complete, Judge, Revert,
     Retire, IntegrateRefused, IntegrateInPlace, IntegrateWorktree, WriteFails, RevertLast, RevertEarlier,
     EndFailed, EndCompleted, Dispose
<1> QED BY <1>1, <1>2, <1>3, <1>4

\* A step of a task leaves the worktrees of the others alone, and tells them only of what it
\* integrates.
LEMMA OthersTold ==
  ASSUME TInv, NEW s \in Task, NEW t \in Task \ {s}, Step(s), Placed(s), NEW a \in Of(t)
  PROVE  /\ tree'[a] = tree[a]
         /\ \/ foreign'[a] = foreign[a]
            \/ /\ WriteNext(s) /\ a \in slots
               /\ \E q \in todo[s] : /\ foreign'[a] = With(foreign[a], [r \in {q} |-> pinned[s][r]])
                                     /\ main' = With(main, [r \in {q} |-> pinned[s][r]])
<1>0. a \in Attempt /\ a[1] = t /\ a \notin Of(s) /\ \A n : a # <<s, n>>
  BY OfOthers DEF Of
<1>1. ASSUME NEW b \in Of(s) PROVE ws[b].lease \in Of(s)
  BY <1>1 DEF Placed
<1>2. CASE ReuseWorktree(s) \/ OpenWorktree(s)
  <2>1. PICK l \in Of(s) : Populate(s, l) /\ foreign' = foreign
    <3>1. reuse[s] > 0 => ws[<<s, reuse[s]>>].lease \in Of(s)
      BY <1>1, OfAttempts, PlansOK DEF TInv, TypeOK
    <3>2. Current(s) \in Of(s)
      BY <1>2, CurrentTyped, OfAttempts DEF ReuseWorktree, OpenWorktree, Current
    <3> QED BY <1>2, <3>1, <3>2 DEF ReuseWorktree, OpenWorktree, slotVars
  <2> QED BY <1>0, <2>1 DEF Populate, TInv, TypeOK
<1>3. CASE Prepare(s) \/ PrepareFails(s) \/ Work(s)
  <2>1. Current(s) \in Of(s) /\ foreign' = foreign
    BY <1>3, CurrentTyped, OfAttempts DEF Prepare, PrepareFails, Work, Current, slotVars
  <2>2. ws[Current(s)].lease \in Of(s)
    BY <1>1, <2>1
  <2> QED BY <1>0, <1>3, <2>1, <2>2 DEF Prepare, PrepareFails, Work, Seed, Write, TInv, TypeOK
<1>4. CASE Retire(s)
  BY <1>0, <1>4 DEF Retire, TInv, TypeOK
<1>5. CASE WriteNext(s)
  <2>1. PICK q \in todo[s] :
          /\ main' = With(main, [r \in {q} |-> pinned[s][r]])
          /\ foreign' = [b \in Attempt |-> IF b \in slots THEN With(foreign[b], [r \in {q} |-> pinned[s][r]]) ELSE foreign[b]]
    BY <1>5 DEF WriteNext
  <2>2. tree' = tree
    BY <1>5 DEF WriteNext, treeVars
  <2> QED BY <1>0, <1>5, <2>1, <2>2
<1>6. CASE EndFailed(s) \/ EndCompleted(s)
  <2>1. PICK as : Dispose(s, as)
    BY <1>6 DEF EndFailed, EndCompleted
  <2>2. a \notin Listed(s)
    BY <1>0 DEF Listed
  <2> QED BY <1>0, <2>1, <2>2 DEF Dispose
<1>7. CASE \/ Skip(s) \/ Create(s) \/ OpenFails(s) \/ Identify(s) \/ AcquireSlot(s) \/ Complete(s) \/ Judge(s)
           \/ Revert(s) \/ Restore(s) \/ IntegrateRefused(s) \/ IntegrateInPlace(s) \/ IntegrateWorktree(s)
           \/ WriteFails(s) \/ RevertLast(s) \/ RevertEarlier(s)
  BY <1>7 DEF Skip, Create, OpenFails, Identify, AcquireSlot, Complete, Judge, Revert, Restore, IntegrateRefused,
     IntegrateInPlace, IntegrateWorktree, WriteFails, RevertLast, RevertEarlier, treeVars, slotVars
<1> QED BY <1>2, <1>3, <1>4, <1>5, <1>6, <1>7 DEF Step

\* Others bring no work of theirs into an attempt unnoticed.
LEMMA OthersPure ==
  ASSUME TInv, NEW s \in Task, NEW t \in Task \ {s}, Step(s), Placed(s), Placed(t), Standing(s), Standing(t),
         InPlace, Alone(s, pinned[s]), Pure(t)
  PROVE  Pure(t)'
<1>1. Untouched(t) /\ Apart(t) /\ process = "up"
  BY Frame, ApartFrame, StepUp
<1>2. SUFFICES ASSUME at[t] \in {"identify", "prepare", "working"} PROVE Pure(t)'
  BY <1>1 DEF Untouched, Pure
<1>3. PICK a \in Of(t) : Current(t) = a /\ Current(t)' = a
  BY <1>1, <1>2, CurrentTyped, OfAttempts DEF Current, Untouched
<1>4. ws'[a] = ws[a] /\ ((a \in slots') <=> (a \in slots)) /\ ws[a].lease \in Of(t)
  BY <1>1, <1>3 DEF Apart, Placed
<1>5. SUFFICES ASSUME NEW p \in Path, Files(a)'[p] \in Task \ {t}
               PROVE  Files(a)'[p] = ws[a].before[p] \/ (ws[a].mode = "scoped-dir" /\ Foreign(a, p)')
  BY <1>3, <1>4 DEF Pure
<1>6. Files(a)[p] \in Task \ {t} => Files(a)[p] = ws[a].before[p] \/ (ws[a].mode = "scoped-dir" /\ Foreign(a, p))
  BY <1>2, <1>3 DEF Pure
<1>7. CASE ws[a].mode = "worktree"
  <2>1. tree'[ws[a].lease] = tree[ws[a].lease]
    BY <1>4, OthersTold
  <2>2. Files(a)' = Files(a)
    BY <1>4, <1>7, <2>1 DEF Files
  <2> QED BY <1>5, <1>6, <1>7, <2>2
<1>8. CASE ws[a].mode # "worktree"
  <2>1. ws[a].dir = "active" /\ ws[a].mode = "scoped-dir" /\ a \in slots /\ a \in slots'
    BY <1>1, <1>2, <1>3, <1>4, <1>8 DEF Standing, Holding, Placed, InPlace, Of
  <2>2. Files(a) = main /\ Files(a)' = main'
    BY <1>4, <1>8 DEF Files
  <2>3. CASE WriteNext(s)
    <3>1. PICK q \in todo[s] :
            /\ main' = With(main, [r \in {q} |-> pinned[s][r]])
            /\ foreign' = [b \in Attempt |-> IF b \in slots THEN With(foreign[b], [r \in {q} |-> pinned[s][r]]) ELSE foreign[b]]
      BY <2>3 DEF WriteNext
    <3>2. foreign'[a] = With(foreign[a], [r \in {q} |-> pinned[s][r]])
      BY <1>3, <2>1, <3>1 DEF Of
    <3>3. CASE p = q
      <4>1. p \in DOMAIN foreign'[a] /\ foreign'[a][p] = main'[p]
        BY <3>1, <3>2, <3>3 DEF With, TInv, TypeOK, Tree
      <4> QED BY <2>1, <2>2, <4>1 DEF Foreign
    <3>4. CASE p # q
      <4>1. main'[p] = main[p] /\ (p \in DOMAIN foreign[a] => p \in DOMAIN foreign'[a] /\ foreign'[a][p] = foreign[a][p])
        BY <3>1, <3>2, <3>4 DEF With, TInv, TypeOK, Tree
      <4>2. Foreign(a, p) => Foreign(a, p)'
        BY <2>1, <2>2, <4>1 DEF Foreign
      <4> QED BY <1>5, <1>6, <2>1, <2>2, <4>1, <4>2
    <3> QED BY <3>3, <3>4
  <2>4. CASE ~WriteNext(s)
    <3>1. foreign'[a] = foreign[a]
      BY <2>4, OthersTold
    <3>2. CASE main'[p] = main[p]
      <4>1. Foreign(a, p) => Foreign(a, p)'
        BY <2>1, <2>2, <3>1, <3>2 DEF Foreign
      <4> QED BY <1>5, <1>6, <2>1, <2>2, <3>2, <4>1
    <3>3. CASE main'[p] # main[p]
      <4>1. ws[Current(s)].dir # "active" \/ Current(s) \notin Of(s)
        BY <1>1, <1>3, <2>1, OneInPlace
      <4>2. <<s, cursor[s]>> \notin Of(s) \/ ws[<<s, cursor[s]>>].dir # "active"
        BY <1>1, <1>3, <2>1, OneInPlace
      <4> QED BY <1>5, <2>2, <2>4, <3>3, <4>1, <4>2, MainMoves
    <3> QED BY <3>2, <3>3
  <2> QED BY <2>3, <2>4
<1> QED BY <1>7, <1>8

\* A task begins with what is there; what it then finds is what it was seeded with, or wrote.
LEMMA OwnFiles ==
  ASSUME TInv, NEW t \in Task, Step(t), Placed(t), at'[t] \in {"identify", "prepare", "working"},
         NEW a, a = Current(t)
  PROVE  /\ Current(t)' = a
         /\ \/ Files(a)' = ws'[a].before
            \/ /\ at[t] \in {"identify", "prepare", "working"}
               /\ ws'[a].mode = ws[a].mode /\ ws'[a].before = ws[a].before
               /\ slots' = slots /\ foreign' = foreign
               /\ \A p \in Path : \/ Files(a)'[p] \in {Files(a)[p], t}
                                  \/ p \in DOMAIN pinned[t] /\ Files(a)'[p] = pinned[t][p]
<1>1. CASE ReuseWorktree(t) \/ OpenWorktree(t)
  <2>1. PICK l : Populate(t, l) /\ at[t] = "open" /\ l \in Attempt
    <3>1. reuse[t] > 0 => ws[<<t, reuse[t]>>].lease \in Attempt
      BY OfAttempts, PlansOK DEF TInv, TypeOK, Placed, Of
    <3>2. at[t] = "open" => Current(t) \in Attempt
      BY CurrentTyped
    <3> QED BY <1>1, <3>1, <3>2 DEF ReuseWorktree, OpenWorktree
  <2>2. a \in Attempt /\ a = Current(t)'
    BY <1>1, <2>1, CurrentTyped DEF Current, ReuseWorktree, OpenWorktree, taskVars
  <2>3. ws'[a].mode = "worktree" /\ ws'[a].lease = l /\ tree'[l] = ws'[a].before
    BY <2>1, <2>2 DEF Populate, TInv, TypeOK
  <2>4. Files(a)' = ws'[a].before
    BY <2>3 DEF Files
  <2> QED BY <2>2, <2>4
<1>2. CASE Identify(t)
  <2>1. a \in Attempt /\ a = Current(t)'
    BY <1>2, CurrentTyped DEF Current, Identify, taskVars
  <2>2. ws[a].mode = "worktree" /\ tree' = tree /\ slots' = slots /\ foreign' = foreign /\ at[t] = "identify"
    BY <1>2 DEF Identify, Placed, slotVars
  <2>3. ws'[a].mode = ws[a].mode /\ ws'[a].lease = ws[a].lease /\ ws'[a].before = ws[a].before
    <3> DEFINE id == [p \in Path |-> IF p \in ws[a].copied THEN main[p] ELSE HeadTree[p]]
    <3>1. ws' = [ws EXCEPT ![a].identity = id]
      BY <1>2 DEF Identify
    <3> HIDE DEF id
    <3> QED BY <2>1, <3>1 DEF TInv, TypeOK, Workspace
  <2>4. Files(a)' = Files(a)
    BY <2>2, <2>3 DEF Files
  <2> QED BY <2>1, <2>2, <2>3, <2>4
<1>3. CASE AcquireSlot(t)
  <2>1. a \in Attempt /\ a = Current(t)'
    BY <1>3, CurrentTyped DEF Current, AcquireSlot, taskVars
  <2>2. ws'[a].mode = "scoped-dir" /\ ws'[a].before = main /\ main' = main
    BY <1>3, <2>1 DEF AcquireSlot, TInv, TypeOK
  <2>3. Files(a)' = ws'[a].before
    BY <2>2 DEF Files
  <2> QED BY <2>1, <2>3
<1>4. CASE Prepare(t) \/ (Work(t) /\ at[t] = "working")
  <2>1. a \in Attempt /\ a = Current(t)'
    BY <1>4, CurrentTyped DEF Current, Prepare, Work, taskVars
  <2>2. /\ ws' = ws /\ slots' = slots /\ foreign' = foreign /\ ws[a].lease \in Attempt
        /\ at[t] \in {"prepare", "working"}
    BY <1>4, <2>1 DEF Prepare, Work, slotVars, TInv, TypeOK, Workspace
  <2>3. ASSUME NEW p \in Path
        PROVE  \/ Files(a)'[p] \in {Files(a)[p], t}
               \/ p \in DOMAIN pinned[t] /\ Files(a)'[p] = pinned[t][p]
    <3>1. CASE Prepare(t) /\ UNCHANGED <<main, tree>>
      BY <2>2, <3>1 DEF Files
    <3>2. CASE Prepare(t) /\ Seed(t)
      <4>1. Files(a)' = With(Files(a), pinned[t])
        <5>1. CASE ws[a].mode = "worktree"
          BY <2>1, <2>2, <3>2, <5>1 DEF Seed, Files, TInv, TypeOK
        <5>2. CASE ws[a].mode # "worktree"
          BY <2>1, <2>2, <3>2, <5>2 DEF Seed, Files
        <5> QED BY <5>1, <5>2
      <4>2. DOMAIN Files(a) = Path
        BY <2>1, FilesTyped DEF TInv, Tree
      <4> QED BY <4>1, <4>2 DEF With
    <3>3. CASE Work(t)
      <4>1. PICK q : Write(t, q, t)
        BY <3>3 DEF Work
      <4>2. CASE ws[a].mode = "worktree"
        <5> DEFINE l == ws[a].lease
        <5>1. /\ tree' = [tree EXCEPT ![l] = [tree[l] EXCEPT ![q] = t]] /\ l \in Attempt
              /\ DOMAIN tree[l] = Path /\ tree \in [Attempt -> Tree]
          BY <2>1, <2>2, <4>1, <4>2 DEF Write, TInv, TypeOK, Tree
        <5>2. Files(a) = tree[l] /\ Files(a)' = tree'[l]
          BY <2>2, <4>2 DEF Files
        <5>3. tree'[l] = [tree[l] EXCEPT ![q] = t]
          BY <5>1
        <5> QED BY <5>1, <5>2, <5>3
      <4>3. CASE ws[a].mode # "worktree"
        BY <2>1, <2>2, <4>1, <4>3 DEF Write, Files, TInv, TypeOK, Tree
      <4> QED BY <4>2, <4>3
    <3> QED BY <1>4, <3>1, <3>2, <3>3 DEF Prepare
  <2> QED BY <2>1, <2>2, <2>3
<1>5. ~(Work(t) /\ at[t] # "working")
  BY DEF Work, TInv, TypeOK
<1>6. ~(Skip(t) \/ Create(t) \/ OpenFails(t) \/ PrepareFails(t) \/ Complete(t) \/ Judge(t))
  BY DEF Skip, Create, OpenFails, PrepareFails, Complete, Judge, Go, TInv, TypeOK
<1>7. ~(Revert(t) \/ Restore(t) \/ Retire(t) \/ RevertLast(t) \/ RevertEarlier(t))
  BY DEF Revert, Restore, Retire, RevertLast, RevertEarlier, Go, TInv, TypeOK
<1>8. ~(IntegrateRefused(t) \/ IntegrateInPlace(t) \/ IntegrateWorktree(t) \/ WriteNext(t) \/ WriteFails(t))
  BY DEF IntegrateRefused, IntegrateInPlace, IntegrateWorktree, WriteNext, WriteFails, Go, TInv, TypeOK
<1>9. ~(EndFailed(t) \/ EndCompleted(t))
  BY DEF EndFailed, EndCompleted, Dispose, Go, TInv, TypeOK
<1> QED BY <1>1, <1>2, <1>3, <1>4, <1>5, <1>6, <1>7, <1>8, <1>9 DEF Step

\* Nor does a task's own step: what it adds is its own work.
LEMMA OwnPure ==
  ASSUME TInv, NEW t \in Task, Step(t), Placed(t), Alone(t, pinned[t]), Pure(t)
  PROVE  Pure(t)'
<1> SUFFICES ASSUME at'[t] \in {"identify", "prepare", "working"} PROVE Pure(t)'
  BY DEF Pure
<1>0. PICK a : a = Current(t) /\ Current(t)' = a
  BY OwnFiles
<1> SUFFICES ASSUME NEW p \in Path, Files(a)'[p] \in Task \ {t}
             PROVE  Files(a)'[p] = ws'[a].before[p] \/ (ws'[a].mode = "scoped-dir" /\ Foreign(a, p)')
  BY <1>0 DEF Pure
<1>1. CASE Files(a)' = ws'[a].before
  BY <1>1
<1>2. CASE /\ at[t] \in {"identify", "prepare", "working"}
           /\ ws'[a].mode = ws[a].mode /\ ws'[a].before = ws[a].before /\ slots' = slots /\ foreign' = foreign
           /\ \/ Files(a)'[p] \in {Files(a)[p], t}
              \/ p \in DOMAIN pinned[t] /\ Files(a)'[p] = pinned[t][p]
  <2>1. Files(a)'[p] = Files(a)[p]
    BY <1>2 DEF Alone
  <2>2. Foreign(a, p) => Foreign(a, p)'
    BY <1>2, <2>1 DEF Foreign
  <2> QED BY <1>0, <1>2, <2>1, <2>2 DEF Pure
<1> QED BY <1>0, <1>1, <1>2, OwnFiles

\* What is pinned for a task changes when its attempt completes.
LEMMA PinnedStays ==
  ASSUME TInv, NEW s \in Task, NEW t \in Task, Step(s), ~Complete(t)
  PROVE  pinned'[t] = pinned[t]
<1>1. CASE s = t
  BY <1>1 DEF Step, Skip, Create, ReuseWorktree, OpenWorktree, OpenFails, Identify, AcquireSlot, Prepare,
     PrepareFails, Work, Judge, Revert, Restore, Retire, IntegrateRefused, IntegrateInPlace, IntegrateWorktree,
     WriteNext, WriteFails, RevertLast, RevertEarlier, EndFailed, EndCompleted, Dispose, taskVars
<1>2. CASE s # t
  BY <1>2, Frame DEF Untouched
<1> QED BY <1>1, <1>2

\* What is pinned for a task is its own work, or nobody's.
LEMMA NextAlone ==
  ASSUME TInv, EInv, PInv, StandInv, InPlace, AloneInv, [Next]_vars
  PROVE  AloneInv'
<1> SUFFICES ASSUME NEW t \in Task PROVE Pure(t)' /\ Alone(t, pinned'[t])
  BY DEF AloneInv, Alone
<1>1. CASE UNCHANGED vars
  BY <1>1 DEF vars, treeVars, slotVars, taskVars, AloneInv, Pure, Files, Foreign, Current
<1>2. ASSUME NEW s \in Task, Step(s) PROVE Pure(t)'
  <2>1. \A r \in Task : Placed(r) /\ Standing(r) /\ Pure(r) /\ Alone(r, pinned[r])
    BY <1>2, StepUp DEF PInv, StandInv, AloneInv
  <2>2. CASE s = t
    BY <1>2, <2>1, <2>2, OwnPure
  <2>3. CASE s # t
    BY <1>2, <2>1, <2>3, OthersPure
  <2> QED BY <2>2, <2>3
<1>3. ASSUME NEW s \in Task, Step(s) PROVE Alone(t, pinned'[t])
  <2>1. CASE Complete(t)
    <3> DEFINE a == Current(t)
    <3>1. pinned'[t] = ChangeSet(a) /\ at[t] = "working"
      BY <2>1 DEF Complete, TInv, TypeOK
    <3>2. \A p \in Path : Files(a)[p] \in Task \ {t} => Files(a)[p] = ws[a].before[p] \/ Foreign(a, p)
      BY <3>1 DEF AloneInv, Pure
    <3> HIDE DEF a
    <3> QED BY <3>1, <3>2 DEF ChangeSet, Alone
  <2>2. CASE ~Complete(t)
    BY <1>3, <2>2, PinnedStays DEF AloneInv
  <2> QED BY <2>1, <2>2
<1>4. CASE UserEdit
  <2>1. /\ UNCHANGED <<plan, ws, tree, slots, foreign, at, tries, pinned>>
        /\ \A p \in Path : main'[p] = main[p] \/ main'[p] = User
    BY <1>4 DEF UserEdit, treeVars, slotVars, taskVars, TInv, TypeOK, Tree
  <2>2. \A a, p : p \in Path => (Files(a)'[p] = Files(a)[p] \/ Files(a)'[p] = User)
    BY <2>1 DEF Files
  <2>3. ASSUME NEW a, NEW p, Foreign(a, p), Files(a)'[p] = Files(a)[p] PROVE Foreign(a, p)'
    BY <2>1, <2>3 DEF Foreign
  <2>4. Pure(t) /\ Alone(t, pinned[t]) /\ Current(t)' = Current(t)
    BY <2>1 DEF AloneInv, Current
  <2> QED BY <2>1, <2>2, <2>3, <2>4, PlansOK DEF Pure
<1>5. CASE Crash \/ Prune
  <2>1. at'[t] \in {"completed", "failed", "lost"} /\ pinned' = pinned
    BY <1>5 DEF Crash, Prune, EInv, Ended, taskVars
  <2> QED BY <2>1 DEF Pure, AloneInv
<1> QED BY <1>1, <1>2, <1>3, <1>4, <1>5 DEF Next

\* A snapshot of the tree is taken with the slot, and at no other time.
LEMMA SnapshotTaken ==
  ASSUME TInv, NEW s \in Task, Step(s), NEW a \in Attempt, ws'[a].mode = "scoped-dir"
  PROVE  \/ ws[a].mode = "scoped-dir" /\ ws'[a].before = ws[a].before
         \/ AcquireSlot(s) /\ a = Current(s) /\ ws'[a].before = main
<1>0. ws[a] \in Workspace /\ ws \in [Attempt -> Workspace]
  BY DEF TInv, TypeOK
<1>1. CASE Create(s)
  <2> DEFINE seeds == Ours \cup Overlap(s)  c == <<s, tries[s] + 1>>
  <2>1. ws' = [ws EXCEPT ![c].copied = seeds] \/ ws' = ws
    BY <1>1 DEF Create
  <2> HIDE DEF seeds, c
  <2> QED BY <1>0, <2>1 DEF Workspace
<1>2. CASE ReuseWorktree(s) \/ OpenWorktree(s)
  <2>1. PICK l : Populate(s, l) /\ Current(s) \in Attempt
    BY <1>2, CurrentTyped DEF ReuseWorktree, OpenWorktree
  <2>2. CASE a = Current(s)
    <3>1. ws'[a].mode = "worktree"
      BY <1>0, <2>1, <2>2 DEF Populate
    <3> QED BY <3>1
  <2>3. CASE a # Current(s)
    BY <1>0, <2>1, <2>3 DEF Populate
  <2> QED BY <2>2, <2>3
<1>3. CASE Identify(s)
  <2> DEFINE b == Current(s)
             id == [p \in Path |-> IF p \in ws[b].copied THEN main[p] ELSE HeadTree[p]]
  <2>1. ws' = [ws EXCEPT ![b].identity = id]
    BY <1>3 DEF Identify
  <2> HIDE DEF id, b
  <2> QED BY <1>0, <2>1 DEF Workspace
<1>4. CASE AcquireSlot(s)
  BY <1>0, <1>4 DEF AcquireSlot
<1>5. CASE Retire(s)
  <2> DEFINE b == <<s, cursor[s]>>
  <2>1. ws' = ws \/ ws' = [ws EXCEPT ![b].dir = "gone"]
    BY <1>5 DEF Retire
  <2> HIDE DEF b
  <2> QED BY <1>0, <2>1 DEF Workspace
<1>6. CASE IntegrateInPlace(s)
  <2> DEFINE b == Current(s)
  <2>1. ws' = [ws EXCEPT ![b].dir = "integrated"]
    BY <1>6 DEF IntegrateInPlace
  <2> HIDE DEF b
  <2> QED BY <1>0, <2>1 DEF Workspace
<1>7. CASE EndFailed(s) \/ EndCompleted(s)
  <2>1. ws' = [c \in Attempt |-> IF c \in Listed(s) THEN NoWorkspace(c) ELSE ws[c]]
    BY <1>7 DEF EndFailed, EndCompleted, Dispose
  <2> QED BY <2>1, NothingInPlace
<1>8. CASE \/ Skip(s) \/ OpenFails(s) \/ Prepare(s) \/ PrepareFails(s) \/ Work(s) \/ Complete(s) \/ Judge(s)
           \/ Revert(s) \/ Restore(s) \/ IntegrateRefused(s) \/ IntegrateWorktree(s)
           \/ WriteNext(s) \/ WriteFails(s) \/ RevertLast(s) \/ RevertEarlier(s)
  BY <1>8 DEF Skip, OpenFails, Prepare, PrepareFails, Work, Complete, Judge, Revert, Restore, IntegrateRefused,
     IntegrateWorktree, WriteNext, WriteFails, RevertLast, RevertEarlier, treeVars
<1> QED BY <1>1, <1>2, <1>3, <1>4, <1>5, <1>6, <1>7, <1>8 DEF Step

\* An attempt is told of what is written of another's integration, and of nothing else.
LEMMA ForeignTold ==
  ASSUME TInv, NEW s \in Task, Step(s), NEW a \in Attempt, NEW p \in DOMAIN foreign'[a]
  PROVE  \/ p \in DOMAIN foreign[a] /\ foreign'[a][p] = foreign[a][p]
         \/ WriteNext(s) /\ p \in todo[s] /\ foreign'[a][p] = pinned[s][p]
<1>1. CASE Retire(s)
  <2>1. foreign' = foreign \/ foreign' = [foreign EXCEPT ![<<s, cursor[s]>>] = Nothing]
    BY <1>1 DEF Retire
  <2>2. foreign'[a] = foreign[a] \/ foreign'[a] = Nothing
    BY <2>1 DEF TInv, TypeOK
  <2>3. DOMAIN Nothing = {}
    BY DEF Nothing
  <2> QED BY <2>2, <2>3
<1>2. CASE WriteNext(s)
  <2>1. PICK q \in todo[s] :
          foreign' = [b \in Attempt |-> IF b \in slots THEN With(foreign[b], [r \in {q} |-> pinned[s][r]]) ELSE foreign[b]]
    BY <1>2 DEF WriteNext
  <2>2. foreign'[a] = With(foreign[a], [r \in {q} |-> pinned[s][r]]) \/ foreign'[a] = foreign[a]
    BY <2>1
  <2> QED BY <1>2, <2>2 DEF With
<1>3. CASE EndFailed(s) \/ EndCompleted(s)
  <2>1. foreign' = [b \in Attempt |-> IF b \in Listed(s) THEN Nothing ELSE foreign[b]]
    BY <1>3 DEF EndFailed, EndCompleted, Dispose
  <2> QED BY <2>1 DEF Nothing
<1>4. CASE \/ Skip(s) \/ Create(s) \/ ReuseWorktree(s) \/ OpenWorktree(s) \/ OpenFails(s) \/ Identify(s)
           \/ AcquireSlot(s) \/ Prepare(s) \/ PrepareFails(s) \/ Work(s) \/ Complete(s) \/ Judge(s)
           \/ Revert(s) \/ Restore(s) \/ IntegrateRefused(s) \/ IntegrateInPlace(s) \/ IntegrateWorktree(s)
           \/ WriteFails(s) \/ RevertLast(s) \/ RevertEarlier(s)
  BY <1>4 DEF Skip, Create, ReuseWorktree, OpenWorktree, OpenFails, Identify, AcquireSlot, Prepare, PrepareFails,
     Work, Complete, Judge, Revert, Restore, IntegrateRefused, IntegrateInPlace, IntegrateWorktree, WriteFails,
     RevertLast, RevertEarlier, slotVars
<1> QED BY <1>1, <1>2, <1>3, <1>4 DEF Step

\* No task answers for what is in the tree when another takes its snapshot.
LEMMA FreeOfAnswers ==
  ASSUME TInv, InPlace, NEW s \in Task, AcquireSlot(s), process = "up", Standing(s),
         NEW t \in Task, NEW p \in Path
  PROVE  ~Answers(t, p)
<1> SUFFICES ASSUME Answers(t, p) PROVE FALSE
  OBVIOUS
<1>1. Current(t) \in slots /\ Current(t)[1] = t
  BY DEF Answers, InPlace, Current
<1>2. t = s /\ at[s] = "slot"
  BY <1>1 DEF AcquireSlot
<1> QED BY <1>1, <1>2 DEF Answers, Standing, Holding

\* What a task may have to take back is in no snapshot.
LEMMA NextSnapshots ==
  ASSUME TInv, PInv, StandInv, InPlace, AloneInv, Snapshots, Traces, [Next]_vars
  PROVE  Snapshots'
<1> SUFFICES ASSUME NEW a \in Attempt, NEW t \in Task, NEW p \in Path, Cleans(t, p)
             PROVE  /\ ws'[a].mode = "scoped-dir" /\ ws'[a].before[p] = t => Was(t, p)'
                    /\ p \in DOMAIN foreign'[a] /\ foreign'[a][p] = t => Was(t, p)'
  <2>1. plan' = plan
    BY IntegratedStays
  <2> QED BY <2>1 DEF Snapshots, Cleans, Own
<1>1. Was(t, p) => Was(t, p)'
  BY WasStays
<1>2. /\ ws[a].mode = "scoped-dir" /\ ws[a].before[p] = t => Was(t, p)
      /\ p \in DOMAIN foreign[a] /\ foreign[a][p] = t => Was(t, p)
  BY DEF Snapshots
<1>3. CASE UNCHANGED vars \/ UserEdit
  BY <1>1, <1>2, <1>3 DEF vars, UserEdit, treeVars, slotVars
<1>4. ASSUME NEW s \in Task, Step(s), ws'[a].mode = "scoped-dir", ws'[a].before[p] = t PROVE Was(t, p)'
  <2>1. CASE ws[a].mode = "scoped-dir" /\ ws'[a].before = ws[a].before
    BY <1>1, <1>2, <1>4, <2>1
  <2>2. CASE AcquireSlot(s) /\ ws'[a].before = main
    <3>1. process = "up" /\ Standing(s) /\ main[p] = t
      BY <1>4, <2>2, StepUp DEF StandInv
    <3>2. Was(t, p) \/ Answers(t, p)
      BY <3>1 DEF Traces
    <3> QED BY <1>1, <2>2, <3>1, <3>2, FreeOfAnswers
  <2> QED BY <1>4, <2>1, <2>2, SnapshotTaken
<1>5. ASSUME NEW s \in Task, Step(s), p \in DOMAIN foreign'[a], foreign'[a][p] = t PROVE Was(t, p)'
  <2>1. CASE p \in DOMAIN foreign[a] /\ foreign'[a][p] = foreign[a][p]
    BY <1>1, <1>2, <1>5, <2>1
  <2>2. CASE WriteNext(s) /\ p \in todo[s] /\ foreign'[a][p] = pinned[s][p]
    <3>1. at[s] = "write" /\ p \in DOMAIN pinned[s] /\ pinned[s][p] = t
      BY <1>5, <2>2 DEF WriteNext, TInv, Started
    <3>2. s = t
      BY <3>1 DEF AloneInv, Alone
    <3>3. \/ at'[s] \in {"write", "accepted"} /\ pinned' = pinned /\ p \in DOMAIN integrated'
          \/ Was(t, p)'
      <4>1. PICK q \in todo[s] :
              /\ integrated' = With(integrated, [r \in {q} |-> pinned[s][r]])
              /\ foreign' = [b \in Attempt |-> IF b \in slots THEN With(foreign[b], [r \in {q} |-> pinned[s][r]]) ELSE foreign[b]]
        BY <2>2 DEF WriteNext
      <4>2. CASE p = q
        <5>1. p \in DOMAIN integrated'
          BY <4>1, <4>2 DEF With
        <5>2. at'[s] \in {"write", "accepted"} /\ pinned' = pinned
          BY <2>2 DEF WriteNext, Go, TInv, TypeOK
        <5> QED BY <5>1, <5>2
      <4>3. CASE p # q
        <5>1. p \in DOMAIN foreign[a] /\ foreign'[a][p] = foreign[a][p]
          BY <1>5, <4>1, <4>3 DEF With
        <5> QED BY <1>1, <1>2, <1>5, <5>1
      <4> QED BY <4>2, <4>3
    <3> QED BY <3>1, <3>2, <3>3 DEF Was, Past
  <2> QED BY <1>5, <2>1, <2>2, ForeignTold
<1>6. CASE Crash
  <2>1. foreign'[a] = Nothing /\ (ws'[a] = ws[a] \/ ws'[a] = NoWorkspace(a))
    BY <1>6 DEF Crash
  <2> QED BY <1>1, <1>2, <2>1, NothingInPlace DEF Nothing
<1>7. CASE Prune
  <2>1. foreign' = foreign /\ ws'[a] = NoWorkspace(a)
    BY <1>7 DEF Prune, slotVars
  <2> QED BY <1>1, <1>2, <2>1, NothingInPlace
<1> QED BY <1>3, <1>4, <1>5, <1>6, <1>7 DEF Next

\* The revert of an attempt in place that still stands takes back what is the task's.
LEMMA TakenBack ==
  ASSUME TInv, InPlace, Snapshots, NEW t \in Task, NEW p \in Path, Cleans(t, p), ~Was(t, p),
         main[p] = t, NEW a \in Attempt, ws[a].dir = "active"
  PROVE  p \in DOMAIN ChangeSet(a) /\ ChangeSet(a)[p] = t
<1>1. ws[a].mode = "scoped-dir"
  BY DEF InPlace
<1>2. Files(a) = main
  BY <1>1 DEF Files
<1>3. ws[a].before[p] # t /\ (p \in DOMAIN foreign[a] => foreign[a][p] # t)
  BY <1>1 DEF Snapshots
<1> QED BY <1>2, <1>3 DEF ChangeSet, Foreign

\* An attempt in place that is seeded or writes answers for it.
LEMMA WritingAnswers ==
  ASSUME TInv, NEW t \in Task, NEW p \in Path, Prepare(t) \/ PrepareFails(t) \/ Work(t),
         Current(t) \in Of(t), ws[Current(t)].dir = "active"
  PROVE  Answers(t, p)'
<1>1. UNCHANGED <<tries, ws>> /\ at'[t] \in {"working", "failing", "judged"}
  BY DEF Prepare, PrepareFails, Work, Go, treeVars, taskVars, TInv, TypeOK
<1>2. Current(t)' = Current(t)
  BY <1>1 DEF Current
<1> QED BY <1>1, <1>2 DEF Answers, Holding, Of

\* A workspace that was not disposed of goes on answering.
LEMMA UnlistedAnswers ==
  ASSUME NEW t \in Task, NEW p \in Path, Answers(t, p), Current(t) \in unlisted, unlisted \subseteq unlisted',
         tries' = tries, ws'[Current(t)] = ws[Current(t)]
  PROVE  Answers(t, p)'
<1>1. Current(t)' = Current(t)
  BY DEF Current
<1> QED BY <1>1 DEF Answers

\* What the task has in the main tree it still answers for after its own step, unless it
\* was integrated.
LEMMA OwnAnswers ==
  ASSUME TInv, InPlace, Snapshots, NEW t \in Task, Step(t), Placed(t), Standing(t),
         NEW p \in Path, Cleans(t, p), main[p] = t, main'[p] = t, ~Was(t, p), Answers(t, p)
  PROVE  Answers(t, p)' \/ Was(t, p)'
<1> DEFINE a == Current(t)
<1>0. /\ a \in Attempt /\ a \in Of(t) /\ ws[a].dir = "active" /\ ws[a].mode = "scoped-dir"
      /\ p \in DOMAIN ChangeSet(a) /\ ChangeSet(a)[p] = t
  BY TakenBack DEF Answers, InPlace, Of, Current
<1>1. CASE Skip(t) \/ Create(t) \/ ReuseWorktree(t) \/ OpenWorktree(t) \/ OpenFails(t) \/ Identify(t) \/ AcquireSlot(t)
  <2>1. at[t] \in {"create", "open", "identify", "slot"}
    BY <1>1 DEF Skip, Create, ReuseWorktree, OpenWorktree, OpenFails, Identify, AcquireSlot
  <2> QED BY <2>1 DEF Answers, Standing, Holding, Current
<1>2. CASE Prepare(t) \/ PrepareFails(t) \/ Work(t)
  BY <1>0, <1>2, WritingAnswers
<1>3. CASE Complete(t) \/ Judge(t) \/ IntegrateRefused(t)
  <2>1. /\ UNCHANGED <<tries, ws>> /\ at'[t] \in {"judged", "integrate", "failing", "revert"}
        /\ at'[t] = "revert" => cursor'[t] = tries[t]
    BY <1>3 DEF Complete, Judge, IntegrateRefused, Go, treeVars, taskVars, TInv, TypeOK
  <2>2. Current(t)' = a
    BY <2>1 DEF Current
  <2> HIDE DEF a
  <2> QED BY <1>0, <2>1, <2>2 DEF Answers, Holding
<1>4. CASE Revert(t)
  <2>1. UNCHANGED <<tries, ws, unlisted, cursor>> /\ at[t] = "revert" /\ at'[t] = "restore"
    BY <1>4 DEF Revert, Go, treeVars, TInv, TypeOK
  <2>2. CASE a \in unlisted
    BY <2>1, <2>2, UnlistedAnswers
  <2>3. CASE a \notin unlisted
    <3>1. cursor[t] = tries[t] /\ <<t, cursor[t]>> = a
      BY <2>1, <2>3 DEF Answers, Holding, Current
    <3>2. p \in todo'[t]
      BY <1>0, <1>4, <3>1 DEF Revert, Cleans, TInv, TypeOK
    <3>3. Current(t)' = a
      BY <2>1 DEF Current
    <3> HIDE DEF a
    <3> QED BY <1>0, <2>1, <3>1, <3>2, <3>3 DEF Answers
  <2> QED BY <2>2, <2>3
<1>5. CASE Restore(t)
  <2>1. UNCHANGED <<tries, ws, unlisted, cursor, at>> /\ at[t] = "restore"
    BY <1>5 DEF Restore, treeVars
  <2>2. CASE a \in unlisted
    BY <2>1, <2>2, UnlistedAnswers
  <2>3. CASE a \notin unlisted
    <3>1. cursor[t] = tries[t] /\ <<t, cursor[t]>> = a /\ p \in todo[t]
      BY <2>1, <2>3 DEF Answers, Holding, Current
    <3>2. PICK q \in todo[t] :
            /\ todo' = [todo EXCEPT ![t] = @ \ {q}]
            /\ main' = IF Restorable(a, q) THEN [main EXCEPT ![q] = ws[a].before[q]] ELSE main
      BY <1>5, <3>1 DEF Restore
    <3>3. q # p
      <4> SUFFICES ASSUME q = p PROVE FALSE
        OBVIOUS
      <4>1. main'[p] = ws[a].before[p]
        BY <1>0, <3>2 DEF Restorable, TInv, TypeOK, Tree
      <4> QED BY <1>0, <4>1 DEF Snapshots
    <3>4. p \in todo'[t]
      BY <3>1, <3>2, <3>3 DEF TInv, TypeOK
    <3>5. Current(t)' = a
      BY <2>1 DEF Current
    <3> HIDE DEF a
    <3> QED BY <1>0, <2>1, <3>1, <3>4, <3>5 DEF Answers
  <2> QED BY <2>2, <2>3
<1>6. CASE Retire(t)
  <2>1. at[t] = "restore" /\ todo[t] = {} /\ next[t] # "none"
    BY <1>6 DEF Retire
  <2> QED BY <2>1 DEF Answers, Holding, Standing, Current
<1>7. CASE IntegrateInPlace(t)
  <2>1. /\ ChangeSet(a) = pinned[t] /\ integrated' = With(integrated, ChangeSet(a)) /\ pinned' = pinned
        /\ at'[t] = "accepted"
    BY <1>7 DEF IntegrateInPlace, Go, taskVars, TInv, TypeOK
  <2> HIDE DEF a
  <2> QED BY <1>0, <2>1 DEF Was, Past, With
<1>8. CASE IntegrateWorktree(t) \/ WriteNext(t) \/ WriteFails(t) \/ EndCompleted(t)
  <2>1. ~IntegrateWorktree(t)
    BY <1>0 DEF IntegrateWorktree
  <2>2. at[t] \in {"write", "accepted"}
    BY <1>8, <2>1 DEF WriteNext, WriteFails, EndCompleted
  <2> QED BY <2>2 DEF Answers, Holding, Standing, Current
<1>9. CASE RevertLast(t)
  <2>1. UNCHANGED <<tries, ws, unlisted>> /\ at'[t] = "revert" /\ cursor'[t] = LastListed(t)
    BY <1>9 DEF RevertLast, Go, treeVars, TInv, TypeOK
  <2>2. CASE a \in unlisted
    BY <2>1, <2>2, UnlistedAnswers
  <2>3. CASE a \notin unlisted
    <3>1. cursor'[t] = tries'[t] /\ Current(t)' = a
      BY <2>1, <2>3 DEF LastListed, Current
    <3> HIDE DEF a
    <3> QED BY <1>0, <2>1, <3>1 DEF Answers
  <2> QED BY <2>2, <2>3
<1>10. CASE RevertEarlier(t)
  <2>1. UNCHANGED <<tries, ws, unlisted>> /\ at[t] = "restore" /\ todo[t] = {}
    BY <1>10 DEF RevertEarlier, treeVars
  <2>2. a \in unlisted
    BY <2>1 DEF Answers, Holding
  <2> QED BY <2>1, <2>2, UnlistedAnswers
<1>11. CASE EndFailed(t)
  <2>1. /\ UNCHANGED <<tries, unlisted>>
        /\ \/ at[t] = "failing" /\ LastListed(t) = 0
           \/ at[t] = "restore" /\ todo[t] = {}
        /\ ws' = [b \in Attempt |-> IF b \in Listed(t) THEN NoWorkspace(b) ELSE ws[b]]
    BY <1>11 DEF EndFailed, Dispose
  <2>2. a \in unlisted
    <3>1. CASE at[t] = "failing" /\ LastListed(t) = 0
      <4>1. tries[t] # 0
        BY <1>0 DEF Of, Attempt, Current
      <4> QED BY <3>1, <4>1 DEF LastListed
    <3>2. CASE at[t] = "restore" /\ todo[t] = {}
      BY <3>2 DEF Answers, Holding
    <3> QED BY <2>1, <3>1, <3>2
  <2>3. ws'[a] = ws[a]
    BY <1>0, <2>1, <2>2 DEF Listed
  <2> QED BY <2>1, <2>2, <2>3, UnlistedAnswers
<1> QED BY <1>1, <1>2, <1>3, <1>4, <1>5, <1>6, <1>7, <1>8, <1>9, <1>10, <1>11 DEF Step

\* What others do leaves a task answering for what it answered for.
LEMMA OthersAnswer ==
  ASSUME NEW t \in Task, Untouched(t), Apart(t), NEW p \in Path, Answers(t, p)
  PROVE  Answers(t, p)'
<1>1. Current(t)' = Current(t) /\ Current(t) \in Of(t)
  BY DEF Untouched, Current, Answers, Of
<1>2. ws'[Current(t)] = ws[Current(t)] /\ ((Current(t) \in unlisted') <=> (Current(t) \in unlisted))
  BY <1>1 DEF Apart
<1> QED BY <1>1, <1>2 DEF Answers, Untouched, Apart

\* Work of a task that comes into the main tree was integrated, or is answered for.
LEMMA NewTraces ==
  ASSUME TInv, TInv', PInv, InPlace, StandInv, AloneInv, Snapshots, NEW s \in Task, Step(s), NEW t \in Task,
         NEW p \in Path, Cleans(t, p), main'[p] = t, main[p] # t
  PROVE  Was(t, p)' \/ Answers(t, p)'
<1>1. Placed(s) /\ Standing(s) /\ Alone(s, pinned[s])
  BY StepUp DEF PInv, StandInv, AloneInv
<1>2. CASE /\ Prepare(s) \/ PrepareFails(s) \/ Work(s)
           /\ Current(s) \in Of(s) /\ ws[Current(s)].dir = "active"
           /\ main'[p] \in Task => main'[p] = s
  BY <1>2, WritingAnswers
<1>3. CASE WriteNext(s) /\ p \in todo[s] /\ main'[p] = pinned[s][p] /\ p \in DOMAIN pinned[s]
  <2>1. s = t
    BY <1>1, <1>3 DEF Alone
  <2>2. PICK q \in todo[s] : /\ main' = With(main, [r \in {q} |-> pinned[s][r]])
                             /\ integrated' = With(integrated, [r \in {q} |-> pinned[s][r]])
    BY <1>3 DEF WriteNext
  <2>3. q = p
    BY <2>2 DEF With, TInv, TypeOK, Tree
  <2>4. p \in DOMAIN integrated'
    BY <2>2, <2>3 DEF With
  <2>5. at'[s] \in {"write", "accepted"} /\ pinned' = pinned
    BY <1>3 DEF WriteNext, Go, TInv, TypeOK
  <2> QED BY <1>3, <2>1, <2>4, <2>5 DEF Was, Past
<1>4. CASE /\ main'[p] = ws[<<s, cursor[s]>>].before[p]
           /\ <<s, cursor[s]>> \in Of(s) /\ ws[<<s, cursor[s]>>].mode = "scoped-dir"
  <2>1. Was(t, p)
    BY <1>4 DEF Snapshots, Of
  <2> QED BY <2>1, WasStays DEF Next
<1> QED BY <1>1, <1>2, <1>3, <1>4, MainMoves

\* Every step keeps sight of what the tasks have in the main tree.
LEMMA NextTraces ==
  ASSUME TInv, TInv', PInv, InPlace, StandInv, AloneInv, Snapshots, Traces, [Next]_vars
  PROVE  Traces'
<1> SUFFICES ASSUME NEW t \in Task, NEW p \in Path, main'[p] = t
             PROVE  /\ process' = "up" /\ Cleans(t, p) => Was(t, p)' \/ Answers(t, p)'
                    /\ process' = "down" /\ p \in Own(t) => Was(t, p)' \/ \E a \in Of(t) : ws'[a].dir = "active"
                    /\ process' = "pruned" /\ p \in Own(t) => Was(t, p)'
  <2>1. plan' = plan
    BY IntegratedStays
  <2> QED BY <2>1 DEF Traces, Cleans, Own
<1>1. Was(t, p) => Was(t, p)'
  BY WasStays
<1>2. p \in Own(t) => Cleans(t, p)
  BY DEF Cleans
<1>3. CASE UNCHANGED vars \/ UserEdit
  <2>1. /\ UNCHANGED <<ws, at, tries, cursor, unlisted, todo, process>>
        /\ main'[p] = main[p] \/ main'[p] = User
    BY <1>3 DEF vars, UserEdit, treeVars, taskVars, TInv, TypeOK, Tree
  <2>2. main[p] = t
    BY <2>1, PlansOK
  <2>3. Answers(t, p)' <=> Answers(t, p)
    BY <2>1 DEF Answers, Current
  <2> QED BY <1>1, <2>1, <2>2, <2>3 DEF Traces
<1>4. ASSUME NEW s \in Task, Step(s), Cleans(t, p) PROVE Was(t, p)' \/ Answers(t, p)'
  <2>1. CASE main[p] # t
    BY <1>4, <2>1, NewTraces
  <2>2. CASE main[p] = t /\ ~Was(t, p)
    <3>1. Answers(t, p) /\ Placed(s) /\ Standing(s)
      BY <1>4, <2>2, StepUp DEF Traces, PInv, StandInv
    <3>2. CASE s = t
      BY <1>4, <2>2, <3>1, <3>2, OwnAnswers
    <3>3. CASE s # t
      BY <1>4, <3>1, <3>3, Frame, ApartFrame, OthersAnswer
    <3> QED BY <3>2, <3>3
  <2> QED BY <1>1, <2>1, <2>2
<1>5. CASE Crash
  <2>1. main' = main /\ process = "up" /\ process' = "down"
    BY <1>5 DEF Crash
  <2>2. ASSUME p \in Own(t), Answers(t, p) PROVE \E a \in Of(t) : ws'[a].dir = "active"
    <3>1. PICK a \in Of(t) : ws[a].dir = "active" /\ a \in Attempt
      BY <2>2 DEF Answers, Of, Current
    <3>2. ws'[a] = ws[a]
      BY <1>5, <3>1 DEF Crash
    <3> QED BY <3>1, <3>2
  <2> QED BY <1>1, <1>2, <2>1, <2>2 DEF Traces
<1>6. CASE Prune
  <2> DEFINE dead == {a \in Attempt : ws[a].dir = "active" /\ p \in Own(a[1])}
  <2>1. /\ process = "down" /\ process' = "pruned"
        /\ main'[p] = IF dead = {} THEN main[p] ELSE ws[CHOOSE a \in dead : TRUE].before[p]
    BY <1>6 DEF Prune
  <2> SUFFICES ASSUME p \in Own(t) PROVE Was(t, p)
    BY <1>1, <2>1
  <2>2. CASE dead = {}
    <3>1. \A a \in Of(t) : ws[a].dir # "active"
      BY <2>2 DEF Of
    <3> QED BY <2>1, <2>2, <3>1 DEF Traces
  <2>3. CASE dead # {}
    <3>1. PICK a \in dead : main'[p] = ws[a].before[p]
      BY <2>1, <2>3
    <3>2. a \in Attempt /\ ws[a].mode = "scoped-dir"
      BY <3>1 DEF InPlace
    <3> QED BY <1>2, <3>1, <3>2 DEF Snapshots
  <2> QED BY <2>2, <2>3
<1>7. ASSUME NEW s \in Task, Step(s) PROVE process' = "up"
  BY <1>7, StepUp
<1> QED BY <1>3, <1>4, <1>5, <1>6, <1>7 DEF Next

\* All of it holds at first.
LEMMA InitR == Init => RInv
<1> SUFFICES ASSUME Init PROVE RInv
  OBVIOUS
<1>1. /\ \A a \in Attempt : ws[a] = NoWorkspace(a) /\ foreign[a] = Nothing
      /\ \A t \in Task : at[t] = "create" /\ next[t] = "none" /\ pinned[t] = Nothing
      /\ integrated = Nothing /\ DOMAIN Nothing = {} /\ slots = {} /\ unlisted = {} /\ process = "up"
      /\ \A p \in Path : main[p] \in {Absent, Head}
  BY DEF Init, HeadTree, Nothing
<1>2. \A a \in Attempt : ws[a].mode = "none" /\ ws[a].dir = "none"
  BY <1>1, NothingInPlace
<1>3. InPlace
  BY <1>1, <1>2 DEF InPlace
<1>4. StandInv
  BY <1>1 DEF StandInv, Standing, Holding
<1>5. AloneInv
  BY <1>1 DEF AloneInv, Pure, Alone
<1>6. Booked /\ Snapshots
  BY <1>1, <1>2 DEF Booked, Snapshots
<1>7. Traces
  BY <1>1, PlansOK DEF Traces
<1> QED BY <1>3, <1>4, <1>5, <1>6, <1>7 DEF RInv

\* Every step keeps it.
LEMMA NextR == TInv /\ EInv /\ PInv /\ RInv /\ [Next]_vars => RInv'
<1> SUFFICES ASSUME TInv, EInv, PInv, RInv, [Next]_vars PROVE RInv'
  OBVIOUS
<1>1. TInv'
  BY NextTyped
<1> QED BY <1>1, NextInPlace, NextStands, NextAlone, NextBooked, NextSnapshots, NextTraces DEF RInv

\* All there is to know of the workspaces.
LEMMA Integrity == Spec => [](TInv /\ EInv /\ PInv /\ RInv)
<1>1. Init => TInv /\ EInv /\ PInv /\ RInv
  BY InitTyped, InitSeen, InitPlaced, InitR
<1>2. TInv /\ EInv /\ PInv /\ RInv /\ [Next]_vars => (TInv /\ EInv /\ PInv /\ RInv)'
  BY NextTyped, NextSeen, NextPlaced, NextR
<1> QED BY <1>1, <1>2, PTL DEF Spec

\* What a provider integrated of a task is what was pinned when its attempt ended, verified
\* and reviewed, whatever a process the attempt left behind wrote afterwards, and however
\* many tasks work over the same paths (isolation.ts, integrate).
THEOREM IntegratedAsReviewed == Spec => []AsReviewed
<1>1. PInv /\ RInv => AsReviewed
  BY DEF RInv, Booked, AloneInv, Alone, AsReviewed
<1> QED BY <1>1, Integrity, PTL

\* What a failed task, or after a crash a pruned attempt, has left in the main tree had been
\* integrated, or is what another owner of the path has integrated over since (worker-manager.ts,
\* retire and disposeTask; isolation.ts, revert and pruneOrphanedAttempts).
THEOREM LeftoversIntegrated == Spec => []LeftoversAreIntegrated
<1>1. TInv /\ RInv => LeftoversAreIntegrated
  <2> SUFFICES ASSUME TInv, RInv, NEW t \in Task, NEW p \in Path, main[p] = t,
                      \/ process = "up" /\ at[t] = "failed" /\ Cleans(t, p) /\ Current(t) \notin unlisted
                      \/ process = "pruned" /\ p \in Own(t)
               PROVE  /\ p \in DOMAIN integrated /\ p \in DOMAIN pinned[t] /\ pinned[t][p] = t
                      /\ \/ integrated[p] = t
                         \/ \E s \in Task \ {t} :
                              p \in Own(s) /\ p \in DOMAIN pinned[s] /\ integrated[p] = pinned[s][p]
    BY DEF LeftoversAreIntegrated, Cleans
  <2>1. Was(t, p) \/ (Answers(t, p) /\ at[t] = "failed" /\ Current(t) \notin unlisted)
    <3>1. \/ process = "up" /\ at[t] = "failed" /\ Cleans(t, p) /\ Current(t) \notin unlisted
          \/ process = "pruned" /\ p \in Own(t)
      OBVIOUS
    <3>2. /\ process = "up" /\ Cleans(t, p) => Was(t, p) \/ Answers(t, p)
          /\ process = "pruned" /\ p \in Own(t) => Was(t, p)
      BY DEF RInv, Traces
    <3> QED BY <3>1, <3>2
  <2>2. Was(t, p)
    BY <2>1 DEF Answers, Holding
  <2>3. PICK s \in Task : p \in DOMAIN pinned[s] /\ p \in Own(s) /\ integrated[p] = pinned[s][p]
    BY <2>2 DEF RInv, Booked, Was
  <2> QED BY <2>2, <2>3 DEF Was
<1> QED BY <1>1, Integrity, PTL
-----------------------------------------------------------------------------
(* What a completed task has in the main tree *)

\* A disposed attempt is reverted only while no other task works in place.
DisposedAlone ==
  \A s \in Task : at[s] = "restore" /\ todo[s] # {} /\ ws[<<s, cursor[s]>>].dir = "gone" =>
    \A a \in slots : a[1] = s

\* No task integrates a path while another owner of that path works in place.
OwnersApart ==
  \A t \in Task : at[t] = "write" => \A a \in slots : a[1] = t \/ Own(a[1]) \cap Own(t) = {}

Old == {Absent, Head}

\* An attempt works in place only as long as it is its task's last, and not completed.
Latest(t) == \A a \in Of(t) : ws[a].dir = "active" =>
  /\ at[t] # "completed"
  /\ process = "up" => a = Current(t) /\ at[t] \notin {"create", "open", "identify", "slot"}

\* What an attempt in place finds of another task's work was there when it began, or it was
\* told of it; of a path it owns, it was there.
Told(t) == \A a \in Of(t) : ws[a].dir = "active" =>
  \A p \in Path : main[p] \in Task \ {t} =>
    /\ process = "up" => main[p] = ws[a].before[p] \/ Foreign(a, p)
    /\ p \in Own(t) => main[p] = ws[a].before[p]

\* An attempt finds nothing old that was not there when it began, so it pins nothing old.
Fresh(t) ==
  LET a == Current(t) IN
  at[t] \in {"identify", "prepare", "working"} => \A p \in Path :
    Files(a)[p] \in Old => Files(a)[p] = ws[a].before[p]
PinsNew(t) == \A p \in DOMAIN pinned[t] : pinned[t][p] \notin Old

\* What is to be restored of an attempt in place is nobody else's work.
RestoresOwn(t) ==
  at[t] = "restore" /\ ws[<<t, cursor[t]>>].dir = "active" =>
    \A p \in todo[t] \ hasty : main[p] \notin Task \ {t}

LatestInv == \A t \in Task : Latest(t)
ToldInv   == \A t \in Task : Told(t)
FreshInv  == \A t \in Task : Fresh(t) /\ PinsNew(t)
CInv == LatestInv /\ ToldInv /\ FreshInv /\ (\A t \in Task : RestoresOwn(t))

\* What works in place worked in place before, under the same snapshot, or has just got the
\* slot.
LEMMA StaysInPlace ==
  ASSUME TInv, InPlace, InPlace', NEW s \in Task, Step(s), NEW a \in Attempt, ws'[a].dir = "active"
  PROVE  \/ ws[a].dir = "active" /\ ws'[a].before = ws[a].before
         \/ AcquireSlot(s) /\ a = Current(s) /\ ws'[a].before = main
<1>0. ws[a] \in Workspace /\ ws \in [Attempt -> Workspace] /\ ws'[a].mode = "scoped-dir"
  BY DEF TInv, TypeOK, InPlace
<1>1. CASE AcquireSlot(s) /\ a = Current(s)
  BY <1>0, <1>1 DEF AcquireSlot
<1>2. CASE ~(AcquireSlot(s) /\ a = Current(s))
  <2>1. ws[a].mode = "scoped-dir" /\ ws'[a].before = ws[a].before
    BY <1>0, <1>2, SnapshotTaken
  <2>2. CASE ws' = ws
    BY <2>1, <2>2
  <2>3. CASE Create(s)
    <3> DEFINE seeds == Ours \cup Overlap(s)  c == <<s, tries[s] + 1>>
    <3>1. ws' = [ws EXCEPT ![c].copied = seeds] \/ ws' = ws
      BY <2>3 DEF Create
    <3> HIDE DEF seeds, c
    <3> QED BY <1>0, <2>1, <3>1 DEF Workspace
  <2>4. CASE ReuseWorktree(s) \/ OpenWorktree(s)
    <3>1. PICK l : Populate(s, l) /\ Current(s) \in Attempt
      BY <2>4, CurrentTyped DEF ReuseWorktree, OpenWorktree
    <3>2. a # Current(s)
      <4>1. ws'[Current(s)].mode = "worktree"
        BY <1>0, <3>1 DEF Populate
      <4> QED BY <1>0, <4>1
    <3> QED BY <1>0, <2>1, <3>1, <3>2 DEF Populate
  <2>5. CASE Identify(s)
    <3> DEFINE b == Current(s)
               id == [p \in Path |-> IF p \in ws[b].copied THEN main[p] ELSE HeadTree[p]]
    <3>1. ws' = [ws EXCEPT ![b].identity = id]
      BY <2>5 DEF Identify
    <3> HIDE DEF id, b
    <3> QED BY <1>0, <2>1, <3>1 DEF Workspace
  <2>6. CASE AcquireSlot(s)
    BY <1>0, <1>2, <2>1, <2>6 DEF AcquireSlot
  <2>7. CASE Retire(s) \/ IntegrateInPlace(s)
    <3>1. PICK b, d : d \in {"gone", "integrated"} /\ (ws' = ws \/ ws' = [ws EXCEPT ![b].dir = d])
      BY <2>7 DEF Retire, IntegrateInPlace
    <3> QED BY <1>0, <2>1, <3>1 DEF Workspace
  <2>8. CASE EndFailed(s) \/ EndCompleted(s)
    <3>1. ws' = [c \in Attempt |-> IF c \in Listed(s) THEN NoWorkspace(c) ELSE ws[c]]
      BY <2>8 DEF EndFailed, EndCompleted, Dispose
    <3> QED BY <2>1, <3>1, NothingInPlace
  <2>9. CASE \/ Skip(s) \/ OpenFails(s) \/ Prepare(s) \/ PrepareFails(s) \/ Work(s) \/ Complete(s) \/ Judge(s)
             \/ Revert(s) \/ Restore(s) \/ IntegrateRefused(s) \/ IntegrateWorktree(s)
             \/ WriteNext(s) \/ WriteFails(s) \/ RevertLast(s) \/ RevertEarlier(s)
    BY <2>2, <2>9 DEF Skip, OpenFails, Prepare, PrepareFails, Work, Complete, Judge, Revert, Restore,
       IntegrateRefused, IntegrateWorktree, WriteNext, WriteFails, RevertLast, RevertEarlier, treeVars
  <2> QED BY <2>3, <2>4, <2>5, <2>6, <2>7, <2>8, <2>9 DEF Step
<1> QED BY <1>1, <1>2

\* An attempt that stays in place is told of what is integrated over it, and forgets none.
LEMMA StillTold ==
  ASSUME TInv, InPlace, InPlace', NEW s \in Task, Step(s), NEW a \in Attempt, NEW p \in Path,
         ws[a].dir = "active", ws'[a].dir = "active",
         \/ Foreign(a, p) /\ main'[p] = main[p]
         \/ WriteNext(s) /\ main'[p] # main[p]
  PROVE  Foreign(a, p)'
<1>1. /\ process = "up" /\ process' = "up" /\ a \in slots /\ a \in slots'
      /\ Files(a) = main /\ Files(a)' = main'
  BY StepUp DEF InPlace, Files
<1>2. CASE WriteNext(s)
  <2>1. PICK q \in todo[s] :
          /\ main' = With(main, [r \in {q} |-> pinned[s][r]])
          /\ foreign' = [b \in Attempt |-> IF b \in slots THEN With(foreign[b], [r \in {q} |-> pinned[s][r]]) ELSE foreign[b]]
    BY <1>2 DEF WriteNext
  <2>2. foreign'[a] = With(foreign[a], [r \in {q} |-> pinned[s][r]])
    BY <1>1, <2>1
  <2>3. p # q => main'[p] = main[p]
    BY <2>1 DEF With, TInv, TypeOK, Tree
  <2>4. CASE p = q
    <3>1. p \in DOMAIN foreign'[a] /\ foreign'[a][p] = main'[p]
      BY <2>1, <2>2, <2>4 DEF With, TInv, TypeOK, Tree
    <3> QED BY <1>1, <3>1 DEF Foreign
  <2>5. CASE p # q
    <3>1. p \in DOMAIN foreign[a] => p \in DOMAIN foreign'[a] /\ foreign'[a][p] = foreign[a][p]
      BY <2>2, <2>5 DEF With
    <3> QED BY <1>1, <2>3, <2>5, <3>1 DEF Foreign
  <2> QED BY <2>4, <2>5
<1>3. CASE ~WriteNext(s)
  <2>1. foreign'[a] = foreign[a]
    <3>1. CASE Retire(s)
      <4> DEFINE b == <<s, cursor[s]>>
      <4>1. \/ foreign' = foreign
            \/ ws' = [ws EXCEPT ![b].dir = "gone"] /\ foreign' = [foreign EXCEPT ![b] = Nothing]
        BY <3>1 DEF Retire
      <4> HIDE DEF b
      <4>2. ws' = [ws EXCEPT ![b].dir = "gone"] => a # b
        BY DEF TInv, TypeOK, Workspace
      <4> QED BY <4>1, <4>2 DEF TInv, TypeOK
    <3>2. CASE EndFailed(s) \/ EndCompleted(s)
      <4>1. /\ ws' = [c \in Attempt |-> IF c \in Listed(s) THEN NoWorkspace(c) ELSE ws[c]]
            /\ foreign' = [c \in Attempt |-> IF c \in Listed(s) THEN Nothing ELSE foreign[c]]
        BY <3>2 DEF EndFailed, EndCompleted, Dispose
      <4> QED BY <4>1, NothingInPlace
    <3>3. CASE \/ Skip(s) \/ Create(s) \/ ReuseWorktree(s) \/ OpenWorktree(s) \/ OpenFails(s) \/ Identify(s)
               \/ AcquireSlot(s) \/ Prepare(s) \/ PrepareFails(s) \/ Work(s) \/ Complete(s) \/ Judge(s)
               \/ Revert(s) \/ Restore(s) \/ IntegrateRefused(s) \/ IntegrateInPlace(s) \/ IntegrateWorktree(s)
               \/ WriteFails(s) \/ RevertLast(s) \/ RevertEarlier(s)
      BY <3>3 DEF Skip, Create, ReuseWorktree, OpenWorktree, OpenFails, Identify, AcquireSlot, Prepare, PrepareFails,
         Work, Complete, Judge, Revert, Restore, IntegrateRefused, IntegrateInPlace, IntegrateWorktree, WriteFails,
         RevertLast, RevertEarlier, slotVars
    <3> QED BY <1>3, <3>1, <3>2, <3>3 DEF Step
  <2> QED BY <1>1, <1>3, <2>1 DEF Foreign
<1> QED BY <1>2, <1>3

\* An attempt that goes on, or ends, is its task's last.
LEMMA OwnLatest ==
  ASSUME TInv, TInv', InPlace, InPlace', NEW t \in Task, Step(t), Placed(t), Standing(t), Latest(t)
  PROVE  Latest(t)'
<1> DEFINE Early == {"create", "open", "identify", "slot"}
<1> SUFFICES ASSUME NEW a \in Of(t), ws'[a].dir = "active"
             PROVE  at'[t] # "completed" /\ a = Current(t)' /\ at'[t] \notin Early
  BY DEF Latest
<1>0. process = "up" /\ a \in Attempt /\ (ws[a].dir = "active" => a = Current(t) /\ at[t] \notin Early)
  BY StepUp DEF Latest, Of
<1>1. CASE AcquireSlot(t)
  <2>1. a = Current(t)
    BY <1>0, <1>1, StaysInPlace DEF AcquireSlot
  <2>2. Current(t)' = Current(t) /\ at'[t] = "prepare"
    BY <1>1 DEF AcquireSlot, Current, Go, taskVars, TInv, TypeOK
  <2> QED BY <2>1, <2>2
<1>2. CASE ~AcquireSlot(t)
  <2>1. ws[a].dir = "active" /\ a = Current(t) /\ at[t] \notin Early /\ ws[a].mode = "scoped-dir"
    BY <1>0, <1>2, StaysInPlace DEF InPlace
  <2>2. CASE Prepare(t) \/ PrepareFails(t) \/ Work(t) \/ Complete(t)
    <3>1. tries' = tries /\ at'[t] \in {"working", "failing", "judged"}
      BY <2>2 DEF Prepare, PrepareFails, Work, Complete, Go, taskVars, TInv, TypeOK
    <3> QED BY <2>1, <3>1 DEF Current
  <2>3. CASE Judge(t) \/ Revert(t) \/ Restore(t) \/ RevertLast(t) \/ RevertEarlier(t)
    <3>1. tries' = tries /\ at'[t] \in {"integrate", "failing", "revert", "restore"}
      BY <2>3 DEF Judge, Revert, Restore, RevertLast, RevertEarlier, Go, TInv, TypeOK
    <3> QED BY <2>1, <3>1 DEF Current
  <2>4. CASE Retire(t)
    <3>1. a = <<t, cursor[t]>>
      BY <2>1, <2>4 DEF Retire, Placed, Current
    <3>2. ws' = [ws EXCEPT ![a].dir = "gone"]
      BY <2>1, <2>4, <3>1 DEF Retire
    <3>3. ws'[a].dir = "gone"
      BY <1>0, <3>2 DEF TInv, TypeOK, Workspace
    <3> QED BY <3>3
  <2>5. CASE IntegrateRefused(t) \/ IntegrateInPlace(t) \/ IntegrateWorktree(t) \/ WriteNext(t) \/ WriteFails(t)
    <3>1. tries' = tries /\ at'[t] \in {"failing", "accepted", "write"}
      BY <2>5 DEF IntegrateRefused, IntegrateInPlace, IntegrateWorktree, WriteNext, WriteFails, Go, taskVars, TInv, TypeOK
    <3> QED BY <2>1, <3>1 DEF Current
  <2>6. CASE EndFailed(t)
    <3>1. tries' = tries /\ at'[t] = "failed"
      BY <2>6 DEF EndFailed, Dispose, Go, TInv, TypeOK
    <3> QED BY <2>1, <3>1 DEF Current
  <2>7. CASE EndCompleted(t)
    <3>1. Dispose(t, "completed") /\ at[t] = "accepted"
      BY <2>7 DEF EndCompleted
    <3>2. a \notin unlisted
      BY <1>0, <3>1 DEF Standing, Of
    <3>3. a[1] = t /\ a[2] = tries[t] /\ tries[t] \in Nat
      BY <2>1, PlansOK DEF Current, TInv, TypeOK
    <3>4. a \in Listed(t)
      BY <1>0, <3>2, <3>3 DEF Listed
    <3>5. ws'[a] = NoWorkspace(a)
      BY <1>0, <3>1, <3>4 DEF Dispose
    <3> QED BY <3>5, NothingInPlace
  <2>8. ~(Skip(t) \/ Create(t) \/ ReuseWorktree(t) \/ OpenWorktree(t) \/ OpenFails(t) \/ Identify(t))
    BY <2>1 DEF Skip, Create, ReuseWorktree, OpenWorktree, OpenFails, Identify
  <2> QED BY <1>2, <2>2, <2>3, <2>4, <2>5, <2>6, <2>7, <2>8 DEF Step
<1> QED BY <1>1, <1>2

\* Every step keeps that.
LEMMA NextLatest ==
  ASSUME TInv, TInv', PInv, StandInv, InPlace, InPlace', LatestInv, [Next]_vars
  PROVE  LatestInv'
<1> SUFFICES ASSUME NEW t \in Task PROVE Latest(t)'
  BY DEF LatestInv
<1>0. Latest(t)
  BY DEF LatestInv
<1>1. CASE UNCHANGED vars \/ UserEdit
  BY <1>0, <1>1 DEF vars, UserEdit, treeVars, taskVars, Latest, Current
<1>2. ASSUME NEW s \in Task, Step(s) PROVE Latest(t)'
  <2>1. \A r \in Task : Placed(r) /\ Standing(r)
    BY <1>2, StepUp DEF PInv, StandInv
  <2>2. CASE s = t
    BY <1>0, <1>2, <2>1, <2>2, OwnLatest
  <2>3. CASE s # t
    <3>1. Untouched(t) /\ Apart(t) /\ process = "up"
      BY <1>2, <2>1, <2>3, Frame, ApartFrame, StepUp
    <3>2. Current(t)' = Current(t) /\ at'[t] = at[t] /\ \A a \in Of(t) : ws'[a] = ws[a]
      BY <3>1 DEF Untouched, Apart, Current
    <3> QED BY <1>0, <3>1, <3>2 DEF Latest
  <2> QED BY <2>2, <2>3
<1>3. CASE Crash
  <2>1. process' = "down" /\ (at'[t] = "completed" => at[t] = "completed")
    BY <1>3 DEF Crash
  <2>2. \A a \in Of(t) : ws'[a].dir = "active" => ws[a].dir = "active"
    BY <1>3, NothingInPlace DEF Crash, Of
  <2> QED BY <1>0, <2>1, <2>2 DEF Latest
<1>4. CASE Prune
  BY <1>4, NothingInPlace DEF Prune, Latest, Of
<1> QED BY <1>1, <1>2, <1>3, <1>4 DEF Next

\* A task's own step shows its attempt in place nothing of the others' that is new.
LEMMA OwnTold ==
  ASSUME TInv, InPlace, InPlace', NEW t \in Task, Step(t), Placed(t), Standing(t),
         Alone(t, pinned[t]), Latest(t), Told(t)
  PROVE  Told(t)'
<1>0. process = "up" /\ plan' = plan
  BY StepUp, IntegratedStays DEF Next
<1> SUFFICES ASSUME NEW a \in Of(t), ws'[a].dir = "active", NEW p \in Path, main'[p] \in Task \ {t}
             PROVE  /\ main'[p] = ws'[a].before[p] \/ Foreign(a, p)'
                    /\ p \in Own(t) => main'[p] = ws'[a].before[p]
  BY <1>0 DEF Told, Own
<1>1. a \in Attempt
  BY DEF Of
<1>2. CASE AcquireSlot(t) /\ ws'[a].before = main
  BY <1>2 DEF AcquireSlot
<1>3. CASE ws[a].dir = "active" /\ ws'[a].before = ws[a].before
  <2>1. CASE main'[p] = main[p]
    <3>1. /\ main[p] = ws[a].before[p] \/ Foreign(a, p)
          /\ p \in Own(t) => main[p] = ws[a].before[p]
      BY <1>0, <1>3, <2>1 DEF Told
    <3> QED BY <1>1, <1>3, <2>1, <3>1, StillTold
  <2>2. CASE main'[p] # main[p]
    <3> DEFINE c == <<t, cursor[t]>>
    <3>1. main'[p] = ws[c].before[p] /\ c \in Of(t) /\ ws[c].dir = "active"
      BY <2>2, MainMoves DEF Alone
    <3>2. c = a
      BY <1>0, <1>3, <3>1 DEF Latest
    <3> QED BY <1>3, <3>1, <3>2
  <2> QED BY <2>1, <2>2
<1> QED BY <1>1, <1>2, <1>3, StaysInPlace

\* What another task does to the main tree while an attempt works in place is told: only
\* what is integrated brings another's work there.
LEMMA OthersTell ==
  ASSUME TInv, InPlace, InPlace', OwnersApart, NEW s \in Task, NEW t \in Task \ {s}, Step(s),
         Placed(s), Standing(s), Alone(s, pinned[s]), Told(t)
  PROVE  Told(t)'
<1>0. process = "up" /\ plan' = plan /\ Apart(t)
  BY StepUp, IntegratedStays, ApartFrame DEF Next
<1> SUFFICES ASSUME NEW a \in Of(t), ws'[a].dir = "active", NEW p \in Path, main'[p] \in Task \ {t}
             PROVE  /\ main'[p] = ws'[a].before[p] \/ Foreign(a, p)'
                    /\ p \in Own(t) => main'[p] = ws'[a].before[p]
  BY <1>0 DEF Told, Own
<1>1. a \in Attempt /\ a[1] = t /\ ws'[a] = ws[a] /\ ws[a].dir = "active" /\ a \in slots
  BY <1>0 DEF Of, Apart, InPlace
<1>2. CASE main'[p] = main[p]
  <2>1. /\ main[p] = ws[a].before[p] \/ Foreign(a, p)
        /\ p \in Own(t) => main[p] = ws[a].before[p]
    BY <1>0, <1>1, <1>2 DEF Told
  <2> QED BY <1>1, <1>2, <2>1, StillTold
<1>3. CASE main'[p] # main[p]
  <2>1. ~(Current(s) \in Of(s) /\ ws[Current(s)].dir = "active")
        /\ ~(<<s, cursor[s]>> \in Of(s) /\ ws[<<s, cursor[s]>>].dir = "active")
    BY <1>0, <1>1, OneInPlace
  <2>2. WriteNext(s) /\ p \in DOMAIN pinned[s]
    BY <1>3, <2>1, MainMoves
  <2>3. Foreign(a, p)'
    BY <1>1, <1>3, <2>2, StillTold
  <2>4. p \in Own(s) /\ Own(t) \cap Own(s) = {}
    BY <1>1, <2>2 DEF WriteNext, Standing, OwnersApart
  <2> QED BY <2>3, <2>4
<1> QED BY <1>2, <1>3

\* Every step keeps an attempt in place told.
LEMMA NextTold ==
  ASSUME TInv, PInv, StandInv, InPlace, InPlace', AloneInv, OwnersApart, LatestInv, ToldInv, [Next]_vars
  PROVE  ToldInv'
<1> SUFFICES ASSUME NEW t \in Task PROVE Told(t)'
  BY DEF ToldInv
<1>0. Told(t)
  BY DEF ToldInv
<1>1. CASE UNCHANGED vars
  BY <1>0, <1>1 DEF vars, treeVars, slotVars, Told, Foreign, Files, Own
<1>2. ASSUME NEW s \in Task, Step(s) PROVE Told(t)'
  <2>1. \A r \in Task : Placed(r) /\ Standing(r) /\ Alone(r, pinned[r]) /\ Latest(r)
    BY <1>2, StepUp DEF PInv, StandInv, AloneInv, LatestInv
  <2>2. CASE s = t
    BY <1>0, <1>2, <2>1, <2>2, OwnTold
  <2>3. CASE s # t
    BY <1>0, <1>2, <2>1, <2>3, OthersTell
  <2> QED BY <2>2, <2>3
<1>3. CASE UserEdit
  <2>1. /\ UNCHANGED <<plan, ws, tree, slots, foreign, process>>
        /\ \A p \in Path : main'[p] = main[p] \/ main'[p] = User
    BY <1>3 DEF UserEdit, treeVars, slotVars, taskVars, TInv, TypeOK, Tree
  <2>2. ASSUME NEW a, NEW p, Foreign(a, p), main'[p] = main[p] PROVE Foreign(a, p)'
    BY <2>1, <2>2 DEF Foreign, Files
  <2>3. User \notin Task
    BY PlansOK
  <2> QED BY <1>0, <2>1, <2>2, <2>3 DEF Told, Own
<1>4. CASE Crash
  <2>1. process' = "down" /\ main' = main /\ plan' = plan
    BY <1>4 DEF Crash
  <2>2. \A a \in Of(t) : ws'[a].dir = "active" => ws'[a] = ws[a]
    BY <1>4, NothingInPlace DEF Crash, Of
  <2> QED BY <1>0, <2>1, <2>2 DEF Told, Own
<1>5. CASE Prune
  BY <1>5, NothingInPlace DEF Prune, Told, Of
<1> QED BY <1>1, <1>2, <1>3, <1>4, <1>5 DEF Next

\* A task is seeded with nothing old, and writes nothing old.
LEMMA OwnFresh ==
  ASSUME TInv, NEW t \in Task, Step(t), Placed(t), PinsNew(t), Fresh(t)
  PROVE  Fresh(t)'
<1> SUFFICES ASSUME at'[t] \in {"identify", "prepare", "working"} PROVE Fresh(t)'
  BY DEF Fresh
<1>0. PICK a : a = Current(t) /\ Current(t)' = a /\ t \notin Old
  BY OwnFiles, PlansOK DEF Old
<1> SUFFICES ASSUME NEW p \in Path, Files(a)'[p] \in Old PROVE Files(a)'[p] = ws'[a].before[p]
  BY <1>0 DEF Fresh
<1>1. CASE Files(a)' = ws'[a].before
  BY <1>1
<1>2. CASE /\ at[t] \in {"identify", "prepare", "working"} /\ ws'[a].before = ws[a].before
           /\ \/ Files(a)'[p] \in {Files(a)[p], t}
              \/ p \in DOMAIN pinned[t] /\ Files(a)'[p] = pinned[t][p]
  <2>1. Files(a)'[p] = Files(a)[p]
    BY <1>0, <1>2 DEF PinsNew
  <2> QED BY <1>0, <1>2, <2>1 DEF Fresh
<1> QED BY <1>0, <1>1, <1>2, OwnFiles

\* Others bring nothing old into an attempt: what they integrate is new, and what they
\* restore they restore while nobody else works in place.
LEMMA OthersFresh ==
  ASSUME TInv, NEW s \in Task, NEW t \in Task \ {s}, Step(s), Placed(s), Placed(t), Standing(s), Standing(t),
         InPlace, DisposedAlone, Alone(s, pinned[s]), PinsNew(s), Fresh(t)
  PROVE  Fresh(t)'
<1>1. Untouched(t) /\ Apart(t) /\ process = "up"
  BY Frame, ApartFrame, StepUp
<1>2. SUFFICES ASSUME at[t] \in {"identify", "prepare", "working"} PROVE Fresh(t)'
  BY <1>1 DEF Untouched, Fresh
<1>3. PICK a \in Of(t) : Current(t) = a /\ Current(t)' = a
  BY <1>1, <1>2, CurrentTyped, OfAttempts DEF Current, Untouched
<1>4. ws'[a] = ws[a] /\ ws[a].lease \in Of(t)
  BY <1>1, <1>3 DEF Apart, Placed
<1>5. SUFFICES ASSUME NEW p \in Path, Files(a)'[p] \in Old PROVE Files(a)'[p] = Files(a)[p]
  BY <1>2, <1>3, <1>4 DEF Fresh
<1>6. CASE ws[a].mode = "worktree"
  BY <1>4, <1>6, OthersTold DEF Files
<1>7. CASE ws[a].mode # "worktree"
  <2>1. ws[a].dir = "active" /\ a \in slots /\ a[1] = t
    BY <1>1, <1>2, <1>3, <1>7 DEF Standing, Holding, Placed, InPlace, Of
  <2>2. SUFFICES ASSUME main'[p] # main[p], main'[p] \in Old PROVE FALSE
    BY <1>4, <1>5, <1>7 DEF Files
  <2>3. ~(Current(s) \in Of(s) /\ ws[Current(s)].dir = "active")
        /\ ~(<<s, cursor[s]>> \in Of(s) /\ ws[<<s, cursor[s]>>].dir = "active")
    BY <1>1, <2>1, OneInPlace
  <2>4. ~WriteNext(s) \/ p \notin DOMAIN pinned[s] \/ main'[p] # pinned[s][p]
    BY <2>2 DEF PinsNew
  <2>5. Restore(s) /\ p \in todo[s] /\ <<s, cursor[s]>> \in Of(s) /\ ws[<<s, cursor[s]>>].mode = "scoped-dir"
    BY <2>2, <2>3, <2>4, MainMoves
  <2>6. ws[<<s, cursor[s]>>].dir = "gone"
    BY <2>3, <2>5 DEF Restore, InPlace, Of
  <2> QED BY <2>1, <2>5, <2>6 DEF DisposedAlone, Restore
<1> QED BY <1>6, <1>7

\* Every step keeps what is pinned new.
LEMMA NextFresh ==
  ASSUME TInv, EInv, PInv, StandInv, InPlace, AloneInv, DisposedAlone, FreshInv, [Next]_vars
  PROVE  FreshInv'
<1> SUFFICES ASSUME NEW t \in Task PROVE Fresh(t)' /\ PinsNew(t)'
  BY DEF FreshInv
<1>0. Fresh(t) /\ PinsNew(t)
  BY DEF FreshInv
<1>1. CASE UNCHANGED vars
  BY <1>0, <1>1 DEF vars, treeVars, taskVars, Fresh, PinsNew, Files, Current
<1>2. ASSUME NEW s \in Task, Step(s) PROVE Fresh(t)' /\ PinsNew(t)'
  <2>1. \A r \in Task : Placed(r) /\ Standing(r) /\ Alone(r, pinned[r]) /\ PinsNew(r)
    BY <1>2, StepUp DEF PInv, StandInv, AloneInv, FreshInv
  <2>2. Fresh(t)'
    <3>1. CASE s = t
      BY <1>0, <1>2, <3>1, <2>1, OwnFresh
    <3>2. CASE s # t
      BY <1>0, <1>2, <3>2, <2>1, OthersFresh
    <3> QED BY <3>1, <3>2
  <2>3. CASE Complete(t)
    <3> DEFINE a == Current(t)
    <3>1. pinned'[t] = ChangeSet(a) /\ at[t] = "working"
      BY <2>3 DEF Complete, TInv, TypeOK
    <3>2. \A p \in Path : Files(a)[p] \in Old => Files(a)[p] = ws[a].before[p]
      BY <1>0, <3>1 DEF Fresh
    <3> HIDE DEF a
    <3> QED BY <2>2, <3>1, <3>2 DEF ChangeSet, PinsNew
  <2>4. CASE ~Complete(t)
    <3>1. pinned'[t] = pinned[t]
      BY <1>2, <2>4, PinnedStays
    <3> QED BY <1>0, <2>2, <3>1 DEF PinsNew
  <2> QED BY <2>3, <2>4
<1>3. CASE UserEdit
  <2>1. /\ UNCHANGED <<ws, tree, at, tries, pinned>>
        /\ \A p \in Path : main'[p] = main[p] \/ main'[p] = User
    BY <1>3 DEF UserEdit, treeVars, taskVars, TInv, TypeOK, Tree
  <2>2. \A a, p : p \in Path => (Files(a)'[p] = Files(a)[p] \/ Files(a)'[p] = User)
    BY <2>1 DEF Files
  <2>3. Current(t)' = Current(t) /\ User \notin Old
    BY <2>1, PlansOK DEF Current, Old
  <2> QED BY <1>0, <2>1, <2>2, <2>3 DEF Fresh, PinsNew
<1>4. CASE Crash \/ Prune
  <2>1. at'[t] \in {"completed", "failed", "lost"} /\ pinned' = pinned
    BY <1>4 DEF Crash, Prune, EInv, Ended, taskVars
  <2> QED BY <1>0, <2>1 DEF Fresh, PinsNew
<1> QED BY <1>1, <1>2, <1>3, <1>4 DEF Next

\* What a revert lists of an attempt in place is not another's, and what another writes there
\* since is hasty.
LEMMA NextRestores ==
  ASSUME TInv, TInv', EInv, PInv, InPlace, ToldInv, NEW t \in Task, RestoresOwn(t), [Next]_vars
  PROVE  RestoresOwn(t)'
<1> DEFINE a == <<t, cursor[t]>>
<1>1. CASE UNCHANGED vars
  BY <1>1 DEF vars, treeVars, taskVars, RestoresOwn
<1>2. CASE Revert(t) /\ process = "up"
  <2>1. a \in Of(t) /\ UNCHANGED <<ws, cursor, main>> /\ Files(a) = IF ws[a].mode = "worktree" THEN tree[ws[a].lease] ELSE main
    BY <1>2, CursorTyped, OfAttempts DEF Revert, treeVars, Files
  <2>2. ASSUME ws[a].dir = "active", NEW p \in todo'[t] PROVE main[p] \notin Task \ {t}
    <3>1. ws[a].mode = "scoped-dir" /\ Files(a) = main
      BY <2>1, <2>2 DEF InPlace, Of
    <3>2. p \in DOMAIN ChangeSet(a)
      BY <1>2, <2>2, <3>1 DEF Revert, TInv, TypeOK
    <3>3. p \in Path /\ main[p] # ws[a].before[p] /\ ~Foreign(a, p)
      BY <3>1, <3>2 DEF ChangeSet
    <3> QED BY <1>2, <2>1, <2>2, <3>3 DEF ToldInv, Told
  <2> QED BY <2>1, <2>2 DEF RestoresOwn
<1>3. CASE Restore(t) /\ Watch
  <2>1. PICK q \in todo[t] : todo' = [todo EXCEPT ![t] = @ \ {q}] /\
                             main' = IF Restorable(a, q) THEN [main EXCEPT ![q] = ws[a].before[q]] ELSE main
    BY <1>3 DEF Restore
  <2>2. at'[t] = at[t] /\ ws' = ws /\ cursor' = cursor /\ hasty \subseteq hasty'
    BY <1>3 DEF Restore, treeVars, Watch
  <2>3. \A p \in todo'[t] : p \in todo[t] /\ main'[p] = main[p]
    BY <2>1 DEF TInv, TypeOK, Tree
  <2> QED BY <2>2, <2>3 DEF RestoresOwn
<1>4. ASSUME at'[t] = at[t], todo'[t] = todo[t], cursor'[t] = cursor[t], Watch,
             ws'[a].dir = "active" => ws[a].dir = "active"
      PROVE  RestoresOwn(t)'
  <2> SUFFICES ASSUME at[t] = "restore", ws[a].dir = "active", NEW p \in todo[t] \ hasty'
               PROVE  main'[p] \notin Task \ {t}
    BY <1>4 DEF RestoresOwn
  <2>1. p \in Underway(t) \cap Underway(t)' /\ p \in Path
    BY <1>4 DEF Underway, TInv, TypeOK
  <2>2. main'[p] = main[p] /\ p \notin hasty
    BY <1>4, <2>1 DEF Watch
  <2> QED BY <2>2 DEF RestoresOwn
<1>5. ASSUME NEW s \in Task \ {t}, Step(s) PROVE RestoresOwn(t)'
  <2>1. Untouched(t) /\ Apart(t) /\ Watch
    BY <1>5, StepUp, Frame, ApartFrame DEF PInv, Step
  <2>2. at[t] = "restore" => a \in Of(t)
    BY CursorTyped, OfAttempts
  <2>3. CASE at[t] = "restore"
    BY <1>4, <2>1, <2>2, <2>3 DEF Untouched, Apart
  <2>4. CASE at[t] # "restore"
    BY <2>1, <2>4 DEF Untouched, RestoresOwn
  <2> QED BY <2>3, <2>4
<1>6. CASE Step(t) /\ ~Revert(t) /\ ~Restore(t)
  <2>1. CASE Prepare(t) \/ PrepareFails(t) \/ Work(t) \/ Complete(t) \/ Judge(t) \/ WriteNext(t) \/ WriteFails(t)
    BY <2>1 DEF Prepare, PrepareFails, Work, Complete, Judge, WriteNext, WriteFails, Go, TInv, TypeOK, RestoresOwn
  <2>2. CASE IntegrateRefused(t) \/ IntegrateInPlace(t) \/ IntegrateWorktree(t)
    BY <2>2 DEF IntegrateRefused, IntegrateInPlace, IntegrateWorktree, Go, TInv, TypeOK, RestoresOwn
  <2>3. CASE Retire(t) \/ RevertLast(t) \/ RevertEarlier(t) \/ EndFailed(t) \/ EndCompleted(t)
    BY <2>3 DEF Retire, RevertLast, RevertEarlier, EndFailed, EndCompleted, Dispose, Go, TInv, TypeOK, RestoresOwn
  <2>4. CASE Skip(t) \/ Create(t) \/ OpenFails(t) \/ ReuseWorktree(t) \/ OpenWorktree(t) \/ Identify(t) \/ AcquireSlot(t)
    BY <2>4 DEF Skip, Create, OpenFails, ReuseWorktree, OpenWorktree, Populate, Identify, AcquireSlot, Go, TInv, TypeOK,
       RestoresOwn
  <2> QED BY <1>6, <2>1, <2>2, <2>3, <2>4 DEF Step
<1>7. CASE UserEdit /\ Watch
  BY <1>4, <1>7 DEF UserEdit, treeVars, taskVars
<1>8. CASE Crash \/ Prune
  <2>1. at'[t] # "restore"
    BY <1>8 DEF Crash, Prune, EInv, Ended
  <2> QED BY <2>1 DEF RestoresOwn
<1> QED BY <1>1, <1>2, <1>3, <1>5, <1>6, <1>7, <1>8, StepUp DEF Next, Step

\* Where nobody works in place beside a disposed attempt that is reverted, or beside the
\* integration of a path he owns, every step keeps what completed tasks have.
LEMMA NextC ==
  ASSUME TInv, EInv, PInv, RInv, DisposedAlone, OwnersApart, CInv, [Next]_vars
  PROVE  CInv'
<1>1. TInv' /\ InPlace'
  BY NextTyped, NextR DEF RInv
<1> QED BY <1>1, NextLatest, NextTold, NextFresh, NextRestores DEF RInv, CInv

\* And no step takes a completed task's work back but the revert of a disposed attempt.
LEMMA StepKeeps ==
  ASSUME TInv, EInv, PInv, RInv, CInv, [Next]_vars
  PROVE  [WorkKept]_vars
<1> SUFFICES ASSUME NEW t \in Task, NEW p \in DOMAIN pinned[t] \ (edited' \cup hasty'),
                    at[t] = "completed", main[p] = t, main'[p] \in Old
             PROVE  \E s \in Task : at[s] = "restore" /\ ws[<<s, cursor[s]>>].dir = "gone"
  BY DEF WorkKept, Old
<1>0. p \in Path /\ main'[p] # main[p]
  <2>1. pinned[t] \in Changes
    BY DEF TInv, TypeOK
  <2> QED BY <2>1, ChangesAre, PlansOK DEF Old
<1>1. ~(UNCHANGED vars \/ Crash)
  BY <1>0 DEF vars, Crash
<1>2. ~UserEdit
  <2>1. UserEdit => main'[p] \in {main[p], User}
    BY <1>0 DEF UserEdit, TInv, TypeOK, Tree
  <2> QED BY <1>0, <2>1, PlansOK DEF Old
<1>3. ~Prune
  <2> SUFFICES ASSUME Prune PROVE FALSE
    OBVIOUS
  <2> DEFINE dead == {a \in Attempt : ws[a].dir = "active" /\ p \in Own(a[1])}
  <2>1. main'[p] = IF dead = {} THEN main[p] ELSE ws[CHOOSE a \in dead : TRUE].before[p]
    BY <1>0 DEF Prune
  <2>2. PICK a \in dead : main'[p] = ws[a].before[p]
    BY <1>0, <2>1
  <2>3. a[1] \in Task /\ a \in Of(a[1]) /\ a[1] # t
    BY <2>2 DEF Attempt, Of, CInv, LatestInv, Latest
  <2>4. main[p] = ws[a].before[p]
    BY <1>0, <2>2, <2>3 DEF CInv, ToldInv, Told
  <2> QED BY <1>0, <2>2, <2>4
<1>4. ASSUME NEW s \in Task, Step(s)
      PROVE  \E r \in Task : at[r] = "restore" /\ ws[<<r, cursor[r]>>].dir = "gone"
  <2>1. Placed(s) /\ Standing(s) /\ InPlace /\ Alone(s, pinned[s]) /\ hasty \subseteq hasty'
    BY <1>4, StepUp DEF PInv, RInv, StandInv, AloneInv, Step, Watch
  <2>2. main'[p] # s /\ (p \in DOMAIN pinned[s] => main'[p] # pinned[s][p])
    BY PlansOK DEF Old, CInv, FreshInv, PinsNew
  <2>3. Restore(s) /\ p \in todo[s] /\ <<s, cursor[s]>> \in Of(s) /\ ws[<<s, cursor[s]>>].mode = "scoped-dir"
    BY <1>0, <1>4, <2>1, <2>2, MainMoves
  <2>4. s # t /\ at[s] = "restore"
    BY <2>3 DEF Restore
  <2>5. ws[<<s, cursor[s]>>].dir # "active"
    BY <2>1, <2>3, <2>4 DEF CInv, RestoresOwn
  <2> QED BY <2>1, <2>3, <2>4, <2>5 DEF InPlace, Of
<1> QED BY <1>1, <1>2, <1>3, <1>4 DEF Next

\* The work of a completed task stays in the main tree whoever is reverted beside it, edits
\* of the user and moments half way through a revert excepted: only the revert of an attempt
\* that was disposed before takes it back (isolation.ts, revert; worker-manager.ts, retire).
\* It is so while no such revert runs beside an attempt in place, which would take what it
\* finds restored for its own, and while the owners of a path do not work at once.
THEOREM RevertKeeps == Spec /\ [](DisposedAlone /\ OwnersApart) => RevertKeepsCompletedWork
<1>1. Init => CInv
  <2> SUFFICES ASSUME Init PROVE CInv
    OBVIOUS
  <2>1. /\ \A a \in Attempt : ws[a] = NoWorkspace(a) /\ foreign[a] = Nothing
        /\ \A t \in Task : at[t] = "create" /\ pinned[t] = Nothing
        /\ DOMAIN Nothing = {}
    BY DEF Init, Nothing
  <2>2. \A a \in Attempt : ws[a].dir = "none"
    BY <2>1, NothingInPlace
  <2> QED BY <2>1, <2>2 DEF CInv, LatestInv, Latest, ToldInv, Told, FreshInv, Fresh, PinsNew, RestoresOwn, Of
<1>2. TInv /\ EInv /\ PInv /\ RInv /\ DisposedAlone /\ OwnersApart /\ CInv /\ [Next]_vars => CInv'
  BY NextC
<1>3. TInv /\ EInv /\ PInv /\ RInv /\ CInv /\ [Next]_vars => [WorkKept]_vars
  BY StepKeeps
<1> QED BY <1>1, <1>2, <1>3, Integrity, PTL DEF Spec, RevertKeepsCompletedWork
=============================================================================
