---------------------------- MODULE MCIsolation ----------------------------
(* Two tasks over a file of the base commit and a new one: at once, each    *)
(* with a file of its own; one after the other over the same files.         *)
EXTENDS Isolation

CONSTANTS one, two, old, new

Each(x, y) == [t \in Task |-> IF t = one THEN x ELSE y]
AtOnce(wants, attempts, faults, edits) ==
  [owned |-> Each({old}, {new}), reads |-> Each({}, {}), wants |-> wants, after |-> Each({}, {}),
   attempts |-> attempts, faults |-> faults, edits |-> edits]
InTurn(wants, attempts, faults, edits) ==
  [AtOnce(wants, attempts, faults, edits) EXCEPT !.owned = Each({old, new}, {old, new}), !.after = Each({}, {one})]

Trees  == Each("worktree", "worktree")
Mixed  == Each("scoped-dir", "worktree")
Places == Each("scoped-dir", "scoped-dir")
Once   == Each(1, 1)
Again  == Each(2, 1)

\* What another task integrates or the user edits while an attempt runs in place; what it
\* writes outside its paths; attempts that go on in the same worktree; a worktree that
\* cannot be made or reset; a half-done integration; a dispatch that fails; a crash.
AnyPlan ==
  {AtOnce(Mixed, Again, {}, {new}),
   AtOnce(Mixed, Again, {"stray"}, {}),
   AtOnce(Mixed, Once, {"late", "write"}, {old}),
   AtOnce(Mixed, Once, {"prepare", "crash", "stray"}, {new}),
   AtOnce(Trees, Again, {"open"}, {}),
   [AtOnce(Places, Once, {"prepare", "stray"}, {}) EXCEPT !.reads = Each({new}, {})],
   InTurn(Trees, Once, {"write", "late"}, {old, new}),
   InTurn(Trees, Again, {"open"}, {new}),
   InTurn(Each("worktree", "scoped-dir"), Once, {"crash", "write"}, {old})}

\* The two disagreements: a task that works in place and is tried again, or cancelled,
\* beside one that integrates; a dispatch that fails with another task waiting.
Retiring == {AtOnce(Mixed, Again, {}, {})}
Leaking  == {AtOnce(Places, Once, {"prepare"}, {})}
=============================================================================
