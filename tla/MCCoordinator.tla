--------------------------- MODULE MCCoordinator ---------------------------
(* A plan of an implementer, an explorer, a reviewer of the first and an    *)
(* integration review of both; the orchestrator may add a task.             *)
EXTENDS Coordinator

CONSTANTS edit, look, check, joint, extra

First      == {edit, look, check, joint}
Order      == [t \in Tasks |->
  CASE t = edit -> 1 [] t = look -> 2 [] t = check -> 3 [] t = joint -> 4 [] OTHER -> 5]
Graph      == [t \in Tasks |->
  CASE t = check -> {edit} [] t = joint -> {edit, look} [] t = extra -> {edit} [] OTHER -> {}]
SamePaths  == {<<edit, extra>>}
TwoProviders == [t \in Tasks |-> IF t = look THEN "q" ELSE "p"]
Kinds      == [t \in Tasks |->
  CASE t = check -> "config" [] t = joint -> "integration" [] OTHER -> "work"]
Owners     == {edit, extra}
Risks      == [t \in Tasks |-> IF t = look THEN "trivial" ELSE "standard"]
Whatever   == {"completed", "partial", "needs_context", "stale", "blocked", "failed"}
Setup(mode, adds, troubled, unrunnable, edits, looks) ==
  [mode |-> mode, adds |-> adds, troubled |-> troubled, unrunnable |-> unrunnable,
   reports |-> [t \in Tasks |-> CASE t = edit -> edits [] t = look -> looks [] OTHER -> {"completed"}]]

\* Something goes wrong with one task, or two tasks wait for the orchestrator.
Serial == {Setup("auto", {extra}, {edit}, {}, {"completed"}, {"completed"}),
           Setup("auto", {}, {edit}, {}, {"partial"}, {"completed"}),
           Setup("ask", {extra}, {edit}, {}, {"stale", "failed"}, {"completed"}),
           Setup("auto", {extra}, {look, joint}, {look}, {"completed"}, {"completed", "failed", "blocked"}),
           Setup("ask", {extra}, {}, {}, {"needs_context"}, {"partial"})}
Both   == {Setup("auto", {extra}, {edit, look}, {edit, look}, {"completed"}, {"completed"})}
=============================================================================
