----------------------------- MODULE MCTurnLoop -----------------------------
(* Small instances of TurnLoop: two calls, one approval each, a few steps. *)
EXTENDS TurnLoop

None == {}
TurnIds == [run |-> None, plan |-> None, task |-> None, attempt |-> None,
            toolCall |-> 1..MaxCalls, approval |-> 1..MaxCalls,
            step |-> 1..MaxTurns * MaxSteps, turn |-> 1..MaxTurns]
=============================================================================
