----------------------------- MODULE MCRecovery -----------------------------
(* A small instance of Recovery: two calls and one entity of every other   *)
(* machine, of which any few are in the log.                               *)
EXTENDS Recovery

CONSTANTS c1, c2, a1, s1, t1, r1, p1, k1

SmallIds == [run |-> {r1}, plan |-> {p1}, task |-> {k1}, attempt |-> {a1},
             toolCall |-> {c1, c2}, approval |-> {a1}, step |-> {s1}, turn |-> {t1}]
=============================================================================
