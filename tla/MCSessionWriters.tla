-------------------------- MODULE MCSessionWriters --------------------------
(* Instances of SessionWriters for TLC: openers of one session that append *)
(* to it and may die at any point.                                         *)
EXTENDS SessionWriters, TLC

CONSTANTS w1, w2, w3
=============================================================================
