--------------------------- MODULE MCSessionLease ---------------------------
(* Instances of SessionLease for TLC: three openers of one session.        *)
EXTENDS SessionLease, TLC

CONSTANTS w1, w2, w3

\* Writers are interchangeable when all of them may crash (or none may).
WriterSymmetry == Permutations({w1, w2, w3})
=============================================================================
