---------------------------- MODULE MCSessionLog ----------------------------
(* Instances of SessionLog for TLC: a fork of a session (its own segments  *)
(* start at seq 3), lines of one and two bytes, segments of four.          *)
EXTENDS SessionLog
=============================================================================
