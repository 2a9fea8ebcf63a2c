----------------------------- MODULE DurableLog -----------------------------
(***************************************************************************)
(* What an event store promises, whatever files it keeps: a log that grows *)
(* at its end, and a prefix of it that append() has acknowledged and that  *)
(* no fault takes back (contracts/store.ts, EventStore.append).            *)
(***************************************************************************)
EXTENDS Naturals, Sequences

CONSTANT Events

VARIABLES
  log,      \* the events a reader would get
  promised  \* length of the prefix that was acknowledged

Init == log = <<>> /\ promised = 0

\* An event reaches the log before anybody is told so.
Write(e) == log' = Append(log, e) /\ UNCHANGED promised

\* append() resolves: the log up to this event is there to stay.
Promise == promised' \in promised + 1 .. Len(log) /\ UNCHANGED log

\* A fault takes back a suffix that nobody was promised.
Lose ==
  /\ \E n \in promised .. Len(log) : log' = SubSeq(log, 1, n)
  /\ UNCHANGED promised

Next == (\E e \in Events : Write(e)) \/ Promise \/ Lose

Spec == Init /\ [][Next]_<<log, promised>>
=============================================================================
