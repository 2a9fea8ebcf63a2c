-------------------------- MODULE SessionStateProofs --------------------------
(***************************************************************************)
(* What the proofs about a session's log rest on: what an accepted event   *)
(* does to a projection, and what a recovery closes.  A closing event      *)
(* belongs to one entity, is accepted in the state that entity is in, and  *)
(* takes it to a state that needs no closing.                              *)
(***************************************************************************)
EXTENDS SessionState, TLAPS

\* The entity has to be closed when it is in state s, and this is how.
ToClose(m, s) ==
  CASE m = "toolCall" -> s \in {"proposed", "executing", "awaiting_approval"}
    [] m = "approval" -> s = "pending"
    [] m = "step"     -> s = "open"
    [] m = "turn"     -> s = "open"
    [] m = "plan"     -> FALSE
    [] OTHER          -> s # "interrupted" /\ Legal(m, s, "interrupted")

ClosingOf(m, id, s) ==
  CASE m = "toolCall" -> IF s = "proposed" THEN ResultRecorded(id, "cancelled") ELSE ToolInterrupted(id)
    [] m = "approval" -> ApprovalDecided(id, "cancelled")
    [] m = "step"     -> StepEnded(id, "aborted")
    [] m = "turn"     -> TurnEnded(id)
    [] m = "attempt"  -> AttemptChanged(id, s, "interrupted")
    [] m = "task"     -> TaskChanged(id, s, "interrupted")
    [] OTHER          -> RunChanged(id, s, "interrupted")

LEMMA MachineNames ==
  Machines = {"run", "plan", "task", "attempt", "toolCall", "approval", "step", "turn"}
BY DEF Machines, TRANSITIONS

(* The transitions recovery relies on.                                     *)
LEMMA ClosingTransitions ==
  /\ Legal("toolCall", "proposed", "cancelled")
  /\ Legal("toolCall", "executing", "interrupted")
  /\ Legal("toolCall", "awaiting_approval", "interrupted")
  /\ Legal("approval", "pending", "cancelled")
  /\ Legal("step", "open", "aborted")
  /\ Legal("turn", "open", "closed")
<1>1. Legal("toolCall", "proposed", "cancelled") BY DEF Legal, States, TRANSITIONS
<1>2. Legal("toolCall", "executing", "interrupted") BY DEF Legal, States, TRANSITIONS
<1>3. Legal("toolCall", "awaiting_approval", "interrupted") BY DEF Legal, States, TRANSITIONS
<1>4. Legal("approval", "pending", "cancelled") BY DEF Legal, States, TRANSITIONS
<1>5. Legal("step", "open", "aborted") BY DEF Legal, States, TRANSITIONS
<1>6. Legal("turn", "open", "closed") BY DEF Legal, States, TRANSITIONS
<1> QED BY <1>1, <1>2, <1>3, <1>4, <1>5, <1>6

LEMMA Interrupts ==
  ASSUME NEW m \in Machines, NEW s, Legal(m, s, "interrupted")
  PROVE  "interrupted" \in States(m) /\ s \in States(m)
BY DEF Legal

(* Every entity that is to be closed has one closing event.                *)
LEMMA ClosingFields ==
  ASSUME NEW m \in Machines, NEW id, NEW s, ToClose(m, s)
  PROVE  LET e == ClosingOf(m, id, s)
         IN /\ e.machine = m /\ e.id = id
            /\ e.op \in {"advance", "advanceTo", "decide"}
            /\ e.op = "advance" => e.from = s
            /\ Legal(m, s, e.to) /\ e.to \in States(m)
            /\ ~ToClose(m, e.to)
<1> DEFINE e == ClosingOf(m, id, s)
<1>0. m # "plan" BY DEF ToClose
<1>1. CASE m = "toolCall"
  <2>1. CASE s = "proposed"
    <3>1. e = ResultRecorded(id, "cancelled") BY <1>1, <2>1 DEF ClosingOf
    <3> QED BY <3>1, <1>1, <2>1, ClosingTransitions
            DEF ResultRecorded, AdvanceTo, Event, ToClose, Legal
  <2>2. CASE s \in {"executing", "awaiting_approval"}
    <3>1. e = ToolInterrupted(id) BY <1>1, <2>2 DEF ClosingOf
    <3> QED BY <3>1, <1>1, <2>2, ClosingTransitions
            DEF ToolInterrupted, AdvanceTo, Event, ToClose, Legal
  <2> QED BY <1>1, <2>1, <2>2 DEF ToClose
<1>2. CASE m = "approval"
  <2>1. e = ApprovalDecided(id, "cancelled") BY <1>2 DEF ClosingOf
  <2> QED BY <2>1, <1>2, ClosingTransitions DEF ApprovalDecided, OutcomeState, Event, ToClose, Legal
<1>3. CASE m = "step"
  <2>1. e = StepEnded(id, "aborted") BY <1>3 DEF ClosingOf
  <2> QED BY <2>1, <1>3, ClosingTransitions DEF StepEnded, AdvanceTo, Event, ToClose, Legal
<1>4. CASE m = "turn"
  <2>1. e = TurnEnded(id) BY <1>4 DEF ClosingOf
  <2> QED BY <2>1, <1>4, ClosingTransitions DEF TurnEnded, AdvanceTo, Event, ToClose, Legal
<1>5. CASE m \in {"attempt", "task", "run"}
  <2>1. s # "interrupted" /\ Legal(m, s, "interrupted") BY <1>5 DEF ToClose
  <2>2. e.machine = m /\ e.id = id /\ e.op = "advance" /\ e.from = s /\ e.to = "interrupted"
    BY <1>5 DEF ClosingOf, AttemptChanged, TaskChanged, RunChanged, Advance, Event
  <2> QED BY <1>5, <2>1, <2>2, Interrupts DEF ToClose
<1> QED BY <1>0, <1>1, <1>2, <1>3, <1>4, <1>5, MachineNames

(* planRecovery, entity by entity.                                         *)
LEMMA ClosingsByEntity ==
  ASSUME NEW p, NEW e
  PROVE  e \in Closings(p) <=>
           \E m \in Machines : \E id \in Ids[m] :
             ToClose(m, p.state[m][id]) /\ e = ClosingOf(m, id, p.state[m][id])
<1> DEFINE Of(m) == \E id \in Ids[m] : ToClose(m, p.state[m][id]) /\ e = ClosingOf(m, id, p.state[m][id])
<1>1. e \in CallClosings(p) <=> Of("toolCall")
  BY DEF CallClosings, InState, ToClose, ClosingOf
<1>2. e \in { ApprovalDecided(a, "cancelled") : a \in InState(p, "approval", {"pending"}) } <=> Of("approval")
  BY DEF InState, ToClose, ClosingOf
<1>3. e \in { StepEnded(s, "aborted") : s \in InState(p, "step", {"open"}) } <=> Of("step")
  BY DEF InState, ToClose, ClosingOf
<1>4. e \in { TurnEnded(t) : t \in InState(p, "turn", {"open"}) } <=> Of("turn")
  BY DEF InState, ToClose, ClosingOf
<1>5. e \in { AttemptChanged(a, p.state["attempt"][a], "interrupted") : a \in Interruptible(p, "attempt") } <=> Of("attempt")
  BY DEF Interruptible, ToClose, ClosingOf
<1>6. e \in { TaskChanged(t, p.state["task"][t], "interrupted") : t \in Interruptible(p, "task") } <=> Of("task")
  BY DEF Interruptible, ToClose, ClosingOf
<1>7. e \in { RunChanged(r, p.state["run"][r], "interrupted") : r \in Interruptible(p, "run") } <=> Of("run")
  BY DEF Interruptible, ToClose, ClosingOf
<1>8. ~Of("plan") BY DEF ToClose
<1>9. (\E m \in Machines : Of(m)) <=>
        Of("toolCall") \/ Of("approval") \/ Of("step") \/ Of("turn") \/ Of("attempt") \/ Of("task") \/ Of("run")
  <2> HIDE DEF Of
  <2> QED BY <1>8, MachineNames
<1> HIDE DEF Of
<1>10. e \in Closings(p) <=> \E m \in Machines : Of(m)
  BY <1>1, <1>2, <1>3, <1>4, <1>5, <1>6, <1>7, <1>9 DEF Closings
<1> QED BY <1>10 DEF Of

----------------------------------------------------------------------------
(* What an accepted event does to a projection.                            *)

ProjectionOK(p) ==
  /\ p = [status |-> p.status, state |-> p.state]
  /\ p.status \in {"ok", "unsupported", "corrupt"}
  /\ p.state = [m \in Machines |-> p.state[m]]
  /\ \A m \in Machines : p.state[m] \in [Ids[m] -> States(m) \cup {Absent}]

LEMMA ApplyMoves ==
  ASSUME NEW p, ProjectionOK(p), p.status = "ok",
         NEW e, e.machine \in Machines, e.id \in Ids[e.machine], e.to \in States(e.machine),
         e.op \notin {"note", "require"}, Accepted(p, e)
  PROVE  LET q == Apply(p, e)
         IN /\ ProjectionOK(q) /\ q.status = "ok"
            /\ q.state[e.machine][e.id] = e.to
            /\ \A m \in Machines : \A id \in Ids[m] :
                 m # e.machine \/ id # e.id => q.state[m][id] = p.state[m][id]
<1> DEFINE q == Apply(p, e)
<1>1. q = [p EXCEPT !.state[e.machine][e.id] = e.to] BY DEF Apply, Halted
<1>2. q = [status |-> p.status, state |-> [p.state EXCEPT ![e.machine] = [p.state[e.machine] EXCEPT ![e.id] = e.to]]]
  BY <1>1 DEF ProjectionOK
<1>3. q.state = [m \in Machines |->
                   IF m = e.machine THEN [p.state[m] EXCEPT ![e.id] = e.to] ELSE p.state[m]]
  BY <1>2 DEF ProjectionOK
<1>4. [p.state[e.machine] EXCEPT ![e.id] = e.to] \in [Ids[e.machine] -> States(e.machine) \cup {Absent}]
  BY DEF ProjectionOK
<1>5. ProjectionOK(q) BY <1>2, <1>3, <1>4 DEF ProjectionOK
<1>6. q.state[e.machine][e.id] = e.to BY <1>3 DEF ProjectionOK
<1>7. ASSUME NEW m \in Machines, NEW id \in Ids[m], m # e.machine \/ id # e.id
      PROVE  q.state[m][id] = p.state[m][id]
  BY <1>3, <1>7 DEF ProjectionOK
<1> QED BY <1>2, <1>5, <1>6, <1>7

(* A closing is accepted, and appending it closes its entity and no other. *)
LEMMA ClosingCloses ==
  ASSUME NEW p, ProjectionOK(p), p.status = "ok", NEW e \in Closings(p)
  PROVE  /\ Accepted(p, e)
         /\ e.machine \in Machines /\ e.id \in Ids[e.machine] /\ e.to \in States(e.machine)
         /\ e.op \notin {"note", "require"}
         /\ Legal(e.machine, p.state[e.machine][e.id], e.to)
         /\ Closings(Apply(p, e)) = Closings(p) \ {e}
<1>0. PICK m \in Machines :
        \E id \in Ids[m] : ToClose(m, p.state[m][id]) /\ e = ClosingOf(m, id, p.state[m][id])
  BY ClosingsByEntity
<1>1. PICK id \in Ids[m] : ToClose(m, p.state[m][id]) /\ e = ClosingOf(m, id, p.state[m][id])
  BY <1>0
<1> DEFINE s == p.state[m][id]
           q == Apply(p, e)
<1>2. /\ e.machine = m /\ e.id = id
      /\ e.op \in {"advance", "advanceTo", "decide"}
      /\ e.op = "advance" => e.from = s
      /\ Legal(m, s, e.to) /\ e.to \in States(m) /\ ~ToClose(m, e.to)
  <2> HIDE DEF s
  <2> QED BY <1>1, ClosingFields DEF s
<1>3. Accepted(p, e) BY <1>2 DEF Accepted
<1>4. e.op \notin {"note", "require"} BY <1>2
<1>5. /\ q.state[m][id] = e.to
      /\ \A n \in Machines : \A i \in Ids[n] : n # m \/ i # id => q.state[n][i] = p.state[n][i]
  BY <1>2, <1>3, <1>4, ApplyMoves
<1>6. ASSUME NEW f PROVE f \in Closings(q) <=> f \in Closings(p) /\ f # e
  <2>1. ASSUME f \in Closings(q) PROVE f \in Closings(p) /\ f # e
    <3>0. PICK n \in Machines :
            \E i \in Ids[n] : ToClose(n, q.state[n][i]) /\ f = ClosingOf(n, i, q.state[n][i])
      BY <2>1, ClosingsByEntity
    <3>1. PICK i \in Ids[n] : ToClose(n, q.state[n][i]) /\ f = ClosingOf(n, i, q.state[n][i])
      BY <3>0
    <3>2. n # m \/ i # id BY <3>1, <1>2, <1>5
    <3>3. q.state[n][i] = p.state[n][i] BY <3>2, <1>5
    <3>4. f \in Closings(p) BY <3>1, <3>3, ClosingsByEntity
    <3>5. f.machine = n /\ f.id = i BY <3>1, ClosingFields
    <3> QED BY <3>2, <3>4, <3>5, <1>2
  <2>2. ASSUME f \in Closings(p), f # e PROVE f \in Closings(q)
    <3>0. PICK n \in Machines :
            \E i \in Ids[n] : ToClose(n, p.state[n][i]) /\ f = ClosingOf(n, i, p.state[n][i])
      BY <2>2, ClosingsByEntity
    <3>1. PICK i \in Ids[n] : ToClose(n, p.state[n][i]) /\ f = ClosingOf(n, i, p.state[n][i])
      BY <3>0
    <3>2. n # m \/ i # id BY <3>1, <2>2, <1>1
    <3>3. q.state[n][i] = p.state[n][i] BY <3>2, <1>5
    <3> QED BY <3>1, <3>3, ClosingsByEntity
  <2> QED BY <2>1, <2>2
<1> QED BY <1>2, <1>3, <1>4, <1>6

LEMMA EmptyOK == ProjectionOK(Empty) /\ Empty.status = "ok"
BY DEF Empty, ProjectionOK
=============================================================================
