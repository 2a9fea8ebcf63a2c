--------------------------- MODULE RecoveryProofs ---------------------------
(***************************************************************************)
(* Recovery keeps every session readable and leaves nothing open, for any  *)
(* number of entities, writers' histories, crashes and interrupted         *)
(* recoveries.  The argument: a closing event belongs to one entity, is    *)
(* accepted in the state that entity is in, and takes it to a state that   *)
(* needs no closing; so appending one removes exactly itself from what is  *)
(* to be closed, and the plan stays what a new reading would plan.         *)
(***************************************************************************)
EXTENDS Recovery, SessionStateProofs

----------------------------------------------------------------------------
(* The invariant: the plan is at every moment what a new reading of the    *)
(* log would plan.                                                         *)

PlanCurrent == mode = "closing" => proj.status = "ok" /\ closings = Closings(proj)

Inv ==
  /\ ProjectionOK(proj)
  /\ proj.status # "corrupt"
  /\ mode \in Modes
  /\ crashes \in 0..MaxCrashes
  /\ mode # "closing" => closings = {}
  /\ PlanCurrent
  /\ mode = "recovered" => proj.status = "ok" /\ Closings(proj) = {}

\* What a writer appends is about one entity of the log.
LEMMA WrittenFields ==
  ASSUME NEW e \in CreationEvents \cup ChangeEvents
  PROVE  /\ e.machine \in Machines /\ e.id \in Ids[e.machine] /\ e.to \in States(e.machine)
         /\ e.op \notin {"note", "require"}
         /\ e.op = "create" \/ e.op = "advance" \/ e.machine = "plan"
<1>1. CASE e \in ChangeEvents
  <2>1. PICK m \in Machines :
          e \in { Advance("state_changed", m, id, proj.state[m][id], to) : id \in Ids[m], to \in States(m) }
    BY <1>1 DEF ChangeEvents
  <2>2. PICK id \in Ids[m], to \in States(m) : e = Advance("state_changed", m, id, proj.state[m][id], to)
    BY <2>1
  <2> QED BY <2>2 DEF Advance, Event
<1>2. CASE e \in CreationEvents
  <2>1. /\ "created" \in States("run") /\ "proposed" \in States("plan") /\ "draft" \in States("task")
        /\ "running" \in States("attempt") /\ "proposed" \in States("toolCall")
        /\ "pending" \in States("approval") /\ "open" \in States("turn") /\ "open" \in States("step")
    BY DEF States, TRANSITIONS
  <2>2. CASE \E r \in Ids["run"] : e = RunCreated(r)
    BY <2>1, <2>2, MachineNames DEF RunCreated, Create, Event
  <2>3. CASE \E p \in Ids["plan"] : e = PlanProposed(p)
    BY <2>1, <2>3, MachineNames DEF PlanProposed, Event
  <2>4. CASE \E t \in Ids["task"] : e = TaskCreated(t)
    BY <2>1, <2>4, MachineNames DEF TaskCreated, Create, Event
  <2>5. CASE \E a \in Ids["attempt"] : e = AttemptStarted(a)
    BY <2>1, <2>5, MachineNames DEF AttemptStarted, Create, Event
  <2>6. CASE \E c \in Ids["toolCall"] : e = CallProposed(c)
    BY <2>1, <2>6, MachineNames DEF CallProposed, Create, Event
  <2>7. CASE \E a \in Ids["approval"] : e = ApprovalRequested(a)
    BY <2>1, <2>7, MachineNames DEF ApprovalRequested, Create, Event
  <2>8. CASE \E t \in Ids["turn"] : e = TurnStarted(t)
    BY <2>1, <2>8, MachineNames DEF TurnStarted, Create, Event
  <2>9. CASE \E s \in Ids["step"] : \E t \in Ids["turn"] : e = StepStarted(s, t)
    BY <2>1, <2>9, MachineNames DEF StepStarted, Event
  <2> QED BY <1>2, <2>2, <2>3, <2>4, <2>5, <2>6, <2>7, <2>8, <2>9 DEF CreationEvents
<1> QED BY <1>1, <1>2

LEMMA InitInv == Init => Inv
BY EmptyOK, BoundAssumption DEF Init, Inv, Modes, PlanCurrent

\* Marking the log as not understood leaves the entities alone.
LEMMA UnsupportedOK ==
  ASSUME NEW p, ProjectionOK(p), p.status # "corrupt"
  PROVE  ProjectionOK(ApplyUnsupported(p)) /\ ApplyUnsupported(p).status # "corrupt"
         /\ ApplyUnsupported(p).state = p.state
<1>1. CASE Halted(p) BY <1>1 DEF ApplyUnsupported
<1>2. CASE ~Halted(p)
  <2>1. ApplyUnsupported(p) = [p EXCEPT !.status = "unsupported"] BY <1>2 DEF ApplyUnsupported
  <2>2. ApplyUnsupported(p) = [status |-> "unsupported", state |-> p.state] BY <2>1 DEF ProjectionOK
  <2> QED BY <2>2 DEF ProjectionOK
<1> QED BY <1>1, <1>2

LEMMA Inductive == Inv /\ [Next]_vars => Inv'
<1> SUFFICES ASSUME Inv, [Next]_vars PROVE Inv' OBVIOUS
<1>1. CASE Write
  <2>1. PICK e \in CreationEvents \cup ChangeEvents : Accepted(proj, e) /\ proj' = Apply(proj, e)
    BY <1>1 DEF Write
  <2>2. CASE proj.status = "ok"
    <3>1. ProjectionOK(proj') /\ proj'.status = "ok"
      BY <2>1, <2>2, WrittenFields, ApplyMoves DEF Inv
    <3> QED BY <3>1, <1>1 DEF Write, Inv, PlanCurrent
  <2>3. CASE proj.status # "ok"
    <3>1. proj' = proj BY <2>1, <2>3 DEF Apply, Halted
    <3> QED BY <3>1, <1>1 DEF Write, Inv, PlanCurrent
  <2> QED BY <2>2, <2>3
<1>2. CASE WriteNewer
  BY <1>2, UnsupportedOK DEF WriteNewer, Inv, PlanCurrent
<1>3. CASE Resume
  <2>1. proj' = proj BY <1>3 DEF Resume, Apply, Note, Event
  <2> QED BY <2>1, <1>3 DEF Resume, Inv, PlanCurrent, Modes, Halted
<1>4. CASE \E e \in closings : Close(e)
  <2>1. PICK e \in closings : Close(e) BY <1>4
  <2>2. /\ mode = "closing" /\ mode' = "closing" /\ proj' = Apply(proj, e)
        /\ closings' = closings \ {e} /\ crashes' = crashes
    BY <2>1 DEF Close
  <2>3. proj.status = "ok" /\ closings = Closings(proj) /\ e \in Closings(proj)
    BY <2>1, <2>2 DEF Inv, PlanCurrent
  <2>4. ProjectionOK(proj') /\ proj'.status = "ok" /\ closings' = Closings(proj')
    <3>1. /\ Accepted(proj, e)
          /\ e.machine \in Machines /\ e.id \in Ids[e.machine] /\ e.to \in States(e.machine)
          /\ e.op \notin {"note", "require"}
          /\ Closings(Apply(proj, e)) = Closings(proj) \ {e}
      BY <2>3, ClosingCloses DEF Inv
    <3>2. ProjectionOK(Apply(proj, e)) /\ Apply(proj, e).status = "ok"
      BY <3>1, <2>3, ApplyMoves DEF Inv
    <3>3. closings' = Closings(proj') BY <3>1, <2>2, <2>3
    <3> QED BY <3>2, <3>3, <2>2
  <2> QED BY <2>2, <2>4 DEF Inv, PlanCurrent, Modes
<1>5. CASE Recovered
  BY <1>5 DEF Recovered, Inv, PlanCurrent, Modes
<1>6. CASE GoOn
  BY <1>6 DEF GoOn, Inv, PlanCurrent, Modes
<1>7. CASE Crash
  BY <1>7, BoundAssumption DEF Crash, Inv, PlanCurrent, Modes
<1>8. CASE UNCHANGED vars
  BY <1>8 DEF vars, Inv, PlanCurrent
<1> QED BY <1>1, <1>2, <1>3, <1>4, <1>5, <1>6, <1>7, <1>8 DEF Next, RecoveryStep

LEMMA Invariant == Spec => []Inv
BY InitInv, Inductive, PTL DEF Spec
----------------------------------------------------------------------------
(* The theorems.                                                           *)

(* Every variable keeps its type: recovery closes entities the log knows.  *)
THEOREM TypeCorrect == Spec => []TypeOK
<1>1. Inv => TypeOK
  <2> SUFFICES ASSUME Inv PROVE TypeOK OBVIOUS
  <2>1. ASSUME NEW e \in closings PROVE e.machine \in Machines /\ e.id \in Ids[e.machine]
    <3>1. mode = "closing" BY <2>1 DEF Inv
    <3>2. proj.status = "ok" /\ e \in Closings(proj) /\ ProjectionOK(proj)
      BY <3>1, <2>1 DEF Inv, PlanCurrent
    <3> QED BY <3>2, ClosingCloses
  <2> QED BY <2>1 DEF Inv, ProjectionOK, TypeOK
<1> QED BY Invariant, <1>1, PTL

(* No recovery, however often it is cut short and repeated, makes the log  *)
(* one that the projection rejects.                                        *)
THEOREM RecoveryNeverCorrupts == Spec => []NeverCorrupt
<1>1. Inv => NeverCorrupt BY DEF Inv, NeverCorrupt
<1> QED BY Invariant, <1>1, PTL

(* A corrupt log, or one of a newer version, is left alone.                *)
THEOREM OnlyReadableIsRecovered == Spec => []OnlyReadable
<1>1. Inv => OnlyReadable BY DEF Inv, PlanCurrent, OnlyReadable
<1> QED BY Invariant, <1>1, PTL

(* When recoverSession returns, a second one would find nothing to close.  *)
THEOREM RecoveryIsIdempotent == Spec => []Idempotent
<1>1. Inv => Idempotent BY DEF Inv, Idempotent
<1> QED BY Invariant, <1>1, PTL

\* Whatever a live writer leaves open is in the plan.
LEMMA OpenIsPlanned ==
  ASSUME NEW p, Closings(p) = {}
  PROVE  Open(p) = {}
<1> SUFFICES ASSUME NEW x \in Open(p) PROVE FALSE OBVIOUS
<1>1. DOMAIN OpenStates = {"toolCall", "approval", "step", "turn"} BY DEF OpenStates
<1>2. x \in UNION { {m} \X Ids[m] : m \in DOMAIN OpenStates } /\ p.state[x[1]][x[2]] \in OpenStates[x[1]]
  BY DEF Open
<1>3. PICK m \in DOMAIN OpenStates : x \in {m} \X Ids[m] BY <1>2
<1>4. x[1] = m /\ x[2] \in Ids[m] BY <1>3
<1>5. m \in Machines BY <1>1, MachineNames
<1>6. p.state[m][x[2]] \in OpenStates[m] BY <1>2, <1>4
<1>7. ToClose(m, p.state[m][x[2]]) BY <1>1, <1>6 DEF OpenStates, ToClose
<1>8. ClosingOf(m, x[2], p.state[m][x[2]]) \in Closings(p) BY <1>4, <1>5, <1>7, ClosingsByEntity
<1> QED BY <1>8

(* When recoverSession returns, every call, approval, step and turn of the *)
(* log is paired with its end.                                             *)
THEOREM RecoveryClosesEverything == Spec => []NothingOpen
<1>1. Inv => NothingOpen BY OpenIsPlanned DEF Inv, NothingOpen
<1> QED BY Invariant, <1>1, PTL

\* One step of the log's writers or of recovery, seen from the entities.
LEMMA StepMoves ==
  ASSUME Inv, Next
  PROVE  \/ proj'.state = proj.state
         \/ /\ mode = "live"
            /\ \E e \in CreationEvents \cup ChangeEvents :
                 proj.status = "ok" /\ Accepted(proj, e) /\ proj' = Apply(proj, e)
         \/ /\ mode = "closing"
            /\ \E e \in Closings(proj) :
                 proj.status = "ok" /\ Accepted(proj, e) /\ proj' = Apply(proj, e)
<1>1. CASE Write BY <1>1 DEF Write, Apply, Halted
<1>2. CASE WriteNewer BY <1>2, UnsupportedOK DEF WriteNewer, Inv
<1>3. CASE Resume BY <1>3 DEF Resume, Apply, Note, Event
<1>4. CASE \E e \in closings : Close(e)
  BY <1>4, ClosingCloses DEF Close, Inv, PlanCurrent
<1>5. CASE Recovered BY <1>5 DEF Recovered
<1>6. CASE GoOn BY <1>6 DEF GoOn
<1>7. CASE Crash BY <1>7 DEF Crash
<1> QED BY <1>1, <1>2, <1>3, <1>4, <1>5, <1>6, <1>7 DEF Next, RecoveryStep

(* Recovery never invents an outcome for a tool call.                      *)
THEOREM OutcomesStayUnknown == Spec => OutcomeUnknown
<1> DEFINE Kept ==
      mode = "closing" =>
        \A c \in Ids["toolCall"] :
          proj'.state["toolCall"][c] # proj.state["toolCall"][c] =>
            proj'.state["toolCall"][c] =
              IF proj.state["toolCall"][c] = "proposed" THEN "cancelled" ELSE "interrupted"
<1>1. Inv /\ [Next]_vars => [Kept]_vars
  <2> SUFFICES ASSUME Inv, Next, mode = "closing",
                      NEW c \in Ids["toolCall"],
                      proj'.state["toolCall"][c] # proj.state["toolCall"][c]
               PROVE  proj'.state["toolCall"][c] =
                        IF proj.state["toolCall"][c] = "proposed" THEN "cancelled" ELSE "interrupted"
    OBVIOUS
  <2>1. PICK e \in Closings(proj) :
          proj.status = "ok" /\ Accepted(proj, e) /\ proj' = Apply(proj, e)
    BY StepMoves
  <2>2. /\ e.machine \in Machines /\ e.id \in Ids[e.machine] /\ e.to \in States(e.machine)
        /\ e.op \notin {"note", "require"} /\ ProjectionOK(proj)
    BY <2>1, ClosingCloses DEF Inv
  <2>3. /\ proj'.state[e.machine][e.id] = e.to
        /\ \A m \in Machines : \A id \in Ids[m] :
             m # e.machine \/ id # e.id => proj'.state[m][id] = proj.state[m][id]
    BY <2>1, <2>2, ApplyMoves
  <2>4. e.machine = "toolCall" /\ e.id = c BY <2>3, MachineNames
  <2>5. PICK m \in Machines :
          \E id \in Ids[m] : ToClose(m, proj.state[m][id]) /\ e = ClosingOf(m, id, proj.state[m][id])
    BY ClosingsByEntity
  <2>6. PICK id \in Ids[m] : ToClose(m, proj.state[m][id]) /\ e = ClosingOf(m, id, proj.state[m][id])
    BY <2>5
  <2>7. m = "toolCall" /\ id = c BY <2>4, <2>6, ClosingFields
  <2>8. e.to = IF proj.state["toolCall"][c] = "proposed" THEN "cancelled" ELSE "interrupted"
    BY <2>6, <2>7 DEF ClosingOf, ResultRecorded, ToolInterrupted, AdvanceTo, Event
  <2> QED BY <2>3, <2>4, <2>8, <2>2
<1>2. Spec => [][Kept]_vars BY Invariant, <1>1, PTL DEF Spec
<1> QED BY <1>2 DEF OutcomeUnknown

(* What has ended stays as it ended.                                       *)
THEOREM EndedForGood == Spec => EndedStays
<1> DEFINE Kept ==
      \A m \in Machines \ {"plan"} : \A id \in Ids[m] :
        Terminal(m, proj.state[m][id]) => proj'.state[m][id] = proj.state[m][id]
<1>1. Inv /\ [Next]_vars => [Kept]_vars
  <2> SUFFICES ASSUME Inv, Next,
                      NEW m \in Machines \ {"plan"}, NEW id \in Ids[m],
                      Terminal(m, proj.state[m][id])
               PROVE  proj'.state[m][id] = proj.state[m][id]
    OBVIOUS
  <2>1. CASE proj'.state = proj.state BY <2>1
  <2>2. ASSUME NEW e, proj.status = "ok", Accepted(proj, e), proj' = Apply(proj, e),
               e.machine \in Machines, e.id \in Ids[e.machine], e.to \in States(e.machine),
               e.op \notin {"note", "require"},
               \/ e.op = "create" /\ e.machine # "plan"
               \/ Legal(e.machine, proj.state[e.machine][e.id], e.to)
               \/ e.machine = "plan"
        PROVE  proj'.state[m][id] = proj.state[m][id]
    <3>1. m # e.machine \/ id # e.id
      <4>1. SUFFICES ASSUME m = e.machine, id = e.id PROVE FALSE OBVIOUS
      <4>2. proj.state[m][id] \in States(m) /\ TRANSITIONS[m][proj.state[m][id]] = {}
        BY DEF Terminal
      <4>3. CASE e.op = "create"
        <5>1. proj.state[m][id] = Absent BY <2>2, <4>1, <4>3 DEF Accepted
        <5> QED BY <5>1, <4>2, AbsentAssumption
      <4>4. CASE Legal(m, proj.state[m][id], e.to) BY <4>4, <4>2 DEF Legal
      <4> QED BY <2>2, <4>1, <4>3, <4>4
    <3> QED BY <2>2, <3>1, ApplyMoves DEF Inv
  <2>3. CASE \E e \in CreationEvents \cup ChangeEvents :
               proj.status = "ok" /\ Accepted(proj, e) /\ proj' = Apply(proj, e)
    <3>1. PICK e \in CreationEvents \cup ChangeEvents :
            proj.status = "ok" /\ Accepted(proj, e) /\ proj' = Apply(proj, e)
      BY <2>3
    <3>2. e.op = "advance" => Legal(e.machine, proj.state[e.machine][e.id], e.to)
      BY <3>1 DEF Accepted
    <3> QED BY <3>1, <3>2, <2>2, WrittenFields
  <2>4. CASE \E e \in Closings(proj) :
               proj.status = "ok" /\ Accepted(proj, e) /\ proj' = Apply(proj, e)
    BY <2>4, <2>2, ClosingCloses DEF Inv
  <2> QED BY <2>1, <2>3, <2>4, StepMoves
<1>2. Spec => [][Kept]_vars BY Invariant, <1>1, PTL DEF Spec
<1> QED BY <1>2 DEF EndedStays
=============================================================================
