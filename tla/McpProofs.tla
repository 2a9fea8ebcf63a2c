----------------------------- MODULE McpProofs -----------------------------
(***************************************************************************)
(* Theorems about the MCP servers of a runtime (McpManager), for every set *)
(* of servers, workers and commands and every number of reloads: of a      *)
(* server that is not astray, one process runs at most, what runs is what  *)
(* is listed, and nothing runs after the end of the session.               *)
(***************************************************************************)
EXTENDS McpManager, FiniteSetTheorems, TLAPS

\* A free number is a start of the slot that has not begun.
LEMMA PromiseIsFree ==
  ASSUME TypeOK, NEW x \in Slot, Free(x)
  PROVE  Promise(x) \in Conn /\ Promise(x)[1] = x /\ conn[Promise(x)] = "none"
BY DEF Free, Promise, Conn

\* The slots in use are slots.
LEMMA CurrentIsSlot ==
  ASSUME TypeOK, NEW s \in Server
  PROVE  Current(s) \in Slot /\ Current(s)[1] = s /\ Current(s)[2] = gen
BY DEF TypeOK, Current, Slot

\* What connect does: it begins a start of the slot, or none.
LEMMA ConnectEffect ==
  ASSUME TypeOK, NEW u \in Actor, NEW verb, NEW x \in Slot, NEW slots \in [Slot -> Record], NEW wanted,
         Connects(u, verb, x, slots, wanted)
  PROVE  \/ \E p \in Conn :
              /\ wanted /\ ~closed /\ slots[x].connecting = None
              /\ p[1] = x /\ conn[p] = "none"
              /\ conn' = [conn EXCEPT ![p] = "begun"]
              /\ slot' = [slots EXCEPT ![x].connecting = p]
              /\ astray' = IF Live(slots[x].connection) \/ Passed(x) THEN astray \cup {x[1]} ELSE astray
              /\ Awaits(u, verb, "settle", x, p)
         \/ /\ conn' = conn /\ slot' = slots /\ astray' = astray
            /\ \E a \in Conn \cup {None} : Awaits(u, verb, "settle", x, a)
<1>1. CASE wanted /\ ~closed /\ slots[x].connecting = None
  <2>1. Free(x) /\ Promise(x) \in Conn /\ Promise(x)[1] = x /\ conn[Promise(x)] = "none"
    BY <1>1, PromiseIsFree DEF Connects, Begun
  <2> QED BY <1>1, <2>1 DEF Connects, Begun
<1>2. CASE ~(wanted /\ ~closed /\ slots[x].connecting = None)
  <2>1. slots[x].connecting \in Conn \cup {None}
    BY DEF Record
  <2> QED BY <1>2, <2>1 DEF Connects
<1> QED BY <1>1, <1>2

\* Setting one field of one slot keeps the slots typed.
LEMMA FieldTyped ==
  ASSUME NEW slots \in [Slot -> Record], NEW x \in Slot, NEW p \in Conn \cup {None}, NEW b \in BOOLEAN
  PROVE  /\ [slots EXCEPT ![x].connecting = p] \in [Slot -> Record]
         /\ [slots EXCEPT ![x].disabled = b] \in [Slot -> Record]
         /\ [slots EXCEPT ![x].disabled = FALSE, ![x].enabled = TRUE] \in [Slot -> Record]
         /\ [slots EXCEPT ![x].auth = b] \in [Slot -> Record]
BY DEF Record

\* What is done keeps its type; only Load begins a reload.
LEMMA DoingTyped ==
  ASSUME doing \in [Actor -> Work], NEW u \in Actor, NEW d \in Work, To(u, d)
  PROVE  doing' \in [Actor -> Work] /\ (doing'[User].verb = "load" => doing[User].verb = "load" \/ d.verb = "load")
BY DEF To, Actor

Other == At \ {"next"}
Verb == VerbName \ {"load"}

LEMMA AwaitsTyped ==
  ASSUME doing \in [Actor -> Work], NEW u \in Actor, NEW verb \in Verb, NEW at \in Other,
         NEW x \in Slot, NEW c \in Conn \cup {None}, Awaits(u, verb, at, x, c)
  PROVE  doing' \in [Actor -> Work] /\ (doing'[User].verb = "load" => doing[User].verb = "load")
<1>1. [verb |-> verb, at |-> at, slot |-> x, awaits |-> c, left |-> {}] \in Work
  BY NoneApart DEF Work, Verb, Other
<1> QED BY <1>1, DoingTyped DEF Awaits, Verb

LEMMA StopTyped ==
  ASSUME TypeOK, NEW xs \in SUBSET Slot, StopNow(xs)
  PROVE  /\ slot' \in [Slot -> Record] /\ registry' \subseteq Server
         /\ conn' \in [Conn -> {"none", "begun", "open", "closed"}]
<1>1. slot \in [Slot -> Record]
  BY DEF TypeOK
<1>2. \A x \in Slot : [slot[x] EXCEPT !.registered = FALSE, !.connection = None] \in Record
  BY <1>1 DEF Record
<1>3. slot' \in [Slot -> Record]
  BY <1>1, <1>2 DEF StopNow, Stopped
<1> QED BY <1>3 DEF StopNow, TypeOK

-----------------------------------------------------------------------------
(* Type correctness *)

LEMMA TypeInit == Init => TypeOK
<1> SUFFICES ASSUME Init PROVE TypeOK
  OBVIOUS
<1> USE BoundsAreNat, AsksAreServers
<1>1. \A v \in Nat, o \in BOOLEAN : Fresh(v, o) \in Record
  BY DEF Fresh, Record
<1>2. slot \in [Slot -> Record]
  <2>1. PICK on \in SUBSET Installed :
          slot = [x \in Slot |-> IF x[2] = 0 /\ x[1] \in Installed THEN Fresh(1, x[1] \in on) ELSE Fresh(0, FALSE)]
    BY DEF Init
  <2>2. \A x \in Slot : (x[1] \in on) \in BOOLEAN
    OBVIOUS
  <2> QED BY <1>1, <2>1, <2>2
<1>3. doing \in [Actor -> Work]
  BY DEF Init, Idle, Work, VerbName, At
<1>4. approved \subseteq Server \X Nat
  BY DEF Init
<1>5. gen \in 0..MaxLoads /\ done \in 0..MaxDone
  BY DEF Init
<1>6. registry \subseteq Server /\ started \in BOOLEAN /\ closed \in BOOLEAN /\ astray \subseteq Server
  BY DEF Init
<1>7. conn \in [Conn -> {"none", "begun", "open", "closed"}]
  BY DEF Init
<1>8. doing[User].verb = "none"
  BY DEF Init, Idle, Actor
<1> QED BY <1>2, <1>3, <1>4, <1>5, <1>6, <1>7, <1>8 DEF TypeOK

LEMMA TypeNext ==
  ASSUME TypeOK, [Next]_vars
  PROVE  TypeOK'
<1> USE BoundsAreNat, AsksAreServers
<1>0. /\ slot \in [Slot -> Record] /\ doing \in [Actor -> Work] /\ gen \in 0..MaxLoads
      /\ conn \in [Conn -> {"none", "begun", "open", "closed"}] /\ registry \subseteq Server
      /\ User \in Actor /\ Worker \subseteq Actor /\ Idle \in Work
  BY DEF TypeOK, Work, Actor, Idle, VerbName, At
<1> DEFINE Data == /\ slot' \in [Slot -> Record] /\ registry' \subseteq Server
                   /\ conn' \in [Conn -> {"none", "begun", "open", "closed"}]
           Rest == /\ gen' \in 0..MaxLoads /\ done' \in 0..MaxDone
                   /\ started' \in BOOLEAN /\ closed' \in BOOLEAN /\ approved' \subseteq Server \X Nat
                   /\ astray' \subseteq Server
           Doing == doing' \in [Actor -> Work] /\ (doing'[User].verb = "load" => gen' < MaxLoads)
<1>l. doing[User].verb = "load" => gen < MaxLoads
  BY DEF TypeOK
<1>a. astray \subseteq Server
  BY DEF TypeOK
<1>s. \A s \in Server : Current(s) \in Slot
  BY CurrentIsSlot
<1>c. \A u \in Actor, x \in Slot, slots \in [Slot -> Record] : \A verb \in Verb : \A wanted :
        Connects(u, verb, x, slots, wanted) /\ gen' = gen =>
          /\ slot' \in [Slot -> Record] /\ conn' \in [Conn -> {"none", "begun", "open", "closed"}]
          /\ Doing /\ astray' \subseteq Server
  <2> TAKE u \in Actor, x \in Slot, slots \in [Slot -> Record]
  <2> TAKE verb \in Verb
  <2> TAKE wanted
  <2> HAVE Connects(u, verb, x, slots, wanted) /\ gen' = gen
  <2>0. "settle" \in Other
    BY DEF Other, At
  <2>1. CASE \E p \in Conn : /\ conn' = [conn EXCEPT ![p] = "begun"]
                             /\ slot' = [slots EXCEPT ![x].connecting = p]
                             /\ astray' \in {astray, astray \cup {x[1]}}
                             /\ Awaits(u, verb, "settle", x, p)
    <3>1. PICK p \in Conn : /\ conn' = [conn EXCEPT ![p] = "begun"]
                            /\ slot' = [slots EXCEPT ![x].connecting = p]
                            /\ astray' \in {astray, astray \cup {x[1]}}
                            /\ Awaits(u, verb, "settle", x, p)
      BY <2>1
    <3>2. slot' \in [Slot -> Record]
      BY <3>1, FieldTyped
    <3>3. Doing
      BY <1>0, <1>l, <2>0, <3>1, AwaitsTyped
    <3>4. astray' \subseteq Server
      BY <1>a, <3>1 DEF Slot
    <3> QED BY <1>0, <3>1, <3>2, <3>3, <3>4
  <2>2. CASE /\ conn' = conn /\ slot' = slots /\ astray' = astray
             /\ \E a \in Conn \cup {None} : Awaits(u, verb, "settle", x, a)
    BY <1>0, <1>a, <1>l, <2>0, <2>2, AwaitsTyped
  <2>3. \/ \E p \in Conn : /\ conn' = [conn EXCEPT ![p] = "begun"]
                           /\ slot' = [slots EXCEPT ![x].connecting = p]
                           /\ astray' \in {astray, astray \cup {x[1]}}
                           /\ Awaits(u, verb, "settle", x, p)
        \/ /\ conn' = conn /\ slot' = slots /\ astray' = astray
           /\ \E a \in Conn \cup {None} : Awaits(u, verb, "settle", x, a)
    <3> HIDE DEF Doing, Data, Rest
    <3>1. \/ \E p \in Conn :
               /\ wanted /\ ~closed /\ slots[x].connecting = None
               /\ p[1] = x /\ conn[p] = "none"
               /\ conn' = [conn EXCEPT ![p] = "begun"]
               /\ slot' = [slots EXCEPT ![x].connecting = p]
               /\ astray' = IF Live(slots[x].connection) \/ Passed(x) THEN astray \cup {x[1]} ELSE astray
               /\ Awaits(u, verb, "settle", x, p)
          \/ /\ conn' = conn /\ slot' = slots /\ astray' = astray
             /\ \E a \in Conn \cup {None} : Awaits(u, verb, "settle", x, a)
      BY ConnectEffect
    <3> QED BY <3>1
  <2> QED BY <2>1, <2>2, <2>3
<1>u. \A s \in Server : slot[Current(s)].connecting \in Conn \cup {None}
  BY <1>0, <1>s DEF Record
<1>f. \A s \in Server, b \in BOOLEAN :
         /\ [slot EXCEPT ![Current(s)].disabled = b] \in [Slot -> Record]
         /\ [slot EXCEPT ![Current(s)].disabled = FALSE, ![Current(s)].enabled = TRUE] \in [Slot -> Record]
         /\ [slot EXCEPT ![Current(s)].auth = b] \in [Slot -> Record]
  BY <1>0, <1>s, FieldTyped
<1>t. TypeOK' <=> Data /\ Rest /\ Doing
  BY DEF TypeOK
<1>k. Rest <=> /\ gen' \in 0..MaxLoads /\ done' \in 0..MaxDone
               /\ started' \in BOOLEAN /\ closed' \in BOOLEAN /\ approved' \subseteq Server \X Nat
               /\ astray' \subseteq Server
  OBVIOUS
<1>r. (UNCHANGED <<gen, approved, started, closed>> /\ astray' \subseteq Server /\ done' \in {done, done + 1} /\ done' <= MaxDone) => Rest
  BY DEF TypeOK
<1> SUFFICES Data /\ Rest /\ Doing
  BY <1>t
<1>b. \A u \in Actor : \A verb : Begins(u, verb) => done' = done + 1 /\ done' <= MaxDone
  BY DEF Begins, TypeOK
<1>1. CASE StartSession
  <2>1. Rest /\ Doing /\ registry' \subseteq Server
    BY <1>0, <1>1 DEF StartSession, TypeOK, Slot
  <2>2. conn' \in [Conn -> {"none", "begun", "open", "closed"}]
    BY <1>0, <1>1 DEF StartSession
  <2>3. PICK lazy \in SUBSET There :
          LET usable == {x \in Slot : x[2] = gen /\ x[1] \in There /\ Usable(x)}
              cached == {x \in usable : x[1] \in lazy}
          IN /\ \A x \in usable : Free(x)
             /\ slot' = [x \in Slot |-> IF x \in cached THEN [slot[x] EXCEPT !.registered = RegistersAs(x)]
                                        ELSE IF x \in usable THEN [slot[x] EXCEPT !.connecting = Promise(x)]
                                        ELSE slot[x]]
    BY <1>1 DEF StartSession
  <2>4. \A x \in Slot : slot'[x] \in Record
    <3> TAKE x \in Slot
    <3>1. [slot[x] EXCEPT !.registered = RegistersAs(x)] \in Record
      BY <1>0 DEF Record, RegistersAs
    <3>2. Free(x) => [slot[x] EXCEPT !.connecting = Promise(x)] \in Record
      BY <1>0, PromiseIsFree DEF Record
    <3> QED BY <1>0, <2>3, <3>1, <3>2
  <2>5. slot' = [x \in Slot |-> slot'[x]]
    BY <2>3
  <2> QED BY <2>1, <2>2, <2>4, <2>5
<1>2. CASE Close
  BY <1>0, <1>2, StopTyped DEF Close, TypeOK
<1>3. CASE \E s \in Server : Enable(s)
  <2>1. PICK s \in Server : Enable(s)
    BY <1>3
  <2>2. done' = done + 1 /\ done' <= MaxDone /\ UNCHANGED <<gen, approved, started, closed, registry>>
    BY <1>0, <2>1, <1>b DEF Enable, Command
  <2>3. "enable" \in Verb
    BY DEF Verb, VerbName
  <2>4. \E wanted : Connects(User, "enable", Current(s),
                             [slot EXCEPT ![Current(s)].disabled = FALSE, ![Current(s)].enabled = TRUE], wanted)
    BY <2>1 DEF Enable
  <2> QED BY <1>0, <1>r, <1>s, <1>c, <1>f, <2>2, <2>3, <2>4
<1>m. CASE \E w \in Worker : Call(w)
  <2>1. PICK w \in Worker : Call(w)
    BY <1>m
  <2>2. w \in Actor /\ UNCHANGED <<gen, registry, approved, started, closed, done>>
    BY <1>0, <2>1 DEF Call
  <2>3. doing[w].slot[1] \in Server
    BY <2>1 DEF Call, There
  <2>4. "call" \in Verb
    BY DEF Verb, VerbName
  <2>5. Connects(w, "call", Current(doing[w].slot[1]), slot, TRUE)
    BY <2>1 DEF Call
  <2> QED BY <1>0, <1>r, <1>s, <1>c, <2>2, <2>3, <2>4, <2>5 DEF TypeOK
<1>n. CASE \E w \in Worker, s \in Server : Take(w, s)
  <2>1. PICK w \in Worker, s \in Server : Take(w, s)
    BY <1>n
  <2>2. w \in Actor /\ done' = done + 1 /\ done' <= MaxDone
    BY <1>0, <2>1, <1>b DEF Take
  <2>3. "call" \in Verb /\ "ask" \in Other
    BY DEF Verb, VerbName, Other, At
  <2>4. Doing
    BY <1>0, <1>s, <1>l, <2>1, <2>2, <2>3, AwaitsTyped DEF Take
  <2> QED BY <1>0, <1>a, <1>r, <2>1, <2>2, <2>4 DEF Take
<1>4. CASE \E s \in Server : Disable(s) \/ Reconnect(s) \/ Approve(s) \/ Revoke(s)
  <2>1. PICK s \in Server : Disable(s) \/ Reconnect(s) \/ Approve(s) \/ Revoke(s)
    BY <1>4
  <2>2. /\ \E verb : Begins(User, verb)
        /\ UNCHANGED <<gen, approved, started, closed, registry, conn, astray>>
    BY <2>1 DEF Disable, Reconnect, Approve, Revoke, Command
  <2>3. done' = done + 1 /\ done' <= MaxDone
    BY <1>0, <2>2, <1>b
  <2>4. slot' \in [Slot -> Record]
    BY <1>0, <2>1, <1>f DEF Disable, Reconnect, Approve, Revoke
  <2>5. \E verb \in Verb, at \in Other, c \in Conn \cup {None} : Awaits(User, verb, at, Current(s), c)
    <3>1. /\ {"disable", "reconnect", "logout", "approve", "revoke"} \subseteq Verb
          /\ "stop" \in Other /\ "write" \in Other
      BY DEF Verb, VerbName, Other, At
    <3>2. CASE Disable(s)
      BY <3>1, <3>2, <1>u DEF Disable
    <3>3. CASE Reconnect(s)
      BY <3>1, <3>3, <1>u DEF Reconnect
    <3>4. CASE Approve(s) \/ Revoke(s)
      BY <3>1, <3>4 DEF Approve, Revoke
    <3> QED BY <2>1, <3>2, <3>3, <3>4
  <2>6. Doing
    BY <1>0, <1>s, <1>l, <2>2, <2>5, AwaitsTyped
  <2> QED BY <1>0, <1>a, <1>r, <2>2, <2>3, <2>4, <2>6
<1>x. /\ doing[User] \in Work
      /\ doing[User].at \in {"write", "stop", "clear"} => doing[User].slot \in Slot
      /\ doing[User].verb \in VerbName /\ doing[User].left \subseteq Server
  BY <1>0 DEF Work
<1>5. CASE Approved \/ Revoked
  <2>1. doing[User].slot \in Slot /\ UNCHANGED <<gen, registry, started, closed, done>>
    BY <1>5, <1>x DEF Approved, Revoked
  <2>2. approved' \subseteq Server \X Nat
    BY <1>0, <1>5, <2>1 DEF Approved, Revoked, OfOthers, TypeOK, Slot, Record
  <2>3. CASE Approved
    <3>1. "approve" \in Verb
      BY DEF Verb, VerbName
    <3>2. \E wanted : Connects(User, "approve", doing[User].slot, slot, wanted)
      BY <2>3 DEF Approved
    <3> QED BY <1>0, <1>c, <2>1, <2>2, <3>1, <3>2 DEF TypeOK
  <2>4. CASE Revoked
    <3>1. "revoke" \in Verb /\ "stop" \in Other /\ slot[doing[User].slot].connecting \in Conn \cup {None}
      BY <1>0, <2>1 DEF Verb, VerbName, Other, At, Record
    <3>2. Doing
      BY <1>0, <2>1, <1>l, <2>4, <3>1, AwaitsTyped DEF Revoked
    <3> QED BY <1>0, <2>1, <2>2, <2>4, <3>2 DEF Revoked, TypeOK
  <2> QED BY <1>5, <2>3, <2>4
<1>6. CASE Stop
  <2>1. doing[User].slot \in Slot /\ UNCHANGED <<gen, approved, started, closed, done, astray>>
    BY <1>6, <1>x DEF Stop
  <2>2. Data
    BY <1>6, <2>1, StopTyped DEF Stop
  <2>3. "settle" \in Other /\ "clear" \in Other
    BY DEF Other, At
  <2>4. \E at \in Other : Awaits(User, doing[User].verb, at, doing[User].slot, None)
    BY <1>6, <2>3 DEF Stop
  <2>v. doing[User].verb \in Verb
    BY <1>6, <1>x DEF Stop, Verb
  <2>5. Doing
    BY <1>0, <1>x, <1>l, <2>1, <2>4, <2>v, AwaitsTyped
  <2> QED BY <1>a, <1>r, <2>1, <2>2, <2>5 DEF TypeOK
<1>7. CASE Cleared
  <2>1. doing[User].slot \in Slot /\ UNCHANGED <<gen, registry, approved, started, closed, done>>
    BY <1>7, <1>x DEF Cleared
  <2>2. [slot EXCEPT ![doing[User].slot].auth = FALSE] \in [Slot -> Record]
    BY <1>0, <2>1, FieldTyped
  <2>3. \E wanted : Connects(User, doing[User].verb, doing[User].slot,
                               [slot EXCEPT ![doing[User].slot].auth = FALSE], wanted)
    BY <1>7 DEF Cleared
  <2>4. doing[User].verb \in Verb
    BY <1>7, <1>x DEF Cleared, Verb, Work
  <2> QED BY <1>0, <1>c, <1>r, <1>x, <2>1, <2>2, <2>3, <2>4 DEF TypeOK
<1>8. CASE Load
  <2>1. done' = done + 1 /\ done' <= MaxDone /\ UNCHANGED <<gen, approved, started, closed, registry, conn, astray>>
    BY <1>0, <1>8, <1>b DEF Load
  <2>2. PICK found \in [Server -> Changes] :
          slot' = [x \in Slot |-> IF x[2] = gen + 1 THEN Reloaded(found[x[1]], slot[Current(x[1])]) ELSE slot[x]]
    BY <1>8 DEF Load
  <2>3. \A f : \A old \in Record : Reloaded(f, old) \in Record
    <3> TAKE f
    <3> TAKE old \in Record
    <3>1. \A b \in BOOLEAN : [old EXCEPT !.enabled = b] \in Record /\ Fresh(old.version + 1, b) \in Record
      BY DEF Fresh, Record
    <3>2. Fresh(0, FALSE) \in Record
      BY DEF Fresh, Record
    <3> QED BY <3>1, <3>2 DEF Reloaded
  <2>4. \A x \in Slot : x[1] \in Server
    BY DEF Slot
  <2>5. slot' \in [Slot -> Record]
    BY <1>0, <1>s, <2>2, <2>3, <2>4
  <2>6. [verb |-> "load", at |-> "next", slot |-> None, awaits |-> None, left |-> There] \in Work
    BY DEF Work, VerbName, At, There
  <2>7. Doing
    BY <1>0, <1>8, <2>6, DoingTyped DEF Load
  <2> QED BY <1>0, <1>a, <1>r, <2>1, <2>5, <2>7
<1>9. CASE LoadNext
  <2>1. PICK s \in doing[User].left :
          To(User, [verb |-> "load", at |-> "stop", slot |-> Current(s),
                    awaits |-> slot[Current(s)].connecting, left |-> doing[User].left \ {s}])
    BY <1>9 DEF LoadNext
  <2>2. [verb |-> "load", at |-> "stop", slot |-> Current(s),
         awaits |-> slot[Current(s)].connecting, left |-> doing[User].left \ {s}] \in Work
    BY <1>s, <1>u, <1>x, NoneApart DEF Work, VerbName, At
  <2>3. Doing
    BY <1>0, <1>l, <1>9, <1>x, <2>1, <2>2, DoingTyped DEF LoadNext, Work
  <2> QED BY <1>0, <1>9, <1>r, <2>3 DEF LoadNext, TypeOK
<1>10. CASE LoadStops
  <2>1. doing[User].slot \in Slot /\ UNCHANGED <<gen, approved, started, closed, done, astray>>
    BY <1>10, <1>x DEF LoadStops
  <2>2. Data
    BY <1>10, <2>1, StopTyped DEF LoadStops
  <2>3. [verb |-> "load", at |-> "next", slot |-> None, awaits |-> None, left |-> doing[User].left] \in Work
    BY <1>x DEF Work, VerbName, At
  <2>4. Doing
    BY <1>0, <1>l, <1>10, <2>1, <2>3, DoingTyped DEF LoadStops
  <2> QED BY <1>a, <1>r, <2>1, <2>2, <2>4 DEF TypeOK
<1>11. CASE LoadEnds
  <2>1. gen' \in 0..MaxLoads
    BY <1>0, <1>l, <1>x, <1>11 DEF LoadEnds, Work
  <2>2. Doing
    BY <1>0, <1>11, DoingTyped DEF LoadEnds, To, Idle, Actor
  <2> QED BY <1>0, <1>11, <2>1, <2>2 DEF LoadEnds, TypeOK
<1>12. CASE \E u \in Actor : Ends(u)
  <2>1. Doing
    BY <1>0, <1>l, <1>12, DoingTyped DEF Ends, Idle
  <2> QED BY <1>0, <1>12, <1>r, <2>1 DEF Ends, TypeOK
<1>13. CASE \E w \in Worker : Leaves(w)
  <2>1. Doing
    BY <1>0, <1>l, <1>13, DoingTyped DEF Leaves, Idle
  <2> QED BY <1>0, <1>13, <1>r, <2>1 DEF Leaves, TypeOK
<1>14. CASE \E c \in Conn : StartEnds(c)
  <2>1. PICK c \in Conn : StartEnds(c)
    BY <1>14
  <2>2. c[1] \in Slot /\ c[1][1] \in Server
    BY DEF Conn, Slot
  <2>3. registry' \subseteq Server /\ UNCHANGED <<gen, approved, started, closed, done, doing, astray>>
    BY <1>0, <2>1, <2>2 DEF StartEnds, RegisteredByOthers
  <2>4. conn' \in [Conn -> {"none", "begun", "open", "closed"}]
    BY <1>0, <2>1 DEF StartEnds
  <2>5. slot[c[1]] \in Record
    BY <1>0, <2>2
  <2>6. /\ [slot[c[1]] EXCEPT !.connecting = None, !.connection = c,
                              !.registered = RegistersAs(c[1]), !.auth = FALSE] \in Record
        /\ \A a \in BOOLEAN : [slot[c[1]] EXCEPT !.connecting = None, !.auth = a] \in Record
    BY <2>5 DEF Record, RegistersAs
  <2>7. \/ slot' = [slot EXCEPT ![c[1]].connecting = None]
        \/ \E r \in Record : slot' = [slot EXCEPT ![c[1]] = r]
    BY <2>1, <2>6 DEF StartEnds
  <2>8. slot' \in [Slot -> Record]
    <3>1. CASE slot' = [slot EXCEPT ![c[1]].connecting = None]
      BY <1>0, <2>2, <3>1, FieldTyped
    <3>2. CASE \E r \in Record : slot' = [slot EXCEPT ![c[1]] = r]
      BY <1>0, <2>2, <3>2
    <3> QED BY <2>7, <3>1, <3>2
  <2> QED BY <1>0, <1>a, <1>r, <2>3, <2>4, <2>8 DEF TypeOK
<1>15. CASE \E c \in Conn : ServerDies(c)
  BY <1>0, <1>15, <1>r DEF ServerDies, TypeOK
<1>16. CASE UNCHANGED vars
  BY <1>0, <1>16, <1>r DEF vars, TypeOK
<1> QED BY <1>1, <1>2, <1>3, <1>m, <1>n, <1>4, <1>5, <1>6, <1>7, <1>8, <1>9, <1>10, <1>11, <1>12, <1>13, <1>14, <1>15, <1>16 DEF Next

\* The variables have their types in every state.
THEOREM TypeCorrect == Spec => []TypeOK
BY TypeInit, TypeNext, PTL DEF Spec

-----------------------------------------------------------------------------
(* The invariant of the servers that are not astray: what runs is the       *)
(* connection of the slot in use, at most one start or connection at a      *)
(* time, and only what the user wants runs unless the command that stops it *)
(* is under way.                                                            *)

\* A server has a start in flight, a process, or tools in the registry.
Active(s) == s \in registry \/ \E c \in Conn : c[1][1] = s /\ conn[c] \in {"begun", "open"}

\* The user's command is this one, this far, on the slot in use of the server.
On(s, verb, at) == doing[User].verb = verb /\ doing[User].at = at /\ doing[User].slot = Current(s)

RunInv ==
  /\ \A c \in Conn : c[1][1] \notin astray /\ conn[c] = "open" => slot[c[1]].connection = c /\ c[1][1] \in registry
  /\ \A c \in Conn, x \in Slot :
       c[1][1] \notin astray /\ conn[c] = "open" /\ x[2] = gen /\ slot[x].connection = c => x = c[1]
  /\ \A c \in Conn : c[1][1] \notin astray /\ conn[c] = "begun" =>
       slot[c[1]].connecting = c /\ \A o \in Conn : o[1] = c[1] => conn[o] # "open"
  /\ \A c \in Conn : c[1][1] \notin astray /\ conn[c] \in {"begun", "open"} => c[1][2] = gen
  /\ \A s \in registry \ astray : slot[Current(s)].registered
  /\ \A s \in Server \ astray : Active(s) => s \in There
  /\ ~started => \A s \in Server \ astray : ~Active(s)
  /\ closed => \A s \in Server \ astray :
       s \notin registry /\ \A c \in Conn : c[1][1] = s => conn[c] # "open"

\* What a command has done so far.  A stop awaits the start in flight, unless a call may
\* have begun it since.
CommandInv ==
  /\ doing[User].slot # None =>
       doing[User].slot[2] = gen /\ (doing[User].verb # "load" => doing[User].slot[1] \in There)
  /\ doing[User].verb = "load" /\ doing[User].at = "stop" => doing[User].slot[1] \notin doing[User].left
  /\ doing[User].at = "stop" /\ doing[User].slot[1] \notin astray
       /\ (doing[User].verb = "load" \/ ~Usable(doing[User].slot)) =>
         \A c \in Conn : conn[c] = "begun" /\ c[1] = doing[User].slot => doing[User].awaits = c
  /\ doing[User].verb = "load" =>
       \A s \in Server \ astray : s \notin doing[User].left /\ Active(s) => On(s, "load", "stop")
  /\ \A s \in Server \ astray : Active(s) /\ Off(Current(s)) => On(s, "disable", "stop")
  /\ \A s \in Server \ astray : Active(s) /\ NeedsApproval(Current(s)) => On(s, "revoke", "stop")
  /\ doing[User].verb = "none" => doing[User] = Idle

\* The definition that the slot has stays, and whether it is wanted.
Kept(x) ==
  slot'[x].version = slot[x].version /\ slot'[x].enabled = slot[x].enabled /\ slot'[x].disabled = slot[x].disabled

LEMMA KeptMeans ==
  ASSUME NEW x, Kept(x), UNCHANGED approved
  PROVE  /\ Off(x)' <=> Off(x)
         /\ NeedsApproval(x)' <=> NeedsApproval(x)
         /\ Usable(x)' <=> Usable(x)
BY DEF Kept, Off, NeedsApproval, Usable

\* The slots in use stay in use.
LEMMA CurrentStays ==
  ASSUME TypeOK, UNCHANGED gen
  PROVE  \A s \in Server : /\ Current(s)' = Current(s) /\ Current(s) \in Slot
                           /\ Current(s)[1] = s /\ Current(s)[2] = gen
BY CurrentIsSlot DEF Current

LEMMA ThereStays ==
  ASSUME TypeOK, UNCHANGED gen, \A s \in Server : slot'[Current(s)].version = slot[Current(s)].version
  PROVE  There' = There
BY CurrentStays DEF There

\* A step that neither starts nor stops anything.
LEMMA NothingRuns ==
  ASSUME TypeOK, RunInv, \A x \in Slot : x[2] = gen =>
           /\ slot'[x].connection = slot[x].connection /\ slot'[x].registered = slot[x].registered
           /\ slot'[x].version = slot[x].version /\ slot'[x].connecting = slot[x].connecting,
         UNCHANGED <<gen, conn, registry, started, closed, astray>>
  PROVE  RunInv' /\ \A s \in Server : Active(s)' <=> Active(s)
<1>1. \A s \in Server : Active(s)' <=> Active(s)
  BY DEF Active
<1>2. \A s \in Server : Current(s)' = Current(s) /\ Current(s) \in Slot /\ Current(s)[2] = gen
  BY CurrentStays
<1>3. There' = There
  BY <1>2, ThereStays
<1>4. \A c \in Conn : c[1] \in Slot
  BY DEF Conn
<1>5. registry \subseteq Server
  BY DEF TypeOK
<1> QED BY <1>1, <1>2, <1>3, <1>4, <1>5 DEF RunInv

\* A start of a slot in use begins: its server is astray, or nothing of it runs.
LEMMA StartBegins ==
  ASSUME TypeOK, RunInv, started, ~closed,
         NEW s \in There, NEW p \in Conn, p[1] = Current(s), conn[p] = "none",
         astray \subseteq astray', astray' \subseteq astray \cup {s},
         s \notin astray' => \A o \in Conn : o[1] = Current(s) => conn[o] \notin {"begun", "open"},
         conn' = [conn EXCEPT ![p] = "begun"],
         \A x \in Slot : /\ slot'[x].connection = slot[x].connection /\ slot'[x].registered = slot[x].registered
                         /\ slot'[x].version = slot[x].version,
         \A x \in Slot \ {Current(s)} : slot'[x].connecting = slot[x].connecting,
         slot'[Current(s)].connecting = p,
         UNCHANGED <<gen, registry, started, closed>>
  PROVE  RunInv' /\ \A t \in Server \ {s} : Active(t)' <=> Active(t)
<1>0. /\ \A c \in Conn : c[1] \in Slot /\ c[1][1] \in Server
      /\ \A c \in Conn : conn'[c] = IF c = p THEN "begun" ELSE conn[c]
      /\ s \in Server
  BY DEF TypeOK, Conn, Slot, There
<1>1. \A t \in Server : Current(t)' = Current(t) /\ Current(t) \in Slot /\ Current(t)[1] = t /\ Current(t)[2] = gen
  BY CurrentStays
<1>2. There' = There
  BY <1>1, ThereStays
<1>3. \A t \in Server \ {s} : Active(t)' <=> Active(t)
  BY <1>0, <1>1 DEF Active
<1>4. \A c \in Conn : c[1][1] \notin astray' /\ conn'[c] = "open" => slot'[c[1]].connection = c /\ c[1][1] \in registry'
  BY <1>0 DEF RunInv
<1>a. \A c \in Conn, x \in Slot :
        c[1][1] \notin astray' /\ conn'[c] = "open" /\ x[2] = gen' /\ slot'[x].connection = c => x = c[1]
  BY <1>0 DEF RunInv
<1>5. \A c \in Conn : c[1][1] \notin astray' /\ conn'[c] = "begun" =>
        slot'[c[1]].connecting = c /\ \A o \in Conn : o[1] = c[1] => conn'[o] # "open"
  <2> SUFFICES ASSUME NEW c \in Conn, c[1][1] \notin astray', conn'[c] = "begun"
               PROVE  slot'[c[1]].connecting = c /\ \A o \in Conn : o[1] = c[1] => conn'[o] # "open"
    OBVIOUS
  <2>1. CASE c = p
    BY <1>0, <1>1, <2>1
  <2>2. CASE c # p
    BY <1>0, <1>1, <2>2 DEF RunInv
  <2> QED BY <2>1, <2>2
<1>6. \A c \in Conn : c[1][1] \notin astray' /\ conn'[c] \in {"begun", "open"} => c[1][2] = gen'
  BY <1>0, <1>1 DEF RunInv
<1>7. \A t \in registry' \ astray' : slot'[Current(t)'].registered
  BY <1>1 DEF RunInv, TypeOK
<1>8. \A t \in Server \ astray' : Active(t)' => t \in There'
  BY <1>2, <1>3 DEF RunInv
<1>9. closed' = FALSE /\ started' = TRUE
  BY DEF TypeOK
<1> QED BY <1>3, <1>4, <1>a, <1>5, <1>6, <1>7, <1>8, <1>9 DEF RunInv

\* stop: what the slot knows is closed; a start in flight that was not awaited stays.
LEMMA Stops ==
  ASSUME TypeOK, RunInv, NEW x \in Slot, x[2] = gen, StopNow({x}), UNCHANGED <<gen, started, closed, astray>>
  PROVE  /\ RunInv'
         /\ \A t \in Server \ astray : Active(t)' =>
              Active(t) /\ (Current(t) = x => \E c \in Conn : conn[c] = "begun" /\ c[1] = x)
         /\ \A c \in Conn : conn'[c] = "begun" <=> conn[c] = "begun"
         /\ \A y \in Slot : Kept(y)
<1>0. /\ \A c \in Conn : c[1] \in Slot /\ c[1][1] \in Server /\ (c[1][2] = gen => c[1] = Current(c[1][1]))
      /\ x[1] \in Server /\ x = Current(x[1]) /\ registry \subseteq Server
  BY DEF TypeOK, Conn, Slot, Current
<1>1. \A t \in Server : Current(t)' = Current(t) /\ Current(t) \in Slot /\ Current(t)[1] = t /\ Current(t)[2] = gen
  BY CurrentStays
<1>2. \A y \in Slot : slot[y] \in Record
  BY DEF TypeOK
<1>3. /\ \A y \in Slot : Kept(y) /\ slot'[y].connecting = slot[y].connecting
      /\ \A y \in Slot \ {x} : slot'[y] = slot[y]
  BY <1>2 DEF StopNow, Stopped, Record, Kept
<1>4. There' = There
  BY <1>1, <1>3, ThereStays DEF Kept
<1>5. /\ \A t \in registry' : t \in registry
      /\ \A t \in registry : t # x[1] => t \in registry'
      /\ x[1] \notin astray => x[1] \notin registry'
  BY <1>0 DEF StopNow, RunInv
<1>6. /\ \A c \in Conn : conn'[c] = "begun" <=> conn[c] = "begun"
      /\ \A c \in Conn : conn'[c] = "open" => conn[c] = "open"
      /\ \A c \in Conn : c[1][1] \notin astray => (conn'[c] = "open" <=> conn[c] = "open" /\ c[1] # x)
  BY <1>0 DEF StopNow, RunInv, TypeOK
<1>7. \A t \in Server \ astray : Active(t)' =>
        Active(t) /\ (Current(t) = x => \E c \in Conn : conn[c] = "begun" /\ c[1] = x)
  <2> SUFFICES ASSUME NEW t \in Server \ astray, Active(t)'
               PROVE  Active(t) /\ (Current(t) = x => \E c \in Conn : conn[c] = "begun" /\ c[1] = x)
    OBVIOUS
  <2>1. Active(t)
    BY <1>5, <1>6 DEF Active
  <2>2. ASSUME Current(t) = x PROVE \E c \in Conn : conn[c] = "begun" /\ c[1] = x
    <3>1. t = x[1] /\ t \notin registry'
      BY <1>1, <1>5, <2>2
    <3>2. PICK c \in Conn : c[1][1] = t /\ conn'[c] \in {"begun", "open"}
      BY <3>1 DEF Active
    <3>3. conn[c] \in {"begun", "open"} /\ c[1] = x
      BY <1>0, <1>6, <2>2, <3>2 DEF RunInv
    <3> QED BY <1>6, <3>2, <3>3
  <2> QED BY <2>1, <2>2
<1>8. \A c \in Conn : c[1][1] \notin astray' /\ conn'[c] = "open" => slot'[c[1]].connection = c /\ c[1][1] \in registry'
  <2> SUFFICES ASSUME NEW c \in Conn, c[1][1] \notin astray, conn'[c] = "open"
               PROVE  slot'[c[1]].connection = c /\ c[1][1] \in registry'
    OBVIOUS
  <2>1. /\ conn[c] = "open" /\ c[1] # x /\ slot[c[1]].connection = c /\ c[1][1] \in registry
        /\ c[1] = Current(c[1][1]) /\ c[1] \in Slot
    BY <1>0, <1>6 DEF RunInv
  <2>2. c[1][1] # x[1]
    BY <1>0, <2>1
  <2> QED BY <1>3, <1>5, <2>1, <2>2
<1>a. \A c \in Conn, y \in Slot :
        c[1][1] \notin astray' /\ conn'[c] = "open" /\ y[2] = gen' /\ slot'[y].connection = c => y = c[1]
  <2>1. slot'[x].connection = None
    BY <1>2 DEF StopNow, Stopped, Record
  <2> QED BY <1>3, <1>6, <2>1, NoneApart DEF RunInv
<1>9. \A c \in Conn : c[1][1] \notin astray' /\ conn'[c] = "begun" =>
        slot'[c[1]].connecting = c /\ \A o \in Conn : o[1] = c[1] => conn'[o] # "open"
  BY <1>0, <1>3, <1>6 DEF RunInv
<1>10. \A t \in registry' \ astray' : slot'[Current(t)'].registered
  <2> SUFFICES ASSUME NEW t \in registry', t \notin astray PROVE slot'[Current(t)].registered
    BY <1>0, <1>1, <1>5
  <2>1. t \in Server /\ t \in registry /\ Current(t) # x
    BY <1>0, <1>1, <1>5
  <2> QED BY <1>1, <1>3, <2>1 DEF RunInv
<1>11. /\ ~started' => \A t \in Server \ astray' : ~Active(t)'
       /\ closed' => \A t \in Server \ astray' : t \notin registry' /\ \A c \in Conn : c[1][1] = t => conn'[c] # "open"
  BY <1>5, <1>6, <1>7 DEF RunInv
<1>12. \A c \in Conn : c[1][1] \notin astray' /\ conn'[c] \in {"begun", "open"} => c[1][2] = gen'
  BY <1>6 DEF RunInv
<1>13. \A t \in Server \ astray' : Active(t)' => t \in There'
  BY <1>4, <1>7 DEF RunInv
<1>14. RunInv'
  BY <1>8, <1>a, <1>9, <1>10, <1>11, <1>12, <1>13 DEF RunInv
<1> QED BY <1>3, <1>6, <1>7, <1>14

\* A step that begins nothing and leaves the user's command, what is off and what is
\* approved alone.
LEMMA CommandWaits ==
  ASSUME TypeOK, CommandInv, doing'[User] = doing[User], UNCHANGED <<gen, approved, astray>>,
         \A s \in Server : Kept(Current(s)),
         \A s \in Server \ astray : Active(s)' => Active(s),
         \A c \in Conn : conn'[c] = "begun" => conn[c] = "begun"
  PROVE  CommandInv'
<1>1. \A s \in Server : Current(s)' = Current(s) /\ Current(s)[1] = s
  BY CurrentStays
<1>2. \A s \in Server : /\ NeedsApproval(Current(s))' <=> NeedsApproval(Current(s))
                        /\ Off(Current(s))' <=> Off(Current(s))
                        /\ Usable(Current(s))' <=> Usable(Current(s))
                        /\ \A verb, at : On(s, verb, at)' <=> On(s, verb, at)
  <2> TAKE s \in Server
  <2>1. Kept(Current(s)) /\ Current(s)' = Current(s)
    BY <1>1
  <2> QED BY <2>1 DEF Kept, NeedsApproval, Off, Usable, On
<1>3. There' = There
  BY <1>1, ThereStays DEF Kept
<1>4. doing[User].at = "stop" => doing[User].slot # None /\ \E s \in Server : doing[User].slot = Current(s)
  <2>1. doing[User].at = "stop" => doing[User].slot \in Slot /\ doing[User].slot[2] = gen
    BY NoneApart DEF TypeOK, Work, Actor, CommandInv
  <2>2. \A x \in Slot : x[2] = gen => x = Current(x[1]) /\ x[1] \in Server
    BY DEF Slot, Current
  <2> QED BY <2>1, <2>2, NoneApart
<1>5. doing[User].at = "stop" => (Usable(doing[User].slot)' <=> Usable(doing[User].slot))
  <2> SUFFICES ASSUME doing[User].at = "stop" PROVE Usable(doing[User].slot)' <=> Usable(doing[User].slot)
    OBVIOUS
  <2>1. PICK s \in Server : doing[User].slot = Current(s)
    BY <1>4
  <2>2. Usable(doing[User].slot)' <=> Usable(Current(s))'
    BY <1>1, <2>1 DEF Usable, Off, NeedsApproval
  <2> QED BY <1>2, <2>1, <2>2
<1> QED BY <1>1, <1>2, <1>3, <1>5 DEF CommandInv

\* A step of a command on a server: what its state has to be for the facts about commands.
LEMMA CommandGoesOn ==
  ASSUME TypeOK, UNCHANGED gen, NEW s \in Server, s \in There',
         doing'[User].slot = Current(s), doing'[User].verb \notin {"none", "load"},
         doing'[User].at = "stop" => \/ s \in astray' \/ Usable(Current(s))'
                                     \/ \A c \in Conn : conn'[c] = "begun" /\ c[1] = Current(s) => doing'[User].awaits = c,
         \A t \in Server \ astray' : Active(t)' /\ Off(Current(t))' =>
           t = s /\ doing'[User].verb = "disable" /\ doing'[User].at = "stop",
         \A t \in Server \ astray' : Active(t)' /\ NeedsApproval(Current(t))' =>
           t = s /\ doing'[User].verb = "revoke" /\ doing'[User].at = "stop"
  PROVE  CommandInv'
<1>1. \A t \in Server : Current(t)' = Current(t) /\ Current(t)[1] = t /\ Current(t) \in Slot /\ Current(t)[2] = gen
  BY CurrentStays
<1>2. \A t \in Server : \A verb, at : On(t, verb, at)' <=>
        t = s /\ doing'[User].verb = verb /\ doing'[User].at = at
  BY <1>1 DEF On
<1>4. doing'[User].slot[2] = gen' /\ doing'[User].slot[1] = s
  BY <1>1
<1>5. Usable(doing[User].slot)' <=> Usable(Current(s))'
  BY <1>1 DEF Usable, Off, NeedsApproval
<1>6. \A t \in Server \ astray' : /\ Active(t)' /\ Off(Current(t))' => On(t, "disable", "stop")'
                                  /\ Active(t)' /\ NeedsApproval(Current(t))' => On(t, "revoke", "stop")'
  BY <1>2
<1> QED BY <1>1, <1>4, <1>5, <1>6 DEF CommandInv

\* Between two commands, what runs is neither off nor without approval.
LEMMA Between ==
  ASSUME TypeOK, CommandInv, doing[User].at # "stop"
  PROVE  \A s \in Server \ astray : Active(s) => ~Off(Current(s)) /\ ~NeedsApproval(Current(s))
BY DEF CommandInv, On

\* A connect on the slot in use of a server: either it begins nothing, or its server is astray,
\* or nothing of it runs and no reload has come to it.
LEMMA ConnectStep ==
  ASSUME TypeOK, RunInv, started, NEW u \in Actor, NEW verb \in VerbName, NEW s \in There, NEW slots \in [Slot -> Record],
         NEW wanted \in BOOLEAN, Connects(u, verb, Current(s), slots, wanted),
         \A x \in Slot : /\ slots[x].connection = slot[x].connection /\ slots[x].registered = slot[x].registered
                         /\ slots[x].version = slot[x].version /\ slots[x].connecting = slot[x].connecting,
         UNCHANGED <<gen, registry, started, closed>>
  PROVE  /\ RunInv' /\ astray \subseteq astray'
         /\ \A t \in Server \ astray' : Active(t)' => Active(t) \/ (t = s /\ wanted /\ ~Passed(Current(s)))
         /\ \A x \in Slot : /\ slot'[x].enabled = slots[x].enabled /\ slot'[x].disabled = slots[x].disabled
                            /\ slot'[x].version = slot[x].version
         /\ \A c \in Conn : conn'[c] = "begun" =>
              conn[c] = "begun" \/ (c[1] = Current(s) /\ (s \in astray' \/ ~Passed(Current(s))))
         /\ \E a \in Conn \cup {None} : Awaits(u, verb, "settle", Current(s), a)
<1>1. Current(s) \in Slot /\ s \in Server /\ Current(s)[1] = s /\ \A x \in Slot : slots[x] \in Record
  BY CurrentIsSlot DEF There
<1>2. CASE /\ conn' = conn /\ slot' = slots /\ astray' = astray
           /\ \E a \in Conn \cup {None} : Awaits(u, verb, "settle", Current(s), a)
  <2>1. RunInv' /\ \A t \in Server : Active(t)' <=> Active(t)
    BY <1>2, NothingRuns
  <2> QED BY <1>2, <2>1
<1>3. ASSUME NEW p \in Conn, wanted, ~closed, slots[Current(s)].connecting = None,
             p[1] = Current(s), conn[p] = "none", conn' = [conn EXCEPT ![p] = "begun"],
             slot' = [slots EXCEPT ![Current(s)].connecting = p],
             astray' = IF Live(slots[Current(s)].connection) \/ Passed(Current(s))
                       THEN astray \cup {Current(s)[1]} ELSE astray,
             Awaits(u, verb, "settle", Current(s), p)
      PROVE  /\ RunInv' /\ astray \subseteq astray'
             /\ \A t \in Server \ astray' : Active(t)' => Active(t) \/ (t = s /\ wanted /\ ~Passed(Current(s)))
             /\ \A x \in Slot : /\ slot'[x].enabled = slots[x].enabled /\ slot'[x].disabled = slots[x].disabled
                                /\ slot'[x].version = slot[x].version
             /\ \A c \in Conn : conn'[c] = "begun" =>
                  conn[c] = "begun" \/ (c[1] = Current(s) /\ (s \in astray' \/ ~Passed(Current(s))))
             /\ \E a \in Conn \cup {None} : Awaits(u, verb, "settle", Current(s), a)
  <2>0. /\ astray \subseteq astray' /\ astray' \subseteq astray \cup {s}
        /\ s \notin astray' => ~Live(slot[Current(s)].connection) /\ ~Passed(Current(s)) /\ s \notin astray
    BY <1>1, <1>3
  <2>1. s \notin astray' => \A o \in Conn : o[1] = Current(s) => conn[o] \notin {"begun", "open"}
    <3> SUFFICES ASSUME s \notin astray', NEW o \in Conn, o[1] = Current(s)
                 PROVE  conn[o] \notin {"begun", "open"}
      OBVIOUS
    <3>1. conn[o] # "begun"
      BY <1>1, <1>3, <2>0, NoneApart DEF RunInv
    <3>2. conn[o] # "open"
      BY <1>1, <2>0, NoneApart DEF RunInv, Live
    <3> QED BY <3>1, <3>2
  <2>2. /\ \A x \in Slot : /\ slot'[x].connection = slots[x].connection /\ slot'[x].registered = slots[x].registered
                           /\ slot'[x].version = slots[x].version /\ slot'[x].enabled = slots[x].enabled
                           /\ slot'[x].disabled = slots[x].disabled
        /\ \A x \in Slot \ {Current(s)} : slot'[x].connecting = slots[x].connecting
        /\ slot'[Current(s)].connecting = p
    BY <1>1, <1>3 DEF Record
  <2>3. RunInv' /\ \A t \in Server \ {s} : Active(t)' <=> Active(t)
    <3>1. \A x \in Slot : /\ slot'[x].connection = slot[x].connection /\ slot'[x].registered = slot[x].registered
                          /\ slot'[x].version = slot[x].version
      BY <2>2
    <3>2. \A x \in Slot \ {Current(s)} : slot'[x].connecting = slot[x].connecting
      BY <2>2
    <3> QED BY <1>3, <2>0, <2>1, <2>2, <3>1, <3>2, StartBegins
  <2>4. \A c \in Conn : conn'[c] = "begun" =>
          conn[c] = "begun" \/ (c[1] = Current(s) /\ (s \in astray' \/ ~Passed(Current(s))))
    BY <1>3, <2>0
  <2> QED BY <1>3, <2>0, <2>2, <2>3, <2>4
<1>4. \/ \E p \in Conn :
              /\ wanted /\ ~closed /\ slots[Current(s)].connecting = None
              /\ p[1] = Current(s) /\ conn[p] = "none"
              /\ conn' = [conn EXCEPT ![p] = "begun"]
              /\ slot' = [slots EXCEPT ![Current(s)].connecting = p]
              /\ astray' = IF Live(slots[Current(s)].connection) \/ Passed(Current(s))
                           THEN astray \cup {Current(s)[1]} ELSE astray
              /\ Awaits(u, verb, "settle", Current(s), p)
      \/ /\ conn' = conn /\ slot' = slots /\ astray' = astray
         /\ \E a \in Conn \cup {None} : Awaits(u, verb, "settle", Current(s), a)
  BY <1>1, ConnectEffect
<1> QED BY <1>2, <1>3, <1>4

-----------------------------------------------------------------------------
(* Every step keeps the invariant *)

\* A connection that a slot knows was made once.
KnownInv == \A c \in Conn, x \in Slot : slot[x].connection = c => conn[c] \in {"open", "closed"}

\* Nobody does anything before the session starts.
StartInv == ~started => \A u \in Actor : doing[u] = Idle

Inv == TypeOK /\ RunInv /\ CommandInv /\ KnownInv /\ StartInv

LEMMA InvInit == Init => Inv
<1> SUFFICES ASSUME Init PROVE Inv
  OBVIOUS
<1>1. TypeOK
  BY TypeInit
<1>2. /\ \A c \in Conn : conn[c] = "none" 
      /\ registry = {} /\ ~started /\ ~closed /\ \A u \in Actor : doing[u] = Idle
  BY DEF Init
<1>3. \A s \in Server : ~Active(s)
  BY <1>2 DEF Active
<1>4. \A x \in Slot : slot[x].connection = None
  BY DEF Init, Fresh
<1>5. doing[User] = Idle
  BY <1>2 DEF Actor
<1> QED BY <1>1, <1>2, <1>3, <1>4, <1>5, NoneApart DEF Inv, RunInv, CommandInv, KnownInv, StartInv, Idle

\* The commands and the calls begin after the start of the session.
LEMMA StartKeeps ==
  ASSUME TypeOK, StartInv, [Next]_vars
  PROVE  StartInv'
<1>1. CASE started
  <2>1. started'
    BY <1>1 DEF TypeOK, Next, StartSession, Close, Enable, Disable, Reconnect, Approve, Revoke, Take, Approved, Revoked,
         Stop, Cleared, Load, LoadNext, LoadStops, LoadEnds, Ends, Call, Leaves, StartEnds, ServerDies, vars
  <2> QED BY <2>1 DEF StartInv
<1>2. CASE ~started
  <2>1. \A u \in Actor : doing[u].verb = "none" /\ doing[u].at = "done" /\ doing[u].slot = None
    BY <1>2 DEF StartInv, Idle
  <2>2. doing' = doing \/ started'
    BY <1>2, <2>1 DEF Actor, Next, StartSession, Close, Enable, Disable, Reconnect, Approve, Revoke, Take, Approved, Revoked,
         Stop, Cleared, Load, LoadNext, LoadStops, LoadEnds, Ends, Call, Leaves, StartEnds, ServerDies, vars, Command, Begins
  <2> QED BY <1>2, <2>2 DEF StartInv
<1> QED BY <1>1, <1>2

\* An actor that does something has seen the start of the session.
LEMMA HasStarted ==
  ASSUME TypeOK, StartInv, NEW u \in Actor, doing[u].verb # "none" \/ doing[u].at # "done"
  PROVE  started
BY DEF StartInv, Idle, TypeOK

\* A call finds the server running or being started, or starts it: where that start is not
\* what the command under way or the reload has provided for, the server is astray.
LEMMA CallKeeps ==
  ASSUME Inv, NEW w \in Worker, Call(w)
  PROVE  RunInv' /\ CommandInv'
<1>0. TypeOK /\ RunInv /\ CommandInv /\ w \in Actor /\ User \in Actor /\ w # User
  BY UserIsNoWorker DEF Inv, Actor
<1>1. PICK s \in There : s = doing[w].slot[1] /\ Usable(Current(s)) /\ Connects(w, "call", Current(s), slot, TRUE)
  BY DEF Call
<1>2. started /\ s \in Server /\ UNCHANGED <<gen, registry, approved, started, closed>>
  BY <1>0, HasStarted DEF Call, There, Inv
<1>3. /\ RunInv' /\ astray \subseteq astray'
      /\ \A t \in Server \ astray' : Active(t)' => Active(t) \/ (t = s /\ ~Passed(Current(s)))
      /\ \A x \in Slot : Kept(x)
      /\ \A c \in Conn : conn'[c] = "begun" =>
           conn[c] = "begun" \/ (c[1] = Current(s) /\ (s \in astray' \/ ~Passed(Current(s))))
      /\ \E a \in Conn \cup {None} : Awaits(w, "call", "settle", Current(s), a)
  <2>1. slot \in [Slot -> Record] /\ "call" \in VerbName
    BY <1>0 DEF TypeOK, VerbName
  <2>w. PICK wanted \in BOOLEAN : wanted = TRUE
    OBVIOUS
  <2>c. Connects(w, "call", Current(s), slot, wanted)
    BY <1>1, <2>w
  <2>2. /\ RunInv' /\ astray \subseteq astray'
        /\ \A t \in Server \ astray' : Active(t)' => Active(t) \/ (t = s /\ wanted /\ ~Passed(Current(s)))
        /\ \A x \in Slot : /\ slot'[x].enabled = slot[x].enabled /\ slot'[x].disabled = slot[x].disabled
                           /\ slot'[x].version = slot[x].version
        /\ \A c \in Conn : conn'[c] = "begun" =>
             conn[c] = "begun" \/ (c[1] = Current(s) /\ (s \in astray' \/ ~Passed(Current(s))))
        /\ \E a \in Conn \cup {None} : Awaits(w, "call", "settle", Current(s), a)
    BY <1>0, <1>2, <2>1, <2>c, ConnectStep
  <2> QED BY <2>2 DEF Kept
<1>4. doing'[User] = doing[User]
  BY <1>0, <1>3 DEF Awaits, To, TypeOK
<1>5. \A t \in Server : Current(t)' = Current(t) /\ Current(t)[1] = t /\ Current(t) \in Slot /\ Current(t)[2] = gen
  BY <1>0, <1>2, CurrentStays
<1>6. There' = There
  BY <1>0, <1>2, <1>3, <1>5, ThereStays DEF Kept
<1>7. \A t \in Server : /\ Off(Current(t))' <=> Off(Current(t))
                        /\ NeedsApproval(Current(t))' <=> NeedsApproval(Current(t))
                        /\ \A verb, at : On(t, verb, at)' <=> On(t, verb, at)
  <2> TAKE t \in Server
  <2>1. Kept(Current(t)) /\ Current(t)' = Current(t)
    BY <1>3, <1>5
  <2> QED BY <1>2, <1>4, <2>1 DEF Kept, NeedsApproval, Off, On
<1>8. ~Off(Current(s)) /\ ~NeedsApproval(Current(s))
  BY <1>1 DEF Usable
<1>9. doing'[User].at = "stop" /\ doing'[User].slot[1] \notin astray'
        /\ (doing'[User].verb = "load" \/ ~Usable(doing[User].slot)') =>
        \A c \in Conn : conn'[c] = "begun" /\ c[1] = doing'[User].slot => doing'[User].awaits = c
  <2> SUFFICES ASSUME doing[User].at = "stop", doing[User].slot[1] \notin astray',
                      doing[User].verb = "load" \/ ~Usable(doing[User].slot)',
                      NEW c \in Conn, conn'[c] = "begun", c[1] = doing[User].slot
               PROVE  doing[User].awaits = c
    BY <1>4
  <2>1. PICK t \in Server : c[1] = Current(t)
    <3>1. c[1] \in Slot /\ c[1] # None
      BY NoneApart DEF Conn
    <3> QED BY <1>0, <3>1 DEF CommandInv, Current, Slot
  <2>2. t \notin astray' /\ doing[User].slot = Current(t) /\ doing[User].slot[1] = t
    BY <1>5, <2>1
  <2>3. Usable(doing[User].slot)' <=> Usable(Current(t))
    <3>1. Usable(doing[User].slot)' <=> Usable(Current(t))'
      BY <1>4, <1>5, <2>2 DEF Usable, Off, NeedsApproval
    <3> QED BY <1>7, <3>1 DEF Usable
  <2>4. CASE conn[c] = "begun"
    BY <1>0, <1>3, <2>2, <2>3, <2>4 DEF CommandInv
  <2>5. CASE conn[c] # "begun"
    <3>1. c[1] = Current(s) /\ t = s /\ ~Passed(Current(s))
      BY <1>2, <1>3, <1>5, <2>1, <2>2, <2>5
    <3>2. doing[User].verb # "load"
      BY <1>0, <1>5, <2>2, <3>1 DEF CommandInv, Passed
    <3> QED BY <1>1, <2>3, <3>1, <3>2
  <2> QED BY <2>4, <2>5
<1>10. doing'[User].verb = "load" =>
         \A t \in Server \ astray' : t \notin doing'[User].left /\ Active(t)' => On(t, "load", "stop")'
  <2> SUFFICES ASSUME doing[User].verb = "load", NEW t \in Server, t \notin astray', t \notin doing[User].left, Active(t)'
               PROVE  On(t, "load", "stop")
    BY <1>4, <1>7
  <2>1. Active(t)
    BY <1>3, <1>5 DEF Passed
  <2> QED BY <1>0, <1>3, <2>1 DEF CommandInv
<1>11. \A t \in Server \ astray' : /\ Active(t)' /\ Off(Current(t))' => On(t, "disable", "stop")'
                                   /\ Active(t)' /\ NeedsApproval(Current(t))' => On(t, "revoke", "stop")'
  BY <1>0, <1>3, <1>7, <1>8 DEF CommandInv
<1>12. /\ doing'[User].slot # None =>
            doing'[User].slot[2] = gen' /\ (doing'[User].verb # "load" => doing'[User].slot[1] \in There')
       /\ doing'[User].verb = "load" /\ doing'[User].at = "stop" => doing'[User].slot[1] \notin doing'[User].left
       /\ doing'[User].verb = "none" => doing'[User] = Idle
  BY <1>0, <1>2, <1>4, <1>6 DEF CommandInv
<1>13. CommandInv'
  BY <1>9, <1>10, <1>11, <1>12 DEF CommandInv
<1> QED BY <1>3, <1>13

\* A tool is taken from the registry, a call is left, a command or a call is over.
LEMMA QuietKeeps ==
  ASSUME Inv, NEW u \in Actor,
         Ends(u) \/ (u \in Worker /\ (Leaves(u) \/ \E s \in Server : Take(u, s)))
  PROVE  RunInv' /\ CommandInv'
<1>0. TypeOK /\ RunInv /\ CommandInv /\ User \in Actor
  BY DEF Inv, Actor
<1>1. UNCHANGED <<gen, slot, conn, registry, approved, started, closed, astray>> /\ \E d : To(u, d)
  BY DEF Ends, Leaves, Take, Awaits
<1>2. RunInv' /\ \A t \in Server : Active(t)' <=> Active(t)
  BY <1>0, <1>1, NothingRuns
<1>3. CASE u # User
  <2>1. doing'[User] = doing[User]
    BY <1>0, <1>1, <1>3 DEF To, TypeOK
  <2> QED BY <1>0, <1>1, <1>2, <2>1, CommandWaits DEF Kept
<1>4. CASE u = User
  <2>1. doing[User].at = "settle" /\ doing[User].verb # "load" /\ doing'[User] = Idle
    BY <1>0, <1>4, UserIsNoWorker DEF Ends, To, TypeOK, Work
  <2>2. \A t \in Server \ astray' : Active(t)' => ~Off(Current(t))' /\ ~NeedsApproval(Current(t))'
    BY <1>0, <1>1, <1>2, <2>1, Between DEF Current, NeedsApproval, Off
  <2> QED BY <1>1, <1>2, <2>1, <2>2 DEF CommandInv, Idle
<1> QED BY <1>3, <1>4, <1>2

\* Enable: what has its tools registered is not started again.
LEMMA EnableKeeps ==
  ASSUME Inv, NEW s \in Server, Enable(s)
  PROVE  RunInv' /\ CommandInv'
<1> DEFINE x == Current(s)
<1>0. TypeOK /\ RunInv /\ CommandInv /\ User \in Actor
  BY DEF Inv, Actor
<1>1. /\ started /\ s \in There /\ doing[User] = Idle /\ slot \in [Slot -> Record]
      /\ UNCHANGED <<gen, registry, approved, started, closed>>
      /\ x \in Slot
  BY <1>0, CurrentIsSlot DEF Enable, Command, Begins, TypeOK, CommandInv
<1>2. PICK slots \in [Slot -> Record] : slots = [slot EXCEPT ![x].disabled = FALSE, ![x].enabled = TRUE]
  BY <1>1, FieldTyped
<1>3. /\ \A y \in Slot : /\ slots[y].connection = slot[y].connection /\ slots[y].registered = slot[y].registered
                         /\ slots[y].version = slot[y].version /\ slots[y].connecting = slot[y].connecting
      /\ \A y \in Slot \ {x} : slots[y].disabled = slot[y].disabled /\ slots[y].enabled = slot[y].enabled
      /\ slots[x].disabled = FALSE /\ slots[x].enabled = TRUE
  BY <1>1, <1>2 DEF Record
<1>5. PICK wanted \in BOOLEAN : wanted = (~NeedsApproval(x) /\ ~slot[x].registered)
  OBVIOUS
<1>6. /\ RunInv' /\ astray \subseteq astray'
      /\ \A t \in Server \ astray' : Active(t)' => Active(t) \/ (t = s /\ wanted)
      /\ \A y \in Slot : /\ slot'[y].enabled = slots[y].enabled /\ slot'[y].disabled = slots[y].disabled
                         /\ slot'[y].version = slot[y].version
      /\ \E a \in Conn \cup {None} : Awaits(User, "enable", "settle", x, a)
  <2>1. "enable" \in VerbName
    BY DEF VerbName
  <2>2. Connects(User, "enable", Current(s), slots, wanted)
    BY <1>2, <1>5 DEF Enable
  <2> HIDE DEF x
  <2>3. /\ RunInv' /\ astray \subseteq astray'
        /\ \A t \in Server \ astray' : Active(t)' => Active(t) \/ (t = s /\ wanted /\ ~Passed(Current(s)))
        /\ \A y \in Slot : /\ slot'[y].enabled = slots[y].enabled /\ slot'[y].disabled = slots[y].disabled
                           /\ slot'[y].version = slot[y].version
        /\ \E a \in Conn \cup {None} : Awaits(User, "enable", "settle", Current(s), a)
    BY <1>0, <1>1, <1>3, <2>1, <2>2, ConnectStep
  <2> QED BY <2>3 DEF x
<1>7. /\ doing'[User].verb = "enable" /\ doing'[User].at = "settle" /\ doing'[User].slot = x
  BY <1>0, <1>6 DEF Awaits, To, TypeOK
<1>8. \A t \in Server : Current(t)' = Current(t) /\ Current(t)[1] = t /\ Current(t) \in Slot /\ Current(t)[2] = gen
  BY <1>0, <1>1, CurrentStays
<1>9. \A t \in Server : /\ NeedsApproval(Current(t))' <=> NeedsApproval(Current(t))
                        /\ Off(Current(t))' => Off(Current(t)) /\ t # s
  BY <1>1, <1>3, <1>6, <1>8 DEF NeedsApproval, Off
<1>10. \A t \in Server \ astray : Active(t) => ~Off(Current(t)) /\ ~NeedsApproval(Current(t))
  BY <1>0, <1>1, Between DEF Idle
<1>11. \A t \in Server \ astray' : Active(t)' => ~Off(Current(t))' /\ ~NeedsApproval(Current(t))'
  BY <1>5, <1>6, <1>9, <1>10
<1>12. s \in There'
  BY <1>1, <1>6, <1>8 DEF There
<1> QED BY <1>0, <1>1, <1>6, <1>7, <1>11, <1>12, CommandGoesOn

\* Disable, reconnect, logout, approve and revoke as they begin.
LEMMA CommandBegins ==
  ASSUME Inv, NEW s \in Server, Disable(s) \/ Reconnect(s) \/ Approve(s) \/ Revoke(s)
  PROVE  RunInv' /\ CommandInv'
<1> DEFINE x == Current(s)
<1>0. TypeOK /\ RunInv /\ CommandInv /\ User \in Actor
  BY DEF Inv, Actor
<1>1. /\ s \in There /\ doing[User] = Idle /\ x \in Slot /\ x[2] = gen /\ slot \in [Slot -> Record]
      /\ UNCHANGED <<gen, conn, registry, approved, started, closed, astray>>
  BY <1>0, CurrentIsSlot DEF Disable, Reconnect, Approve, Revoke, Command, Begins, TypeOK, CommandInv
<1>2. /\ \A y \in Slot : /\ slot'[y].connection = slot[y].connection /\ slot'[y].registered = slot[y].registered
                         /\ slot'[y].version = slot[y].version /\ slot'[y].connecting = slot[y].connecting
      /\ \A y \in Slot \ {x} : slot'[y] = slot[y]
      /\ ~Disable(s) => slot'[x] = slot[x]
  BY <1>1 DEF Disable, Reconnect, Approve, Revoke, Record
<1>3. RunInv' /\ \A t \in Server : Active(t)' <=> Active(t)
  BY <1>0, <1>1, <1>2, NothingRuns
<1>4. \A t \in Server : Current(t)' = Current(t) /\ Current(t)[1] = t /\ Current(t) \in Slot
  BY <1>0, <1>1, CurrentStays
<1>5. \A t \in Server \ astray : Active(t) => ~Off(Current(t)) /\ ~NeedsApproval(Current(t))
  BY <1>0, <1>1, Between DEF Idle
<1>6. \A t \in Server : /\ NeedsApproval(Current(t))' <=> NeedsApproval(Current(t))
                        /\ t # s \/ ~Disable(s) => (Off(Current(t))' <=> Off(Current(t)))
  BY <1>1, <1>2, <1>4 DEF NeedsApproval, Off
<1>7. /\ doing'[User].slot = x /\ doing'[User].verb \in {"disable", "reconnect", "logout", "approve", "revoke"}
      /\ doing'[User].at = "stop" => doing'[User].awaits = slot[x].connecting
      /\ Disable(s) => doing'[User].verb = "disable" /\ doing'[User].at = "stop"
  <2>1. CASE Disable(s)
    BY <1>0, <2>1 DEF Disable, Awaits, To, TypeOK
  <2>2. CASE Reconnect(s) /\ ~Disable(s)
    <3>1. PICK verb \in {"reconnect", "logout"} : Awaits(User, verb, "stop", x, slot[x].connecting)
      BY <2>2 DEF Reconnect
    <3> QED BY <1>0, <2>2, <3>1 DEF Awaits, To, TypeOK
  <2>3. CASE Approve(s) /\ ~Disable(s)
    BY <1>0, <2>3 DEF Approve, Awaits, To, TypeOK
  <2>4. CASE Revoke(s) /\ ~Disable(s)
    BY <1>0, <2>4 DEF Revoke, Awaits, To, TypeOK
  <2> QED BY <2>1, <2>2, <2>3, <2>4
<1>8. s \notin astray' => \A c \in Conn : conn'[c] = "begun" /\ c[1] = x => slot[x].connecting = c
  BY <1>0, <1>1, <1>4 DEF RunInv
<1>9. s \in There'
  BY <1>1, <1>2, <1>4 DEF There
<1>10. \A t \in Server \ astray' : /\ Active(t)' /\ Off(Current(t))' => t = s /\ Disable(s)
                                   /\ ~(Active(t)' /\ NeedsApproval(Current(t))')
  BY <1>1, <1>3, <1>5, <1>6
<1>11. CommandInv'
  BY <1>0, <1>1, <1>7, <1>8, <1>9, <1>10, CommandGoesOn
<1> QED BY <1>3, <1>11

\* The approval written, a server that is not off is started.
LEMMA ApprovedKeeps ==
  ASSUME Inv, Approved
  PROVE  RunInv' /\ CommandInv'
<1>0. TypeOK /\ RunInv /\ CommandInv /\ User \in Actor
  BY DEF Inv, Actor
<1>p. PICK x \in Slot, s \in Server : x = doing[User].slot /\ s = x[1]
  BY <1>0 DEF Approved, TypeOK, Work, Slot
<1>1. /\ doing[User].verb = "approve" /\ doing[User].at = "write" /\ slot \in [Slot -> Record]
      /\ approved' = OfOthers(s) \cup {<<s, slot[x].version>>}
      /\ UNCHANGED <<gen, registry, started, closed>>
      /\ x # None
  BY <1>0, <1>p, NoneApart DEF Approved, TypeOK, Work
<1>2. started /\ s \in There /\ Current(s) = x
  BY <1>0, <1>p, <1>1, HasStarted DEF CommandInv, Current, Slot, Inv
<1>5. PICK wanted \in BOOLEAN : wanted = ~Off(x)
  OBVIOUS
<1>6. /\ RunInv' /\ astray \subseteq astray'
      /\ \A t \in Server \ astray' : Active(t)' => Active(t) \/ (t = s /\ wanted /\ ~Passed(Current(s)))
      /\ \A y \in Slot : /\ slot'[y].enabled = slot[y].enabled /\ slot'[y].disabled = slot[y].disabled
                         /\ slot'[y].version = slot[y].version
      /\ \E a \in Conn \cup {None} : Awaits(User, "approve", "settle", Current(s), a)
  <2>1. "approve" \in VerbName
    BY DEF VerbName
  <2>2. Connects(User, "approve", Current(s), slot, wanted)
    BY <1>p, <1>2, <1>5 DEF Approved
  <2> QED BY <1>0, <1>1, <1>2, <2>1, <2>2, ConnectStep
<1>7. /\ doing'[User].verb = "approve" /\ doing'[User].at = "settle" /\ doing'[User].slot = Current(s)
  BY <1>0, <1>6 DEF Awaits, To, TypeOK
<1>8. \A t \in Server : Current(t)' = Current(t) /\ Current(t)[1] = t /\ Current(t) \in Slot
  BY <1>0, <1>1, CurrentStays
<1>9. s \in There'
  BY <1>2, <1>6, <1>8 DEF There
<1>10. \A t \in Server : Off(Current(t))' <=> Off(Current(t))
  BY <1>6, <1>8 DEF Off
<1>11. \A t \in Server : NeedsApproval(Current(t))' => NeedsApproval(Current(t)) /\ t # s
  <2> SUFFICES ASSUME NEW t \in Server, NeedsApproval(Current(t))' PROVE NeedsApproval(Current(t)) /\ t # s
    OBVIOUS
  <2>1. t \in Asks /\ <<t, slot[Current(t)].version>> \notin approved'
    BY <1>6, <1>8 DEF NeedsApproval
  <2>2. t # s
    BY <1>1, <1>2, <2>1
  <2>3. <<t, slot[Current(t)].version>> \notin approved
    BY <1>1, <2>1, <2>2 DEF OfOthers
  <2> QED BY <1>8, <2>1, <2>2, <2>3 DEF NeedsApproval
<1>12. \A t \in Server \ astray : Active(t) => ~Off(Current(t)) /\ ~NeedsApproval(Current(t))
  BY <1>0, <1>1, Between
<1>13. \A t \in Server \ astray' : Active(t)' => ~Off(Current(t))' /\ ~NeedsApproval(Current(t))'
  BY <1>2, <1>5, <1>6, <1>10, <1>11, <1>12
<1>14. CommandInv'
  BY <1>0, <1>1, <1>2, <1>7, <1>9, <1>13, CommandGoesOn
<1> QED BY <1>6, <1>14

\* The approval gone, the server is about to be stopped.
LEMMA RevokedKeeps ==
  ASSUME Inv, Revoked
  PROVE  RunInv' /\ CommandInv'
<1>0. TypeOK /\ RunInv /\ CommandInv /\ User \in Actor
  BY DEF Inv, Actor
<1>p. PICK x \in Slot, s \in Server : x = doing[User].slot /\ s = x[1]
  BY <1>0 DEF Revoked, TypeOK, Work, Slot
<1>1. /\ doing[User].verb = "revoke" /\ doing[User].at = "write"
      /\ approved' = OfOthers(s) /\ Awaits(User, "revoke", "stop", x, slot[x].connecting)
      /\ UNCHANGED <<gen, slot, conn, registry, started, closed, astray>>
      /\ x # None
  BY <1>0, <1>p, NoneApart DEF Revoked, TypeOK, Work
<1>2. s \in There /\ Current(s) = x
  BY <1>0, <1>p, <1>1 DEF CommandInv, Current, Slot
<1>3. RunInv' /\ \A t \in Server : Active(t)' <=> Active(t)
  BY <1>0, <1>p, <1>1, NothingRuns
<1>4. /\ doing'[User].verb = "revoke" /\ doing'[User].at = "stop" /\ doing'[User].slot = x
      /\ doing'[User].awaits = slot[x].connecting
  BY <1>0, <1>p, <1>1 DEF Awaits, To, TypeOK
<1>5. \A t \in Server : Current(t)' = Current(t) /\ Current(t)[1] = t
  BY <1>0, <1>1, CurrentStays
<1>6. s \in There'
  BY <1>0, <1>1, <1>2, ThereStays
<1>7. \A t \in Server : /\ t # s => (NeedsApproval(Current(t))' <=> NeedsApproval(Current(t)))
                        /\ Off(Current(t))' <=> Off(Current(t))
  BY <1>1, <1>5 DEF NeedsApproval, OfOthers, Off
<1>8. \A t \in Server \ astray : Active(t) => ~Off(Current(t)) /\ ~NeedsApproval(Current(t))
  BY <1>0, <1>1, Between
<1>9. s \notin astray' => \A c \in Conn : conn'[c] = "begun" /\ c[1] = x => slot[x].connecting = c
  BY <1>0, <1>p, <1>1 DEF RunInv
<1>10. CommandInv'
  <2>1. \A t \in Server \ astray' : /\ ~(Active(t)' /\ Off(Current(t))')
                                    /\ Active(t)' /\ NeedsApproval(Current(t))' => t = s
    BY <1>1, <1>3, <1>7, <1>8
  <2> QED BY <1>0, <1>p, <1>1, <1>2, <1>4, <1>6, <1>9, <2>1, CommandGoesOn
<1> QED BY <1>3, <1>10

\* The stop of a command: what is not wanted any more no longer starts either.
LEMMA StopKeeps ==
  ASSUME Inv, Stop
  PROVE  RunInv' /\ CommandInv'
<1>0. TypeOK /\ RunInv /\ CommandInv /\ User \in Actor
  BY DEF Inv, Actor
<1>p. PICK x \in Slot : x = doing[User].slot
  BY <1>0 DEF Stop, TypeOK, Work, Slot
<1>1. /\ doing[User].verb # "load" /\ doing[User].at = "stop" /\ Settled(doing[User].awaits)
      /\ StopNow({x}) /\ UNCHANGED <<gen, approved, started, closed, astray>>
      /\ \E at \in {"clear", "settle"} : Awaits(User, doing[User].verb, at, x, None)
      /\ x # None
  BY <1>0, <1>p, NoneApart DEF Stop, TypeOK, Work
<1>2. x[2] = gen /\ x[1] \in There /\ Current(x[1]) = x
  BY <1>0, <1>p, <1>1 DEF CommandInv, Current, Slot
<1>3. x[1] \notin astray /\ ~Usable(x) => \A c \in Conn : c[1] = x => conn[c] # "begun"
  <2> SUFFICES ASSUME x[1] \notin astray, ~Usable(x), NEW c \in Conn, c[1] = x, conn[c] = "begun"
               PROVE  FALSE
    OBVIOUS
  <2>1. doing[User].awaits = c
    BY <1>0, <1>p, <1>1 DEF CommandInv
  <2> QED BY <1>1, <2>1, NoneApart DEF Settled
<1>4. /\ RunInv'
      /\ \A t \in Server \ astray : Active(t)' =>
           Active(t) /\ (Current(t) = x => \E c \in Conn : conn[c] = "begun" /\ c[1] = x)
      /\ \A y \in Slot : Kept(y)
  BY <1>0, <1>1, <1>2, Stops
<1>5. /\ doing'[User].verb = doing[User].verb /\ doing'[User].at \in {"clear", "settle"}
      /\ doing'[User].slot = x
  BY <1>0, <1>p, <1>1 DEF Awaits, To, TypeOK
<1>6. \A t \in Server : Current(t)' = Current(t) /\ Current(t)[1] = t /\ Current(t) \in Slot
  BY <1>0, <1>1, CurrentStays
<1>7. x[1] \in Server /\ x[1] \in There'
  BY <1>0, <1>1, <1>2, <1>4, <1>6, ThereStays DEF Kept, There
<1>8. \A t \in Server : /\ Off(Current(t))' <=> Off(Current(t))
                        /\ NeedsApproval(Current(t))' <=> NeedsApproval(Current(t))
  BY <1>1, <1>4, <1>6 DEF Kept, Off, NeedsApproval
<1>9. \A t \in Server \ astray : Active(t)' => ~Off(Current(t)) /\ ~NeedsApproval(Current(t))
  <2> SUFFICES ASSUME NEW t \in Server \ astray, Active(t)', Off(Current(t)) \/ NeedsApproval(Current(t))
               PROVE  FALSE
    OBVIOUS
  <2>1. Current(t) = x
    BY <1>0, <1>p, <1>4 DEF CommandInv, On
  <2>2. x[1] \notin astray /\ ~Usable(x)
    BY <1>6, <2>1 DEF Usable
  <2> QED BY <1>3, <1>4, <2>1, <2>2
<1>11. doing[User].verb # "none"
  BY <1>0, <1>1 DEF CommandInv, Idle
<1>12. CommandInv'
  BY <1>0, <1>1, <1>2, <1>5, <1>7, <1>8, <1>9, <1>11, CommandGoesOn
<1> QED BY <1>4, <1>12

\* After the stop, a reconnect starts a server that is wanted anew.
LEMMA ClearedKeeps ==
  ASSUME Inv, Cleared
  PROVE  RunInv' /\ CommandInv'
<1>0. TypeOK /\ RunInv /\ CommandInv /\ User \in Actor
  BY DEF Inv, Actor
<1>p. PICK x \in Slot, s \in Server, v \in VerbName :
        x = doing[User].slot /\ s = x[1] /\ v = doing[User].verb
  BY <1>0 DEF Cleared, TypeOK, Work, Slot
<1>1. /\ doing[User].at = "clear" /\ slot \in [Slot -> Record]
      /\ Connects(User, v, x, [slot EXCEPT ![x].auth = FALSE], v = "reconnect" /\ Usable(x))
      /\ UNCHANGED <<gen, registry, approved, started, closed>>
      /\ x # None /\ v # "load"
  BY <1>0, <1>p, NoneApart DEF Cleared, TypeOK, Work
<1>v. v # "none" /\ started
  BY <1>0, <1>p, <1>1, HasStarted DEF CommandInv, Idle, Inv
<1>2. s \in There /\ Current(s) = x
  BY <1>0, <1>p, <1>1 DEF CommandInv, Current, Slot
<1>5. PICK wanted \in BOOLEAN : wanted = (v = "reconnect" /\ Usable(x))
  OBVIOUS
<1>s. PICK slots \in [Slot -> Record] : slots = [slot EXCEPT ![x].auth = FALSE]
  BY <1>p, <1>1, FieldTyped
<1>t. \A y \in Slot : /\ slots[y].connection = slot[y].connection /\ slots[y].registered = slot[y].registered
                      /\ slots[y].version = slot[y].version /\ slots[y].connecting = slot[y].connecting
                      /\ slots[y].enabled = slot[y].enabled /\ slots[y].disabled = slot[y].disabled
  BY <1>p, <1>1, <1>s DEF Record
<1>6. /\ RunInv' /\ astray \subseteq astray'
      /\ \A t \in Server \ astray' : Active(t)' => Active(t) \/ (t = s /\ wanted /\ ~Passed(Current(s)))
      /\ \A y \in Slot : /\ slot'[y].enabled = slots[y].enabled /\ slot'[y].disabled = slots[y].disabled
                         /\ slot'[y].version = slot[y].version
      /\ \E a \in Conn \cup {None} : Awaits(User, v, "settle", Current(s), a)
  <2>1. Connects(User, v, Current(s), slots, wanted)
    BY <1>1, <1>2, <1>5, <1>s
  <2> QED BY <1>0, <1>1, <1>v, <1>2, <1>t, <2>1, ConnectStep
<1>7. /\ doing'[User].verb = v /\ doing'[User].at = "settle" /\ doing'[User].slot = Current(s)
  BY <1>0, <1>6 DEF Awaits, To, TypeOK
<1>8. \A t \in Server : Current(t)' = Current(t) /\ Current(t)[1] = t /\ Current(t) \in Slot
  BY <1>0, <1>1, CurrentStays
<1>9. s \in There'
  BY <1>2, <1>6, <1>8 DEF There
<1>10. \A t \in Server : /\ Off(Current(t))' <=> Off(Current(t))
                         /\ NeedsApproval(Current(t))' <=> NeedsApproval(Current(t))
  BY <1>1, <1>6, <1>8, <1>t DEF Off, NeedsApproval
<1>11. \A t \in Server \ astray : Active(t) => ~Off(Current(t)) /\ ~NeedsApproval(Current(t))
  BY <1>0, <1>1, Between
<1>12. wanted => ~Off(Current(s)) /\ ~NeedsApproval(Current(s))
  BY <1>2, <1>5 DEF Usable
<1>13. \A t \in Server \ astray' : Active(t)' => ~Off(Current(t))' /\ ~NeedsApproval(Current(t))'
  BY <1>6, <1>10, <1>11, <1>12
<1>14. CommandInv'
  BY <1>0, <1>p, <1>1, <1>v, <1>7, <1>9, <1>13, CommandGoesOn
<1> QED BY <1>6, <1>14

\* A reload makes the new slots beside those in use.
LEMMA LoadKeeps ==
  ASSUME Inv, Load
  PROVE  RunInv' /\ CommandInv'
<1>0. TypeOK /\ RunInv /\ CommandInv /\ User \in Actor
  BY DEF Inv, Actor
<1>1. /\ doing[User] = Idle /\ UNCHANGED <<gen, conn, registry, approved, started, closed, astray>>
      /\ To(User, [verb |-> "load", at |-> "next", slot |-> None, awaits |-> None, left |-> There])
      /\ \A x \in Slot : x[2] = gen => slot'[x] = slot[x]
  BY <1>0 DEF Load, Begins, TypeOK, CommandInv
<1>2. RunInv' /\ \A s \in Server : Active(s)' <=> Active(s)
  BY <1>0, <1>1, NothingRuns
<1>3. /\ doing'[User].verb = "load" /\ doing'[User].at = "next" /\ doing'[User].slot = None
      /\ doing'[User].left = There
  BY <1>0, <1>1 DEF To, TypeOK
<1>4. \A s \in Server : Current(s)' = Current(s) /\ slot'[Current(s)] = slot[Current(s)] /\ Current(s)[1] = s
  BY <1>0, <1>1, CurrentStays
<1>5. \A s \in Server \ astray : Active(s) => s \in There
  BY <1>0 DEF RunInv
<1>6. \A s \in Server \ astray : Active(s) => ~Off(Current(s)) /\ ~NeedsApproval(Current(s))
  BY <1>0, <1>1, Between DEF Idle
<1>7. \A s \in Server : /\ NeedsApproval(Current(s))' <=> NeedsApproval(Current(s))
                        /\ Off(Current(s))' <=> Off(Current(s))
  BY <1>1, <1>4 DEF NeedsApproval, Off
<1>8. CommandInv'
  BY <1>1, <1>2, <1>3, <1>5, <1>6, <1>7 DEF CommandInv
<1> QED BY <1>2, <1>8

\* The reload goes on to the next old slot.
LEMMA LoadNextKeeps ==
  ASSUME Inv, LoadNext
  PROVE  RunInv' /\ CommandInv'
<1>0. TypeOK /\ RunInv /\ CommandInv /\ User \in Actor
  BY DEF Inv, Actor
<1>1. doing[User].verb = "load" /\ doing[User].at = "next" /\ doing[User].left \subseteq Server
  BY <1>0 DEF LoadNext, TypeOK, Work
<1>2. PICK s \in doing[User].left :
        To(User, [verb |-> "load", at |-> "stop", slot |-> Current(s),
                  awaits |-> slot[Current(s)].connecting, left |-> doing[User].left \ {s}])
  BY DEF LoadNext
<1>3. UNCHANGED <<gen, slot, conn, registry, approved, started, closed, astray>> /\ s \in Server
  BY <1>1, <1>2 DEF LoadNext
<1>4. RunInv' /\ \A t \in Server : Active(t)' <=> Active(t)
  BY <1>0, <1>3, NothingRuns
<1>5. /\ doing'[User].verb = "load" /\ doing'[User].at = "stop" /\ doing'[User].slot = Current(s)
      /\ doing'[User].left = doing[User].left \ {s} /\ doing'[User].awaits = slot[Current(s)].connecting
  BY <1>0, <1>2 DEF To, TypeOK
<1>6. \A t \in Server : Current(t)' = Current(t) /\ Current(t)[1] = t /\ Current(t)[2] = gen
  BY <1>0, <1>3, CurrentStays
<1>7. \A t \in Server \ astray : Active(t)' => ~Off(Current(t))' /\ ~NeedsApproval(Current(t))'
  BY <1>0, <1>1, <1>3, <1>4, <1>6, Between DEF NeedsApproval, Off
<1>8. \A t \in Server \ astray : Active(t) => t \in doing[User].left
  BY <1>0, <1>1 DEF CommandInv, On
<1>9. \A t \in Server \ astray' : t \notin doing'[User].left /\ Active(t)' => On(t, "load", "stop")'
  BY <1>3, <1>4, <1>5, <1>6, <1>8 DEF On
<1>10. s \notin astray => \A c \in Conn : conn'[c] = "begun" /\ c[1] = Current(s) => slot[Current(s)].connecting = c
  BY <1>0, <1>3, <1>6 DEF RunInv
<1>12. CommandInv'
  BY <1>3, <1>5, <1>6, <1>7, <1>9, <1>10 DEF CommandInv
<1> QED BY <1>4, <1>12

\* The reload stops an old slot: the start that was in flight has settled.
LEMMA LoadStopsKeeps ==
  ASSUME Inv, LoadStops
  PROVE  RunInv' /\ CommandInv'
<1>0. TypeOK /\ RunInv /\ CommandInv /\ User \in Actor
  BY DEF Inv, Actor
<1>p. PICK x \in Slot : x = doing[User].slot
  BY <1>0 DEF LoadStops, TypeOK, Work
<1>1. /\ doing[User].verb = "load" /\ doing[User].at = "stop" /\ Settled(doing[User].awaits)
      /\ StopNow({x}) /\ UNCHANGED <<gen, approved, started, closed, astray>> /\ x # None
      /\ To(User, [verb |-> "load", at |-> "next", slot |-> None, awaits |-> None, left |-> doing[User].left])
  BY <1>p, NoneApart DEF LoadStops
<1>2. x[2] = gen
  BY <1>0, <1>p, <1>1 DEF CommandInv
<1>3. x[1] \notin astray => \A c \in Conn : c[1] = x => conn[c] # "begun"
  <2> SUFFICES ASSUME x[1] \notin astray, NEW c \in Conn, c[1] = x, conn[c] = "begun"
               PROVE  FALSE
    OBVIOUS
  <2>1. doing[User].awaits = c
    BY <1>0, <1>p, <1>1 DEF CommandInv
  <2> QED BY <1>1, <2>1, NoneApart DEF Settled
<1>4. /\ RunInv'
      /\ \A t \in Server \ astray : Active(t)' =>
           Active(t) /\ (Current(t) = x => \E c \in Conn : conn[c] = "begun" /\ c[1] = x)
      /\ \A y \in Slot : Kept(y)
  BY <1>0, <1>1, <1>2, Stops
<1>5. /\ doing'[User].verb = "load" /\ doing'[User].at = "next" /\ doing'[User].slot = None
      /\ doing'[User].left = doing[User].left
  BY <1>0, <1>1 DEF To, TypeOK
<1>6. \A t \in Server : Current(t)' = Current(t) /\ Current(t)[1] = t /\ Current(t) \in Slot
  BY <1>0, <1>1, CurrentStays
<1>7. \A t \in Server : /\ Off(Current(t))' <=> Off(Current(t))
                        /\ NeedsApproval(Current(t))' <=> NeedsApproval(Current(t))
  BY <1>1, <1>4, <1>6 DEF Kept, Off, NeedsApproval
<1>8. \A t \in Server \ astray : Active(t) => ~Off(Current(t)) /\ ~NeedsApproval(Current(t))
  BY <1>0, <1>1 DEF CommandInv, On
<1>9. \A t \in Server \ astray : Active(t)' => t \in doing[User].left
  <2> SUFFICES ASSUME NEW t \in Server \ astray, Active(t)', t \notin doing[User].left PROVE FALSE
    OBVIOUS
  <2>1. Current(t) = x
    BY <1>0, <1>p, <1>1, <1>4 DEF CommandInv, On
  <2> QED BY <1>3, <1>4, <1>6, <2>1
<1>10. CommandInv'
  BY <1>1, <1>4, <1>5, <1>7, <1>8, <1>9 DEF CommandInv
<1> QED BY <1>4, <1>10

\* Nothing of a server that is not astray runs when the new slots come into use.
LEMMA LoadEndsKeeps ==
  ASSUME Inv, LoadEnds
  PROVE  RunInv' /\ CommandInv'
<1>0. TypeOK /\ RunInv /\ CommandInv /\ User \in Actor
  BY DEF Inv, Actor
<1>1. /\ doing[User].verb = "load" /\ doing[User].at = "next" /\ doing[User].left = {}
      /\ UNCHANGED <<slot, conn, registry, approved, started, closed, astray>> /\ To(User, Idle)
  BY <1>0 DEF LoadEnds, TypeOK, Work
<1>2. \A s \in Server \ astray : ~Active(s)
  BY <1>0, <1>1 DEF CommandInv, On
<1>3. (\A c \in Conn : c[1][1] \in Server) /\ registry \subseteq Server
  BY <1>0 DEF Conn, Slot, TypeOK
<1>4. /\ \A s \in Server \ astray : s \notin registry
      /\ \A c \in Conn : c[1][1] \notin astray => conn[c] \notin {"begun", "open"}
  BY <1>2, <1>3 DEF Active
<1>5. \A s \in Server \ astray : ~Active(s)'
  BY <1>1, <1>4 DEF Active
<1>6. doing'[User] = Idle
  BY <1>0, <1>1 DEF To, TypeOK
<1>7. RunInv'
  <2>1. \A s \in registry : s \in astray
    BY <1>3, <1>4
  <2> QED BY <1>1, <1>4, <1>5, <2>1 DEF RunInv
<1>8. CommandInv'
  BY <1>1, <1>5, <1>6 DEF CommandInv, Idle
<1> QED BY <1>7, <1>8

\* A start settles: its slot keeps its definition, the other slots keep everything.
LEMMA StartEndsFrame ==
  ASSUME TypeOK, NEW c \in Conn, StartEnds(c)
  PROVE  /\ \A y \in Slot : Kept(y)
         /\ \A y \in Slot \ {c[1]} : slot'[y] = slot[y]
         /\ \A o \in Conn \ {c} : conn'[o] = conn[o]
         /\ \A t \in Server \ {c[1][1]} : t \in registry' <=> t \in registry
         /\ slot'[c[1]].connection \in {c, slot[c[1]].connection}
         /\ conn[c] = "begun" /\ conn'[c] \in {"open", "closed"}
         /\ UNCHANGED <<gen, approved, started, closed, doing, astray>>
<1>1. /\ slot \in [Slot -> Record] /\ conn \in [Conn -> {"none", "begun", "open", "closed"}]
      /\ c[1] \in Slot /\ slot[c[1]] \in Record
  BY DEF TypeOK, Conn
<1>2. \E r : /\ slot' = [slot EXCEPT ![c[1]] = r] 
             /\ r.version = slot[c[1]].version /\ r.enabled = slot[c[1]].enabled /\ r.disabled = slot[c[1]].disabled
             /\ r.connection \in {c, slot[c[1]].connection}
  <2> DEFINE failed(a) == [slot[c[1]] EXCEPT !.connecting = None, !.auth = a]
             opened == [slot[c[1]] EXCEPT !.connecting = None, !.connection = c,
                                          !.registered = RegistersAs(c[1]), !.auth = FALSE]
             unwanted == [slot[c[1]] EXCEPT !.connecting = None]
             Fits(r) == /\ r.version = slot[c[1]].version /\ r.enabled = slot[c[1]].enabled
                        /\ r.disabled = slot[c[1]].disabled /\ r.connection \in {c, slot[c[1]].connection}
  <2>0. Fits(unwanted) /\ Fits(opened) /\ \A a \in BOOLEAN : Fits(failed(a))
    BY <1>1 DEF Record
  <2>1. \E r : slot' = [slot EXCEPT ![c[1]] = r] /\ (r \in {unwanted, opened} \/ \E a \in BOOLEAN : r = failed(a))
    BY <1>1 DEF StartEnds
  <2> HIDE DEF failed, opened, unwanted
  <2> QED BY <2>0, <2>1
<1>3. /\ \A y \in Slot : Kept(y)
      /\ \A y \in Slot \ {c[1]} : slot'[y] = slot[y]
      /\ slot'[c[1]].connection \in {c, slot[c[1]].connection}
  BY <1>1, <1>2 DEF Kept
<1>4. /\ conn[c] = "begun" /\ conn'[c] \in {"open", "closed"}
      /\ \A o \in Conn \ {c} : conn'[o] = conn[o]
      /\ UNCHANGED <<gen, approved, started, closed, doing, astray>>
  BY <1>1 DEF StartEnds
<1>5. registry' = registry \/ registry' = RegisteredByOthers(c[1]) \cup {c[1][1]}
  BY DEF StartEnds
<1>6. \A t \in Server \ {c[1][1]} : t \in registry' <=> t \in registry
  BY <1>5 DEF RegisteredByOthers
<1> QED BY <1>3, <1>4, <1>6

\* A start of a server that is astray settles: nothing that runs of another is touched.
LEMMA StartEndsAstray ==
  ASSUME Inv, NEW c \in Conn, StartEnds(c), c[1][1] \in astray
  PROVE  RunInv' /\ CommandInv'
<1>0. TypeOK /\ RunInv /\ CommandInv
  BY DEF Inv
<1>1. /\ \A y \in Slot : Kept(y)
      /\ \A y \in Slot \ {c[1]} : slot'[y] = slot[y]
      /\ \A o \in Conn \ {c} : conn'[o] = conn[o]
      /\ \A t \in Server \ {c[1][1]} : t \in registry' <=> t \in registry
      /\ slot'[c[1]].connection \in {c, slot[c[1]].connection}
      /\ conn[c] = "begun" /\ conn'[c] \in {"open", "closed"}
      /\ UNCHANGED <<gen, approved, started, closed, doing, astray>>
  BY <1>0, StartEndsFrame
<1>2. /\ \A o \in Conn : o[1] \in Slot /\ o[1][1] \in Server
      /\ registry \subseteq Server /\ registry' \subseteq Server
  <2>1. /\ \A o \in Conn : o[1] \in Slot /\ o[1][1] \in Server
        /\ registry \subseteq Server
    BY <1>0 DEF Conn, Slot, TypeOK
  <2> QED BY <2>1 DEF StartEnds, RegisteredByOthers
<1>3. \A t \in Server : Current(t)' = Current(t) /\ Current(t) \in Slot /\ Current(t)[1] = t
  BY <1>0, <1>1, CurrentStays
<1>4. \A o \in Conn : o[1][1] \notin astray => o # c /\ conn'[o] = conn[o] /\ slot'[o[1]] = slot[o[1]]
  BY <1>1, <1>2
<1>5. \A t \in Server \ astray : /\ t \in registry' <=> t \in registry
                                 /\ slot'[Current(t)] = slot[Current(t)]
                                 /\ Active(t)' <=> Active(t)
  <2> SUFFICES ASSUME NEW t \in Server \ astray
               PROVE  /\ t \in registry' <=> t \in registry
                      /\ slot'[Current(t)] = slot[Current(t)]
                      /\ Active(t)' <=> Active(t)
    OBVIOUS
  <2>1. t # c[1][1] /\ Current(t) # c[1]
    BY <1>3
  <2> QED BY <1>1, <1>3, <1>4, <2>1 DEF Active
<1>6. There' = There
  BY <1>0, <1>1, <1>3, ThereStays DEF Kept
<1>7. \A o \in Conn, y \in Slot :
        o[1][1] \notin astray' /\ conn'[o] = "open" /\ y[2] = gen' /\ slot'[y].connection = o => y = o[1]
  <2> SUFFICES ASSUME NEW o \in Conn, NEW y \in Slot, o[1][1] \notin astray, conn'[o] = "open",
                      y[2] = gen, slot'[y].connection = o
               PROVE  y = o[1]
    BY <1>1
  <2>1. conn[o] = "open" /\ o # c
    BY <1>4
  <2>2. slot[y].connection = o
    <3>1. CASE y # c[1]
      BY <1>1, <3>1
    <3>2. CASE y = c[1]
      BY <1>1, <2>1, <3>2
    <3> QED BY <3>1, <3>2
  <2> QED BY <1>0, <2>1, <2>2 DEF RunInv
<1>8. RunInv'
  <2>1. \A o \in Conn : o[1][1] \notin astray' /\ conn'[o] = "open" => slot'[o[1]].connection = o /\ o[1][1] \in registry'
    BY <1>0, <1>1, <1>2, <1>4, <1>5 DEF RunInv
  <2>2. \A o \in Conn : o[1][1] \notin astray' /\ conn'[o] = "begun" =>
          slot'[o[1]].connecting = o /\ \A q \in Conn : q[1] = o[1] => conn'[q] # "open"
    BY <1>0, <1>1, <1>4 DEF RunInv
  <2>3. \A o \in Conn : o[1][1] \notin astray' /\ conn'[o] \in {"begun", "open"} => o[1][2] = gen'
    BY <1>0, <1>1, <1>4 DEF RunInv
  <2>4. \A t \in registry' \ astray' : slot'[Current(t)'].registered
    BY <1>0, <1>1, <1>2, <1>3, <1>5 DEF RunInv
  <2>5. \A t \in Server \ astray' : Active(t)' => t \in There'
    BY <1>0, <1>1, <1>5, <1>6 DEF RunInv
  <2>6. /\ ~started' => \A t \in Server \ astray' : ~Active(t)'
        /\ closed' => \A t \in Server \ astray' :
             t \notin registry' /\ \A o \in Conn : o[1][1] = t => conn'[o] # "open"
    BY <1>0, <1>1, <1>4, <1>5 DEF RunInv
  <2> QED BY <1>7, <2>1, <2>2, <2>3, <2>4, <2>5, <2>6 DEF RunInv
<1>9. \A o \in Conn : conn'[o] = "begun" => conn[o] = "begun"
  BY <1>1
<1>10. CommandInv'
  BY <1>0, <1>1, <1>3, <1>5, <1>9, CommandWaits
<1> QED BY <1>8, <1>10

\* A start of another server settles: what runs is the connection of the slot in use, and its
\* tools are the ones registered.
LEMMA StartEndsKeeps ==
  ASSUME Inv, NEW c \in Conn, StartEnds(c), c[1][1] \notin astray
  PROVE  RunInv' /\ CommandInv'
<1>0. TypeOK /\ RunInv /\ CommandInv /\ KnownInv
  BY DEF Inv
<1>p. PICK x \in Slot, s \in Server : x = c[1] /\ s = x[1]
  BY DEF Conn, Slot
<1>1. /\ conn[c] = "begun" /\ UNCHANGED <<gen, approved, started, closed, doing, astray>>
      /\ slot \in [Slot -> Record] /\ conn \in [Conn -> {"none", "begun", "open", "closed"}]
      /\ registry \subseteq Server /\ s \notin astray
  BY <1>0, <1>p DEF StartEnds, TypeOK
<1>2. /\ x[2] = gen /\ slot[x].connecting = c /\ Current(s) = x
      /\ \A o \in Conn : o[1] = x => conn[o] # "open"
      /\ \A o \in Conn : o # c /\ conn[o] = "begun" => o[1] # x
  <2>1. x[2] = gen /\ slot[x].connecting = c /\ \A o \in Conn : o[1] = x => conn[o] # "open"
    BY <1>0, <1>p, <1>1 DEF RunInv
  <2>2. \A o \in Conn : o # c /\ conn[o] = "begun" => o[1] # x
    BY <1>0, <1>p, <1>1, <2>1 DEF RunInv
  <2> QED BY <1>p, <2>1, <2>2 DEF Current, Slot
<1>3. \A t \in Server : Current(t)' = Current(t) /\ Current(t) \in Slot /\ Current(t)[1] = t
  BY <1>0, <1>1, CurrentStays
<1>4. Active(s) /\ s \in There /\ started
  BY <1>0, <1>p, <1>1 DEF RunInv, Active
<1>5. /\ \A y \in Slot : Kept(y)
      /\ \A y \in Slot \ {x} : slot'[y] = slot[y]
  BY <1>0, <1>p, StartEndsFrame
<1>6. There' = There
  BY <1>0, <1>1, <1>3, <1>5, ThereStays DEF Kept
<1>7. CASE conn' = [conn EXCEPT ![c] = "closed"]
  <2>1. /\ registry' = registry
        /\ slot'[x].connection = slot[x].connection /\ slot'[x].registered = slot[x].registered
    <3>1. slot[x] \in Record /\ conn'[c] # "open"
      BY <1>1, <1>7
    <3>2. /\ registry' = registry
          /\ \/ slot' = [slot EXCEPT ![x].connecting = None]
             \/ \E a \in BOOLEAN : slot' = [slot EXCEPT ![x] = [slot[x] EXCEPT !.connecting = None, !.auth = a]]
      BY <1>p, <1>1, <3>1 DEF StartEnds
    <3>3. CASE slot' = [slot EXCEPT ![x].connecting = None]
      BY <1>1, <3>1, <3>2, <3>3 DEF Record
    <3>4. CASE \E a \in BOOLEAN : slot' = [slot EXCEPT ![x] = [slot[x] EXCEPT !.connecting = None, !.auth = a]]
      BY <1>1, <3>1, <3>2, <3>4 DEF Record
    <3> QED BY <3>2, <3>3, <3>4
  <2>2. /\ \A o \in Conn : conn'[o] = "begun" <=> conn[o] = "begun" /\ o # c
        /\ \A o \in Conn : conn'[o] = "open" <=> conn[o] = "open"
    BY <1>1, <1>7
  <2>3. \A t \in Server : Active(t)' => Active(t)
    BY <2>1, <2>2 DEF Active
  <2>4. /\ \A o \in Conn : o[1] \in Slot
        /\ \A y \in Slot : slot'[y].connection = slot[y].connection /\ slot'[y].registered = slot[y].registered
    BY <1>5, <2>1 DEF Conn
  <2>5. \A o \in Conn : o[1][1] \notin astray' /\ conn'[o] = "begun" =>
          slot'[o[1]].connecting = o /\ \A q \in Conn : q[1] = o[1] => conn'[q] # "open"
    BY <1>0, <1>1, <1>2, <1>5, <2>2, <2>4 DEF RunInv
  <2>6. \A o \in Conn : o[1][1] \notin astray' /\ conn'[o] = "open" =>
          slot'[o[1]].connection = o /\ o[1][1] \in registry'
    BY <1>0, <1>1, <2>1, <2>2, <2>4 DEF RunInv
  <2>7. \A o \in Conn, y \in Slot :
          o[1][1] \notin astray' /\ conn'[o] = "open" /\ y[2] = gen' /\ slot'[y].connection = o => y = o[1]
    BY <1>0, <1>1, <2>2, <2>4 DEF RunInv
  <2>8. \A o \in Conn : o[1][1] \notin astray' /\ conn'[o] \in {"begun", "open"} => o[1][2] = gen'
    BY <1>0, <1>1, <2>2 DEF RunInv
  <2>9. \A t \in registry' \ astray' : slot'[Current(t)'].registered
    BY <1>0, <1>1, <1>3, <2>1, <2>4 DEF RunInv
  <2>10. closed' => \A t \in Server \ astray' :
           t \notin registry' /\ \A o \in Conn : o[1][1] = t => conn'[o] # "open"
    BY <1>0, <1>1, <2>1, <2>2 DEF RunInv
  <2>11. RunInv'
    BY <1>0, <1>1, <1>4, <1>6, <2>3, <2>5, <2>6, <2>7, <2>8, <2>9, <2>10 DEF RunInv
  <2>12. CommandInv'
    BY <1>0, <1>1, <1>3, <1>5, <2>2, <2>3, CommandWaits
  <2> QED BY <2>11, <2>12
<1>8. CASE ~(conn' = [conn EXCEPT ![c] = "closed"])
  <2>1. /\ ~closed /\ conn' = [conn EXCEPT ![c] = "open"]
        /\ slot' = [slot EXCEPT ![x] = [slot[x] EXCEPT !.connecting = None, !.connection = c,
                                                     !.registered = RegistersAs(x), !.auth = FALSE]]
        /\ registry' = RegisteredByOthers(x) \cup {s}
    BY <1>p, <1>8 DEF StartEnds, Unwanted
  <2>2. RegistersAs(x) /\ registry' = registry \cup {s}
    BY <1>0, <1>p, <1>1, <1>2, <2>1 DEF RegistersAs, RegisteredByOthers, RunInv
  <2>3. slot'[x].connection = c /\ slot'[x].registered
    BY <1>1, <2>1, <2>2 DEF Record
  <2>4. /\ \A o \in Conn : conn'[o] = "begun" <=> conn[o] = "begun" /\ o # c
        /\ \A o \in Conn : conn'[o] = "open" <=> conn[o] = "open" \/ o = c
    BY <1>1, <2>1
  <2>5. \A t \in Server : Active(t)' => Active(t)
    BY <1>4, <1>1, <2>2, <2>4 DEF Active
  <2>6. \A o \in Conn : o[1] \in Slot
    BY DEF Conn
  <2>7. \A o \in Conn : o[1][1] \notin astray' /\ conn'[o] = "begun" =>
          slot'[o[1]].connecting = o /\ \A q \in Conn : q[1] = o[1] => conn'[q] # "open"
    BY <1>0, <1>1, <1>p, <1>2, <1>5, <2>4, <2>6 DEF RunInv
  <2>8. \A o \in Conn : o[1][1] \notin astray' /\ conn'[o] = "open" =>
          slot'[o[1]].connection = o /\ o[1][1] \in registry'
    BY <1>0, <1>1, <1>p, <1>2, <1>5, <2>2, <2>3, <2>4, <2>6 DEF RunInv
  <2>9. \A o \in Conn, y \in Slot :
          o[1][1] \notin astray' /\ conn'[o] = "open" /\ y[2] = gen' /\ slot'[y].connection = o => y = o[1]
    <3> SUFFICES ASSUME NEW o \in Conn, NEW y \in Slot, o[1][1] \notin astray', conn'[o] = "open",
                        y[2] = gen', slot'[y].connection = o
                 PROVE  y = o[1]
      OBVIOUS
    <3>1. CASE o = c /\ y # x
      <4>1. slot[y].connection = c
        BY <1>5, <3>1
      <4> QED BY <1>0, <1>1, <4>1 DEF KnownInv
    <3>2. CASE o = c /\ y = x
      BY <1>p, <3>2
    <3>3. CASE o # c
      <4>1. conn[o] = "open" /\ y # x
        BY <2>3, <2>4, <3>3
      <4> QED BY <1>0, <1>1, <1>5, <4>1 DEF RunInv
    <3> QED BY <3>1, <3>2, <3>3
  <2>10. \A o \in Conn : o[1][1] \notin astray' /\ conn'[o] \in {"begun", "open"} => o[1][2] = gen'
    BY <1>0, <1>1, <1>2, <1>p, <2>4 DEF RunInv
  <2>11. \A t \in registry' \ astray' : slot'[Current(t)'].registered
    <3> SUFFICES ASSUME NEW t \in registry', t \notin astray PROVE slot'[Current(t)'].registered
      BY <1>1
    <3>1. CASE t = s
      BY <1>2, <1>3, <2>3, <3>1
    <3>2. CASE t # s
      BY <1>0, <1>p, <1>1, <1>3, <1>5, <2>2, <3>2 DEF RunInv
    <3> QED BY <3>1, <3>2
  <2>12. RunInv'
    BY <1>0, <1>1, <1>4, <1>6, <2>1, <2>5, <2>7, <2>8, <2>9, <2>10, <2>11 DEF RunInv
  <2>13. CommandInv'
    BY <1>0, <1>1, <1>3, <1>5, <2>4, <2>5, CommandWaits
  <2> QED BY <2>12, <2>13
<1> QED BY <1>7, <1>8

\* A server that dies leaves its tools in the registry.
LEMMA ServerDiesKeeps ==
  ASSUME Inv, NEW c \in Conn, ServerDies(c)
  PROVE  RunInv' /\ CommandInv'
<1>0. TypeOK /\ RunInv /\ CommandInv
  BY DEF Inv
<1>1. /\ UNCHANGED <<gen, slot, registry, approved, started, closed, doing, astray>>
      /\ \A o \in Conn : conn'[o] = "begun" <=> conn[o] = "begun"
      /\ \A o \in Conn : conn'[o] = "open" <=> conn[o] = "open" /\ o # c
  BY <1>0 DEF ServerDies, TypeOK
<1>2. \A t \in Server : Active(t)' => Active(t)
  BY <1>1 DEF Active
<1>3. There' = There /\ \A t \in Server : Current(t)' = Current(t)
  BY <1>1 DEF There, Current
<1>4. RunInv'
  BY <1>0, <1>1, <1>2, <1>3 DEF RunInv, TypeOK
<1>5. CommandInv'
  BY <1>0, <1>1, <1>2, CommandWaits DEF Kept
<1> QED BY <1>4, <1>5

\* The session ends: what is connected is closed, what is starting will find it closed.
LEMMA CloseKeeps ==
  ASSUME Inv, Close
  PROVE  RunInv' /\ CommandInv'
<1>0. TypeOK /\ RunInv /\ CommandInv
  BY DEF Inv
<1>1. /\ UNCHANGED <<gen, approved, started, doing, astray>> /\ closed' /\ StopNow({x \in Slot : x[2] = gen})
      /\ slot \in [Slot -> Record] /\ registry \subseteq Server
  BY <1>0 DEF Close, TypeOK
<1>2. /\ \A t \in Server : Current(t)' = Current(t) /\ Current(t) \in Slot /\ Current(t)[1] = t /\ Current(t)[2] = gen
      /\ \A c \in Conn : c[1] \in Slot
  BY <1>0, <1>1, CurrentStays DEF Conn
<1>3. \A y \in Slot : Kept(y) /\ slot'[y].connecting = slot[y].connecting
  BY <1>1 DEF StopNow, Stopped, Record, Kept
<1>4. /\ \A t \in registry' : t \in registry
      /\ \A t \in Server \ astray : t \notin registry'
  BY <1>0, <1>1, <1>2 DEF StopNow, RunInv
<1>5. /\ \A c \in Conn : conn'[c] = "begun" <=> conn[c] = "begun"
      /\ \A c \in Conn : conn'[c] = "open" => conn[c] = "open" /\ c[1][1] \in astray
  BY <1>0, <1>1, <1>2 DEF StopNow, RunInv, TypeOK
<1>6. \A t \in Server : Active(t)' => Active(t)
  BY <1>4, <1>5 DEF Active
<1>7. There' = There
  BY <1>0, <1>1, <1>2, <1>3, ThereStays DEF Kept
<1>8. RunInv'
  <2>1. \A t \in registry' : t \in astray'
    BY <1>1, <1>4
  <2>2. \A c \in Conn : c[1][1] \notin astray' /\ conn'[c] = "begun" =>
          slot'[c[1]].connecting = c /\ \A o \in Conn : o[1] = c[1] => conn'[o] # "open"
    BY <1>0, <1>1, <1>2, <1>3, <1>5 DEF RunInv
  <2>3. \A c \in Conn : c[1][1] \notin astray' /\ conn'[c] \in {"begun", "open"} => c[1][2] = gen'
    BY <1>0, <1>1, <1>5 DEF RunInv
  <2>4. \A t \in Server \ astray' : Active(t)' => t \in There'
    BY <1>0, <1>1, <1>6, <1>7 DEF RunInv
  <2>5. /\ ~started' => \A t \in Server \ astray' : ~Active(t)'
        /\ closed' => \A t \in Server \ astray' :
             t \notin registry' /\ \A c \in Conn : c[1][1] = t => conn'[c] # "open"
    BY <1>0, <1>1, <1>4, <1>5, <1>6 DEF RunInv
  <2> QED BY <1>1, <1>5, <2>1, <2>2, <2>3, <2>4, <2>5 DEF RunInv
<1>9. CommandInv'
  BY <1>0, <1>1, <1>2, <1>3, <1>5, <1>6, CommandWaits
<1> QED BY <1>8, <1>9

\* The start of the session, before which nothing runs.
LEMMA StartSessionKeeps ==
  ASSUME Inv, StartSession
  PROVE  RunInv' /\ CommandInv'
<1>0. TypeOK /\ RunInv /\ CommandInv
  BY DEF Inv
<1>1. /\ ~started /\ started' /\ ~closed' /\ UNCHANGED <<gen, approved, closed, doing, astray>>
      /\ doing[User] = Idle /\ slot \in [Slot -> Record] /\ conn \in [Conn -> {"none", "begun", "open", "closed"}]
  BY DEF StartSession, Inv, StartInv, TypeOK, Actor
<1>2. PICK lazy \in SUBSET There :
        LET usable == {x \in Slot : x[2] = gen /\ x[1] \in There /\ Usable(x)}
            cached == {x \in usable : x[1] \in lazy}
        IN /\ \A x \in usable : Free(x)
           /\ conn' = [c \in Conn |-> IF c[1] \in usable \ cached /\ c = Promise(c[1]) THEN "begun" ELSE conn[c]]
           /\ slot' = [x \in Slot |-> IF x \in cached THEN [slot[x] EXCEPT !.registered = RegistersAs(x)]
                                      ELSE IF x \in usable THEN [slot[x] EXCEPT !.connecting = Promise(x)]
                                      ELSE slot[x]]
           /\ registry' = registry \cup {x[1] : x \in cached}
  BY DEF StartSession
<1> DEFINE usable == {x \in Slot : x[2] = gen /\ x[1] \in There /\ Usable(x)}
           cached == {x \in usable : x[1] \in lazy}
<1>3. /\ \A t \in Server : Current(t)' = Current(t) /\ Current(t) \in Slot /\ Current(t)[1] = t /\ Current(t)[2] = gen
      /\ \A c \in Conn : c[1] \in Slot /\ c[1][1] \in Server
      /\ \A x \in Slot : x[1] \in Server /\ (x[2] = gen => x = Current(x[1]))
  BY <1>0, <1>1, CurrentStays DEF Current, Conn, Slot
<1>4. /\ \A t \in Server \ astray : t \notin registry
      /\ \A c \in Conn : c[1][1] \notin astray => conn[c] \notin {"begun", "open"}
  BY <1>0, <1>1, <1>3 DEF RunInv, Active
<1>5. /\ \A t \in Server \ astray : t \in registry' => \E x \in cached : x[1] = t
      /\ \A c \in Conn : c[1][1] \notin astray => conn'[c] # "open"
      /\ \A c \in Conn : c[1][1] \notin astray /\ conn'[c] = "begun" => c[1] \in usable \ cached /\ c = Promise(c[1])
  BY <1>2, <1>4
<1>6. \A x \in Slot : /\ Kept(x)
                      /\ x \in usable \ cached => slot'[x].connecting = Promise(x)
                      /\ x[1] \notin astray /\ x \in cached => slot'[x].registered
  <2>1. \A x \in Slot : x[1] \notin astray => RegistersAs(x)
    BY <1>3, <1>4 DEF RegistersAs, RegisteredByOthers
  <2>2. \A x \in Slot : slot[x] \in Record
    BY <1>1
  <2>3. \A x \in Slot : slot'[x] = IF x \in cached THEN [slot[x] EXCEPT !.registered = RegistersAs(x)]
                                   ELSE IF x \in usable THEN [slot[x] EXCEPT !.connecting = Promise(x)]
                                   ELSE slot[x]
    BY <1>2
  <2> HIDE DEF usable, cached
  <2> QED BY <2>1, <2>2, <2>3 DEF Record, Kept
<1>u. /\ \A x \in usable : x \in Slot /\ x[2] = gen /\ x[1] \in There /\ Usable(x)
      /\ cached \subseteq usable
  OBVIOUS
<1> HIDE DEF usable, cached
<1>7. There' = There
  BY <1>0, <1>1, <1>3, <1>6, ThereStays DEF Kept
<1>8. \A t \in Server \ astray : Active(t)' => t \in There /\ Usable(Current(t))
  <2> SUFFICES ASSUME NEW t \in Server \ astray, Active(t)' PROVE t \in There /\ Usable(Current(t))
    OBVIOUS
  <2>1. \E x \in usable : x[1] = t
    BY <1>u, <1>5 DEF Active
  <2> QED BY <1>3, <1>u, <2>1
<1>9. RunInv'
  <2>1. \A c \in Conn : c[1][1] \notin astray' /\ conn'[c] = "begun" => slot'[c[1]].connecting = c /\ c[1][2] = gen'
    BY <1>1, <1>3, <1>5, <1>6, <1>u
  <2>2. \A t \in registry' \ astray' : slot'[Current(t)'].registered
    <3> SUFFICES ASSUME NEW t \in registry', t \notin astray PROVE slot'[Current(t)'].registered
      BY <1>1
    <3>1. t \in Server
      <4>1. registry \subseteq Server
        BY <1>0 DEF TypeOK
      <4> QED BY <1>2, <1>3, <1>u, <4>1 DEF usable, cached
    <3>2. PICK x \in cached : x[1] = t
      BY <1>5, <3>1
    <3>3. x \in Slot /\ x = Current(t)
      BY <1>3, <1>u, <3>2
    <3> QED BY <1>3, <1>6, <3>1, <3>2, <3>3
  <2>3. \A c \in Conn : c[1][1] \notin astray' => conn'[c] # "open"
    BY <1>1, <1>5
  <2>4. \A c, o \in Conn : c[1][1] \notin astray' /\ o[1] = c[1] => conn'[o] # "open"
    BY <1>1, <1>5
  <2> QED BY <1>1, <1>7, <1>8, <2>1, <2>2, <2>3, <2>4 DEF RunInv
<1>10. CommandInv'
  <2>1. \A t \in Server \ astray' : Active(t)' => ~Off(Current(t))' /\ ~NeedsApproval(Current(t))'
    <3> SUFFICES ASSUME NEW t \in Server \ astray, Active(t)' PROVE ~Off(Current(t))' /\ ~NeedsApproval(Current(t))'
      BY <1>1
    <3>1. ~Off(Current(t)) /\ ~NeedsApproval(Current(t))
      BY <1>8 DEF Usable
    <3>2. Kept(Current(t)) /\ Current(t)' = Current(t)
      BY <1>3, <1>6
    <3> QED BY <1>1, <3>1, <3>2 DEF NeedsApproval, Off, Kept
  <2> QED BY <1>1, <2>1 DEF CommandInv, On, Idle
<1> QED BY <1>9, <1>10

\* No step makes a slot know a connection that was not made.
LEMMA KnownKeeps ==
  ASSUME TypeOK, KnownInv, [Next]_vars
  PROVE  KnownInv'
<1>0. /\ slot \in [Slot -> Record] /\ conn \in [Conn -> {"none", "begun", "open", "closed"}]
      /\ \A s \in Server : Current(s) \in Slot
      /\ \A c \in Conn : c[1] \in Slot
  BY CurrentIsSlot DEF TypeOK, Conn
<1> DEFINE Made == \A c \in Conn : conn[c] \in {"open", "closed"} => conn'[c] \in {"open", "closed"}
           Knows == \A x \in Slot : \/ \E y \in Slot : slot'[x].connection = slot[y].connection
                                    \/ slot'[x].connection = None
<1>1. Made /\ Knows => KnownInv'
  BY NoneApart DEF KnownInv
<1>2. \A u \in Actor, x \in Slot, slots \in [Slot -> Record] : \A verb : \A wanted :
        Connects(u, verb, x, slots, wanted) /\ (\A y \in Slot : slots[y].connection = slot[y].connection)
          => Made /\ Knows
  <2> SUFFICES ASSUME NEW u \in Actor, NEW x \in Slot, NEW slots \in [Slot -> Record], NEW verb, NEW wanted,
                      Connects(u, verb, x, slots, wanted), \A y \in Slot : slots[y].connection = slot[y].connection
               PROVE  Made /\ Knows
    OBVIOUS
  <2>1. CASE conn' = conn /\ slot' = slots
    BY <2>1
  <2>2. ASSUME NEW p \in Conn, conn[p] = "none", conn' = [conn EXCEPT ![p] = "begun"],
               slot' = [slots EXCEPT ![x].connecting = p]
        PROVE  Made /\ Knows
    BY <1>0, <2>2 DEF Record
  <2>3. \/ \E p \in Conn : conn[p] = "none" /\ conn' = [conn EXCEPT ![p] = "begun"]
                           /\ slot' = [slots EXCEPT ![x].connecting = p]
        \/ conn' = conn /\ slot' = slots
    <3> HIDE DEF Made, Knows
    <3>1. \/ \E p \in Conn :
               /\ wanted /\ ~closed /\ slots[x].connecting = None
               /\ p[1] = x /\ conn[p] = "none"
               /\ conn' = [conn EXCEPT ![p] = "begun"]
               /\ slot' = [slots EXCEPT ![x].connecting = p]
               /\ astray' = IF Live(slots[x].connection) \/ Passed(x) THEN astray \cup {x[1]} ELSE astray
               /\ Awaits(u, verb, "settle", x, p)
          \/ /\ conn' = conn /\ slot' = slots /\ astray' = astray
             /\ \E a \in Conn \cup {None} : Awaits(u, verb, "settle", x, a)
      BY ConnectEffect
    <3> QED BY <3>1
  <2> QED BY <2>1, <2>2, <2>3
<1>3. \A xs \in SUBSET Slot : StopNow(xs) => Made /\ Knows
  <2> SUFFICES ASSUME NEW xs \in SUBSET Slot, StopNow(xs) PROVE Made /\ Knows
    OBVIOUS
  <2>1. Made
    BY <1>0 DEF StopNow
  <2>2. \A x \in Slot : slot'[x].connection \in {slot[x].connection, None}
    BY <1>0 DEF StopNow, Stopped, Record
  <2> QED BY <2>1, <2>2
<1>x. /\ User \in Actor /\ Worker \subseteq Actor
      /\ doing[User].at \in {"write", "stop", "clear"} => doing[User].slot \in Slot
  BY DEF TypeOK, Work, Actor
<1>f. \A x \in Slot, b \in BOOLEAN :
        /\ [slot EXCEPT ![x].disabled = FALSE, ![x].enabled = TRUE] \in [Slot -> Record]
        /\ [slot EXCEPT ![x].disabled = b] \in [Slot -> Record]
        /\ [slot EXCEPT ![x].auth = b] \in [Slot -> Record]
        /\ \A y \in Slot : /\ [slot EXCEPT ![x].disabled = FALSE, ![x].enabled = TRUE][y].connection = slot[y].connection
                           /\ [slot EXCEPT ![x].disabled = b][y].connection = slot[y].connection
                           /\ [slot EXCEPT ![x].auth = b][y].connection = slot[y].connection
  <2> TAKE x \in Slot, b \in BOOLEAN
  <2>1. /\ [slot EXCEPT ![x].disabled = FALSE, ![x].enabled = TRUE] \in [Slot -> Record]
        /\ [slot EXCEPT ![x].disabled = b] \in [Slot -> Record]
        /\ [slot EXCEPT ![x].auth = b] \in [Slot -> Record]
    BY <1>0, FieldTyped
  <2>2. \A y \in Slot : [slot EXCEPT ![x].disabled = FALSE, ![x].enabled = TRUE][y].connection = slot[y].connection
    BY <1>0 DEF Record
  <2>3. \A y \in Slot : [slot EXCEPT ![x].disabled = b][y].connection = slot[y].connection
    BY <1>0 DEF Record
  <2>4. \A y \in Slot : [slot EXCEPT ![x].auth = b][y].connection = slot[y].connection
    BY <1>0 DEF Record
  <2> QED BY <2>1, <2>2, <2>3, <2>4
<1>4. CASE UNCHANGED <<slot, conn>>
  BY <1>1, <1>4
<1>5. CASE StartSession
  <2>1. Made
    BY <1>0, <1>5, PromiseIsFree DEF StartSession
  <2>2. Knows
    BY <1>0, <1>5 DEF StartSession, Record
  <2> QED BY <1>1, <2>1, <2>2
<1>6. CASE Close
  BY <1>1, <1>3, <1>6 DEF Close
<1>7. CASE \E s \in Server : Enable(s) \/ Disable(s)
  <2>1. PICK s \in Server : Enable(s) \/ Disable(s)
    BY <1>7
  <2>2. CASE Enable(s)
    <3>1. PICK x \in Slot, slots \in [Slot -> Record] : x = Current(s) /\ slots = [slot EXCEPT ![x].disabled = FALSE, ![x].enabled = TRUE]
      BY <1>0, <1>f
    <3>2. \E wanted : Connects(User, "enable", x, slots, wanted)
      BY <2>2, <3>1 DEF Enable
    <3>3. \A y \in Slot : slots[y].connection = slot[y].connection
      BY <1>f, <3>1
    <3> HIDE DEF Made, Knows
    <3> QED BY <1>1, <1>2, <1>x, <3>2, <3>3
  <2>3. CASE Disable(s)
    BY <1>0, <1>1, <1>f, <2>3 DEF Disable
  <2> QED BY <2>1, <2>2, <2>3
<1>a. CASE \E w \in Worker : Call(w)
  <2>1. PICK w \in Worker : Call(w)
    BY <1>a
  <2>2. PICK x \in Slot : Connects(w, "call", x, slot, TRUE) /\ w \in Actor
    BY <1>0, <1>x, <2>1 DEF Call, There
  <2> HIDE DEF Made, Knows
  <2> QED BY <1>0, <1>1, <1>2, <2>2
<1>8. CASE Approved
  <2>1. \E wanted : Connects(User, "approve", doing[User].slot, slot, wanted) /\ doing[User].slot \in Slot
    BY <1>x, <1>8 DEF Approved
  <2> HIDE DEF Made, Knows
  <2> QED BY <1>0, <1>1, <1>2, <1>x, <2>1
<1>9. CASE Cleared
  <2>1. \E wanted : Connects(User, doing[User].verb, doing[User].slot,
                              [slot EXCEPT ![doing[User].slot].auth = FALSE], wanted)
    BY <1>9 DEF Cleared
  <2>2. PICK x \in Slot : x = doing[User].slot
    BY <1>x, <1>9 DEF Cleared
  <2>3. PICK slots \in [Slot -> Record] : slots = [slot EXCEPT ![x].auth = FALSE]
    BY <1>f
  <2>4. \A y \in Slot : slots[y].connection = slot[y].connection
    BY <1>f, <2>3
  <2>5. \E wanted : Connects(User, doing[User].verb, x, slots, wanted)
    BY <2>1, <2>2, <2>3
  <2> HIDE DEF Made, Knows
  <2> QED BY <1>1, <1>2, <1>x, <2>4, <2>5
<1>10. CASE Stop \/ LoadStops
  <2>1. StopNow({doing[User].slot}) /\ doing[User].slot \in Slot
    BY <1>x, <1>10 DEF Stop, LoadStops
  <2> QED BY <1>1, <1>3, <2>1
<1>11. CASE Load
  <2>1. \A x \in Slot : \/ slot'[x] = slot[x]
                        \/ \E s \in Server : slot'[x].connection \in {slot[Current(s)].connection, None}
    <3>1. PICK found \in [Server -> Changes] :
            slot' = [x \in Slot |-> IF x[2] = gen + 1 THEN Reloaded(found[x[1]], slot[Current(x[1])]) ELSE slot[x]]
      BY <1>11 DEF Load
    <3>2. \A old \in Record : \A f : Reloaded(f, old).connection \in {old.connection, None}
      BY DEF Reloaded, Fresh, Record
    <3>3. \A x \in Slot : x[1] \in Server /\ slot[Current(x[1])] \in Record
      BY <1>0 DEF Slot
    <3> QED BY <3>1, <3>2, <3>3
  <2>2. conn' = conn
    BY <1>11 DEF Load
  <2> QED BY <1>0, <1>1, <2>1, <2>2
<1>12. CASE \E c \in Conn : ServerDies(c)
  BY <1>0, <1>1, <1>12 DEF ServerDies
<1>13. CASE \E c \in Conn : StartEnds(c)
  <2>1. PICK c \in Conn : StartEnds(c)
    BY <1>13
  <2>2. Made
    BY <1>0, <2>1 DEF StartEnds
  <2>3. \A x \in Slot : \/ slot'[x].connection = slot[x].connection
                        \/ slot'[x].connection = c /\ conn'[c] = "open"
    <3> SUFFICES ASSUME NEW x \in Slot
                 PROVE  slot'[x].connection = slot[x].connection \/ (slot'[x].connection = c /\ conn'[c] = "open")
      OBVIOUS
    <3>1. slot[c[1]] \in Record
      BY <1>0
    <3>2. \/ slot' = [slot EXCEPT ![c[1]].connecting = None]
          \/ conn'[c] = "open" /\
             slot' = [slot EXCEPT ![c[1]] = [slot[c[1]] EXCEPT !.connecting = None, !.connection = c,
                                              !.registered = RegistersAs(c[1]), !.auth = FALSE]]
          \/ \E a \in BOOLEAN : slot' = [slot EXCEPT ![c[1]] = [slot[c[1]] EXCEPT !.connecting = None, !.auth = a]]
      BY <1>0, <2>1 DEF StartEnds
    <3>3. CASE slot' = [slot EXCEPT ![c[1]].connecting = None]
      BY <1>0, <3>1, <3>3 DEF Record
    <3>4. CASE conn'[c] = "open" /\
               slot' = [slot EXCEPT ![c[1]] = [slot[c[1]] EXCEPT !.connecting = None, !.connection = c,
                                              !.registered = RegistersAs(c[1]), !.auth = FALSE]]
      BY <1>0, <3>1, <3>4 DEF Record
    <3>5. CASE \E a \in BOOLEAN : slot' = [slot EXCEPT ![c[1]] = [slot[c[1]] EXCEPT !.connecting = None, !.auth = a]]
      BY <1>0, <3>1, <3>5 DEF Record
    <3> QED BY <3>2, <3>3, <3>4, <3>5
  <2> QED BY <2>2, <2>3 DEF KnownInv
<1>14. CASE \/ \E s \in Server : Reconnect(s) \/ Approve(s) \/ Revoke(s)
            \/ Revoked \/ LoadNext \/ LoadEnds \/ (\E u \in Actor : Ends(u)) \/ (\E w \in Worker : Leaves(w))
            \/ (\E s \in Server, w \in Worker : Take(w, s)) \/ UNCHANGED vars
  BY <1>4, <1>14 DEF Reconnect, Approve, Revoke, Revoked, LoadNext, LoadEnds, Ends, Leaves, Take, vars
<1> HIDE DEF Made, Knows
<1> QED BY <1>5, <1>6, <1>7, <1>a, <1>8, <1>9, <1>10, <1>11, <1>12, <1>13, <1>14 DEF Next

\* Every step keeps the invariant.
LEMMA InvNext ==
  ASSUME Inv, [Next]_vars
  PROVE  Inv'
<1>1. TypeOK' /\ KnownInv' /\ StartInv'
  BY TypeNext, KnownKeeps, StartKeeps DEF Inv
<1>2. CASE UNCHANGED vars
  <2>1. TypeOK /\ RunInv /\ CommandInv /\ UNCHANGED <<gen, slot, conn, registry, approved, started, closed, doing, astray>>
    BY <1>2 DEF Inv, vars
  <2>2. RunInv' /\ \A s \in Server : Active(s)' <=> Active(s)
    BY <2>1, NothingRuns
  <2>3. CommandInv'
    BY <2>1, <2>2, CommandWaits DEF Kept
  <2> QED BY <1>1, <2>2, <2>3 DEF Inv
<1>3. CASE Next
  <2>1. RunInv' /\ CommandInv'
    BY <1>3, StartSessionKeeps, CloseKeeps, EnableKeeps, CommandBegins, CallKeeps, ApprovedKeeps, RevokedKeeps,
       StopKeeps, ClearedKeeps, LoadKeeps, LoadNextKeeps, LoadStopsKeeps, LoadEndsKeeps, QuietKeeps,
       StartEndsAstray, StartEndsKeeps, ServerDiesKeeps DEF Next, Actor
  <2> QED BY <1>1, <2>1 DEF Inv
<1> QED BY <1>2, <1>3

\* The invariant holds in every state.
LEMMA InvHolds == Spec => []Inv
<1>1. Inv /\ [Next]_vars => Inv'
  BY InvNext
<1> QED BY InvInit, <1>1, PTL DEF Spec

-----------------------------------------------------------------------------
(* What the invariant gives *)

\* manager.ts:17: after the end of the session no process and no tool is left of a server
\* that is not astray, whatever was being started, stopped, called or reloaded.
THEOREM NothingOutlivesSession == Spec => []EndsWithSession
<1>1. Inv => EndsWithSession
  BY DEF Inv, RunInv, EndsWithSession, Running
<1> QED BY InvHolds, <1>1, PTL

\* manager.ts:13-17: a server that is not astray and is off, not approved or gone is stopped,
\* once no command, reload or start of it is under way.
THEOREM UnwantedIsStopped == Spec => []OffMeansStopped
<1>1. Inv => OffMeansStopped
  <2> SUFFICES ASSUME Inv, NEW s \in Server \ astray, ~Busy(s),
                      s \notin There \/ Off(Current(s)) \/ NeedsApproval(Current(s))
               PROVE  Running(s) = {} /\ s \notin registry
    BY DEF OffMeansStopped
  <2>1. TypeOK /\ RunInv /\ CommandInv /\ User \in Actor
    BY DEF Inv, Actor
  <2>2. Current(s) # None /\ Current(s)[1] = s
    BY <2>1, CurrentIsSlot, NoneApart
  <2>3. ~On(s, "disable", "stop") /\ ~On(s, "revoke", "stop")
    BY <2>1, <2>2 DEF Busy, On
  <2>4. ~Active(s)
    BY <2>1, <2>3 DEF RunInv, CommandInv
  <2> QED BY <2>4 DEF Active, Running
<1> QED BY InvHolds, <1>1, PTL

\* What runs or is registered of a server that is not astray is in the slot in use, with its
\* tools and its connection.
THEOREM WhatRunsIsListed == Spec => []NothingUnlisted
<1>1. Inv => NothingUnlisted
  <2> SUFFICES ASSUME Inv, NEW s \in Server \ astray, Running(s) # {} \/ s \in registry
               PROVE  /\ s \in There /\ s \in registry /\ slot[Current(s)].registered
                      /\ Running(s) \subseteq {slot[Current(s)].connection}
    BY DEF NothingUnlisted
  <2>1. TypeOK /\ RunInv
    BY DEF Inv
  <2>2. \A c \in Running(s) : c \in Conn /\ conn[c] = "open" /\ c[1] = Current(s) /\ s \in registry
    <3> SUFFICES ASSUME NEW c \in Running(s)
                 PROVE  c \in Conn /\ conn[c] = "open" /\ c[1] = Current(s) /\ s \in registry
      OBVIOUS
    <3>1. c \in Conn /\ conn[c] = "open" /\ c[1][1] = s
      BY DEF Running
    <3>2. c[1][2] = gen /\ s \in registry /\ c[1] \in Slot
      BY <2>1, <3>1 DEF RunInv, Conn
    <3> QED BY <3>1, <3>2 DEF Current, Slot
  <2>3. s \in registry /\ slot[Current(s)].registered /\ s \in There
    BY <2>1, <2>2 DEF RunInv, Active
  <2>4. \A c \in Running(s) : c = slot[Current(s)].connection
    <3> SUFFICES ASSUME NEW c \in Running(s) PROVE c = slot[Current(s)].connection
      OBVIOUS
    <3>1. c \in Conn /\ conn[c] = "open" /\ c[1] = Current(s) /\ c[1][1] = s
      BY <2>2 DEF Running
    <3> QED BY <2>1, <3>1 DEF RunInv
  <2> QED BY <2>3, <2>4
<1> QED BY InvHolds, <1>1, PTL

\* manager.ts:313-315: a server that is not astray runs at most once, however calls, commands,
\* reloads and starts overlap.
THEOREM RunsAtMostOnce == Spec => []OneProcess
<1>1. Inv => OneProcess
  <2> SUFFICES ASSUME Inv, NEW s \in Server \ astray
               PROVE  Cardinality(Running(s)) <= 1
    BY DEF OneProcess
  <2>1. TypeOK /\ RunInv
    BY DEF Inv
  <2>2. \A c \in Running(s) : c[1] = Current(s) /\ slot[Current(s)].connection = c
    <3> SUFFICES ASSUME NEW c \in Running(s) PROVE c[1] = Current(s) /\ slot[Current(s)].connection = c
      OBVIOUS
    <3>1. c \in Conn /\ conn[c] = "open" /\ c[1][1] = s
      BY DEF Running
    <3>2. c[1][2] = gen /\ c[1] \in Slot /\ slot[c[1]].connection = c
      BY <2>1, <3>1 DEF RunInv, Conn
    <3> QED BY <3>1, <3>2 DEF Current, Slot
  <2>3. Running(s) = {} \/ \E c : Running(s) = {c}
    BY <2>2
  <2>4. CASE Running(s) = {}
    BY <2>4, FS_EmptySet
  <2>5. CASE \E c : Running(s) = {c}
    <3>1. PICK c : Running(s) = {c}
      BY <2>5
    <3>2. Cardinality(Running(s)) = 1
      BY <3>1, FS_Singleton
    <3> QED BY <3>2
  <2> QED BY <2>3, <2>4, <2>5
<1> QED BY InvHolds, <1>1, PTL
=============================================================================
