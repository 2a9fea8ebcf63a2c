----------------------------- MODULE McpManager -----------------------------
(***************************************************************************)
(* The MCP servers of one runtime (mcp/manager.ts): a slot for each        *)
(* configured server, with its start in flight, its connection and its     *)
(* tools in the registry.  The start of the session, the user's commands,  *)
(* the workers' tool calls, a reload of the definitions and the end of the *)
(* session interleave at every await; a start may fail, also for want of a *)
(* sign-in, and a server may die.  A server has at least one tool.         *)
(***************************************************************************)
EXTENDS Naturals, FiniteSets

CONSTANTS
  Server,
  Installed,       \* the servers of the configuration when the session starts
  Asks,            \* project servers: they run only with the user's approval
  User, Worker,    \* the user gives one command at a time, a worker makes one call at a time
  Verbs,           \* the commands the user gives
  Changes,         \* what a reload may find of a server: "same", "changed", both also "off", "gone"
  MaxDone,         \* bound: commands and calls
  MaxLoads,        \* bound: reloads
  None

Actor == {User} \cup Worker
Slot == Server \X (0..MaxLoads)        \* a slot of the n-th reload
Conn == Slot \X (1..MaxDone + 1)       \* its starts, and the connections they make

ASSUME BoundsAreNat == MaxDone \in Nat /\ MaxLoads \in Nat
ASSUME NoneApart == None \notin Conn /\ None \notin Slot
ASSUME UserIsNoWorker == User \notin Worker
ASSUME AsksAreServers == Asks \subseteq Server

VARIABLES
  gen,             \* the slots in use are those of this reload
  slot,            \* version of the definition (0: no such server), enabled by it, disabled for the
                   \* session, connection, connecting, registered, auth (needsAuth)
  conn,            \* a start is none or begun, then its connection is open or closed
  registry,        \* the servers whose tools are in the registry
  approved,        \* the approvals on disk: at most one version of a server
  started, closed, \* startSession, close
  doing,           \* what an actor does, how far it is, on which slot, the start it awaits, and the
                   \* slots a reload has left to stop
  done,            \* commands and calls so far
  astray           \* history, which no guard reads: the servers of which a start was begun while the
                   \* slot had a live connection, or after a reload had come to the slot

vars == <<gen, slot, conn, registry, approved, started, closed, doing, done, astray>>

Idle == [verb |-> "none", at |-> "done", slot |-> None, awaits |-> None, left |-> {}]

Fresh(v, enabled) ==
  [version |-> v, enabled |-> enabled, disabled |-> FALSE, connection |-> None, connecting |-> None,
   registered |-> FALSE, auth |-> FALSE]

Init ==
  /\ gen = 0 /\ conn = [c \in Conn |-> "none"] /\ registry = {}
  /\ \E on \in SUBSET Installed :
       slot = [x \in Slot |-> IF x[2] = 0 /\ x[1] \in Installed THEN Fresh(1, x[1] \in on) ELSE Fresh(0, FALSE)]
  /\ \E S \in SUBSET Asks : approved = {<<s, 1>> : s \in S}
  /\ started = FALSE /\ closed = FALSE
  /\ doing = [u \in Actor |-> Idle] /\ done = 0 /\ astray = {}

Current(s) == <<s, gen>>
There == {s \in Server : slot[Current(s)].version > 0}
NeedsApproval(x) == x[1] \in Asks /\ <<x[1], slot[x].version>> \notin approved
Off(x) == slot[x].disabled \/ ~slot[x].enabled
Usable(x) == ~Off(x) /\ ~NeedsApproval(x)
Live(c) == IF c = None THEN FALSE ELSE conn[c] = "open"

-----------------------------------------------------------------------------
(* A start: begun or joined by connect, and how it settles *)

To(u, d) == doing' = [doing EXCEPT ![u] = d]

Awaits(u, verb, at, x, c) ==
  To(u, [verb |-> verb, at |-> at, slot |-> x, awaits |-> c, left |-> {}])

\* The bound on starts: one of startSession and one of each command or call.
Free(x) == \E n \in 1..MaxDone + 1 : conn[<<x, n>>] = "none"
Promise(x) == <<x, CHOOSE n \in 1..MaxDone + 1 : conn[<<x, n>>] = "none">>

\* A reload has come to the slot, to stop it, or has stopped it already.
Passed(x) == doing[User].verb = "load" /\ x[1] \notin doing[User].left

\* connect does not look whether the slot is connected, or about to be replaced.
Begun(x, slots) ==
  /\ Free(x) /\ conn' = [conn EXCEPT ![Promise(x)] = "begun"]
  /\ slot' = [slots EXCEPT ![x].connecting = Promise(x)]
  /\ astray' = IF Live(slots[x].connection) \/ Passed(x) THEN astray \cup {x[1]} ELSE astray

\* Mutated: a start in flight is not joined, another one begins.
Connects_NeverJoins(u, verb, x, slots, wanted) ==
  IF wanted /\ ~closed
  THEN Begun(x, slots) /\ Awaits(u, verb, "settle", x, Promise(x))
  ELSE /\ slot' = slots /\ UNCHANGED <<conn, astray>>
       /\ Awaits(u, verb, "settle", x, None)

\* connect, when it is wanted, on the slots as the command leaves them.
Connects(u, verb, x, slots, wanted) ==
  IF wanted /\ ~closed /\ slots[x].connecting = None
  THEN Begun(x, slots) /\ Awaits(u, verb, "settle", x, Promise(x))
  ELSE /\ slot' = slots /\ UNCHANGED <<conn, astray>>
       /\ Awaits(u, verb, "settle", x, IF wanted /\ ~closed THEN slots[x].connecting ELSE None)

\* Mutated: the slot's own tools count as another's, so they are not taken over.
RegisteredByOthers_All(x) == registry

\* register: the slot's own tools are replaced, those of another slot stay.
RegisteredByOthers(x) == IF slot[x].registered THEN registry \ {x[1]} ELSE registry
RegistersAs(x) == x[1] \notin RegisteredByOthers(x)

\* Mutated: a start does not look whether the session has ended.
Unwanted_AfterClose(x) == slot[x].disabled

\* A connection that nobody wants any more closes again.
Unwanted(x) == closed \/ slot[x].disabled

StartEnds(c) ==
  LET x == c[1] IN
  /\ conn[c] = "begun"
  /\ \/ /\ Unwanted(x)
        /\ conn' = [conn EXCEPT ![c] = "closed"]
        /\ slot' = [slot EXCEPT ![x].connecting = None] /\ UNCHANGED registry
     \/ /\ ~Unwanted(x)
        /\ conn' = [conn EXCEPT ![c] = "open"]
        /\ slot' = [slot EXCEPT ![x] = [@ EXCEPT !.connecting = None, !.connection = c,
                                                 !.registered = RegistersAs(x), !.auth = FALSE]]
        /\ registry' = RegisteredByOthers(x) \cup {x[1]}
     \/ /\ conn' = [conn EXCEPT ![c] = "closed"]
        /\ \E a \in BOOLEAN : slot' = [slot EXCEPT ![x] = [@ EXCEPT !.connecting = None, !.auth = a]]
        /\ UNCHANGED registry
  /\ UNCHANGED <<gen, approved, started, closed, doing, done, astray>>

ServerDies(c) ==
  /\ conn[c] = "open" /\ conn' = [conn EXCEPT ![c] = "closed"]
  /\ UNCHANGED <<gen, slot, registry, approved, started, closed, doing, done, astray>>

-----------------------------------------------------------------------------
(* stop: first a start in flight settles *)

\* Mutated: a stop does not wait for the start in flight.
Settled_NotAwaited(c) == TRUE

Settled(c) == IF c = None THEN TRUE ELSE conn[c] # "begun"

\* then the tools go, and the connection is closed.
Stopped(xs) ==
  [x \in Slot |-> IF x \in xs THEN [slot[x] EXCEPT !.registered = FALSE, !.connection = None] ELSE slot[x]]

StopNow(xs) ==
  /\ registry' = registry \ {x[1] : x \in {y \in xs : slot[y].registered}}
  /\ conn' = [c \in Conn |-> IF conn[c] = "open" /\ \E x \in xs : slot[x].connection = c
                             THEN "closed" ELSE conn[c]]
  /\ slot' = Stopped(xs)

-----------------------------------------------------------------------------
(* startSession, and the tool calls *)

\* Every usable server is started, or gets the tools it had the last time.
StartSession ==
  /\ ~started /\ started' = TRUE /\ ~closed
  /\ \E lazy \in SUBSET There :
       LET usable == {x \in Slot : x[2] = gen /\ x[1] \in There /\ Usable(x)}
           cached == {x \in usable : x[1] \in lazy}
       IN /\ \A x \in usable : Free(x)
          /\ conn' = [c \in Conn |-> IF c[1] \in usable \ cached /\ c = Promise(c[1]) THEN "begun" ELSE conn[c]]
          /\ slot' = [x \in Slot |-> IF x \in cached THEN [slot[x] EXCEPT !.registered = RegistersAs(x)]
                                     ELSE IF x \in usable THEN [slot[x] EXCEPT !.connecting = Promise(x)]
                                     ELSE slot[x]]
          /\ registry' = registry \cup {x[1] : x \in cached}
  /\ UNCHANGED <<gen, approved, closed, doing, done, astray>>

Begins(u, verb) ==
  /\ started /\ ~closed /\ doing[u].verb = "none"
  /\ done < MaxDone /\ done' = done + 1

\* The gateway takes the tool from the registry, then asks for approval.
Take(w, s) ==
  /\ Begins(w, "call") /\ s \in registry
  /\ Awaits(w, "call", "ask", Current(s), None)
  /\ UNCHANGED <<gen, slot, conn, registry, approved, started, closed, astray>>

\* connection, when there is no live one, of the slot that is then in use.
Call(w) ==
  /\ doing[w].at = "ask"
  /\ LET s == doing[w].slot[1]  x == Current(s) IN
     /\ s \in There /\ Usable(x)
     /\ ~(slot[x].auth /\ slot[x].connecting = None) /\ ~Live(slot[x].connection)
     /\ Connects(w, "call", x, slot, TRUE)
  /\ UNCHANGED <<gen, registry, approved, started, closed, done>>

\* The call is refused, finds a live connection, or is cancelled: its start goes on without it.
Leaves(w) ==
  /\ doing[w].verb = "call" /\ To(w, Idle)
  /\ UNCHANGED <<gen, slot, conn, registry, approved, started, closed, done, astray>>

-----------------------------------------------------------------------------
(* The user's commands *)

Command(verb, s) == verb \in Verbs /\ Begins(User, verb) /\ s \in There

Enable(s) ==
  LET x == Current(s) IN
  /\ Command("enable", s)
  /\ Connects(User, "enable", x, [slot EXCEPT ![x].disabled = FALSE, ![x].enabled = TRUE],
              ~NeedsApproval(x) /\ ~slot[x].registered)
  /\ UNCHANGED <<gen, registry, approved, started, closed>>

Disable(s) ==
  LET x == Current(s) IN
  /\ Command("disable", s)
  /\ slot' = [slot EXCEPT ![x].disabled = TRUE]
  /\ Awaits(User, "disable", "stop", x, slot[x].connecting)
  /\ UNCHANGED <<gen, conn, registry, approved, started, closed, astray>>

\* A login ends in a reconnect; a logout stops the server only.
Reconnect(s) ==
  /\ \E verb \in {"reconnect", "logout"} :
       Command(verb, s) /\ Awaits(User, verb, "stop", Current(s), slot[Current(s)].connecting)
  /\ UNCHANGED <<gen, slot, conn, registry, approved, started, closed, astray>>

\* approve and revoke write the approvals first; a server that needs no approval is stopped all the same.
Approve(s) ==
  /\ Command("approve", s) /\ s \in Asks
  /\ Awaits(User, "approve", "write", Current(s), None)
  /\ UNCHANGED <<gen, slot, conn, registry, approved, started, closed, astray>>

Revoke(s) ==
  /\ Command("revoke", s)
  /\ Awaits(User, "revoke", "write", Current(s), None)
  /\ UNCHANGED <<gen, slot, conn, registry, approved, started, closed, astray>>

OfOthers(s) == {a \in approved : a[1] # s}

Approved ==
  LET x == doing[User].slot IN
  /\ doing[User].verb = "approve" /\ doing[User].at = "write"
  /\ approved' = OfOthers(x[1]) \cup {<<x[1], slot[x].version>>}
  /\ Connects(User, "approve", x, slot, ~Off(x))
  /\ UNCHANGED <<gen, registry, started, closed, done>>

Revoked ==
  LET x == doing[User].slot IN
  /\ doing[User].verb = "revoke" /\ doing[User].at = "write"
  /\ approved' = OfOthers(x[1]) /\ Awaits(User, "revoke", "stop", x, slot[x].connecting)
  /\ UNCHANGED <<gen, slot, conn, registry, started, closed, done, astray>>

Stop ==
  LET d == doing[User] IN
  /\ d.at = "stop" /\ d.verb # "load" /\ Settled(d.awaits)
  /\ StopNow({d.slot})
  /\ Awaits(User, d.verb, IF d.verb \in {"reconnect", "logout"} THEN "clear" ELSE "settle", d.slot, None)
  /\ UNCHANGED <<gen, approved, started, closed, done, astray>>

\* After the stop of a reconnect or a logout.
Cleared ==
  LET d == doing[User]  x == d.slot IN
  /\ d.at = "clear"
  /\ Connects(User, d.verb, x, [slot EXCEPT ![x].auth = FALSE], d.verb = "reconnect" /\ Usable(x))
  /\ UNCHANGED <<gen, registry, approved, started, closed, done>>

\* A command or a call is over when the start it awaits has settled.
Ends(u) ==
  /\ doing[u].at = "settle" /\ Settled(doing[u].awaits) /\ To(u, Idle)
  /\ UNCHANGED <<gen, slot, conn, registry, approved, started, closed, done, astray>>

-----------------------------------------------------------------------------
(* load: the new slots are made, the old ones stopped one by one, the new ones used *)

\* What a reload makes of a server's slot; a server that was not there is new.
Reloaded(found, old) ==
  CASE found \in {"same", "same off"} -> [old EXCEPT !.enabled = (found = "same")]
    [] found \in {"changed", "changed off"} -> Fresh(old.version + 1, found = "changed")
    [] OTHER -> Fresh(0, FALSE)

Load ==
  /\ "load" \in Verbs /\ Begins(User, "load") /\ gen < MaxLoads
  /\ \E found \in [Server -> Changes] :
       slot' = [x \in Slot |-> IF x[2] = gen + 1 THEN Reloaded(found[x[1]], slot[Current(x[1])]) ELSE slot[x]]
  /\ To(User, [verb |-> "load", at |-> "next", slot |-> None, awaits |-> None, left |-> There])
  /\ UNCHANGED <<gen, conn, registry, approved, started, closed, astray>>

LoadNext ==
  LET d == doing[User] IN
  /\ d.at = "next"
  /\ \E s \in d.left :
       To(User, [verb |-> "load", at |-> "stop", slot |-> Current(s),
                 awaits |-> slot[Current(s)].connecting, left |-> d.left \ {s}])
  /\ UNCHANGED <<gen, slot, conn, registry, approved, started, closed, done, astray>>

LoadStops ==
  LET d == doing[User] IN
  /\ d.verb = "load" /\ d.at = "stop" /\ Settled(d.awaits)
  /\ StopNow({d.slot})
  /\ To(User, [verb |-> "load", at |-> "next", slot |-> None, awaits |-> None, left |-> d.left])
  /\ UNCHANGED <<gen, approved, started, closed, done, astray>>

LoadEnds ==
  /\ doing[User].at = "next" /\ doing[User].left = {}
  /\ gen' = gen + 1 /\ To(User, Idle)
  /\ UNCHANGED <<slot, conn, registry, approved, started, closed, done, astray>>

-----------------------------------------------------------------------------

\* close awaits no start: one in flight sees that the session is closed.
Close ==
  /\ ~closed /\ closed' = TRUE
  /\ StopNow({x \in Slot : x[2] = gen})
  /\ UNCHANGED <<gen, approved, started, doing, done, astray>>

Next ==
  \/ StartSession \/ Close
  \/ \E s \in Server :
       \/ Enable(s) \/ Disable(s) \/ Reconnect(s) \/ Approve(s) \/ Revoke(s)
       \/ \E w \in Worker : Take(w, s)
  \/ Approved \/ Revoked \/ Stop \/ Cleared
  \/ Load \/ LoadNext \/ LoadStops \/ LoadEnds
  \/ \E u \in Actor : Ends(u)
  \/ \E w \in Worker : Call(w) \/ Leaves(w)
  \/ \E c \in Conn : StartEnds(c) \/ ServerDies(c)

Spec == Init /\ [][Next]_vars

-----------------------------------------------------------------------------
(* Properties *)

VerbName == {"none", "call", "enable", "disable", "reconnect", "logout", "approve", "revoke", "load"}
At == {"done", "ask", "write", "stop", "clear", "settle", "next"}
Record == [version : Nat, enabled : BOOLEAN, disabled : BOOLEAN, connection : Conn \cup {None},
           connecting : Conn \cup {None}, registered : BOOLEAN, auth : BOOLEAN]
Work ==
  {d \in [verb : VerbName, at : At, slot : Slot \cup {None}, awaits : Conn \cup {None}, left : SUBSET Server] :
     /\ d.at \in {"ask", "write", "stop", "clear"} => d.slot # None
     /\ d.at = "next" => d.verb = "load"
     /\ d.verb = "load" => d.at \in {"next", "stop"}}

TypeOK ==
  /\ gen \in 0..MaxLoads /\ done \in 0..MaxDone /\ started \in BOOLEAN /\ closed \in BOOLEAN
  /\ slot \in [Slot -> Record] /\ conn \in [Conn -> {"none", "begun", "open", "closed"}]
  /\ registry \subseteq Server /\ approved \subseteq Server \X Nat
  /\ astray \subseteq Server
  /\ doing \in [Actor -> Work] /\ (doing[User].verb = "load" => gen < MaxLoads)

\* A command on the server, a reload, a call that has reached it or a start of it is under way.
Busy(s) ==
  \/ doing[User].verb = "load"
  \/ \E u \in Actor : doing[u].at \notin {"done", "next", "ask"} /\ doing[u].slot[1] = s
  \/ \E c \in Conn : c[1][1] = s /\ conn[c] = "begun"

Running(s) == {c \in Conn : c[1][1] = s /\ conn[c] = "open"}

\* manager.ts:17, "Every server process ends with the session".  The code does not keep it:
\* connect (313-332) overwrites a live connection, and a reload drops a slot on which a call has
\* begun a start after the slot was stopped.
EveryProcessEnds == closed => \A s \in Server : Running(s) = {}

\* connection (182, "connects (or reconnects after a crash) on demand"): a call that finds no live
\* connection gets a start that has yet to settle.  The code does not keep it: a reload copies
\* the start in flight of an unchanged server (109) to a slot in which it never settles.
CallsConnect ==
  [][\A w \in Worker : doing[w].at = "ask" /\ doing'[w].at = "settle" /\ doing'[w].awaits # None
                         => conn'[doing'[w].awaits] = "begun"]_vars

\* The four properties below except the servers in astray, of which a start was begun on a slot
\* that was connected (approve of a connected server; a reconnect that finds the server connected
\* by a call since its stop) or that a reload had come to (a call meanwhile).

\* manager.ts:17: whatever was being started, stopped or reloaded when the session was closed,
\* a server that is not astray is not left running and keeps no tool registered, once its
\* start in flight has settled.
EndsWithSession ==
  closed => \A s \in Server \ astray : Running(s) = {} /\ s \notin registry

\* manager.ts:13-17, 382-385: a server that was disabled, whose approval was revoked,
\* or that a reload has found changed or gone, has no process and no tools once the
\* command is over, also when it was being started or called meanwhile, unless it is astray.
OffMeansStopped ==
  \A s \in Server \ astray :
    ~Busy(s) /\ (s \notin There \/ Off(Current(s)) \/ NeedsApproval(Current(s)))
      => Running(s) = {} /\ s \notin registry

\* manager.ts:313-315: however calls, commands, reloads and the start of the session
\* overlap, a server that is not astray runs at most once.
OneProcess == \A s \in Server \ astray : Cardinality(Running(s)) <= 1

\* manager.ts:31, 178, 289: what runs or is registered of a server that is not astray belongs to
\* the slot in use, which is where /mcp, the tool calls and the exit handler look for it.
NothingUnlisted ==
  \A s \in Server \ astray : ~Busy(s) /\ (Running(s) # {} \/ s \in registry) =>
    /\ s \in There /\ s \in registry /\ slot[Current(s)].registered
    /\ Running(s) \subseteq {slot[Current(s)].connection}
=============================================================================
