------------------------ MODULE SessionWritersProofs ------------------------
(***************************************************************************)
(* What holds of the lease for any number of writers and any clock: the    *)
(* types, with every fault; and, among writers that neither die nor stall  *)
(* inside a file operation, that the mutex excludes, that a renewal never  *)
(* overwrites another lease and that a live lease stays in place.          *)
(*                                                                         *)
(* Then what the lease is for: one such writer at a time is between        *)
(* verify() and its write, and the log has every seq once, whoever took it *)
(* over from whom and however often.                                       *)
(***************************************************************************)
EXTENDS SessionWriters, TLAPS

\* The writers' processes neither die nor stall.
Reliable == Crashable = {} /\ Suspendable = {}

\* Where a writer has the mutex.
Inside == InMutex \cup {"exit", "unmutex"}

\* A third failed attempt is the last: the writer is refused next, or has died.
LastTry == \A w \in Writers : tries[w] = 3 => pc[w] \in {"create", "refused", "crashed"}

\* The mutex is stored exactly while its writer is inside, which takes no time.
MutexHeld ==
  /\ \A w \in Writers : pc[w] \in Inside => mutex # NoFile /\ mutex.token = w
  /\ mutex # NoFile => pc[mutex.token] \in Inside /\ mutex.at = now

\* Nobody dies, finds a stale mutex, or moved a lease aside that has to go back.
NoFault == \A w \in Writers : pc[w] \notin {"crashed", "break", "putback"}

\* What a writer has found out under the mutex stays true while it has it.
Checked ==
  \A w \in Writers :
    /\ pc[w] \in {"rewrite", "unlink"} => Owns(w)
    /\ pc[w] = "rename" => lock # NoFile /\ Expired(lock)
    /\ pc[w] = "rename" /\ seen[w] # NoToken => Token(lock) = seen[w]
    /\ pc[w] = "examine" => aside[w] # NoFile
    /\ pc[w] = "examine" /\ seen[w] # NoToken => Token(aside[w]) = seen[w]

TInv == TypeOK /\ LastTry

IInv == TInv /\ MutexHeld /\ NoFault /\ Checked

-----------------------------------------------------------------------------
LEMMA FilledType ==
  ASSUME NEW w, NEW file \in LockFile \cup {NoFile}
  PROVE  Filled(file, w) \in LockFile \cup {NoFile}
BY DEF Filled, LockFile

LEMMA InitTInv == Init => TInv
BY WritersAssumption, TimesAssumption, SentinelAssumption
DEF Init, TInv, TypeOK, LastTry, Locations

\* A renewal puts a new lease in place, or leaves the old one; it knows of the new one, or looks at the clock.
Renewed(w) == lock' \in LockFile /\ lock'.token = w /\ lock'.expires = due[w] /\ lock'.written = TRUE

LEMMA RewriteEffect ==
  ASSUME TypeOK, NEW w \in Writers, RewriteLock(w)
  PROVE  /\ expires' \in [Writers -> Int] /\ lost' \in [Writers -> BOOLEAN]
         /\ \/ Renewed(w) /\ expires'[w] = due[w] /\ lost' = lost
            \/ /\ lock' = lock \/ Renewed(w)
               /\ expires' = expires /\ (lost'[w] <=> lost[w] \/ now >= expires[w])
<1> DEFINE renewed == [token |-> w, expires |-> due[w], written |-> TRUE]
<1>1. /\ renewed \in LockFile /\ renewed.token = w /\ renewed.expires = due[w] /\ renewed.written = TRUE
      /\ now \in Int /\ due \in [Writers -> Int] /\ expires \in [Writers -> Int] /\ lost \in [Writers -> BOOLEAN]
  BY DEF TypeOK, LockFile
<1>2. \/ lock' = renewed /\ expires' = [expires EXCEPT ![w] = due[w]] /\ lost' = lost
      \/ /\ lock' \in {lock, renewed} /\ expires' = expires
         /\ lost' = [lost EXCEPT ![w] = lost[w] \/ now >= expires[w]]
  BY DEF RewriteLock
<1> HIDE DEF renewed
<1>3. CASE lock' = renewed /\ expires' = [expires EXCEPT ![w] = due[w]] /\ lost' = lost
  BY <1>1, <1>3 DEF Renewed
<1>4. CASE /\ lock' \in {lock, renewed} /\ expires' = expires
           /\ lost' = [lost EXCEPT ![w] = lost[w] \/ now >= expires[w]]
  <2>1. lock' = lock \/ Renewed(w)
    BY <1>1, <1>4 DEF Renewed
  <2>2. lost' \in [Writers -> BOOLEAN] /\ (lost'[w] <=> lost[w] \/ now >= expires[w])
    BY <1>1, <1>4
  <2> QED BY <1>1, <1>4, <2>1, <2>2
<1> QED BY <1>2, <1>3, <1>4

\* Every step keeps the types (all variables of store/lease.ts).
LEMMA NextTInv == TInv /\ [Next]_vars => TInv'
<1> SUFFICES ASSUME TInv, [Next]_vars PROVE TInv'
  OBVIOUS
<1> USE WritersAssumption, TimesAssumption DEF TInv, TypeOK, LastTry, AtLabel, Goto
<1>1. CASE UNCHANGED vars
  BY <1>1 DEF vars
<1>2. CASE Tick
  BY <1>2 DEF Tick
<1>3. ASSUME NEW w \in Writers, AcquireStep(w) PROVE TInv'
  <2>1. CASE CreateLock(w)
    BY <2>1 DEF CreateLock, LockFile, Locations
  <2>2. CASE WriteLock(w)
    BY <2>2, FilledType DEF WriteLock, Locations
  <2>3. CASE CreateLoses(w)
    BY <2>3 DEF CreateLoses, Locations
  <2>4. CASE OutOfTries(w)
    BY <2>4 DEF OutOfTries, Locations
  <2>5. CASE InspectLock(w)
    BY <2>5 DEF InspectLock, Locations, Token, LockFile
  <2> QED BY <1>3, <2>1, <2>2, <2>3, <2>4, <2>5 DEF AcquireStep
<1>4. ASSUME NEW w \in Writers, MutexStep(w) PROVE TInv'
  <2>1. CASE TakeMutex(w)
    BY <2>1 DEF TakeMutex, BodyOf, MutexFile, Locations
  <2>2. CASE FindStaleMutex(w)
    BY <2>2 DEF FindStaleMutex, Locations
  <2>3. CASE BreakMutex(w)
    BY <2>3 DEF BreakMutex, Locations
  <2>4. CASE MutexBusy(w)
    BY <2>4 DEF MutexBusy, Locations
  <2>5. CASE ExitMutex(w)
    BY <2>5 DEF ExitMutex, LeaveMutex, Locations
  <2>6. CASE UnlinkMutex(w)
    BY <2>6 DEF UnlinkMutex, LeaveMutex, Locations
  <2> QED BY <1>4, <2>1, <2>2, <2>3, <2>4, <2>5, <2>6 DEF MutexStep
<1>5. ASSUME NEW w \in Writers, TakeoverStep(w) PROVE TInv'
  BY <1>5 DEF TakeoverStep, Reinspect, RenameAside, ExamineAside, PutBack, Locations
<1>6. ASSUME NEW w \in Writers, RenewStep(w) PROVE TInv'
  <2>1. CASE CheckToken(w)
    BY <2>1 DEF CheckToken, Owns, Locations
  <2>2. CASE RecheckToken(w)
    BY <2>2 DEF RecheckToken, Owns, Locations
  <2>3. CASE RewriteLock(w)
    <3>1. /\ lock' \in LockFile \cup {NoFile}
          /\ expires' \in [Writers -> Int] /\ lost' \in [Writers -> BOOLEAN]
      BY <2>3, RewriteEffect DEF Renewed
    <3> QED BY <2>3, <3>1 DEF RewriteLock, Locations
  <2> QED BY <1>6, <2>1, <2>2, <2>3 DEF RenewStep
<1>7. ASSUME NEW w \in Writers, ReleaseStep(w) PROVE TInv'
  BY <1>7 DEF ReleaseStep, CheckOwned, UnlinkLock, Locations
<1>8. ASSUME NEW w \in Writers, StartRenew(w) \/ StartRelease(w) \/ Crash(w) PROVE TInv'
  <2>1. CASE StartRenew(w)
    BY <2>1 DEF StartRenew, Locations
  <2>2. CASE StartRelease(w)
    BY <2>2 DEF StartRelease, Locations
  <2>3. CASE Crash(w)
    BY <2>3 DEF Crash, Locations
  <2> QED BY <1>8, <2>1, <2>2, <2>3
<1> QED BY <1>1, <1>2, <1>3, <1>4, <1>5, <1>6, <1>7, <1>8 DEF Next, Step

(* store/lease.ts: whatever dies, stalls or races, every variable keeps    *)
(* its type, so no file holds anything but a lease or a mutex.             *)
THEOREM TypeCorrect == Spec => []TypeOK
<1>1. TInv => TypeOK
  BY DEF TInv
<1> QED BY <1>1, InitTInv, NextTInv, PTL DEF Spec

-----------------------------------------------------------------------------
LEMMA InitIInv == Init => IInv
<1>1. Init => TInv
  BY InitTInv
<1>2. Init => MutexHeld /\ NoFault /\ Checked
  BY DEF Init, MutexHeld, NoFault, Checked, Inside, InMutex
<1> QED BY <1>1, <1>2 DEF IInv

\* At most one writer is inside, and time stands still while one is.
LEMMA OneInside ==
  ASSUME IInv, NEW v \in Writers, NEW w \in Writers, pc[v] \in Inside, pc[w] \in Inside
  PROVE  v = w
BY DEF IInv, MutexHeld

LEMMA NoTickInside ==
  ASSUME IInv, Reliable, Tick
  PROVE  mutex = NoFile
<1> SUFFICES ASSUME mutex # NoFile PROVE FALSE
  OBVIOUS
<1>1. mutex.token \in Writers /\ pc[mutex.token] \in Inside
  BY DEF IInv, TInv, TypeOK, MutexHeld, MutexFile
<1>2. Parked(mutex.token)
  BY <1>1 DEF Tick, Prompt, Reliable
<1> QED BY <1>1, <1>2 DEF Parked, Inside, InMutex

\* No step of a reliable writer leaves the strengthened invariant.
LEMMA NextIInv ==
  ASSUME Reliable, IInv, [Next]_vars
  PROVE  IInv'
<1> USE DEF IInv, AtLabel, Goto
<1>t. TInv'
  BY NextTInv
<1>0. /\ MutexFile = [token : Writers, at : Int]
      /\ mutex \in MutexFile \cup {NoFile} /\ now \in Int
      /\ lock \in LockFile \cup {NoFile}
      /\ pc \in [Writers -> Locations]
      /\ job \in [Writers -> {"acquire", "renew", "release"}]
      /\ seen \in [Writers -> Writers \cup {NoToken}]
      /\ aside \in [Writers -> LockFile \cup {NoFile}]
      /\ lost \in [Writers -> BOOLEAN]
      /\ MutexStale \in Nat
  BY TimesAssumption DEF TInv, TypeOK, MutexFile
<1>1. CASE UNCHANGED vars
  BY <1>1, <1>t DEF vars, MutexHeld, NoFault, Checked, Owns, Expired, Token
<1>2. CASE Tick
  <2>1. mutex = NoFile
    BY <1>2, NoTickInside
  <2>2. \A w \in Writers : pc[w] \notin Inside
    BY <2>1 DEF MutexHeld
  <2> QED BY <1>2, <1>t, <2>1, <2>2 DEF Tick, MutexHeld, NoFault, Checked, Inside, InMutex
<1>3. ASSUME NEW w \in Writers, AcquireStep(w) PROVE IInv'
  <2>1. CASE CreateLock(w)
    BY <2>1, <1>t, <1>0, SentinelAssumption DEF CreateLock, MutexHeld, NoFault, Checked, Inside, InMutex, Owns, Expired, Token, LockFile
  <2>2. CASE WriteLock(w)
    <3>1. MutexHeld' /\ NoFault'
      BY <2>2, <1>0 DEF WriteLock, MutexHeld, NoFault, Inside, InMutex
    <3>2. ASSUME NEW f \in LockFile \cup {NoFile}, f # NoFile
          PROVE  /\ Filled(f, w) # NoFile /\ Filled(f, w).expires = f.expires
                 /\ Token(f) # NoToken => Token(Filled(f, w)) = Token(f)
      BY <3>2, SentinelAssumption DEF Filled, Token, LockFile
    <3>3. Checked'
      BY <2>2, <1>0, <3>2, SentinelAssumption DEF WriteLock, Checked, Owns, Expired
    <3> QED BY <1>t, <3>1, <3>3
  <2>3. CASE CreateLoses(w)
    BY <2>3, <1>t, <1>0 DEF CreateLoses, MutexHeld, NoFault, Checked, Inside, InMutex, Owns, Expired, Token
  <2>4. CASE OutOfTries(w)
    BY <2>4, <1>t, <1>0 DEF OutOfTries, MutexHeld, NoFault, Checked, Inside, InMutex, Owns, Expired, Token
  <2>5. CASE InspectLock(w)
    <3>1. MutexHeld' /\ NoFault'
      BY <2>5, <1>0 DEF InspectLock, MutexHeld, NoFault, Inside, InMutex
    <3>2. Checked'
      BY <2>5, <1>0 DEF InspectLock, Checked, Owns, Expired
    <3> QED BY <1>t, <3>1, <3>2
  <2> QED BY <1>3, <2>1, <2>2, <2>3, <2>4, <2>5 DEF AcquireStep
<1>4. ASSUME NEW w \in Writers, MutexStep(w) PROVE IInv'
  <2>1. CASE TakeMutex(w)
    BY <2>1, <1>t, <1>0, SentinelAssumption DEF TakeMutex, MutexHeld, NoFault, Checked, Inside, InMutex, Owns, Expired, Token, BodyOf
  <2>2. CASE FindStaleMutex(w)
    BY <2>2, <1>t, <1>0 DEF FindStaleMutex, MutexHeld, NoFault, Checked, Inside, InMutex, Owns, Expired, Token
  <2>3. CASE BreakMutex(w)
    BY <2>3, <1>t, <1>0 DEF BreakMutex, MutexHeld, NoFault, Checked, Inside, InMutex, Owns, Expired, Token
  <2>4. CASE MutexBusy(w)
    BY <2>4, <1>t, <1>0 DEF MutexBusy, MutexHeld, NoFault, Checked, Inside, InMutex, Owns, Expired, Token
  <2>5. CASE ExitMutex(w)
    BY <2>5, <1>t, <1>0 DEF ExitMutex, MutexHeld, NoFault, Checked, Inside, InMutex, Owns, Expired, Token, LeaveMutex
  <2>6. CASE UnlinkMutex(w)
    BY <2>6, <1>t, <1>0 DEF UnlinkMutex, MutexHeld, NoFault, Checked, Inside, InMutex, Owns, Expired, Token, LeaveMutex
  <2> QED BY <1>4, <2>1, <2>2, <2>3, <2>4, <2>5, <2>6 DEF MutexStep
<1>5. ASSUME NEW w \in Writers, TakeoverStep(w) PROVE IInv'
  <2>1. CASE Reinspect(w)
    <3>1. MutexHeld' /\ NoFault'
      BY <2>1, <1>0 DEF Reinspect, MutexHeld, NoFault, Inside, InMutex
    <3>2. lock # NoFile => (Stale(lock) <=> Expired(lock))
      BY <1>0 DEF Stale, HolderDead, NoFault, LockFile
    <3>3. Checked'
      BY <2>1, <1>0, <3>2 DEF Reinspect, Checked, Owns, Expired
    <3> QED BY <1>t, <3>1, <3>3
  <2>2. CASE RenameAside(w)
    BY <2>2, <1>t, <1>0 DEF RenameAside, MutexHeld, NoFault, Checked, Inside, InMutex, Owns, Expired, Token, TInv, TypeOK
  <2>3. CASE ExamineAside(w)
    BY <2>3, <1>t, <1>0 DEF ExamineAside, MutexHeld, NoFault, Checked, Inside, InMutex, Owns, Expired, Token
  <2>4. CASE PutBack(w)
    BY <2>4, <1>t, <1>0 DEF PutBack, MutexHeld, NoFault, Checked, Inside, InMutex, Owns, Expired, Token
  <2> QED BY <1>5, <2>1, <2>2, <2>3, <2>4 DEF TakeoverStep
<1>6. ASSUME NEW w \in Writers, RenewStep(w) PROVE IInv'
  <2>1. CASE CheckToken(w)
    BY <2>1, <1>t, <1>0 DEF CheckToken, MutexHeld, NoFault, Checked, Inside, InMutex, Owns, Expired, Token
  <2>2. CASE RecheckToken(w)
    <3>1. MutexHeld' /\ NoFault'
      BY <2>2, <1>0 DEF RecheckToken, MutexHeld, NoFault, Inside, InMutex
    <3>2. Checked'
      BY <2>2, <1>0 DEF RecheckToken, Checked, Owns, Expired
    <3> QED BY <1>t, <3>1, <3>2
  <2>3. CASE RewriteLock(w)
    BY <2>3, <1>t, <1>0, SentinelAssumption DEF RewriteLock, MutexHeld, NoFault, Checked, Inside, InMutex, Owns, Expired, Token, LockFile
  <2> QED BY <1>6, <2>1, <2>2, <2>3 DEF RenewStep
<1>7. ASSUME NEW w \in Writers, ReleaseStep(w) PROVE IInv'
  <2>1. CASE CheckOwned(w)
    BY <2>1, <1>t, <1>0 DEF CheckOwned, MutexHeld, NoFault, Checked, Inside, InMutex, Owns, Expired, Token
  <2>2. CASE UnlinkLock(w)
    BY <2>2, <1>t, <1>0 DEF UnlinkLock, MutexHeld, NoFault, Checked, Inside, InMutex, Owns, Expired, Token
  <2> QED BY <1>7, <2>1, <2>2 DEF ReleaseStep
<1>8. ASSUME NEW w \in Writers, StartRenew(w) \/ StartRelease(w) PROVE IInv'
  BY <1>8, <1>t, <1>0 DEF StartRenew, StartRelease, MutexHeld, NoFault, Checked, Inside, InMutex, Owns, Expired, Token
<1>9. ASSUME NEW w \in Writers, Crash(w) PROVE IInv'
  BY <1>9 DEF Crash, Reliable
<1> QED BY <1>1, <1>2, <1>3, <1>4, <1>5, <1>6, <1>7, <1>8, <1>9 DEF Next, Step

LEMMA Invariance == ASSUME Reliable PROVE Spec => []IInv
<1>1. IInv /\ [Next]_vars => IInv'
  BY NextIInv
<1> QED BY <1>1, InitIInv, PTL DEF Spec

(* lease.ts:24-30: at most one process is in the body of the lease mutex,  *)
(* for any number of openers and any ttl, as long as none dies or stalls   *)
(* in the middle of a file operation.                                      *)
THEOREM ExclusionCorrect == ASSUME Reliable PROVE Spec => []MutexExclusion
<1>1. IInv => MutexExclusion
  BY OneInside DEF MutexExclusion, Inside
<1> QED BY <1>1, Invariance, PTL

(* lease.ts:26-27: a renewal writes over its own lease only.               *)
THEOREM RenewalCorrect == ASSUME Reliable PROVE Spec => []RenewalNeverOverwrites
<1>1. IInv => RenewalNeverOverwrites
  BY DEF IInv, Checked, RenewalNeverOverwrites, AtLabel
<1> QED BY <1>1, Invariance, PTL

\* A step that touches lock.json is its holder's, or finds no live lease there.
LEMMA LiveLeaseStep ==
  ASSUME IInv, [Next]_vars, Reliable, NEW w \in Writers,
         lock # NoFile, lock.token = w, lock.written, ~Stale(lock)
  PROVE  lock' = lock \/ (pc[w] \in {"rewrite", "unlink"} /\ pc'[w] = "exit")
<1>0. /\ lock \in LockFile /\ ~Expired(lock) /\ pc \in [Writers -> Locations]
      /\ \A v \in Writers : pc[v] \in {"rewrite", "unlink"} => v = w
  BY DEF IInv, TInv, TypeOK, Stale, Checked, Owns, Token
<1>1. CASE UNCHANGED vars \/ Tick
  BY <1>1 DEF vars, Tick
<1>2. ASSUME NEW v \in Writers, AcquireStep(v) PROVE lock' = lock
  <2>1. [lock EXCEPT !.written = TRUE] = lock
    BY <1>0 DEF LockFile
  <2>2. Filled(lock, v) = lock
    BY <2>1 DEF Filled
  <2> QED BY <1>2, <2>2 DEF AcquireStep, CreateLock, WriteLock, CreateLoses, OutOfTries, InspectLock
<1>3. ASSUME NEW v \in Writers, MutexStep(v) PROVE lock' = lock
  BY <1>3 DEF MutexStep, TakeMutex, FindStaleMutex, BreakMutex, MutexBusy, ExitMutex, UnlinkMutex
<1>4. ASSUME NEW v \in Writers, TakeoverStep(v) PROVE lock' = lock
  BY <1>4, <1>0 DEF TakeoverStep, Reinspect, RenameAside, ExamineAside, PutBack, IInv, Checked, NoFault, AtLabel
<1>5. ASSUME NEW v \in Writers, RenewStep(v)
      PROVE  lock' = lock \/ (pc[w] = "rewrite" /\ pc'[w] = "exit")
  BY <1>5, <1>0 DEF RenewStep, CheckToken, RecheckToken, RewriteLock, AtLabel, Goto
<1>6. ASSUME NEW v \in Writers, ReleaseStep(v)
      PROVE  lock' = lock \/ (pc[w] = "unlink" /\ pc'[w] = "exit")
  BY <1>6, <1>0 DEF ReleaseStep, CheckOwned, UnlinkLock, AtLabel, Goto
<1>7. ASSUME NEW v \in Writers, StartRenew(v) \/ StartRelease(v) \/ Crash(v) PROVE lock' = lock
  BY <1>7 DEF StartRenew, StartRelease, Crash
<1> QED BY <1>1, <1>2, <1>3, <1>4, <1>5, <1>6, <1>7 DEF Next, Step

(* core-and-store.md:55-59: nobody but its holder changes or removes a     *)
(* lease that has not expired.                                             *)
THEOREM LiveLeaseCorrect == ASSUME Reliable PROVE Spec => LiveLeaseKept
<1>1. IInv /\ [Next]_vars =>
        [\A w \in Writers :
           lock # NoFile /\ lock.token = w /\ lock.written /\ ~Stale(lock)
             => \/ lock' = lock
                \/ pc[w] \in {"rewrite", "unlink"} /\ pc'[w] = "exit"]_vars
  BY LiveLeaseStep
<1> QED BY <1>1, Invariance, PTL DEF Spec, LiveLeaseKept

----------------------------------------------------------------------------
(* The appenders, and the log they share *)

\* Where a writer is that has the lease, as far as it knows.
RenewPcs == {"mutex", "check", "recheck", "rewrite", "exit", "unmutex"}
Holds(w) == pc[w] = "held" \/ (job[w] = "renew" /\ pc[w] \in RenewPcs)

\* Every body of the mutex is entered for its own job.
Job(w) ==
  /\ pc[w] \in {"reinspect", "rename", "examine"} => job[w] = "acquire"
  /\ pc[w] \in {"check", "recheck", "rewrite"} => job[w] = "renew"
  /\ pc[w] \in {"owned", "unlink"} => job[w] = "release"

\* A lease in memory is the one on disk until it expires.
Lease(w) ==
  /\ pc[w] = "write" => lock # NoFile /\ lock.token = w /\ ~Expired(lock)
  /\ Holds(w) /\ ~lost[w] /\ now < expires[w] => Owns(w)
  /\ pc[w] = "rewrite" => due[w] = now + TTL
  /\ pc[w] \in {"exit", "unmutex"} /\ job[w] = "renew" /\ ~lost[w] => now < expires[w]
  /\ expires[w] <= now + TTL

\* An appender has the lease, or has found it lost; the one that was let through has it still.
Appender(w) ==
  /\ append[w] # "closed" => Holds(w) \/ pc[w] = "lost"
  /\ pc[w] = "lost" => lost[w]
  /\ append[w] = "renewing" /\ pc[w] = "held" /\ ~lost[w] => now < expires[w]
  /\ append[w] = "verified" => Owns(w) /\ ~Expired(lock)
  /\ append[w] \in {"idle", "renewing", "verified"} /\ Owns(w) => lastSeq[w] = Len(log)

\* Its holder knows of no later end than the lock file says: a renewal may fail after its rename.
LockTime == lock # NoFile => lock.expires >= expires[lock.token]

LeaseInv == LockTime /\ \A w \in Writers : Job(w) /\ Lease(w)

LogOK ==
  /\ log \in Seq(Line) /\ DenseSeq
  /\ lastSeq \in [Writers -> Int] /\ append \in [Writers -> AppendStates]

WInv == IInv /\ LeaseInv /\ LogOK /\ \A w \in Writers : Appender(w)

-----------------------------------------------------------------------------
(* lock.json and a writer's lease *)

\* What a writer does to its own lease, by itself or called.
Acts(v) == Step(v) \/ StartRenew(v) \/ StartRelease(v)

\* A step of one writer: what it leaves to another one.
Leaves(w) ==
  /\ now' = now /\ pc'[w] = pc[w] /\ job'[w] = job[w] /\ due'[w] = due[w]
  /\ expires'[w] = expires[w] /\ lost'[w] = lost[w]

LEMMA LeavesOthers ==
  ASSUME TypeOK, NEW v \in Writers, Acts(v), NEW w \in Writers \ {v}
  PROVE  Leaves(w)
<1> USE DEF TypeOK, Leaves, Goto
<1>1. CASE AcquireStep(v)
  BY <1>1 DEF AcquireStep, CreateLock, WriteLock, CreateLoses, OutOfTries, InspectLock
<1>2. CASE MutexStep(v)
  BY <1>2 DEF MutexStep, TakeMutex, FindStaleMutex, BreakMutex, MutexBusy, ExitMutex, UnlinkMutex, LeaveMutex
<1>3. CASE TakeoverStep(v)
  BY <1>3 DEF TakeoverStep, Reinspect, RenameAside, ExamineAside, PutBack
<1>4. CASE RenewStep(v)
  BY <1>4 DEF RenewStep, CheckToken, RecheckToken, RewriteLock
<1>5. CASE ReleaseStep(v) \/ StartRenew(v) \/ StartRelease(v)
  BY <1>5 DEF ReleaseStep, CheckOwned, UnlinkLock, StartRenew, StartRelease
<1> QED BY <1>1, <1>2, <1>3, <1>4, <1>5 DEF Acts, Step

\* A lease that has not expired stays in the others' steps, and they make none for it.
LEMMA LeaseOfOthers ==
  ASSUME IInv, NEW v \in Writers, Acts(v), NEW w \in Writers \ {v}
  PROVE  /\ lock # NoFile /\ lock.token = w /\ ~Expired(lock) => lock' = lock
         /\ lock' # NoFile /\ lock'.token = w => lock' = lock
<1>0. /\ lock \in LockFile \cup {NoFile} /\ NoFile \notin LockFile /\ NoToken \notin Writers
      /\ \A u \in Writers : pc[u] \in {"rewrite", "unlink"} => Owns(u)
      /\ pc[v] = "rename" => lock # NoFile /\ Expired(lock)
      /\ pc[v] # "putback"
  BY SentinelAssumption DEF IInv, TInv, TypeOK, Checked, NoFault
<1>1. CASE CreateLock(v)
  BY <1>1, <1>0 DEF CreateLock
<1>2. CASE WriteLock(v)
  BY <1>2, <1>0 DEF WriteLock, Filled, LockFile
<1>3. CASE RenameAside(v)
  BY <1>3, <1>0 DEF RenameAside, AtLabel
<1>4. CASE RewriteLock(v)
  BY <1>4, <1>0 DEF RewriteLock, AtLabel, Owns, Token
<1>5. CASE UnlinkLock(v)
  BY <1>5, <1>0 DEF UnlinkLock, AtLabel, Owns, Token
<1>6. CASE CreateLoses(v) \/ OutOfTries(v) \/ InspectLock(v) \/ MutexStep(v)
  BY <1>6 DEF CreateLoses, OutOfTries, InspectLock, MutexStep, TakeMutex, FindStaleMutex, BreakMutex, MutexBusy, ExitMutex, UnlinkMutex
<1>7. CASE Reinspect(v) \/ ExamineAside(v) \/ PutBack(v) \/ CheckToken(v) \/ RecheckToken(v)
  BY <1>7, <1>0 DEF Reinspect, ExamineAside, PutBack, CheckToken, RecheckToken, AtLabel
<1>8. CASE CheckOwned(v) \/ StartRenew(v) \/ StartRelease(v)
  BY <1>8 DEF CheckOwned, StartRenew, StartRelease
<1> QED BY <1>1, <1>2, <1>3, <1>4, <1>5, <1>6, <1>7, <1>8
        DEF Acts, Step, AcquireStep, TakeoverStep, RenewStep, ReleaseStep

LEMMA OthersKeepLease ==
  ASSUME IInv, LeaseInv, NEW v \in Writers, Acts(v), NEW w \in Writers \ {v}
  PROVE  Job(w)' /\ Lease(w)'
<1>1. Leaves(w)
  BY LeavesOthers DEF IInv, TInv
<1>2. /\ Job(w) /\ Lease(w)
      /\ lock \in LockFile \cup {NoFile} /\ NoToken \notin Writers
      /\ lock # NoFile => lock.expires >= expires[lock.token]
      /\ now \in Int /\ expires \in [Writers -> Int]
  BY SentinelAssumption DEF IInv, TInv, TypeOK, LeaseInv, LockTime
<1>3. Owns(w) /\ now < expires[w] => ~Expired(lock) /\ lock.token = w /\ lock # NoFile
  BY <1>2 DEF Owns, Token, Expired, LockFile
<1>4. lock # NoFile /\ lock.token = w /\ ~Expired(lock) => lock' = lock
  BY LeaseOfOthers
<1>5. Job(w)'
  BY <1>1, <1>2 DEF Job, Leaves
<1>6. Lease(w)'
  BY <1>1, <1>2, <1>3, <1>4 DEF Lease, Leaves, Holds, Owns, Token, Expired
<1> QED BY <1>5, <1>6

\* What a writer's own step makes of its lease (all steps of store/lease.ts).
LEMMA OwnKeepsLease ==
  ASSUME IInv, LeaseInv, NEW w \in Writers, Acts(w)
  PROVE  Job(w)' /\ Lease(w)' /\ LockTime'
<1> USE DEF AtLabel, Goto, Holds, Owns, Token, Expired, Job, Lease, LockTime
<1>0. /\ Job(w) /\ Lease(w) /\ LockTime
      /\ lock \in LockFile \cup {NoFile} /\ NoToken \notin Writers /\ NoFile \notin LockFile
      /\ now \in Int /\ TTL \in Nat \ {0}
      /\ pc \in [Writers -> Locations] /\ job \in [Writers -> {"acquire", "renew", "release"}]
      /\ expires \in [Writers -> Int] /\ due \in [Writers -> Int] /\ lost \in [Writers -> BOOLEAN]
      /\ pc[w] \notin {"crashed", "break", "putback"}
      /\ pc[w] \in {"rewrite", "unlink"} => Owns(w)
      /\ \A f \in LockFile : f.token \in Writers /\ f.expires \in Int
      /\ pc[w] = "mutex" /\ mutex # NoFile /\ now < expires[w] /\ job[w] = "renew" /\ ~lost[w] => Owns(w)
  BY SentinelAssumption, TimesAssumption DEF IInv, TInv, TypeOK, LeaseInv, NoFault, Checked, LockFile, RenewPcs
<1>1. CASE CreateLock(w)
  <2>1. /\ lock' \in LockFile /\ lock'.token = w /\ lock'.expires = now + TTL /\ lock'.written = FALSE
        /\ expires'[w] = now + TTL /\ pc'[w] = "write" /\ now' = now
    BY <1>0, <1>1 DEF CreateLock, LockFile
  <2> QED BY <1>0, <2>1 DEF RenewPcs
<1>2. CASE WriteLock(w)
  <2>1. /\ lock' # NoFile /\ lock'.token = w /\ lock'.expires = lock.expires /\ lock'.written = TRUE
    BY <1>0, <1>2 DEF WriteLock, Filled, LockFile
  <2> QED BY <1>0, <1>2, <2>1 DEF WriteLock, RenewPcs
<1>3. CASE CreateLoses(w)
  BY <1>0, <1>3 DEF CreateLoses, RenewPcs
<1>4. CASE OutOfTries(w)
  BY <1>0, <1>4 DEF OutOfTries, RenewPcs
<1>5. CASE InspectLock(w)
  BY <1>0, <1>5 DEF InspectLock, RenewPcs
<1>6. CASE TakeMutex(w)
  BY <1>0, <1>6 DEF TakeMutex, BodyOf, RenewPcs
<1>7. CASE FindStaleMutex(w)
  BY <1>0, <1>7 DEF FindStaleMutex, RenewPcs
<1>8. CASE BreakMutex(w)
  BY <1>0, <1>8 DEF BreakMutex
<1>9. CASE MutexBusy(w)
  BY <1>0, <1>9 DEF MutexBusy, RenewPcs
<1>10. CASE ExitMutex(w)
  BY <1>0, <1>10 DEF ExitMutex, LeaveMutex, RenewPcs
<1>11. CASE UnlinkMutex(w)
  BY <1>0, <1>11 DEF UnlinkMutex, LeaveMutex, RenewPcs
<1>12. CASE Reinspect(w)
  BY <1>0, <1>12 DEF Reinspect, RenewPcs
<1>13. CASE RenameAside(w)
  BY <1>0, <1>13 DEF RenameAside, RenewPcs
<1>14. CASE ExamineAside(w)
  BY <1>0, <1>14 DEF ExamineAside, RenewPcs
<1>15. CASE PutBack(w)
  BY <1>0, <1>15 DEF PutBack
<1>16. CASE CheckToken(w)
  BY <1>0, <1>16 DEF CheckToken, RenewPcs
<1>17. CASE RecheckToken(w)
  BY <1>0, <1>17 DEF RecheckToken, RenewPcs
<1>18. CASE RewriteLock(w)
  <2>1. due[w] = now + TTL /\ job[w] = "renew" /\ job' = job /\ pc'[w] = "exit" /\ now' = now /\ Owns(w)
    BY <1>0, <1>18 DEF RewriteLock
  <2>2. CASE Renewed(w) /\ expires'[w] = due[w] /\ lost' = lost
    <3>1. Owns(w)' /\ LockTime'
      BY <1>0, <2>2 DEF Renewed
    <3> QED BY <1>0, <2>1, <2>2, <3>1
  <2>3. CASE lock' = lock \/ Renewed(w)
    <3> SUFFICES ASSUME expires' = expires, lost'[w] <=> lost[w] \/ now >= expires[w]
                 PROVE  Job(w)' /\ Lease(w)' /\ LockTime'
      BY <1>18, <2>2, RewriteEffect DEF IInv, TInv
    <3>1. Owns(w)'
      BY <1>0, <2>1, <2>3 DEF Renewed
    <3>2. CASE lock' = lock
      BY <1>0, <2>1, <3>1, <3>2
    <3>3. CASE Renewed(w)
      <4>1. lock' # NoFile /\ lock'.token = w /\ lock'.expires = now + TTL
        BY <1>0, <2>1, <3>3 DEF Renewed
      <4>2. expires[w] <= now + TTL
        BY <1>0
      <4> QED BY <1>0, <2>1, <3>1, <4>1, <4>2
    <3> QED BY <2>3, <3>2, <3>3
  <2> QED BY <1>18, <2>2, <2>3, RewriteEffect DEF IInv, TInv
<1>19. CASE CheckOwned(w)
  BY <1>0, <1>19 DEF CheckOwned, RenewPcs
<1>20. CASE UnlinkLock(w)
  BY <1>0, <1>20 DEF UnlinkLock, RenewPcs
<1>21. CASE StartRenew(w)
  BY <1>0, <1>21 DEF StartRenew, RenewPcs
<1>22. CASE StartRelease(w)
  BY <1>0, <1>22 DEF StartRelease, RenewPcs
<1> QED BY <1>1, <1>2, <1>3, <1>4, <1>5, <1>6, <1>7, <1>8, <1>9, <1>10, <1>11, <1>12, <1>13, <1>14,
           <1>15, <1>16, <1>17, <1>18, <1>19, <1>20, <1>21, <1>22
        DEF Acts, Step, AcquireStep, MutexStep, TakeoverStep, RenewStep, ReleaseStep

LEMMA ActKeepsLease ==
  ASSUME IInv, LeaseInv, NEW v \in Writers, Acts(v)
  PROVE  LeaseInv'
BY OthersKeepLease, OwnKeepsLease DEF LeaseInv

\* Time passes only while nobody is inside the mutex or about to write a new lease.
LEMMA TickKeepsLease ==
  ASSUME IInv, LeaseInv, Reliable, Tick
  PROVE  LeaseInv'
<1>1. \A w \in Writers : pc[w] \notin {"write", "rewrite", "exit", "unmutex"}
  BY DEF Tick, Prompt, Parked, Reliable
<1>2. now \in Int /\ TTL \in Nat /\ expires \in [Writers -> Int]
  BY TimesAssumption DEF IInv, TInv, TypeOK
<1> QED BY <1>1, <1>2 DEF Tick, LeaseInv, LockTime, Job, Lease, Holds, Owns

-----------------------------------------------------------------------------
(* Appends *)

\* The others' appends: their verify() stays true, and the log they know is the log.
LEMMA OthersKeepAppender ==
  ASSUME IInv, LeaseInv, NEW v \in Writers, Acts(v), NEW w \in Writers \ {v}, Appender(w),
         append'[w] = append[w], lastSeq'[w] = lastSeq[w], log' = log
  PROVE  Appender(w)'
<1>1. Leaves(w)
  BY LeavesOthers DEF IInv, TInv
<1>2. lock \in LockFile \cup {NoFile} /\ lock' \in LockFile \cup {NoFile} /\ NoToken \notin Writers
  <2>1. TInv'
    BY NextTInv DEF Acts, Next, IInv
  <2> QED BY <2>1, SentinelAssumption DEF IInv, TInv, TypeOK
<1>3. /\ lock # NoFile /\ lock.token = w /\ ~Expired(lock) => lock' = lock
      /\ lock' # NoFile /\ lock'.token = w => lock' = lock
  BY LeaseOfOthers
<1>4. Owns(w)' => lock' # NoFile /\ lock'.token = w
  BY <1>2 DEF Owns, Token, LockFile
<1>5. Owns(w) => lock # NoFile /\ lock.token = w
  BY <1>2 DEF Owns, Token, LockFile
<1>6. Owns(w)' => Owns(w)
  BY <1>3, <1>4 DEF Owns, Token
<1>7. append'[w] = "verified" => Owns(w)' /\ ~Expired(lock)'
  BY <1>1, <1>3, <1>5 DEF Appender, Leaves, Owns, Token, Expired
<1> QED BY <1>1, <1>6, <1>7 DEF Appender, Leaves, Holds

\* What a heartbeat, and the steps of a renewal, make of the writer's own append.
LEMMA OwnKeepsAppender ==
  ASSUME IInv, IInv', LeaseInv, NEW w \in Writers, Step(w) \/ StartRenew(w), Appender(w),
         append'[w] = append[w], lastSeq'[w] = lastSeq[w], log' = log
  PROVE  Appender(w)'
<1> USE DEF AtLabel, Goto
<1>0. /\ Job(w) /\ Lease(w)
      /\ now \in Int /\ TTL \in Nat \ {0} /\ NoFile \notin LockFile
      /\ pc \in [Writers -> Locations] /\ job \in [Writers -> {"acquire", "renew", "release"}]
      /\ expires \in [Writers -> Int] /\ lost \in [Writers -> BOOLEAN]
      /\ pc[w] \notin {"crashed", "break", "putback"} /\ pc'[w] # "break"
      /\ pc[w] = "rewrite" => Owns(w)
  BY SentinelAssumption, TimesAssumption DEF IInv, TInv, TypeOK, LeaseInv, NoFault, Checked
<1>1. CASE append[w] = "closed"
  <2>1. pc'[w] = "lost" => lost'[w]
    <3>1. CASE AcquireStep(w)
      BY <1>0, <3>1 DEF AcquireStep, CreateLock, WriteLock, CreateLoses, OutOfTries, InspectLock
    <3>2. CASE MutexBusy(w)
      BY <1>0, <3>2 DEF MutexBusy
    <3>3. CASE TakeMutex(w) \/ FindStaleMutex(w) \/ BreakMutex(w) \/ ExitMutex(w) \/ UnlinkMutex(w)
      BY <1>0, <3>3 DEF TakeMutex, BodyOf, FindStaleMutex, BreakMutex, ExitMutex, UnlinkMutex, LeaveMutex
    <3>4. CASE TakeoverStep(w)
      BY <1>0, <3>4 DEF TakeoverStep, Reinspect, RenameAside, ExamineAside, PutBack
    <3>5. CASE RenewStep(w) \/ StartRenew(w)
      BY <1>0, <3>5 DEF RenewStep, CheckToken, RecheckToken, RewriteLock, StartRenew
    <3>6. CASE ReleaseStep(w)
      BY <1>0, <3>6 DEF ReleaseStep, CheckOwned, UnlinkLock
    <3> QED BY <3>1, <3>2, <3>3, <3>4, <3>5, <3>6 DEF Step, MutexStep
  <2> QED BY <1>1, <2>1 DEF Appender
<1>2. CASE append[w] # "closed"
  <2>1. pc[w] # "lost"
    BY <1>0 DEF Step, AcquireStep, MutexStep, TakeoverStep, RenewStep, ReleaseStep, StartRenew, CreateLock, WriteLock,
       CreateLoses, OutOfTries, InspectLock, TakeMutex, FindStaleMutex, BreakMutex, MutexBusy, ExitMutex, UnlinkMutex,
       Reinspect, RenameAside, ExamineAside, PutBack, CheckToken, RecheckToken, RewriteLock, CheckOwned, UnlinkLock
  <2>2. pc[w] = "held" \/ (job[w] = "renew" /\ pc[w] \in RenewPcs)
    BY <1>2, <2>1 DEF Appender, Holds
  <2>3. \/ TakeMutex(w) \/ MutexBusy(w) \/ ExitMutex(w) \/ UnlinkMutex(w)
        \/ CheckToken(w) \/ RecheckToken(w) \/ RewriteLock(w) \/ StartRenew(w)
    BY <1>0, <2>2 DEF RenewPcs, Step, AcquireStep, MutexStep, TakeoverStep, RenewStep, ReleaseStep, CreateLock, WriteLock,
       CreateLoses, OutOfTries, InspectLock, FindStaleMutex, BreakMutex,
       Reinspect, RenameAside, ExamineAside, PutBack, CheckOwned, UnlinkLock
  <2>4. CASE RewriteLock(w)
    <3>1. /\ pc[w] = "rewrite" /\ pc'[w] = "exit" /\ now' = now /\ job'[w] = "renew" /\ Owns(w)
          /\ lock' = lock \/ Renewed(w)
      BY <1>0, <2>2, <2>4, RewriteEffect DEF RewriteLock, RenewPcs, IInv, TInv, TypeOK
    <3>2. due[w] = now + TTL
      BY <1>0, <3>1 DEF Lease
    <3>3. Owns(w)' /\ (~Expired(lock) => ~Expired(lock)')
      BY <1>0, <3>1, <3>2 DEF Owns, Token, Expired, Renewed
    <3> QED BY <1>0, <2>4, <3>1, <3>3 DEF RewriteLock, Appender, Holds, RenewPcs
  <2>5. CASE ~RewriteLock(w)
    <3>1. lock' = lock /\ now' = now /\ expires' = expires
      BY <2>3, <2>5 DEF TakeMutex, MutexBusy, ExitMutex, UnlinkMutex, CheckToken, RecheckToken, StartRenew
    <3>2. Holds(w)' \/ pc'[w] = "lost"
      BY <1>0, <2>2, <2>3, <2>5 DEF Holds, RenewPcs, BodyOf, LeaveMutex, TakeMutex, MutexBusy, ExitMutex, UnlinkMutex,
         CheckToken, RecheckToken, StartRenew
    <3>3. /\ pc'[w] = "lost" => lost'[w]
          /\ pc'[w] = "held" /\ ~lost'[w] => now < expires[w]
      <4>1. pc[w] \in {"exit", "unmutex"} /\ job[w] = "renew" /\ ~lost[w] => now < expires[w]
        BY <1>0 DEF Lease
      <4>2. CASE MutexBusy(w)
        <5>1. job[w] = "renew" /\ pc[w] = "mutex"
          BY <2>2, <4>2 DEF MutexBusy
        <5>2. lost'[w] <=> lost[w] \/ now >= expires[w]
          BY <1>0, <5>1, <4>2 DEF MutexBusy
        <5>3. pc'[w] = IF lost'[w] THEN "lost" ELSE "held"
          BY <1>0, <5>1, <4>2 DEF MutexBusy
        <5> QED BY <1>0, <5>2, <5>3
      <4>3. CASE ExitMutex(w) \/ UnlinkMutex(w)
        BY <1>0, <2>2, <4>1, <4>3 DEF RenewPcs, ExitMutex, UnlinkMutex, LeaveMutex
      <4>4. CASE TakeMutex(w) \/ CheckToken(w) \/ RecheckToken(w) \/ StartRenew(w)
        BY <1>0, <2>2, <4>4 DEF RenewPcs, TakeMutex, BodyOf, CheckToken, RecheckToken, StartRenew
      <4> QED BY <2>3, <2>5, <4>2, <4>3, <4>4
    <3> QED BY <3>1, <3>2, <3>3 DEF Appender, Owns, Token, Expired
  <2> QED BY <2>4, <2>5
<1> QED BY <1>1, <1>2

\* verify() by the token moves nothing of the lease but lostReason.
OnlyLost(w) ==
  /\ lost[w] = FALSE /\ lost' = [lost EXCEPT ![w] = ~Owns(w)]
  /\ UNCHANGED <<now, lock, mutex, aside, pc, job, tries, seen, taken, due, expires>>

LEMMA OnlyLostKeeps ==
  ASSUME IInv, LeaseInv, NEW w \in Writers, OnlyLost(w)
  PROVE  IInv' /\ LeaseInv' /\ \A v \in Writers : lost[v] => lost'[v]
<1>1. lost' \in [Writers -> BOOLEAN] /\ \A v \in Writers : lost[v] => lost'[v]
  BY DEF OnlyLost, IInv, TInv, TypeOK, Owns
<1>2. TInv'
  BY <1>1 DEF OnlyLost, IInv, TInv, TypeOK, LastTry
<1>3. MutexHeld' /\ NoFault' /\ Checked'
  BY DEF OnlyLost, IInv, MutexHeld, NoFault, Checked, Owns, Expired, Token
<1>4. LeaseInv'
  BY <1>1 DEF OnlyLost, LeaseInv, LockTime, Job, Lease, Holds, Owns, Expired, Token
<1> QED BY <1>1, <1>2, <1>3, <1>4 DEF IInv

\* What one step is for the lease: nothing, lostReason, time, or a writer's own step.
LEMMA StepOfLease ==
  ASSUME Reliable, WInv, WNext
  PROVE  \/ WTick
         \/ \E v \in Writers : Acts(v) \/ UNCHANGED vars \/ OnlyLost(v)
<1>1. ASSUME NEW v \in Writers, LeaseStep(v) PROVE Acts(v)
  BY <1>1 DEF LeaseStep, Crash, Reliable, Acts
<1>2. ASSUME NEW v \in Writers, OpenLog(v) \/ VerifyFails(v) \/ VerifyByRenewal(v) \/ RenewalAwaited(v)
      PROVE  Acts(v) \/ UNCHANGED vars
  BY <1>2 DEF OpenLog, VerifyFails, VerifyByRenewal, RenewalAwaited, Acts
<1>3. ASSUME NEW v \in Writers, AppendLine(v) \/ Close(v) PROVE Acts(v) \/ UNCHANGED vars
  BY <1>3 DEF AppendLine, Close, Acts
<1>4. ASSUME NEW v \in Writers, VerifyByToken(v) PROVE OnlyLost(v)
  BY <1>4 DEF VerifyByToken, OnlyLost, WInv, IInv, TInv, TypeOK
<1> QED BY <1>1, <1>2, <1>3, <1>4 DEF WNext, AppendStep

LEMMA LeaseKept ==
  ASSUME Reliable, WInv, [WNext]_wvars
  PROVE  IInv' /\ LeaseInv'
<1>1. ASSUME UNCHANGED vars PROVE IInv' /\ LeaseInv'
  <2>1. IInv'
    BY <1>1, NextIInv DEF WInv
  <2>2. LeaseInv'
    BY <1>1 DEF WInv, vars, LeaseInv, LockTime, Job, Lease, Holds, Owns, Expired, Token
  <2> QED BY <2>1, <2>2
<1>2. CASE WTick
  BY <1>2, NextIInv, TickKeepsLease DEF WInv, WTick, Next
<1>3. ASSUME NEW v \in Writers, Acts(v) PROVE IInv' /\ LeaseInv'
  BY <1>3, NextIInv, ActKeepsLease DEF WInv, Acts, Next
<1>4. ASSUME NEW v \in Writers, OnlyLost(v) PROVE IInv' /\ LeaseInv'
  BY <1>4, OnlyLostKeeps DEF WInv
<1>5. CASE UNCHANGED wvars
  BY <1>1, <1>5 DEF wvars, vars
<1> QED BY <1>1, <1>2, <1>3, <1>4, <1>5, StepOfLease

LEMMA InitWInv == WInit => WInv
<1> SUFFICES ASSUME WInit PROVE WInv
  OBVIOUS
<1>1. IInv
  BY InitIInv DEF WInit
<1>2. LeaseInv
  BY TimesAssumption DEF WInit, Init, LeaseInv, LockTime, Job, Lease, Holds
<1>3. LogOK
  BY DEF WInit, LogOK, DenseSeq, AppendStates
<1>4. \A w \in Writers : Appender(w)
  BY DEF WInit, Init, Appender
<1> QED BY <1>1, <1>2, <1>3, <1>4 DEF WInv

LEMMA TickKeepsAppenders ==
  ASSUME Reliable, WInv, WTick
  PROVE  \A w \in Writers : Appender(w)'
<1> SUFFICES ASSUME NEW w \in Writers PROVE Appender(w)'
  OBVIOUS
<1>1. Appender(w) /\ ~Appending(w)
  BY DEF WInv, WTick, Reliable
<1>2. append[w] # "verified" /\ ~(append[w] = "renewing" /\ pc[w] = "held")
  BY <1>1 DEF Appender, Appending, Holding, Holds, RenewPcs
<1> QED BY <1>1, <1>2 DEF WTick, Tick, Appender, Holds, Owns

\* A step of the append queue leaves the appends of the others alone.
LEMMA OthersKeepTheirs ==
  ASSUME Reliable, WInv, NEW v \in Writers, AppendStep(v), NEW w \in Writers \ {v}
  PROVE  Appender(w)'
<1>0. Appender(w) /\ LogOK /\ IInv /\ LeaseInv
  BY DEF WInv
<1>1. append'[w] = append[w] /\ lastSeq'[w] = lastSeq[w]
  BY <1>0 DEF AppendStep, OpenLog, VerifyFails, VerifyByRenewal, RenewalAwaited, VerifyByToken, AppendLine, Close, LogOK
<1>2. CASE AppendLine(v)
  <2>1. Owns(v)
    BY <1>2 DEF AppendLine, WInv, Appender
  <2>2. ~Owns(w) /\ append[w] # "verified"
    BY <2>1, <1>0 DEF Owns, Appender
  <2> QED BY <1>0, <1>1, <1>2, <2>2 DEF AppendLine, vars, Appender, Holds, Owns, Token
<1>3. CASE ~AppendLine(v)
  <2>1. log' = log
    BY <1>3 DEF AppendStep, OpenLog, VerifyFails, VerifyByRenewal, RenewalAwaited, VerifyByToken, Close
  <2>2. Acts(v) \/ UNCHANGED vars \/ OnlyLost(v)
    BY <1>0, <1>3 DEF AppendStep, OpenLog, VerifyFails, VerifyByRenewal, RenewalAwaited, VerifyByToken, Close,
       Acts, OnlyLost, IInv, TInv, TypeOK
  <2>3. CASE Acts(v)
    BY <1>0, <1>1, <2>1, <2>3, OthersKeepAppender
  <2>4. CASE UNCHANGED vars
    BY <1>0, <1>1, <2>1, <2>4 DEF vars, Appender, Holds, Owns, Token, Expired
  <2>5. CASE OnlyLost(v)
    <3>1. lost'[w] = lost[w]
      BY <2>5, <1>0 DEF OnlyLost, IInv, TInv, TypeOK
    <3> QED BY <1>0, <1>1, <2>1, <2>5, <3>1 DEF OnlyLost, Appender, Holds, Owns, Token, Expired
  <2> QED BY <2>2, <2>3, <2>4, <2>5
<1> QED BY <1>2, <1>3

\* What it makes of the writer's own append.
LEMMA OwnStepOfAppend ==
  ASSUME Reliable, WInv, NEW w \in Writers, AppendStep(w)
  PROVE  Appender(w)' /\ LogOK'
<1> USE DEF AtLabel, Goto
<1>0. /\ Appender(w) /\ LogOK /\ Lease(w)
      /\ pc \in [Writers -> Locations] /\ lost \in [Writers -> BOOLEAN] /\ job \in [Writers -> {"acquire", "renew", "release"}]
      /\ now \in Int /\ expires \in [Writers -> Int] /\ Heartbeat \in Nat
      /\ Owns(w) => lock.expires >= expires[w] /\ (now < expires[w] => ~Expired(lock))
  BY AppendAssumption, SentinelAssumption
  DEF WInv, IInv, TInv, TypeOK, LeaseInv, LockTime, Owns, Token, LockFile, Expired
<1>1. CASE OpenLog(w)
  <2>1. /\ UNCHANGED vars /\ log' = log /\ lastSeq' = [lastSeq EXCEPT ![w] = Len(log)]
        /\ append' = [append EXCEPT ![w] = "idle"] /\ pc[w] = "held"
    BY <1>0, <1>1 DEF OpenLog, LogOK
  <2>2. Len(log) \in Int
    BY <1>0 DEF LogOK
  <2> QED BY <1>0, <2>1, <2>2 DEF vars, LogOK, DenseSeq, AppendStates, Appender, Holds
<1>2. CASE VerifyFails(w)
  BY <1>0, <1>2 DEF VerifyFails, vars, LogOK, DenseSeq, AppendStates, Appender, Holds
<1>3. CASE VerifyByRenewal(w)
  <2>1. LogOK'
    BY <1>0, <1>3 DEF VerifyByRenewal, LogOK, DenseSeq, AppendStates
  <2>0. /\ append[w] = "idle" /\ append'[w] = "renewing" /\ lastSeq'[w] = lastSeq[w] /\ log' = log
        /\ Appender(w)
    BY <1>0, <1>3 DEF VerifyByRenewal, LogOK
  <2>2. CASE pc[w] = "held"
    <3>1. pc'[w] = "mutex" /\ job'[w] = "renew"
      BY <1>0, <1>3, <2>2 DEF VerifyByRenewal, StartRenew
    <3>2. lock' = lock /\ lost' = lost /\ expires' = expires /\ now' = now
      BY <1>3, <2>2 DEF VerifyByRenewal, StartRenew
    <3> QED BY <2>0, <2>1, <3>1, <3>2 DEF Appender, Holds, RenewPcs, Owns, Token
  <2>3. CASE pc[w] # "held"
    <3>1. UNCHANGED vars
      BY <1>3, <2>3 DEF VerifyByRenewal
    <3> QED BY <2>0, <2>1, <2>3, <3>1 DEF vars, Appender, Holds, Owns, Token
  <2> QED BY <2>1, <2>2, <2>3
<1>4. CASE RenewalAwaited(w)
  <2>1. ~lost[w] => Owns(w) /\ ~Expired(lock)
    BY <1>0, <1>4 DEF RenewalAwaited, Appender, Lease, Holds
  <2> QED BY <1>0, <1>4, <2>1 DEF RenewalAwaited, vars, LogOK, DenseSeq, AppendStates, Appender, Holds, Owns, Token, Expired
<1>5. CASE VerifyByToken(w)
  <2>1. Owns(w) => ~Expired(lock)
    BY <1>0, <1>5 DEF VerifyByToken, NearExpiry
  <2> QED BY <1>0, <1>5, <2>1 DEF VerifyByToken, LogOK, DenseSeq, AppendStates, Appender, Holds, Owns, Token, Expired
<1>6. CASE AppendLine(w)
  <2>1. lastSeq[w] = Len(log) /\ Len(log) \in Nat /\ Owns(w)
    BY <1>0, <1>6 DEF AppendLine, Appender, LogOK
  <2>2. /\ log' = Append(log, [seq |-> Len(log) + 1, token |-> w]) /\ lastSeq' = [lastSeq EXCEPT ![w] = Len(log) + 1]
        /\ append' = [append EXCEPT ![w] = "idle"] /\ UNCHANGED vars
    BY <2>1, <1>0, <1>6 DEF AppendLine, LogOK
  <2>3. [seq |-> Len(log) + 1, token |-> w] \in Line
    BY <2>1 DEF Line
  <2>4. log' \in Seq(Line) /\ Len(log') = Len(log) + 1
    BY <1>0, <2>2, <2>3 DEF LogOK
  <2>5. \A i \in 1..Len(log') : log'[i].seq = i
    BY <1>0, <2>1, <2>2, <2>4 DEF LogOK, DenseSeq
  <2>6. LogOK'
    BY <1>0, <2>1, <2>2, <2>4, <2>5 DEF LogOK, DenseSeq, AppendStates
  <2> QED BY <1>0, <1>6, <2>2, <2>4, <2>6 DEF LogOK, vars, Appender, AppendLine, Holds, Owns, Token
<1>7. CASE Close(w)
  <2>1. pc[w] = "held" /\ (pc'[w] = "lost" => lost'[w]) /\ append'[w] = "closed"
    BY <1>0, <1>7 DEF Close, StartRelease, LogOK
  <2> QED BY <1>0, <1>7, <2>1 DEF Close, LogOK, DenseSeq, AppendStates, Appender
<1> QED BY <1>1, <1>2, <1>3, <1>4, <1>5, <1>6, <1>7 DEF AppendStep

LEMMA NextWInv ==
  ASSUME Reliable, WInv, [WNext]_wvars
  PROVE  WInv'
<1>1. IInv' /\ LeaseInv'
  BY LeaseKept
<1>2. CASE UNCHANGED wvars
  BY <1>1, <1>2 DEF wvars, WInv, LogOK, DenseSeq, Appender, Holds, Owns, Token, Expired
<1>3. CASE WTick
  <2>1. LogOK'
    BY <1>3 DEF WTick, WInv, LogOK, DenseSeq
  <2> QED BY <1>1, <1>3, <2>1, TickKeepsAppenders DEF WInv
<1>4. ASSUME NEW v \in Writers, LeaseStep(v) PROVE WInv'
  <2>1. Step(v) \/ StartRenew(v)
    BY <1>4 DEF LeaseStep, Crash, Reliable
  <2>2. LogOK'
    BY <1>4 DEF LeaseStep, WInv, LogOK, DenseSeq
  <2>3. \A w \in Writers : Appender(w)'
    BY <1>1, <1>4, <2>1, OthersKeepAppender, OwnKeepsAppender DEF WInv, LeaseStep, Acts
  <2> QED BY <1>1, <2>2, <2>3 DEF WInv
<1>5. ASSUME NEW v \in Writers, AppendStep(v) PROVE WInv'
  BY <1>1, <1>5, OthersKeepTheirs, OwnStepOfAppend DEF WInv
<1> QED BY <1>2, <1>3, <1>4, <1>5 DEF WNext

LEMMA WritersInvariant == ASSUME Reliable PROVE WSpec => []WInv
<1>1. WInv /\ [WNext]_wvars => WInv'
  BY NextWInv
<1> QED BY <1>1, InitWInv, PTL DEF WSpec

(* core-and-store.md:55-59: however often the session is taken over, its   *)
(* log has every seq exactly once and in order.                            *)
THEOREM LogKeepsItsOrder == ASSUME Reliable PROVE WSpec => []LogStaysDense
<1>1. WInv => LogStaysDense
  BY DEF WInv, LogOK, LogStaysDense
<1> QED BY <1>1, WritersInvariant, PTL

(* event-store.ts:212: of the writers that verify() let through, none but  *)
(* one has not written yet.                                                *)
THEOREM OneWriterVerified == ASSUME Reliable PROVE WSpec => []OneVerified
<1>1. WInv => OneVerified
  BY DEF WInv, Appender, Owns, OneVerified
<1> QED BY <1>1, WritersInvariant, PTL

(* lease.ts:24-30: the mutex excludes also while the writers append.       *)
THEOREM WritersExclude == ASSUME Reliable PROVE WSpec => []MutexExclusion
<1>1. WInv => MutexExclusion
  BY OneInside DEF WInv, MutexExclusion, Inside
<1> QED BY <1>1, WritersInvariant, PTL
=============================================================================
