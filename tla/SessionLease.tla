---------------------------- MODULE SessionLease ----------------------------
(***************************************************************************)
(* The single writer's lease on a session: lock.json, renewed by a         *)
(* heartbeat, moved aside when it is stale and removed on release, all     *)
(* three under the O_EXCL file lock.json.cas (store/lease.ts).             *)
(*                                                                         *)
(* A member of Writers is one SessionLeaseHandle.acquire call and what its *)
(* caller then does with the handle; it stands for the random token of the *)
(* lease it creates, so a process that opens the session again is another  *)
(* writer.  Every file system call is one step; the steps of different     *)
(* writers interleave freely.  Two file calls are merged with their        *)
(* neighbour: opening lock.json.cas and writing its content, and the two   *)
(* reads of a stale mutex (the second one repeats the first).              *)
(***************************************************************************)
EXTENDS Integers, FiniteSets

CONSTANTS
  Writers,      \* acquire calls, each with its own token
  Crashable,    \* writers whose process may die between any two steps
  Suspendable,  \* writers whose process may stall between any two steps
  SameHost,     \* TRUE: a dead holder is recognised by its pid
  TTL,          \* settings.ttlMs
  MutexStale,   \* mutexStaleMs(settings)
  MaxClock,     \* bound of the model: the clock stops there
  NoFile,       \* a path nothing is stored at
  NoToken       \* the inspected lock file could not be parsed

ASSUME WritersAssumption ==
  /\ Crashable \subseteq Writers
  /\ Suspendable \subseteq Writers
  /\ SameHost \in BOOLEAN

ASSUME TimesAssumption ==
  /\ TTL \in Nat \ {0} /\ MutexStale \in Nat \ {0}
  /\ MaxClock \in Nat

VARIABLES
  now,     \* the wall clock every process reads
  lock,    \* lock.json: its token, expires_at, and whether the content is written
  mutex,   \* lock.json.cas: its token and the time it was taken at
  aside,   \* lock.json.stale-<random> of a writer that is taking over
  pc,      \* where a writer is
  job,     \* what it wants the mutex for
  tries,   \* failed attempts of the acquire loop
  seen,    \* token of the stale lease it inspected
  taken,   \* acquiredAt: when it took the mutex
  due,     \* expires_at it is about to write
  expires, \* expires_at of the lease in its memory
  lost     \* lostReason is set

vars == <<now, lock, mutex, aside, pc, job, tries, seen, taken, due, expires, lost>>

Locations == {"create", "write", "inspect", "refused", "mutex", "break", "exit", "unmutex",
              "reinspect", "rename", "examine", "putback",
              "check", "recheck", "rewrite", "owned", "unlink",
              "held", "lost", "released", "crashed"}

\* A lock file or a mutex file as it is stored.
LockFile  == [token : Writers, expires : Int, written : BOOLEAN]
MutexFile == [token : Writers, at : Int]

ASSUME SentinelAssumption == NoToken \notin Writers /\ NoFile \notin LockFile \cup MutexFile

Token(file)  == IF file.written THEN file.token ELSE NoToken
Goto(w, l)   == pc' = [pc EXCEPT ![w] = l]
AtLabel(w, l) == pc[w] = l

(***************************************************************************)
(* inspectLease.  A file whose content is not there yet is judged by its   *)
(* mtime, which is expires - TTL.                                          *)
(***************************************************************************)
Expired(file) == now >= file.expires
HolderDead(file) == SameHost /\ file.written /\ pc[file.token] = "crashed"
Stale(file) == Expired(file) \/ HolderDead(file)

\* checkToken: does lock.json still carry the writer's token?
Owns(w) == lock # NoFile /\ Token(lock) = w

Init ==
  /\ now = 0
  /\ lock = NoFile
  /\ mutex = NoFile
  /\ aside = [w \in Writers |-> NoFile]
  /\ pc = [w \in Writers |-> "create"]
  /\ job = [w \in Writers |-> "acquire"]
  /\ tries = [w \in Writers |-> 0]
  /\ seen = [w \in Writers |-> NoToken]
  /\ taken = [w \in Writers |-> 0]
  /\ due = [w \in Writers |-> 0]
  /\ expires = [w \in Writers |-> 0]
  /\ lost = [w \in Writers |-> FALSE]

----------------------------------------------------------------------------
(* acquire *)

\* createExclusive succeeds: lock.json exists now, its content follows.
CreateLock(w) ==
  /\ AtLabel(w, "create") /\ tries[w] < 3 /\ lock = NoFile
  /\ lock' = [token |-> w, expires |-> now + TTL, written |-> FALSE]
  /\ expires' = [expires EXCEPT ![w] = now + TTL]
  /\ Goto(w, "write")
  /\ UNCHANGED <<now, mutex, aside, job, tries, seen, taken, due, lost>>

\* The content goes to the file this writer opened, wherever it was moved.
Filled(file, w) == IF file # NoFile /\ file.token = w THEN [file EXCEPT !.written = TRUE] ELSE file

WriteLock(w) ==
  /\ AtLabel(w, "write")
  /\ lock' = Filled(lock, w)
  /\ aside' = [v \in Writers |-> Filled(aside[v], w)]
  /\ Goto(w, "held")
  /\ UNCHANGED <<now, mutex, job, tries, seen, taken, due, expires, lost>>

\* createExclusive finds lock.json (EEXIST).
CreateLoses(w) ==
  /\ AtLabel(w, "create") /\ tries[w] < 3 /\ lock # NoFile
  /\ Goto(w, "inspect")
  /\ UNCHANGED <<now, lock, mutex, aside, job, tries, seen, taken, due, expires, lost>>

OutOfTries(w) ==
  /\ AtLabel(w, "create") /\ tries[w] = 3
  /\ Goto(w, "refused")
  /\ UNCHANGED <<now, lock, mutex, aside, job, tries, seen, taken, due, expires, lost>>

\* Mutated: a stale lease is taken over without the mutex.
InspectLock_NoMutex(w) ==
  /\ AtLabel(w, "inspect")
  /\ IF lock = NoFile
       THEN tries' = [tries EXCEPT ![w] = @ + 1] /\ Goto(w, "create") /\ UNCHANGED seen
       ELSE /\ Goto(w, IF Stale(lock) THEN "reinspect" ELSE "refused")
            /\ seen' = [seen EXCEPT ![w] = Token(lock)]
            /\ UNCHANGED tries
  /\ UNCHANGED <<now, lock, mutex, aside, job, taken, due, expires, lost>>

InspectLock(w) ==
  /\ AtLabel(w, "inspect")
  /\ \/ /\ lock = NoFile
        /\ tries' = [tries EXCEPT ![w] = @ + 1]
        /\ Goto(w, "create")
        /\ UNCHANGED <<seen, job>>
     \/ /\ lock # NoFile /\ ~Stale(lock)
        /\ Goto(w, "refused")
        /\ UNCHANGED <<tries, seen, job>>
     \/ /\ lock # NoFile /\ Stale(lock)
        /\ seen' = [seen EXCEPT ![w] = Token(lock)]
        /\ job' = [job EXCEPT ![w] = "acquire"]
        /\ Goto(w, "mutex")
        /\ UNCHANGED tries
  /\ UNCHANGED <<now, lock, mutex, aside, taken, due, expires, lost>>

----------------------------------------------------------------------------
(* withLeaseMutex *)

BodyOf(j) == CASE j = "acquire" -> "reinspect" [] j = "renew" -> "check" [] j = "release" -> "owned"

TakeMutex(w) ==
  /\ AtLabel(w, "mutex") /\ mutex = NoFile
  /\ mutex' = [token |-> w, at |-> now]
  /\ taken' = [taken EXCEPT ![w] = now]
  /\ Goto(w, BodyOf(job[w]))
  /\ UNCHANGED <<now, lock, aside, job, tries, seen, due, expires, lost>>

\* Mutated: the age of the mutex is not looked at.
FindStaleMutex_AnyAge(w) ==
  /\ AtLabel(w, "mutex") /\ mutex # NoFile
  /\ Goto(w, "break")
  /\ UNCHANGED <<now, lock, mutex, aside, job, tries, seen, taken, due, expires, lost>>

\* A mutex older than mutexStaleMs is going to be broken.
FindStaleMutex(w) ==
  /\ AtLabel(w, "mutex") /\ mutex # NoFile /\ now - mutex.at > MutexStale
  /\ Goto(w, "break")
  /\ UNCHANGED <<now, lock, mutex, aside, job, tries, seen, taken, due, expires, lost>>

\* unlink(mutex): whatever file has that name by now.
BreakMutex(w) ==
  /\ AtLabel(w, "break")
  /\ mutex' = NoFile
  /\ Goto(w, "mutex")
  /\ UNCHANGED <<now, lock, aside, job, tries, seen, taken, due, expires, lost>>

\* Mutated: a release waits for the mutex without end.
MutexBusy_NotRelease(w) ==
  /\ AtLabel(w, "mutex") /\ mutex # NoFile /\ job[w] # "release"
  /\ lost' = [lost EXCEPT ![w] = @ \/ (job[w] = "renew" /\ now >= expires[w])]
  /\ Goto(w, IF job[w] = "acquire" THEN "refused" ELSE IF lost'[w] THEN "lost" ELSE "held")
  /\ UNCHANGED <<now, lock, mutex, aside, job, tries, seen, taken, due, expires>>

\* All attempts are used up; each caller of withLeaseMutex takes the failure differently.
MutexBusy(w) ==
  /\ AtLabel(w, "mutex") /\ mutex # NoFile
  /\ lost' = [lost EXCEPT ![w] = @ \/ (job[w] = "renew" /\ now >= expires[w])]
  /\ Goto(w, CASE job[w] = "acquire" -> "refused"
               [] job[w] = "renew"   -> IF lost'[w] THEN "lost" ELSE "held"
               [] job[w] = "release" -> "released")
  /\ UNCHANGED <<now, lock, mutex, aside, job, tries, seen, taken, due, expires>>

\* What the caller does once the mutex is given back; the body's local variables are gone.
LeaveMutex(w) ==
  /\ seen' = [seen EXCEPT ![w] = NoToken]
  /\ taken' = [taken EXCEPT ![w] = 0]
  /\ due' = [due EXCEPT ![w] = 0]
  /\ tries' = [tries EXCEPT ![w] = IF job[w] = "acquire" THEN @ + 1 ELSE @]
  /\ Goto(w, CASE job[w] = "acquire" -> "create"
               [] job[w] = "renew"   -> IF lost[w] THEN "lost" ELSE "held"
               [] job[w] = "release" -> "released")

\* The body is done: the mutex is removed if it still carries this writer's token.
ExitMutex(w) ==
  /\ AtLabel(w, "exit")
  /\ IF mutex # NoFile /\ mutex.token = w
       THEN Goto(w, "unmutex") /\ UNCHANGED <<tries, seen, taken, due>>
       ELSE LeaveMutex(w)
  /\ UNCHANGED <<now, lock, mutex, aside, job, expires, lost>>

UnlinkMutex(w) ==
  /\ AtLabel(w, "unmutex")
  /\ mutex' = NoFile
  /\ LeaveMutex(w)
  /\ UNCHANGED <<now, lock, aside, job, expires, lost>>

----------------------------------------------------------------------------
(* The takeover, under the mutex *)

\* Mutated: the lease is not inspected again under the mutex.
Reinspect_Skipped(w) ==
  /\ AtLabel(w, "reinspect")
  /\ Goto(w, "rename")
  /\ UNCHANGED <<now, lock, mutex, aside, job, tries, seen, taken, due, expires, lost>>

Reinspect(w) ==
  /\ AtLabel(w, "reinspect")
  /\ Goto(w, IF lock # NoFile /\ Stale(lock) /\ Token(lock) = seen[w] THEN "rename" ELSE "exit")
  /\ UNCHANGED <<now, lock, mutex, aside, job, tries, seen, taken, due, expires, lost>>

RenameAside(w) ==
  /\ AtLabel(w, "rename")
  /\ IF lock = NoFile
       THEN Goto(w, "exit") /\ UNCHANGED <<lock, aside>>
       ELSE /\ aside' = [aside EXCEPT ![w] = lock]
            /\ lock' = NoFile
            /\ Goto(w, "examine")
  /\ UNCHANGED <<now, mutex, job, tries, seen, taken, due, expires, lost>>

\* The file moved aside is the inspected one, or it has to go back.
ExamineAside(w) ==
  /\ AtLabel(w, "examine")
  /\ IF seen[w] # NoToken /\ aside[w].written /\ aside[w].token # seen[w]
       THEN Goto(w, "putback") /\ UNCHANGED aside
       ELSE /\ aside' = [aside EXCEPT ![w] = NoFile]
            /\ Goto(w, "exit")
  /\ UNCHANGED <<now, lock, mutex, job, tries, seen, taken, due, expires, lost>>

\* rename(aside, file) replaces whatever is at lock.json.
PutBack(w) ==
  /\ AtLabel(w, "putback")
  /\ lock' = aside[w]
  /\ aside' = [aside EXCEPT ![w] = NoFile]
  /\ Goto(w, "exit")
  /\ UNCHANGED <<now, mutex, job, tries, seen, taken, due, expires, lost>>

----------------------------------------------------------------------------
(* The renewal *)

\* renew(): a heartbeat tick, or a verify() close to the expiry.
StartRenew(w) ==
  /\ AtLabel(w, "held") /\ ~lost[w]
  /\ job' = [job EXCEPT ![w] = "renew"]
  /\ Goto(w, "mutex")
  /\ UNCHANGED <<now, lock, mutex, aside, tries, seen, taken, due, expires, lost>>

CheckToken(w) ==
  /\ AtLabel(w, "check")
  /\ lost' = [lost EXCEPT ![w] = @ \/ ~Owns(w)]
  /\ Goto(w, IF lost'[w] THEN "exit" ELSE "recheck")
  /\ UNCHANGED <<now, lock, mutex, aside, job, tries, seen, taken, due, expires>>

\* A renewal that held the mutex too long gives the lease up; the token is read again.
RecheckToken(w) ==
  /\ AtLabel(w, "recheck")
  /\ lost' = [lost EXCEPT ![w] = @ \/ now - taken[w] > MutexStale \/ ~Owns(w)]
  /\ due' = [due EXCEPT ![w] = now + TTL]
  /\ Goto(w, IF lost'[w] THEN "exit" ELSE "rewrite")
  /\ UNCHANGED <<now, lock, mutex, aside, job, tries, seen, taken, expires>>

\* writeFileDurably: a temporary file renamed over lock.json, whatever it holds.  It may fail
\* before the rename or after it; the lease in memory then stays as it was.
RewriteLock(w) ==
  /\ AtLabel(w, "rewrite")
  /\ LET renewed == [token |-> w, expires |-> due[w], written |-> TRUE] IN
     \/ /\ lock' = renewed /\ expires' = [expires EXCEPT ![w] = due[w]]
        /\ UNCHANGED lost
     \/ /\ lock' \in {lock, renewed} /\ UNCHANGED expires
        /\ lost' = [lost EXCEPT ![w] = @ \/ now >= expires[w]]
  /\ Goto(w, "exit")
  /\ UNCHANGED <<now, mutex, aside, job, tries, seen, taken, due>>

----------------------------------------------------------------------------
(* release() *)

StartRelease(w) ==
  /\ AtLabel(w, "held")
  /\ IF lost[w]
       THEN Goto(w, "lost") /\ UNCHANGED <<lost, job>>
       ELSE /\ lost' = [lost EXCEPT ![w] = TRUE]
            /\ job' = [job EXCEPT ![w] = "release"]
            /\ Goto(w, "mutex")
  /\ UNCHANGED <<now, lock, mutex, aside, tries, seen, taken, due, expires>>

CheckOwned(w) ==
  /\ AtLabel(w, "owned")
  /\ Goto(w, IF Owns(w) THEN "unlink" ELSE "exit")
  /\ UNCHANGED <<now, lock, mutex, aside, job, tries, seen, taken, due, expires, lost>>

UnlinkLock(w) ==
  /\ AtLabel(w, "unlink")
  /\ lock' = NoFile
  /\ Goto(w, "exit")
  /\ UNCHANGED <<now, mutex, aside, job, tries, seen, taken, due, expires, lost>>

----------------------------------------------------------------------------
(* The environment *)

\* The process dies; its files stay as they are.
Crash(w) ==
  /\ w \in Crashable /\ pc[w] \notin {"refused", "released", "crashed"}
  /\ Goto(w, "crashed")
  /\ UNCHANGED <<now, lock, mutex, aside, job, tries, seen, taken, due, expires, lost>>

\* A writer that is not in the middle of a file operation, or waits for the mutex.
Parked(w) ==
  \/ pc[w] \in {"held", "refused", "lost", "released", "crashed"}
  \/ pc[w] = "create" /\ tries[w] = 0
  \/ pc[w] = "mutex" /\ mutex # NoFile

\* File operations are short against the times of the lease, except in a suspended process.
Prompt == \A w \in Writers \ Suspendable : Parked(w)

Tick ==
  /\ now < MaxClock /\ Prompt
  /\ now' = now + 1
  /\ UNCHANGED <<lock, mutex, aside, pc, job, tries, seen, taken, due, expires, lost>>

----------------------------------------------------------------------------
AcquireStep(w) == CreateLock(w) \/ WriteLock(w) \/ CreateLoses(w) \/ OutOfTries(w) \/ InspectLock(w)
MutexStep(w)   == TakeMutex(w) \/ FindStaleMutex(w) \/ BreakMutex(w) \/ MutexBusy(w)
                    \/ ExitMutex(w) \/ UnlinkMutex(w)
TakeoverStep(w) == Reinspect(w) \/ RenameAside(w) \/ ExamineAside(w) \/ PutBack(w)
RenewStep(w)   == CheckToken(w) \/ RecheckToken(w) \/ RewriteLock(w)
ReleaseStep(w) == CheckOwned(w) \/ UnlinkLock(w)

\* What a writer does on its own once it was called.
Step(w) == AcquireStep(w) \/ MutexStep(w) \/ TakeoverStep(w) \/ RenewStep(w) \/ ReleaseStep(w)

Next ==
  \/ \E w \in Writers : Step(w) \/ StartRenew(w) \/ StartRelease(w) \/ Crash(w)
  \/ Tick

Spec == Init /\ [][Next]_vars

\* A call that was made runs to its end: the event loop runs every pending continuation.
FairSpec == Spec /\ \A w \in Writers : WF_vars(Step(w))

----------------------------------------------------------------------------
(* The type invariant: every variable of store/lease.ts holds what its *)
(* declaration admits.                                                 *)
TypeOK ==
  /\ now \in 0..MaxClock
  /\ lock \in LockFile \cup {NoFile}
  /\ mutex \in MutexFile \cup {NoFile}
  /\ aside \in [Writers -> LockFile \cup {NoFile}]
  /\ pc \in [Writers -> Locations]
  /\ job \in [Writers -> {"acquire", "renew", "release"}]
  /\ tries \in [Writers -> 0..3]
  /\ seen \in [Writers -> Writers \cup {NoToken}]
  /\ taken \in [Writers -> Int] /\ due \in [Writers -> Int] /\ expires \in [Writers -> Int]
  /\ lost \in [Writers -> BOOLEAN]

InMutex == {"reinspect", "rename", "examine", "putback", "check", "recheck", "rewrite",
            "owned", "unlink"}

(* lease.ts:24-30: lock.json is rewritten, moved aside or removed by one   *)
(* writer at a time, because all three happen in the body of the mutex.    *)
MutexExclusion ==
  \A v, w \in Writers : pc[v] \in InMutex /\ pc[w] \in InMutex => v = w

(* lease.ts:26-27, core-and-store.md:59: between a renewal's last token    *)
(* check and its write, no takeover, release or other renewal changes      *)
(* lock.json, so the write never replaces another writer's lease.          *)
RenewalNeverOverwrites ==
  \A w \in Writers : AtLabel(w, "rewrite") => Owns(w)

(* A lease that is neither expired nor left by a dead process keeps its    *)
(* place: only its own holder changes or removes lock.json.                *)
LiveLeaseKept ==
  [][\A w \in Writers :
       lock # NoFile /\ lock.token = w /\ lock.written /\ ~Stale(lock)
         => \/ lock' = lock
            \/ pc[w] \in {"rewrite", "unlink"} /\ pc'[w] = "exit"]_vars

(* Every opener gets an answer: it holds the session or is refused; a      *)
(* stale lease, a stale mutex and the races for both only delay it.        *)
AcquireEnds ==
  \A w \in Writers :
    pc[w] = "create" ~> pc[w] \in {"held", "refused", "crashed"}

(* close() comes back: a release leaves the mutex and ends.                *)
ReleaseEnds ==
  \A w \in Writers :
    (pc[w] = "mutex" /\ job[w] = "release") ~> pc[w] \in {"released", "crashed"}
=============================================================================
