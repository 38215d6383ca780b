------------------------------ MODULE WriteLock ------------------------------
(***************************************************************************)
(* The project write lock of packages/core/src/ledger/lock.ts: a lock      *)
(* directory created by mkdir, an owner.json inside it, reclaim of a lock  *)
(* whose owner is dead or which never got an owner and is old, and a       *)
(* release that removes the owner file and then the directory.             *)
(*                                                                         *)
(* Processes are separate operating-system processes, so every file-system *)
(* call is a step of its own.  A crashed process never comes back: its     *)
(* restart is another pid, that is, another member of Procs.               *)
(***************************************************************************)
EXTENDS Naturals

CONSTANTS
  Procs,          \* pids that may ask for the lock
  NoProc,         \* "no owner record"
  MaxAttempts,    \* maxAttempts of acquireWriteLock
  MaxCrashes,     \* bound on crashes
  Stalls          \* TRUE: a live process may sit staleAfterMs between two
                  \* consecutive synchronous calls

ASSUME LockAssumption ==
  /\ NoProc \notin Procs
  /\ MaxAttempts \in Nat \ {0}
  /\ MaxCrashes \in Nat
  /\ Stalls \in BOOLEAN

VARIABLES
  dir,        \* the lock directory exists
  owner,      \* pid in owner.json, NoProc when the file is missing
  aged,       \* the directory's mtime is at least staleAfterMs old
  alive,      \* alive[p]: kill(pid, 0) succeeds
  pc,         \* where p is in acquireWriteLock / release
  attempts,   \* attempts counter of p's acquireWriteLock call
  crashes

lockVars == <<dir, owner, aged, alive, pc, attempts, crashes>>

Places == {"idle", "mkdir", "made", "held", "contended", "unowned", "reap",
           "wait", "releasing", "unavailable"}

LockTypeOK ==
  /\ dir \in BOOLEAN
  /\ owner \in Procs \cup {NoProc}
  /\ aged \in BOOLEAN
  /\ alive \in [Procs -> BOOLEAN]
  /\ pc \in [Procs -> Places]
  /\ attempts \in [Procs -> 0..MaxAttempts]
  /\ crashes \in 0..MaxCrashes

Init ==
  /\ dir = FALSE
  /\ owner = NoProc
  /\ aged = FALSE
  /\ alive = [p \in Procs |-> TRUE]
  /\ pc = [p \in Procs |-> "idle"]
  /\ attempts = [p \in Procs |-> 0]
  /\ crashes = 0

Goto(p, place) == pc' = [pc EXCEPT ![p] = place]
At(p, place) == alive[p] /\ pc[p] = place

\* acquireWriteLock is called.
AcquireWriteLock(p) ==
  /\ At(p, "idle")
  /\ Goto(p, "mkdir")
  /\ attempts' = [attempts EXCEPT ![p] = 0]
  /\ UNCHANGED <<dir, owner, aged, alive, crashes>>

\* mkdirSync(lockDir) succeeds.
MakeDir(p) ==
  /\ At(p, "mkdir")
  /\ ~dir
  /\ dir' = TRUE
  /\ aged' = FALSE
  /\ Goto(p, "made")
  /\ UNCHANGED <<owner, alive, attempts, crashes>>

\* mkdirSync(lockDir) throws EEXIST; attempts saturates at its limit.
MakeDirExists(p) ==
  /\ At(p, "mkdir")
  /\ dir
  /\ attempts' = [attempts EXCEPT ![p] = IF @ < MaxAttempts THEN @ + 1 ELSE @]
  /\ Goto(p, "contended")
  /\ UNCHANGED <<dir, owner, aged, alive, crashes>>

\* writeFileSync(owner.json): ENOENT, which is rethrown, when the directory was
\* reclaimed meanwhile; otherwise the record replaces whatever is there.
WriteOwner(p) ==
  /\ At(p, "made")
  /\ IF dir
       THEN owner' = p /\ aged' = FALSE /\ Goto(p, "held")
       ELSE Goto(p, "unavailable") /\ UNCHANGED <<owner, aged>>
  /\ UNCHANGED <<dir, alive, attempts, crashes>>

\* Mutant of ReadOwner: a probe that takes a live owner (EPERM) for a dead one.
ReadOwnerMisjudged(p) ==
  /\ At(p, "contended")
  /\ Goto(p, IF owner = NoProc THEN "unowned" ELSE "reap")
  /\ UNCHANGED <<dir, owner, aged, alive, attempts, crashes>>

\* Mutant of ReadOwner: a dead owner is waited for like a live one.
ReadOwnerPatient(p) ==
  /\ At(p, "contended")
  /\ Goto(p, IF owner = NoProc THEN "unowned" ELSE "wait")
  /\ UNCHANGED <<dir, owner, aged, alive, attempts, crashes>>

\* readOwner and isProcessAlive(owner.pid) in tryReclaimStaleLock.
ReadOwner(p) ==
  /\ At(p, "contended")
  /\ Goto(p, IF owner = NoProc THEN "unowned"
             ELSE IF alive[owner] THEN "wait" ELSE "reap")
  /\ UNCHANGED <<dir, owner, aged, alive, attempts, crashes>>

\* statSync(lockDir): the directory vanished, is stale, or is fresh.
StatDir(p) ==
  /\ At(p, "unowned")
  /\ Goto(p, IF ~dir THEN "mkdir" ELSE IF aged THEN "reap" ELSE "wait")
  /\ UNCHANGED <<dir, owner, aged, alive, attempts, crashes>>

\* rmSync(lockDir, recursive, force): removes whatever is there by now.
ReclaimDir(p) ==
  /\ At(p, "reap")
  /\ dir' = FALSE
  /\ owner' = NoProc
  /\ aged' = FALSE
  /\ Goto(p, "mkdir")
  /\ UNCHANGED <<alive, attempts, crashes>>

\* await sleep(backoffMs) and try again.
BackOff(p) ==
  /\ At(p, "wait")
  /\ attempts[p] < MaxAttempts
  /\ Goto(p, "mkdir")
  /\ UNCHANGED <<dir, owner, aged, alive, attempts, crashes>>

\* LockUnavailable: attempts are used up or timeoutMs has passed.
GiveUp(p) ==
  /\ At(p, "wait")
  /\ Goto(p, "unavailable")
  /\ UNCHANGED <<dir, owner, aged, alive, attempts, crashes>>

\* release(), first call: remove owner.json, whoever wrote it.
ReleaseOwner(p) ==
  /\ At(p, "held")
  /\ owner' = NoProc
  /\ aged' = IF owner = NoProc THEN aged ELSE FALSE
  /\ Goto(p, "releasing")
  /\ UNCHANGED <<dir, alive, attempts, crashes>>

\* release(), second call: remove the directory, whoever made it.
ReleaseDir(p) ==
  /\ At(p, "releasing")
  /\ dir' = FALSE
  /\ owner' = NoProc
  /\ aged' = FALSE
  /\ Goto(p, "idle")
  /\ UNCHANGED <<alive, attempts, crashes>>

\* The directory turns staleAfterMs old.  Unless Stalls, a live process does
\* not take that long between two consecutive synchronous calls.
GrowOld ==
  /\ dir
  /\ ~aged
  /\ Stalls \/ \A p \in Procs : ~(alive[p] /\ pc[p] \in {"made", "unowned", "releasing"})
  /\ aged' = TRUE
  /\ UNCHANGED <<dir, owner, alive, pc, attempts, crashes>>

Crash(p) ==
  /\ alive[p]
  /\ pc[p] \notin {"idle", "unavailable"}
  /\ crashes < MaxCrashes
  /\ alive' = [alive EXCEPT ![p] = FALSE]
  /\ crashes' = crashes + 1
  /\ UNCHANGED <<dir, owner, aged, pc, attempts>>

Step(p) ==
  \/ MakeDir(p) \/ MakeDirExists(p) \/ WriteOwner(p) \/ ReadOwner(p)
  \/ StatDir(p) \/ ReclaimDir(p) \/ BackOff(p) \/ GiveUp(p)
  \/ ReleaseOwner(p) \/ ReleaseDir(p)

Next ==
  \/ \E p \in Procs : AcquireWriteLock(p) \/ Step(p) \/ Crash(p)
  \/ GrowOld

Spec == Init /\ [][Next]_lockVars

\* A live process keeps executing its synchronous code, its sleeps end, and
\* every commit releases its lock in a finally block.
FairSpec == Spec /\ \A p \in Procs : WF_lockVars(Step(p))

-----------------------------------------------------------------------------
Holds(p) == alive[p] /\ pc[p] = "held"

\* Two live processes are never both past acquireWriteLock and before release:
\* "the project-level write lock serializes writers" (repository.ts).
MutualExclusion == \A p, q \in Procs : Holds(p) /\ Holds(q) => p = q

\* The directory protocol implements the mutex LedgerRepository.commit relies
\* on: nobody enters while a live process is inside.
holder == IF \E p \in Procs : Holds(p) THEN CHOOSE p \in Procs : Holds(p) ELSE NoProc
Mutex == INSTANCE WriterMutex WITH holder <- holder, alive <- alive
ImplementsMutex == Mutex!MutexSpec

OwnerDead == owner # NoProc /\ ~alive[owner]

\* A lock whose owner died does not survive a live process that asks for it:
\* the reclaim path is taken before any timeout is consulted.
DeadOwnerReclaimed ==
  \A p \in Procs :
    (OwnerDead /\ alive[p] /\ pc[p] \in {"mkdir", "contended"}) ~> (~OwnerDead \/ ~alive[p])
=============================================================================
