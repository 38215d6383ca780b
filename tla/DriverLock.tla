------------------------------ MODULE DriverLock ------------------------------
(***************************************************************************)
(* The operation-scoped Driver Lock of                                     *)
(* packages/runtime/src/scheduling/driver-lock.ts: one directory per       *)
(* operation, an owner record renamed into it, reclaim only of a lock      *)
(* whose owner ran on this host and is dead, and a release that checks the *)
(* owner token first.  A process here is one driver process; it holds at   *)
(* most one handle, so its name also stands for its owner token.           *)
(***************************************************************************)
EXTENDS Naturals

CONSTANTS
  Procs,        \* driver processes (CLI, Dashboard), never restarted
  NoProc,       \* no owner.json
  Hosts,        \* the sets of drivers that run on one host
  MaxCrashes    \* bound on crashes

ASSUME DriverAssumption ==
  /\ NoProc \notin Procs
  /\ UNION Hosts = Procs /\ \A g, h \in Hosts : g # h => g \cap h = {}
  /\ MaxCrashes \in Nat

VARIABLES
  dir,       \* the lock directory exists
  owner,     \* owner.json, NoProc when missing
  alive, pc,
  attempt,   \* loop counter of acquire
  crashes

vars == <<dir, owner, alive, pc, attempt, crashes>>

MaxAttempts == 3
Places == {"idle", "mkdir", "made", "held", "contended", "reap", "removing", "refused"}

TypeOK ==
  /\ dir \in BOOLEAN
  /\ owner \in Procs \cup {NoProc}
  /\ alive \in [Procs -> BOOLEAN]
  /\ pc \in [Procs -> Places]
  /\ attempt \in [Procs -> 0..MaxAttempts]
  /\ crashes \in 0..MaxCrashes
  /\ owner # NoProc => dir

Init ==
  /\ dir = FALSE
  /\ owner = NoProc
  /\ alive = [p \in Procs |-> TRUE]
  /\ pc = [p \in Procs |-> "idle"]
  /\ attempt = [p \in Procs |-> 0]
  /\ crashes = 0

SameHost(p, q) == \E h \in Hosts : p \in h /\ q \in h

Goto(p, place) == pc' = [pc EXCEPT ![p] = place]
At(p, place) == alive[p] /\ pc[p] = place

\* readOwner: owner.json appears by one rename, so it is missing or whole.
ReadOwner == IF owner = NoProc THEN "pending" ELSE "ok"

Acquire(p) ==
  /\ At(p, "idle")
  /\ Goto(p, "mkdir")
  /\ attempt' = [attempt EXCEPT ![p] = 0]
  /\ UNCHANGED <<dir, owner, alive, crashes>>

\* mkdirSync: either this driver makes the directory or it is contended.
MakeDir(p) ==
  /\ At(p, "mkdir")
  /\ dir' = TRUE
  /\ Goto(p, IF dir THEN "contended" ELSE "made")
  /\ UNCHANGED <<owner, alive, attempt, crashes>>

\* writeOwner: a temporary file and a rename inside the directory; ENOENT when
\* the directory is gone.
WriteOwner(p) ==
  /\ At(p, "made")
  /\ owner' = IF dir THEN p ELSE owner
  /\ Goto(p, IF dir THEN "held" ELSE "refused")
  /\ UNCHANGED <<dir, alive, attempt, crashes>>

\* Mutant of HandleContention: the host of the owner is not compared, so the
\* pid of a foreign driver looks dead here.
HandleContentionAnyHost(p) ==
  /\ At(p, "contended")
  /\ Goto(p, IF owner # NoProc /\ (~SameHost(owner, p) \/ ~alive[owner])
               THEN "reap" ELSE "refused")
  /\ UNCHANGED <<dir, owner, alive, attempt, crashes>>

\* Mutant of HandleContention: no lock is ever reclaimed.
HandleContentionRefuse(p) ==
  /\ At(p, "contended")
  /\ Goto(p, "refused")
  /\ UNCHANGED <<dir, owner, alive, attempt, crashes>>

\* handleContention reads the owner: pending, live and foreign locks refuse the
\* acquisition, a dead owner of this host leads to a reclaim.
HandleContention(p) ==
  /\ At(p, "contended")
  /\ Goto(p, IF ReadOwner = "ok" /\ SameHost(owner, p) /\ ~alive[owner]
               THEN "reap" ELSE "refused")
  /\ UNCHANGED <<dir, owner, alive, attempt, crashes>>

\* rmSync of the lock directory by path, then the next of three attempts.
ReclaimDir(p) ==
  /\ At(p, "reap")
  /\ dir' = FALSE
  /\ owner' = NoProc
  /\ attempt' = [attempt EXCEPT ![p] = @ + 1]
  /\ Goto(p, IF attempt[p] + 1 < MaxAttempts THEN "mkdir" ELSE "refused")
  /\ UNCHANGED <<alive, crashes>>

\* release(): a missing directory or owner returns, another owner throws.
ReleaseCheck(p) ==
  /\ At(p, "held")
  /\ Goto(p, IF ReadOwner = "ok" /\ owner = p THEN "removing" ELSE "idle")
  /\ UNCHANGED <<dir, owner, alive, attempt, crashes>>

ReleaseDir(p) ==
  /\ At(p, "removing")
  /\ dir' = FALSE
  /\ owner' = NoProc
  /\ Goto(p, "idle")
  /\ UNCHANGED <<alive, attempt, crashes>>

\* The refused caller may ask again later.
AskAgain(p) ==
  /\ At(p, "refused")
  /\ Goto(p, "idle")
  /\ UNCHANGED <<dir, owner, alive, attempt, crashes>>

Crash(p) ==
  /\ alive[p] /\ pc[p] # "idle" /\ crashes < MaxCrashes
  /\ alive' = [alive EXCEPT ![p] = FALSE]
  /\ crashes' = crashes + 1
  /\ UNCHANGED <<dir, owner, pc, attempt>>

Step(p) ==
  \/ MakeDir(p) \/ WriteOwner(p) \/ HandleContention(p) \/ ReclaimDir(p)
  \/ ReleaseDir(p)

Next ==
  \E p \in Procs : Acquire(p) \/ Step(p) \/ ReleaseCheck(p) \/ AskAgain(p) \/ Crash(p)

Spec == Init /\ [][Next]_vars

\* Once called, acquire and the removal in release run to their end.
FairSpec == Spec /\ \A p \in Procs : WF_vars(Step(p))

-----------------------------------------------------------------------------
Drives(p) == alive[p] /\ pc[p] = "held"

\* No two live drivers of one operation: "CLI run/resume and Dashboard recovery
\* can never drive the same Operation concurrently".
DriverExclusion == \A p, q \in Procs : Drives(p) /\ Drives(q) => p = q

\* A lock left without an owner record by a crash inside acquire.
Orphaned == dir /\ owner = NoProc /\ \A p \in Procs : alive[p] => pc[p] \notin {"made", "reap", "removing"}

\* Such a lock "blocks forever instead of being guessed away".
OrphanBlocks == [][Orphaned => Orphaned']_vars

\* A driver that asks for the lock of a dead driver of its own host removes
\* that lock, instead of being refused for as long as it asks.
DeadDriverReclaimed ==
  \A p, q \in Procs :
    (At(p, "mkdir") /\ owner = q /\ ~alive[q] /\ SameHost(q, p)) ~> (owner # q \/ ~alive[p])
=============================================================================
