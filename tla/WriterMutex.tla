----------------------------- MODULE WriterMutex -----------------------------
(***************************************************************************)
(* What the project write lock promises to LedgerRepository.commit: at     *)
(* most one live process is between the return of acquireWriteLock and the *)
(* start of release().  A process that dies gives the lock up with its     *)
(* life.  WriteLock is the directory protocol that implements this; Ledger *)
(* is the client that relies on it.                                        *)
(***************************************************************************)
CONSTANTS
  Procs,    \* operating-system processes
  NoProc    \* "no process"

ASSUME NoProcAssumption == NoProc \notin Procs

VARIABLES
  holder,   \* the live process inside the critical section, or NoProc
  alive     \* alive[p]: what kill(pid, 0) reports

mutexVars == <<holder, alive>>

MutexTypeOK ==
  /\ holder \in Procs \cup {NoProc}
  /\ alive \in [Procs -> BOOLEAN]

MutexInit ==
  /\ holder = NoProc
  /\ alive = [p \in Procs |-> TRUE]

MutexAcquire(p) ==
  /\ alive[p]
  /\ holder = NoProc
  /\ holder' = p
  /\ UNCHANGED alive

MutexRelease(p) ==
  /\ holder = p
  /\ holder' = NoProc
  /\ UNCHANGED alive

MutexCrash(p) ==
  /\ alive[p]
  /\ alive' = [alive EXCEPT ![p] = FALSE]
  /\ holder' = IF holder = p THEN NoProc ELSE holder

\* A new process takes the place of a dead one.
MutexRestart(p) ==
  /\ ~alive[p]
  /\ alive' = [alive EXCEPT ![p] = TRUE]
  /\ UNCHANGED holder

MutexNext ==
  \E p \in Procs : MutexAcquire(p) \/ MutexRelease(p) \/ MutexCrash(p) \/ MutexRestart(p)

MutexSpec == MutexInit /\ [][MutexNext]_mutexVars
=============================================================================
