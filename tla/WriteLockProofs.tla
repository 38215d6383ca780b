--------------------------- MODULE WriteLockProofs ---------------------------
(***************************************************************************)
(* The write lock excludes two holders, and implements the mutex the       *)
(* Ledger's commit is modelled on, as long as no live process sleeps for   *)
(* staleAfterMs inside a synchronous stretch and either no process dies or *)
(* at most two processes contend.  Both hypotheses are needed: the run     *)
(* lock_reclaim_race shows two holders after one crash among three.        *)
(***************************************************************************)
EXTENDS WriteLock, TLAPS

TwoProcs == \A p, q, r \in Procs : p = q \/ q = r \/ p = r

InsidePlaces == {"made", "held", "releasing"}

\* As long as nobody died, the directory belongs to exactly one process on its
\* way through mkdir .. rmdir, the owner record names the one that holds the
\* lock, and nobody gets as far as judging the lock stale.
LockCore ==
  /\ \A p \in Procs : pc[p] \in InsidePlaces => dir
  /\ \A p, q \in Procs : pc[p] \in InsidePlaces /\ pc[q] \in InsidePlaces => p = q
  /\ dir => \E p \in Procs : pc[p] \in InsidePlaces
  /\ owner # NoProc => pc[owner] = "held"
  /\ \A p \in Procs : pc[p] = "held" => owner = p
  /\ \A p \in Procs : pc[p] # "reap"
  /\ aged => owner # NoProc /\ \A p \in Procs : pc[p] # "unowned"

\* The inductive invariant.
LockInv ==
  /\ LockTypeOK
  /\ MaxCrashes = 0 => \A p \in Procs : alive[p]
  /\ (\A p \in Procs : alive[p]) => LockCore

\* LockInv holds before the first acquireWriteLock call.
LEMMA InitLockInv == Init => LockInv
<1> SUFFICES ASSUME Init PROVE LockInv
  OBVIOUS
<1>1. LockTypeOK
  <2>1. attempts \in [Procs -> 0..MaxAttempts] /\ crashes \in 0..MaxCrashes
    BY LockAssumption DEF Init
  <2>2. alive \in [Procs -> BOOLEAN] /\ dir \in BOOLEAN /\ aged \in BOOLEAN
    BY Zenon DEF Init
  <2>3. pc \in [Procs -> Places] /\ owner \in Procs \cup {NoProc}
    BY DEF Init, Places
  <2> QED
    BY <2>1, <2>2, <2>3 DEF LockTypeOK
<1>2. \A p \in Procs : alive[p] /\ pc[p] = "idle"
  BY DEF Init
<1> QED
  BY <1>1, <1>2 DEF Init, LockInv, LockCore, InsidePlaces

\* Every file-system call keeps the types.
LEMMA NextLockTypeOK ==
  ASSUME LockTypeOK, [Next]_lockVars
  PROVE  LockTypeOK'
<1> USE LockAssumption DEF LockTypeOK, Places, At, Goto
<1>1. ASSUME NEW p \in Procs, AcquireWriteLock(p) PROVE LockTypeOK'
  BY <1>1 DEF AcquireWriteLock
<1>2. ASSUME NEW p \in Procs, MakeDir(p) PROVE LockTypeOK'
  BY <1>2 DEF MakeDir
<1>3. ASSUME NEW p \in Procs, MakeDirExists(p) PROVE LockTypeOK'
  BY <1>3 DEF MakeDirExists
<1>4. ASSUME NEW p \in Procs, WriteOwner(p) PROVE LockTypeOK'
  BY <1>4 DEF WriteOwner
<1>5. ASSUME NEW p \in Procs, ReadOwner(p) PROVE LockTypeOK'
  BY <1>5 DEF ReadOwner
<1>6. ASSUME NEW p \in Procs, StatDir(p) PROVE LockTypeOK'
  BY <1>6 DEF StatDir
<1>7. ASSUME NEW p \in Procs, ReclaimDir(p) PROVE LockTypeOK'
  BY <1>7 DEF ReclaimDir
<1>8. ASSUME NEW p \in Procs, BackOff(p) PROVE LockTypeOK'
  BY <1>8 DEF BackOff
<1>9. ASSUME NEW p \in Procs, GiveUp(p) PROVE LockTypeOK'
  BY <1>9 DEF GiveUp
<1>10. ASSUME NEW p \in Procs, ReleaseOwner(p) PROVE LockTypeOK'
  BY <1>10 DEF ReleaseOwner
<1>11. ASSUME NEW p \in Procs, ReleaseDir(p) PROVE LockTypeOK'
  BY <1>11 DEF ReleaseDir
<1>12. ASSUME NEW p \in Procs, Crash(p) PROVE LockTypeOK'
  BY <1>12 DEF Crash
<1>13. CASE GrowOld
  BY <1>13 DEF GrowOld
<1>14. CASE UNCHANGED lockVars
  BY <1>14 DEF lockVars
<1> QED
  BY <1>1, <1>2, <1>3, <1>4, <1>5, <1>6, <1>7, <1>8, <1>9, <1>10, <1>11, <1>12, <1>13, <1>14
  DEF Next, Step

\* Every file-system call of the lock preserves LockInv when nobody stalls.
LEMMA NextLockInv ==
  ASSUME Stalls = FALSE, LockInv, [Next]_lockVars
  PROVE  LockInv'
<1>1. LockTypeOK'
  BY NextLockTypeOK DEF LockInv
<1>2. ASSUME NEW p \in Procs, Crash(p) PROVE LockInv'
  BY <1>1, <1>2, LockAssumption DEF LockInv, LockTypeOK, Crash
<1>3. ASSUME UNCHANGED alive, (\A p \in Procs : alive[p]) /\ LockCore => LockCore' PROVE LockInv'
  BY <1>1, <1>3 DEF LockInv
<1>4. ASSUME NEW p \in Procs, AcquireWriteLock(p) \/ Step(p) PROVE UNCHANGED alive
  BY <1>4 DEF Step, AcquireWriteLock, MakeDir, MakeDirExists, WriteOwner, ReadOwner, StatDir, ReclaimDir, BackOff, GiveUp, ReleaseOwner, ReleaseDir
<1> USE LockAssumption DEF LockInv, LockTypeOK, LockCore, InsidePlaces, At, Goto
<1>5. ASSUME NEW p \in Procs, AcquireWriteLock(p) \/ Step(p),
             \A q \in Procs : alive[q], LockCore
      PROVE  LockCore'
  <2>1. CASE AcquireWriteLock(p)
    BY <1>5, <2>1 DEF AcquireWriteLock
  <2>2. CASE MakeDir(p)
    BY <1>5, <2>2 DEF MakeDir
  <2>3. CASE MakeDirExists(p)
    BY <1>5, <2>3 DEF MakeDirExists
  <2>4. CASE WriteOwner(p)
    BY <1>5, <2>4 DEF WriteOwner
  <2>5. CASE ReadOwner(p)
    BY <1>5, <2>5 DEF ReadOwner
  <2>6. CASE StatDir(p)
    BY <1>5, <2>6 DEF StatDir
  <2>7. CASE ReclaimDir(p)
    BY <1>5, <2>7 DEF ReclaimDir
  <2>8. CASE BackOff(p)
    BY <1>5, <2>8 DEF BackOff
  <2>9. CASE GiveUp(p)
    BY <1>5, <2>9 DEF GiveUp
  <2>10. CASE ReleaseOwner(p)
    BY <1>5, <2>10 DEF ReleaseOwner
  <2>11. CASE ReleaseDir(p)
    BY <1>5, <2>11 DEF ReleaseDir
  <2> QED
    BY <1>5, <2>1, <2>2, <2>3, <2>4, <2>5, <2>6, <2>7, <2>8, <2>9, <2>10, <2>11 DEF Step
<1>6. ASSUME GrowOld, \A p \in Procs : alive[p], LockCore PROVE LockCore'
  BY <1>6 DEF GrowOld
<1>7. CASE GrowOld
  BY <1>1, <1>6, <1>7 DEF GrowOld
<1>8. CASE UNCHANGED lockVars
  BY <1>1, <1>8 DEF lockVars
<1> QED
  BY <1>2, <1>3, <1>4, <1>5, <1>7, <1>8 DEF Next

\* Once one of two contenders is dead there is nobody left to exclude.
LEMMA OneLiveOfTwo ==
  ASSUME MaxCrashes = 0 \/ TwoProcs, LockInv, NEW p \in Procs, NEW q \in Procs,
         alive[p], alive[q], p # q
  PROVE  LockCore
  BY DEF LockInv, TwoProcs

\* LockInv leaves room for one live holder.
LEMMA InvExcludes ==
  ASSUME MaxCrashes = 0 \/ TwoProcs, LockInv
  PROVE  MutualExclusion
  BY OneLiveOfTwo DEF MutualExclusion, Holds, LockCore, InsidePlaces

\* When nobody stalls, and nobody dies or at most two processes contend, the
\* directory protocol of acquireWriteLock and release never lets two live
\* processes hold the lock.
THEOREM LockExcludes ==
  ASSUME Stalls = FALSE, MaxCrashes = 0 \/ TwoProcs
  PROVE  Spec => []MutualExclusion
<1>1. LockInv => MutualExclusion
  BY InvExcludes
<1>2. LockInv /\ [Next]_lockVars => LockInv'
  BY NextLockInv
<1>3. Init => LockInv
  BY InitLockInv
<1> QED
  BY <1>1, <1>2, <1>3, PTL DEF Spec

\* The holder of the abstract mutex is the live process that holds the lock.
HolderIsHolding ==
  /\ \A p \in Procs : Holds(p) => holder = p
  /\ (\A p \in Procs : ~Holds(p)) => holder = NoProc
  /\ \A p \in Procs : holder = p => Holds(p)

\* holder is well defined whenever the lock excludes.
LEMMA HolderHolds == MutualExclusion => HolderIsHolding
<1> SUFFICES ASSUME MutualExclusion PROVE HolderIsHolding
  OBVIOUS
<1>1. ASSUME NEW p \in Procs, Holds(p) PROVE holder = p
  <2>1. \A q \in Procs : Holds(q) <=> q = p
    BY <1>1 DEF MutualExclusion
  <2> QED
    BY <1>1, <2>1 DEF holder
<1>2. (\A p \in Procs : ~Holds(p)) => holder = NoProc
  BY DEF holder
<1>3. \A p \in Procs : holder = p => Holds(p)
  BY <1>1, <1>2, LockAssumption
<1> QED
  BY <1>1, <1>2, <1>3 DEF HolderIsHolding

\* Every file-system call is an acquisition, a release, a death or invisible.
LEMMA NextImplementsMutex ==
  ASSUME Stalls = FALSE, MaxCrashes = 0 \/ TwoProcs, LockInv, [Next]_lockVars
  PROVE  [Mutex!MutexNext]_(Mutex!mutexVars)
<1>1. LockInv'
  BY NextLockInv
<1>2. MutualExclusion /\ MutualExclusion'
  <2>1. MutualExclusion
    BY InvExcludes
  <2>2. MutualExclusion'
    BY <1>1 DEF LockInv, TwoProcs, MutualExclusion, Holds, LockCore, InsidePlaces
  <2> QED
    BY <2>1, <2>2
<1>3. HolderIsHolding
  BY <1>2, HolderHolds
<1>4. HolderIsHolding'
  BY <1>2, HolderHolds, PTL
<1>5. ASSUME UNCHANGED alive, \A p \in Procs : Holds(p)' <=> Holds(p)
      PROVE  UNCHANGED Mutex!mutexVars
  BY <1>3, <1>4, <1>5 DEF Mutex!mutexVars, HolderIsHolding
<1> USE LockAssumption DEF LockInv, LockTypeOK, At, Goto
<1>6. ASSUME NEW p \in Procs, WriteOwner(p), dir PROVE Mutex!MutexAcquire(p)
  <2>1. ASSUME NEW q \in Procs PROVE ~Holds(q)
    BY <1>6, OneLiveOfTwo DEF WriteOwner, Holds, LockCore, InsidePlaces
  <2>2. Holds(p)' /\ UNCHANGED alive /\ alive[p]
    BY <1>6 DEF WriteOwner, Holds
  <2> QED
    BY <1>3, <1>4, <2>1, <2>2 DEF Mutex!MutexAcquire, HolderIsHolding
<1>7. ASSUME NEW p \in Procs, WriteOwner(p), ~dir PROVE UNCHANGED Mutex!mutexVars
  BY <1>5, <1>7 DEF WriteOwner, Holds
<1>8. ASSUME NEW p \in Procs, ReleaseOwner(p) PROVE Mutex!MutexRelease(p)
  <2>1. Holds(p) /\ ~Holds(p)' /\ UNCHANGED alive
    BY <1>8 DEF ReleaseOwner, Holds
  <2>2. ASSUME NEW q \in Procs PROVE ~Holds(q)'
    BY <1>2, <1>8, <2>1 DEF ReleaseOwner, Holds, MutualExclusion
  <2> QED
    BY <1>3, <1>4, <2>1, <2>2 DEF Mutex!MutexRelease, HolderIsHolding
<1>9. ASSUME NEW p \in Procs, Crash(p) PROVE Mutex!MutexCrash(p)
  <2>1. alive[p] /\ alive' = [alive EXCEPT ![p] = FALSE]
    BY <1>9 DEF Crash
  <2>2. \A q \in Procs : Holds(q)' <=> Holds(q) /\ q # p
    BY <1>9 DEF Crash, Holds
  <2>3. holder' = IF holder = p THEN NoProc ELSE holder
    BY <1>3, <1>4, <2>2 DEF HolderIsHolding
  <2> QED
    BY <2>1, <2>3 DEF Mutex!MutexCrash
<1>10. ASSUME NEW p \in Procs,
              AcquireWriteLock(p) \/ MakeDir(p) \/ MakeDirExists(p) \/ ReadOwner(p) \/ StatDir(p)
              \/ ReclaimDir(p) \/ BackOff(p) \/ GiveUp(p) \/ ReleaseDir(p)
       PROVE  UNCHANGED Mutex!mutexVars
  <2>1. UNCHANGED alive /\ \A q \in Procs : Holds(q)' <=> Holds(q)
    BY <1>10 DEF AcquireWriteLock, MakeDir, MakeDirExists, ReadOwner, StatDir, ReclaimDir, BackOff,
                 GiveUp, ReleaseDir, Holds
  <2> QED
    BY <1>5, <2>1
<1>11. CASE GrowOld \/ UNCHANGED lockVars
  BY <1>5, <1>11 DEF GrowOld, lockVars, Holds
<1> QED
  BY <1>6, <1>7, <1>8, <1>9, <1>10, <1>11 DEF Next, Step, Mutex!MutexNext

\* When nobody stalls, and nobody dies or at most two processes contend, the
\* directory protocol of acquireWriteLock and release implements the mutex
\* LedgerRepository.commit relies on, a mutex that dies with its holder.
THEOREM LockImplementsMutex ==
  ASSUME Stalls = FALSE, MaxCrashes = 0 \/ TwoProcs
  PROVE  Spec => ImplementsMutex
<1>1. Init => Mutex!MutexInit
  <2> SUFFICES ASSUME Init PROVE Mutex!MutexInit
    OBVIOUS
  <2>1. \A p \in Procs : ~Holds(p)
    BY DEF Init, Holds
  <2>2. MutualExclusion
    BY <2>1 DEF MutualExclusion
  <2> QED
    BY <2>1, <2>2, HolderHolds DEF Init, Mutex!MutexInit, HolderIsHolding
<1>2. LockInv /\ [Next]_lockVars => LockInv'
  BY NextLockInv
<1>3. LockInv /\ [Next]_lockVars => [Mutex!MutexNext]_(Mutex!mutexVars)
  BY NextImplementsMutex
<1>4. Init => LockInv
  BY InitLockInv
<1> QED
  BY <1>1, <1>2, <1>3, <1>4, PTL DEF Spec, ImplementsMutex, Mutex!MutexSpec
=============================================================================
