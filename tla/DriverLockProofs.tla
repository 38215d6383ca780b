-------------------------- MODULE DriverLockProofs --------------------------
(***************************************************************************)
(* What the Driver Lock guarantees for any number of hosts, drivers and    *)
(* crashes.  Two live drivers are excluded as long as no host runs more    *)
(* than two of them, or none ever dies.  The hypothesis is needed: the     *)
(* third driver of a host may remove, by path, the directory the second    *)
(* one has just re-created.                                                *)
(***************************************************************************)
EXTENDS DriverLock, TLAPS

\* A host runs the CLI and the Dashboard, and nothing else that drives.
TwoPerHost == \A h \in Hosts : \A p, q, r \in h : p = q \/ q = r \/ p = r

\* Three attempts are never exceeded: the loop counter of a driver that is
\* still trying leaves room for another round.
TypeInv ==
  /\ TypeOK
  /\ \A p \in Procs : pc[p] \in {"mkdir", "contended", "reap"} => attempt[p] < MaxAttempts

\* The rest of the inductive invariant.  A live driver between its mkdir and
\* its rmdir is alone there, and the owner record names it once it holds the
\* lock; whoever is about to remove a lock still looks at the dead owner it
\* has judged.
DriverInv ==
  /\ MaxCrashes = 0 => \A p \in Procs : alive[p]
  /\ \A p \in Procs : At(p, "made") => dir /\ owner = NoProc
  /\ \A p \in Procs : At(p, "held") \/ At(p, "removing") => owner = p
  /\ \A p, q \in Procs : At(p, "made") /\ At(q, "made") => p = q
  /\ \A p \in Procs : At(p, "reap") => /\ owner # NoProc /\ ~alive[owner]
                                       /\ SameHost(owner, p)

\* The state before the first acquire has its types.
LEMMA InitTypeInv == Init => TypeInv
<1> SUFFICES ASSUME Init PROVE TypeInv
  OBVIOUS
<1>1. alive \in [Procs -> BOOLEAN] /\ dir \in BOOLEAN
  BY Zenon DEF Init
<1>2. /\ owner \in Procs \cup {NoProc} /\ pc \in [Procs -> Places]
      /\ attempt \in [Procs -> 0..MaxAttempts] /\ crashes \in 0..MaxCrashes
      /\ \A p \in Procs : pc[p] = "idle"
  BY DriverAssumption DEF Init, Places, MaxAttempts
<1> QED
  BY <1>1, <1>2, DriverAssumption DEF Init, TypeInv, TypeOK

\* Every step of every driver keeps the types and the attempts in bounds.
LEMMA NextTypeInv ==
  ASSUME TypeInv, [Next]_vars
  PROVE  TypeInv'
<1> USE DriverAssumption DEF TypeInv, TypeOK, Places, MaxAttempts, At, Goto
<1>1. ASSUME NEW p \in Procs, Acquire(p) PROVE TypeInv'
  BY <1>1 DEF Acquire
<1>2. ASSUME NEW p \in Procs, MakeDir(p) PROVE TypeInv'
  BY <1>2 DEF MakeDir
<1>3. ASSUME NEW p \in Procs, WriteOwner(p) PROVE TypeInv'
  BY <1>3 DEF WriteOwner
<1>4. ASSUME NEW p \in Procs, HandleContention(p) PROVE TypeInv'
  BY <1>4 DEF HandleContention
<1>5. ASSUME NEW p \in Procs, ReclaimDir(p) PROVE TypeInv'
  <2>1. attempt[p] \in 0..MaxAttempts /\ attempt[p] < MaxAttempts
    BY <1>5 DEF ReclaimDir
  <2>2. attempt[p] + 1 \in 0..MaxAttempts
    BY <2>1
  <2>3. attempt' \in [Procs -> 0..MaxAttempts] /\ attempt'[p] = attempt[p] + 1
    BY <1>5, <2>2 DEF ReclaimDir
  <2>4. pc' \in [Procs -> Places] /\ (pc'[p] = "mkdir" => attempt[p] + 1 < MaxAttempts)
    BY <1>5 DEF ReclaimDir
  <2>5. \A q \in Procs : q # p => pc'[q] = pc[q] /\ attempt'[q] = attempt[q]
    BY <1>5 DEF ReclaimDir
  <2>6. pc'[p] \in {"mkdir", "refused"}
    BY <1>5 DEF ReclaimDir
  <2> QED
    BY <1>5, <2>3, <2>4, <2>5, <2>6 DEF ReclaimDir
<1>6. ASSUME NEW p \in Procs, ReleaseCheck(p) PROVE TypeInv'
  BY <1>6 DEF ReleaseCheck
<1>7. ASSUME NEW p \in Procs, ReleaseDir(p) PROVE TypeInv'
  BY <1>7 DEF ReleaseDir
<1>8. ASSUME NEW p \in Procs, AskAgain(p) PROVE TypeInv'
  BY <1>8 DEF AskAgain
<1>9. ASSUME NEW p \in Procs, Crash(p) PROVE TypeInv'
  BY <1>9 DEF Crash
<1>10. CASE UNCHANGED vars
  BY <1>10 DEF vars
<1> QED
  BY <1>1, <1>2, <1>3, <1>4, <1>5, <1>6, <1>7, <1>8, <1>9, <1>10 DEF Next, Step

\* Of two drivers that share a host with a third one, two are the same.
LEMMA OneOtherOnHost ==
  ASSUME TwoPerHost, NEW o \in Procs, NEW p \in Procs, NEW q \in Procs,
         SameHost(o, p), SameHost(o, q), p # o, q # o
  PROVE  p = q
<1>1. PICK g \in Hosts : o \in g /\ p \in g
  BY DEF SameHost
<1>2. PICK h \in Hosts : o \in h /\ q \in h
  BY DEF SameHost
<1>3. g = h
  BY <1>1, <1>2, DriverAssumption
<1> QED
  BY <1>1, <1>2, <1>3 DEF TwoPerHost

\* Every call of acquire, handleContention and release preserves DriverInv.
LEMMA NextDriverInv ==
  ASSUME MaxCrashes = 0 \/ TwoPerHost, TypeInv, TypeInv', DriverInv, [Next]_vars
  PROVE  DriverInv'
<1> USE DriverAssumption DEF TypeInv, TypeOK, DriverInv, At, Goto
<1>1. ASSUME NEW p \in Procs, Acquire(p) PROVE DriverInv'
  BY <1>1 DEF Acquire
<1>2. ASSUME NEW p \in Procs, MakeDir(p) PROVE DriverInv'
  BY <1>2 DEF MakeDir
<1>3. ASSUME NEW p \in Procs, WriteOwner(p) PROVE DriverInv'
  BY <1>3 DEF WriteOwner
<1>4. ASSUME NEW p \in Procs, HandleContention(p) PROVE DriverInv'
  BY <1>4 DEF HandleContention, ReadOwner
<1>5. ASSUME NEW p \in Procs, ReclaimDir(p) PROVE DriverInv'
  <2>1. owner \in Procs /\ ~alive[owner] /\ SameHost(owner, p) /\ TwoPerHost
    BY <1>5 DEF ReclaimDir
  <2>2. ASSUME NEW q \in Procs, At(q, "reap") PROVE q = p
    BY <1>5, <2>1, <2>2, OneOtherOnHost DEF ReclaimDir
  <2>3. \A q \in Procs : ~At(q, "held") /\ ~At(q, "removing") /\ ~At(q, "made")
    BY <2>1
  <2> QED
    BY <1>5, <2>2, <2>3 DEF ReclaimDir
<1>6. ASSUME NEW p \in Procs, ReleaseCheck(p) PROVE DriverInv'
  BY <1>6 DEF ReleaseCheck, ReadOwner
<1>7. ASSUME NEW p \in Procs, ReleaseDir(p) PROVE DriverInv'
  BY <1>7 DEF ReleaseDir
<1>8. ASSUME NEW p \in Procs, AskAgain(p) PROVE DriverInv'
  BY <1>8 DEF AskAgain
<1>9. ASSUME NEW p \in Procs, Crash(p) PROVE DriverInv'
  BY <1>9 DEF Crash
<1>10. CASE UNCHANGED vars
  BY <1>10 DEF vars
<1> QED
  BY <1>1, <1>2, <1>3, <1>4, <1>5, <1>6, <1>7, <1>8, <1>9, <1>10 DEF Next, Step

\* Two live drivers never drive the same operation, on any number of hosts
\* with any number of crashes, when a host runs at most two drivers or no
\* driver dies: mkdir, the owner record and the reclaim of a dead same-host
\* owner let only one of them past acquire.
THEOREM DriversExclude ==
  ASSUME MaxCrashes = 0 \/ TwoPerHost
  PROVE  Spec => []DriverExclusion
<1>1. Init => TypeInv /\ DriverInv
  BY InitTypeInv DEF Init, DriverInv, At, TypeInv, TypeOK
<1>2. TypeInv /\ DriverInv /\ [Next]_vars => TypeInv' /\ DriverInv'
  BY NextTypeInv, NextDriverInv
<1>3. DriverInv => DriverExclusion
  BY DEF DriverInv, DriverExclusion, Drives, At
<1> QED
  BY <1>1, <1>2, <1>3, PTL DEF Spec

\* A lock that lost its driver between mkdir and the owner record is never
\* guessed away: no step of any driver, on any host, removes or adopts it.
THEOREM OrphansBlock == Spec => OrphanBlocks
<1>1. TypeInv /\ [Next]_vars => [Orphaned => Orphaned']_vars
  <2> SUFFICES ASSUME TypeInv, Next, Orphaned PROVE Orphaned'
    BY DEF vars, Orphaned
  <2> USE DriverAssumption DEF TypeInv, TypeOK, Orphaned, At, Goto
  <2>1. PICK p \in Procs : Acquire(p) \/ Step(p) \/ ReleaseCheck(p) \/ AskAgain(p) \/ Crash(p)
    BY DEF Next
  <2>2. CASE Acquire(p) \/ AskAgain(p)
    BY <2>2 DEF Acquire, AskAgain
  <2>3. CASE MakeDir(p) \/ HandleContention(p)
    BY <2>3 DEF MakeDir, HandleContention, ReadOwner
  <2>4. CASE WriteOwner(p) \/ ReclaimDir(p) \/ ReleaseDir(p)
    BY <2>4 DEF WriteOwner, ReclaimDir, ReleaseDir
  <2>5. CASE ReleaseCheck(p)
    BY <2>5 DEF ReleaseCheck, ReadOwner
  <2>6. CASE Crash(p)
    BY <2>6 DEF Crash
  <2> QED
    BY <2>1, <2>2, <2>3, <2>4, <2>5, <2>6 DEF Step
<1>2. TypeInv /\ [Next]_vars => TypeInv'
  BY NextTypeInv
<1> QED
  BY InitTypeInv, <1>1, <1>2, PTL DEF Spec, OrphanBlocks
=============================================================================
