--------------------------- MODULE LedgerInvariant ---------------------------
(***************************************************************************)
(* The inductive invariants of Ledger: CommitInv ties what a commit has    *)
(* done so far to the published files, and every step keeps the variables  *)
(* typed.  LedgerProofs shows that every step keeps the rest.              *)
(***************************************************************************)
EXTENDS Ledger, TLAPS

Acknowledged == {"committed", "already_committed"}
Manifests == [input : Inputs, seq : Nat \ {0}, month : Months]

LocalType ==
  /\ pc \in [Procs -> Places] /\ job \in [Procs -> Inputs \cup {None}]
  /\ todo \in [Procs -> SUBSET Names] /\ seq \in [Procs -> Nat]
  /\ shardMonth \in [Procs -> Months] /\ result \in [Procs -> Outcomes]

\* The mutex guards everything after acquireWriteLock; under it the manifest
\* found missing stays missing until publishManifest, and what was
\* acknowledged stays in place.
ProcInv(p) ==
  /\ (alive[p] /\ pc[p] \notin {"idle", "waiting"}) <=> holder = p
  /\ alive[p] /\ (pc[p] # "idle" \/ result[p] \in Acknowledged) => job[p] # None
  /\ alive[p] /\ pc[p] \in {"staging", "staged", "validated", "publishing"} => Id(p) \notin Committed
  /\ At(p, "staging") => todo[p] \subseteq DOMAIN job[p].files
  /\ At(p, "published") => Id(p) \in Committed /\ manifests[Id(p)].input = job[p]
  /\ alive[p] /\ result[p] \in Acknowledged =>
       Id(p) \in Committed /\ ManifestDigest(manifests[Id(p)].input) = ManifestDigest(job[p])

CommitInv ==
  /\ TypeOK
  /\ \A o \in Committed : manifests[o].input.id = o
  /\ \A p \in Procs : ProcInv(p)

\* Committed sequences are 1, 2, ..., and the process between nextSequence and
\* publishManifest holds the next one.
Used == {manifests[o].seq : o \in Committed}
NumberInv ==
  \E k \in Nat :
    /\ Used = 1..k
    /\ \A p \in Procs : alive[p] /\ pc[p] \in {"validated", "publishing"} => seq[p] = k + 1

\* The facts about inputs the proofs use.
LEMMA InputFacts ==
  ASSUME NEW i \in Inputs
  PROVE  /\ i.id \in Ops /\ i # None
         /\ Shards \subseteq DOMAIN i.files /\ DOMAIN i.files \subseteq Names
         /\ \A n \in DOMAIN i.files : i.files[n] \in Bytes /\ i.files[n] \in Stored /\ i.files[n] # Absent
  BY LedgerAssumption DEF Stored

\* A staged name has one place in the published tree.
LEMMA TargetFacts ==
  ASSUME NEW n \in Names, NEW m \in Months, NEW o \in Ops
  PROVE  Target(n, m, o) \in Targets
  BY DEF Target, Targets, Names

\* Only publishShards writes the published tree, only publishManifest writes a
\* manifest, the commit uses the lock as the mutex it is, and few steps touch
\* staging.
StagingStep ==
  \/ \E p \in Procs : RemoveStaging(p) \/ Crash(p) \/ \E n \in Names : StageFile(p, n) \/ PublishFile(p, n)
  \/ (\E o \in Ops, n \in Names : CorruptStaged(o, n)) \/ DiscardFile

LEMMA Writers ==
  ASSUME [Next]_vars
  PROVE  /\ UNCHANGED files \/ \E p \in Procs, n \in Names : PublishFile(p, n)
         /\ UNCHANGED manifests \/ \E p \in Procs : PublishManifest(p)
         /\ UNCHANGED staging \/ StagingStep
         /\ [MutexNext]_mutexVars
<1> DEFINE Goal == /\ UNCHANGED files \/ \E p \in Procs, n \in Names : PublishFile(p, n)
                   /\ UNCHANGED manifests \/ \E p \in Procs : PublishManifest(p)
                   /\ UNCHANGED staging \/ StagingStep
                   /\ [MutexNext]_mutexVars
<1>1. ASSUME NEW p \in Procs, NEW n \in Names, PublishFile(p, n) PROVE Goal
  <2>1. UNCHANGED <<holder, alive, manifests>>
    BY <1>1 DEF PublishFile, disk
  <2> QED
    BY <1>1, <2>1 DEF mutexVars, StagingStep
<1>2. ASSUME NEW p \in Procs, PublishManifest(p) PROVE Goal
  <2>1. UNCHANGED <<holder, alive, staging, files>>
    BY <1>2 DEF PublishManifest
  <2> QED
    BY <1>2, <2>1 DEF mutexVars
<1>3. ASSUME NEW p \in Procs, Locked(p) \/ ReleaseLock(p) \/ Restart(p) PROVE Goal
  BY <1>3 DEF Locked, ReleaseLock, Restart, MutexNext, disk
<1>4. ASSUME NEW p \in Procs, Crash(p) PROVE Goal
  BY <1>4 DEF Crash, MutexNext, StagingStep
<1>5. ASSUME NEW p \in Procs,
             \/ LockUnavailable(p) \/ Recheck(p) \/ ReadBack(p) \/ Validate(p) \/ ListStaging(p)
             \/ \E i \in Inputs : Commit(p, i)
      PROVE  Goal
  BY <1>5 DEF LockUnavailable, Recheck, ReadBack, Validate, ListStaging, Commit, disk, mutexVars
<1>6. ASSUME NEW p \in Procs, RemoveStaging(p) \/ \E n \in Names : StageFile(p, n) PROVE Goal
  BY <1>6 DEF RemoveStaging, StageFile, StagingStep, mutexVars
<1>7. CASE (\E o \in Ops, n \in Names : CorruptStaged(o, n)) \/ DiscardFile
  BY <1>7 DEF CorruptStaged, DiscardFile, StagingStep, mutexVars
<1>8. CASE (\E o \in Ops : DiscardStaging(o)) \/ MoveBaseline \/ NextMonth \/ UNCHANGED vars
  BY <1>8 DEF DiscardStaging, MoveBaseline, NextMonth, vars, disk, mutexVars
<1> QED
  BY <1>1, <1>2, <1>3, <1>4, <1>5, <1>6, <1>7, <1>8 DEF Next, Step

\* Only a running commit takes the steps of commit(), and they leave the
\* environment alone.
LEMMA StepFacts ==
  ASSUME NEW p \in Procs, Step(p)
  PROVE  UNCHANGED env /\ alive[p] /\ pc[p] # "idle"
<1>1. ASSUME NEW n \in Names, StageFile(p, n) \/ PublishFile(p, n)
      PROVE  UNCHANGED env /\ alive[p] /\ pc[p] # "idle"
  BY <1>1 DEF StageFile, PublishFile, At
<1> QED
  BY <1>1 DEF Step, Locked, LockUnavailable, Recheck, ReadBack, Validate, ListStaging, PublishManifest,
              RemoveStaging, ReleaseLock, At

\* A step is one of the process itself or leaves what the process knows alone.
Untouched(q) ==
  /\ holder' = q <=> holder = q
  /\ alive'[q] = alive[q] /\ pc'[q] = pc[q] /\ job'[q] = job[q] /\ todo'[q] = todo[q]
  /\ seq'[q] = seq[q] /\ shardMonth'[q] = shardMonth[q] /\ result'[q] = result[q]

LEMMA Bystander ==
  ASSUME TypeOK, [Next]_vars, NEW q \in Procs
  PROVE  \/ Untouched(q)
         \/ Step(q) \/ Crash(q) \/ Restart(q) \/ \E i \in Inputs : Commit(q, i)
<1>0. /\ DOMAIN pc = Procs /\ DOMAIN job = Procs /\ DOMAIN todo = Procs /\ DOMAIN seq = Procs
      /\ DOMAIN shardMonth = Procs /\ DOMAIN alive = Procs /\ DOMAIN result = Procs
  BY DEF TypeOK, MutexTypeOK
<1>1. ASSUME NEW p \in Procs \ {q},
             Locked(p) \/ LockUnavailable(p) \/ Recheck(p) \/ ReadBack(p) \/ Validate(p) \/ ListStaging(p)
      PROVE  Untouched(q)
  BY <1>0, <1>1, NoProcAssumption
  DEF Locked, MutexAcquire, LockUnavailable, Recheck, ReadBack, Validate, ListStaging, Goto, Outcome, Untouched
<1>2. ASSUME NEW p \in Procs \ {q},
             \/ PublishManifest(p) \/ RemoveStaging(p) \/ ReleaseLock(p)
             \/ \E n \in Names : StageFile(p, n) \/ PublishFile(p, n)
      PROVE  Untouched(q)
  BY <1>0, <1>2, NoProcAssumption
  DEF PublishManifest, RemoveStaging, ReleaseLock, MutexRelease, StageFile, PublishFile, Goto, Outcome, Untouched
<1>3. ASSUME NEW p \in Procs \ {q}, Crash(p) \/ Restart(p) \/ \E i \in Inputs : Commit(p, i)
      PROVE  Untouched(q)
  BY <1>0, <1>3, NoProcAssumption
  DEF Crash, MutexCrash, Restart, MutexRestart, Commit, Goto, Outcome, Untouched
<1>4. CASE UNCHANGED <<holder, alive, pc, job, todo, seq, shardMonth, result>>
  BY <1>4 DEF Untouched
<1> QED
  BY <1>1, <1>2, <1>3, <1>4
  DEF Next, Step, DiscardStaging, CorruptStaged, DiscardFile, MoveBaseline, NextMonth, vars

\* How a process comes to hold a staged transaction: it read it back, validated
\* it, listed it, is publishing it, or had it.
LEMMA Progress ==
  ASSUME TypeOK, [Next]_vars, NEW q \in Procs,
         alive'[q], pc'[q] \in {"staged", "validated", "publishing"}
  PROVE  \/ Untouched(q)
         \/ ReadBack(q) \/ Validate(q) \/ ListStaging(q) \/ \E n \in Names : PublishFile(q, n)
<1>0. DOMAIN pc = Procs /\ DOMAIN alive = Procs
  BY DEF TypeOK, MutexTypeOK
<1>1. ~(Locked(q) \/ LockUnavailable(q) \/ Recheck(q) \/ PublishManifest(q) \/ RemoveStaging(q))
  BY <1>0 DEF Locked, LockUnavailable, Recheck, PublishManifest, RemoveStaging, Goto
<1>2. ~(ReleaseLock(q) \/ Crash(q) \/ Restart(q) \/ \E n \in Names : StageFile(q, n))
  BY <1>0 DEF ReleaseLock, Crash, MutexCrash, Restart, StageFile, At, Goto
<1>3. ASSUME NEW i \in Inputs, Commit(q, i) PROVE FALSE
  BY <1>0, <1>3 DEF Commit, At, Goto
<1> QED
  BY <1>1, <1>2, <1>3, Bystander DEF Step

\* The initial state is typed.
LEMMA InitType == Init => TypeOK
<1> SUFFICES ASSUME Init PROVE TypeOK
  OBVIOUS
<1>1. MutexTypeOK
  <2>1. alive \in [Procs -> BOOLEAN]
    BY Zenon DEF Init, MutexInit
  <2> QED
    BY <2>1 DEF Init, MutexInit, MutexTypeOK
<1> QED
  BY <1>1, LedgerAssumption DEF Init, TypeOK, NoFiles, Stored, Places, Outcomes, Months

\* nextSequence is the first number not in use.
LEMMA SequenceFacts ==
  ASSUME NEW k \in Nat, Used = 1..k
  PROVE  NextSequence = k + 1
<1> DEFINE used == Used \cup {0}
<1>1. k \in used /\ \A t \in used : t \in Nat /\ t <= k
  OBVIOUS
<1>2. \A s \in used : (\A t \in used : t <= s) => s = k
  BY <1>1
<1>3. (CHOOSE s \in used : \A t \in used : t <= s) = k
  <2> HIDE DEF used
  <2> QED
    BY <1>1, <1>2, Zenon
<1>4. NextSequence = 1 + CHOOSE s \in used : \A t \in used : t <= s
  BY Zenon DEF NextSequence, Used
<1>5. NextSequence = 1 + k
  BY <1>3, <1>4, Zenon
<1> QED
  BY <1>5

\* Every step keeps the types, given that a running commit has a job.
LEMMA NextType ==
  ASSUME CommitInv, NumberInv, [Next]_vars
  PROVE  TypeOK'
<1>1. TypeOK
  BY DEF CommitInv
<1>2. ASSUME NEW p \in Procs, alive[p], pc[p] # "idle"
      PROVE  job[p] \in Inputs /\ Id(p) \in Ops
  BY <1>2, InputFacts DEF CommitInv, ProcInv, TypeOK, Id
<1>3. MutexTypeOK'
  BY <1>1, Writers, Zenon DEF TypeOK, MutexTypeOK, MutexNext, mutexVars, MutexAcquire, MutexRelease,
                       MutexCrash, MutexRestart
<1>4. files' \in [Targets -> Stored]
  <2>1. ASSUME NEW p \in Procs, NEW n \in Names, PublishFile(p, n)
        PROVE  files' \in [Targets -> Stored]
    <3>1. Id(p) \in Ops /\ shardMonth[p] \in Months
      BY <1>1, <1>2, <2>1 DEF PublishFile, At, TypeOK
    <3>2. staging[Id(p)][n] \in Stored /\ Target(n, shardMonth[p], Id(p)) \in Targets
      BY <1>1, <3>1, TargetFacts DEF TypeOK
    <3> QED
      BY <1>1, <2>1, <3>2 DEF PublishFile, disk, TypeOK
  <2> QED
    BY <1>1, <2>1, Writers DEF TypeOK
<1>5. manifests' \in [Ops -> {None} \cup Manifests]
  <2>1. ASSUME NEW p \in Procs, PublishManifest(p)
        PROVE  manifests' \in [Ops -> {None} \cup Manifests]
    <3>1. job[p] \in Inputs /\ Id(p) \in Ops /\ shardMonth[p] \in Months
      BY <1>1, <1>2, <2>1 DEF PublishManifest, At, TypeOK
    <3>2. seq[p] \in Nat \ {0}
      BY <2>1 DEF PublishManifest, At, NumberInv
    <3>3. [input |-> job[p], seq |-> seq[p], month |-> shardMonth[p]] \in Manifests
      BY <3>1, <3>2 DEF Manifests
    <3> QED
      BY <1>1, <2>1, <3>1, <3>3 DEF PublishManifest, TypeOK, Manifests
  <2> QED
    BY <1>1, <2>1, Writers DEF TypeOK, Manifests
<1>6. staging' \in [Ops -> [Names -> Stored]]
  <2>1. ASSUME NEW o \in Ops, NEW n \in Names, NEW b \in Stored
        PROVE  [staging EXCEPT ![o][n] = b] \in [Ops -> [Names -> Stored]]
    BY <1>1 DEF TypeOK
  <2>2. NoFiles \in [Names -> Stored] /\ Absent \in Stored /\ Torn \in Stored
    BY DEF NoFiles, Stored
  <2>3. ASSUME NEW p \in Procs, NEW n \in Names, StageFile(p, n) \/ PublishFile(p, n)
        PROVE  staging' \in [Ops -> [Names -> Stored]]
    <3>1. job[p] \in Inputs /\ Id(p) \in Ops
      BY <1>2, <2>3 DEF StageFile, PublishFile, At
    <3>2. CASE StageFile(p, n)
      <4>1. todo[p] \subseteq DOMAIN job[p].files
        BY <2>3, <3>2 DEF CommitInv, ProcInv, StageFile
      <4> QED
        BY <2>1, <3>1, <3>2, <4>1, InputFacts DEF StageFile
    <3>3. CASE PublishFile(p, n)
      <4>1. UNCHANGED staging \/ staging' = [staging EXCEPT ![Id(p)][n] = Absent]
        BY <3>3 DEF PublishFile, disk
      <4>2. [staging EXCEPT ![Id(p)][n] = Absent] \in [Ops -> [Names -> Stored]]
        BY <2>1, <2>2, <3>1
      <4> QED
        BY <1>1, <4>1, <4>2, Zenon DEF TypeOK
    <3> QED
      BY <2>3, <3>2, <3>3
  <2>4. ASSUME NEW p \in Procs, RemoveStaging(p)
        PROVE  staging' \in [Ops -> [Names -> Stored]]
    BY <1>1, <2>2, <2>4, Zenon DEF RemoveStaging, TypeOK
  <2>5. ASSUME NEW p \in Procs, Crash(p)
        PROVE  staging' \in [Ops -> [Names -> Stored]]
    <3>1. todo[p] \subseteq Names /\ Id(p) \in Ops
      BY <1>1, <1>2, <2>5 DEF Crash, MutexCrash, TypeOK
    <3>2. ASSUME NEW n \in todo[p] PROVE [staging EXCEPT ![Id(p)][n] = Torn] \in [Ops -> [Names -> Stored]]
      BY <2>1, <2>2, <3>1
    <3> QED
      BY <1>1, <2>5, <3>2, Zenon DEF Crash, TypeOK
  <2>6. CASE (\E o \in Ops, n \in Names : CorruptStaged(o, n)) \/ DiscardFile
    <3>1. \/ \E o \in Ops, n \in Names : staging' = [staging EXCEPT ![o][n] = Torn]
          \/ UNCHANGED staging
          \/ /\ discarding \in Ops
             /\ \E n \in Names : staging' = [staging EXCEPT ![discarding][n] = Absent]
      BY <1>1, <2>6, Zenon DEF CorruptStaged, DiscardFile, TypeOK
    <3> DEFINE Staged == [Ops -> [Names -> Stored]]
    <3>2. \A o \in Ops, n \in Names :
            [staging EXCEPT ![o][n] = Torn] \in Staged /\ [staging EXCEPT ![o][n] = Absent] \in Staged
      BY <2>1, <2>2
    <3>3. staging \in Staged
      BY <1>1 DEF TypeOK
    <3>4. staging' \in Staged
      <4> HIDE DEF Staged
      <4> QED
        BY <3>1, <3>2, <3>3, Zenon
    <3> QED
      BY <3>4
  <2>7. CASE UNCHANGED staging
    BY <1>1, <2>7, Zenon DEF TypeOK
  <2> QED
    BY <2>3, <2>4, <2>5, <2>6, <2>7, Writers, Zenon DEF StagingStep
<1>7. LocalType'
  <2>0. LocalType /\ month \in Months
    BY <1>1 DEF TypeOK, LocalType
  <2> USE <2>0 DEF LocalType, Places, Outcomes, At, Goto, Outcome, disk, env
  <2>1. ASSUME NEW p \in Procs, Recheck(p) PROVE LocalType'
    <3>1. DOMAIN job[p].files \subseteq Names
      BY <1>2, <2>1, InputFacts DEF Recheck
    <3> QED
      BY <2>1, <3>1 DEF Recheck, ResolveRetry
  <2>2. ASSUME NEW p \in Procs, Validate(p) PROVE LocalType'
    <3>1. NextSequence \in Nat
      <4>1. PICK k \in Nat : Used = 1..k
        BY DEF NumberInv
      <4>2. NextSequence = k + 1
        BY <4>1, SequenceFacts
      <4> QED
        BY <4>2
    <3> QED
      BY <2>2, <3>1 DEF Validate
  <2>3. ASSUME NEW p \in Procs, NEW i \in Inputs, Commit(p, i) PROVE LocalType'
    BY <2>3 DEF Commit, ResolveRetry
  <2>4. ASSUME NEW p \in Procs, NEW n \in Names, StageFile(p, n) \/ PublishFile(p, n)
        PROVE  LocalType'
    BY <2>4 DEF StageFile, PublishFile
  <2>5. ASSUME NEW p \in Procs,
               Locked(p) \/ LockUnavailable(p) \/ ReadBack(p) \/ ListStaging(p) \/ PublishManifest(p)
        PROVE  LocalType'
    <3>1. CASE Locked(p)
      BY <3>1 DEF Locked
    <3>2. CASE LockUnavailable(p)
      BY <3>2 DEF LockUnavailable
    <3>3. CASE PublishManifest(p)
      BY <3>3 DEF PublishManifest
    <3>4. CASE ReadBack(p)
      BY <3>4 DEF ReadBack
    <3>5. CASE ListStaging(p)
      BY <3>5 DEF ListStaging
    <3> QED
      BY <2>5, <3>1, <3>2, <3>3, <3>4, <3>5
  <2>6. ASSUME NEW p \in Procs, RemoveStaging(p) \/ ReleaseLock(p) \/ Crash(p) \/ Restart(p)
        PROVE  LocalType'
    <3>1. CASE RemoveStaging(p) \/ ReleaseLock(p)
      BY <3>1 DEF RemoveStaging, ReleaseLock
    <3>2. CASE Crash(p) \/ Restart(p)
      BY <3>2 DEF Crash, Restart
    <3> QED
      BY <2>6, <3>1, <3>2
  <2>7. CASE UNCHANGED <<pc, job, todo, seq, shardMonth, result>>
    BY <2>7
  <2> QED
    BY <2>1, <2>2, <2>3, <2>4, <2>5, <2>6, <2>7, Zenon
    DEF Next, Step, DiscardStaging, CorruptStaged, DiscardFile, MoveBaseline, NextMonth, vars
<1>8. baseline' \in Baselines /\ month' \in Months /\ discarding' \in Ops \cup {None}
      /\ faults' \in Nat /\ submits' \in Nat
  <2>0. baseline \in Baselines /\ month \in Months /\ discarding \in Ops \cup {None}
        /\ faults \in Nat /\ submits \in Nat /\ MaxMonth \in Nat
    BY <1>1, LedgerAssumption DEF TypeOK
  <2> USE <2>0 DEF Months
  <2>2. CASE (\E p \in Procs : Step(p) \/ Restart(p)) \/ UNCHANGED vars
    BY <2>2, StepFacts DEF Restart, env, vars
  <2>3. CASE (\E p \in Procs : Crash(p)) \/ \E p \in Procs, i \in Inputs : Commit(p, i)
    BY <2>3 DEF Crash, Commit
  <2>4. CASE \E o \in Ops : DiscardStaging(o) \/ \E n \in Names : CorruptStaged(o, n)
    BY <2>4 DEF DiscardStaging, CorruptStaged
  <2>5. CASE DiscardFile \/ MoveBaseline \/ NextMonth
    BY <2>5 DEF DiscardFile, MoveBaseline, NextMonth
  <2> QED
    BY <2>2, <2>3, <2>4, <2>5 DEF Next
<1> QED
  BY <1>3, <1>4, <1>5, <1>6, <1>7, <1>8 DEF TypeOK, LocalType, Manifests
=============================================================================
