---------------------------- MODULE LedgerProofs ----------------------------
(***************************************************************************)
(* Ledger for any number of processes, operations and contents: a commit is *)
(* acknowledged only when it is durable, nothing published is overwritten, the *)
(* files implement LedgerLog and, when discardStaging keeps out of running *)
(* commits, every committed operation can be replayed.                     *)
(***************************************************************************)
EXTENDS LedgerInvariant

\* publishManifest adds one manifest, under an id that had none.
LEMMA ManifestWritten ==
  ASSUME CommitInv, NEW p \in Procs, PublishManifest(p)
  PROVE  /\ job[p] \in Inputs /\ holder = p /\ Id(p) \in Ops \ Committed
         /\ manifests'[Id(p)].input = job[p] /\ manifests'[Id(p)].seq = seq[p]
         /\ manifests'[Id(p)].month = shardMonth[p]
         /\ Committed' = Committed \cup {Id(p)}
         /\ \A o \in Committed : manifests'[o] = manifests[o]
<1>0. DOMAIN manifests = Ops /\ seq[p] \in Nat /\ shardMonth[p] \in Nat /\ job[p] \in Inputs \cup {None}
  BY DEF CommitInv, TypeOK, Months
<1>1. job[p] \in Inputs /\ Id(p) \in Ops /\ Id(p) \notin Committed /\ holder = p
  BY <1>0, InputFacts DEF CommitInv, ProcInv, PublishManifest, At, Id
<1>2. manifests'[Id(p)] = [input |-> job[p], seq |-> seq[p], month |-> shardMonth[p]]
  BY <1>0, <1>1 DEF PublishManifest
<1>3. \A o \in Ops \ {Id(p)} : manifests'[o] = manifests[o]
  BY <1>0, <1>1 DEF PublishManifest
<1>4. manifests'[Id(p)] # None
  BY <1>0, <1>1, <1>2, LedgerAssumption
<1>5. Committed' = Committed \cup {Id(p)} /\ \A o \in Committed : manifests'[o] = manifests[o]
  BY <1>1, <1>3, <1>4 DEF Committed
<1>6. /\ manifests'[Id(p)].input = job[p] /\ manifests'[Id(p)].seq = seq[p]
      /\ manifests'[Id(p)].month = shardMonth[p]
  BY <1>2
<1> QED
  BY <1>1, <1>5, <1>6

\* Every step of commit, crash, restart and discard preserves CommitInv: of the
\* process that takes it, and of those whose manifest or lock it could concern.
LEMMA NextCommitInv ==
  ASSUME CommitInv, NumberInv, [Next]_vars
  PROVE  CommitInv'
<1>1. TypeOK /\ TypeOK'
  BY NextType DEF CommitInv
<1>2. \A o \in Committed' : manifests'[o].input.id = o
  <2>1. CASE UNCHANGED manifests
    BY <2>1 DEF CommitInv, Committed
  <2>2. ASSUME NEW p \in Procs, PublishManifest(p) PROVE \A o \in Committed' : manifests'[o].input.id = o
    <3>1. /\ manifests'[Id(p)].input = job[p] /\ Committed' = Committed \cup {Id(p)}
          /\ \A o \in Committed : manifests'[o] = manifests[o]
      BY <2>2, ManifestWritten, Zenon
    <3> QED
      BY <3>1, Zenon DEF CommitInv, Id
  <2> QED
    BY <2>1, <2>2, Writers
<1>3. ASSUME NEW q \in Procs PROVE ProcInv(q)'
  <2>0. /\ ProcInv(q) /\ job[q] \in Inputs \cup {None}
        /\ pc \in [Procs -> Places] /\ DOMAIN job = Procs /\ DOMAIN todo = Procs
        /\ DOMAIN result = Procs /\ alive \in [Procs -> BOOLEAN]
    BY <1>1 DEF CommitInv, TypeOK, MutexTypeOK
  <2>1. CASE Untouched(q)
    <3>1. CASE UNCHANGED manifests
      <4>1. Committed' = Committed
        BY <3>1 DEF Committed
      <4> QED
        BY <2>0, <2>1, <3>1, <4>1, Zenon DEF ProcInv, Untouched, Id, At
    <3>2. ASSUME NEW p \in Procs, PublishManifest(p) PROVE ProcInv(q)'
      <4>1. /\ holder = p /\ Committed' = Committed \cup {Id(p)}
            /\ \A o \in Committed : manifests'[o] = manifests[o]
        BY <3>2, ManifestWritten, Zenon
      <4>2. p # q
        BY <2>0, <2>1, <3>2 DEF PublishManifest, Goto, At, Untouched
      <4> QED
        BY <2>0, <2>1, <4>1, <4>2 DEF ProcInv, Untouched, Id, At
    <3> QED
      BY <3>1, <3>2, Writers
  <2> USE <2>0 DEF ProcInv, At, Goto, Outcome, Id, Acknowledged
  <2>2. CASE Locked(q) \/ LockUnavailable(q)
    BY <2>2, NoProcAssumption DEF Locked, MutexAcquire, LockUnavailable, disk, Committed
  <2>3. CASE Recheck(q)
    BY <2>3, InputFacts DEF Recheck, ResolveRetry, disk, Committed
  <2>4. CASE ReadBack(q)
    BY <2>4 DEF ReadBack, disk, Committed
  <2>10. CASE Validate(q) \/ ListStaging(q)
    BY <2>10 DEF Validate, ListStaging, disk, Committed
  <2>5. CASE PublishManifest(q)
    <3>1. /\ holder = q /\ Id(q) \in Committed' /\ manifests'[Id(q)].input = job[q]
          /\ \A o \in Committed : o \in Committed' /\ manifests'[o] = manifests[o]
      BY <2>5, ManifestWritten, Zenon
    <3> QED
      BY <2>5, <3>1 DEF PublishManifest
  <2>6. CASE RemoveStaging(q) \/ ReleaseLock(q)
    BY <2>6, NoProcAssumption DEF RemoveStaging, ReleaseLock, MutexRelease, disk, Committed
  <2>7. CASE Crash(q) \/ Restart(q)
    BY <2>7, NoProcAssumption DEF Crash, MutexCrash, Restart, MutexRestart
  <2>8. ASSUME NEW i \in Inputs, Commit(q, i) PROVE ProcInv(q)'
    BY <2>8, InputFacts DEF Commit, ResolveRetry, disk, Committed
  <2>9. ASSUME NEW n \in Names, StageFile(q, n) \/ PublishFile(q, n) PROVE ProcInv(q)'
    BY <2>9 DEF StageFile, PublishFile, disk, Committed
  <2> HIDE DEF ProcInv
  <2> QED
    BY <1>1, <2>1, <2>2, <2>3, <2>4, <2>5, <2>6, <2>7, <2>8, <2>9, <2>10, Bystander DEF Step
<1> QED
  BY <1>1, <1>2, <1>3 DEF CommitInv

\* publishManifest appends one whole transaction, numbered one more than there
\* were, under an id that had none.
LEMMA ManifestAppends ==
  ASSUME CommitInv, NEW p \in Procs, PublishManifest(p)
  PROVE  /\ job[p] \in Inputs
         /\ Used' = Used \cup {seq[p]}
         /\ log' = log \cup {[seq |-> seq[p], input |-> job[p]]}
         /\ \A entry \in log : entry.input.id # job[p].id
<1>1. /\ job[p] \in Inputs /\ Id(p) \notin Committed /\ Committed' = Committed \cup {Id(p)}
      /\ manifests'[Id(p)].seq = seq[p] /\ manifests'[Id(p)].input = job[p]
      /\ \A o \in Committed : manifests'[o] = manifests[o]
  BY ManifestWritten, Zenon
<1>2. log' = {[seq |-> manifests'[o].seq, input |-> manifests'[o].input] : o \in Committed'}
  BY DEF log
<1>3. log' = log \cup {[seq |-> seq[p], input |-> job[p]]}
  BY <1>1, <1>2 DEF log
<1>4. \A entry \in log : entry.input.id # job[p].id
  BY <1>1 DEF log, CommitInv, Id
<1>5. Used' = Used \cup {seq[p]}
  BY <1>1 DEF Used
<1> QED
  BY <1>1, <1>3, <1>4, <1>5

\* Sequences stay dense and the next one stays reserved for the lock's holder.
LEMMA NextNumberInv ==
  ASSUME CommitInv, NumberInv, [Next]_vars
  PROVE  NumberInv'
<1> DEFINE Numbering(q) == alive[q] /\ pc[q] \in {"validated", "publishing"}
<1>1. PICK k \in Nat : Used = 1..k /\ \A q \in Procs : Numbering(q) => seq[q] = k + 1
  BY DEF NumberInv
<1>2. ASSUME NEW p \in Procs, PublishManifest(p) PROVE NumberInv'
  <2>1. seq[p] = k + 1 /\ Used' = Used \cup {seq[p]}
    BY <1>1, <1>2, ManifestAppends, Zenon DEF PublishManifest, At
  <2>2. Used' = 1..(k + 1) /\ k + 1 \in Nat
    BY <1>1, <2>1
  <2>3. \A q \in Procs : ~Numbering(q)'
    <3>1. pc \in [Procs -> Places] /\ \A q \in Procs : Numbering(q) => holder = q
      BY DEF CommitInv, ProcInv, TypeOK
    <3>2. UNCHANGED alive /\ pc' = [pc EXCEPT ![p] = "published"] /\ Numbering(p)
      BY <1>2 DEF PublishManifest, Goto, At
    <3> QED
      BY <3>1, <3>2
  <2> QED
    BY <2>2, <2>3 DEF NumberInv
<1>3. ASSUME UNCHANGED manifests, \A q \in Procs : Numbering(q)' => seq'[q] = k + 1 PROVE NumberInv'
  <2>1. Used' = Used
    BY <1>3 DEF Used, Committed
  <2> QED
    BY <1>1, <1>3, <2>1 DEF NumberInv
<1>4. ASSUME NEW q \in Procs, Numbering(q)' PROVE seq'[q] = k + 1 \/ \E p \in Procs : PublishManifest(p)
  <2>1. NextSequence = k + 1
    BY <1>1, SequenceFacts
  <2>2. seq \in [Procs -> Nat] /\ pc \in [Procs -> Places] /\ TypeOK
    BY DEF CommitInv, TypeOK
  <2>3. CASE Untouched(q)
    BY <1>1, <1>4, <2>3 DEF Untouched
  <2>4. CASE ReadBack(q) \/ Validate(q) \/ ListStaging(q)
    BY <1>1, <1>4, <2>1, <2>2, <2>4 DEF ReadBack, Validate, ListStaging, At, Goto
  <2>5. ASSUME NEW n \in Names, PublishFile(q, n) PROVE seq'[q] = k + 1
    BY <1>1, <2>5 DEF PublishFile, At
  <2> QED
    BY <1>4, <2>2, <2>3, <2>4, <2>5, Progress
<1> QED
  BY <1>2, <1>3, <1>4, Writers

\* publishShards refuses to write other bytes over a published file.
LEMMA PublishedKept ==
  ASSUME CommitInv, [Next]_vars, NEW t \in Targets, files[t] # Absent
  PROVE  files'[t] = files[t]
<1>1. ASSUME NEW p \in Procs, NEW n \in Names, PublishFile(p, n) PROVE files'[t] = files[t]
  BY <1>1 DEF PublishFile, disk, CommitInv, TypeOK
<1> QED
  BY <1>1, Writers

\* A published file of a transaction keeps its bytes.
LEMMA ContentKept ==
  ASSUME CommitInv, [Next]_vars, NEW i \in Inputs, NEW n \in DOMAIN i.files, NEW m \in Months,
         files[Target(n, m, i.id)] = i.files[n]
  PROVE  files'[Target(n, m, i.id)] = i.files[n]
<1>1. n \in Names /\ i.id \in Ops /\ i.files[n] # Absent
  BY InputFacts
<1>2. Target(n, m, i.id) \in Targets
  BY <1>1, TargetFacts
<1> QED
  BY <1>1, <1>2, PublishedKept

\* The invariants hold before the first commit.
LEMMA InitInv == Init => CommitInv /\ NumberInv
<1> SUFFICES ASSUME Init PROVE CommitInv /\ NumberInv
  OBVIOUS
<1>1. Committed = {} /\ log = {}
  BY DEF Init, Committed, log
<1>2. \A p \in Procs : pc[p] = "idle" /\ result[p] = "none" /\ holder # p
  BY NoProcAssumption DEF Init, MutexInit
<1>3. CommitInv
  BY <1>1, <1>2, InitType DEF CommitInv, ProcInv, At, Acknowledged
<1>4. NumberInv
  <2>1. Used = 1..0
    BY <1>1 DEF Used
  <2> QED
    BY <1>2, <2>1 DEF NumberInv
<1> QED
  BY <1>3, <1>4

\* CommitInv and NumberInv are invariants of every execution, concurrent
\* discards included.
THEOREM CommitInvariant == Spec => [](CommitInv /\ NumberInv)
<1>1. CommitInv /\ NumberInv /\ [Next]_vars => (CommitInv /\ NumberInv)'
  BY NextCommitInv, NextNumberInv
<1>2. Init => CommitInv /\ NumberInv
  BY InitInv
<1> QED
  BY <1>1, <1>2, PTL DEF Spec

\* What commit() acknowledges as committed or already_committed is in the
\* ledger with the caller's own content, whoever crashed, retried or discarded.
THEOREM AcknowledgedDurable == Spec => []AcknowledgedIsDurable
<1>1. CommitInv => AcknowledgedIsDurable
  BY DEF CommitInv, ProcInv, AcknowledgedIsDurable, Acknowledged
<1> QED
  BY <1>1, CommitInvariant, PTL

\* No step changes a published byte: publishShards moves a staged file only
\* to a free target or over the same bytes.
THEOREM LedgerAppendOnly == Spec => AppendOnly
<1>1. CommitInv /\ [Next]_vars =>
        [\A t \in Targets : files[t] # Absent => files'[t] = files[t]]_vars
  BY PublishedKept
<1> QED
  BY <1>1, CommitInvariant, PTL DEF Spec, AppendOnly

\* The file protocol implements LedgerLog: the manifests form a log that grows
\* by one whole transaction at a time, numbered without fork or gap.
THEOREM LedgerImplementsLog == Spec => ImplementsLog
<1>1. Init => Log!LogInit
  BY DEF Init, Log!LogInit, log, Committed
<1>2. CommitInv /\ NumberInv /\ [Next]_vars => [Log!LogNext]_log
  <2> SUFFICES ASSUME CommitInv, NumberInv, [Next]_vars PROVE [Log!LogNext]_log
    OBVIOUS
  <2>1. CASE UNCHANGED manifests
    BY <2>1 DEF log, Committed
  <2>2. ASSUME NEW p \in Procs, PublishManifest(p) PROVE Log!LogNext
    <3>1. PICK k \in Nat : Used = 1..k /\ seq[p] = k + 1
      BY <2>2 DEF NumberInv, PublishManifest, At
    <3>2. Log!Sequences = Used
      <4>1. ASSUME NEW o \in Committed PROVE \E entry \in log : manifests[o].seq = entry.seq
        <5> DEFINE e == [seq |-> manifests[o].seq, input |-> manifests[o].input]
        <5>1. e \in log
          BY Zenon DEF log
        <5>2. e.seq = manifests[o].seq
          OBVIOUS
        <5> HIDE DEF e, log
        <5> QED
          BY <5>1, <5>2
      <4>2. ASSUME NEW entry \in log PROVE \E o \in Committed : entry.seq = manifests[o].seq
        BY DEF log
      <4> HIDE DEF log
      <4> QED
        BY <4>1, <4>2 DEF Log!Sequences, Used
    <3>3. k \in Log!Sequences \cup {0}
      BY <3>1, <3>2
    <3>4. Log!AppendOperation(job[p])
      BY <2>2, <3>1, <3>2, <3>3, ManifestAppends, Zenon DEF Log!AppendOperation
    <3> QED
      BY <2>2, <3>4, ManifestAppends, Zenon DEF Log!LogNext
  <2> QED
    BY <2>1, <2>2, Writers
<1> QED
  BY <1>1, <1>2, CommitInvariant, PTL DEF Spec, ImplementsLog, Log!LogSpec

-----------------------------------------------------------------------------
\* No staged file of a running commit disappears, so that what publishShards
\* lists, and then no longer has to move, covers the transaction.
ReplayInv ==
  /\ discarding # None => \A p \in Procs : ~(alive[p] /\ pc[p] # "idle")
  /\ \A p \in Procs :
       alive[p] /\ pc[p] \in {"staged", "validated"} =>
         \A n \in DOMAIN job[p].files : staging[Id(p)][n] # Absent
  /\ \A p \in Procs :
       At(p, "publishing") =>
         \A n \in DOMAIN job[p].files \ todo[p] :
           files[Target(n, shardMonth[p], Id(p))] = job[p].files[n]
  /\ CommittedOperationsReplay

\* When discardStaging keeps out of running commits, every step preserves
\* ReplayInv.
LEMMA NextReplayInv ==
  ASSUME ConcurrentDiscard = FALSE, CommitInv, NumberInv, ReplayInv, [Next]_vars
  PROVE  ReplayInv'
<1>1. TypeOK /\ TypeOK' /\ CommitInv'
  BY NextType, NextCommitInv DEF CommitInv
<1>2. ASSUME NEW p \in Procs, alive[p], pc[p] # "idle"
      PROVE  job[p] \in Inputs /\ Id(p) \in Ops /\ shardMonth[p] \in Months
  BY <1>2, InputFacts DEF CommitInv, ProcInv, TypeOK, Id
<1>0. /\ DOMAIN pc = Procs /\ DOMAIN job = Procs /\ DOMAIN todo = Procs
      /\ DOMAIN shardMonth = Procs /\ DOMAIN files = Targets /\ alive \in [Procs -> BOOLEAN]
  BY <1>1 DEF TypeOK, MutexTypeOK
<1>3. CommittedOperationsReplay'
  <2>1. CASE UNCHANGED manifests
    <3> SUFFICES ASSUME NEW o \in Committed, NEW n \in DOMAIN manifests[o].input.files
                 PROVE  files'[Target(n, manifests[o].month, o)] = manifests[o].input.files[n]
      BY <2>1 DEF CommittedOperationsReplay, Committed
    <3>1. manifests[o].input \in Inputs /\ manifests[o].month \in Months
          /\ manifests[o].input.id = o
      BY <1>1 DEF CommitInv, TypeOK, Committed
    <3>2. files[Target(n, manifests[o].month, o)] = manifests[o].input.files[n]
      BY DEF ReplayInv, CommittedOperationsReplay
    <3> QED
      BY <3>1, <3>2, ContentKept
  <2>2. ASSUME NEW p \in Procs, PublishManifest(p) PROVE CommittedOperationsReplay'
    <3>1. UNCHANGED files /\ alive[p] /\ pc[p] = "publishing" /\ todo[p] = {}
      BY <2>2 DEF PublishManifest, At
    <3>2. /\ Committed' = Committed \cup {Id(p)}
          /\ \A o \in Committed : manifests'[o] = manifests[o]
          /\ manifests'[Id(p)].input = job[p] /\ manifests'[Id(p)].month = shardMonth[p]
      BY <2>2, ManifestWritten, Zenon
    <3>4. \A n \in DOMAIN job[p].files : files[Target(n, shardMonth[p], Id(p))] = job[p].files[n]
      BY <3>1 DEF ReplayInv, At
    <3>5. ASSUME NEW o \in Committed', NEW n \in DOMAIN manifests'[o].input.files
          PROVE  files'[Target(n, manifests'[o].month, o)] = manifests'[o].input.files[n]
      <4>1. CASE o = Id(p)
        BY <3>1, <3>2, <3>4, <4>1
      <4>2. CASE o \in Committed
        BY <3>1, <3>2, <4>2 DEF ReplayInv, CommittedOperationsReplay
      <4> QED
        BY <3>2, <4>1, <4>2
    <3> QED
      BY <3>5 DEF CommittedOperationsReplay
  <2> QED
    BY <2>1, <2>2, Writers
<1>4. discarding' # None => \A q \in Procs : ~(alive'[q] /\ pc'[q] # "idle")
  <2>0. discarding # None => \A q \in Procs : ~(alive[q] /\ pc[q] # "idle")
    BY DEF ReplayInv
  <2> USE <1>0, <2>0 DEF At, Goto, env
  <2>1. ASSUME NEW p \in Procs, Step(p) PROVE discarding' = None
    BY <2>1, StepFacts
  <2>2. ASSUME NEW p \in Procs, NEW i \in Inputs, Commit(p, i) PROVE discarding' = None
    BY <2>2 DEF Commit
  <2>3. ASSUME NEW p \in Procs, Crash(p) \/ Restart(p)
        PROVE  UNCHANGED discarding /\ \A q \in Procs : alive'[q] /\ pc'[q] # "idle" => alive[q] /\ pc[q] # "idle"
    BY <2>3 DEF Crash, MutexCrash, Restart, MutexRestart
  <2>4. ASSUME NEW o \in Ops, DiscardStaging(o) \/ \E n \in Names : CorruptStaged(o, n)
        PROVE  discarding' # None => \A q \in Procs : ~(alive'[q] /\ pc'[q] # "idle")
    BY <2>4 DEF DiscardStaging, CorruptStaged
  <2>5. CASE DiscardFile \/ MoveBaseline \/ NextMonth \/ UNCHANGED vars
    BY <2>5 DEF DiscardFile, MoveBaseline, NextMonth, vars
  <2> QED
    BY <2>1, <2>2, <2>3, <2>4, <2>5 DEF Next
<1>5. ASSUME NEW q \in Procs, At(q, "publishing")'
      PROVE  \A n \in DOMAIN job'[q].files \ todo'[q] :
               files'[Target(n, shardMonth'[q], Id(q)')] = job'[q].files[n]
  <2>1. CASE At(q, "publishing") /\ job'[q] = job[q] /\ shardMonth'[q] = shardMonth[q] /\ todo'[q] = todo[q]
    <3>1. job[q] \in Inputs /\ shardMonth[q] \in Months
      BY <1>2, <2>1 DEF At
    <3>2. ASSUME NEW n \in DOMAIN job[q].files \ todo[q]
          PROVE  files'[Target(n, shardMonth[q], job[q].id)] = job[q].files[n]
      BY <2>1, <3>1, ContentKept DEF ReplayInv, Id
    <3> QED
      BY <2>1, <3>2 DEF Id
  <2>2. CASE ListStaging(q)
    <3>1. /\ alive[q] /\ pc[q] = "validated" /\ UNCHANGED job
          /\ todo'[q] = {n \in Names : staging[Id(q)][n] # Absent}
      BY <1>1, <2>2 DEF ListStaging, At, TypeOK
    <3>2. DOMAIN job[q].files \subseteq Names
      BY <1>2, <3>1, InputFacts
    <3> QED
      BY <3>1, <3>2 DEF ReplayInv
  <2>3. ASSUME NEW n \in Names, PublishFile(q, n)
        PROVE  \A k \in DOMAIN job'[q].files \ todo'[q] :
                 files'[Target(k, shardMonth'[q], Id(q)')] = job'[q].files[k]
    <3>1. /\ At(q, "publishing") /\ UNCHANGED <<job, shardMonth>>
      BY <2>3 DEF PublishFile
    <3>2. job[q] \in Inputs /\ Id(q) \in Ops /\ shardMonth[q] \in Months
      BY <1>2, <3>1 DEF At
    <3>3. \/ todo'[q] = todo[q]
          \/ /\ todo'[q] = todo[q] \ {n} /\ files'[Target(n, shardMonth[q], Id(q))] = staging[Id(q)][n]
             /\ n \in DOMAIN job[q].files => staging[Id(q)][n] = job[q].files[n]
      <4>1. Target(n, shardMonth[q], Id(q)) \in Targets
        BY <3>2, TargetFacts
      <4> QED
        BY <1>0, <2>3, <4>1 DEF PublishFile
    <3>4. ASSUME NEW k \in DOMAIN job[q].files \ todo[q]
          PROVE  files'[Target(k, shardMonth[q], Id(q))] = job[q].files[k]
      BY <3>1, <3>2, ContentKept DEF ReplayInv, Id
    <3> QED
      BY <3>1, <3>3, <3>4 DEF Id
  <2>4. \/ At(q, "publishing") /\ job'[q] = job[q] /\ shardMonth'[q] = shardMonth[q] /\ todo'[q] = todo[q]
        \/ ListStaging(q) \/ \E n \in Names : PublishFile(q, n)
    <3>1. CASE Untouched(q)
      BY <1>5, <3>1 DEF Untouched, At
    <3>2. CASE ReadBack(q) \/ Validate(q)
      BY <1>0, <1>5, <3>2 DEF ReadBack, Validate, At, Goto
    <3> QED
      BY <1>1, <1>5, <3>1, <3>2, Progress, Zenon DEF At
  <2> QED
    BY <2>1, <2>2, <2>3, <2>4
<1>6. ASSUME NEW q \in Procs, alive'[q], pc'[q] \in {"staged", "validated"}
      PROVE  \A n \in DOMAIN job'[q].files : staging'[Id(q)'][n] # Absent
  <2> DEFINE Kept == \A n \in DOMAIN job[q].files : staging[Id(q)][n] # Absent => staging'[Id(q)][n] # Absent
             Was == alive[q] /\ pc[q] \in {"staged", "validated"} /\ job'[q] = job[q]
  <2>1. CASE Was /\ Kept
    BY <2>1 DEF ReplayInv, Id
  <2>2. CASE ReadBack(q)
    <3>1. /\ At(q, "staging") /\ UNCHANGED <<job, staging>>
          /\ \A n \in DOMAIN job[q].files : staging[Id(q)][n] = job[q].files[n]
      BY <1>0, <1>6, <2>2 DEF ReadBack, disk, Goto
    <3> QED
      BY <1>2, <3>1, InputFacts DEF At, Id
  <2>3. ASSUME Was PROVE Kept
    <3>0. holder = q /\ discarding = None
      BY <2>3 DEF CommitInv, ProcInv, ReplayInv
    <3>1. Id(q) \in Ops /\ DOMAIN job[q].files \subseteq Names
      BY <1>2, <2>3, InputFacts
    <3>2. ASSUME NEW o \in Ops, NEW n \in Names, staging' = [staging EXCEPT ![o][n] = Torn] PROVE Kept
      BY <1>1, <3>1, <3>2, LedgerAssumption DEF TypeOK
    <3>3. ASSUME NEW p \in Procs, Crash(p) PROVE Kept
      <4>1. todo[p] \subseteq Names /\ Id(p) \in Ops
        BY <1>1, <1>2, <3>3 DEF Crash, MutexCrash, TypeOK
      <4> QED
        BY <3>2, <3>3, <4>1, Zenon DEF Crash
    <3>4. ASSUME NEW p \in Procs, RemoveStaging(p) \/ \E n \in Names : StageFile(p, n) \/ PublishFile(p, n)
          PROVE  FALSE
      BY <2>3, <3>0, <3>4 DEF RemoveStaging, StageFile, PublishFile, At, CommitInv, ProcInv
    <3>5. ASSUME NEW o \in Ops, NEW n \in Names, CorruptStaged(o, n) PROVE Kept
      BY <3>2, <3>5, Zenon DEF CorruptStaged
    <3>6. CASE UNCHANGED staging
      BY <3>6
    <3> QED
      BY <3>0, <3>3, <3>4, <3>5, <3>6, Writers DEF StagingStep, DiscardFile
  <2>4. Was \/ ReadBack(q)
    <3>1. CASE Untouched(q)
      BY <1>6, <3>1 DEF Untouched
    <3>2. CASE Validate(q) \/ ListStaging(q)
      BY <1>0, <1>6, <3>2 DEF Validate, ListStaging, At, Goto
    <3>3. ASSUME NEW n \in Names, PublishFile(q, n) PROVE FALSE
      BY <1>0, <1>6, <3>3 DEF PublishFile, At, Goto
    <3> QED
      BY <1>1, <1>6, <3>1, <3>2, <3>3, Progress
  <2> QED
    BY <2>1, <2>2, <2>3, <2>4
<1> QED
  BY <1>3, <1>4, <1>5, <1>6 DEF ReplayInv

\* ReplayInv holds before the first commit.
LEMMA InitReplayInv == Init => ReplayInv
<1> SUFFICES ASSUME Init PROVE ReplayInv
  OBVIOUS
<1>1. Committed = {}
  BY DEF Init, Committed
<1>2. \A p \in Procs : pc[p] = "idle"
  BY DEF Init
<1> QED
  BY <1>1, <1>2 DEF Init, ReplayInv, At, CommittedOperationsReplay

\* When discardStaging is only called while no commit runs, every operation
\* whose manifest exists can be replayed: its files are in place with the
\* recorded bytes, whatever was left behind by crashes before it.
THEOREM CommittedReplay ==
  ASSUME ConcurrentDiscard = FALSE
  PROVE  Spec => []CommittedOperationsReplay
<1> DEFINE IInv == CommitInv /\ NumberInv /\ ReplayInv
<1>1. Init => IInv
  BY InitInv, InitReplayInv
<1>2. IInv /\ [Next]_vars => IInv'
  BY NextCommitInv, NextNumberInv, NextReplayInv
<1>3. IInv => CommittedOperationsReplay
  BY DEF ReplayInv
<1> QED
  BY <1>1, <1>2, <1>3, PTL DEF Spec
=============================================================================
