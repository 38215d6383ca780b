-------------------------------- MODULE Ledger --------------------------------
(***************************************************************************)
(* LedgerRepository (packages/core/src/ledger/repository.ts): a commit     *)
(* stages its files, validates, renames the staged files into place one by *)
(* one and writes the manifest last.  Processes may crash between any two  *)
(* file-system calls; what they leave in staging and in the published tree *)
(* stays for the next attempt.  The write lock is the mutex it promises to *)
(* be (WriterMutex); WriteLock models how far the directory keeps that     *)
(* promise.                                                                *)
(*                                                                         *)
(* A transaction input is a record [id, base, valid, files]: files maps    *)
(* the staged names (artifact paths and the two shards) to their bytes,    *)
(* valid is the verdict of validateTransaction, base the expected          *)
(* baseline.  Bytes are opaque values and a digest is the bytes it is of.  *)
(***************************************************************************)
EXTENDS WriterMutex, Naturals, FiniteSets

CONSTANTS
  Inputs,             \* the transactions processes may ask for
  Ops,                \* ledger_operation_ids
  Paths,              \* artifact paths
  Bytes,              \* file contents
  Torn,               \* a prefix left by a write that a crash cut short
  Absent,             \* no such file
  None,               \* no manifest, no job
  Baselines,          \* commits readBaseline may return
  MaxMonth,           \* bound on shard months
  MaxFaults,          \* bound on crashes and corrupted staged files
  MaxSubmits,         \* bound on commit() calls
  ConcurrentDiscard   \* discardStaging may run beside a commit of the same id

Shards == {"edges", "events"}
Names == Paths \cup Shards

ASSUME LedgerAssumption ==
  /\ Torn \notin Bytes /\ Absent \notin Bytes /\ Absent # Torn
  /\ Paths \cap Shards = {}
  /\ None \notin Ops \cup Inputs \cup [input : Inputs, seq : Nat, month : Nat]
  /\ MaxMonth \in Nat \ {0} /\ MaxFaults \in Nat /\ MaxSubmits \in Nat
  /\ ConcurrentDiscard \in BOOLEAN
  /\ \A i \in Inputs :
       /\ i.id \in Ops /\ i.base \in Baselines /\ i.valid \in BOOLEAN
       /\ Shards \subseteq DOMAIN i.files /\ DOMAIN i.files \subseteq Names
       /\ \A n \in DOMAIN i.files : i.files[n] \in Bytes

VARIABLES
  staging,    \* staging[op][name]: bytes under staging/<op>/, or Absent
  files,      \* files[target]: published bytes, or Absent
  manifests,  \* manifests[op]: the committed manifest, or None
  pc, job,    \* per process: where commit() is and for which input
  todo,       \* names still to stage, then names still to publish
  seq,        \* sequence computed under the lock
  shardMonth, \* month of the commit context
  result,     \* what the last commit() returned or threw
  baseline, month,            \* HEAD and the clock
  discarding,                 \* operation discardStaging is removing, or None
  faults, submits

vars == <<holder, alive, staging, files, manifests, pc, job, todo, seq, shardMonth,
          result, baseline, month, discarding, faults, submits>>
disk == <<staging, files, manifests>>
env == <<baseline, month, discarding, faults, submits>>

Months == 1..MaxMonth
\* Shards go to a per-month, per-operation file; an artifact to its own path.
Target(n, m, o) == IF n \in Shards THEN <<n, m, o>> ELSE <<n, 0, None>>
Targets == {<<n, m, o>> : n \in Shards, m \in Months, o \in Ops}
             \cup {<<n, 0, None>> : n \in Paths}

Stored == Bytes \cup {Torn, Absent}
Outcomes == {"none", "committed", "already_committed", "conflict", "corrupt",
             "invalid", "baseline_mismatch", "io_error", "unavailable"}
Places == {"idle", "waiting", "locked", "staging", "staged", "validated",
           "publishing", "published", "release"}

TypeOK ==
  /\ MutexTypeOK
  /\ staging \in [Ops -> [Names -> Stored]]
  /\ files \in [Targets -> Stored]
  /\ manifests \in [Ops -> {None} \cup [input : Inputs, seq : Nat \ {0}, month : Months]]
  /\ pc \in [Procs -> Places]
  /\ job \in [Procs -> Inputs \cup {None}]
  /\ todo \in [Procs -> SUBSET Names]
  /\ seq \in [Procs -> Nat]
  /\ shardMonth \in [Procs -> Months]
  /\ result \in [Procs -> Outcomes]
  /\ baseline \in Baselines
  /\ month \in Months
  /\ discarding \in Ops \cup {None}
  /\ faults \in Nat /\ submits \in Nat

NoFiles == [n \in Names |-> Absent]

Init ==
  /\ MutexInit
  /\ staging = [o \in Ops |-> NoFiles]
  /\ files = [t \in Targets |-> Absent]
  /\ manifests = [o \in Ops |-> None]
  /\ pc = [p \in Procs |-> "idle"]
  /\ job = [p \in Procs |-> None]
  /\ todo = [p \in Procs |-> {}]
  /\ seq = [p \in Procs |-> 0]
  /\ shardMonth = [p \in Procs |-> 1]
  /\ result = [p \in Procs |-> "none"]
  /\ baseline \in Baselines
  /\ month = 1
  /\ discarding = None
  /\ faults = 0 /\ submits = 0

Committed == {o \in Ops : manifests[o] # None}

\* nextSequence: one more than the largest committed sequence.
NextSequence ==
  LET used == {manifests[o].seq : o \in Committed} \cup {0}
  IN  1 + CHOOSE s \in used : \A t \in used : t <= s

\* manifestDigest: artifact contents without their paths, shard contents, and
\* the baseline; never committed_at.  Sequence and shard paths are taken from
\* the stored manifest on a retry, so they never differ.
ManifestDigest(i) ==
  [base |-> i.base, edges |-> i.files["edges"], events |-> i.files["events"],
   artifacts |-> [b \in Bytes |-> Cardinality({n \in DOMAIN i.files \cap Paths : i.files[n] = b})]]

\* Mutant of ResolveRetry: the id alone makes a retry.
RetryById(i) == "already_committed"

\* resolveRetry: a faithful retry is a no-op, any other content a conflict.
ResolveRetry(i) ==
  IF ManifestDigest(manifests[i.id].input) = ManifestDigest(i)
    THEN "already_committed" ELSE "conflict"

Goto(p, place) == pc' = [pc EXCEPT ![p] = place]
Outcome(p, r) == result' = [result EXCEPT ![p] = r]
At(p, place) == alive[p] /\ pc[p] = place
Id(p) == job[p].id

\* commit(): the fast path looks for the manifest before it asks for the lock.
Commit(p, i) ==
  /\ At(p, "idle") /\ submits < MaxSubmits
  /\ discarding = None \/ ConcurrentDiscard
  /\ submits' = submits + 1
  /\ job' = [job EXCEPT ![p] = i]
  /\ IF manifests[i.id] # None
       THEN Outcome(p, ResolveRetry(i)) /\ UNCHANGED pc
       ELSE Outcome(p, "none") /\ Goto(p, "waiting")
  /\ UNCHANGED <<holder, alive, disk, todo, seq, shardMonth, baseline, month, discarding, faults>>

\* acquireWriteLock returned; newContext fixes the shard month.
Locked(p) ==
  /\ At(p, "waiting")
  /\ MutexAcquire(p)
  /\ shardMonth' = [shardMonth EXCEPT ![p] = month]
  /\ Goto(p, "locked")
  /\ UNCHANGED <<disk, job, todo, seq, result, env>>

\* acquireWriteLock threw LockUnavailable.
LockUnavailable(p) ==
  /\ At(p, "waiting")
  /\ holder # NoProc
  /\ Outcome(p, "unavailable") /\ Goto(p, "idle")
  /\ UNCHANGED <<holder, alive, disk, job, todo, seq, shardMonth, env>>

\* Mutant of Recheck: the manifest is not looked up again under the lock.
RecheckSkipped(p) ==
  /\ At(p, "locked")
  /\ todo' = [todo EXCEPT ![p] = DOMAIN job[p].files] /\ Goto(p, "staging")
  /\ UNCHANGED <<holder, alive, disk, job, seq, shardMonth, result, env>>

\* The manifest is looked up again under the lock.
Recheck(p) ==
  /\ At(p, "locked")
  /\ IF manifests[Id(p)] # None
       THEN /\ Outcome(p, ResolveRetry(job[p])) /\ Goto(p, "release")
            /\ UNCHANGED todo
       ELSE /\ todo' = [todo EXCEPT ![p] = DOMAIN job[p].files] /\ Goto(p, "staging")
            /\ UNCHANGED result
  /\ UNCHANGED <<holder, alive, disk, job, seq, shardMonth, env>>

\* writeStaging, one fsynced file at a time, over whatever is there.
StageFile(p, n) ==
  /\ At(p, "staging")
  /\ n \in todo[p]
  /\ staging' = [staging EXCEPT ![Id(p)][n] = job[p].files[n]]
  /\ todo' = [todo EXCEPT ![p] = @ \ {n}]
  /\ UNCHANGED <<holder, alive, files, manifests, pc, job, seq, shardMonth, result, env>>

\* Every staged file is read back and compared with its digest.
ReadBack(p) ==
  /\ At(p, "staging")
  /\ todo[p] = {}
  /\ IF \A n \in DOMAIN job[p].files : staging[Id(p)][n] = job[p].files[n]
       THEN Goto(p, "staged") /\ UNCHANGED result
       ELSE /\ Goto(p, "release")
            /\ Outcome(p, IF \E n \in DOMAIN job[p].files : staging[Id(p)][n] = Absent
                           THEN "io_error" ELSE "corrupt")
  /\ UNCHANGED <<holder, alive, disk, job, todo, seq, shardMonth, env>>

\* validateTransaction, nextSequence (under the lock, so assertAppendOnly holds
\* by construction), the baseline check.
Validate(p) ==
  /\ At(p, "staged")
  /\ IF job[p].valid /\ baseline = job[p].base
       THEN /\ seq' = [seq EXCEPT ![p] = NextSequence] /\ Goto(p, "validated")
            /\ UNCHANGED result
       ELSE /\ Outcome(p, IF job[p].valid THEN "baseline_mismatch" ELSE "invalid")
            /\ Goto(p, "release") /\ UNCHANGED seq
  /\ UNCHANGED <<holder, alive, disk, job, todo, shardMonth, env>>

\* Mutant of ListStaging: shards first, artifacts forgotten.
ListShards(p) ==
  /\ At(p, "validated")
  /\ todo' = [todo EXCEPT ![p] = {n \in Shards : staging[Id(p)][n] # Absent}]
  /\ Goto(p, "publishing")
  /\ UNCHANGED <<holder, alive, disk, job, seq, shardMonth, result, env>>

\* publishShards lists the whole staging directory, leftovers included.
ListStaging(p) ==
  /\ At(p, "validated")
  /\ todo' = [todo EXCEPT ![p] = {n \in Names : staging[Id(p)][n] # Absent}]
  /\ Goto(p, "publishing")
  /\ UNCHANGED <<holder, alive, disk, job, seq, shardMonth, result, env>>

\* Mutant of PublishFile: rename over whatever is at the target.
PublishOver(p, n) ==
  /\ At(p, "publishing")
  /\ n \in todo[p]
  /\ n \in DOMAIN job[p].files => staging[Id(p)][n] = job[p].files[n]
  /\ files' = [files EXCEPT ![Target(n, shardMonth[p], Id(p))] = staging[Id(p)][n]]
  /\ staging' = [staging EXCEPT ![Id(p)][n] = Absent]
  /\ todo' = [todo EXCEPT ![p] = @ \ {n}]
  /\ UNCHANGED <<holder, alive, manifests, pc, result, job, seq, shardMonth, env>>

\* One move of publishShards.  Only files of this attempt have an expected
\* digest; an existing target must hold the same bytes.
PublishFile(p, n) ==
  LET o == Id(p)
      t == Target(n, shardMonth[p], o)
      bytes == staging[o][n]
      Fail(r) == Outcome(p, r) /\ Goto(p, "release") /\ UNCHANGED <<disk, todo>>
  IN  /\ At(p, "publishing")
      /\ n \in todo[p]
      /\ \/ bytes = Absent /\ Fail("io_error")
         \/ /\ bytes # Absent /\ n \in DOMAIN job[p].files /\ bytes # job[p].files[n]
            /\ Fail("corrupt")
         \/ /\ bytes # Absent /\ (n \in DOMAIN job[p].files => bytes = job[p].files[n])
            /\ IF files[t] \notin {Absent, bytes}
                 THEN Fail("conflict")
                 ELSE /\ files' = [files EXCEPT ![t] = bytes]
                      /\ staging' = [staging EXCEPT ![o][n] = Absent]
                      /\ todo' = [todo EXCEPT ![p] = @ \ {n}]
                      /\ UNCHANGED <<manifests, pc, result>>
      /\ UNCHANGED <<holder, alive, job, seq, shardMonth, env>>

\* publishManifest renames the manifest into place: the commit point.
PublishManifest(p) ==
  /\ At(p, "publishing")
  /\ todo[p] = {}
  /\ manifests' = [manifests EXCEPT ![Id(p)] =
                     [input |-> job[p], seq |-> seq[p], month |-> shardMonth[p]]]
  /\ Goto(p, "published")
  /\ UNCHANGED <<holder, alive, staging, files, job, todo, seq, shardMonth, result, env>>

\* The staging directory is removed and the result is ready.
RemoveStaging(p) ==
  /\ At(p, "published")
  /\ staging' = [staging EXCEPT ![Id(p)] = NoFiles]
  /\ Outcome(p, "committed") /\ Goto(p, "release")
  /\ UNCHANGED <<holder, alive, files, manifests, job, todo, seq, shardMonth, env>>

\* finally: lock.release().
ReleaseLock(p) ==
  /\ At(p, "release")
  /\ MutexRelease(p)
  /\ Goto(p, "idle")
  /\ UNCHANGED <<disk, job, todo, seq, shardMonth, result, env>>

\* The process dies; a file it was writing may be left torn.
Crash(p) ==
  /\ pc[p] # "idle" /\ faults < MaxFaults
  /\ MutexCrash(p)
  /\ faults' = faults + 1
  /\ \/ UNCHANGED staging
     \/ /\ pc[p] = "staging"
        /\ \E n \in todo[p] : staging' = [staging EXCEPT ![Id(p)][n] = Torn]
  /\ UNCHANGED <<files, manifests, pc, job, todo, seq, shardMonth, result,
                 baseline, month, discarding, submits>>

\* The device damages a staged file ("corruption injected after staging").
CorruptStaged(o, n) ==
  /\ faults < MaxFaults
  /\ staging[o][n] \in Bytes
  /\ staging' = [staging EXCEPT ![o][n] = Torn]
  /\ faults' = faults + 1
  /\ UNCHANGED <<holder, alive, files, manifests, pc, job, todo, seq, shardMonth, result,
                 baseline, month, discarding, submits>>

\* A new process, with nothing in memory.
Restart(p) ==
  /\ MutexRestart(p)
  /\ Goto(p, "idle")
  /\ job' = [job EXCEPT ![p] = None]
  /\ todo' = [todo EXCEPT ![p] = {}]
  /\ Outcome(p, "none")
  /\ UNCHANGED <<disk, seq, shardMonth, env>>

\* discardStaging: refused once the manifest exists; takes no lock.  Unless
\* ConcurrentDiscard, it is only called while no commit is running.
DiscardStaging(o) ==
  /\ discarding = None
  /\ manifests[o] = None
  /\ staging[o] # NoFiles
  /\ ConcurrentDiscard \/ \A p \in Procs : ~(alive[p] /\ pc[p] # "idle")
  /\ discarding' = o
  /\ UNCHANGED <<holder, alive, disk, pc, job, todo, seq, shardMonth, result,
                 baseline, month, faults, submits>>

\* rmSync(recursive) removes the files one after the other.
DiscardFile ==
  /\ discarding # None
  /\ IF staging[discarding] = NoFiles
       THEN discarding' = None /\ UNCHANGED staging
       ELSE /\ \E n \in Names :
                 /\ staging[discarding][n] # Absent
                 /\ staging' = [staging EXCEPT ![discarding][n] = Absent]
            /\ UNCHANGED discarding
  /\ UNCHANGED <<holder, alive, files, manifests, pc, job, todo, seq, shardMonth, result,
                 baseline, month, faults, submits>>

MoveBaseline ==
  /\ baseline' \in Baselines \ {baseline}
  /\ UNCHANGED <<holder, alive, disk, pc, job, todo, seq, shardMonth, result,
                 month, discarding, faults, submits>>

NextMonth ==
  /\ month < MaxMonth
  /\ month' = month + 1
  /\ UNCHANGED <<holder, alive, disk, pc, job, todo, seq, shardMonth, result,
                 baseline, discarding, faults, submits>>

Step(p) ==
  \/ Locked(p) \/ LockUnavailable(p) \/ Recheck(p) \/ ReadBack(p) \/ Validate(p)
  \/ ListStaging(p) \/ PublishManifest(p) \/ RemoveStaging(p) \/ ReleaseLock(p)
  \/ \E n \in Names : StageFile(p, n) \/ PublishFile(p, n)

Next ==
  \/ \E p \in Procs : Step(p) \/ Crash(p) \/ Restart(p) \/ \E i \in Inputs : Commit(p, i)
  \/ \E o \in Ops : DiscardStaging(o) \/ \E n \in Names : CorruptStaged(o, n)
  \/ DiscardFile \/ MoveBaseline \/ NextMonth

Spec == Init /\ [][Next]_vars

-----------------------------------------------------------------------------
\* Everything a committed manifest refers to is in place with the bytes it
\* recorded, whatever crashed, retried or was discarded before: replayLedger
\* meets no missing or altered shard.
CommittedOperationsReplay ==
  \A o \in Committed :
    LET m == manifests[o]
    IN  \A n \in DOMAIN m.input.files : files[Target(n, m.month, o)] = m.input.files[n]

\* A caller told "committed" or "already_committed" finds its own content in
\* the ledger.
AcknowledgedIsDurable ==
  \A p \in Procs :
    alive[p] /\ result[p] \in {"committed", "already_committed"} =>
      /\ Id(p) \in Committed
      /\ ManifestDigest(manifests[Id(p)].input) = ManifestDigest(job[p])

\* A published byte never changes again, even that of an attempt that never
\* commits (publishShards refuses an existing target with other bytes).
AppendOnly == [][\A t \in Targets : files[t] # Absent => files'[t] = files[t]]_vars

\* The whole file protocol implements an append-only log of whole transactions
\* with the sequences 1, 2, 3, ...: "any interruption leaves either the whole
\* operation visible or none of it".
log == {[seq |-> manifests[o].seq, input |-> manifests[o].input] : o \in Committed}
Log == INSTANCE LedgerLog WITH Inputs <- Inputs, log <- log
ImplementsLog == Log!LogSpec
=============================================================================
