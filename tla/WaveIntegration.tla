---------------------------- MODULE WaveIntegration ----------------------------
(***************************************************************************)
(* How the queued candidates of a wave become the operation's code:        *)
(* rebuildWaveCandidate, validateTaskCandidate and acceptWave of           *)
(* scheduling/integration.ts, called by the run loop of                    *)
(* orchestration/scheduler-runtime.ts and, after a restart, by             *)
(* recoverSchedulingOperation of scheduling/recovery.ts.  The operation    *)
(* ref in Git and the wave records in the Ledger are two stores; a crash,  *)
(* a failed write or a foreign git command may come between them.          *)
(*                                                                         *)
(* Every task has run and queued its patch (Scheduler models that part),   *)
(* and the Driver Lock admits one driver at a time.  A commit is a number, *)
(* minted by each rebuild: commit metadata makes every rebuild of the same *)
(* tree another object.  A retry after an integration conflict is in       *)
(* Scheduler; here the conflict blocks the task.                           *)
(***************************************************************************)
EXTENDS Integers, Sequences, FiniteSets, SequencesExt

CONSTANTS
  Waves,           \* the parallel waves, each the non-empty sequence of its tasks
  NeedsApproval,   \* the policy wants an approval for integrate_wave
  FindingsReadBack, \* readFacts returns the findings that commit wrote
  LostAcks,        \* a Ledger commit may throw after its manifest is written
  MaxCommits, MaxBoots, MaxRuns, MaxFaults, MaxClock, MaxDrift

Tasks == UNION {Range(Waves[w]) : w \in DOMAIN Waves}
Commits == 1..MaxCommits
Baseline == 0
NoRef == -1      \* the operation ref does not exist
Foreign == -2    \* a commit that is none of ours

VARIABLES
  \* Git and the Ledger
  ref,         \* the operation ref
  parent,      \* parent[c]: the wave base commit c was built on, NoRef if c is not built
  accepted,    \* the WaveIntegrationRecords, in wave order
  lease,       \* lease[t]: state of the latest lease
  evidence,    \* evidence[t][c]: the latest candidate Evidence of t on c
  published,   \* <<t, c>>: pairs with an Evidence file, which is never rewritten
  findings, requests, approved,
  \* the driver
  pc, recovered, cand, todo, fresh, decided, seen,
  \* the environment
  clock, boots, runs, faults, drifts

ledger == <<parent, accepted, lease, evidence, published, findings, requests, approved>>
memory == <<recovered, cand, todo, fresh, decided, seen>>
world == <<clock, boots, runs, faults, drifts>>
vars == <<ref, ledger, pc, memory, world>>

ToAccept == Len(accepted) + 1
Pending == IF ToAccept <= Len(Waves) THEN Waves[ToAccept] ELSE <<>>
Members == Range(Pending)

\* What actionDigest covers of the integrate_wave action: the wave, the budget
\* left by the leases, and the wall time left to the deadline.
Digest == [wave |-> ToAccept, released |-> {t \in Tasks : lease[t] = "released"}, at |-> clock]
Digests == [wave : 1..(Len(Waves) + 1), released : SUBSET Tasks, at : 0..MaxClock]

Rules == {"integration_conflict", "candidate_gate_failed", "wave_gate_failed", "baseline_drift"}

TypeOK ==
  /\ ref \in {NoRef, Foreign, Baseline} \cup Commits
  /\ parent \in [Commits -> {NoRef, Baseline} \cup Commits]
  /\ accepted \in Seq([base : {Baseline} \cup Commits, commit : Commits, digest : Digests])
  /\ lease \in [Tasks -> {"granted", "released"}]
  /\ evidence \in [Tasks -> [Commits -> {"none", "passed", "failed", "provisional"}]]
  /\ published \subseteq Tasks \X Commits
  /\ findings \subseteq Rules \X (Tasks \cup {"wave"})
  /\ requests \subseteq Digests /\ approved \subseteq requests
  /\ pc \in {"off", "recover", "replay", "revalidate", "drive", "validate", "accept",
             "read", "swap", "seal", "rollback", "verify", "returned"}
  /\ recovered \in BOOLEAN
  /\ cand \in {NoRef} \cup Commits
  /\ todo \in Seq(Tasks) /\ fresh \subseteq Tasks
  /\ decided \in Digests
  /\ seen \in {NoRef, Baseline} \cup Commits

\* The last task has queued its patch: the process that ran it goes on, or died
\* just then.
Init ==
  /\ ref \in {NoRef, Baseline}
  /\ parent = [c \in Commits |-> NoRef]
  /\ accepted = <<>>
  /\ lease = [t \in Tasks |-> "granted"]
  /\ evidence = [t \in Tasks |-> [c \in Commits |-> "none"]]
  /\ published = {} /\ findings = {} /\ requests = {} /\ approved = {}
  /\ clock = 0 /\ runs = 0 /\ faults = 0 /\ drifts = 0
  /\ \/ pc = "off" /\ boots = 0 /\ recovered = FALSE
     \/ pc = "drive" /\ boots = 1 /\ recovered = TRUE
  /\ cand = NoRef /\ todo = <<>> /\ fresh = {} /\ decided = Digest /\ seen = NoRef

\* A fault the environment may inject.
Fault == faults < MaxFaults /\ faults' = faults + 1 /\ UNCHANGED <<clock, boots, runs, drifts>>

-----------------------------------------------------------------------------
(* The process.                                                            *)

\* A new host process: its stack has not recovered yet.
Boot ==
  /\ pc = "off" /\ boots < MaxBoots
  /\ boots' = boots + 1
  /\ pc' = "recover"
  /\ UNCHANGED <<ref, ledger, memory, clock, runs, faults, drifts>>

\* runOperationStack, called again in the same process.
Rerun ==
  /\ pc = "returned" /\ runs < MaxRuns
  /\ runs' = runs + 1
  /\ pc' = IF recovered THEN "drive" ELSE "recover"
  /\ UNCHANGED <<ref, ledger, memory, clock, boots, faults, drifts>>

Crash ==
  /\ pc # "off" /\ boots < MaxBoots
  /\ pc' = "off"
  /\ recovered' = FALSE /\ cand' = NoRef /\ todo' = <<>> /\ fresh' = {}
  /\ decided' = Digest /\ seen' = NoRef
  /\ UNCHANGED <<ref, ledger, world>>

Tick == clock < MaxClock /\ clock' = clock + 1
        /\ UNCHANGED <<ref, ledger, pc, memory, boots, runs, faults, drifts>>

\* A git command of somebody else moves or deletes the operation ref.
MoveRef ==
  /\ drifts < MaxDrift /\ drifts' = drifts + 1
  /\ ref' \in {NoRef, Foreign} \ {ref}
  /\ UNCHANGED <<ledger, pc, memory, clock, boots, runs, faults>>

Approve(r) ==
  /\ pc \in {"off", "returned"} /\ r \in requests \ approved
  /\ approved' = approved \cup {r}
  /\ UNCHANGED <<ref, parent, accepted, lease, evidence, published, findings, requests,
                 pc, memory, world>>

\* An error leaves run(); one that leaves recovery leaves the stack unrecovered.
Throw == /\ pc' = "returned"
         /\ recovered' = (recovered /\ pc \notin {"recover", "replay", "revalidate"})
\* replayCandidates swallows a CandidateIntegrationError, run() does not.
Refuse == /\ pc' = IF pc \in {"replay", "revalidate"} THEN "drive" ELSE "returned"
          /\ recovered' = TRUE

-----------------------------------------------------------------------------
(* Recovery.                                                               *)

ReadFindings == IF FindingsReadBack THEN findings ELSE {}
AcceptedCommits == {accepted[w].commit : w \in DOMAIN accepted}

\* Candidate Evidence of a commit that no record accepts becomes provisional.
Downgrade(t, c) ==
  IF evidence[t][c] # "none" /\ c \notin AcceptedCommits THEN "provisional" ELSE evidence[t][c]

\* recoverSchedulingOperation up to the candidate replay, which an open finding
\* about the wave skips.
Recover ==
  /\ pc = "recover"
  /\ evidence' = [t \in Tasks |-> [c \in Commits |-> Downgrade(t, c)]]
  /\ IF Pending = <<>> \/ \E f \in ReadFindings : f[1] \in {"wave_gate_failed", "baseline_drift"}
       THEN pc' = "drive" /\ recovered' = TRUE
       ELSE pc' = "replay" /\ UNCHANGED recovered
  /\ UNCHANGED <<ref, parent, accepted, lease, published, findings, requests, approved,
                 cand, todo, fresh, decided, seen, world>>

-----------------------------------------------------------------------------
(* rebuildWaveCandidate.                                                   *)

WaveBase == IF accepted = <<>> THEN Baseline ELSE Last(accepted).commit
RefAtBase == ref = WaveBase \/ (ref = NoRef /\ accepted = <<>>)

\* The commits any candidate Evidence of the wave names.
EvidenceCommits == {c \in Commits : \E t \in Members : evidence[t][c] # "none"}

\* Every lease is released and the Evidence agrees on one commit.
Reusable ==
  /\ \A t \in Members : lease[t] = "released" /\ \E c \in Commits : evidence[t][c] # "none"
  /\ Cardinality(EvidenceCommits) = 1

HasBlocker(t) == \E f \in ReadFindings : f[2] = t
\* The run loop integrates when every task of the wave is queued or validated.
Rebuilding == /\ pc \in {"replay", "drive"} /\ Pending # <<>>
              /\ pc = "drive" => \A t \in Members : ~HasBlocker(t)

StartValidation(c) ==
  /\ cand' = c /\ todo' = Pending /\ fresh' = {}
  /\ pc' = IF pc = "replay" THEN "revalidate" ELSE "validate"

RebuildReuse ==
  /\ Rebuilding /\ Reusable
  /\ \E c \in EvidenceCommits : (ref = c \/ RefAtBase) /\ StartValidation(c)
  /\ UNCHANGED <<ref, ledger, recovered, decided, seen, world>>

RebuildFresh ==
  /\ Rebuilding /\ ~Reusable /\ RefAtBase
  /\ \E c \in Commits :
       /\ parent[c] = NoRef /\ \A d \in 1..(c - 1) : parent[d] # NoRef
       /\ parent' = [parent EXCEPT ![c] = WaveBase]
       /\ StartValidation(c)
  /\ UNCHANGED <<ref, accepted, lease, evidence, published, findings, requests, approved,
                 recovered, decided, seen, world>>

\* noteIntegrationConflict: patches that applied to this base once apply again.
RebuildConflicts ==
  /\ Rebuilding /\ ~Reusable /\ RefAtBase /\ Fault
  /\ \A c \in Commits : parent[c] # WaveBase
  /\ \E t \in Members :
       /\ findings' = findings \cup {<<"integration_conflict", t>>}
       /\ lease' = [lease EXCEPT ![t] = "released"]
  /\ Refuse
  /\ UNCHANGED <<ref, parent, accepted, evidence, published, requests, approved,
                 cand, todo, fresh, decided, seen>>

RebuildDrifted ==
  /\ Rebuilding /\ ~RefAtBase
  /\ Reusable => ref \notin EvidenceCommits
  /\ Refuse
  /\ UNCHANGED <<ref, ledger, cand, todo, fresh, decided, seen, world>>

\* The loop returns: every wave is integrated, or a task is blocked.
RunEnds ==
  /\ pc = "drive" /\ ~Rebuilding
  /\ pc' = "returned"
  /\ UNCHANGED <<ref, ledger, memory, world>>

-----------------------------------------------------------------------------
(* validateTaskCandidate, for the tasks of the wave in plan order.         *)

Validating == pc \in {"revalidate", "validate"} /\ todo # <<>>
\* The current lease is granted, or recovery revalidates a released one whose
\* Evidence on this commit was downgraded.
MayValidate(t) ==
  lease[t] = "granted" \/ (pc = "revalidate" /\ evidence[t][cand] = "provisional")

\* append_gate_evidence: the file is named by the digest of verdict and bindings
\* and holds the time, so a Gate that prints the same on a second run of the same
\* commit names the file of the first.
FileTaken(t) == <<t, cand>> \in published
Record(t, verdict) ==
  /\ evidence' = [evidence EXCEPT ![t][cand] = verdict]
  /\ published' = published \cup {<<t, cand>>}
  /\ todo' = Tail(todo)

CandidateGatesPass ==
  /\ Validating /\ MayValidate(Head(todo))
  /\ Record(Head(todo), "passed")
  /\ lease' = [lease EXCEPT ![Head(todo)] = "released"]
  /\ fresh' = fresh \cup {Head(todo)}
  /\ UNCHANGED <<ref, parent, accepted, findings, requests, approved,
                 pc, recovered, cand, decided, seen, world>>

CandidateGatesFail ==
  /\ Validating /\ MayValidate(Head(todo)) /\ Fault
  /\ Record(Head(todo), "failed")
  /\ findings' = findings \cup {<<"candidate_gate_failed", Head(todo)>>}
  /\ UNCHANGED <<ref, parent, accepted, lease, requests, approved,
                 pc, recovered, cand, fresh, decided, seen>>

\* The Ledger refuses the batch: an Evidence file is there already, or a fault.
ValidationThrows ==
  /\ Validating /\ MayValidate(Head(todo))
  /\ (FileTaken(Head(todo)) /\ UNCHANGED world) \/ Fault
  /\ Throw
  /\ UNCHANGED <<ref, ledger, cand, todo, fresh, decided, seen>>

\* run() takes the Evidence of a released task as it finds it.
TakeValidated ==
  /\ Validating /\ pc = "validate" /\ lease[Head(todo)] = "released"
  /\ todo' = Tail(todo)
  /\ UNCHANGED <<ref, ledger, pc, recovered, cand, fresh, decided, seen, world>>

RevalidationRefused ==
  /\ Validating /\ pc = "revalidate" /\ ~MayValidate(Head(todo))
  /\ Refuse
  /\ UNCHANGED <<ref, ledger, cand, todo, fresh, decided, seen, world>>

ReplayCompleted ==
  /\ pc = "revalidate" /\ todo = <<>>
  /\ pc' = "drive" /\ recovered' = TRUE
  /\ UNCHANGED <<ref, ledger, cand, todo, fresh, decided, seen, world>>

-----------------------------------------------------------------------------
(* The policy decision and acceptWave.                                     *)

Deciding == pc = "validate" /\ todo = <<>>

PolicyAllows ==
  /\ Deciding /\ (NeedsApproval => Digest \in approved)
  /\ decided' = Digest
  /\ pc' = "accept"
  /\ UNCHANGED <<ref, ledger, recovered, cand, todo, fresh, seen, world>>

PolicyPauses ==
  /\ Deciding /\ NeedsApproval /\ Digest \notin approved
  /\ requests' = requests \cup {Digest}
  /\ pc' = "returned"
  /\ UNCHANGED <<ref, parent, accepted, lease, evidence, published, findings, approved, memory, world>>

PolicyDenies ==
  /\ Deciding /\ Fault
  /\ pc' = "returned"
  /\ UNCHANGED <<ref, ledger, memory>>

\* The Evidence a validation names: what it just committed, or all that run()
\* found; each record must be a passed, authoritative one of this candidate.
ValidatedOn(t) ==
  \/ t \in fresh
  \/ /\ evidence[t][cand] = "passed"
     /\ \A c \in Commits \ {cand} : evidence[t][c] \in {"none", "provisional"}

Acceptable ==
  /\ \A t \in Members : lease[t] = "released" /\ ValidatedOn(t)
  /\ decided = Digest

AcceptRefused ==
  /\ pc = "accept" /\ ~Acceptable
  /\ Throw
  /\ UNCHANGED <<ref, ledger, cand, todo, fresh, decided, seen, world>>

WaveGatesPass ==
  /\ pc = "accept" /\ Acceptable
  /\ pc' = "read"
  /\ UNCHANGED <<ref, ledger, memory, world>>

\* A finding about the wave, and an error.
Report(rule) ==
  /\ findings' = findings \cup {<<rule, "wave">>}
  /\ Throw
  /\ UNCHANGED <<ref, parent, accepted, lease, evidence, published, requests, approved,
                 cand, todo, fresh, decided, seen>>

WaveGatesFail == pc = "accept" /\ Acceptable /\ Fault /\ Report("wave_gate_failed")

ReadRef ==
  /\ pc = "read" /\ (ref = cand \/ RefAtBase)
  /\ seen' = ref
  /\ pc' = IF ref = cand THEN "seal" ELSE "swap"
  /\ UNCHANGED <<ref, ledger, recovered, cand, todo, fresh, decided, world>>

RefDrifted == pc = "read" /\ ref # cand /\ ~RefAtBase /\ Report("baseline_drift") /\ UNCHANGED world

\* compareAndSwapRef; a lost answer is settled by reading the ref again.
SwapRef ==
  /\ pc = "swap" /\ ref = seen
  /\ ref' = cand
  /\ pc' = "seal"
  /\ UNCHANGED <<ledger, memory, world>>

SwapLost == pc = "swap" /\ ref # seen /\ Report("baseline_drift") /\ UNCHANGED world

\* The record and the wave Evidence in one Ledger transaction.
Accepted == Append(accepted, [base |-> WaveBase, commit |-> cand, digest |-> decided])
SealWave ==
  /\ pc = "seal" /\ accepted' = Accepted
  /\ pc' = "verify"
  /\ UNCHANGED <<ref, parent, lease, evidence, published, findings, requests, approved, memory, world>>

SealFails ==
  /\ pc = "seal" /\ Fault
  /\ accepted' \in {accepted} \cup (IF LostAcks THEN {Accepted} ELSE {})
  /\ pc' = "rollback"
  /\ UNCHANGED <<ref, parent, lease, evidence, published, findings, requests, approved, memory>>

\* Mutant of Rollback: the swap stays although its record failed.
RollbackForgotten ==
  /\ pc = "rollback" /\ Throw
  /\ UNCHANGED <<ref, ledger, cand, todo, fresh, decided, seen, world>>

Rollback ==
  /\ pc = "rollback"
  /\ ref' = IF ref = cand THEN seen ELSE ref
  /\ Throw
  /\ UNCHANGED <<ledger, cand, todo, fresh, decided, seen, world>>

\* The last look at the ref; the loop goes on with the next wave.
VerifyRef ==
  /\ pc = "verify" /\ ref = cand
  /\ pc' = "drive"
  /\ UNCHANGED <<ref, ledger, memory, world>>

RefMovedAfter == pc = "verify" /\ ref # cand /\ Report("baseline_drift") /\ UNCHANGED world

Next ==
  \/ Boot \/ Rerun \/ Crash \/ Tick \/ MoveRef \/ \E r \in requests : Approve(r)
  \/ Recover \/ RebuildReuse \/ RebuildFresh \/ RebuildConflicts \/ RebuildDrifted \/ RunEnds
  \/ CandidateGatesPass \/ CandidateGatesFail \/ ValidationThrows \/ TakeValidated
  \/ RevalidationRefused \/ ReplayCompleted
  \/ PolicyAllows \/ PolicyPauses \/ PolicyDenies \/ AcceptRefused \/ WaveGatesPass \/ WaveGatesFail
  \/ ReadRef \/ RefDrifted \/ SwapRef \/ SwapLost \/ SealWave \/ SealFails \/ Rollback
  \/ VerifyRef \/ RefMovedAfter

Spec == Init /\ [][Next]_vars

-----------------------------------------------------------------------------
(* Properties.                                                             *)

\* acceptWave: a wave record names a commit on which every task of the wave has
\* authoritative, passed Evidence, and no later recovery takes that away.
AcceptedWasValidated ==
  \A w \in DOMAIN accepted : \A t \in Range(Waves[w]) :
    evidence[t][accepted[w].commit] = "passed"

\* acceptWave, recovery: while nobody else moves it, the operation ref holds the
\* last accepted commit, or a candidate built on it that every task of the next
\* wave has Evidence for (a swap whose record is not sealed yet, or was lost in
\* a crash).  It never falls behind the records.
RefAtFrontier ==
  drifts = 0 =>
    \/ RefAtBase
    \/ /\ ref \in Commits /\ parent[ref] = WaveBase
       /\ \A t \in Members : evidence[t][ref] # "none"

\* acceptWave: a run that returns without its process having died leaves the ref
\* where the records say it is; a failed record takes the swap back.
ReturnLeavesRefSealed == pc = "returned" /\ boots = 1 /\ drifts = 0 => RefAtBase

\* compareAndSwapRef: no step of the driver overwrites a ref somebody else moved.
ForeignRefStays == ref = Foreign /\ ref' # ref => drifts' # drifts

\* run, acceptWave: a wave that needs an approval is accepted only under one of
\* the very action that was decided, across pauses, restarts and passing time.
ApprovalBindsAcceptance ==
  NeedsApproval => \A w \in DOMAIN accepted : accepted[w].digest \in approved

\* integration.ts: waveIntegrationPolicyInput is "exported so the caller that
\* obtains the decision and the controller that re-validates it normalize the
\* identical action".
SameActionNormalized == pc = "accept" => decided = Digest
=============================================================================
