--------------------------- MODULE SchedulerSteps ---------------------------
(***************************************************************************)
(* What the steps of the scheduler do in the terms of the invariant. Most  *)
(* of them only settle what is there; two bring something new, a granted   *)
(* lease and a queued candidate.                                           *)
(***************************************************************************)
EXTENDS SchedulerInvariant

\* The steps of the driver outside of dispatch and classification.
Elsewhere ==
  \/ Boot \/ Crash \/ Recover \/ RunAgain \/ DriveEnter \/ BlockingPass \/ PickWave
  \/ ReplaySkipped \/ RebuildWaveCandidate \/ AcceptWave \/ WaveGateFails \/ WaveNotAccepted
  \/ ChainUnreadable \/ DriveThrows
  \/ \E c \in todo : ValidationKept(c) \/ ValidationRefused(c) \/ ValidateTaskCandidate(c)
  \/ \E t \in Tasks : ClassifyOverrun(t) \/ ApplyFails(t)

\* Outside of dispatch and classification no run is in hand, and none of these
\* steps takes one up (scheduler.ts driveOnce, recovery.ts, integration.ts).
LEMMA ElsewhereAway ==
  ASSUME Inv, Elsewhere
  PROVE  Away /\ Fading
<1>0. todo \subseteq Entries
  BY DEF Inv, ShapeInv
<1>1. ASSUME NEW s, Return(s) PROVE Away
  BY <1>1 DEF Return, Away, DrivePhases
<1>2. CASE Boot \/ Crash \/ Recover \/ RunAgain
  BY <1>0, <1>2 DEF Boot, Crash, Recover, RunAgain, Away, Fading, DrivePhases, CancelEnds, agents,
     cancelling
<1>3. CASE DriveEnter \/ BlockingPass \/ PickWave \/ ReplaySkipped
  BY <1>0, <1>1, <1>3 DEF DriveEnter, BlockingPass, PickWave, ReplaySkipped, Away, Fading,
     DrivePhases, agents, cancelling
<1>4. CASE RebuildWaveCandidate
  <2>1. todo' \subseteq Entries
    BY <1>4 DEF RebuildWaveCandidate, Entries
  <2> QED
    BY <1>4, <2>1 DEF RebuildWaveCandidate, Rebuilding, Away, Fading, DrivePhases, agents, cancelling
<1>5. CASE AcceptWave \/ WaveGateFails \/ WaveNotAccepted \/ ChainUnreadable \/ DriveThrows
  BY <1>0, <1>1, <1>5 DEF AcceptWave, WaveGateFails, WaveNotAccepted, ChainUnreadable, DriveThrows,
     Away, Fading, DrivePhases, agents, cancelling
<1>6. ASSUME NEW c \in todo, ValidationKept(c) \/ ValidationRefused(c) \/ ValidateTaskCandidate(c)
      PROVE  Away /\ Fading
  BY <1>0, <1>1, <1>6 DEF ValidationKept, ValidationRefused, ValidateTaskCandidate, NextValidation,
     Validating, IntegrationThrows, Replaying, Away, Fading, DrivePhases, agents, cancelling
<1>7. ASSUME NEW t \in Tasks, ClassifyOverrun(t) \/ ApplyFails(t)
      PROVE  Away /\ Fading
  BY <1>0, <1>1, <1>7 DEF ClassifyOverrun, ApplyFails, Rebuilding, IntegrationThrows, Replaying,
     Away, Fading, DrivePhases, agents, cancelling
<1> QED
  BY <1>2, <1>3, <1>4, <1>5, <1>6, <1>7 DEF Elsewhere

\* Boot, recovery, validation and wave acceptance close leases at most, that of a
\* queued candidate only as released.
LEMMA ElsewhereSettles ==
  ASSUME Inv, Elsewhere
  PROVE  Settling
<1>1. CASE Boot \/ Crash \/ RunAgain \/ DriveEnter \/ PickWave \/ ReplaySkipped
           \/ RebuildWaveCandidate \/ WaveNotAccepted \/ ChainUnreadable \/ DriveThrows
           \/ (\E c \in todo : ValidationKept(c) \/ ValidationRefused(c))
           \/ (\E t \in Tasks : ClassifyOverrun(t))
  <2>1. UNCHANGED facts
    BY <1>1 DEF Boot, Crash, RunAgain, DriveEnter, PickWave, ReplaySkipped, RebuildWaveCandidate,
       WaveNotAccepted, ChainUnreadable, DriveThrows, ValidationKept, ValidationRefused, ClassifyOverrun
  <2> QED
    BY <2>1, QuietSettles DEF facts
<1>2. CASE BlockingPass \/ WaveGateFails
  <2>1. UNCHANGED <<lease, run, queued, validated, integrated>>
    BY <1>2 DEF BlockingPass, WaveGateFails
  <2>2. \A t \in Tasks : <<"integration_retry_scheduled", t>> \in findings'
          => <<"integration_retry_scheduled", t>> \in findings
    BY <1>2 DEF BlockingPass, WaveGateFails, CreateFinding, BlockingFindings
  <2> QED
    BY <2>1, <2>2, QuietSettles
<1>3. CASE Recover
  <2>1. ASSUME NEW t \in Tasks
        PROVE  /\ lease'[t].attempt = lease[t].attempt /\ lease'[t].kinds = lease[t].kinds
               /\ \/ lease'[t].state = lease[t].state
                  \/ Granted(t) /\ lease'[t].state = "revoked" /\ ~PendingCandidate(t)
    <3>1. CASE t \notin Orphaned
      BY <1>3, <3>1 DEF Recover
    <3>2. CASE t \in Orphaned
      <4>1. lease[t] \in LeaseType
        BY DEF Inv, BudgetInv
      <4>2. lease'[t] = TerminateTaskLease(lease[t], "revoked",
                          IF run[t].started THEN 0 ELSE lease[t].reserved)
        BY <1>3, <3>2 DEF Recover
      <4> QED
        BY <3>2, <4>1, <4>2, TerminateFacts DEF Orphaned
    <3> QED
      BY <3>1, <3>2
  <2>2. ASSUME NEW t \in Tasks, QueuedNow(t) PROVE run'[t].reason = "completion"
    <3>1. run[t].reason = "completion"
      BY <2>2 DEF Inv, LeaseInv, CompletedRun
    <3> QED
      BY <1>3, <3>1 DEF Recover
  <2>3. ASSUME NEW t \in Tasks, <<"integration_retry_scheduled", t>> \in findings'
        PROVE  <<"integration_retry_scheduled", t>> \in findings
    BY <1>3, <2>3 DEF Recover
  <2>4. queued' = queued /\ integrated' = integrated /\ validated' = validated \cap integrated
    BY <1>3 DEF Recover
  <2>5. integrated \subseteq Tasks
    BY DEF Inv, ShapeInv
  <2> QED
    BY <2>1, <2>2, <2>3, <2>4, <2>5 DEF Settling, Closed
<1>4. CASE AcceptWave
  <2>1. UNCHANGED <<lease, run, queued, findings, validated>>
    BY <1>4 DEF AcceptWave
  <2>2. \A t \in integrated' \ integrated : lease[t].state = "released" /\ t \in validated
    BY <1>4 DEF AcceptWave, WaveValidated
  <2>3. integrated \subseteq integrated' /\ integrated' \subseteq Tasks
    BY <1>4 DEF AcceptWave, Inv, ShapeInv
  <2>4. \A t \in Tasks : QueuedNow(t) => run[t].reason = "completion"
    BY DEF Inv, LeaseInv, CompletedRun
  <2>5. validated \subseteq Tasks
    BY DEF Inv, ShapeInv
  <2> QED
    BY <2>1, <2>2, <2>3, <2>4, <2>5 DEF Settling

<1>5. ASSUME NEW c \in todo, ValidateTaskCandidate(c) PROVE Settling
  <2>1. c.task \in Tasks /\ QueuedNow(c.task)
    BY <1>5 DEF Inv, ShapeInv, Entries, ValidateTaskCandidate, Validatable, QueuedNow
  <2>2. UNCHANGED <<run, queued, integrated>>
    BY <1>5 DEF ValidateTaskCandidate
  <2>3. /\ \A t \in Tasks : <<"integration_retry_scheduled", t>> \in findings'
             => <<"integration_retry_scheduled", t>> \in findings
        /\ validated \subseteq validated' /\ validated' \subseteq validated \cup {c.task}
    BY <1>5 DEF ValidateTaskCandidate, CreateFinding, NoFinding
  <2>4. \A t \in Tasks : QueuedNow(t) => run[t].reason = "completion"
    BY DEF Inv, LeaseInv, CompletedRun
  <2>5. UNCHANGED lease \/ (Granted(c.task) /\ Close(c.task, "released", run[c.task].used))
    BY <1>5 DEF ValidateTaskCandidate
  <2>6. \A u \in Tasks :
           /\ lease'[u].attempt = lease[u].attempt /\ lease'[u].kinds = lease[u].kinds
           /\ \/ lease'[u].state = lease[u].state
              \/ /\ Granted(u) /\ lease'[u].state \in Closed
                 /\ PendingCandidate(u) => lease'[u].state = "released"
    BY <2>1, <2>5, CloseSettles DEF Closed
  <2>7. validated \subseteq Tasks /\ integrated \subseteq Tasks
    BY DEF Inv, ShapeInv
  <2> QED
    BY <2>1, <2>2, <2>3, <2>4, <2>6, <2>7 DEF Settling
<1>6. ASSUME NEW t \in Tasks, ApplyFails(t) PROVE Settling
  <2>1. EarlierDone(t)
    BY <1>6, EarliestFacts DEF ApplyFails
  <2>2. UNCHANGED <<run, queued, validated, integrated>>
    BY <1>6 DEF ApplyFails
  <2>3. \A u \in Tasks : <<"integration_retry_scheduled", u>> \in findings'
          => <<"integration_retry_scheduled", u>> \in findings \/ u = t
    BY <1>6 DEF ApplyFails, NoteIntegrationConflict, CreateFinding
  <2>4. \A u \in Tasks : QueuedNow(u) => run[u].reason = "completion"
    BY DEF Inv, LeaseInv, CompletedRun
  <2>5. UNCHANGED lease \/ (Granted(t) /\ Close(t, "released", run[t].used))
    BY <1>6 DEF ApplyFails, NoteIntegrationConflict
  <2>6. \A u \in Tasks :
           /\ lease'[u].attempt = lease[u].attempt /\ lease'[u].kinds = lease[u].kinds
           /\ \/ lease'[u].state = lease[u].state
              \/ /\ Granted(u) /\ lease'[u].state \in Closed
                 /\ PendingCandidate(u) => lease'[u].state = "released"
    BY <2>5, CloseSettles DEF Closed
  <2>7. validated \subseteq Tasks /\ integrated \subseteq Tasks
    BY DEF Inv, ShapeInv
  <2> QED
    BY <2>1, <2>2, <2>3, <2>4, <2>6, <2>7 DEF Settling
<1> QED
  BY <1>1, <1>2, <1>3, <1>4, <1>5, <1>6 DEF Elsewhere

\* The steps beside the drive that change what an agent or a cancel is doing, the
\* other steps beside it, and those that end the turn of a candidate.
AgentSteps ==
  \/ \E r \in live : Settle(r)
  \/ CancelStart
  \/ \E r \in ctodo : CancelRun(r)
  \/ \E r \in cstopping : CancelSettled(r)
Beside ==
  \/ CancelConfirmed \/ CancelUnconfirmed \/ CancelThrows
  \/ \E r \in live : OrphanExits(r)
  \/ \E t \in Tasks : Approve(t)
  \/ UNCHANGED vars
PassesOn(c) == DispatchRefused(c) \/ RecordStarted(c) \/ PreparationFails(c)

\* A cancel closes no queued candidate: a run that confirmed it was not queued.
LEMMA BesideSettles ==
  ASSUME Inv, Beside
  PROVE  Settling
<1>1. CASE CancelConfirmed
  <2>1. queued' = queued /\ findings' = findings /\ validated' = validated /\ integrated' = integrated
    BY <1>1 DEF CancelConfirmed
  <2>2. ASSUME NEW t \in Tasks
        PROVE  /\ lease'[t].attempt = lease[t].attempt /\ lease'[t].kinds = lease[t].kinds
               /\ \/ lease'[t].state = lease[t].state
                  \/ Granted(t) /\ lease'[t].state = "revoked" /\ ~QueuedNow(t)
    <3>1. CASE ~(Run(t) \in cstopped /\ Granted(t))
      BY <1>1, <3>1 DEF CancelConfirmed
    <3>2. CASE Run(t) \in cstopped /\ Granted(t)
      <4>1. lease[t] \in LeaseType
        BY DEF Inv, BudgetInv
      <4>2. lease'[t] = TerminateTaskLease(lease[t], "revoked", result[t].used)
        BY <1>1, <3>2 DEF CancelConfirmed
      <4>3. ~QueuedNow(t)
        BY <3>2 DEF Inv, RunInv
      <4> QED
        BY <3>2, <4>1, <4>2, <4>3, TerminateFacts
    <3> QED
      BY <3>1, <3>2
  <2>3. ASSUME NEW t \in Tasks, QueuedNow(t) PROVE run'[t].reason = "completion"
    <3>1. run[t].reason = "completion" /\ Run(t) \notin cstopped
      BY <2>3 DEF Inv, LeaseInv, RunInv, CompletedRun
    <3> QED
      BY <1>1, <3>1 DEF CancelConfirmed
  <2>4. validated \subseteq Tasks /\ integrated \subseteq Tasks
    BY DEF Inv, ShapeInv
  <2> QED
    BY <2>1, <2>2, <2>3, <2>4 DEF Settling, PendingCandidate, QueuedNow, Closed
<1>2. CASE ~CancelConfirmed
  <2>1. /\ UNCHANGED <<lease, run, queued, validated, integrated>>
        /\ \A t \in Tasks : <<"integration_retry_scheduled", t>> \in findings'
             => <<"integration_retry_scheduled", t>> \in findings
    BY <1>2 DEF Beside, CancelUnconfirmed, CancelThrows, OrphanExits, Approve, vars, facts
  <2> QED
    BY <2>1, QuietSettles
<1> QED
  BY <1>1, <1>2

\* Whatever agents and a cancel do, the drive is where it was.
LEMMA BesideAside ==
  ASSUME Inv, Beside
  PROVE  Aside /\ Fading /\ UNCHANGED <<integrated, result, pool>>
BY DEF Beside, Aside, Fading, CancelConfirmed, CancelUnconfirmed, CancelThrows, CancelEnds,
   OrphanExits, Approve, vars, facts, drive, agents, cancelling

\* Agents and the stopping of runs write nothing the authority keeps (agent-pool.ts).
LEMMA AgentStepsSettle ==
  ASSUME Inv, AgentSteps
  PROVE  Settling /\ Aside /\ UNCHANGED facts
<1>1. UNCHANGED facts /\ UNCHANGED drive
  BY DEF AgentSteps, Settle, CancelStart, CancelRun, CancelSettled
<1> QED
  BY <1>1, QuietSettles DEF facts, drive, Aside

\* The lease that PreparationFails revokes was granted for the attempt being
\* prepared, which has queued nothing.
LEMMA PassesOnSettles ==
  ASSUME Inv, NEW c \in todo, PassesOn(c)
  PROVE  Settling /\ Fading /\ NextCandidate(c) /\ Turn(c) /\ Dispatching
         /\ integrated' = integrated
         /\ \/ running' = running
            \/ Preparing /\ running' = running \cup {c.task}
<1>0. c.task \in Tasks
  BY DEF Inv, ShapeInv, Entries
<1>1. /\ Fading /\ NextCandidate(c) /\ Turn(c) /\ Dispatching /\ integrated' = integrated
      /\ running' = running \/ (Preparing /\ running' = running \cup {c.task})
  BY DEF PassesOn, DispatchRefused, RecordStarted, PreparationFails, Fading, Dispatching, Preparing,
     agents, cancelling
<1>2. CASE DispatchRefused(c)
  <2>1. /\ UNCHANGED <<lease, run, queued, validated, integrated>>
        /\ \A t \in Tasks : <<"integration_retry_scheduled", t>> \in findings'
             => <<"integration_retry_scheduled", t>> \in findings
    BY <1>2 DEF DispatchRefused, RefuseCandidate, RequestApproval, CreateFinding, NoFinding
  <2> QED
    BY <1>1, <2>1, QuietSettles
<1>3. CASE RecordStarted(c)
  <2>1. /\ UNCHANGED <<lease, queued, findings, validated, integrated>>
        /\ run' = [run EXCEPT ![c.task].started = TRUE]
    BY <1>3 DEF RecordStarted
  <2>2. \A t \in Tasks : run'[t].reason = run[t].reason
    BY <1>0, <2>1 DEF Inv, BudgetInv, RunType
  <2>3. \A t \in Tasks : QueuedNow(t) => run[t].reason = "completion"
    BY DEF Inv, LeaseInv, CompletedRun
  <2>4. validated \subseteq Tasks /\ integrated \subseteq Tasks
    BY DEF Inv, ShapeInv
  <2> QED
    BY <1>1, <2>1, <2>2, <2>3, <2>4 DEF Settling
<1>4. CASE PreparationFails(c)
  <2>1. UNCHANGED <<run, queued, validated, integrated>>
    BY <1>4 DEF PreparationFails
  <2>2. ~PendingCandidate(c.task)
    BY <1>4 DEF PreparationFails, Inv, DispatchInv, Preparing, PendingCandidate, QueuedNow
  <2>3. UNCHANGED lease \/ (Granted(c.task) /\ Close(c.task, "revoked", 0))
    BY <1>4 DEF PreparationFails
  <2>4. \A u \in Tasks :
           /\ lease'[u].attempt = lease[u].attempt /\ lease'[u].kinds = lease[u].kinds
           /\ \/ lease'[u].state = lease[u].state
              \/ /\ Granted(u) /\ lease'[u].state \in Closed
                 /\ PendingCandidate(u) => lease'[u].state = "released"
    BY <1>0, <2>2, <2>3, CloseSettles DEF Closed
  <2>5. \A t \in Tasks : <<"integration_retry_scheduled", t>> \in findings'
          => <<"integration_retry_scheduled", t>> \in findings
    BY <1>4 DEF PreparationFails, CreateFinding
  <2>6. \A t \in Tasks : QueuedNow(t) => run[t].reason = "completion"
    BY DEF Inv, LeaseInv, CompletedRun
  <2>7. validated \subseteq Tasks /\ integrated \subseteq Tasks
    BY DEF Inv, ShapeInv
  <2> QED
    BY <1>1, <2>1, <2>4, <2>5, <2>6, <2>7 DEF Settling
<1> QED
  BY <1>2, <1>3, <1>4 DEF PassesOn

\* A run that is classified was not queued yet; unless it is queued now, its lease
\* is closed (scheduler.ts classifyRun).
LEMMA ClassifySettles ==
  ASSUME Inv, NEW t \in Tasks, Classify(t), ~QueueCandidate(t)
  PROVE  Settling
<1> DEFINE OtherRules == {"none"} \cup (Rules \ {"integration_retry_scheduled"})
<1>1. PICK reason \in Reasons, state \in Closed, rule \in OtherRules : Settlement(t, reason, state, rule)
  <2>1. ClassifyRun(t)
    BY DEF Classify
  <2>2. CASE result[t].kind \in {"throw", "crash"}
    <3>1. ClassifyCrash(t)
      BY <2>1, <2>2 DEF ClassifyRun
    <3>2. \E rule \in OtherRules : Settlement(t, "adapter_failure", "expired", rule)
      BY <3>1 DEF ClassifyCrash, Rules
    <3> QED
      BY <3>2 DEF Reasons, Closed
  <2>3. CASE result[t].kind = "complete"
    <3>1. ClassifyCompletion(t)
      BY <2>1, <2>3 DEF ClassifyRun
    <3>2. \/ Settlement(t, "gate_failure", "revoked", "task_gate_failed")
          \/ Settlement(t, "policy_denial", "revoked", "write_set_violation")
      BY <3>1 DEF ClassifyCompletion
    <3> QED
      BY <3>2 DEF Reasons, Closed, Rules
  <2>4. CASE result[t].kind \notin {"throw", "crash", "complete"}
    <3>1. \/ \E reason \in ClaimedReasons : Settlement(t, reason, "revoked", "undeclared_write")
          \/ \E rule \in {"none", "undeclared_write"} :
               Settlement(t, "user_cancellation", "revoked", rule)
          \/ \E reason \in ClaimedReasons : Settlement(t, reason, "released", "run_terminated")
      BY <2>1, <2>4 DEF ClassifyRun
    <3> QED
      BY <3>1 DEF ClaimedReasons, Reasons, Closed, Rules
  <2> QED
    BY <2>2, <2>3, <2>4
<1>2. ~QueuedNow(t) /\ Granted(t)
  <2>1. t \in running /\ CanTerminate(t, result[t].used)
    BY <1>1 DEF Classify, First, Settlement
  <2> QED
    BY <2>1 DEF Inv, RunInv, CanTerminate
<1>3. \A u \in Tasks :
         /\ lease'[u].attempt = lease[u].attempt /\ lease'[u].kinds = lease[u].kinds
         /\ \/ lease'[u].state = lease[u].state
            \/ /\ Granted(u) /\ lease'[u].state \in Closed
               /\ PendingCandidate(u) => lease'[u].state = "released"
  BY <1>1, <1>2, CloseSettles DEF Settlement, PendingCandidate, QueuedNow
<1>4. \A u \in Tasks : <<"integration_retry_scheduled", u>> \in findings'
        => <<"integration_retry_scheduled", u>> \in findings
  BY <1>1 DEF Settlement, CreateFinding, NoFinding
<1>5. ASSUME NEW u \in Tasks, QueuedNow(u) PROVE run'[u].reason = "completion"
  <2>1. run[u].reason = "completion" /\ u # t
    BY <1>2, <1>5 DEF Inv, LeaseInv, CompletedRun
  <2> QED
    BY <1>1, <2>1 DEF Settlement, RecordRun, Inv, BudgetInv
<1>6. UNCHANGED <<validated, integrated, queued>>
  BY <1>1 DEF Classify, Settlement
<1>7. validated \subseteq Tasks /\ integrated \subseteq Tasks
  BY DEF Inv, ShapeInv
<1> QED
  BY <1>3, <1>4, <1>5, <1>6, <1>7 DEF Settling

\* The remaining steps of the drive write no fact.
Quietly == DrivePass \/ AwaitSettled \/ \E c \in todo : StartRun(c)
\* A pass, the wait for settled runs and the start of an agent commit no
\* transition (scheduler.ts driveOnce, startRun).
LEMMA QuietlySettles ==
  ASSUME Inv, Quietly
  PROVE  Settling /\ UNCHANGED facts
<1>1. UNCHANGED facts
  BY DEF Quietly, DrivePass, AwaitSettled, StartRun
<1> QED
  BY <1>1, QuietSettles DEF facts

-----------------------------------------------------------------------------
(* The steps that settle keep the invariants.                              *)

\* A step that settles starts no attempt and queues no candidate.
LEMMA SettlingKeepsRuns ==
  ASSUME Settling, NEW t \in Tasks
  PROVE  /\ QueuedNow(t)' <=> QueuedNow(t)
         /\ Run(t)' = Run(t)
         /\ EarlierDone(t) => EarlierDone(t)'
         /\ lease'[t].attempt = lease[t].attempt
BY Zenon DEF Settling, QueuedNow, Run, EarlierDone

\* A step that settles keeps what ties leases, candidates, validation and waves.
LEMMA SettlingKeepsLeases ==
  ASSUME Inv, Settling
  PROVE  LeaseInv' /\ WaveInv'
<1>1. ASSUME NEW t \in Tasks
      PROVE  /\ (lease'[t].state = "none" <=> lease'[t].attempt = 0)
             /\ \A n \in queued'[t] : n <= lease'[t].attempt
             /\ QueuedNow(t)' => CompletedRun(t)'
             /\ t \in validated' => QueuedNow(t)'
  <2>1. lease'[t].attempt = lease[t].attempt /\ lease'[t].kinds = lease[t].kinds /\ queued' = queued
    BY Zenon DEF Settling
  <2>2. lease'[t].state = "none" <=> lease[t].state = "none"
    BY Zenon DEF Settling, Granted, Closed
  <2>3. QueuedNow(t)' <=> QueuedNow(t)
    BY SettlingKeepsRuns
  <2>4. QueuedNow(t)' => CompletedRun(t)'
    BY <2>3, Zenon DEF Settling, CompletedRun
  <2>5. t \in validated' => QueuedNow(t)'
    BY <2>3, Zenon DEF Settling, Inv, LeaseInv
  <2> QED
    BY <2>1, <2>2, <2>4, <2>5 DEF Inv, LeaseInv
<1>2. LeaseInv'
  BY <1>1 DEF LeaseInv
<1>3. ASSUME NEW t \in integrated' PROVE lease'[t].state = "released" /\ t \in validated'
  <2>1. CASE t \in integrated
    <3>1. t \in Tasks /\ lease[t].state = "released" /\ t \in validated
      BY <2>1 DEF Inv, ShapeInv, WaveInv
    <3> QED
      BY <2>1, <3>1, Zenon DEF Settling, Granted
  <2>2. CASE t \notin integrated
    BY <1>3, <2>2 DEF Settling
  <2> QED
    BY <2>1, <2>2
<1>4. ASSUME NEW t \in Tasks,
             lease'[t].attempt > 0 \/ <<"integration_retry_scheduled", t>> \in findings'
      PROVE  EarlierDone(t)'
  <2>1. lease[t].attempt > 0 \/ <<"integration_retry_scheduled", t>> \in findings \/ EarlierDone(t)
    BY <1>4 DEF Settling
  <2>2. EarlierDone(t)
    BY <2>1 DEF Inv, WaveInv
  <2> QED
    BY <2>2, SettlingKeepsRuns
<1>5. WaveInv'
  BY <1>3, <1>4 DEF WaveInv
<1> QED
  BY <1>2, <1>5

\* With no candidate left in turn there is nothing to say of candidates.
LEMMA NoDispatch ==
  ASSUME phase' \notin {"dispatch", "prepare", "starting"}
  PROVE  DispatchInv'
BY DEF DispatchInv, Dispatching, Preparing, Waiting

\* What settles and fades keeps the part of RunInv that is not about the drive.
LEMMA FadingKeepsRuns ==
  ASSUME Inv, Settling, Fading
  PROVE  /\ \A t \in Tasks : result'[t] # NoResult => ~QueuedNow(t)'
         /\ \A t \in Tasks : Run(t)' \in pool' => ~QueuedNow(t)' /\ result'[t] = NoResult
         /\ \A t \in Tasks : Run(t)' \in cstopped' => ~QueuedNow(t)'
         /\ \A r \in pool' \cup Stopping' : r[2] <= lease'[r[1]].attempt
         /\ canceller' = "none" => ctodo' = {} /\ Stopping' = {}
         /\ Stopping' \subseteq Stopping
<1>1. \A t \in Tasks : (QueuedNow(t)' <=> QueuedNow(t)) /\ Run(t)' = Run(t)
  BY SettlingKeepsRuns
<1>2. Stopping' \subseteq Stopping /\ pool' \subseteq pool /\ cstopped' \subseteq cstopped
  BY DEF Fading, Stopping
<1>3. /\ \A t \in Tasks : result[t] # NoResult => ~QueuedNow(t)
      /\ \A t \in Tasks : Run(t) \in pool => ~QueuedNow(t) /\ result[t] = NoResult
      /\ \A t \in Tasks : Run(t) \in cstopped => ~QueuedNow(t)
      /\ \A r \in pool \cup Stopping : r[2] <= lease[r[1]].attempt
      /\ canceller = "none" => ctodo = {} /\ Stopping = {}
  BY DEF Inv, RunInv
<1>4. \A t \in Tasks : result'[t] \in {result[t], NoResult}
  BY DEF Fading
<1>5. \A r \in pool' \cup Stopping' : r[2] <= lease'[r[1]].attempt
  <2> TAKE r \in pool' \cup Stopping'
  <2>1. r \in pool \cup Stopping /\ r[1] \in Tasks
    BY <1>2 DEF Inv, ShapeInv, Runs
  <2> QED
    BY <1>3, <2>1, Zenon DEF Settling
<1>6. canceller' = "none" => ctodo' = {} /\ Stopping' = {}
  BY <1>3 DEF Fading, Stopping
<1> QED
  BY <1>1, <1>2, <1>3, <1>4, <1>5, <1>6
=============================================================================
