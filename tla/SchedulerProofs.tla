-------------------------- MODULE SchedulerProofs ---------------------------
(***************************************************************************)
(* Safety of the scheduler for every plan, budget, policy and number of    *)
(* processes, failures and cancels: budgets, retries, the order of waves,  *)
(* what is integrated and what becomes of completed work.                  *)
(***************************************************************************)
EXTENDS SchedulerKeeps, FiniteSetTheorems

\* A lease is granted for a new attempt, which nothing has queued, no agent works
\* on and no cancel stops (scheduler.ts dispatchCandidate, lease.ts
\* grantTaskLease).
LEMMA GrantKeeps ==
  ASSUME Inv, NEW c \in todo, DispatchGranted(c)
  PROVE  LeaseInv' /\ WaveInv' /\ DispatchInv' /\ RunInv'
<1> DEFINE t == c.task
           l == lease[t]
<1>1. /\ phase = "dispatch" /\ phase' = "prepare" /\ Turn(c)
      /\ lease' = GrantTaskLease(t, c.kind) /\ run' = [run EXCEPT ![t] = NoRun]
      /\ result' = [result EXCEPT ![t] = NoResult] /\ validated' = validated \ {t}
      /\ UNCHANGED <<queued, findings, integrated, todo, running, pool, canceller, ctodo, cstopping, cstopped>>
  BY DEF DispatchGranted, cancelling
<1>2. /\ t \in Tasks /\ l \in LeaseType /\ DOMAIN lease = Tasks /\ DOMAIN result = Tasks
      /\ DOMAIN run = Tasks
  BY DEF Inv, ShapeInv, Entries, BudgetInv
<1>3. /\ lease'[t].attempt = l.attempt + 1 /\ lease'[t].state = "granted"
      /\ \A u \in Tasks : u # t => lease'[u] = lease[u]
  BY <1>1, <1>2 DEF GrantTaskLease
<1>4. /\ t \notin running /\ t \notin integrated /\ EarlierDone(t)
      /\ \A d \in todo : d.task = t => d = c
  BY <1>1 DEF Inv, DispatchInv, Dispatching, Waiting
<1>5. l.attempt \in Nat /\ (\A n \in queued[t] : n <= l.attempt) /\ queued[t] \subseteq Nat
  BY <1>2 DEF LeaseType, Inv, LeaseInv, ShapeInv
<1> HIDE DEF t, l
<1>6. ~QueuedNow(t)'
  BY <1>1, <1>3, <1>5 DEF QueuedNow
<1>7. /\ \A u \in Tasks : u # t => (QueuedNow(u)' <=> QueuedNow(u)) /\ Run(u)' = Run(u)
                                   /\ result'[u] = result[u] /\ run'[u] = run[u]
      /\ \A u : EarlierDone(u)' = EarlierDone(u)
      /\ Stopping' = Stopping /\ result'[t] = NoResult
  BY <1>1, <1>2, <1>3 DEF QueuedNow, Run, EarlierDone, Stopping
<1>8. Run(t)' \notin pool \cup Stopping
  <2>1. Run(t)'[1] = t /\ Run(t)'[2] = l.attempt + 1
    BY <1>3 DEF Run
  <2>2. \A r \in pool \cup Stopping : r[2] <= lease[r[1]].attempt
    BY DEF Inv, RunInv
  <2> QED
    BY <1>5, <2>1, <2>2 DEF l
<1>9. LeaseInv'
  <2>2. /\ lease'[t].state = "none" <=> lease'[t].attempt = 0
        /\ \A n \in queued'[t] : n <= lease'[t].attempt
    BY <1>1, <1>3, <1>5
  <2>3. ASSUME NEW u \in Tasks, u # t
        PROVE  /\ lease'[u].state = "none" <=> lease'[u].attempt = 0
               /\ \A n \in queued'[u] : n <= lease'[u].attempt
               /\ QueuedNow(u)' => CompletedRun(u)'
               /\ u \in validated' => QueuedNow(u)'
    BY <1>1, <1>3, <1>7, <2>3 DEF Inv, LeaseInv, CompletedRun
  <2>4. t \notin validated'
    BY <1>1
  <2> QED
    BY <1>6, <2>2, <2>3, <2>4 DEF LeaseInv
<1>10. WaveInv'
  <2>1. ASSUME NEW u \in integrated PROVE lease'[u].state = "released" /\ u \in validated'
    <3>1. u \in Tasks /\ u # t /\ lease[u].state = "released" /\ u \in validated
      BY <1>4 DEF Inv, ShapeInv, WaveInv
    <3> QED
      BY <1>1, <1>3, <3>1
  <2> QED
    BY <1>1, <1>3, <1>4, <1>7, <2>1 DEF Inv, WaveInv
<1>11. DispatchInv'
  <2>1. \A d : Turn(d)' = Turn(d)
    BY <1>1 DEF Turn
  <2>2. \A d \in todo : Turn(d) => d = c
    BY <1>1, OneTurn
  <2>3. /\ \A d, e \in todo : d.task = e.task => d = e
        /\ \A d \in todo : d.task \notin running /\ d.task \notin integrated /\ EarlierDone(d.task)
        /\ \A d \in todo : d.task \in Tasks
        /\ \A d \in todo : d.kind = "none" => lease[d.task].attempt = 0
    BY <1>1 DEF Inv, ShapeInv, Entries, DispatchInv, Dispatching, Waiting
  <2>4. \A d \in todo : ~Turn(d) => d.task # t
    BY <1>1, <1>4
  <2>5. \A d \in todo : ~Turn(d) /\ d.kind = "none" => lease'[d.task].attempt = 0
    BY <1>3, <2>3, <2>4
  <2>6. \A d \in todo : Turn(d) => d.task = t
    BY <2>2 DEF t
  <2> QED
    BY <1>1, <1>6, <1>7, <1>8, <2>1, <2>3, <2>5, <2>6 DEF DispatchInv, Dispatching, Preparing, Waiting
<1>12. RunInv'
  <2>1. \A r \in pool \cup Stopping : r[2] <= lease'[r[1]].attempt
    <3> TAKE r \in pool \cup Stopping
    <3>1. r[1] \in Tasks /\ r[2] \in Nat /\ r[2] <= lease[r[1]].attempt
      BY DEF Inv, ShapeInv, RunInv, Runs
    <3>2. CASE r[1] = t
      BY <1>3, <1>5, <3>1, <3>2 DEF l
    <3>3. CASE r[1] # t
      BY <1>3, <3>1, <3>3
    <3> QED
      BY <3>2, <3>3
  <2>2. \A u \in running' : ~QueuedNow(u)'
    BY <1>1, <1>4, <1>7 DEF Inv, RunInv, ShapeInv
  <2>3. ASSUME NEW u \in Tasks
        PROVE  /\ result'[u] # NoResult => ~QueuedNow(u)'
               /\ Run(u)' \in pool' => ~QueuedNow(u)' /\ result'[u] = NoResult
               /\ Run(u)' \in cstopped' => ~QueuedNow(u)'
    <3>1. CASE u = t
      BY <1>6, <1>7, <3>1
    <3>2. CASE u # t
      BY <1>1, <1>7, <3>2 DEF Inv, RunInv
    <3> QED
      BY <3>1, <3>2
  <2>4. canceller' = "none" => ctodo' = {} /\ Stopping' = {}
    BY <1>1, <1>7 DEF Inv, RunInv
  <2> QED
    BY <1>1, <1>7, <2>1, <2>2, <2>3, <2>4 DEF RunInv, Dispatching
<1> QED
  BY <1>9, <1>10, <1>11, <1>12

\* Every step is one of these.
LEMMA Steps ==
  ASSUME [Next]_vars
  PROVE  \/ Elsewhere \/ Beside \/ AgentSteps \/ Quietly
         \/ \E c \in todo : PassesOn(c) \/ DispatchGranted(c)
         \/ \E t \in Tasks : Classify(t)
BY DEF Next, DriverStep, CancelStep, Failure, Elsewhere, Beside, AgentSteps, Quietly, PassesOn

\* Every step keeps the types of what the drive and a cancel hold.
LEMMA NextShape ==
  ASSUME Inv, [Next]_vars
  PROVE  ShapeInv'
<1>0. ShapeInv
  BY DEF Inv
<1>1. queued' \in [Tasks -> SUBSET Nat] /\ validated' \subseteq Tasks /\ integrated' \subseteq Tasks
  <2>1. ASSUME Settling PROVE <1>1!:
    BY <1>0, <2>1 DEF Settling, ShapeInv
  <2>2. ASSUME NEW c \in todo, DispatchGranted(c) PROVE <1>1!:
    BY <1>0, <2>2 DEF DispatchGranted, ShapeInv
  <2>3. ASSUME NEW t \in Tasks, Classify(t) PROVE <1>1!:
    <3>1. CASE QueueCandidate(t)
      <4>1. lease[t].attempt \in Nat
        BY DEF Inv, BudgetInv, LeaseType
      <4> QED
        BY <1>0, <2>3, <3>1, <4>1 DEF QueueCandidate, Classify, ShapeInv
    <3>2. CASE ~QueueCandidate(t)
      BY <2>1, <2>3, <3>2, ClassifySettles
    <3> QED
      BY <3>1, <3>2
  <2> QED
    BY <2>1, <2>2, <2>3, Steps, ElsewhereSettles, BesideSettles, AgentStepsSettle, QuietlySettles,
       PassesOnSettles
<1>2. todo' \subseteq Entries /\ running' \subseteq Tasks
  <2>1. CASE Elsewhere
    BY <1>0, <2>1, ElsewhereAway DEF Away, ShapeInv
  <2>2. CASE Beside \/ AgentSteps
    BY <1>0, <2>2, BesideAside, AgentStepsSettle DEF Aside, ShapeInv
  <2>3. CASE Quietly
    <3>1. Dispatchable(IdleSlots) \subseteq Entries
      BY Selected
    <3> QED
      BY <1>0, <2>3, <3>1 DEF Quietly, DrivePass, AwaitSettled, StartRun, Return, ShapeInv
  <2>4. ASSUME NEW c \in todo, PassesOn(c) \/ DispatchGranted(c) PROVE <1>2!:
    <3>1. c.task \in Tasks
      BY <1>0 DEF ShapeInv, Entries
    <3> QED
      BY <1>0, <2>4, <3>1, PassesOnSettles DEF DispatchGranted, NextCandidate, ShapeInv
  <2>5. ASSUME NEW t \in Tasks, Classify(t) PROVE <1>2!:
    BY <1>0, <2>5 DEF Classify, ShapeInv
  <2> QED
    BY <2>1, <2>2, <2>3, <2>4, <2>5, Steps
<1>3. pool' \cup ctodo' \cup Stopping' \subseteq Runs
  <2>0. \A t \in Tasks : Run(t) \in Runs
    BY DEF Run, Runs, Inv, BudgetInv, LeaseType
  <2>1. ASSUME Fading PROVE <1>3!:
    BY <1>0, <2>1 DEF Fading, ShapeInv, Stopping
  <2>2. CASE AgentSteps
    BY <1>0, <2>0, <2>2 DEF AgentSteps, Settle, CancelStart, CancelRun, CancelSettled, agents,
       cancelling, ShapeInv, Stopping
  <2>3. CASE Quietly
    <3>1. ASSUME NEW c \in todo, StartRun(c) PROVE <1>3!:
      <4>1. c.task \in Tasks
        BY <1>0 DEF ShapeInv, Entries
      <4> QED
        BY <1>0, <2>0, <3>1, <4>1 DEF StartRun, cancelling, ShapeInv, Stopping
    <3>2. CASE DrivePass \/ AwaitSettled
      BY <1>0, <3>2 DEF DrivePass, AwaitSettled, agents, cancelling, ShapeInv, Stopping
    <3> QED
      BY <2>3, <3>1, <3>2 DEF Quietly
  <2>4. ASSUME NEW c \in todo, DispatchGranted(c) PROVE <1>3!:
    BY <1>0, <2>4 DEF DispatchGranted, cancelling, ShapeInv, Stopping
  <2>5. ASSUME NEW t \in Tasks, Classify(t) PROVE <1>3!:
    BY <1>0, <2>5 DEF Classify, cancelling, ShapeInv, Stopping
  <2> QED
    BY <2>1, <2>2, <2>3, <2>4, <2>5, Steps, ElsewhereAway, BesideAside, PassesOnSettles
<1> QED
  BY <1>1, <1>2, <1>3 DEF ShapeInv

\* Every step of the driver, of a cancel, of an agent and of the environment keeps
\* the invariant.
LEMMA NextInv ==
  ASSUME Inv, [Next]_vars
  PROVE  Inv'
<1>1. BudgetInv' /\ ShapeInv'
  BY NextBudgetInv, NextShape DEF Inv, ShapeInv
<1>2. LeaseInv' /\ WaveInv' /\ DispatchInv' /\ RunInv'
  <2>1. CASE Elsewhere
    BY <2>1, ElsewhereAway, ElsewhereSettles, AwayKeeps, SettlingKeepsLeases
  <2>2. CASE Beside
    BY <2>2, BesideAside, BesideSettles, AsideKeeps, SettlingKeepsLeases
  <2>3. CASE AgentSteps
    BY <2>3, AgentStepsSettle, AgentStepsKeep, SettlingKeepsLeases
  <2>4. CASE Quietly
    BY <2>4, QuietlySettles, QuietlyKeeps, SettlingKeepsLeases
  <2>5. ASSUME NEW c \in todo, PassesOn(c) PROVE <1>2!:
    BY <2>5, PassesOnSettles, PassesOnKeeps, SettlingKeepsLeases
  <2>6. ASSUME NEW c \in todo, DispatchGranted(c) PROVE <1>2!:
    BY <2>6, GrantKeeps
  <2>7. ASSUME NEW t \in Tasks, Classify(t) PROVE <1>2!:
    BY <2>7, ClassifyKeeps
  <2> QED
    BY <2>1, <2>2, <2>3, <2>4, <2>5, <2>6, <2>7, Steps
<1> QED
  BY <1>1, <1>2 DEF Inv

\* The invariant holds throughout, over crashes and restarts.
LEMMA Invariance == Spec => []Inv
<1>1. Inv /\ [Next]_vars => Inv'
  BY NextInv
<1> QED
  BY <1>1, InitInv, PTL DEF Spec
-----------------------------------------------------------------------------
(* What the scheduler promises.                                            *)

\* No task outruns its approved budget, over all attempts and processes: what its
\* closed leases charged and its open one reserves stays within the plan's figure
\* (lease.ts grantTaskLease and terminateTaskLease, budget.ts reserveTaskBudget).
THEOREM TaskBudgetSafe == Spec => []TaskBudgetKept
<1>1. Inv => TaskBudgetKept
  <2> SUFFICES ASSUME Inv, NEW t \in Tasks PROVE Charged(t) <= TaskBudget[t]
    BY DEF TaskBudgetKept
  <2>1. lease[t].spent \in Nat /\ lease[t].reserved \in Nat
    BY DEF Inv, BudgetInv, LeaseType
  <2> QED
    BY <2>1 DEF Inv, BudgetInv, WithinBudget, Charged, Granted
<1> QED
  BY <1>1, Invariance, PTL

\* No task is leased before the waves before its own are integrated, whatever
\* retries, restarts and cancels come between selection and grant (readiness.ts
\* selectReadyTasks, scheduler.ts dispatchCandidate).
THEOREM WavesInOrder == Spec => []WaveOrder
<1>1. Inv => WaveOrder
  BY Zenon DEF Inv, WaveInv, EarlierDone, WaveOrder
<1> QED
  BY <1>1, Invariance, PTL

\* Only completed, queued, validated and released work is integrated, and it stays
\* so (scheduler.ts integrateWave, scheduler-runtime.ts commit).
THEOREM IntegrationSound == Spec => []IntegratedWasValidated
<1>1. Inv => IntegratedWasValidated
  BY DEF Inv, ShapeInv, WaveInv, LeaseInv, QueuedNow, IntegratedWasValidated
<1> QED
  BY <1>1, Invariance, PTL

\* No step closes the lease of a completed and queued candidate other than as
\* released: recovery replays it and a cancel spares it (recovery.ts
\* recoverSchedulingOperation, scheduler.ts cancel).
THEOREM WorkKept == Spec => CompletedWorkKept
<1>1. ASSUME Inv, [Next]_vars, NEW t \in Tasks, Granted(t), PendingCandidate(t), ~Granted(t)'
      PROVE  lease'[t].state = "released"
  <2>1. ASSUME Settling PROVE lease'[t].state = "released"
    BY <1>1, <2>1, Zenon DEF Settling, Granted
  <2>2. ASSUME NEW c \in todo, DispatchGranted(c) PROVE FALSE
    <3>1. lease' = GrantTaskLease(c.task, c.kind) /\ DOMAIN lease = Tasks
      BY <1>1, <2>2 DEF DispatchGranted, Inv, BudgetInv
    <3>2. lease'[t].state = "granted"
      BY <1>1, <3>1 DEF GrantTaskLease, Granted
    <3> QED
      BY <1>1, <3>2 DEF Granted
  <2>3. ASSUME NEW u \in Tasks, Classify(u) PROVE lease'[t].state = "released"
    <3>1. CASE QueueCandidate(u)
      BY <1>1, <3>1 DEF QueueCandidate, Granted
    <3>2. CASE ~QueueCandidate(u)
      BY <1>1, <2>1, <2>3, <3>2, ClassifySettles
    <3> QED
      BY <3>1, <3>2
  <2> QED
    BY <1>1, <2>1, <2>2, <2>3, Steps, ElsewhereSettles, BesideSettles, AgentStepsSettle,
       QuietlySettles, PassesOnSettles
<1>2. Inv /\ [Next]_vars => [\A t \in Tasks : Granted(t) /\ PendingCandidate(t) /\ ~Granted(t)'
                               => lease'[t].state = "released"]_vars
  BY <1>1
<1> QED
  BY <1>2, Invariance, PTL DEF Spec, CompletedWorkKept

\* Inv and the property are inductive together: a first attempt is granted only when
\* there was none, and any other one uses a retry kind its task has not used.
LEMMA NextCounts ==
  ASSUME Inv, AttemptsAreRetries, [Next]_vars
  PROVE  AttemptsAreRetries'
<1>1. ASSUME NEW t \in Tasks, lease'[t].attempt = lease[t].attempt, lease'[t].kinds = lease[t].kinds
      PROVE  lease'[t].attempt <= 1 + Cardinality(lease'[t].kinds)
  BY <1>1 DEF AttemptsAreRetries
<1>2. ASSUME Settling PROVE AttemptsAreRetries'
  <2>1. \A t \in Tasks : lease'[t].attempt = lease[t].attempt /\ lease'[t].kinds = lease[t].kinds
    BY <1>2, Zenon DEF Settling
  <2> QED
    BY <1>1, <2>1 DEF AttemptsAreRetries
<1>3. ASSUME NEW c \in todo, DispatchGranted(c) PROVE AttemptsAreRetries'
  <2> DEFINE t == c.task
             l == lease[t]
  <2>1. /\ phase = "dispatch" /\ CanGrant(t, c.kind) /\ lease' = GrantTaskLease(t, c.kind)
        /\ t \in Tasks /\ l \in LeaseType /\ DOMAIN lease = Tasks
    BY <1>3 DEF DispatchGranted, Inv, ShapeInv, Entries, BudgetInv
  <2>2. /\ lease'[t].attempt = l.attempt + 1
        /\ lease'[t].kinds = l.kinds \cup ({c.kind} \ {"none"})
        /\ \A u \in Tasks : u # t => lease'[u] = lease[u]
    BY <2>1 DEF GrantTaskLease
  <2>3. l.kinds \subseteq RetryKinds /\ l.attempt \in Nat /\ l.attempt <= 1 + Cardinality(l.kinds)
    BY <2>1 DEF LeaseType, AttemptsAreRetries
  <2>4. c.kind = "none" => l.attempt = 0
    BY <2>1 DEF Inv, DispatchInv, Waiting
  <2>5. c.kind \notin l.kinds
    BY <2>1 DEF CanGrant
  <2> HIDE DEF t, l
  <2>6. IsFiniteSet(l.kinds) /\ Cardinality(l.kinds) \in Nat
    <3>1. IsFiniteSet(({} \cup {"executor_retry"}) \cup {"integration_retry"})
      BY FS_EmptySet, FS_AddElement, Zenon
    <3>2. RetryKinds = ({} \cup {"executor_retry"}) \cup {"integration_retry"}
      BY DEF RetryKinds
    <3>3. IsFiniteSet(l.kinds)
      BY <2>3, <3>1, <3>2, FS_Subset
    <3> QED
      BY <3>3, FS_CardinalityType
  <2>7. lease'[t].attempt <= 1 + Cardinality(lease'[t].kinds)
    <3>1. CASE c.kind = "none"
      <4>1. lease'[t].kinds = l.kinds /\ l.attempt = 0
        BY <2>2, <2>4, <3>1
      <4>2. Cardinality(lease'[t].kinds) \in Nat
        BY <2>6, <4>1, Zenon
      <4> QED
        BY <2>2, <4>1, <4>2
    <3>2. CASE c.kind # "none"
      <4>1. lease'[t].kinds = l.kinds \cup {c.kind}
        BY <2>2, <3>2
      <4>2. Cardinality(lease'[t].kinds) = Cardinality(l.kinds) + 1
        BY <2>5, <2>6, <4>1, FS_AddElement, Zenon
      <4> QED
        BY <2>2, <2>3, <2>6, <4>2
    <3> QED
      BY <3>1, <3>2
  <2> QED
    BY <1>1, <2>2, <2>7, Zenon DEF AttemptsAreRetries
<1>4. ASSUME NEW t \in Tasks, Classify(t) PROVE AttemptsAreRetries'
  <2>1. CASE QueueCandidate(t)
    BY <2>1 DEF QueueCandidate, AttemptsAreRetries
  <2>2. CASE ~QueueCandidate(t)
    BY <1>2, <1>4, <2>2, ClassifySettles
  <2> QED
    BY <2>1, <2>2
<1> QED
  BY <1>2, <1>3, <1>4, Steps, ElsewhereSettles, BesideSettles, AgentStepsSettle, QuietlySettles,
     PassesOnSettles

\* Every attempt after the first uses a retry kind of its own, so attempts are
\* bounded by the retry kinds (lease.ts grantTaskLease, readiness.ts).
THEOREM RetriesBounded == Spec => []AttemptsAreRetries
<1>1. Init => AttemptsAreRetries
  <2> SUFFICES ASSUME Init, NEW t \in Tasks PROVE lease[t].attempt <= 1 + Cardinality(lease[t].kinds)
    BY DEF AttemptsAreRetries
  <2>1. lease[t].attempt = 0 /\ lease[t].kinds = {}
    BY DEF Init, FactsInit, NoLease
  <2>2. Cardinality(lease[t].kinds) = 0
    BY <2>1, FS_EmptySet, Zenon
  <2> QED
    BY <2>1, <2>2
<1>2. Inv /\ AttemptsAreRetries /\ [Next]_vars => AttemptsAreRetries'
  BY NextCounts
<1> QED
  BY <1>1, <1>2, Invariance, PTL DEF Spec
=============================================================================
