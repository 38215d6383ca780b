--------------------------- MODULE SchedulerKeeps ---------------------------
(***************************************************************************)
(* The steps of the scheduler that settle keep its invariant, and so does  *)
(* the classification of a run.                                            *)
(***************************************************************************)
EXTENDS SchedulerSteps

\* With the drive outside of dispatch and classification there is no candidate and
\* no run in hand to say anything about.
LEMMA AwayKeeps ==
  ASSUME Inv, Settling, Fading, Away
  PROVE  DispatchInv' /\ RunInv'
<1>1. DispatchInv'
  BY NoDispatch DEF Away, DrivePhases
<1>2. running' = {} /\ phase' # "close"
  BY DEF Away, DrivePhases, Inv, RunInv, Dispatching
<1> QED
  BY <1>1, <1>2, FadingKeepsRuns DEF RunInv

\* A step of a cancel or of the environment leaves the drive's candidates and runs
\* as they are (scheduler.ts cancel runs beside driveOnce).
LEMMA AsideKeeps ==
  ASSUME Inv, Settling, Fading, Aside, UNCHANGED <<integrated, result, pool>>
  PROVE  DispatchInv' /\ RunInv'
<1>1. /\ UNCHANGED <<phase, todo, running, integrated, result, pool>>
      /\ Dispatching' = Dispatching /\ Preparing' = Preparing
      /\ \A c : Turn(c)' = Turn(c) /\ Waiting(c)' = Waiting(c)
  BY DEF Aside, Dispatching, Preparing, Turn, Waiting
<1>2. \A t \in Tasks : /\ QueuedNow(t)' <=> QueuedNow(t)
                       /\ Run(t)' = Run(t)
                       /\ EarlierDone(t) => EarlierDone(t)'
                       /\ lease'[t].attempt = lease[t].attempt
  BY SettlingKeepsRuns
<1>3. Stopping' \subseteq Stopping
  BY FadingKeepsRuns
<1>4. (\A c \in todo : c.task \in Tasks) /\ running \subseteq Tasks
  BY DEF Inv, ShapeInv, Entries
<1>5. DispatchInv'
  BY <1>1, <1>2, <1>3, <1>4 DEF DispatchInv, Inv
<1>6. /\ running' # {} => Dispatching' \/ phase' \in {"classify", "close"}
      /\ \A t \in running' : ~QueuedNow(t)'
      /\ phase' = "close" => \A t \in running' : First(t, running') =>
           result'[t] # NoResult /\ Run(t)' \notin Stopping'
  BY <1>1, <1>2, <1>3, <1>4 DEF RunInv, Inv
<1> QED
  BY <1>5, <1>6, FadingKeepsRuns DEF RunInv

\* The next candidate has its turn: it has waited, and is of another task.
LEMMA PassesOnKeeps ==
  ASSUME Inv, NEW c \in todo, PassesOn(c)
  PROVE  DispatchInv' /\ RunInv'
<1>0. /\ Settling /\ Fading /\ NextCandidate(c) /\ Turn(c) /\ Dispatching /\ integrated' = integrated
      /\ running' = running \/ (Preparing /\ running' = running \cup {c.task})
  BY PassesOnSettles
<1>1. todo' = todo \ {c} /\ phase' \in {"classify", "dispatch"}
  BY <1>0 DEF NextCandidate
<1>2. \A t \in Tasks : /\ QueuedNow(t)' <=> QueuedNow(t)
                       /\ Run(t)' = Run(t)
                       /\ EarlierDone(t) => EarlierDone(t)'
                       /\ lease'[t].attempt = lease[t].attempt
  BY <1>0, SettlingKeepsRuns
<1>3. ASSUME NEW d \in todo'
      PROVE  /\ d \in todo /\ d.task \in Tasks /\ d.task # c.task /\ Waiting(d)
             /\ d.task \notin running /\ d.task \notin integrated /\ EarlierDone(d.task)
  <2>1. d \in todo /\ d # c /\ d.task \in Tasks
    BY <1>1 DEF Inv, ShapeInv, Entries
  <2>2. d.task # c.task /\ d.task \notin running /\ d.task \notin integrated /\ EarlierDone(d.task)
    BY <1>0, <2>1 DEF Inv, DispatchInv
  <2>3. ~Turn(d)
    BY <1>0, <2>1, OneTurn
  <2>4. Waiting(d)
    BY <1>0, <2>3 DEF Waiting, Dispatching, Preparing
  <2> QED
    BY <2>1, <2>2, <2>4
<1>4. DispatchInv'
  <2>1. \A d, e \in todo' : d.task = e.task => d = e
    BY <1>0, <1>3 DEF Inv, DispatchInv
  <2>2. \A d \in todo' : d.task \notin running' /\ d.task \notin integrated' /\ EarlierDone(d.task)'
    BY <1>0, <1>2, <1>3
  <2>3. \A d \in todo' : d.kind = "none" => lease'[d.task].attempt = 0
    BY <1>2, <1>3 DEF Inv, DispatchInv
  <2> QED
    BY <1>1, <2>1, <2>2, <2>3 DEF DispatchInv, Dispatching, Preparing, Waiting
<1>5. \A t \in running' : ~QueuedNow(t)'
  <2>1. c.task \in Tasks /\ running \subseteq Tasks
    BY DEF Inv, ShapeInv, Entries
  <2>2. Preparing => ~QueuedNow(c.task)
    BY <1>0 DEF Inv, DispatchInv
  <2>3. \A t \in running : ~QueuedNow(t)
    BY DEF Inv, RunInv
  <2> QED
    BY <1>0, <1>2, <2>1, <2>2, <2>3
<1>6. /\ running' # {} => Dispatching' \/ phase' \in {"classify", "close"}
      /\ phase' # "close"
  BY <1>1 DEF Dispatching
<1> QED
  BY <1>0, <1>4, <1>5, <1>6, FadingKeepsRuns DEF RunInv

\* An agent settles once, while its run is the latest of its task and not yet
\* queued; a cancel stops only runs of the pool.
LEMMA AgentStepsKeep ==
  ASSUME Inv, AgentSteps
  PROVE  DispatchInv' /\ RunInv'
<1>1. UNCHANGED <<lease, queued, integrated, phase, todo, running>>
  BY AgentStepsSettle DEF facts, Aside
<1>2. /\ Dispatching' = Dispatching /\ Preparing' = Preparing /\ UNCHANGED <<phase, todo, running, lease>>
      /\ \A c : Turn(c)' = Turn(c) /\ Waiting(c)' = Waiting(c)
      /\ \A t : (QueuedNow(t)' <=> QueuedNow(t)) /\ Run(t)' = Run(t) /\ EarlierDone(t)' = EarlierDone(t)
      /\ UNCHANGED integrated
  BY <1>1 DEF Dispatching, Preparing, Turn, Waiting, QueuedNow, Run, EarlierDone
<1> DEFINE Fresh(t) == result[t] = NoResult /\ Run(t) \notin pool \cup Stopping
           Idle(t) == result[t] # NoResult /\ Run(t) \notin Stopping
           Runnable ==
             /\ \A t \in Tasks : result[t] # NoResult => ~QueuedNow(t)
             /\ \A t \in Tasks : Run(t) \in pool => ~QueuedNow(t) /\ result[t] = NoResult
             /\ \A t \in Tasks : Run(t) \in cstopped => ~QueuedNow(t)
             /\ \A r \in pool \cup Stopping : r[2] <= lease[r[1]].attempt
             /\ canceller = "none" => ctodo = {} /\ Stopping = {}
<1>3. Runnable
  BY DEF Inv, RunInv
<1>4. (\A c \in todo : c.task \in Tasks) /\ running \subseteq Tasks
  BY DEF Inv, ShapeInv, Entries
<1>5. ASSUME Runnable', \A t \in Tasks : (Fresh(t) => Fresh(t)') /\ (Idle(t) => Idle(t)')
      PROVE  DispatchInv' /\ RunInv'
  <2>1. /\ phase = "prepare" => \A c \in todo : Turn(c) => Fresh(c.task)
        /\ phase = "close" => \A t \in running : First(t, running) => Idle(t)
    BY DEF Inv, DispatchInv, RunInv
  <2>2. /\ phase' = "prepare" => \A c \in todo' : Turn(c)' => Fresh(c.task)'
        /\ phase' = "close" => \A t \in running' : First(t, running') => Idle(t)'
    BY <1>2, <1>4, <1>5, <2>1
  <2> HIDE DEF Fresh, Idle
  <2>3. DispatchInv'
    <3>1. /\ Dispatching => \A c, d \in todo : c.task = d.task => c = d
          /\ Dispatching => \A c \in todo :
               c.task \notin running /\ c.task \notin integrated /\ EarlierDone(c.task)
          /\ \A c \in todo : Waiting(c) /\ c.kind = "none" => lease[c.task].attempt = 0
          /\ Preparing => \A c \in todo : Turn(c) => ~QueuedNow(c.task)
      BY DEF Inv, DispatchInv
    <3> QED
      BY <1>2, <2>2, <3>1 DEF DispatchInv, Fresh
  <2>4. RunInv'
    <3>1. /\ running # {} => Dispatching \/ phase \in {"classify", "close"}
          /\ \A t \in running : ~QueuedNow(t)
      BY DEF Inv, RunInv
    <3> QED
      BY <1>2, <1>5, <2>2, <3>1 DEF RunInv, Idle
  <2> QED
    BY <2>3, <2>4
<1>6. ASSUME NEW r \in live, Settle(r) PROVE DispatchInv' /\ RunInv'
  <2>1. r \in pool /\ pool' = pool \ {r} /\ r \in Runs
        /\ UNCHANGED <<canceller, ctodo, cstopping, cstopped>>
    BY <1>6 DEF Settle, cancelling, Inv, ShapeInv
  <2>2. r[1] \in Tasks /\ DOMAIN result = Tasks
    BY <2>1 DEF Runs, Inv, BudgetInv
  <2>3. \A t \in Tasks : result'[t] = result[t] \/ (Run(t) = r /\ result'[t] # NoResult)
    <3>1. CASE r # Run(r[1])
      BY <1>6, <3>1 DEF Settle
    <3>2. CASE r = Run(r[1])
      <4>1. PICK kind \in ResultKinds, used \in 0..lease[r[1]].reserved + 1 :
              result' = [result EXCEPT ![r[1]] = [kind |-> kind, used |-> used]]
        BY <1>6, <3>2 DEF Settle
      <4>2. [kind |-> kind, used |-> used] # NoResult
        <5>1. [kind |-> kind, used |-> used].kind # NoResult.kind
          BY DEF ResultKinds, NoResult
        <5> QED
          BY <5>1
      <4> QED
        BY <2>2, <3>2, <4>1, <4>2
    <3> QED
      BY <3>1, <3>2
  <2>4. \A t \in Tasks : Run(t) = r => result[t] = NoResult /\ ~QueuedNow(t)
    BY <1>3, <2>1
  <2>5. Runnable'
    BY <1>2, <1>3, <2>1, <2>3, <2>4 DEF Stopping
  <2>6. \A t \in Tasks : (Fresh(t) => Fresh(t)') /\ (Idle(t) => Idle(t)')
    BY <1>2, <2>1, <2>3 DEF Stopping
  <2> QED
    BY <1>5, <2>5, <2>6
<1>7. CASE CancelStart
  <2>1. UNCHANGED <<pool, result, cstopping, cstopped>> /\ canceller' # "none"
    BY <1>7 DEF CancelStart, agents
  <2>2. Runnable' /\ \A t \in Tasks : (Fresh(t) => Fresh(t)') /\ (Idle(t) => Idle(t)')
    BY <1>2, <1>3, <2>1 DEF Stopping
  <2> QED
    BY <1>5, <2>2
<1>8. ASSUME NEW r \in ctodo, CancelRun(r) PROVE DispatchInv' /\ RunInv'
  <2>1. UNCHANGED <<pool, result, cstopped, canceller>> /\ canceller # "none"
        /\ (cstopping' = cstopping \/ (cstopping' = {r} /\ r \in pool))
    BY <1>3, <1>8 DEF CancelRun, agents
  <2>2. Runnable'
    BY <1>2, <1>3, <2>1 DEF Stopping
  <2>3. \A t \in Tasks : (Fresh(t) => Fresh(t)') /\ (Idle(t) => Idle(t)')
    BY <1>2, <1>3, <2>1 DEF Stopping
  <2> QED
    BY <1>5, <2>2, <2>3
<1>9. ASSUME NEW r \in cstopping, CancelSettled(r) PROVE DispatchInv' /\ RunInv'
  <2>1. UNCHANGED <<pool, result, canceller>> /\ canceller # "none" /\ Stopping' \subseteq Stopping
    BY <1>3, <1>9 DEF CancelSettled, agents, Stopping
  <2>2. ASSUME NEW t \in Tasks, Run(t)' \in cstopped' PROVE ~QueuedNow(t)'
    <3>1. CASE Run(t) \in cstopped
      BY <1>2, <1>3, <3>1
    <3>2. CASE Run(t) \notin cstopped
      <4>1. Run(t) = r /\ result[t].kind = "cancelled"
        BY <1>2, <1>9, <2>2, <3>2 DEF CancelSettled, Run
      <4>2. result[t] # NoResult
        BY <4>1 DEF NoResult
      <4> QED
        BY <1>2, <1>3, <4>2
    <3> QED
      BY <3>1, <3>2
  <2>3. Runnable'
    BY <1>2, <1>3, <2>1, <2>2
  <2>4. \A t \in Tasks : (Fresh(t) => Fresh(t)') /\ (Idle(t) => Idle(t)')
    BY <1>2, <2>1
  <2> QED
    BY <1>5, <2>3, <2>4
<1> QED
  BY <1>6, <1>7, <1>8, <1>9 DEF AgentSteps

\* A task that is ready, or has a retry to come, has all earlier waves behind it;
\* a ready one has no lease yet.
LEMMA SelectedFacts ==
  ASSUME Inv, NEW slots, NEW c \in Dispatchable(slots)
  PROVE  /\ c.task \in Tasks /\ c.task \notin integrated /\ EarlierDone(c.task)
         /\ c.kind = "none" => lease[c.task].attempt = 0
<1> DEFINE t == c.task
<1>1. /\ t \in Tasks
      /\ \/ Ready(t) /\ c.kind = RetryKind(t)
         \/ RetryScheduled(t) /\ c.kind = "integration_retry"
  BY Selected DEF Entries
<1> HIDE DEF t
<1>2. /\ lease[t].state = "none" <=> lease[t].attempt = 0
      /\ lease[t].attempt > 0 \/ <<"integration_retry_scheduled", t>> \in findings => EarlierDone(t)
      /\ lease[t].attempt \in Nat
      /\ lease[t].state \in {"none", "granted"} \cup Closed
  BY <1>1 DEF Inv, LeaseInv, WaveInv, BudgetInv, LeaseType
<1>3. CASE Ready(t) /\ c.kind = RetryKind(t) /\ Status(t) = "ready"
  <2>1. t \notin integrated /\ ~Granted(t) /\ lease[t].state \notin Closed
        /\ WaveOf[t] = EarliestIncompleteWave
    BY <1>3 DEF Status, ClosedLeaseStatus
  <2>2. EarlierDone(t)
    BY <1>1, <2>1, EarliestFacts
  <2>3. lease[t].attempt = 0
    BY <1>2, <2>1 DEF Granted
  <2> QED
    BY <1>1, <2>1, <2>2, <2>3 DEF t
<1>4. CASE Ready(t) /\ c.kind = RetryKind(t) /\ Status(t) # "ready"
  <2>1. Status(t) = "retry_pending" /\ c.kind # "none"
    BY <1>4 DEF Ready, RetryKind
  <2>2. t \notin integrated /\ lease[t].state \in Closed
    BY <2>1 DEF Status, ClosedLeaseStatus
  <2>3. EarlierDone(t)
    BY <1>2, <2>2 DEF Closed
  <2> QED
    BY <1>1, <2>1, <2>2, <2>3 DEF t
<1>5. CASE RetryScheduled(t) /\ c.kind = "integration_retry"
  <2>1. t \notin integrated
    BY <1>5 DEF RetryScheduled, Status
  <2>2. <<"integration_retry_scheduled", t>> \in findings
    BY <1>5 DEF RetryScheduled, HasOpenFindingRule, ReadFindings
  <2> QED
    BY <1>1, <1>2, <1>5, <2>1, <2>2 DEF t
<1> QED
  BY <1>1, <1>3, <1>4, <1>5

\* What a pass offers may be dispatched, a started agent has a fresh attempt, and
\* the runs a wait hands to classification are settled (scheduler.ts driveOnce).
LEMMA QuietlyKeeps ==
  ASSUME Inv, Quietly
  PROVE  DispatchInv' /\ RunInv'
<1>1. /\ UNCHANGED <<lease, queued, integrated>>
      /\ \A t : (QueuedNow(t)' <=> QueuedNow(t)) /\ Run(t)' = Run(t) /\ EarlierDone(t)' = EarlierDone(t)
      /\ Settling
  BY QuietlySettles DEF facts, QueuedNow, Run, EarlierDone
<1>2. CASE DrivePass
  <2>5. Fading
    BY <1>2 DEF DrivePass, Return, Fading, agents, cancelling
  <2>6. running = {}
    BY <1>2 DEF DrivePass, Inv, RunInv, Dispatching
  <2>1. Fading /\ running = {} /\ running' = {}
        /\ (phase' \in {"idle", "block"} \/ (phase' = "dispatch" /\ todo' = Dispatchable(IdleSlots)))
    BY <1>2, <2>5, <2>6 DEF DrivePass, Return
  <2>2. RunInv'
    BY <1>1, <2>1, FadingKeepsRuns DEF RunInv
  <2>3. CASE phase' \in {"idle", "block"}
    BY <2>2, <2>3, NoDispatch
  <2>4. CASE phase' = "dispatch" /\ todo' = Dispatchable(IdleSlots)
    <3>1. \A c, d \in todo' : c.task = d.task => c = d
      BY <2>4, SelectedOnce
    <3>2. \A c \in todo' : /\ c.task \in Tasks /\ c.task \notin integrated /\ EarlierDone(c.task)
                           /\ c.kind = "none" => lease[c.task].attempt = 0
      BY <2>4, SelectedFacts
    <3>3. DispatchInv'
      BY <1>1, <2>1, <2>4, <3>1, <3>2, Zenon DEF DispatchInv, Dispatching, Preparing, Waiting
    <3> QED
      BY <2>2, <3>3
  <2> QED
    BY <2>1, <2>3, <2>4
<1>3. CASE AwaitSettled
  <2>1. Fading /\ result' = result /\ phase' \in {"pass", "idle", "close"}
    BY <1>3 DEF AwaitSettled, Return, Fading, agents, cancelling
  <2>2. DispatchInv'
    BY <2>1, NoDispatch
  <2>3. CASE running' = {}
    BY <1>1, <2>1, <2>2, <2>3, FadingKeepsRuns DEF RunInv
  <2>4. CASE running' # {}
    <3>1. phase' = "close" /\ running' = running /\ Stopping = {}
          /\ \E t \in running : First(t, running) /\ result[t] # NoResult
      BY <1>3, <2>4 DEF AwaitSettled, Return, Inv, RunInv
    <3>2. \A t \in running : First(t, running) => result[t] # NoResult
      BY <3>1, OneFirst
    <3>3. \A t \in running : ~QueuedNow(t)
      BY DEF Inv, RunInv
    <3>4. Stopping' = {}
      BY <1>1, <2>1, <3>1, FadingKeepsRuns
    <3> QED
      BY <1>1, <2>1, <2>2, <3>1, <3>2, <3>3, <3>4, FadingKeepsRuns DEF RunInv
  <2> QED
    BY <2>3, <2>4
<1>4. ASSUME NEW c \in todo, StartRun(c) PROVE DispatchInv' /\ RunInv'
  <2>1. /\ phase = "prepare" /\ phase' = "starting" /\ Turn(c) /\ pool' = pool \cup {Run(c.task)}
        /\ UNCHANGED <<todo, running, result, canceller, ctodo, cstopping, cstopped>>
    BY <1>4 DEF StartRun, cancelling
  <2>2. c.task \in Tasks /\ ~QueuedNow(c.task) /\ result[c.task] = NoResult
    BY <2>1 DEF Inv, ShapeInv, Entries, DispatchInv, Preparing
  <2>3. DispatchInv'
    <3>1. \A d : Turn(d)' = Turn(d)
      BY <2>1 DEF Turn
    <3>2. /\ \A d, e \in todo : d.task = e.task => d = e
          /\ \A d \in todo : d.task \notin running /\ d.task \notin integrated /\ EarlierDone(d.task)
          /\ \A d \in todo : ~Turn(d) /\ d.kind = "none" => lease[d.task].attempt = 0
          /\ \A d \in todo : Turn(d) => ~QueuedNow(d.task)
      BY <2>1 DEF Inv, DispatchInv, Dispatching, Preparing, Waiting
    <3> QED
      BY <1>1, <2>1, <3>1, <3>2 DEF DispatchInv, Dispatching, Preparing, Waiting
  <2>4. Run(c.task)[1] = c.task /\ Run(c.task)[2] = lease[c.task].attempt /\ lease[c.task].attempt \in Nat
    BY <2>2 DEF Run, Inv, BudgetInv, LeaseType
  <2>5. \A r \in pool' \cup Stopping' : r[2] <= lease'[r[1]].attempt
    BY <1>1, <2>1, <2>4 DEF Inv, RunInv, Stopping
  <2>6. \A t \in Tasks : Run(t) = Run(c.task) => t = c.task
    BY DEF Run
  <2>7. \A t \in Tasks : Run(t)' \in pool' => ~QueuedNow(t)' /\ result'[t] = NoResult
    BY <1>1, <2>1, <2>2, <2>6 DEF Inv, RunInv
  <2>8. RunInv'
    BY <1>1, <2>1, <2>5, <2>7 DEF Inv, RunInv, Stopping, Dispatching
  <2> QED
    BY <2>3, <2>8
<1> QED
  BY <1>2, <1>3, <1>4 DEF Quietly

\* The classified run is settled and out of the pool and of the cancel, so queueing
\* its candidate disturbs no run that is at work.
LEMMA ClassifyKeeps ==
  ASSUME Inv, NEW t \in Tasks, Classify(t)
  PROVE  LeaseInv' /\ WaveInv' /\ DispatchInv' /\ RunInv'
<1>1. /\ phase = "close" /\ phase' = "classify" /\ First(t, running) /\ running' = running \ {t}
      /\ result' = [result EXCEPT ![t] = NoResult]
      /\ UNCHANGED <<validated, integrated, todo, pool, canceller, ctodo, cstopping, cstopped>>
  BY DEF Classify, cancelling
<1>2. DispatchInv'
  BY <1>1, NoDispatch
<1>3. /\ t \in running /\ result[t] # NoResult /\ Run(t) \notin Stopping /\ ~QueuedNow(t)
      /\ DOMAIN result = Tasks
  BY <1>1 DEF First, Inv, RunInv, BudgetInv
<1>4. CASE ~QueueCandidate(t)
  <2>1. Settling
    BY <1>4, ClassifySettles
  <2>2. Fading
    <3>1. \A u \in Tasks : result'[u] \in {result[u], NoResult}
      BY <1>1, <1>3, Zenon
    <3> QED
      BY <1>1, <3>1 DEF Fading
  <2>3. \A u \in running' : ~QueuedNow(u)'
    <3>1. \A u \in running' : u \in Tasks /\ ~QueuedNow(u)
      BY <1>1 DEF Inv, RunInv, ShapeInv
    <3> QED
      BY <2>1, <3>1, SettlingKeepsRuns, Zenon
  <2>4. RunInv'
    BY <1>1, <2>1, <2>2, <2>3, FadingKeepsRuns, Zenon DEF RunInv
  <2> QED
    BY <1>2, <2>1, <2>4, SettlingKeepsLeases
<1>5. CASE QueueCandidate(t)
  <2>1. /\ queued' = [queued EXCEPT ![t] = @ \cup {lease[t].attempt}]
        /\ run' = [run EXCEPT ![t] = [@ EXCEPT !.reason = "completion", !.used = result[t].used]]
    BY <1>5 DEF QueueCandidate, RecordRun
  <2>0. UNCHANGED <<lease, findings, validated, integrated>>
    BY <1>1, <1>5 DEF QueueCandidate
  <2>2. /\ \A u \in Tasks : u # t => (QueuedNow(u)' <=> QueuedNow(u)) /\ queued'[u] = queued[u]
                                     /\ run'[u] = run[u] /\ result'[u] = result[u]
        /\ result'[t] = NoResult
    BY <1>1, <2>0, <2>1 DEF QueuedNow, Inv, ShapeInv, BudgetInv
  <2>3. /\ QueuedNow(t)' /\ run'[t].reason = "completion"
        /\ queued'[t] = queued[t] \cup {lease[t].attempt}
    BY <2>0, <2>1 DEF QueuedNow, Inv, ShapeInv, BudgetInv, RunType
  <2>4. \A u : Run(u)' = Run(u) /\ EarlierDone(u)' = EarlierDone(u)
    BY <2>0 DEF Run, EarlierDone
  <2>5. LeaseInv'
    <3>1. ASSUME NEW u \in Tasks
          PROVE  /\ \A n \in queued'[u] : n <= lease'[u].attempt
                 /\ QueuedNow(u)' => CompletedRun(u)'
                 /\ u \in validated' => QueuedNow(u)'
      <4>1. /\ \A n \in queued[u] : n <= lease[u].attempt
            /\ QueuedNow(u) => CompletedRun(u)
            /\ u \in validated => QueuedNow(u)
            /\ lease[u].attempt \in Nat
        BY DEF Inv, LeaseInv, BudgetInv, LeaseType
      <4> QED
        BY <2>0, <2>2, <2>3, <4>1 DEF CompletedRun
    <3> QED
      BY <2>0, <3>1 DEF Inv, LeaseInv
  <2>6. WaveInv'
    BY <2>0, <2>4, Zenon DEF Inv, WaveInv
  <2>7. RunInv'
    <3>1. Stopping' = Stopping /\ Run(t) \notin cstopped /\ Run(t) \notin pool
      BY <1>1, <1>3, Zenon DEF Stopping, Inv, RunInv
    <3>2. \A u \in running' : u \in Tasks /\ u # t
      BY <1>1 DEF Inv, ShapeInv
    <3>3. phase' # "close" /\ (phase' = "classify") /\ UNCHANGED <<pool, canceller, ctodo, cstopped>>
          /\ running' \subseteq running
      BY <1>1, Zenon
    <3>4. \A u \in running' : ~QueuedNow(u)'
      BY <2>2, <3>2, <3>3 DEF Inv, RunInv
    <3>5. \A u \in Tasks : result'[u] # NoResult => ~QueuedNow(u)'
      BY <2>2 DEF Inv, RunInv
    <3>6. \A u \in Tasks : Run(u) \in pool => ~QueuedNow(u)' /\ result'[u] = NoResult
      BY <2>2, <3>1 DEF Inv, RunInv
    <3>7. \A u \in Tasks : Run(u) \in cstopped => ~QueuedNow(u)'
      BY <2>2, <3>1 DEF Inv, RunInv
    <3> QED
      BY <2>0, <2>4, <3>1, <3>3, <3>4, <3>5, <3>6, <3>7, Zenon DEF Inv, RunInv
  <2> QED
    BY <1>2, <2>5, <2>6, <2>7
<1> QED
  BY <1>4, <1>5
=============================================================================
