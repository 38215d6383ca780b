------------------------------ MODULE AgentRuns ------------------------------
(***************************************************************************)
(* Agent runs: the pool that gives every run a slot                        *)
(* (scheduling/agent-pool.ts), the adapters that carry a run out           *)
(* (adapters/agent-command, agent-dsh, agent-manual) and the supervised    *)
(* child process under them (plugin-sdk/src/subprocess.ts).                *)
(*                                                                         *)
(* A child writes paths of its worktree, exits by itself or is sent        *)
(* SIGTERM by its timeout, by the output cap or by an abort; its "close"   *)
(* event is a step of its own, so all of these race with an exit.  What a  *)
(* provider prints is one of a few words.                                  *)
(***************************************************************************)
EXTENDS Naturals, FiniteSets

CONSTANT
    Scenes       \* what is run: adapter, manifest, runs, capacity of the pool, the
                 \* outputs and the writes a child may produce

VARIABLES
    scene,       \* the scene of the behaviour
    slots,       \* slots[i]: the state of slot i and the run that holds it
    run,         \* run[r]: where run r stands, its child and its result
    transcript,  \* the transcript files: which run's text each holds
    told         \* what pool.cancel answered

vars == <<scene, slots, run, transcript, told>>

AllRuns == UNION {s.runs : s \in Scenes}
NoResult == [reason |-> "none", claimed |-> FALSE, changed |-> {}]
NoRun == [pc |-> "new", intent |-> FALSE, child |-> "none", output |-> "none", sigterms |-> 0, aborted |-> FALSE,
          timedOut |-> FALSE, truncated |-> FALSE, wrote |-> {}, evidence |-> FALSE, result |-> NoResult]
Idle == [state |-> "idle", run |-> "none"]
Slots == DOMAIN slots
SlotsOf(r) == {i \in Slots : slots[i].run = r}

Init ==
    /\ scene \in Scenes
    /\ slots = [i \in 1..scene.capacity |-> Idle]
    /\ run = [r \in AllRuns |-> NoRun]
    /\ transcript = [d \in {} |-> "none"]
    /\ told = [r \in AllRuns |-> "none"]

-----------------------------------------------------------------------------
(* The pool.                                                               *)

\* assessUnattendedEligibility.
Eligible(manifest) ==
    \/ manifest.control = "managed"
    \/ /\ manifest.control = "delegated"
       /\ manifest.metering /\ manifest.intercepts /\ manifest.visible /\ manifest.resumes

\* acquireSlots of a run: an adapter that may not run unattended takes them all.
acquireSlots ==
    LET idle == {i \in Slots : slots[i] = Idle}
    IN  IF Eligible(scene.manifest)
          THEN {{i} : i \in {j \in idle : \A k \in idle : j <= k}}
          ELSE IF idle = Slots THEN {Slots} ELSE {}

\* dsh asks its command for the version first; a person is simply asked.
Launched == CASE scene.adapter = "dsh" -> "probing" [] scene.adapter = "manual" -> "asked" [] OTHER -> "spawning"

\* LocalAgentPool.run up to adapter.run: every run has a fresh identity.
Start(r) ==
    /\ r \in scene.runs /\ run[r].pc = "new"
    /\ \E taken \in acquireSlots :
         slots' = [i \in Slots |-> IF i \in taken THEN [state |-> "running", run |-> r] ELSE slots[i]]
    /\ run' = [run EXCEPT ![r].pc = Launched]
    /\ UNCHANGED <<scene, transcript, told>>


\* The slots once run r is over.
released(r) == [i \in Slots |-> IF i \in SlotsOf(r) THEN Idle ELSE slots[i]]

\* A cancellation that waits for the run learns how it ended.
answered(r, reason) ==
    IF told[r] = "waiting"
      THEN [told EXCEPT ![r] = IF reason = "user_cancellation" THEN "confirmed" ELSE "unconfirmed"]
      ELSE told

\* The adapter's result reaches LocalAgentPool.run, whose `finally` frees the slots.
Finish(r, result) ==
    /\ run' = [run EXCEPT ![r].pc = "done", ![r].result = result]
    /\ slots' = released(r)
    /\ told' = answered(r, result.reason)
    /\ UNCHANGED scene

-----------------------------------------------------------------------------
(* The child process (runPluginSubprocess).                                *)

\* terminate: one SIGTERM per child, whatever the cause.
terminate(c) == IF c.sigterms > 0 THEN c ELSE [c EXCEPT !.sigterms = 1]

\* The timer of the child.
onTimer(c) == [terminate(c) EXCEPT !.timedOut = TRUE]
\* onAbort: the flag is set whether or not a signal was sent.
onAbort(c) == [terminate(c) EXCEPT !.aborted = TRUE]

\* The child is spawned; a signal that was aborted before counts at once.
Spawn(r) ==
    /\ run[r].pc = "spawning"
    /\ LET started == [run[r] EXCEPT !.pc = "supervising", !.child = "alive"]
       IN  run' = [run EXCEPT ![r] = IF run[r].intent THEN onAbort(started) ELSE started]
    /\ UNCHANGED <<scene, slots, transcript, told>>

\* The executable cannot be started, for the probe or for the run itself.
SpawnFails(r) ==
    /\ run[r].pc \in {"spawning", "probing"}
    /\ Finish(r, [NoResult EXCEPT !.reason = "adapter_failure"])
    /\ UNCHANGED transcript

\* dsh's version probe ends; it does not listen to the abort signal.
Probe(r) ==
    /\ run[r].pc = "probing"
    /\ \/ run' = [run EXCEPT ![r].pc = "spawning"] /\ UNCHANGED <<scene, slots, told>>
       \/ Finish(r, [NoResult EXCEPT !.reason = "adapter_failure"])
    /\ UNCHANGED transcript

\* The child writes a path of its worktree.
Write(r, path) ==
    /\ run[r].child = "alive" /\ path \notin run[r].wrote
    /\ run' = [run EXCEPT ![r].wrote = @ \cup {path}]
    /\ UNCHANGED <<scene, slots, transcript, told>>

\* The child prints its output and exits.
Exit(r, output) ==
    /\ run[r].child = "alive"
    /\ run' = [run EXCEPT ![r].child = "exited", ![r].output = output]
    /\ UNCHANGED <<scene, slots, transcript, told>>

\* SIGTERM ends the child.
Die(r) ==
    /\ run[r].child = "alive" /\ run[r].sigterms > 0
    /\ run' = [run EXCEPT ![r].child = "killed"]
    /\ UNCHANGED <<scene, slots, transcript, told>>

Supervised(r) == run[r].pc = "supervising"

\* The duration ceiling passes before the "close" event.
Timeout(r) ==
    /\ Supervised(r) /\ ~run[r].timedOut
    /\ run' = [run EXCEPT ![r] = onTimer(@)]
    /\ UNCHANGED <<scene, slots, transcript, told>>

\* collect: a chunk goes over the output cap.
Overflow(r) ==
    /\ Supervised(r) /\ ~run[r].truncated /\ run[r].child = "alive"
    /\ run' = [run EXCEPT ![r] = [terminate(@) EXCEPT !.truncated = TRUE]]
    /\ UNCHANGED <<scene, slots, transcript, told>>

\* LocalAgentPool.cancel: the abort is asked for and the result awaited.
Cancel(r) ==
    /\ run[r].pc \in {"probing", "spawning", "supervising", "inspecting", "asked"} /\ told[r] = "none"
    /\ slots' = [i \in Slots |-> IF i \in SlotsOf(r) THEN [slots[i] EXCEPT !.state = "cancelling"] ELSE slots[i]]
    /\ told' = [told EXCEPT ![r] = "waiting"]
    /\ run' = [run EXCEPT ![r] = LET asked == [@ EXCEPT !.intent = TRUE]
                                 IN  IF Supervised(r) THEN onAbort(asked) ELSE asked]
    /\ UNCHANGED <<scene, transcript>>

\* evidenceDir: the scheduler's host keeps one directory per run.
EvidenceDir(r) == IF scene.perRun THEN <<"run", r>> ELSE <<"task", scene.task[r]>>

\* The "close" event; the adapter writes its transcript.
Close(r) ==
    /\ Supervised(r) /\ run[r].child \in {"exited", "killed"}
    /\ run' = [run EXCEPT ![r].pc = "inspecting", ![r].evidence = TRUE]
    /\ transcript' = [d \in DOMAIN transcript \cup {EvidenceDir(r)} |->
                        IF d = EvidenceDir(r) THEN r ELSE transcript[d]]
    /\ UNCHANGED <<scene, slots, told>>

-----------------------------------------------------------------------------
(* The adapters' reading of a finished child.                              *)

\* undeclaredWrites compares the changed paths after the run with those before;
\* a path that was changed already is not seen.
NewlyChanged(r) == run[r].wrote \ scene.dirty
undeclaredWrites(r) == NewlyChanged(r) \ scene.declared

failure(reason) == [NoResult EXCEPT !.reason = reason]
completed(r) == [reason |-> "completion", claimed |-> TRUE, changed |-> NewlyChanged(r)]

\* What both adapters refuse, in this order.
Supervision(c) ==
    CASE c.aborted -> "user_cancellation" [] c.timedOut -> "timeout" [] c.truncated -> "adapter_failure"
      [] c.child = "killed" \/ c.output = "crash" -> "adapter_failure" [] OTHER -> "none"

\* createCommandAgentAdapter after the child: the printed result is parsed, metered
\* and held against the token ceiling before the writes are inspected.
commandResult(r) ==
    LET c == run[r]
    IN  CASE Supervision(c) # "none" -> failure(Supervision(c))
          [] c.output \in {"garbage", "silent"} -> failure("adapter_failure")
          [] c.output = "unmetered" /\ scene.manifest.metering -> failure("adapter_failure")
          [] c.output = "over" -> failure("budget_ceiling")
          [] undeclaredWrites(r) # {} -> failure("adapter_failure")
          [] c.output = "failed" -> failure("adapter_failure")
          [] OTHER -> completed(r)

\* createDshAgentAdapter after the child: plain text, so any text completes.
dshResult(r) ==
    LET c == run[r]
    IN  CASE Supervision(c) # "none" -> failure(Supervision(c))
          [] undeclaredWrites(r) # {} -> failure("adapter_failure")
          [] c.output = "silent" -> failure("adapter_failure")
          [] OTHER -> completed(r)

\* The inspection is over and the adapter answers.
Settle(r) ==
    /\ run[r].pc = "inspecting"
    /\ Finish(r, IF scene.adapter = "dsh" THEN dshResult(r) ELSE commandResult(r))
    /\ UNCHANGED transcript

\* createManualAgentAdapter: a person answers; a completed handoff needs evidence and
\* an abort is not observed.
Handoff(r, status, evidence) ==
    /\ run[r].pc = "asked"
    /\ Finish(r, CASE status = "completed" /\ evidence -> [NoResult EXCEPT !.reason = "completion", !.claimed = TRUE]
                   [] status \in {"blocked", "deferred"} -> failure("manual_stop")
                   [] OTHER -> failure("adapter_failure"))
    /\ UNCHANGED transcript

\* No run is left: the pool waits.
Quiet == (\A r \in scene.runs : run[r].pc = "done") /\ UNCHANGED vars

Next ==
  \/ Quiet
  \/ \E r \in scene.runs :
      \/ Start(r) \/ Spawn(r) \/ SpawnFails(r) \/ Probe(r) \/ Die(r) \/ Timeout(r) \/ Overflow(r) \/ Cancel(r)
      \/ Close(r) \/ Settle(r)
      \/ \E path \in scene.paths : Write(r, path)
      \/ \E output \in scene.outputs : Exit(r, output)
      \/ \E status \in {"completed", "blocked", "deferred", "unreadable"}, evidence \in BOOLEAN : Handoff(r, status, evidence)

-----------------------------------------------------------------------------
InFlight(r) == run[r].pc \notin {"new", "done"}

TypeOK ==
    /\ scene \in Scenes
    /\ slots \in [1..scene.capacity -> [state : {"idle", "running", "cancelling"}, run : AllRuns \cup {"none"}]]
    /\ \A r \in AllRuns : run[r].result.reason \in {"none", "user_cancellation", "timeout", "adapter_failure",
                                                    "budget_ceiling", "completion", "manual_stop"}
    /\ told \in [AllRuns -> {"none", "waiting", "confirmed", "unconfirmed"}]

\* A slot is busy exactly while its run is in flight, and a run that may not be
\* unattended has the pool to itself (agent-pool.ts: "such a run occupies every
\* slot, so nothing else can execute alongside it").
SlotsMatchRuns ==
    /\ \A i \in Slots : slots[i] = Idle \/ (slots[i].run \in AllRuns /\ InFlight(slots[i].run))
    /\ \A r \in AllRuns : InFlight(r) => SlotsOf(r) # {}
    /\ ~Eligible(scene.manifest) => Cardinality({r \in AllRuns : InFlight(r)}) <= 1

\* A run is reported cancelled only if somebody asked for it before its child was
\* gone, and the pool confirms a cancellation only then (agent-pool.ts: "the pool
\* never reports a cancellation the Adapter did not confirm").
CancelWasAsked ==
    \A r \in AllRuns :
      /\ run[r].result.reason = "user_cancellation" => run[r].intent /\ run[r].sigterms > 0
      /\ told[r] = "confirmed" => run[r].result.reason = "user_cancellation"

\* Timeout, output cap and abort together send a child one SIGTERM at most
\* (subprocess.ts: "Aborting sends exactly one SIGTERM").
OneSigterm == \A r \in AllRuns : run[r].sigterms <= 1

\* In a worktree that was clean, a run that claims completion wrote nothing the
\* envelope did not declare (agent-command/src/adapter.ts: "the claim is never
\* trusted over the diff").
ClaimsAreDeclared ==
    scene.dirty = {} /\ scene.adapter # "manual" =>
      \A r \in AllRuns : run[r].result.claimed => run[r].wrote \subseteq scene.declared

\* The same in any worktree.
ClaimNeverBeatsDiff ==
    scene.adapter # "manual" => \A r \in AllRuns : run[r].result.claimed => run[r].wrote \subseteq scene.declared

\* The transcript a run names as evidence still holds its own text, where every run
\* has its own directory.
TranscriptsStand ==
    scene.perRun => \A r \in AllRuns : run[r].evidence => transcript[EvidenceDir(r)] = r

\* The same where the adapter is run without the scheduler, in one directory.
EveryTranscriptStands == \A r \in AllRuns : run[r].evidence => transcript[EvidenceDir(r)] = r

\* A run told as cancelled did not end by itself (subprocess.ts: "the resulting
\* `aborted` flag is the only confirmation the termination landed").
CancelledWasStopped ==
    \A r \in AllRuns : run[r].result.reason = "user_cancellation" => run[r].child = "killed"

\* Every run of a child process ends: its timer sees to it, provided SIGTERM ends the
\* child.
RunsSettle == \A r \in AllRuns : (InFlight(r) /\ run[r].pc # "asked") ~> run[r].pc = "done"
=============================================================================
