--------------------------- MODULE ToolInvocation ---------------------------
(***************************************************************************)
(* Tool invocation (runtime/src/tools): invokeTool checks a request, opens *)
(* an intent for an external side effect, runs the handler under a timeout *)
(* and closes the intent "completed" or "uncertain".  The steps up to the  *)
(* handler are synchronous, so calls interleave only while handlers run; a *)
(* handler that was timed out, or whose process died, may still take       *)
(* effect.  A resume restores the journal from its records and reconciles  *)
(* what is unresolved: probe first, then apply the decision.               *)
(***************************************************************************)
EXTENDS Naturals, FiniteSets, FiniteSetsExt

CONSTANTS Tools,      \* tool -> [external, phases, resources, approval, retries, quota, manual]
          Requests,   \* request -> [tool, phase, resource, flaw, approval, key, intent]
          Scenarios,  \* the sets of requests that are made together
          Restarts,   \* how often the process may die
          Hasty       \* may a probe say "not applied" of a call the provider still works on?

Ids == DOMAIN Requests
Keys == {Requests[r].key : r \in Ids}
IntentIds == {Requests[r].intent : r \in Ids}
ToolOf(r) == Tools[Requests[r].tool]
NoKey == "none"
None == [key |-> NoKey]

VARIABLES intents,   \* the journal: intent id -> record or None
          outputs,   \* intents whose output is remembered in memory
          used,      \* invocations counted against each tool's quota
          call,      \* request -> [pc, attempts, answer]
          working,   \* handler executions that can still take effect: <<request, attempt>>
          effects,   \* executions that took effect
          probed,    \* decisions of a reconciliation, not applied yet
          deaths

vars == <<intents, outputs, used, call, working, effects, probed, deaths>>

Idle == [pc |-> "idle", attempts |-> 0, answer |-> "none"]
Running(r) == call[r].pc = "running"
Quiet == \A r \in Ids : ~Running(r)
EffectsOf(k) == {e \in effects : Requests[e[1]].key = k /\ ToolOf(e[1]).external}

Init ==
    /\ intents = [i \in IntentIds |-> None] /\ outputs = {}
    /\ used = [t \in DOMAIN Tools |-> 0]
    /\ \E S \in Scenarios : call = [r \in Ids |-> IF r \in S THEN Idle ELSE [Idle EXCEPT !.pc = "done"]]
    /\ working = {} /\ effects = {} /\ probed = {} /\ deaths = 0

-----------------------------------------------------------------------------
Answer(r, a) == call' = [call EXCEPT ![r].pc = "done", ![r].answer = a]

(* The first check that fails, in the order of the code.                   *)
ResourceAllowed(r) ==
    IF ToolOf(r).resources = {} THEN Requests[r].resource = "none"
    ELSE Requests[r].resource \in ToolOf(r).resources
ApprovalBinds(r) == ToolOf(r).approval => Requests[r].approval = r
Denied(r) ==
    CASE Requests[r].flaw \in {"unknown_tool", "invalid_input"} -> Requests[r].flaw
      [] Requests[r].phase \notin ToolOf(r).phases -> "phase_not_allowed"
      [] ~ResourceAllowed(r) -> "resource_not_allowed"
      [] Requests[r].flaw \in {"parameter_out_of_bounds", "grant_violation"} -> Requests[r].flaw
      [] ~ApprovalBinds(r) -> "approval_invalid"
      [] ToolOf(r).external /\ Requests[r].key = NoKey -> "idempotency_key_required"
      [] OTHER -> "none"

Existing(r) == {i \in IntentIds : /\ intents[i] # None /\ intents[i].tool = Requests[r].tool
                                  /\ intents[i].key = Requests[r].key}
QuotaLeft(r) == used[Requests[r].tool] < ToolOf(r).quota

Refuse(r, a) == Answer(r, a) /\ UNCHANGED <<intents, outputs, used, working, effects, probed, deaths>>

(* The quota is consumed before the intent is opened. *)
Open(r) ==
    LET i == Requests[r].intent
    IN /\ used' = [used EXCEPT ![Requests[r].tool] = @ + 1]
       /\ IF ToolOf(r).external /\ intents[i] # None
          THEN Answer(r, "invalid_intent_transition") /\ UNCHANGED <<intents, working>>
          ELSE /\ intents' = IF ToolOf(r).external
                             THEN [intents EXCEPT ![i] = [tool |-> Requests[r].tool, key |-> Requests[r].key,
                                                          status |-> "pending"]]
                             ELSE intents
               /\ call' = [call EXCEPT ![r] = [pc |-> "running", attempts |-> 1, answer |-> "none"]]
               /\ working' = working \cup {<<r, 1>>}
       /\ UNCHANGED <<outputs, effects, probed, deaths>>

InvokeTool(r) ==
    /\ call[r] = Idle
    /\ CASE Denied(r) # "none" -> Refuse(r, Denied(r))
         [] ToolOf(r).external /\ Existing(r) # {} ->
              LET i == CHOOSE j \in Existing(r) : TRUE
              IN IF intents[i].status = "completed"
                 THEN Refuse(r, IF i \in outputs THEN "replayed" ELSE "replayed_without_output")
                 ELSE Refuse(r, "reconciliation_required")
         [] ~QuotaLeft(r) -> Refuse(r, "quota_exceeded")
         [] OTHER -> Open(r)

(* The handler's effect, whether or not anyone still waits for it. *)
TakeEffect(e) ==
    /\ e \in working \ effects /\ effects' = effects \cup {e}
    /\ UNCHANGED <<intents, outputs, used, call, working, probed, deaths>>

Current(r) == <<r, call[r].attempts>>
Close(r, status) ==
    intents' = IF ToolOf(r).external THEN [intents EXCEPT ![Requests[r].intent] =
                    [tool |-> Requests[r].tool, key |-> Requests[r].key, status |-> status]]
               ELSE intents

(* The handler returns, after its effect; an output that fails its schema  *)
(* completes the intent and is thrown away.                                *)
HandlerReturns(r, valid) ==
    /\ Running(r) /\ Current(r) \in working \cap effects
    /\ working' = working \ {Current(r)}
    /\ Close(r, "completed")
    /\ outputs' = IF valid /\ ToolOf(r).external THEN outputs \cup {Requests[r].intent} ELSE outputs
    /\ Answer(r, IF valid THEN "evidence" ELSE "invalid_output")
    /\ UNCHANGED <<used, effects, probed, deaths>>

Failed(r, failure) ==
    LET rest == IF failure = "timeout" THEN working ELSE working \ {Current(r)}
    IN CASE ToolOf(r).external -> /\ Close(r, "uncertain") /\ Answer(r, "uncertain_result")
                                  /\ working' = rest
         [] call[r].attempts < 1 + ToolOf(r).retries ->
              /\ call' = [call EXCEPT ![r].attempts = @ + 1]
              /\ working' = rest \cup {<<r, call[r].attempts + 1>>} /\ UNCHANGED intents
         [] OTHER -> Answer(r, failure) /\ working' = rest /\ UNCHANGED intents

HandlerFails(r, failure) ==
    /\ Running(r) /\ Current(r) \in working /\ Failed(r, failure)
    /\ UNCHANGED <<outputs, used, effects, probed, deaths>>

(* A handler that nobody waits for any more ends without an effect. *)
LateEnds(e) ==
    /\ e \in working /\ ~(Running(e[1]) /\ e = Current(e[1]))
    /\ working' = working \ {e}
    /\ UNCHANGED <<intents, outputs, used, call, effects, probed, deaths>>

-----------------------------------------------------------------------------
(* The process dies; the journal is restored from its records, without the *)
(* remembered outputs, and the run's quota starts over.                    *)
Restart ==
    /\ deaths < Restarts /\ deaths' = deaths + 1
    /\ outputs' = {} /\ used' = [t \in DOMAIN Tools |-> 0] /\ probed' = {}
    /\ call' = [r \in Ids |-> IF Running(r) THEN [call[r] EXCEPT !.pc = "done", !.answer = "died"]
                              ELSE call[r]]
    /\ UNCHANGED <<intents, working, effects>>

(* What a probe may answer: the provider proves only what is settled.      *)
ProbeOutcomes(i) ==
    LET mine(S) == {e \in S : Requests[e[1]].intent = i}
    IN {"unknown"} \cup (IF mine(effects) # {} THEN {"applied"}
                         ELSE IF Hasty \/ mine(working) = {} THEN {"not_applied"} ELSE {})
Decision(i, outcome) ==
    CASE Tools[intents[i].tool].manual -> "manual_required"
      [] outcome = "applied" -> "reuse_result"
      [] outcome = "not_applied" -> "retry_allowed"
      [] OTHER -> "manual_required"

ReconcileIntent(i) ==
    /\ Quiet /\ intents[i] # None /\ intents[i].status # "completed"
    /\ \A d \in probed : d[1] # i
    /\ \E o \in ProbeOutcomes(i) : probed' = probed \cup {<<i, Decision(i, o)>>}
    /\ UNCHANGED <<intents, outputs, used, call, working, effects, deaths>>

(* markReconciledApplied closes the intent; releaseForRetry deletes the    *)
(* record.                                                                 *)
ApplyDecision(d) ==
    LET i == d[1]
    IN /\ d \in probed /\ probed' = probed \ {d}
       /\ CASE intents[i] = None -> UNCHANGED <<intents, outputs>>
            [] d[2] = "reuse_result" -> /\ intents' = [intents EXCEPT ![i].status = "completed"]
                                        /\ UNCHANGED outputs
            [] d[2] = "retry_allowed" -> /\ intents' = [intents EXCEPT ![i] = None]
                                         /\ outputs' = outputs \ {i}
            [] OTHER -> UNCHANGED <<intents, outputs>>
       /\ UNCHANGED <<used, call, working, effects, deaths>>

Finished == \A r \in Ids : call[r].pc = "done"
Next ==
    \/ \E r \in Ids : \/ InvokeTool(r) \/ HandlerReturns(r, TRUE) \/ HandlerReturns(r, FALSE)
                      \/ HandlerFails(r, "tool_failed") \/ HandlerFails(r, "timeout")
    \/ \E e \in working : TakeEffect(e) \/ LateEnds(e)
    \/ Restart
    \/ \E i \in IntentIds : ReconcileIntent(i)
    \/ \E d \in probed : ApplyDecision(d)
    \/ Finished /\ UNCHANGED vars
Fairness == \A r \in Ids : WF_vars(HandlerFails(r, "timeout"))
Spec == Init /\ [][Next]_vars /\ Fairness

-----------------------------------------------------------------------------
(* Journal records, quota counters and call states are well typed. *)
TypeOK ==
    /\ \A i \in IntentIds : intents[i] # None =>
          intents[i].status \in {"pending", "uncertain", "completed"} /\ intents[i].key \in Keys
    /\ outputs \subseteq IntentIds
    /\ \A t \in DOMAIN Tools : used[t] \in 0..Tools[t].quota
    /\ \A r \in Ids : call[r].attempts \in 0..(1 + ToolOf(r).retries)

(* One idempotency key, one external effect: a timeout, a failed call, a   *)
(* restart or a reconciliation never leads to the effect being repeated.   *)
EffectOncePerKey == \A k \in Keys \ {NoKey} : Cardinality(EffectsOf(k)) <= 1

(* A completed intent stands for an effect that took place, so replaying   *)
(* its key instead of calling the tool is right.                           *)
CompletedWasApplied ==
    \A i \in IntentIds : intents[i] # None /\ intents[i].status = "completed" =>
       EffectsOf(intents[i].key) # {}

(* What the journal has forgotten did not happen: a key with an external   *)
(* effect has an intent, so no later request can run it again.             *)
EffectsAreJournalled ==
    \A r \in Ids : (\E e \in effects : e[1] = r) /\ ToolOf(r).external => Existing(r) # {}

(* A handler only ever works for a request that passed every check.        *)
OnlyAdmittedWork == \A e \in working \cup effects :
    /\ Requests[e[1]].phase \in ToolOf(e[1]).phases
    /\ ToolOf(e[1]).approval => Requests[e[1]].approval = e[1]

(* Every call is answered: the timeout bounds a handler that never ends.   *)
CallsAreAnswered == \A r \in Ids : Running(r) ~> call[r].pc = "done"
=============================================================================
