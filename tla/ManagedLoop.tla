----------------------------- MODULE ManagedLoop -----------------------------
(***************************************************************************)
(* The managed loop (runtime/src/loop): a model proposes steps, the loop   *)
(* runs their tool calls, applies their proposals to the working state,    *)
(* meters usage, narrows the grant and stops at a ceiling, a repetition, a *)
(* failure, a cancellation or a verified completion.  Every await is a     *)
(* step of its own: the user may cancel, and time and tokens pass, while   *)
(* the loop waits.                                                         *)
(***************************************************************************)
EXTENDS Naturals, Sequences, SequencesExt, FiniteSetsExt

CONSTANTS Requests,   \* the policies and overrides to start a loop with
          Actions,    \* fingerprints of tool calls
          MaxTokens,  \* bound on the tokens a step uses
          MaxClock    \* bound on the time that passes

VARIABLES req, policy, pc, steps, tokens, before, clock, ws, grant, window, outputs,
          todo, proposal, tries, cancelled, decision, verified, streak
vars == <<req, policy, pc, steps, tokens, before, clock, ws, grant, window, outputs,
          todo, proposal, tries, cancelled, decision, verified, streak>>

-----------------------------------------------------------------------------
(* The policy of a loop.                                                   *)
Absent == 0
Raised(declared, override, authorized) == override # Absent /\ override > declared /\ ~authorized
ResolveBudget(declared, override, ceiling) ==
    LET value == IF override = Absent THEN declared ELSE override
    IN IF ceiling # Absent /\ value > ceiling THEN ceiling ELSE value
(* Termination requirements: [verify, hard]; an override may only tighten. *)
ResolveTermination(base, override) ==
    [verify |-> IF override.verify = "none" THEN base.verify ELSE override.verify = "yes",
     hard |-> IF override.hard = "none" THEN base.hard ELSE override.hard = "yes"]
Weakened(base, next) == (base.verify /\ ~next.verify) \/ (base.hard /\ ~next.hard)
IsLoopPolicy(p) == p.max_steps >= 1 /\ p.max_tokens >= 1 /\ p.max_duration >= 1 /\ p.window >= 1 /\ p.limit >= 2

Refused(r) ==
    \/ Raised(r.steps, r.overrides.steps, r.authorized) \/ Raised(r.tokens, r.overrides.tokens, r.authorized)
    \/ Weakened(r.termination, ResolveTermination(r.termination, r.overrides.termination)) /\ ~r.authorized
ResolveLoopPolicy(r) ==
    [max_steps |-> ResolveBudget(r.steps, r.overrides.steps, r.ceiling),
     max_tokens |-> ResolveBudget(r.tokens, r.overrides.tokens, Absent), max_duration |-> r.duration,
     retries |-> r.retries, window |-> r.window, limit |-> r.limit,
     termination |-> ResolveTermination(r.termination, r.overrides.termination)]

Init ==
    /\ req \in {r \in Requests : ~Refused(r) /\ IsLoopPolicy(ResolveLoopPolicy(r))}
    /\ policy = ResolveLoopPolicy(req)
    /\ pc = "head" /\ steps = 0 /\ tokens = 0 /\ before = 0 /\ clock = 0
    /\ ws = [steps |-> 0, tokens |-> 0, facts |-> 0]
    /\ grant = [steps |-> req.grant, tokens |-> req.tokens]
    /\ window = <<>> /\ outputs = {} /\ todo = <<>> /\ proposal = "none" /\ tries = 0
    /\ cancelled = FALSE /\ decision = "none" /\ verified = FALSE /\ streak = 0

-----------------------------------------------------------------------------
Hard == policy.termination.hard
Ceiling ==
    CASE steps >= policy.max_steps -> "budget_ceiling"
      [] tokens >= policy.max_tokens -> "budget_ceiling"
      [] clock >= policy.max_duration -> "timeout"
      [] OTHER -> "none"
(* machine.terminate: never a success; verify alone decides on one.        *)
Finish(reason) == pc' = "terminated" /\ decision' = reason

StopReason == IF cancelled THEN "user_cancellation" ELSE IF Hard THEN Ceiling ELSE "none"
LoopHead ==
    /\ pc = "head"
    /\ IF StopReason # "none" THEN Finish(StopReason) /\ UNCHANGED <<steps, before>>
       ELSE steps' = steps + 1 /\ before' = tokens /\ pc' = "step" /\ UNCHANGED decision
    /\ UNCHANGED <<req, policy, tokens, clock, ws, grant, window, outputs, todo, proposal, tries, cancelled, verified, streak>>

(* The model answers; its tokens are used whatever it answers.             *)
ModelStep(calls, p, used) ==
    /\ pc = "step" /\ tokens' = tokens + used /\ todo' = calls /\ proposal' = p /\ tries' = 0
    /\ pc' = IF calls = <<>> THEN "apply" ELSE "tool"
    /\ UNCHANGED <<req, policy, steps, before, clock, ws, grant, window, outputs, cancelled, decision, verified, streak>>
ModelFails ==
    /\ pc = "step" /\ Finish("adapter_failure")
    /\ UNCHANGED <<req, policy, steps, tokens, before, clock, ws, grant, window, outputs, todo, proposal, tries,
                   cancelled, verified, streak>>
ModelCompletes(p) ==
    /\ pc = "step"
    /\ IF p = "invalid" THEN Finish("adapter_failure") /\ UNCHANGED ws
       ELSE /\ pc' = "verifying" /\ UNCHANGED decision
            /\ ws' = [ws EXCEPT !.facts = IF p = "fact" THEN @ + 1 ELSE @]
    /\ UNCHANGED <<req, policy, steps, tokens, before, clock, grant, window, outputs, todo, proposal, tries,
                   cancelled, verified, streak>>

(* LoopPhaseMachine.verify, after deps.verify unless the policy waives it. *)
Decide(ok) == IF ok \/ ~policy.termination.verify THEN "completion" ELSE "gate_failure"
Verify(ok) ==
    /\ pc = "verifying" /\ verified' = ok /\ Finish(Decide(ok))
    /\ UNCHANGED <<req, policy, steps, tokens, before, clock, ws, grant, window, outputs, todo, proposal, tries,
                   cancelled, streak>>

-----------------------------------------------------------------------------
(* RepeatDetector.observe.                                                 *)
Slide(seen) == IF Len(seen) > policy.window THEN SubSeq(seen, Len(seen) - policy.window + 1, Len(seen)) ELSE seen
Occurrences(seen) == Cardinality({i \in DOMAIN seen : seen[i] = Last(seen)})
RepeatedLate(seen) == Occurrences(seen) > policy.limit
Repeated(seen) == Occurrences(seen) >= policy.limit

ToolSucceeds(out) ==
    LET all == outputs \cup {out}
        seen == Slide(Append(window, <<Head(todo), ws.facts, all>>))
    IN /\ pc = "tool" /\ outputs' = all /\ window' = seen
       /\ streak' = IF window # <<>> /\ Last(window) = Last(seen) THEN streak + 1 ELSE 1
       /\ IF Repeated(seen) THEN Finish("repeat_detection") /\ UNCHANGED <<todo, tries>>
          ELSE /\ todo' = Tail(todo) /\ tries' = 0
               /\ pc' = IF Tail(todo) = <<>> THEN "apply" ELSE "tool"
               /\ UNCHANGED decision
       /\ UNCHANGED <<req, policy, steps, tokens, before, clock, ws, grant, proposal, cancelled, verified>>

ToolFailureDecision(kind) ==
    CASE kind = "timeout" -> "timeout" [] kind \in {"tool_failed", "uncertain_result"} -> "adapter_failure"
      [] OTHER -> "policy_denial"
ToolFails(kind) ==
    /\ pc = "tool"
    /\ IF kind \in {"timeout", "tool_failed"} /\ tries < policy.retries
       THEN tries' = tries + 1 /\ UNCHANGED <<pc, decision>>
       ELSE Finish(ToolFailureDecision(kind)) /\ UNCHANGED tries
    /\ UNCHANGED <<req, policy, steps, tokens, before, clock, ws, grant, window, outputs, todo, proposal,
                   cancelled, verified, streak>>

(* The proposal, then the step's usage against the working state's own     *)
(* ceilings, then the grant, then the ceilings of a soft policy.           *)
NarrowGrant == [steps |-> Min({grant.steps, Max({0, policy.max_steps - steps})}),
                tokens |-> Min({grant.tokens, Max({0, policy.max_tokens - tokens})})]
OverBudget(used) == used.steps > req.wsSteps \/ used.tokens > req.wsTokens
ApplyProposal ==
    LET facts == IF proposal = "fact" THEN ws.facts + 1 ELSE ws.facts
        used == [steps |-> ws.steps + 1, tokens |-> ws.tokens + (tokens - before), facts |-> facts]
    IN /\ pc = "apply"
       /\ CASE proposal = "invalid" -> Finish("adapter_failure") /\ UNCHANGED <<ws, grant>>
            [] proposal # "invalid" /\ OverBudget(used) ->
                 Finish("budget_ceiling") /\ ws' = [ws EXCEPT !.facts = facts] /\ UNCHANGED grant
            [] OTHER -> /\ ws' = used /\ grant' = NarrowGrant
                        /\ IF ~Hard /\ Ceiling # "none" THEN Finish(Ceiling) ELSE pc' = "head" /\ UNCHANGED decision
       /\ UNCHANGED <<req, policy, steps, tokens, before, clock, window, outputs, todo, proposal, tries,
                      cancelled, verified, streak>>

Cancel == pc # "terminated" /\ ~cancelled /\ cancelled' = TRUE
          /\ UNCHANGED <<req, policy, pc, steps, tokens, before, clock, ws, grant, window, outputs, todo, proposal,
                         tries, decision, verified, streak>>
Tick == pc \in {"step", "tool"} /\ clock < MaxClock /\ clock' = clock + 1
        /\ UNCHANGED <<req, policy, pc, steps, tokens, before, ws, grant, window, outputs, todo, proposal, tries,
                       cancelled, decision, verified, streak>>

Next ==
    \/ LoopHead \/ ModelFails \/ ApplyProposal \/ Cancel \/ Tick
    \/ \E c \in {<<>>} \cup {<<a>> : a \in Actions} \cup {<<a, b>> : a, b \in Actions},
          p \in {"none", "fact", "invalid"}, u \in 0..MaxTokens : ModelStep(c, p, u)
    \/ \E p \in {"none", "invalid"} : ModelCompletes(p)
    \/ \E ok \in BOOLEAN : Verify(ok)
    \/ \E out \in {"same", "new"} : ToolSucceeds(out)
    \/ \E k \in {"timeout", "tool_failed", "uncertain_result", "phase_not_allowed"} : ToolFails(k)
    \/ pc = "terminated" /\ UNCHANGED vars
Spec == Init /\ [][Next]_vars

-----------------------------------------------------------------------------
(* The loop's counters stay within what the step and token bounds allow.   *)
TypeOK ==
    /\ pc \in {"head", "step", "tool", "apply", "verifying", "terminated"}
    /\ Len(window) <= policy.window /\ tries <= policy.retries /\ clock <= MaxClock
    /\ ws.steps <= req.wsSteps /\ ws.tokens <= req.wsTokens

(* No loop takes more steps than were declared for it, or approved, and    *)
(* none ever passes the policy's ceiling.                                  *)
StepsWithinCeiling ==
    /\ req.ceiling # Absent => steps <= req.ceiling
    /\ ~req.authorized => steps <= req.steps

(* A loop succeeds only on evidence that was verified, unless the policy   *)
(* itself, or an authorization, waives the verification.                   *)
SuccessWasVerified ==
    decision = "completion" => verified \/ ~req.termination.verify \/ req.authorized

(* The same call with the same state and the same outputs is not made more *)
(* often than the limit.  (The window must be able to hold that many.)     *)
RepetitionIsStopped == policy.limit <= policy.window => streak <= policy.limit /\ (streak = policy.limit => pc = "terminated")

(* The grant of a running loop only ever shrinks.                          *)
GrantOnlyNarrows == [][grant'.steps <= grant.steps /\ grant'.tokens <= grant.tokens]_vars

(* A cancelled loop starts at most the step it is in.                      *)
CancelEndsLoop == [][cancelled => steps' = steps]_vars
=============================================================================
