--------------------------- MODULE ModelInvocation ---------------------------
(***************************************************************************)
(* Managed model invocations (packages/runtime/src/model): a port compiles *)
(* a prompt, the runner persists every state of the invocation before the  *)
(* next step, calls the provider at most once per attempt, stores the      *)
(* validated result and replays it to whoever asks again, and the port     *)
(* consumes it.                                                            *)
(*                                                                         *)
(* Every stretch between two awaits is a sequence of files to append, each *)
(* refused when it exists with other content; a crash leaves a prefix.     *)
(***************************************************************************)
EXTENDS Naturals, Sequences, FiniteSets

CONSTANTS
    Procs,          \* processes
    Invocations,    \* invocation id -> [conversation, port]; a port is one of Ports
    Prompts,        \* prompts a port may compile: [key, overlay, policy, items]
    MaxItem,        \* max_item_bytes
    MaxTotal,       \* max_total_bytes
    MaxHttp,        \* MAX_ATTEMPTS of the provider
    MaxAttempts,    \* bound: attempts of one invocation
    MaxCalls,       \* bound: provider calls
    MaxCrashes      \* bound: crashes

VARIABLES
    store,          \* appended files: invocation records and results
    proc,           \* what each process is doing
    made,           \* ghost: <<value, key>> for every value a provider returned
    answers,        \* ghost: [id, key, value] handed to a caller and consumed
    called,         \* ghost: <<id, attempt>> of the last provider call
    calls,          \* provider calls so far
    crashes
vars == <<store, proc, made, answers, called, calls, crashes>>

Ids == DOMAIN Invocations
Idle == [at |-> "idle"]

\* The ports differ in what they check of a validated value before consuming
\* it, and in how they report a failure.
PrdProposalPort == [checked |-> FALSE, failures |-> "prd"]
PrdReviewPort == [checked |-> FALSE, failures |-> "prd"]
GroundedSynthesisPort == [checked |-> TRUE, failures |-> "grounded"]
DesignProposalPort == [checked |-> TRUE, failures |-> "model"]
DesignReviewPort == [checked |-> TRUE, failures |-> "model"]
PlanProposalPort == [checked |-> TRUE, failures |-> "model"]
FeedbackAnalysisPort == [checked |-> TRUE, failures |-> "model"]
ImpactAdvisoryPort == [checked |-> TRUE, failures |-> "model"]
Ports == [prd_proposal |-> PrdProposalPort, prd_review |-> PrdReviewPort, grounded_synthesis |-> GroundedSynthesisPort,
          design_proposal |-> DesignProposalPort, design_review |-> DesignReviewPort, plan_proposal |-> PlanProposalPort,
          feedback_analysis |-> FeedbackAnalysisPort, impact_advisory |-> ImpactAdvisoryPort]

FailureCodes == {"provider_required", "provider_unavailable", "timeout", "budget_exhausted", "invalid_output",
                 "independence_violation", "version_mismatch", "policy_denied", "uncertain"}
\* The codes a port's callers know.
PrdFailureCodes == {"invalid_output", "provider_unavailable", "timeout", "budget_exhausted", "version_mismatch",
                    "uncertain", "policy_denied"}
GroundedFailureCodes == {"provider_required", "provider_unavailable", "invalid_output", "citation_missing",
                         "citation_invalid", "binding_drift", "independence_violation", "version_mismatch",
                         "unknown_purpose", "bundle_stale", "policy_denied", "uncertain"}
Known(port) == CASE port.failures = "prd" -> PrdFailureCodes
                 [] port.failures = "grounded" -> GroundedFailureCodes
                 [] OTHER -> FailureCodes
\* toPrdPortFailure, toGroundedFailure
Reported(port, code) ==
    CASE port.failures = "prd" /\ code = "provider_required" -> "provider_unavailable"
      [] port.failures = "prd" /\ code = "independence_violation" -> "policy_denied"
      [] port.failures = "grounded" /\ code = "timeout" -> "provider_unavailable"
      [] port.failures = "grounded" /\ code = "budget_exhausted" -> "uncertain"
      [] OTHER -> code

\* wrapUntrustedBundle: every item within its own limit and the running total
\* within the bundle's, and nothing in it that reads as a boundary.
Total[items \in Seq([bytes : Nat, clean : BOOLEAN])] ==
    IF items = <<>> THEN 0 ELSE Head(items).bytes + Total[Tail(items)]
WithinBoundary(items) ==
    /\ \A i \in DOMAIN items : items[i].bytes <= MaxItem /\ items[i].clean
    /\ Total[items] <= MaxTotal
\* compilePrompt
Compiles(prompt) == prompt.overlay /\ prompt.policy /\ WithinBoundary(prompt.items)

-----------------------------------------------------------------------------
(* Records and the append-only store.                                      *)

Record(id, attempt, rev, state, key, value, code) ==
    [kind |-> "record", id |-> id, attempt |-> attempt, rev |-> rev, state |-> state, key |-> key, value |-> value,
     code |-> code]
Result(id, attempt, value) == [kind |-> "result", id |-> id, attempt |-> attempt, value |-> value]
Records == {e \in store : e.kind = "record"}

\* planModelInvocation
Planned(id, attempt, key) == Record(id, attempt, 1, "planned", key, 0, "none")
LegalTransitions ==
    [planned |-> {"started", "failed", "invalidated"}, started |-> {"completed", "failed", "invalidated"},
     completed |-> {"validated", "failed", "invalidated"}, failed |-> {}, validated |-> {"consumed", "invalidated"},
     consumed |-> {}, invalidated |-> {}]
\* transitionModelInvocation
To(r, state) == [r EXCEPT !.rev = @ + 1, !.state = state]
Failed(r, code) == [To(r, "failed") EXCEPT !.code = code]
Valued(r, state, value) == [To(r, state) EXCEPT !.value = value]

Terminal == {"consumed", "failed", "invalidated"}
SamePath(e, f) ==
    e.kind = f.kind /\ e.id = f.id /\ e.attempt = f.attempt /\ (e.kind = "record" => e.rev = f.rev)
\* latestModelInvocation
Latest(id) ==
    LET own == {r \in Records : r.id = id}
    IN  {r \in own : \A q \in own : q.attempt < r.attempt \/ (q.attempt = r.attempt /\ q.rev <= r.rev)}

\* appendModelInvocationRecord, writeValidatedModelResult: the files in order;
\* a conflict throws, a crash stops.
Conflicts(e) == \E f \in store : SamePath(e, f) /\ f # e
Prefix(files, n) == {files[i] : i \in 1..n}
Write(p, files, next) ==
    \E n \in 0..Len(files) :
        /\ \A i \in 1..n : ~Conflicts(files[i])
        /\ store' = store \cup Prefix(files, n)
        /\ \/ n = Len(files) /\ proc' = [proc EXCEPT ![p] = next] /\ UNCHANGED crashes
           \/ n < Len(files) /\ Conflicts(files[n + 1]) /\ proc' = [proc EXCEPT ![p] = Idle] /\ UNCHANGED crashes
           \/ /\ n < Len(files) /\ crashes < MaxCrashes /\ crashes' = crashes + 1
              /\ proc' = [proc EXCEPT ![p] = Idle]

-----------------------------------------------------------------------------
(* runManagedInvocation.                                                   *)

\* An earlier answer for the same key, from any other invocation.
CacheHitByConversation(id, key) ==
    {r \in Records : r.id # id /\ Invocations[r.id].conversation = Invocations[id].conversation
                     /\ r.value # 0 /\ r.state \in {"validated", "consumed"}}
CacheHit(id, key) ==
    {r \in Records : r.id # id /\ r.key = key /\ r.value # 0 /\ r.state \in {"validated", "consumed"}}
\* Another invocation used the conversation under another key.  The code looks
\* at the first such record in invocation order only.
SharedConversation(id, key) ==
    LET others == {r \in Records : r.id # id /\ Invocations[r.id].conversation = Invocations[id].conversation}
        first == {r \in others : \A q \in others : q.id = r.id => r.attempt <= q.attempt}
    IN  \E r \in first : r.key # key

\* A fresh attempt: refused, answered from the cache, without a provider, or
\* started and awaiting the provider.
Attempt(p, id, key, provided, before, attempt) ==
    LET planned == Planned(id, attempt, key)
        started == To(planned, "started")
    IN  /\ attempt <= MaxAttempts
        /\ CASE SharedConversation(id, key) ->
                    /\ Write(p, before \o <<planned, Failed(planned, "independence_violation")>>, Idle)
                    /\ UNCHANGED <<called, calls>>
             [] ~SharedConversation(id, key) /\ CacheHit(id, key) # {} ->
                    /\ \E hit \in CacheHit(id, key) :
                        LET completed == Valued(started, "completed", hit.value)
                            validated == To(completed, "validated")
                        IN  Write(p, before \o <<planned, started, Result(id, attempt, hit.value), completed, validated>>,
                                  [at |-> "deliver", rec |-> validated])
                    /\ UNCHANGED <<called, calls>>
             [] ~SharedConversation(id, key) /\ CacheHit(id, key) = {} /\ ~provided ->
                    /\ Write(p, before \o <<planned, Failed(planned, "provider_required")>>, Idle)
                    /\ UNCHANGED <<called, calls>>
             [] OTHER ->
                    /\ calls < MaxCalls /\ calls' = calls + 1
                    /\ called' = <<id, attempt>>
                    /\ Write(p, before \o <<planned, started>>, [at |-> "call", rec |-> started, http |-> 1])

\* What the latest record of the invocation calls for.  A failed invocation
\* returns its failure, and a sealed one throws under another key.
Reconcile(p, id, latest, key, provided) ==
    \/ /\ latest = {} /\ Attempt(p, id, key, provided, <<>>, 1)
    \/ \E l \in latest :
        \/ l.state = "invalidated" /\ Attempt(p, id, key, provided, <<>>, l.attempt + 1)
        \/ /\ l.state \notin Terminal /\ l.key # key
           /\ Attempt(p, id, key, provided, <<To(l, "invalidated")>>, l.attempt + 1)
        \/ /\ l.state \in {"consumed", "validated"} /\ l.key = key
           /\ Write(p, <<>>, [at |-> "deliver", rec |-> l]) /\ UNCHANGED <<called, calls>>
        \/ /\ l.state = "completed" /\ l.key = key
           /\ Write(p, <<To(l, "validated")>>, [at |-> "deliver", rec |-> To(l, "validated")]) /\ UNCHANGED <<called, calls>>
        \/ l.state = "planned" /\ l.key = key /\ Attempt(p, id, key, provided, <<>>, l.attempt)
        \/ l.state = "started" /\ l.key = key /\ Attempt(p, id, key, provided, <<>>, l.attempt + 1)
        \/ /\ l.state = "failed" \/ (l.state = "consumed" /\ l.key # key)
           /\ Write(p, <<>>, Idle) /\ UNCHANGED <<called, calls>>

Invoke(p) ==
    /\ proc[p].at = "idle"
    /\ \E id \in Ids :
        LET latest == Latest(id) IN
        \E prompt \in Prompts, provided \in BOOLEAN : Compiles(prompt) /\ Reconcile(p, id, latest, prompt.key, provided)
    /\ UNCHANGED <<made, answers>>

-----------------------------------------------------------------------------
(* The provider: a preflight, then up to MaxHttp requests.                 *)

\* createOpenAiCompatManagedProvider: a retryable status or error tries again.
HttpRetry(p) ==
    /\ proc[p].at = "call" /\ proc[p].http < MaxHttp
    /\ proc' = [proc EXCEPT ![p].http = @ + 1]
    /\ UNCHANGED <<store, made, answers, called, calls, crashes>>

\* The runner's answer to a failed preflight or request, the exhausted
\* retries, its own timeout, an output too large, or one that is not valid.
ProviderFails(p) ==
    /\ proc[p].at = "call"
    /\ \E code \in {"policy_denied", "provider_unavailable", "timeout", "budget_exhausted", "invalid_output", "version_mismatch"} :
        Write(p, <<Failed(proc[p].rec, code)>>, Idle)
    /\ UNCHANGED <<made, answers, called, calls>>

\* A valid output: the result is stored, then the invocation completed and
\* validated.
ProviderAnswers(p) ==
    /\ proc[p].at = "call"
    /\ LET value == Cardinality(made) + 1
           r == proc[p].rec
           completed == Valued(r, "completed", value)
           validated == To(completed, "validated")
       IN  /\ made' = made \cup {<<value, r.key>>}
           /\ Write(p, <<Result(r.id, r.attempt, value), completed, validated>>, [at |-> "deliver", rec |-> validated])
    /\ UNCHANGED <<answers, called, calls>>

\* readValidatedModelResult, the port's own checks, consumeManagedInvocation.
Deliver(p) ==
    /\ proc[p].at = "deliver"
    /\ LET r == proc[p].rec IN
       \/ /\ Result(r.id, r.attempt, r.value) \in store
          /\ Write(p, IF r.state = "consumed" THEN <<>> ELSE <<To(r, "consumed")>>, Idle)
          /\ answers' = IF r.state = "consumed" \/ To(r, "consumed") \in store'
                        THEN answers \cup {[id |-> r.id, key |-> r.key, value |-> r.value]} ELSE answers
       \/ /\ Ports[Invocations[r.id].port].checked \/ Result(r.id, r.attempt, r.value) \notin store
          /\ proc' = [proc EXCEPT ![p] = Idle] /\ UNCHANGED <<store, answers, crashes>>
    /\ UNCHANGED <<made, called, calls>>

Crash(p) ==
    /\ proc[p].at # "idle" /\ crashes < MaxCrashes
    /\ crashes' = crashes + 1 /\ proc' = [proc EXCEPT ![p] = Idle]
    /\ UNCHANGED <<store, made, answers, called, calls>>

Init ==
    /\ store = {} /\ made = {} /\ answers = {} /\ called = <<>> /\ calls = 0 /\ crashes = 0
    /\ proc = [p \in Procs |-> Idle]
Next == \E p \in Procs : Invoke(p) \/ HttpRetry(p) \/ ProviderFails(p) \/ ProviderAnswers(p) \/ Deliver(p) \/ Crash(p)
Spec == Init /\ [][Next]_vars

-----------------------------------------------------------------------------
\* Type invariant, with the record store's own rules: one file per path, the
\* revisions of an attempt follow the legal transitions, and a port reports
\* every failure by a code its callers know.
TypeOK ==
    /\ \A e, f \in store : SamePath(e, f) => e = f
    /\ \A r \in Records :
        /\ r.id \in Ids /\ r.attempt \in 1..MaxAttempts /\ r.state \in DOMAIN LegalTransitions
        /\ r.code \in FailureCodes \cup {"none"} /\ (r.state = "failed" <=> r.code # "none")
        /\ r.code # "none" => LET port == Ports[Invocations[r.id].port] IN Reported(port, r.code) \in Known(port)
        /\ r.rev > 1 => \E q \in Records : /\ q.id = r.id /\ q.attempt = r.attempt /\ q.rev = r.rev - 1
                                           /\ r.state \in LegalTransitions[q.state]
    /\ calls \in 0..MaxCalls /\ crashes \in 0..MaxCrashes

\* A caller only ever consumes a value that a provider returned for the very
\* cache key the caller asked under, whether it was called, replayed after a
\* crash or taken from another invocation's result.
ValueKeepsKey == \A a \in answers : <<a.value, a.key>> \in made

\* The answer of an invocation is consumed once and for all: whoever asks
\* again, after whatever crashes and changes of prompt, gets the same value
\* under the same key.
ConsumedIsSealed == \A a, b \in answers : a.id = b.id => a = b

\* No provider is called for an invocation that has been consumed or has
\* failed: the recorded outcome is returned.
SealedIsNotCalled ==
    [][called' # called =>
        ~\E r \in Records : r.id = called'[1] /\ r.state \in {"consumed", "failed"}]_vars

\* A conversation never spans two cache keys: the records of different
\* invocations that share it and were started have one key.
IndependentConversations ==
    \A q, r \in Records :
        q.id # r.id /\ Invocations[q.id].conversation = Invocations[r.id].conversation
            /\ q.state = "started" /\ r.state = "started" => q.key = r.key
=============================================================================
