----------------------------- MODULE MCServices -----------------------------
(***************************************************************************)
(* The runtime's services, one at a time: a behaviour picks one service,   *)
(* whose variables live in the slots s1, s2, ... The services share      *)
(* nothing, so running them side by side would show nothing more.          *)
(***************************************************************************)
EXTENDS Naturals

VARIABLES active, s1, s2, s3, s4, s5, s6, s7, s8, s9, s10, s11, s12, s13, s14, s15, s16, s17, s18
slots == <<s1, s2, s3, s4, s5, s6, s7, s8, s9, s10, s11, s12, s13, s14, s15, s16, s17, s18>>
vars == <<active, slots>>

-----------------------------------------------------------------------------
(* Tool invocation: two calls with one key, a third whose approval was     *)
(* given to another, and a tool of the project's own.                      *)
TTools ==
    [write |-> [external |-> FALSE, phases |-> {"execute"}, resources |-> {}, approval |-> FALSE,
                retries |-> 1, quota |-> 1, manual |-> FALSE],
     deploy |-> [external |-> TRUE, phases |-> {"execute"}, resources |-> {"env"}, approval |-> TRUE,
                 retries |-> 1, quota |-> 2, manual |-> FALSE]]
TRequest(tool, resource, approval, key, intent) ==
    [tool |-> tool, phase |-> "execute", resource |-> resource, flaw |-> "none", approval |-> approval,
     key |-> key, intent |-> intent]
TRequests ==
    [w1 |-> TRequest("write", "none", "none", "none", "i0"), w2 |-> TRequest("write", "none", "none", "none", "i0"),
     d1 |-> TRequest("deploy", "env", "d1", "k1", "i1"),
     d2 |-> TRequest("deploy", "env", "d2", "k1", "i2"), d3 |-> TRequest("deploy", "env", "d1", "k2", "i3")]
T == INSTANCE ToolInvocation WITH Tools <- TTools, Requests <- TRequests,
         Scenarios <- {{"w1", "w2"}, {"w1", "d1"}, {"d1", "d2", "d3"}}, Restarts <- 1, Hasty <- FALSE,
         intents <- s1, outputs <- s2, used <- s3, call <- s4, working <- s5, effects <- s6, probed <- s7, deaths <- s8

-----------------------------------------------------------------------------
(* Strict TDD: three calls for one contract, two of them overlapping.      *)
DScope == [spec |-> "test", colocated |-> "production", code |-> "production", fixed |-> "production"]
DClass == [spec |-> "test", colocated |-> "test", code |-> "production", fixed |-> "immutable"]
DFailure(target, kind) == [target |-> target, kind |-> kind, code |-> "e", symbols |-> {}, message |-> "m"]
DSees(failures, touches, drift) ==
    [outcome |-> "structured", failures |-> failures, selectors |-> {"s"}, drift |-> drift, touches |-> touches]
DObservations ==
    {DSees({}, {}, FALSE), DSees({DFailure(TRUE, "assertion")}, {}, FALSE), DSees({DFailure(TRUE, "syntax")}, {}, FALSE),
     DSees({DFailure(FALSE, "assertion")}, {}, FALSE), DSees({}, {}, TRUE), DSees({DFailure(TRUE, "assertion")}, {"code"}, FALSE)}
D == INSTANCE StrictTdd WITH
         MaxCalls <- 3, Contracts <- {"k1"}, Scope <- DScope, Class <- DClass, TaskPaths <- {},
         Writes <- {{"spec"}, {"colocated"}, {"code"}, {"code", "colocated"}}, Observations <- DObservations,
         Oracle <- [kinds |-> {"assertion"}, codes |-> {"e"}, symbols |-> {}, messages |-> {}, selectors |-> {"s"}],
         Planned <- TRUE, Overlapping <- {{1, 2}}, run <- s1, evidence <- s2, cycles <- s3, published <- s4

-----------------------------------------------------------------------------
(* The managed loop: hard and soft ceilings, raised with an authorization, *)
(* refused without one, a tight working state and a wide grant.            *)
LRequest(steps, ceiling, verify, hard, raised, authorized, wsSteps, granted) ==
    [steps |-> steps, tokens |-> 2, duration |-> 2, retries |-> 1, window |-> 3, limit |-> 2, ceiling |-> ceiling,
     termination |-> [verify |-> verify, hard |-> hard],
     overrides |-> [steps |-> raised, tokens |-> 0, termination |-> [verify |-> "none", hard |-> "none"]],
     authorized |-> authorized, grant |-> granted, wsSteps |-> wsSteps, wsTokens |-> 2]
L == INSTANCE ManagedLoop WITH
         Requests <- {LRequest(2, 3, TRUE, TRUE, 4, TRUE, 3, 1), LRequest(2, 0, TRUE, FALSE, 0, FALSE, 1, 3),
                      LRequest(2, 0, FALSE, FALSE, 0, FALSE, 2, 3), LRequest(2, 0, TRUE, TRUE, 3, FALSE, 3, 3)},
         Actions <- {"x"}, MaxTokens <- 1, MaxClock <- 2,
         req <- s1, policy <- s2, pc <- s3, steps <- s4, tokens <- s5, before <- s6, clock <- s7, ws <- s8, grant <- s9,
         window <- s10, outputs <- s11, todo <- s12, proposal <- s13, tries <- s14, cancelled <- s15, decision <- s16,
         verified <- s17, streak <- s18

-----------------------------------------------------------------------------
(* Event delivery: a page whose buffer holds two events, a spool that      *)
(* keeps one, a ledger event stamped before what was already delivered and *)
(* one too large to stream; and a watcher that reads two events at a time. *)
ECommits == <<[key |-> 1, op |-> "o1", ts |-> 1], [key |-> 0, op |-> "o2", ts |-> 2], [key |-> 0, op |-> "o1", ts |-> 1]>>
EWanted == [p \in {"page"} |-> {"o1", "o2"}]
E == INSTANCE EventDelivery WITH
         Browsers <- {"page"}, Watchers <- {}, Wanted <- EWanted, Commits <- ECommits, Heavy <- {2}, Oversize <- {3},
         MaxLive <- 2, MaxRecords <- 1, MaxBuffered <- 2, MaxBytes <- 3, DrainTicks <- 2, PageLimit <- 2, MaxFaults <- 1,
         spool <- s1, committed <- s2, stream <- s3, running <- s4, client <- s5, watch <- s6, faults <- s7
W == INSTANCE EventDelivery WITH
         Browsers <- {}, Watchers <- {"watch"}, Wanted <- EWanted, Commits <- ECommits, Heavy <- {2}, Oversize <- {3},
         MaxLive <- 4, MaxRecords <- 2, MaxBuffered <- 2, MaxBytes <- 3, DrainTicks <- 2, PageLimit <- 2, MaxFaults <- 0,
         spool <- s1, committed <- s2, stream <- s3, running <- s4, client <- s5, watch <- s6, faults <- s7

-----------------------------------------------------------------------------
(* Agent runs: a pool of two for an adapter that may run unattended, dsh   *)
(* and a person, who may not; two runs of one task.                        *)
AManifest(control, proves) ==
    [control |-> control, metering |-> proves, intercepts |-> proves, visible |-> proves, resumes |-> proves]
AScene(adapter, manifest, capacity, dirty, runs, outputs, paths) ==
    [adapter |-> adapter, manifest |-> manifest, capacity |-> capacity, dirty |-> dirty, declared |-> {"in"}, runs |-> runs,
     task |-> [r \in runs |-> "t"], perRun |-> TRUE, outputs |-> outputs, paths |-> paths]
AProven == AManifest("delegated", TRUE)
ABare == AManifest("delegated", FALSE)
AOutputs == {"completed", "failed", "crash", "silent", "garbage", "unmetered", "over"}
ATwo == {"r1", "r2"}
G == INSTANCE AgentRuns WITH
         Scenes <- {AScene("command", AProven, 2, {}, ATwo, {"completed"}, {}),
                    AScene("command", AProven, 2, {}, {"r1"}, AOutputs, {"in", "out"}),
                    AScene("command", ABare, 1, {"out"}, {"r1"}, AOutputs, {"in", "out"}),
                    AScene("dsh", ABare, 2, {}, {"r1"}, AOutputs, {"in", "out"}),
                    AScene("dsh", ABare, 2, {}, ATwo, {"completed"}, {}),
                    [AScene("dsh", ABare, 1, {}, ATwo, {"completed"}, {}) EXCEPT !.perRun = FALSE],
                    AScene("manual", AManifest("manual", FALSE), 2, {}, ATwo, {}, {})},
         scene <- s1, slots <- s2, run <- s3, transcript <- s4, told <- s5

-----------------------------------------------------------------------------
Free6 == s6 = 0 /\ s7 = 0 /\ s8 = 0
Rest6 == <<s6, s7, s8>>
Free5 == s5 = 0 /\ s6 = 0 /\ s7 = 0 /\ s8 = 0
Free9 == s9 = 0 /\ s10 = 0 /\ s11 = 0 /\ s12 = 0 /\ s13 = 0 /\ s14 = 0 /\ s15 = 0 /\ s16 = 0 /\ s17 = 0 /\ s18 = 0
Rest5 == <<s5, s6, s7, s8>>
Rest9 == <<s9, s10, s11, s12, s13, s14, s15, s16, s17, s18>>

MCInit ==
    \/ active = "tools" /\ T!Init /\ Free9
    \/ active = "tdd" /\ D!Init /\ Free5 /\ Free9
    \/ active = "loop" /\ L!Init
    \/ active = "events" /\ E!Init /\ s8 = 0 /\ Free9
    \/ active = "watch" /\ W!Init /\ s8 = 0 /\ Free9
    \/ active = "agents" /\ G!Init /\ Free6 /\ Free9

MCNext ==
    \/ active = "tools" /\ T!Next /\ UNCHANGED <<active, Rest9>>
    \/ active = "tdd" /\ D!Next /\ UNCHANGED <<active, Rest5, Rest9>>
    \/ active = "loop" /\ L!Next /\ UNCHANGED active
    \/ active = "events" /\ E!Next /\ UNCHANGED <<active, s8, Rest9>>
    \/ active = "watch" /\ W!Next /\ UNCHANGED <<active, s8, Rest9>>
    \/ active = "agents" /\ G!Next /\ UNCHANGED <<active, Rest6, Rest9>>

TimesOut(r) == active = "tools" /\ T!HandlerFails(r, "timeout") /\ UNCHANGED <<active, Rest9>>
EventStep(A) == active = "events" /\ A /\ UNCHANGED <<active, s8, Rest9>>
AgentStep(A) == active = "agents" /\ A /\ UNCHANGED <<active, Rest6, Rest9>>
MCSpec ==
    /\ MCInit /\ [][MCNext]_vars
    /\ \A r \in DOMAIN TRequests : WF_vars(TimesOut(r))
    /\ []<>(active = "events" => ~E!TickDue) \/ []<><<EventStep(E!Tick)>>_vars
    /\ WF_vars(EventStep(E!Connect("page"))) /\ WF_vars(EventStep(E!Take("page"))) /\ SF_vars(EventStep(E!Write("page")))
    /\ \A r \in {"r1", "r2"} :
         /\ WF_vars(AgentStep(G!Probe(r))) /\ WF_vars(AgentStep(G!Spawn(r))) /\ WF_vars(AgentStep(G!Timeout(r)))
         /\ WF_vars(AgentStep(G!Die(r))) /\ WF_vars(AgentStep(G!Close(r))) /\ WF_vars(AgentStep(G!Settle(r)))


-----------------------------------------------------------------------------
(* The services' properties; each is stated and explained in its module.  *)


\* StrictTdd: a completed cycle is a proof in the right order, with one account
\* per attempt and evidence of that attempt, overlapping calls included.
TddProvesInOrder ==
    active = "tdd" => D!ProvenInOrder /\ D!OneAccountPerAttempt /\ D!PublishedEvidenceIsOwn

\* ManagedLoop: a loop stays within its step ceilings, succeeds only on
\* verified evidence, stops when it repeats itself, never widens its grant and
\* starts no step after it was cancelled.
LoopIsBounded ==
    /\ [](active = "loop" => L!StepsWithinCeiling /\ L!SuccessWasVerified /\ L!RepetitionIsStopped)
    /\ [][active = "loop" => /\ s9'.steps <= s9.steps /\ s9'.tokens <= s9.tokens
                             /\ s15 => s4' = s4]_vars

\* EventDelivery: no cursor runs past an event that was not sent, nothing is
\* sent twice between two resets, a ledger event is the last word on its
\* observation, and `harness watch` has seen everything up to its cursor.
EventsDelivered ==
    /\ active = "events" => E!NoEventSkipped /\ E!NoEventRepeated /\ E!AuthoritativeIsLast
    /\ active = "watch" => W!WatchMissesNothing


=============================================================================
