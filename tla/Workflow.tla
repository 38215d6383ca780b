------------------------------ MODULE Workflow ------------------------------
(***************************************************************************)
(* The workflow engine (runtime/src/workflow/operation.ts, resume.ts):     *)
(* several processes call it on one operation.  A call reads the history   *)
(* of operation records and the latest checkpoint, decides, and commits;   *)
(* only the commit holds the ledger's write lock, so another call may land *)
(* between the two.  A record is the file <sequence>-<state>.json, the     *)
(* sequence being one more than the number of records read, and the        *)
(* current record is the last by file name.                                *)
(***************************************************************************)
EXTENDS WorkflowStates, FiniteSets, FiniteSetsExt

CONSTANTS Procs,        \* processes that call the engine
          MaxCalls,     \* calls in a behaviour
          MaxRuns       \* runs an operation can start

VARIABLES hist,      \* operation records: [seq, state, resume]
          runs,      \* run streams: run -> its terminal records
          resumes,   \* RESUMES edges: pairs <<successor, interrupted run>>
          call,      \* what each process read, and is about to commit
          told,      \* the answer of each process's last call
          calls

vars == <<hist, runs, resumes, call, told, calls>>

Idle == [kind |-> "idle"]
NameOrder == <<"aborted", "awaiting_approval", "awaiting_input", "blocked", "completed",
               "created", "planned", "repairing", "running", "verifying">>
NamePosition(state) == CHOOSE i \in DOMAIN NameOrder : NameOrder[i] = state
Later(r, s) ==
    r.seq > s.seq \/ (r.seq = s.seq /\ NamePosition(r.state) > NamePosition(s.state))

(* readOperationHistory(...).at(-1) *)
Current(h) == CHOOSE r \in h : \A s \in h \ {r} : Later(r, s)
CurrentOp == LET r == Current(hist) IN Record(r.state, r.resume)
OpenRuns == {r \in DOMAIN runs : runs[r] = {}}

TypeOK ==
    /\ hist \subseteq [seq : 1..(MaxCalls + 1), state : OperationStates,
                       resume : Resumable \cup {NoResume}]
    /\ DOMAIN runs \subseteq 1..MaxRuns /\ Range(runs) \subseteq SUBSET {"terminated", "interrupted"}
    /\ told \in [Procs -> {"none", "done", "refused", "conflict"}]
    /\ calls \in 0..MaxCalls

(* startOperation commits the first record. *)
Init ==
    /\ hist = {[seq |-> 1, state |-> "created", resume |-> NoResume]}
    /\ runs = << >> /\ resumes = {}
    /\ call = [p \in Procs |-> Idle] /\ told = [p \in Procs |-> "none"]
    /\ calls = 0

Refuse(p) == told' = [told EXCEPT ![p] = "refused"] /\ UNCHANGED <<hist, runs, resumes, call>>
Plan(p, c) == call' = [call EXCEPT ![p] = c] /\ UNCHANGED <<hist, runs, resumes, told>>
NextRecord(kind, record) ==
    [kind |-> kind, seq |-> Cardinality(hist) + 1, record |-> record, open |-> OpenRuns]

(* The reading half of each call: op is the current operation it reads. *)
CallAdvance(p, op, to) ==
    IF CanTransitionOperation(op.state, to)
    THEN Plan(p, NextRecord("advance", Record(to, NoResume))) ELSE Refuse(p)

CallBlock(p, op) ==
    IF CanBlock(op.state)
    THEN Plan(p, NextRecord("block", BlockTarget(op.state))) ELSE Refuse(p)

CallAbort(p, op) ==
    IF CanAbort(op.state)
    THEN Plan(p, NextRecord("abort", Record("aborted", NoResume))) ELSE Refuse(p)

CallResume(p, op) ==
    IF CanResume(op)
    THEN Plan(p, NextRecord("resume", ResumeTarget(op))) ELSE Refuse(p)

CallStartRun(p, op) ==
    IF op.state \in {"running", "repairing"}
    THEN Plan(p, [kind |-> "startRun"]) ELSE Refuse(p)

CallTerminateRun(p) ==
    IF OpenRuns # {}
    THEN Plan(p, [kind |-> "terminateRun", run |-> Min(OpenRuns)]) ELSE Refuse(p)

Call(p) ==
    /\ call[p] = Idle /\ calls < MaxCalls
    /\ calls' = calls + 1
    /\ LET op == CurrentOp IN
       \/ \E to \in OperationStates \ {"blocked", "aborted"} : CallAdvance(p, op, to)
       \/ CallBlock(p, op) \/ CallAbort(p, op) \/ CallResume(p, op)
       \/ CallStartRun(p, op) \/ CallTerminateRun(p)

Answer(p, what) == call' = [call EXCEPT ![p] = Idle] /\ told' = [told EXCEPT ![p] = what]

(* The committing half.  The ledger refuses a commit one of whose files    *)
(* exists already: its content differs, by its timestamp at least.         *)
RecordFile(c) == [seq |-> c.seq, state |-> c.record.state, resume |-> c.record.resume]
Conflict(c) ==
    CASE c.kind \in {"advance", "block", "abort"} ->
              \E r \in hist : r.seq = c.seq /\ r.state = c.record.state
      [] c.kind = "resume" ->
              \/ \E r \in hist : r.seq = c.seq /\ r.state = c.record.state
              \/ \E r \in c.open : "interrupted" \in runs[r]
      [] c.kind = "terminateRun" -> "terminated" \in runs[c.run]
      [] OTHER -> FALSE

CommitRefused(p) ==
    /\ call[p] # Idle /\ Conflict(call[p])
    /\ Answer(p, "conflict") /\ UNCHANGED <<hist, runs, resumes, calls>>

CommitRecord(p) ==
    /\ call[p].kind \in {"advance", "block", "abort"} /\ ~Conflict(call[p])
    /\ hist' = hist \cup {RecordFile(call[p])}
    /\ Answer(p, "done") /\ UNCHANGED <<runs, resumes, calls>>

(* resumeWorkflowOperation: each run that was open when read is            *)
(* interrupted, and a successor with a RESUMES edge is started.            *)
CommitResume(p) ==
    LET open == call[p].open
        successor(r) == Len(runs) + Cardinality({s \in open : s <= r})
        ids == {successor(r) : r \in open}
    IN /\ call[p].kind = "resume" /\ ~Conflict(call[p])
       /\ Len(runs) + Cardinality(open) <= MaxRuns
       /\ hist' = hist \cup {RecordFile(call[p])}
       /\ runs' = [r \in DOMAIN runs \cup ids |->
                      IF r \in ids THEN {} ELSE IF r \in open THEN runs[r] \cup {"interrupted"}
                      ELSE runs[r]]
       /\ resumes' = resumes \cup {<<successor(r), r>> : r \in open}
       /\ Answer(p, "done") /\ UNCHANGED calls

CommitStartRun(p) ==
    /\ call[p].kind = "startRun" /\ Len(runs) < MaxRuns
    /\ runs' = Append(runs, {})
    /\ Answer(p, "done") /\ UNCHANGED <<hist, resumes, calls>>

CommitTerminateRun(p) ==
    /\ call[p].kind = "terminateRun" /\ ~Conflict(call[p])
    /\ runs' = [runs EXCEPT ![call[p].run] = @ \cup {"terminated"}]
    /\ Answer(p, "done") /\ UNCHANGED <<hist, resumes, calls>>

(* A process dies between its read and its commit. *)
Die(p) == call[p] # Idle /\ call' = [call EXCEPT ![p] = Idle]
          /\ UNCHANGED <<hist, runs, resumes, told, calls>>

Next == \E p \in Procs : \/ Call(p) \/ CommitRecord(p) \/ CommitResume(p) \/ CommitRefused(p)
                         \/ CommitStartRun(p) \/ CommitTerminateRun(p) \/ Die(p)
Spec == Init /\ [][Next]_vars

-----------------------------------------------------------------------------

(* A call that answered "done" to an abort ended the operation: no later   *)
(* record of an overlapping advance, block or resume shows it open again.  *)
AbortIsFinal == [][CurrentOp.state \in Terminal => CurrentOp'.state = CurrentOp.state]_vars

(* An interrupted run has exactly one successor, and the successor of a    *)
(* resume is a run of its own.                                             *)
OneSuccessor ==
    \A r \in DOMAIN runs :
       /\ "interrupted" \in runs[r] => Cardinality({e \in resumes : e[2] = r}) = 1
       /\ Cardinality({e \in resumes : e[1] = r}) <= 1
==============================================================================
