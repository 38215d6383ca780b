--------------------------- MODULE WorkflowStates ---------------------------
(***************************************************************************)
(* The state machine of a workflow operation and of the iteration it       *)
(* drives (runtime/src/workflow/state-machine.ts), and the order of the    *)
(* orchestration phases (runtime/src/orchestration/phases.ts).             *)
(***************************************************************************)
EXTENDS Naturals, Sequences, SequencesExt

OperationChain == <<"created", "awaiting_input", "awaiting_approval", "planned",
                    "running", "verifying", "completed">>
Terminal == {"completed", "aborted"}
Resumable == (Range(OperationChain) \ {"completed"}) \cup {"repairing"}
OperationStates == Range(OperationChain) \cup {"repairing", "blocked", "aborted"}

CanTransitionOperation(from, to) ==
    /\ from # to /\ from \notin Terminal /\ from # "blocked"
    /\ \/ to \in {"blocked", "aborted"}
       \/ to = "running" /\ from = "repairing"
       \/ to = "repairing" /\ from \in {"running", "verifying"}
       \/ to = "completed" /\ from = "verifying"
       \/ /\ to \notin {"completed", "repairing", "blocked", "aborted"} /\ from # "repairing"
          /\ \E i, j \in DOMAIN OperationChain :
                i < j /\ OperationChain[i] = from /\ OperationChain[j] = to

(* An operation record is its state and, when blocked, the state to resume. *)
NoResume == "none"
Record(state, resume) == [state |-> state, resume |-> resume]
CanBlock(state) == state \in Resumable
BlockTarget(state) == Record("blocked", state)
CanResume(op) == op.state = "blocked" /\ op.resume # NoResume
ResumeTarget(op) == Record(op.resume, NoResume)
CanAbort(state) == state \notin Terminal

(* What an operation promises its callers: it only moves along the state   *)
(* machine, blocking remembers where to resume, and a terminal state is    *)
(* the end of it.                                                          *)
Created == Record("created", NoResume)
Moves(op, next) ==
    \/ \E to \in OperationStates \ {"blocked", "aborted"} :
          CanTransitionOperation(op.state, to) /\ next = Record(to, NoResume)
    \/ CanBlock(op.state) /\ next = BlockTarget(op.state)
    \/ CanResume(op) /\ next = ResumeTarget(op)
    \/ CanAbort(op.state) /\ next = Record("aborted", NoResume)

Phases == <<"capture", "impact", "design", "plan", "context", "execute",
            "verify", "evaluate", "snapshot">>
PhaseRank(p) == CHOOSE i \in DOMAIN Phases : Phases[i] = p

(* advanceIntoPhase: the operation state a phase runs in. *)
PhaseOperationState(p) ==
    CASE p \in {"capture", "impact", "design"}   -> "awaiting_approval"
      [] p = "plan"                              -> "planned"
      [] p \in {"context", "execute"}            -> "running"
      [] p \in {"verify", "evaluate", "snapshot"} -> "verifying"
==============================================================================
