------------------------------ MODULE MCKernel ------------------------------
(***************************************************************************)
(* Small scenarios of the kernel.                                          *)
(***************************************************************************)
EXTENDS Kernel

P(dag, impact, design, evaluate, audit, prompter, gap) ==
    [dag |-> dag, impact |-> impact, design |-> design, evaluate |-> evaluate,
     audit |-> audit, prompter |-> prompter, gap |-> gap]
S(p, crashes, edits, fails, rejects, until) ==
    [profile |-> p, crashes |-> crashes, edits |-> edits, fails |-> fails,
     rejects |-> rejects, until |-> until]

Full(dag) == P(dag, TRUE, TRUE, TRUE, TRUE, FALSE, FALSE)
Minimal(dag) == P(dag, FALSE, FALSE, FALSE, FALSE, FALSE, FALSE)
Asking(dag) == P(dag, TRUE, TRUE, FALSE, FALSE, TRUE, FALSE)

MCScenarios ==
    {S(Full(dag), 1, 0, 1, 1, "none") : dag \in BOOLEAN}
    \cup {S(Minimal(dag), 2, 1, 1, 0, "none") : dag \in BOOLEAN}
    \cup {S(Minimal(dag), 1, 1, 2, 0, "none") : dag \in BOOLEAN}
    \cup {S(P(dag, FALSE, FALSE, TRUE, FALSE, FALSE, FALSE), 0, 1, 3, 0, "none") : dag \in BOOLEAN}
    \cup {S(Asking(dag), 0, 0, 0, 2, u) : dag \in BOOLEAN, u \in {"none", "capture", "design", "plan"}}
    \cup {S(P(dag, FALSE, FALSE, FALSE, TRUE, FALSE, TRUE), 1, 0, 0, 1, "none") : dag \in BOOLEAN}
    \cup {S(Minimal(FALSE), 3, 0, 0, 0, "none")}

-----------------------------------------------------------------------------
(* The operation ends or is in one of the named states.                    *)
OperationEnds == EndsOrStuck

(* What the kernel claims is backed by what is durable, whatever crashed   *)
(* in between: a completed operation was verified on its current inputs    *)
(* and is recorded, checkpoints and the journal name finished work, one    *)
(* run at most is open, nothing runs unapproved or twice.                  *)
RecordsAreBacked ==
    /\ [](/\ OneOpenRun /\ CompletedWasVerified /\ CompletedIsRecorded /\ CheckpointIsBacked
          /\ JournalIsBacked /\ NothingWithoutApproval)
    /\ NoRework
=============================================================================
