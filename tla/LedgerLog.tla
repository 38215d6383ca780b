------------------------------ MODULE LedgerLog ------------------------------
(***************************************************************************)
(* What the ledger promises its readers: a log of transactions that only   *)
(* grows, one whole transaction at a time, numbered 1, 2, 3, ... without   *)
(* fork or gap, with at most one entry per ledger_operation_id.  Ledger    *)
(* implements it by files.                                                 *)
(***************************************************************************)
EXTENDS Naturals

CONSTANT Inputs

VARIABLE log     \* entries [seq, input]

LogInit == log = {}

Sequences == {entry.seq : entry \in log}

\* The sequences in use are 1..n and the new entry gets the next one.
AppendOperation(i) ==
  /\ \A entry \in log : entry.input.id # i.id
  /\ \E n \in Sequences \cup {0} :
       Sequences = 1..n /\ log' = log \cup {[seq |-> n + 1, input |-> i]}

LogNext == \E i \in Inputs : AppendOperation(i)

LogSpec == LogInit /\ [][LogNext]_log
=============================================================================
