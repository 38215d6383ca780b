------------------------------ MODULE MCLedger ------------------------------
(* Instances of Ledger for TLC. *)
EXTENDS Ledger, TLC

CONSTANTS a, b, x, y, G, H

Tx(id, base, valid, fs) == [id |-> id, base |-> base, valid |-> valid, files |-> fs]

\* Operation a comes with three contents: one with an artifact, one without and
\* an invalid one.  Operation b has one content and shares nothing, so only its
\* own retries meet.
MixedInputs ==
  { Tx(a, H, TRUE, "edges" :> x @@ "events" :> x @@ "p" :> x),
    Tx(a, H, TRUE, "edges" :> y @@ "events" :> x),
    Tx(a, H, FALSE, "edges" :> x @@ "events" :> x),
    Tx(b, H, TRUE, "edges" :> x @@ "events" :> y) }

ProcSymmetry == Permutations(Procs)
=============================================================================
