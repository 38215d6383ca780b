----------------------------- MODULE FencedLease -----------------------------
(***************************************************************************)
(* What an operation lease promises, without Git, clocks or retries: one   *)
(* holder at a time, every new holder gets a larger token, and work is     *)
(* published in token order, so a holder that was superseded can no longer *)
(* publish on top of its successor.                                        *)
(***************************************************************************)
EXTENDS Integers, Sequences

VARIABLES epoch,      \* the largest token granted so far
          held,       \* is that token's lease still in force
          published   \* the tokens under which the published work was published

vars == <<epoch, held, published>>

LastToken == IF published = <<>> THEN 0 ELSE published[Len(published)]

Init == epoch = 0 /\ held = FALSE /\ published = <<>>

Grant == ~held /\ held' = TRUE /\ epoch' = epoch + 1 /\ UNCHANGED published

End == held /\ held' = FALSE /\ UNCHANGED <<epoch, published>>

\* Several commits of one holder may be published; one swap publishes one.
Publish ==
    \E t \in 1..epoch :
        /\ t >= LastToken
        /\ published' = Append(published, t)
        /\ UNCHANGED <<epoch, held>>

Next == Grant \/ End \/ Publish

Spec == Init /\ [][Next]_vars
==============================================================================
