-------------------------------- MODULE Lease --------------------------------
(***************************************************************************)
(* The lease state machine of the collaboration coordinator                *)
(* (packages/runtime/src/collaboration/lease.ts): pure transitions over    *)
(* the lease records of one resource, in the order the Control Ref holds   *)
(* them.  A record carries its state, its fencing token (which also names  *)
(* the lease: lease_id is derived from resource and token), its expiry and *)
(* the id of the command that wrote it.  A command id is a pair            *)
(* <<command, part>>: part 0 is the command's own record, part 1 the       *)
(* "-expiry" record it may have to write first; <<"resume", n>> is the id  *)
(* derived from the tip a start-up revocation supersedes.                  *)
(***************************************************************************)
EXTENDS Integers, Sequences, SequencesExt

CONSTANT Duration          \* OPERATION_LEASE_DURATION_MS, in clock ticks

HeldStates == {"granted", "renewed"}

LeaseStates == HeldStates \cup {"released", "expired", "revoked"}

IsLive(r, now) == r.state \in HeldStates /\ r.expires > now

IsExpiredUnrecorded(r, now) == r.state \in HeldStates /\ r.expires <= now

Tip(history) == history[Len(history)]

LeaseRecord(state, token, expires, id) ==
    [state |-> state, token |-> token, expires |-> expires, id |-> id]

Draft(r) == [kind |-> "draft", record |-> r]
Existing(r) == [kind |-> "existing", record |-> r]
Rejected(code) == [kind |-> "rejected", code |-> code]

\* The record that acknowledges a lapse: same lease, same token.
ExpiryDraft(tip, c) == Draft(LeaseRecord("expired", tip.token, tip.expires, <<c, 1>>))

\* The record a starting coordinator puts over a lease that is still live.
LeaseRevocationDraft(tip, n) ==
    LeaseRecord("revoked", tip.token, tip.expires, <<"resume", n>>)

\* The record a retried command finds: history.find by command id.
Replayed(history, c) == {i \in DOMAIN history : history[i].id = <<c, 0>>}
FirstReplayed(history, c) ==
    history[CHOOSE i \in Replayed(history, c) : \A j \in Replayed(history, c) : i <= j]


TransitionAcquireLease(history, c, now) ==
    CASE Replayed(history, c) # {} -> Existing(FirstReplayed(history, c))
      [] Replayed(history, c) = {} /\ Len(history) > 0 /\ IsLive(Tip(history), now) ->
            Rejected("lease_unavailable")
      [] Replayed(history, c) = {} /\ Len(history) > 0
            /\ IsExpiredUnrecorded(Tip(history), now) -> ExpiryDraft(Tip(history), c)
      [] OTHER ->
            Draft(LeaseRecord("granted",
                              1 + IF history = <<>> THEN 0 ELSE Tip(history).token,
                              now + Duration, <<c, 0>>))

\* The addressed lease must still be the tip of the resource.
HoldsTip(history, token) == Len(history) > 0 /\ Tip(history).token = token

TransitionRenew(history, c, token, now) ==
    CASE Replayed(history, c) # {} -> Existing(FirstReplayed(history, c))
      [] Replayed(history, c) = {} /\ ~HoldsTip(history, token) -> Rejected("lease_fenced")
      [] Replayed(history, c) = {} /\ HoldsTip(history, token) ->
            LET tip == Tip(history) IN
            CASE tip.state \in {"released", "revoked"} -> Rejected("lease_fenced")
              [] tip.state = "expired" \/ IsExpiredUnrecorded(tip, now) ->
                    Rejected("lease_expired")
              [] IsLive(tip, now) /\ now + Duration <= tip.expires -> Existing(tip)
              [] IsLive(tip, now) /\ now + Duration > tip.expires ->
                    Draft(LeaseRecord("renewed", token, now + Duration, <<c, 0>>))

TransitionRelease(history, c, token, now) ==
    CASE Replayed(history, c) # {} -> Existing(FirstReplayed(history, c))
      [] Replayed(history, c) = {} /\ ~HoldsTip(history, token) -> Rejected("lease_fenced")
      [] Replayed(history, c) = {} /\ HoldsTip(history, token) ->
            LET tip == Tip(history) IN
            CASE tip.state \in {"released", "revoked", "expired"} -> Existing(tip)
              [] IsExpiredUnrecorded(tip, now) -> ExpiryDraft(tip, c)
              [] IsLive(tip, now) ->
                    Draft(LeaseRecord("released", token, tip.expires, <<c, 0>>))
==============================================================================
