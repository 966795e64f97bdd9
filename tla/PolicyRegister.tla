--------------------------- MODULE PolicyRegister ---------------------------
(***************************************************************************)
(* What Sentinel's policy intake promises for one policy_id: an atomic     *)
(* register that only ever moves to a version above every version accepted *)
(* before.  Deliveries that are not newer leave it alone.                  *)
(***************************************************************************)
EXTENDS Naturals

CONSTANT Version    \* the policy versions that can be delivered

VARIABLES
    accepted,   \* the versions answered 200 Accepted
    active      \* the version enforcement reads, 0 before the first

Newer(v) == \A w \in accepted : w < v

Init ==
    /\ accepted = {}
    /\ active = 0

Accept(v) ==
    /\ Newer(v)
    /\ accepted' = accepted \cup {v}
    /\ active' = v

Next == \E v \in Version : Accept(v)

Spec == Init /\ [][Next]_<<accepted, active>>

=============================================================================
