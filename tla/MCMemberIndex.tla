--------------------------- MODULE MCMemberIndex ---------------------------
(***************************************************************************)
(* MemberIndex for TLC: two regions with one claim each.                   *)
(***************************************************************************)
EXTENDS MemberIndex

CONSTANTS r1, r2, k1, k2

OneClaimEach == (r1 :> {k1}) @@ (r2 :> {k2})

=============================================================================
