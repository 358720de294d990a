----------------------------- MODULE MCLivePush -----------------------------
(***************************************************************************)
(* LivePush for TLC: one region of the fleet and two interior dimensions.  *)
(***************************************************************************)
EXTENDS LivePush

CONSTANTS r1, d1, d2

\* Two interiors of one region.
TwoKeys == {<<r1, d1>>, <<r1, d2>>}

=============================================================================
