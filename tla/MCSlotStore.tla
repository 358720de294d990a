----------------------------- MODULE MCSlotStore -----------------------------
(***************************************************************************)
(* SlotStore for TLC: all stores, rows alike but for their key.            *)
(***************************************************************************)
EXTENDS SlotStore, TLC

AnyOrder == Permutations(Ids)

=============================================================================
