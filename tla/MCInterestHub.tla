--------------------------- MODULE MCInterestHub ---------------------------
(***************************************************************************)
(* InterestHub for TLC: tasks, keys and tickets are interchangeable.       *)
(***************************************************************************)
EXTENDS InterestHub, TLC

Symmetry == Permutations(Tasks) \cup Permutations(Keys) \cup Permutations(Tickets)

=============================================================================
