------------------------------ MODULE MCWakes ------------------------------
(* The rows decide what can happen next; what the last of them woke does   *)
(* not, so two states with the same rows count as one. The properties are  *)
(* about steps, and TLC checks those of every step it generates.           *)
EXTENDS Wakes, TLC

Tables == <<land, bags, work, people>>

Symmetry == Permutations(Players) \cup Permutations(Claims)

=============================================================================
