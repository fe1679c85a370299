------------------------------- MODULE MCDesk -------------------------------
(* The symbols are interchangeable: nothing in Desk orders or names them. *)
EXTENDS Desk, TLC

Symmetry == Permutations(Symbols)

=============================================================================
