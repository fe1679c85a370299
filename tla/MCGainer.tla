------------------------------ MODULE MCGainer ------------------------------
(* The symbols are interchangeable: nothing in Gainer orders or names them. *)
EXTENDS Gainer, TLC

Symmetry == Permutations(Symbols)

=============================================================================
