---------------------------- MODULE MCCartItems ----------------------------
(***************************************************************************)
(* Instances of CartItems for TLC.  Calls and users are interchangeable    *)
(* (safety properties only).                                               *)
(***************************************************************************)
EXTENDS CartItems, TLC

CONSTANT p1

OnePrice == p1 :> 2
OnePromo == p1 :> 1

Symmetry == Permutations(Call) \cup Permutations(User)

=============================================================================
