---------------------------- MODULE MCCartHistory ----------------------------
(***************************************************************************)
(* An instance of CartHistory for TLC.  Calls and users are                *)
(* interchangeable (safety properties only).                               *)
(***************************************************************************)
EXTENDS CartHistory, TLC

CONSTANT p1

OnePrice == p1 :> 2
OnePromo == p1 :> 1

Symmetry == Permutations(Call) \cup Permutations(User)

=============================================================================
