-------------------------- MODULE MCProductRemoval --------------------------
(***************************************************************************)
(* An instance of ProductRemoval for TLC.  One of its properties is a      *)
(* liveness property: no symmetry.                                         *)
(***************************************************************************)
EXTENDS ProductRemoval

=============================================================================
