---------------------------- MODULE MCBackOffice ----------------------------
(***************************************************************************)
(* Instances of BackOffice for TLC.  Tabs and categories are               *)
(* interchangeable.                                                        *)
(***************************************************************************)
EXTENDS BackOffice, TLC

CONSTANTS p1, a1, c1, c2, m1

Symmetry == Permutations(Tab) \cup Permutations(Category)

=============================================================================
