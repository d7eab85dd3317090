----------------------------- MODULE MCCheckout -----------------------------
(***************************************************************************)
(* Instances of Checkout for TLC.  Requests, carts, lines and visits are   *)
(* interchangeable; the symmetry is used for safety properties only.       *)
(***************************************************************************)
EXTENDS Checkout, TLC

Symmetry ==
    Permutations(Request) \cup Permutations(Cart) \cup Permutations(Line)
        \cup Permutations(Visit) \cup Permutations(User)

=============================================================================
