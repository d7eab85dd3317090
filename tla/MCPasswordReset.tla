-------------------------- MODULE MCPasswordReset ---------------------------
(***************************************************************************)
(* An instance of PasswordReset for TLC.                                   *)
(***************************************************************************)
EXTENDS PasswordReset, TLC

Symmetry ==
    Permutations(User) \cup Permutations(Browser) \cup Permutations(Forgot) \cup Permutations(Reset)

=============================================================================
