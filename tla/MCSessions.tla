----------------------------- MODULE MCSessions -----------------------------
(***************************************************************************)
(* An instance of Sessions for TLC.  One of its properties is a liveness   *)
(* property: no symmetry.                                                  *)
(***************************************************************************)
EXTENDS Sessions

=============================================================================
