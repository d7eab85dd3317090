---------------------------- MODULE MCRatingCron ----------------------------
(***************************************************************************)
(* An instance of RatingCron for TLC.  One of its properties is a liveness *)
(* property: no symmetry.                                                  *)
(***************************************************************************)
EXTENDS RatingCron

Ids == 1..3
Clock == 1..5

=============================================================================
