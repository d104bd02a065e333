-------------------------- MODULE MCWeeklyReview --------------------------
(***************************************************************************)
(* Instances of WeeklyReview for TLC.                                      *)
(***************************************************************************)
EXTENDS WeeklyReview, TLC

Symmetry == Permutations(Calls) \cup Permutations(Reports \ {Seed})
=============================================================================
