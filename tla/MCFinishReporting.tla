------------------------- MODULE MCFinishReporting -------------------------
(* Instance of FinishReporting for TLC: the coach and the job, and one      *)
(* event of each of two kinds.                                              *)
EXTENDS FinishReporting, TLC

CONSTANTS goal, scorer, Coach

MCKind == (goal :> "score") @@ (scorer :> "goals")

=============================================================================
