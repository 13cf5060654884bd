--------------------------- MODULE MCMatchSession ---------------------------
(***************************************************************************)
(* Small instances of the coordinator for the model checker: which         *)
(* commands the identifiers stand for in each run.                         *)
(***************************************************************************)
EXTENDS MatchSession, TLC

CONSTANTS
  Kickoff, Goal, HalfTime,      \* browser commands: period transitions and a goal
  OutA, InA, OutB,              \* browser commands: rotations of one player
  PlanOut, PlanIn,              \* rows of one planned substitution
  c1, c2

Cmd(type, period, player, target) ==
  [type |-> type, period |-> period, player |-> player, target |-> target,
   wellFormed |-> TRUE]

MCCommand ==
  [i \in Ids |->
    CASE i = Kickoff  -> Cmd("MATCH_START", "FIRST_HALF", None, None)
      [] i = Goal     -> Cmd("GOAL_FOR", None, None, None)
      [] i = HalfTime -> Cmd("PERIOD_END", "HALF_TIME", None, None)
      [] i \in {OutA, OutB, PlanOut} -> Cmd("ROTATION_OUT", None, "anna", None)
      [] i = InA      -> Cmd("ROTATION_IN", None, "anna", None)
      [] i = PlanIn   -> Cmd("ROTATION_IN", None, "berit", None)]

NoPlan == [p \in {} |-> None]
OnePlan == (PlanOut :> PlanIn)

NotStarted == [period |-> "BEFORE", running |-> FALSE]
FirstHalf == [period |-> "FIRST_HALF", running |-> TRUE]
Break == [period |-> "HALF_TIME", running |-> FALSE]

NoClock == {}
Kickoffs == {FirstHalf}
Clocks == {NotStarted, FirstHalf, Break}

=============================================================================
