------------------------- MODULE MCPlanningBoundary -------------------------
(* Instance of PlanningBoundary for TLC: two matches, two requests at once. *)
EXTENDS PlanningBoundary

CONSTANTS home, away, player, req1, req2

=============================================================================
