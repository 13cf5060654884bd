SPECIFICATION FairSpec
CONSTANTS
  None = None
  Kickoff = Kickoff
  Goal = Goal
  HalfTime = HalfTime
  OutA = OutA
  InA = InA
  OutB = OutB
  PlanOut = PlanOut
  PlanIn = PlanIn
  c1 = c1
  c2 = c2
  Events = {OutB}
  Planned = {PlanOut}
  Command <- MCCommand
  SecondWrite <- NoPlan
  ClockInputs <- Kickoffs
  MaxFinishes = 0
  Conns = {c1, c2}
  Reporters = {c1}
  MaxRetry = 1
  MaxCrashes = 1
PROPERTIES
  RetriesConclude
  AcceptedIsDecided
  AbandonedSessionEnds
