SPECIFICATION Spec
CONSTANTS
  None = None
  Kickoff = Kickoff
  Goal = Goal
  HalfTime = HalfTime
  OutA = OutA
  InA = InA
  OutB = OutB
  PlanOut = PlanOut
  PlanIn = PlanIn
  c1 = c1
  c2 = c2
  Events = {Kickoff, HalfTime, OutB}
  Planned = {PlanOut, PlanIn}
  Command <- MCCommand
  SecondWrite <- OnePlan
  ClockInputs <- Kickoffs
  MaxFinishes = 0
  Conns = {c1, c2}
  Reporters = {c2}
  MaxRetry = 0
  MaxCrashes = 0
INVARIANT NoSequenceCollision
