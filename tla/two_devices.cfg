SPECIFICATION Spec
CONSTANTS
  None = None
  Kickoff = Kickoff
  Goal = Goal
  HalfTime = HalfTime
  OutA = OutA
  InA = InA
  OutB = OutB
  PlanOut = PlanOut
  PlanIn = PlanIn
  c1 = c1
  c2 = c2
  Events = {OutA, InA, OutB}
  Planned = {}
  Command <- MCCommand
  SecondWrite <- NoPlan
  ClockInputs <- Kickoffs
  MaxFinishes = 0
  Conns = {c1, c2}
  Reporters = {c1, c2}
  MaxRetry = 0
  MaxCrashes = 0
INVARIANTS
  NoSequenceCollision
  RotationsAlternate
PROPERTIES
  EndIsFinal
