SPECIFICATION Spec
CONSTANTS
  None = None
  Kickoff = Kickoff
  Goal = Goal
  HalfTime = HalfTime
  OutA = OutA
  InA = InA
  OutB = OutB
  PlanOut = PlanOut
  PlanIn = PlanIn
  c1 = c1
  c2 = c2
  Events = {Kickoff, HalfTime}
  Planned = {}
  Command <- MCCommand
  SecondWrite <- NoPlan
  ClockInputs <- NoClock
  MaxFinishes = 1
  Conns = {c1}
  Reporters = {c1}
  MaxRetry = 1
  MaxCrashes = 1
INVARIANTS
  TypeOK
  PersistedIsCanonical
  RowWasAccepted
  AlarmCoversRetries
  LifecycleCheckArmed
  ManualEndIsSettled
PROPERTIES
  DecisionsAreFinal
  PeriodNeverMovesBack
  KeepsPromise
