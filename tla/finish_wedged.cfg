SPECIFICATION FairSpec
CONSTANTS
  None = None
  Goal = Goal
  Out = Out
  In = In
  sender = sender
  finisher = finisher
  Events = {Goal}
  AppendSafe = {Goal}
  Loops = {sender, finisher}
  FinishLoop = finisher
  Possible = {"exhausted"}
  MaxOutages = 1
  MaxReloads = 0
CHECK_DEADLOCK FALSE
PROPERTY FinishGetsThrough
