SPECIFICATION FairSpec
CONSTANTS
  None = None
  Goal = Goal
  Out = Out
  In = In
  sender = sender
  finisher = finisher
  Events = {Out}
  AppendSafe = {}
  Loops = {sender, finisher}
  FinishLoop = finisher
  Possible = {"poll", "refused"}
  MaxOutages = 1
  MaxReloads = 1
CHECK_DEADLOCK FALSE
PROPERTY FinishGetsThrough
