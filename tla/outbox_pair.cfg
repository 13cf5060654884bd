SPECIFICATION Spec
CONSTANTS
  None = None
  Goal = Goal
  Out = Out
  In = In
  sender = sender
  finisher = finisher
  Events = {Out, In}
  AppendSafe = {}
  Loops = {sender, finisher}
  FinishLoop = finisher
  Possible = {"supersede"}
  MaxOutages = 1
  MaxReloads = 0
CHECK_DEADLOCK FALSE
INVARIANTS
  LoopKeepsOrder
  AnswersMatchSends
