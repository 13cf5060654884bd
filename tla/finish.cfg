SPECIFICATION Spec
CONSTANTS
    goal = goal
    scorer = scorer
    Coach = Coach
    Cron = Cron
    Finishers = {Coach, Cron}
    Events = {goal, scorer}
    Kind <- MCKind
    MaxFaults = 1
    MaxRows = 2
    MaxEdits = 1
INVARIANTS
    FinishedStaysFinished
    EndedMeansReported
    NothingSeededTwice
    ReportCountsEndedMatch
    LockedAfterHandoffIsReviewed
PROPERTIES
    EventuallyReported
    KeepsHandoff
CHECK_DEADLOCK FALSE
