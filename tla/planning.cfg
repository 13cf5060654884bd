SPECIFICATION Spec
CONSTANTS
    home = home
    away = away
    player = player
    req1 = req1
    req2 = req2
    Matches = {home, away}
    Players = {player}
    Callers = {req1, req2}
    MaxOps = 1
    MaxFaults = 1
INVARIANTS
    ClosedPlanIsFrozen
    FinalizedRoundIsClosed
    ClosedRoundIsFinalized
CHECK_DEADLOCK FALSE
PROPERTIES
    KickoffCloses
