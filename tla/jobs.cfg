SPECIFICATION Spec
CONSTANTS
    a = a
    b = b
    edit1 = edit1
    edit2 = edit2
    cron1 = cron1
    cron2 = cron2
    Contents = {a, b}
    Triggers = {edit1, edit2}
    Runners = {cron1, cron2}
INVARIANTS
    ClaimedOnce
    NewestStands
PROPERTIES
    KeepsJobPromise
    JobsConclude
    CurrentContentReviewed
CHECK_DEADLOCK FALSE
