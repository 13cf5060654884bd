SPECIFICATION Spec
CONSTANTS
    request = request
    cron1 = cron1
    BOUNCED = BOUNCED
    post1 = post1
    post2 = post2
    event = event
    Request = request
    Crons = {cron1}
    Posts = {post1, post2}
    Events = {event}
    Outcomes = {BOUNCED}
    MaxRetries = 2
    MaxMessages = 2
    MaxFaults = 1
INVARIANTS
    SentOnce
    EventAppliedOnce
PROPERTIES
    MailConcludes
CHECK_DEADLOCK FALSE
