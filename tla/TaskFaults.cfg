SPECIFICATION FairSpec
CONSTANTS
    r1 = r1
    r2 = r2
    a1 = a1
    a2 = a2
    Requests = {r1, r2}
    Admins = {a1, a2}
    Queues <- EveryKind
    Longest = 2
    MaxRetries = 3
    DbFails = TRUE
    Crashes = TRUE
CHECK_DEADLOCK FALSE
INVARIANTS TypeOK RecordsAreTrue ExhaustedIsRecorded AtMostOneMail
PROPERTIES TasksEnd
