SPECIFICATION Spec
CONSTANTS
    r1 = r1
    a1 = a1
    Requests = {r1}
    Admins = {a1}
    Queues <- OneMail
    Longest = 2
    MaxRetries = 3
    DbFails = FALSE
    Crashes = FALSE
SYMMETRY Interchangeable
CHECK_DEADLOCK FALSE
INVARIANTS UndeliveredIsRecorded
