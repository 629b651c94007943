SPECIFICATION Spec
CONSTANTS
    Users = {1, 2}
    UserIds = {1, 2, 3}
    Courses = {1, 2}
    Caps = {1, 2}
    Requests = {r1, r2}
    Ops = {"enroll", "bulk", "transfer", "unenroll", "progress", "set_cap", "delete_course", "recategorise"}
    Repeats = {0, 1}
    SeedRows <- TwoSeats
    FirstId = 4
SYMMETRY Interchangeable
INVARIANTS TypeOK SeatsInv ReferentialIntegrity InsertNeverCollides ErrorLeavesNoSeat NoDeadlockAmongEnrollers
PROPERTIES SeatsRespectCap TransferLeavesSource ImplementsLedger
