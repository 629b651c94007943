SPECIFICATION Spec
CONSTANTS
    Users = {1, 2}
    UserIds = {1, 2}
    Courses = {1, 2}
    Caps = {2}
    Requests = {r1, r2}
    Ops = {"transfer", "unenroll"}
    Repeats = {0}
    SeedRows <- SomeSeats
    FirstId = 4
PROPERTIES TransferIsAMove
