SPECIFICATION FairSpec
CONSTANTS
    Users = {1, 2}
    UserIds = {1, 2}
    Courses = {1, 2}
    Caps = {1}
    Requests = {r1, r2}
    Ops = {"transfer", "delete_course", "recategorise", "enroll"}
    Repeats = {0}
    SeedRows <- SomeSeats
    FirstId = 4
PROPERTIES EveryRequestAnswered
