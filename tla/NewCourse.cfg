SPECIFICATION Spec
CONSTANTS
    r1 = r1
    r2 = r2
    Requests = {r1, r2}
    Ids = {1, 2}
    Addresses = {1, 2}
    Reads = {"get_courses"}
    Mutations = {"create_course"}
    Seed <- OneOfEach
    RedisFails = {}
    Crashes = FALSE
SYMMETRY Interchangeable
INVARIANTS ChangesInvalidate
