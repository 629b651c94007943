SPECIFICATION Spec
CONSTANTS
    r1 = r1
    r2 = r2
    r3 = r3
    Requests = {r1, r2, r3}
    Ids = {1, 2}
    Addresses = {1, 2, 3}
    Reads = {"get_courses", "get_course", "get_users", "get_user_profile"}
    Mutations = {"update_course", "delete_course", "bulk_create_courses", "delete_category", "create_user", "deactivate_user", "update_user_profile"}
    Seed <- OneOfEach
    RedisFails = {}
    Crashes = FALSE
SYMMETRY Interchangeable
INVARIANTS TypeOK StaleOnlyWhileClearing AnswersTheQuestion
