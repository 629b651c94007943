SPECIFICATION Spec
CONSTANTS
    r1 = r1
    r2 = r2
    Requests = {r1, r2}
    Ops = {"assign_role"}
    Emails = {"e1", "e2", "e3", "e4"}
    Names = {"n1", "n2", "n3"}
    Passwords = {"p1", "p2"}
    RoleNames = {"admin", "student"}
    Files = {"f1", "f2"}
    SeedUsers <- Two
    AdminRole = "admin"
SYMMETRY Interchangeable
INVARIANTS AssignIsIdempotent
