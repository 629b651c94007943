SPECIFICATION Spec
CONSTANTS
    r1 = r1
    r2 = r2
    Requests = {r1, r2}
    Ops = {"register", "login", "refresh", "me", "change_password", "deactivate", "create_role", "assign_role", "create_instructor", "get_profile", "update_profile", "upload_avatar"}
    Emails = {"e1", "e2", "e3", "e4"}
    Names = {"n1", "n2", "n3"}
    Passwords = {"p1", "p2"}
    RoleNames = {"admin", "student"}
    Files = {"f1", "f2"}
    SeedUsers <- Two
    AdminRole = "admin"
SYMMETRY Interchangeable
INVARIANTS TypeOK OneWinner RefusedForCause InactiveIsRefused AvatarIsStored
PROPERTIES DeactivationSticks ProfileKeepsBoth
