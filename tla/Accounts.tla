------------------------------ MODULE Accounts ------------------------------
(***************************************************************************)
(* Users, their roles and profiles, and who may act as whom: the methods   *)
(* of UserService, RoleService and AuthService, create_instructor, the     *)
(* dependencies get_current_user and get_current_active_admin, and the     *)
(* files that upload_avatar puts into S3.                                  *)
(*                                                                         *)
(* Each request runs in a worker thread of its own; a step is one SQL      *)
(* statement with the Python code up to the next one.  No method locks a   *)
(* row before it decides, and each has one write, followed by COMMIT at    *)
(* once: a write is one step with its COMMIT, and no step waits.  A        *)
(* session loads a row once and writes only the columns it has set.  What  *)
(* must be unique is checked by a SELECT, and once more by the database.   *)
(***************************************************************************)
EXTENDS Naturals, FiniteSets

CONSTANTS
    Requests,   \* the requests that arrive
    Ops,        \* the endpoints called
    Emails, Names, Passwords, RoleNames, Files,    \* what clients send
    SeedUsers,  \* the users that exist before the first request
    AdminRole   \* the name of the role that admins have

AllOps == {"register", "login", "refresh", "me", "change_password", "deactivate",
           "create_role", "assign_role", "create_instructor",
           "get_profile", "update_profile", "upload_avatar"}

\* bcrypt is abstracted: a hash verifies exactly the password it was made of.
User == [id : Nat, email : Emails, name : Names, active : BOOLEAN, hash : Passwords]

ASSUME AccountsAssumption ==
    /\ Ops \subseteq AllOps
    /\ SeedUsers \subseteq User /\ IsFiniteSet(SeedUsers)
    /\ \A u \in SeedUsers : u.id \in 1 .. Cardinality(SeedUsers)
    /\ \A u, v \in SeedUsers : (u.id = v.id \/ u.email = v.email \/ u.name = v.name) => u = v
    /\ AdminRole \in RoleNames

VARIABLES
    users,       \* the table users
    roles,       \* the table roles: the name of each, the ids are left out
    grants,      \* the table user_roles: pairs of a user id and a role
    instructors, \* the user ids of the table instructors
    profiles,    \* the table user_profile: whose each is, who gave its name, its avatar
    objects,     \* the bucket in S3: a file of a user, and which request sent it
    pc,          \* the statement each request runs next
    job,         \* the endpoint and parameters of each request
    me,          \* the row of the user each request has authenticated
    lacks,       \* whether each request has found that there is no profile
    barred,      \* history: the requests of users who were inactive on arrival
    answer       \* the status code of each response, 0: none

tables == <<users, roles, grants, instructors, profiles>>
vars   == <<tables, objects, pc, job, me, lacks, barred, answer>>

-----------------------------------------------------------------------------
(* Requests.  "user" is the user the token names or, for an endpoint that  *)
(* needs none, the user_id of the request.                                 *)

NoJob  == [op |-> "none"]
NoUser == [id |-> 0]

UserIds == {u.id : u \in users}
UserRow(id) == CHOOSE u \in users : u.id = id

\* The endpoints that get_current_user guards.  get_profile is open to all.
Guarded == {"me", "change_password", "deactivate", "update_profile", "upload_avatar"}

\* What clients send.  A user id may be one that is not there (0); a token names a
\* user who has logged in.  Who names the profile of another user gets a 403 at
\* once, which is left out.
Jobs ==
    [op : {"register"}, email : Emails, name : Names, password : Passwords]
    \cup [op : {"login"}, email : Emails, password : Passwords]
    \cup [op : {"refresh", "me"}, user : UserIds]
    \cup [op : {"upload_avatar"}, user : UserIds, file : Files]
    \cup [op : {"change_password"}, user : UserIds, current : Passwords, new : Passwords]
    \cup [op : {"deactivate"}, user : UserIds, target : UserIds \cup {0}]
    \cup [op : {"create_role"}, name : RoleNames]
    \cup [op : {"assign_role"}, user : UserIds \cup {0}, role : RoleNames]
    \cup [op : {"create_instructor", "get_profile"}, user : UserIds \cup {0}]
    \cup [op : {"update_profile"}, user : UserIds, sets : {"name", "null", "bio"}]

Entry(op) == CASE op = "register" -> "email"
               [] op \in {"login", "refresh"} -> "enter"
               [] op \in Guarded -> "authenticate"
               [] op = "create_role" -> "role_name"
               [] op \in {"assign_role", "create_instructor"} -> "find_user"
               [] op = "get_profile" -> "profile"

\* The user a request acts as.
ActsAs(j) == IF j.op = "login" THEN {u.id : u \in {v \in users : v.email = j.email}}
             ELSE IF j.op \in Guarded \cup {"refresh"} THEN {j.user} ELSE {}

Arrive(r) ==
    /\ pc[r] = "new"
    /\ \E j \in {i \in Jobs : i.op \in Ops} :
          /\ job' = [job EXCEPT ![r] = j]
          /\ pc' = [pc EXCEPT ![r] = Entry(j.op)]
          /\ barred' = IF \E id \in ActsAs(j) : ~UserRow(id).active
                       THEN barred \cup {r} ELSE barred
    /\ UNCHANGED <<tables, objects, me, lacks, answer>>

Answer(r, code) == /\ pc' = [pc EXCEPT ![r] = "done"]
                   /\ answer' = [answer EXCEPT ![r] = code]
                   /\ UNCHANGED <<objects, job, me, lacks, barred>>

Refuse(r, code) == Answer(r, code) /\ UNCHANGED tables

Goto(r, l) == /\ pc' = [pc EXCEPT ![r] = l]
              /\ UNCHANGED <<tables, objects, job, barred, answer>>

\* The SELECT before an INSERT.
Check(r, taken, l) == \/ taken /\ Refuse(r, 409)
                      \/ ~taken /\ Goto(r, l) /\ UNCHANGED <<me, lacks>>

\* The INSERT and its COMMIT, unless a constraint of the table forbids it.  No
\* endpoint deletes what is inserted here: the refresh that follows finds it.
Insert(r, forbidden, change) == \/ forbidden /\ Refuse(r, 500)
                                \/ ~forbidden /\ change /\ Answer(r, 200)

-----------------------------------------------------------------------------
(* UserService.create_user                                                 *)

EmailTaken(j) == \E u \in users : u.email = j.email
NameTaken(j)  == \E u \in users : u.name = j.name

RegisterEmail(r) == pc[r] = "email" /\ Check(r, EmailTaken(job[r]), "name")

\* Mutation: any other user is a conflict.
RegisterNameOfAnybody(r) == pc[r] = "name" /\ Check(r, users # {}, "register")

RegisterName(r) == pc[r] = "name" /\ Check(r, NameTaken(job[r]), "register")

AddUser(j) ==
    /\ users' = users \cup {[id |-> Cardinality(users) + 1, email |-> j.email,
                             name |-> j.name, active |-> TRUE, hash |-> j.password]}
    /\ UNCHANGED <<roles, grants, instructors, profiles>>

\* Mutation: the column username is not unique.
RegisterAnyName(r) ==
    /\ pc[r] = "register"
    /\ Insert(r, EmailTaken(job[r]), AddUser(job[r]))

Register(r) ==
    /\ pc[r] = "register"
    /\ Insert(r, EmailTaken(job[r]) \/ NameTaken(job[r]), AddUser(job[r]))

-----------------------------------------------------------------------------
(* AuthService, get_current_user and get_current_active_admin.             *)

Login(r) ==
    /\ pc[r] = "enter" /\ job[r].op = "login"
    /\ LET found == {u \in users : u.email = job[r].email /\ u.hash = job[r].password}
       IN  \/ found = {} /\ Refuse(r, 401)
           \/ \E u \in found : Refuse(r, IF u.active THEN 200 ELSE 403)

\* A token may have expired.
Refresh(r) ==
    /\ pc[r] = "enter" /\ job[r].op = "refresh"
    /\ \/ Refuse(r, 401)
       \/ UserRow(job[r].user).active /\ Refuse(r, 200)

Handler(op) == CASE op = "change_password" -> "change"
                 [] op = "deactivate" -> "admin"
                 [] op \in {"update_profile", "upload_avatar"} -> "profile"

\* get_current_user, and the answer of /auth/me.
EnterIf(r, mayEnter) ==
    /\ pc[r] = "authenticate"
    /\ \/ Refuse(r, 401)
       \/ ~mayEnter /\ Refuse(r, 403)
       \/ mayEnter /\ job[r].op = "me" /\ Refuse(r, 200)
       \/ /\ mayEnter /\ job[r].op # "me"
          /\ me' = [me EXCEPT ![r] = UserRow(job[r].user)]
          /\ Goto(r, Handler(job[r].op)) /\ UNCHANGED lacks

\* Mutation: is_active is not looked at.
AuthenticateAnyone(r) == EnterIf(r, TRUE)

Authenticate(r) == EnterIf(r, UserRow(job[r].user).active)

RequireAdmin(r) ==
    /\ pc[r] = "admin"
    /\ \/ <<me[r].id, AdminRole>> \notin grants /\ Refuse(r, 403)
       \/ /\ <<me[r].id, AdminRole>> \in grants
          /\ Goto(r, "find_target") /\ UNCHANGED <<me, lacks>>

FindTarget(r) ==
    /\ pc[r] = "find_target"
    /\ \/ job[r].target \notin UserIds /\ Refuse(r, 404)
       \/ job[r].target \in UserIds /\ Goto(r, "deactivate") /\ UNCHANGED <<me, lacks>>

\* UPDATE users: the row of u becomes v.
UpdateUser(u, v) == /\ users' = (users \ {u}) \cup {v}
                    /\ UNCHANGED <<roles, grants, instructors, profiles>>

Deactivate(r) ==
    LET u == UserRow(job[r].target)
    IN  /\ pc[r] = "deactivate"
        /\ UpdateUser(u, [u EXCEPT !.active = FALSE])
        /\ Answer(r, 200)

\* Mutation: every column is written, as it was read.
ChangeWholeRow(r) ==
    /\ pc[r] = "change"
    /\ \/ job[r].current # me[r].hash /\ Refuse(r, 422)
       \/ /\ job[r].current = me[r].hash
          /\ UpdateUser(UserRow(me[r].id), [me[r] EXCEPT !.hash = job[r].new])
          /\ Answer(r, 200)

\* The password is compared with the row get_current_user has loaded.
ChangePassword(r) ==
    LET u == UserRow(me[r].id)
    IN  /\ pc[r] = "change"
        /\ \/ job[r].current # me[r].hash /\ Refuse(r, 422)
           \/ /\ job[r].current = me[r].hash
              /\ UpdateUser(u, [u EXCEPT !.hash = job[r].new])
              /\ Answer(r, 200)

-----------------------------------------------------------------------------
(* RoleService and InstructorService.create_instructor                     *)

CheckRole(r) == pc[r] = "role_name" /\ Check(r, job[r].name \in roles, "create_role")

CreateRole(r) ==
    /\ pc[r] = "create_role"
    /\ Insert(r, job[r].name \in roles,
              roles' = roles \cup {job[r].name} /\ UNCHANGED <<users, grants, instructors, profiles>>)

FindUser(r) ==
    /\ pc[r] = "find_user"
    /\ \/ job[r].user \notin UserIds /\ Refuse(r, 404)
       \/ /\ job[r].user \in UserIds
          /\ Goto(r, IF job[r].op = "assign_role" THEN "find_role" ELSE "check_instructor")
          /\ UNCHANGED <<me, lacks>>

FindRole(r) ==
    /\ pc[r] = "find_role"
    /\ \/ job[r].role \notin roles /\ Refuse(r, 404)
       \/ job[r].role \in roles /\ Goto(r, "read_roles") /\ UNCHANGED <<me, lacks>>

Grant(j) == <<j.user, j.role>>

\* user.roles is loaded: a role that is there already is skipped.
ReadRoles(r) ==
    /\ pc[r] = "read_roles"
    /\ \/ Grant(job[r]) \in grants /\ Refuse(r, 200)
       \/ Grant(job[r]) \notin grants /\ Goto(r, "assign") /\ UNCHANGED <<me, lacks>>

AssignRole(r) ==
    /\ pc[r] = "assign"
    /\ Insert(r, Grant(job[r]) \in grants,
              grants' = grants \cup {Grant(job[r])} /\ UNCHANGED <<users, roles, instructors, profiles>>)

CheckInstructor(r) ==
    pc[r] = "check_instructor" /\ Check(r, job[r].user \in instructors, "create_instructor")

CreateInstructor(r) ==
    /\ pc[r] = "create_instructor"
    /\ Insert(r, job[r].user \in instructors,
              /\ instructors' = instructors \cup {job[r].user}
              /\ UNCHANGED <<users, roles, grants, profiles>>)

-----------------------------------------------------------------------------
(* The profile methods of UserService.                                     *)

HasProfile(id) == \E p \in profiles : p.user = id
ProfileOf(id)  == CHOOSE p \in profiles : p.user = id

\* The SELECT.  get_user_profile returns what it finds.
FindProfile(r) ==
    /\ pc[r] = "profile"
    /\ \/ job[r].op = "get_profile" /\ HasProfile(job[r].user) /\ Refuse(r, 200)
       \/ /\ job[r].op # "get_profile" \/ ~HasProfile(job[r].user)
          /\ lacks' = [lacks EXCEPT ![r] = ~HasProfile(job[r].user)]
          /\ Goto(r, job[r].op) /\ UNCHANGED me

KeepOthers == UNCHANGED <<users, roles, grants, instructors>>

\* "default" is a name the code makes up.
AddProfile(r, name, avatar) ==
    /\ profiles' = profiles \cup {[user |-> job[r].user, name |-> name, avatar |-> avatar]}
    /\ KeepOthers

\* user_id is unique and refers to a user.
NoRoom(r) == HasProfile(job[r].user) \/ job[r].user \notin UserIds

\* Mutation: user_id is no foreign key.
NewProfileOfAnyone(r) ==
    /\ pc[r] = "get_profile"
    /\ Insert(r, HasProfile(job[r].user), AddProfile(r, "default", "none"))

NewProfile(r) ==
    /\ pc[r] = "get_profile"
    /\ Insert(r, NoRoom(r), AddProfile(r, "default", "none"))

SetProfile(p, q) == profiles' = (profiles \ {p}) \cup {q} /\ KeepOthers

\* Mutation: the row is written as if there were no avatar yet.
UpdateWholeProfile(r) ==
    LET name == IF job[r].sets = "name" THEN r ELSE "default"
        p    == ProfileOf(job[r].user)
    IN  /\ pc[r] = "update_profile"
        /\ \/ job[r].sets = "null" /\ Refuse(r, 500)
           \/ job[r].sets # "null" /\ lacks[r] /\ Insert(r, NoRoom(r), AddProfile(r, name, "none"))
           \/ /\ job[r].sets # "null" /\ ~lacks[r]
              /\ SetProfile(p, [p EXCEPT !.name = name, !.avatar = "none"])
              /\ Answer(r, 200)

\* full_name may not be NULL, though the client may send it.
UpdateProfile(r) ==
    LET p == ProfileOf(job[r].user)
    IN  /\ pc[r] = "update_profile"
        /\ \/ job[r].sets = "null" /\ Refuse(r, 500)
           \/ /\ job[r].sets # "null" /\ lacks[r]
              /\ Insert(r, NoRoom(r),
                        AddProfile(r, IF job[r].sets = "name" THEN r ELSE "default", "none"))
           \/ /\ job[r].sets # "null" /\ ~lacks[r]
              /\ SetProfile(p, IF job[r].sets = "name" THEN [p EXCEPT !.name = r] ELSE p)
              /\ Answer(r, 200)

\* upload_fileobj under avatars/<user id>/<file name>, over what is there.  It fails for
\* many reasons (not configured, a type that is not allowed, an error of S3), the last
\* of which may follow after the file was stored.
SendFile(r) ==
    LET key   == [user |-> job[r].user, file |-> job[r].file]
        other == {o \in objects : o.user # key.user \/ o.file # key.file}
        sent  == other \cup {[user |-> key.user, file |-> key.file, by |-> r]}
    IN  /\ pc[r] = "upload_avatar"
        /\ \/ objects' = sent /\ pc' = [pc EXCEPT ![r] = "set_avatar"]
           \/ objects' \in {objects, sent} /\ pc' = [pc EXCEPT ![r] = "no_url"]
        /\ UNCHANGED <<tables, job, me, lacks, barred, answer>>

WriteAvatar(r, avatar) ==
    LET p == ProfileOf(job[r].user)
    IN  \/ lacks[r] /\ Insert(r, NoRoom(r), AddProfile(r, "default", avatar))
        \/ ~lacks[r] /\ SetProfile(p, [p EXCEPT !.avatar = avatar]) /\ Answer(r, 200)

\* Mutation: the URL is written whether the file has been stored or not.
NoUrlWritten(r) == pc[r] = "no_url" /\ WriteAvatar(r, job[r].file)

\* Without a URL nothing is written, and a profile without an id cannot be returned.
NoUrl(r) == pc[r] = "no_url" /\ Refuse(r, IF lacks[r] THEN 500 ELSE 200)

SetAvatar(r) == pc[r] = "set_avatar" /\ WriteAvatar(r, job[r].file)

-----------------------------------------------------------------------------

Step(r) == \/ RegisterEmail(r) \/ RegisterName(r) \/ Register(r)
           \/ Login(r) \/ Refresh(r) \/ Authenticate(r)
           \/ RequireAdmin(r) \/ FindTarget(r) \/ Deactivate(r) \/ ChangePassword(r)
           \/ CheckRole(r) \/ CreateRole(r) \/ FindUser(r) \/ FindRole(r)
           \/ ReadRoles(r) \/ AssignRole(r) \/ CheckInstructor(r) \/ CreateInstructor(r)
           \/ FindProfile(r) \/ NewProfile(r) \/ UpdateProfile(r)
           \/ SendFile(r) \/ NoUrl(r) \/ SetAvatar(r)

AllAnswered == (\A r \in Requests : pc[r] = "done") /\ UNCHANGED vars

\* The role of admins exists and is held by one of the users.
Init == /\ users = SeedUsers
        /\ roles = {AdminRole}
        /\ \E u \in SeedUsers : grants = {<<u.id, AdminRole>>}
        /\ instructors = {}
        /\ profiles = {}
        /\ objects = {}
        /\ pc = [r \in Requests |-> "new"]
        /\ job = [r \in Requests |-> NoJob]
        /\ me = [r \in Requests |-> NoUser]
        /\ lacks = [r \in Requests |-> FALSE]
        /\ barred = {}
        /\ answer = [r \in Requests |-> 0]

Next == (\E r \in Requests : Arrive(r) \/ Step(r)) \/ AllAnswered

Spec == Init /\ [][Next]_vars

-----------------------------------------------------------------------------
(* Properties                                                              *)

Labels == {"new", "email", "name", "register", "enter", "authenticate", "change", "admin",
           "find_target", "deactivate", "role_name", "create_role", "find_user",
           "find_role", "read_roles", "assign", "check_instructor", "create_instructor",
           "profile", "get_profile", "update_profile", "upload_avatar", "no_url",
           "set_avatar", "done"}

\* The types of the variables; grants, instructors and profiles are of users that
\* exist.
TypeOK ==
    /\ users \subseteq User
    /\ \A u \in users : u.id \in 1 .. Cardinality(users)
    /\ roles \subseteq RoleNames
    /\ grants \subseteq UserIds \X roles
    /\ instructors \subseteq UserIds
    /\ profiles \subseteq [user : UserIds, name : Requests \cup {"default"},
                           avatar : Files \cup {"none"}]
    /\ objects \subseteq [user : UserIds, file : Files, by : Requests]
    /\ pc \in [Requests -> Labels]
    /\ job \in [Requests -> Jobs \cup {NoJob}]
    /\ me \in [Requests -> User \cup {NoUser}]
    /\ lacks \in [Requests -> BOOLEAN]
    /\ barred \subseteq Requests
    /\ answer \in [Requests -> {0, 200, 401, 403, 404, 409, 422, 500}]

\* Of the requests that ask for the same email or username, the same role or the
\* same instructor, one succeeds at most, however their checks and INSERTs mix.
OneWinner ==
    \A r, q \in Requests :
        (r # q /\ answer[r] = 200 /\ answer[q] = 200 /\ job[r].op = job[q].op) =>
            /\ job[r].op = "register" =>
                  job[r].email # job[q].email /\ job[r].name # job[q].name
            /\ job[r].op = "create_role" => job[r].name # job[q].name
            /\ job[r].op = "create_instructor" => job[r].user # job[q].user

\* A request that loses such a race, by a conflict or by a database error, loses it
\* to a row that is there and stays: nobody is refused for a registration that
\* failed itself.
RefusedForCause ==
    \A r \in Requests :
        answer[r] \in {409, 500} =>
            /\ job[r].op = "register" => EmailTaken(job[r]) \/ NameTaken(job[r])
            /\ job[r].op = "create_role" => job[r].name \in roles
            /\ job[r].op = "assign_role" => Grant(job[r]) \in grants
            /\ job[r].op = "create_instructor" => job[r].user \in instructors
            /\ job[r].op = "get_profile" => HasProfile(job[r].user) \/ job[r].user \notin UserIds
            /\ job[r].op = "update_profile" => HasProfile(job[r].user) \/ job[r].sets = "null"

\* Once a user is deactivated no request that arrives in the user's name is
\* served, with a password, an access token or a refresh token.
InactiveIsRefused == \A r \in barred : answer[r] # 200

\* A deactivated user stays so: a change of password that has loaded the user
\* before does not write the old is_active back.
DeactivationSticks ==
    [][\A u \in users, v \in users' : (u.id = v.id /\ ~u.active) => ~v.active]_vars

\* The avatar in a profile is a file that is in the bucket, although the upload may fail
\* with or without having stored it, and others upload in between.
AvatarIsStored ==
    \A p \in profiles : p.avatar # "none" =>
        \E o \in objects : o.user = p.user /\ o.file = p.avatar

\* An avatar and a name set at the same time both stay: a profile loses neither but
\* to a later request for the same column.
ProfileKeepsBoth ==
    [][\A p \in profiles, q \in profiles' :
          p.user = q.user =>
             /\ q.name # p.name => \E r \in Requests : job[r].op = "update_profile" /\ q.name = r
             /\ q.avatar # p.avatar =>
                   \E r \in Requests : /\ job[r].op = "upload_avatar"
                                       /\ job[r].user = p.user /\ job[r].file = q.avatar]_vars

-----------------------------------------------------------------------------
(* What a comment and a document say, and the code does not do.            *)

\* role_service.py and rbac.md say that assigning a role is idempotent, with no
\* error if it is already assigned.
AssignIsIdempotent ==
    \A r \in Requests : job[r].op = "assign_role" => answer[r] # 500
=============================================================================
