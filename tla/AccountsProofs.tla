--------------------------- MODULE AccountsProofs ---------------------------
(***************************************************************************)
(* Proofs about Accounts for every set of requests, users and roles: what  *)
(* must be unique is, nobody is refused for a registration that failed     *)
(* itself, who is deactivated stays out, and profiles lose nothing.        *)
(***************************************************************************)
EXTENDS Accounts, FiniteSetTheorems, TLAPS

-----------------------------------------------------------------------------
(* The invariant.                                                          *)

\* What the types say of the tables, and of the requests.
TablesType ==
    /\ users \subseteq User
    /\ \A u \in users : u.id \in 1 .. Cardinality(users)
    /\ roles \subseteq RoleNames
    /\ grants \subseteq UserIds \X roles
    /\ instructors \subseteq UserIds
    /\ profiles \subseteq [user : UserIds, name : Requests \cup {"default"},
                           avatar : Files \cup {"none"}]
    /\ objects \subseteq [user : UserIds, file : Files, by : Requests]

Codes == {0, 200, 401, 403, 404, 409, 422, 500}

RequestsType ==
    /\ pc \in [Requests -> Labels]
    /\ job \in [Requests -> Jobs \cup {NoJob}]
    /\ me \in [Requests -> User \cup {NoUser}]
    /\ lacks \in [Requests -> BOOLEAN]
    /\ barred \subseteq Requests
    /\ answer \in [Requests -> Codes]

\* The unique columns, and the avatars.
TablesOK ==
    /\ IsFiniteSet(users)
    /\ \A u, v \in users : (u.id = v.id \/ u.email = v.email \/ u.name = v.name) => u = v
    /\ \A p, q \in profiles : p.user = q.user => p = q
    /\ AvatarIsStored

\* The endpoint a statement belongs to.
Fits(r) ==
    /\ pc[r] = "new" => job[r] = NoJob
    /\ pc[r] # "new" => job[r] \in Jobs
    /\ pc[r] # "done" => answer[r] = 0
    /\ pc[r] \in {"email", "name", "register"} => job[r].op = "register"
    /\ pc[r] = "enter" => job[r].op \in {"login", "refresh"}
    /\ pc[r] = "authenticate" => job[r].op \in Guarded
    /\ pc[r] = "change" => job[r].op = "change_password"
    /\ pc[r] \in {"admin", "find_target", "deactivate"} => job[r].op = "deactivate"
    /\ pc[r] \in {"role_name", "create_role"} => job[r].op = "create_role"
    /\ pc[r] = "find_user" => job[r].op \in {"assign_role", "create_instructor"}
    /\ pc[r] \in {"find_role", "read_roles", "assign"} => job[r].op = "assign_role"
    /\ pc[r] \in {"check_instructor", "create_instructor"} => job[r].op = "create_instructor"
    /\ pc[r] = "profile" => job[r].op \in {"get_profile", "update_profile", "upload_avatar"}
    /\ pc[r] = "get_profile" => job[r].op = "get_profile"
    /\ pc[r] = "update_profile" => job[r].op = "update_profile"
    /\ pc[r] \in {"upload_avatar", "set_avatar", "no_url"} => job[r].op = "upload_avatar"

Stored(user, file) == \E o \in objects : o.user = user /\ o.file = file

\* What a request has found out and relies on.
Knows(r) ==
    /\ pc[r] \in {"change", "admin", "find_target", "deactivate"} =>
          me[r] \in User /\ me[r].id \in UserIds
    /\ pc[r] = "deactivate" => job[r].target \in UserIds
    /\ pc[r] \in {"find_role", "read_roles", "assign", "check_instructor",
                  "create_instructor"} => job[r].user \in UserIds
    /\ pc[r] \in {"read_roles", "assign"} => job[r].role \in roles
    /\ (pc[r] \in {"update_profile", "upload_avatar", "set_avatar", "no_url"} /\ ~lacks[r]) =>
          HasProfile(job[r].user)
    /\ pc[r] = "set_avatar" => Stored(job[r].user, job[r].file)

\* What a success leaves behind.
Made(j) ==
    /\ j.op = "register" => \E u \in users : u.email = j.email /\ u.name = j.name
    /\ j.op = "create_role" => j.name \in roles
    /\ j.op = "create_instructor" => j.user \in instructors

\* What a conflict or a database error is about.
Cause(j) ==
    /\ j.op = "register" => EmailTaken(j) \/ NameTaken(j)
    /\ j.op = "create_role" => j.name \in roles
    /\ j.op = "assign_role" => Grant(j) \in grants
    /\ j.op = "create_instructor" => j.user \in instructors
    /\ j.op = "get_profile" => HasProfile(j.user) \/ j.user \notin UserIds
    /\ j.op = "update_profile" => HasProfile(j.user) \/ j.sets = "null"

Outcome(r) == /\ answer[r] = 200 => Made(job[r])
              /\ answer[r] \in {409, 500} => Cause(job[r])

\* The user a request acts as is deactivated.
Inactive(j) == \E u \in users : /\ ~u.active
                                /\ IF j.op = "login" THEN u.email = j.email ELSE u.id = j.user

\* A request in the name of a deactivated user is stopped where it enters.
Stopped(r) == r \in barred => /\ pc[r] \in {"enter", "authenticate", "done"}
                              /\ answer[r] # 200
                              /\ Inactive(job[r])

RequestInv(r) == Fits(r) /\ Knows(r) /\ Outcome(r) /\ Stopped(r)

AccountsInv == /\ TypeOK /\ TablesOK /\ OneWinner
               /\ \A r \in Requests : RequestInv(r)

-----------------------------------------------------------------------------
(* What a step does.                                                       *)

\* The tables only grow: rows keep what identifies them, and a user is never activated.
Grow ==
    /\ \A u \in users : \E v \in users' : /\ v.id = u.id /\ v.email = u.email /\ v.name = u.name
                                          /\ ~u.active => ~v.active
    /\ roles \subseteq roles' /\ grants \subseteq grants' /\ instructors \subseteq instructors'
    /\ \A p \in profiles : \E q \in profiles' : q.user = p.user
    /\ \A o \in objects : \E n \in objects' : n.user = o.user /\ n.file = o.file

\* The other requests.
Untouched(r) ==
    \A q \in Requests \ {r} :
        /\ pc'[q] = pc[q] /\ job'[q] = job[q] /\ me'[q] = me[q] /\ lacks'[q] = lacks[q]
        /\ answer'[q] = answer[q] /\ (q \in barred' <=> q \in barred)

\* Who succeeds has found nobody there.
Wins(r) ==
    (answer[r] # 200 /\ answer'[r] = 200) =>
        /\ job'[r] = job[r]
        /\ job[r].op = "register" => ~EmailTaken(job[r]) /\ ~NameTaken(job[r])
        /\ job[r].op = "create_role" => job[r].name \notin roles
        /\ job[r].op = "create_instructor" => job[r].user \notin instructors

\* A request changes the column of a profile it is about.
OwnColumns(r) ==
    \A p \in profiles, q \in profiles' :
        p.user = q.user =>
            /\ q.name # p.name => job[r].op = "update_profile" /\ q.name = r
            /\ q.avatar # p.avatar => /\ job[r].op = "upload_avatar"
                                      /\ job[r].user = p.user /\ job[r].file = q.avatar

\* What has to be shown of each step.
Good(r) == /\ TypeOK' /\ TablesOK' /\ Grow /\ Untouched(r) /\ RequestInv(r)'
           /\ Wins(r) /\ OwnColumns(r)

-----------------------------------------------------------------------------
(* Rows and ids.                                                           *)

\* The types, in two parts.
LEMMA Types == TypeOK <=> TablesType /\ RequestsType
BY DEF TypeOK, TablesType, RequestsType, Codes

\* The row of an id that exists is a row, and has the id.
LEMMA UserRowIs ==
    ASSUME NEW id \in UserIds
    PROVE  UserRow(id) \in users /\ UserRow(id).id = id
BY DEF UserIds, UserRow

\* The same of profiles.
LEMMA ProfileIs ==
    ASSUME NEW id, HasProfile(id)
    PROVE  ProfileOf(id) \in profiles /\ ProfileOf(id).user = id
BY DEF HasProfile, ProfileOf

\* No id is lost.
LEMMA IdsStay == ASSUME Grow PROVE UserIds \subseteq UserIds'
BY DEF Grow, UserIds

\* What a client could send, it can send later.
LEMMA JobsStay == ASSUME Grow PROVE Jobs \subseteq Jobs'
<1>1. UserIds \subseteq UserIds' BY IdsStay
<1> QED BY <1>1 DEF Jobs

\* 0 is nobody's id.
LEMMA NoUserZero == ASSUME TypeOK PROVE 0 \notin UserIds
BY DEF TypeOK, UserIds, User

\* The parameters of each endpoint.
LEMMA JobTypes ==
    ASSUME NEW j \in Jobs
    PROVE  /\ j.op \in AllOps
           /\ j.op = "register" => j.email \in Emails /\ j.name \in Names /\ j.password \in Passwords
           /\ j.op \in {"refresh", "me", "upload_avatar", "change_password", "deactivate",
                        "update_profile"} => j.user \in UserIds
           /\ j.op \in {"assign_role", "create_instructor", "get_profile"} =>
                 j.user \in UserIds \cup {0}
           /\ j.op = "upload_avatar" => j.file \in Files
           /\ j.op = "change_password" => j.new \in Passwords
           /\ j.op = "create_role" => j.name \in RoleNames
           /\ j.op = "assign_role" => j.role \in RoleNames
BY DEF Jobs, AllOps

-----------------------------------------------------------------------------
(* The others.                                                             *)

\* What a success leaves behind, and what a refusal is about, stays.
LEMMA MadeStays ==
    ASSUME TypeOK, TypeOK', Grow, NEW j \in Jobs
    PROVE  (Made(j) => Made(j)') /\ (Cause(j) => Cause(j)')
<1>1. Made(j) => Made(j)' BY DEF Made, Grow
<1>2. EmailTaken(j) => EmailTaken(j)' BY DEF EmailTaken, Grow
<1>3. NameTaken(j) => NameTaken(j)' BY DEF NameTaken, Grow
<1>4. \A i : HasProfile(i) => HasProfile(i)' BY DEF HasProfile, Grow
<1>5. j.op = "get_profile" /\ j.user \notin UserIds => j.user \notin UserIds'
    <2>1. 0 \notin UserIds' BY DEF TypeOK, UserIds, User
    <2> QED BY <2>1, JobTypes
<1>6. Grant(j) \in grants => Grant(j)' \in grants' BY DEF Grow, Grant
<1>7. j.name \in roles => j.name \in roles' BY DEF Grow
<1>8. j.user \in instructors => j.user \in instructors' BY DEF Grow
<1> HIDE DEF Grow
<1>9. Cause(j) => Cause(j)' BY <1>2, <1>3, <1>4, <1>5, <1>6, <1>7, <1>8 DEF Cause
<1> QED BY <1>1, <1>9

\* A deactivated user stays so.
LEMMA InactiveStays ==
    ASSUME Grow, NEW j, Inactive(j)
    PROVE  Inactive(j)'
BY DEF Grow, Inactive

\* What a request relies on survives the step of another.
LEMMA OthersInv ==
    ASSUME AccountsInv, TypeOK', Grow, NEW r \in Requests, Untouched(r),
           NEW q \in Requests, q # r
    PROVE  RequestInv(q)'
<1>1. /\ pc'[q] = pc[q] /\ job'[q] = job[q] /\ me'[q] = me[q] /\ lacks'[q] = lacks[q]
      /\ answer'[q] = answer[q] /\ (q \in barred' <=> q \in barred)
    BY DEF Untouched
<1>2. RequestInv(q) /\ TypeOK BY DEF AccountsInv
<1>3. Fits(q)' BY <1>1, <1>2, JobsStay DEF RequestInv, Fits
<1>4. Knows(q)'
    <2>1. Knows(q) BY <1>2 DEF RequestInv
    <2>2. UserIds \subseteq UserIds' BY IdsStay
    <2>3. \A i : HasProfile(i) => HasProfile(i)' BY DEF HasProfile, Grow
    <2>4. \A u, f : Stored(u, f) => Stored(u, f)' BY DEF Stored, Grow
    <2>5. roles \subseteq roles' BY DEF Grow
    <2> QED BY <1>1, <2>1, <2>2, <2>3, <2>4, <2>5 DEF Knows
<1>5. Outcome(q)'
    <2>1. Outcome(q) BY <1>2 DEF RequestInv
    <2>2. answer[q] \in {200, 409, 500} => job[q] \in Jobs
        BY <1>2 DEF RequestInv, Fits
    <2>3. PICK j : j = job[q] OBVIOUS
    <2>4. j \in Jobs => (Made(j) => Made(j)') /\ (Cause(j) => Cause(j)')
        BY <1>2, MadeStays
    <2>5. (Made(j)' => Made(job[q])') /\ (Cause(j)' => Cause(job[q])')
        BY <1>1, <2>3 DEF Made, Cause, EmailTaken, NameTaken, HasProfile, Grant
    <2> QED BY <1>1, <2>1, <2>2, <2>3, <2>4, <2>5 DEF Outcome
<1>6. Stopped(q)'
    <2>1. Stopped(q) BY <1>2 DEF RequestInv
    <2>2. PICK j : j = job[q] OBVIOUS
    <2>3. Inactive(j) => Inactive(j)' BY InactiveStays
    <2>4. Inactive(j)' => Inactive(job[q])' BY <1>1, <2>2 DEF Inactive
    <2> QED BY <1>1, <2>1, <2>2, <2>3, <2>4 DEF Stopped
<1> QED BY <1>3, <1>4, <1>5, <1>6 DEF RequestInv

\* Of two who ask for the same, the second to succeed would have found the first.
LEMMA OneWinnerStays ==
    ASSUME AccountsInv, NEW r \in Requests, pc[r] # "done", Untouched(r), Wins(r)
    PROVE  OneWinner'
<1> DEFINE Differ(i, j) ==
               i.op = j.op =>
                  /\ i.op = "register" => i.email # j.email /\ i.name # j.name
                  /\ i.op = "create_role" => i.name # j.name
                  /\ i.op = "create_instructor" => i.user # j.user
<1>1. answer[r] # 200 BY DEF AccountsInv, RequestInv, Fits
<1>2. ASSUME NEW q \in Requests, q # r, answer'[q] = 200, answer'[r] = 200
      PROVE  Differ(job'[r], job'[q])
    <2>1. answer[q] = 200 /\ job'[q] = job[q] BY <1>2 DEF Untouched
    <2>2. Made(job[q]) BY <2>1 DEF AccountsInv, RequestInv, Outcome
    <2> QED BY <1>1, <1>2, <2>1, <2>2 DEF Wins, Made, EmailTaken, NameTaken
<1>3. ASSUME NEW p \in Requests, NEW q \in Requests, p # q, answer'[p] = 200, answer'[q] = 200
      PROVE  Differ(job'[p], job'[q])
    <2>1. CASE p = r BY <1>2, <1>3, <2>1
    <2>2. CASE q = r BY <1>2, <1>3, <2>2
    <2>3. CASE p # r /\ q # r
        <3>1. /\ job'[p] = job[p] /\ job'[q] = job[q]
              /\ answer[p] = 200 /\ answer[q] = 200
            BY <1>3, <2>3 DEF Untouched
        <3> QED BY <1>3, <3>1 DEF AccountsInv, OneWinner
    <2> QED BY <2>1, <2>2, <2>3
<1> QED BY <1>3 DEF OneWinner

\* A good step of r keeps the invariant.
LEMMA GoodKeeps ==
    ASSUME AccountsInv, NEW r \in Requests, pc[r] # "done", Good(r)
    PROVE  AccountsInv'
<1>1. OneWinner' BY OneWinnerStays DEF Good
<1>2. \A q \in Requests : RequestInv(q)'
    <2> TAKE q \in Requests
    <2>1. CASE q = r BY <2>1 DEF Good
    <2>2. CASE q # r BY <2>2, OthersInv DEF Good
    <2> QED BY <2>1, <2>2
<1> QED BY <1>1, <1>2 DEF Good, AccountsInv

-----------------------------------------------------------------------------
(* How a step ends.                                                        *)

\* A step that changes no table.
LEMMA Quiet ==
    ASSUME AccountsInv, UNCHANGED <<tables, objects>>
    PROVE  /\ Grow /\ TablesOK' /\ TablesType'
           /\ UserIds' = UserIds /\ Jobs' = Jobs
           /\ \A r \in Requests : OwnColumns(r)
<1> USE DEF tables
<1>1. Grow BY DEF Grow
<1>2. TablesOK' BY DEF AccountsInv, TablesOK, AvatarIsStored
<1>3. UserIds' = UserIds BY DEF UserIds
<1>4. TablesType' BY <1>3, Types DEF AccountsInv, TablesType
<1>5. Jobs' = Jobs BY <1>3 DEF Jobs
<1>6. \A r \in Requests : OwnColumns(r) BY DEF OwnColumns, AccountsInv, TablesOK
<1> QED BY <1>1, <1>2, <1>3, <1>4, <1>5, <1>6

\* The endpoints of which at most one request can win.
Contests == {"register", "create_role", "create_instructor"}

\* An answer that changes no table is good if it is not a success of a contest or in
\* the name of a deactivated user, nor an unfounded refusal.
LEMMA RefuseGood ==
    ASSUME AccountsInv, NEW r \in Requests, pc[r] \notin {"new", "done"},
           NEW code \in Codes, Refuse(r, code),
           code = 200 => job[r].op \notin Contests /\ r \notin barred,
           code \in {409, 500} => Cause(job[r])
    PROVE  Good(r)
<1> USE DEF Refuse, Answer
<1>1. RequestInv(r) /\ TypeOK BY DEF AccountsInv
<1>2. /\ pc' = [pc EXCEPT ![r] = "done"] /\ answer' = [answer EXCEPT ![r] = code]
      /\ UNCHANGED <<tables, objects, job, me, lacks, barred>>
    OBVIOUS
<1>3. r \in DOMAIN pc /\ r \in DOMAIN answer BY <1>1 DEF TypeOK
<1>4. pc'[r] = "done" /\ answer'[r] = code BY <1>2, <1>3
<1>5. /\ Grow /\ TablesOK' /\ TablesType' /\ UserIds' = UserIds /\ Jobs' = Jobs
      /\ OwnColumns(r)
    BY <1>2, Quiet
<1>6. RequestsType'
    <2>1. RequestsType BY <1>1, Types
    <2> QED BY <1>2, <1>5, <2>1 DEF RequestsType, Labels
<1>7. TypeOK' BY <1>5, <1>6, Types, PTL
<1>8. Untouched(r) BY <1>1, <1>2 DEF Untouched, TypeOK
<1>9. Fits(r)' BY <1>1, <1>2, <1>4, <1>5 DEF RequestInv, Fits
<1>10. Knows(r)' BY <1>4 DEF Knows
<1>11. Outcome(r)'
    <2>1. code = 200 => Made(job[r]) BY DEF Made, Contests
    <2>2. PICK j : j = job[r] OBVIOUS
    <2>3. (Made(j) => Made(j)') /\ (Cause(j) => Cause(j)')
        BY <1>1, <1>5, <1>7, <2>2, MadeStays DEF RequestInv, Fits
    <2>4. (Made(j)' => Made(job[r])') /\ (Cause(j)' => Cause(job[r])')
        BY <1>2, <2>2 DEF Made, Cause, EmailTaken, NameTaken, HasProfile, Grant
    <2> QED BY <1>4, <2>1, <2>2, <2>3, <2>4 DEF Outcome
<1>12. Stopped(r)'
    <2>1. PICK j : j = job[r] OBVIOUS
    <2>2. Inactive(j) => Inactive(j)' BY <1>5, InactiveStays
    <2>3. Inactive(j)' => Inactive(job[r])' BY <1>2, <2>1 DEF Inactive
    <2> QED BY <1>1, <1>2, <1>4, <2>1, <2>2, <2>3 DEF RequestInv, Stopped
<1>13. Wins(r) BY <1>4 DEF Wins, Contests
<1> QED BY <1>5, <1>7, <1>8, <1>9, <1>10, <1>11, <1>12, <1>13 DEF Good, RequestInv

\* A step that moves r on, and changes no table, is good if the request has entered and
\* knows what the next statement relies on.
LEMMA GotoGood ==
    ASSUME AccountsInv, NEW r \in Requests, pc[r] \notin {"new", "done"}, r \notin barred,
           NEW l \in Labels \ {"new", "done"}, Goto(r, l),
           NEW m \in User \cup {NoUser}, me' = [me EXCEPT ![r] = m],
           NEW b \in BOOLEAN, lacks' = [lacks EXCEPT ![r] = b],
           Fits(r)', Knows(r)'
    PROVE  Good(r)
<1> USE DEF Goto
<1>1. RequestInv(r) /\ TypeOK BY DEF AccountsInv
<1>2. /\ Grow /\ TablesOK' /\ TablesType' /\ UserIds' = UserIds /\ Jobs' = Jobs
      /\ OwnColumns(r)
    BY Quiet
<1>3. RequestsType'
    <2>1. RequestsType BY <1>1, Types
    <2> QED BY <1>2, <2>1 DEF RequestsType
<1>4. TypeOK' BY <1>2, <1>3, Types, PTL
<1>5. Untouched(r) BY <1>1 DEF Untouched, TypeOK
<1>6. answer'[r] = 0 /\ answer[r] = 0 BY <1>1 DEF RequestInv, Fits
<1>7. Outcome(r)' BY <1>6 DEF Outcome
<1>8. Stopped(r)' BY DEF Stopped
<1>9. Wins(r) BY <1>6 DEF Wins
<1> QED BY <1>2, <1>4, <1>5, <1>7, <1>8, <1>9 DEF Good, RequestInv

\* A write is good if it keeps the tables and leaves behind what it should.
LEMMA WriteGood ==
    ASSUME AccountsInv, NEW r \in Requests, pc[r] \notin {"new", "done"}, r \notin barred,
           Answer(r, 200), Grow, TablesOK', TablesType', Wins(r), OwnColumns(r),
           Made(job[r])'
    PROVE  Good(r)
<1> USE DEF Answer
<1>1. RequestInv(r) /\ TypeOK BY DEF AccountsInv
<1>2. r \in DOMAIN pc /\ r \in DOMAIN answer BY <1>1 DEF TypeOK
<1>3. pc'[r] = "done" /\ answer'[r] = 200 BY <1>2
<1>4. Jobs \subseteq Jobs' BY JobsStay
<1>5. RequestsType'
    <2>1. RequestsType BY <1>1, Types
    <2> QED BY <1>4, <2>1 DEF RequestsType, Labels, Codes
<1>6. TypeOK' BY <1>5, Types, PTL
<1>7. Untouched(r) BY <1>1 DEF Untouched, TypeOK
<1>8. Fits(r)' BY <1>1, <1>3, <1>4 DEF RequestInv, Fits
<1>9. Knows(r)' BY <1>3 DEF Knows
<1>10. Outcome(r)' BY <1>3 DEF Outcome
<1>11. Stopped(r)' BY DEF Stopped
<1> QED BY <1>6, <1>7, <1>8, <1>9, <1>10, <1>11 DEF Good, RequestInv

-----------------------------------------------------------------------------
(* How the tables change.                                                  *)

\* Profiles that are as they were are nobody's columns.
LEMMA ProfilesKept ==
    ASSUME AccountsInv, UNCHANGED profiles
    PROVE  \A r \in Requests : OwnColumns(r)
BY DEF AccountsInv, TablesOK, OwnColumns

\* A new user has an id, an email and a name that nobody has.
LEMMA UserAdded ==
    ASSUME AccountsInv, NEW j \in Jobs, j.op = "register", ~EmailTaken(j), ~NameTaken(j),
           AddUser(j), UNCHANGED objects
    PROVE  Grow /\ TablesOK' /\ TablesType' /\ Made(j)'
<1> DEFINE new == [id |-> Cardinality(users) + 1, email |-> j.email, name |-> j.name,
                   active |-> TRUE, hash |-> j.password]
<1>1. users' = users \cup {new} /\ UNCHANGED <<roles, grants, instructors, profiles, objects>>
    BY DEF AddUser
<1>2. TablesType /\ TablesOK BY Types DEF AccountsInv
<1>3. Cardinality(users) \in Nat BY <1>2, FS_CardinalityType DEF TablesOK
<1>4. \A u \in users : u.id \in Nat /\ u.id < new.id BY <1>2, <1>3 DEF TablesType, User
<1>5. new \notin users BY <1>3, <1>4
<1>6. IsFiniteSet(users') /\ Cardinality(users') = Cardinality(users) + 1
    BY <1>1, <1>2, <1>5, FS_AddElement DEF TablesOK
<1>7. new \in User BY <1>3, JobTypes DEF User
<1>8. Grow BY <1>1 DEF Grow
<1>9. UserIds \subseteq UserIds' BY <1>8, IdsStay
<1>10. TablesType'
    <2>1. \A u \in users' : u.id \in 1 .. Cardinality(users')
        BY <1>1, <1>2, <1>3, <1>6 DEF TablesType
    <2> HIDE DEF new
    <2>2. users' \subseteq User BY <1>1, <1>2, <1>7 DEF TablesType
    <2> QED BY <1>1, <1>2, <1>9, <2>1, <2>2 DEF TablesType
<1>11. TablesOK'
    <2>1. \A u \in users : u.id # new.id /\ u.email # new.email /\ u.name # new.name
        BY <1>3, <1>4 DEF EmailTaken, NameTaken
    <2>2. AvatarIsStored' BY <1>1, <1>2 DEF TablesOK, AvatarIsStored
    <2> HIDE DEF new
    <2> QED BY <1>1, <1>2, <1>6, <2>1, <2>2 DEF TablesOK
<1>12. Made(j)'
    <2>1. new \in users' /\ new.email = j.email /\ new.name = j.name BY <1>1
    <2> HIDE DEF new
    <2> QED BY <2>1 DEF Made
<1> QED BY <1>8, <1>10, <1>11, <1>12

\* A row that keeps its id, email and name, and is not activated, may change.
LEMMA UserUpdated ==
    ASSUME AccountsInv, NEW u \in users, NEW v \in User,
           v.id = u.id, v.email = u.email, v.name = u.name, ~u.active => ~v.active,
           UpdateUser(u, v), UNCHANGED objects
    PROVE  Grow /\ TablesOK' /\ TablesType'
<1>1. users' = (users \ {u}) \cup {v} /\ UNCHANGED <<roles, grants, instructors, profiles, objects>>
    BY DEF UpdateUser
<1>2. TablesType /\ TablesOK BY Types DEF AccountsInv
<1>3. v \notin users \ {u} BY <1>2 DEF TablesOK
<1>4. IsFiniteSet(users') /\ Cardinality(users') = Cardinality(users)
    <2>1. IsFiniteSet(users) /\ Cardinality(users) \in Nat
        BY <1>2, FS_CardinalityType DEF TablesOK
    <2>2. IsFiniteSet(users \ {u}) /\ Cardinality(users \ {u}) = Cardinality(users) - 1
        BY <2>1, FS_RemoveElement
    <2>3. /\ IsFiniteSet((users \ {u}) \cup {v})
          /\ Cardinality((users \ {u}) \cup {v}) = Cardinality(users \ {u}) + 1
        BY <1>3, <2>2, FS_AddElement
    <2> QED BY <1>1, <2>1, <2>2, <2>3
<1>5. Grow BY <1>1 DEF Grow
<1>6. UserIds \subseteq UserIds' BY <1>5, IdsStay
<1>7. TablesType'
    <2>1. users' \subseteq User BY <1>1, <1>2 DEF TablesType
    <2>2. \A w \in users' : w.id \in 1 .. Cardinality(users')
        BY <1>1, <1>2, <1>4 DEF TablesType
    <2> QED BY <1>1, <1>2, <1>6, <2>1, <2>2 DEF TablesType
<1>8. TablesOK'
    <2>1. AvatarIsStored' BY <1>1, <1>2 DEF TablesOK, AvatarIsStored
    <2> QED BY <1>1, <1>2, <1>4, <2>1 DEF TablesOK
<1> QED BY <1>5, <1>7, <1>8

\* A new profile of a user who has none.
LEMMA ProfileAdded ==
    ASSUME AccountsInv, NEW r \in Requests, ~NoRoom(r),
           NEW name \in Requests \cup {"default"}, NEW avatar \in Files \cup {"none"},
           avatar # "none" => Stored(job[r].user, avatar),
           AddProfile(r, name, avatar), UNCHANGED objects
    PROVE  Grow /\ TablesOK' /\ TablesType' /\ OwnColumns(r)
<1> DEFINE new == [user |-> job[r].user, name |-> name, avatar |-> avatar]
<1>1. profiles' = profiles \cup {new} /\ UNCHANGED <<users, roles, grants, instructors, objects>>
    BY DEF AddProfile, KeepOthers
<1>2. TablesType /\ TablesOK BY Types DEF AccountsInv
<1>3. job[r].user \in UserIds /\ \A p \in profiles : p.user # new.user
    BY DEF NoRoom, HasProfile
<1>4. Grow BY <1>1 DEF Grow
<1>5. UserIds' = UserIds BY <1>1 DEF UserIds
<1>6. TablesType' BY <1>1, <1>2, <1>3, <1>5 DEF TablesType
<1>7. AvatarIsStored' BY <1>1, <1>2 DEF TablesOK, AvatarIsStored, Stored
<1>8. TablesOK' BY <1>1, <1>2, <1>3, <1>7 DEF TablesOK
<1>9. OwnColumns(r) BY <1>1, <1>2, <1>3 DEF TablesOK, OwnColumns
<1> QED BY <1>4, <1>6, <1>8, <1>9

\* A profile keeps the columns that the request is not about.
LEMMA ProfileSet ==
    ASSUME AccountsInv, NEW r \in Requests, NEW p \in profiles,
           NEW q \in [user : UserIds, name : Requests \cup {"default"},
                      avatar : Files \cup {"none"}],
           q.user = p.user,
           q.name # p.name => job[r].op = "update_profile" /\ q.name = r,
           q.avatar # p.avatar => /\ job[r].op = "upload_avatar" /\ job[r].user = p.user
                                  /\ job[r].file = q.avatar /\ Stored(q.user, q.avatar),
           SetProfile(p, q), UNCHANGED objects
    PROVE  Grow /\ TablesOK' /\ TablesType' /\ OwnColumns(r)
<1>1. profiles' = (profiles \ {p}) \cup {q} /\ UNCHANGED <<users, roles, grants, instructors, objects>>
    BY DEF SetProfile, KeepOthers
<1>2. TablesType /\ TablesOK BY Types DEF AccountsInv
<1>3. Grow BY <1>1 DEF Grow
<1>4. UserIds' = UserIds BY <1>1 DEF UserIds
<1>5. TablesType' BY <1>1, <1>2, <1>4 DEF TablesType
<1>6. AvatarIsStored' BY <1>1, <1>2 DEF TablesOK, AvatarIsStored, Stored
<1>7. TablesOK' BY <1>1, <1>2, <1>6 DEF TablesOK
<1>8. OwnColumns(r) BY <1>1, <1>2 DEF TablesOK, OwnColumns
<1> QED BY <1>3, <1>5, <1>7, <1>8

-----------------------------------------------------------------------------
(* The steps.                                                              *)

\* Who has entered is not deactivated, or was not on arrival.
LEMMA Entered ==
    ASSUME AccountsInv, NEW r \in Requests, pc[r] \notin {"enter", "authenticate", "done"}
    PROVE  r \notin barred
BY DEF AccountsInv, RequestInv, Stopped

\* Where a request is that moves on, and what has not changed.
LEMMA Moves ==
    ASSUME AccountsInv, NEW r \in Requests, pc[r] \notin {"new", "done"},
           NEW l \in Labels \ {"new", "done"}, Goto(r, l)
    PROVE  /\ pc'[r] = l /\ job' = job /\ answer'[r] = 0
           /\ job[r] \in Jobs' /\ UserIds' = UserIds
           /\ UNCHANGED <<users, roles, grants, instructors, profiles, objects>>
<1>1. RequestInv(r) /\ TypeOK BY DEF AccountsInv
<1>2. UserIds' = UserIds /\ Jobs' = Jobs BY Quiet DEF Goto
<1> QED BY <1>1, <1>2 DEF Goto, RequestInv, Fits, TypeOK, tables

\* A request that moves on as it is.
LEMMA MoveGood ==
    ASSUME AccountsInv, NEW r \in Requests, pc[r] \notin {"new", "done"}, r \notin barred,
           NEW l \in Labels \ {"new", "done"}, Goto(r, l), UNCHANGED <<me, lacks>>,
           Fits(r)', Knows(r)'
    PROVE  Good(r)
<1>1. TypeOK BY DEF AccountsInv
<1>2. PICK m \in User \cup {NoUser} : m = me[r] BY <1>1 DEF TypeOK
<1>3. PICK b \in BOOLEAN : b = lacks[r] BY <1>1 DEF TypeOK
<1>4. me' = [me EXCEPT ![r] = m] /\ lacks' = [lacks EXCEPT ![r] = b]
    BY <1>1, <1>2, <1>3 DEF TypeOK
<1> QED BY <1>4, GotoGood

\* A request arrives.
LEMMA ArriveGood ==
    ASSUME AccountsInv, NEW r \in Requests, Arrive(r)
    PROVE  Good(r)
<1>1. RequestInv(r) /\ TypeOK /\ TablesOK /\ pc[r] = "new" BY DEF AccountsInv, Arrive
<1>2. PICK j \in Jobs :
          /\ job' = [job EXCEPT ![r] = j]
          /\ pc' = [pc EXCEPT ![r] = Entry(j.op)]
          /\ barred' = IF \E id \in ActsAs(j) : ~UserRow(id).active
                       THEN barred \cup {r} ELSE barred
          /\ UNCHANGED <<tables, objects, me, lacks, answer>>
    BY DEF Arrive
<1>3. job'[r] = j /\ pc'[r] = Entry(j.op) BY <1>1, <1>2 DEF TypeOK
<1>4. /\ Grow /\ TablesOK' /\ TablesType' /\ UserIds' = UserIds /\ Jobs' = Jobs
      /\ OwnColumns(r)
    BY <1>2, Quiet
<1>5. j.op \in AllOps BY JobTypes
<1>6. Entry(j.op) \in Labels BY <1>5 DEF Entry, AllOps, Guarded, Labels
<1>7. TypeOK'
    <2>1. RequestsType BY <1>1, Types
    <2>2. RequestsType' BY <1>2, <1>4, <1>6, <2>1 DEF RequestsType
    <2> QED BY <1>4, <2>2, Types, PTL
<1>8. Untouched(r) BY <1>1, <1>2 DEF Untouched, TypeOK
<1>9. answer[r] = 0 /\ answer'[r] = 0 BY <1>1, <1>2 DEF RequestInv, Fits
<1>10. Fits(r)' BY <1>3, <1>4, <1>5, <1>9 DEF Fits, Entry, AllOps, Guarded
<1>11. Knows(r)' BY <1>3, <1>5 DEF Knows, Entry, AllOps, Guarded
<1>12. Outcome(r)' BY <1>9 DEF Outcome
<1>13. Stopped(r)'
    <2>1. r \notin barred BY <1>1 DEF RequestInv, Stopped
    <2>2. SUFFICES ASSUME NEW id \in ActsAs(j), ~UserRow(id).active
                   PROVE  /\ Entry(j.op) \in {"enter", "authenticate"}
                          /\ Inactive(j)'
        BY <1>2, <1>3, <1>9, <2>1 DEF Stopped, Inactive
    <2>3. Inactive(j)
        <3>1. CASE j.op = "login"
            <4>1. PICK v \in users : v.email = j.email /\ v.id = id
                BY <3>1 DEF ActsAs
            <4>2. UserRow(id) \in users /\ UserRow(id).id = id
                BY <4>1, UserRowIs DEF UserIds
            <4> QED BY <1>1, <2>2, <3>1, <4>1, <4>2 DEF Inactive, TablesOK
        <3>2. CASE j.op # "login"
            <4>1. j.user = id /\ id \in UserIds BY <3>2, JobTypes DEF ActsAs, Guarded
            <4> QED BY <2>2, <3>2, <4>1, UserRowIs DEF Inactive
        <3> QED BY <3>1, <3>2
    <2>4. Inactive(j)' BY <1>4, <2>3, InactiveStays
    <2>5. j.op \in Guarded \cup {"login", "refresh"} BY <2>2 DEF ActsAs
    <2> QED BY <2>4, <2>5 DEF Entry, Guarded
<1>14. Wins(r) BY <1>9 DEF Wins
<1> QED BY <1>4, <1>7, <1>8, <1>10, <1>11, <1>12, <1>13, <1>14 DEF Good, RequestInv

\* The SELECT before an INSERT: a conflict has its cause.
LEMMA CheckGood ==
    ASSUME AccountsInv, NEW r \in Requests, pc[r] \notin {"new", "done"}, r \notin barred,
           NEW taken, NEW l \in Labels \ {"new", "done"}, Check(r, taken, l),
           taken => Cause(job[r]),
           Goto(r, l) => Fits(r)' /\ Knows(r)'
    PROVE  Good(r)
<1>1. CASE taken /\ Refuse(r, 409) BY <1>1, RefuseGood DEF Codes
<1>2. CASE Goto(r, l) /\ UNCHANGED <<me, lacks>> BY <1>2, MoveGood
<1> QED BY <1>1, <1>2 DEF Check

\* Registration: the email, the name, the INSERT.
LEMMA RegisterGood ==
    ASSUME AccountsInv, NEW r \in Requests,
           RegisterEmail(r) \/ RegisterName(r) \/ Register(r)
    PROVE  Good(r)
<1>1. /\ pc[r] \in {"email", "name", "register"} /\ job[r].op = "register"
      /\ job[r] \in Jobs /\ r \notin barred
    BY Entered DEF RegisterEmail, RegisterName, Register, AccountsInv, RequestInv, Fits
<1>2. EmailTaken(job[r]) \/ NameTaken(job[r]) => Cause(job[r]) BY <1>1 DEF Cause
<1>3. CASE RegisterEmail(r)
    <2>1. Goto(r, "name") => Fits(r)' /\ Knows(r)'
        BY <1>1, Moves DEF Fits, Knows, Labels
    <2> QED BY <1>1, <1>2, <1>3, <2>1, CheckGood DEF RegisterEmail, Labels
<1>4. CASE RegisterName(r)
    <2>1. Goto(r, "register") => Fits(r)' /\ Knows(r)'
        BY <1>1, Moves DEF Fits, Knows, Labels
    <2> QED BY <1>1, <1>2, <1>4, <2>1, CheckGood DEF RegisterName, Labels
<1>5. CASE Register(r)
    <2>1. CASE (EmailTaken(job[r]) \/ NameTaken(job[r])) /\ Refuse(r, 500)
        BY <1>1, <1>2, <2>1, RefuseGood DEF Codes
    <2>2. CASE /\ ~(EmailTaken(job[r]) \/ NameTaken(job[r]))
               /\ AddUser(job[r]) /\ Answer(r, 200)
        <3>1. PICK j \in Jobs : j = job[r] BY <1>1
        <3>2. UNCHANGED objects /\ job' = job BY <2>2 DEF Answer
        <3>3. Grow /\ TablesOK' /\ TablesType' /\ Made(j)'
            BY <1>1, <2>2, <3>1, <3>2, UserAdded
        <3>4. Made(job[r])' BY <3>1, <3>2, <3>3
        <3>5. OwnColumns(r) BY <2>2, ProfilesKept DEF AddUser
        <3>6. Wins(r) BY <1>1, <2>2, <3>2 DEF Wins
        <3> QED BY <1>1, <2>2, <3>3, <3>4, <3>5, <3>6, WriteGood
    <2> QED BY <1>5, <2>1, <2>2 DEF Register, Insert
<1> QED BY <1>3, <1>4, <1>5

\* A password or a refresh token: a deactivated user gets in with neither.
LEMMA EnterGood ==
    ASSUME AccountsInv, NEW r \in Requests, Login(r) \/ Refresh(r)
    PROVE  Good(r)
<1>1. RequestInv(r) /\ TablesOK /\ pc[r] = "enter" BY DEF AccountsInv, Login, Refresh
<1>2. job[r] \in Jobs /\ job[r].op \in {"login", "refresh"} BY <1>1 DEF RequestInv, Fits
<1>3. CASE Login(r)
    <2>1. CASE Refuse(r, 401) BY <1>1, <2>1, RefuseGood DEF Codes
    <2>2. CASE \E u \in users : /\ u.email = job[r].email /\ u.hash = job[r].password
                                /\ Refuse(r, IF u.active THEN 200 ELSE 403)
        <3>1. PICK u \in users : /\ u.email = job[r].email
                                 /\ Refuse(r, IF u.active THEN 200 ELSE 403)
            BY <2>2
        <3>2. CASE u.active
            <4>1. r \notin barred
                <5>1. SUFFICES ASSUME r \in barred PROVE FALSE OBVIOUS
                <5>2. PICK v \in users : ~v.active /\ v.email = job[r].email
                    BY <1>1, <1>3, <5>1 DEF Login, RequestInv, Stopped, Inactive
                <5> QED BY <1>1, <3>1, <3>2, <5>2 DEF TablesOK
            <4> QED BY <1>1, <1>3, <3>1, <3>2, <4>1, RefuseGood DEF Codes, Contests, Login
        <3>3. CASE ~u.active BY <1>1, <3>1, <3>3, RefuseGood DEF Codes
        <3> QED BY <3>2, <3>3
    <2> QED BY <1>3, <2>1, <2>2 DEF Login
<1>4. CASE Refresh(r)
    <2>1. CASE Refuse(r, 401) BY <1>1, <2>1, RefuseGood DEF Codes
    <2>2. CASE UserRow(job[r].user).active /\ Refuse(r, 200)
        <3>1. job[r].user \in UserIds BY <1>2, <1>4, JobTypes DEF Refresh
        <3>2. UserRow(job[r].user) \in users /\ UserRow(job[r].user).id = job[r].user
            BY <3>1, UserRowIs
        <3>3. r \notin barred
            <4>1. SUFFICES ASSUME r \in barred PROVE FALSE OBVIOUS
            <4>2. PICK v \in users : ~v.active /\ v.id = job[r].user
                BY <1>1, <1>4, <4>1 DEF Refresh, RequestInv, Stopped, Inactive
            <4> QED BY <1>1, <2>2, <3>2, <4>2 DEF TablesOK
        <3> QED BY <1>1, <1>4, <2>2, <3>3, RefuseGood DEF Codes, Contests, Refresh
    <2> QED BY <1>4, <2>1, <2>2 DEF Refresh
<1> QED BY <1>3, <1>4

\* An access token, and what get_current_user has loaded.
LEMMA AuthenticateGood ==
    ASSUME AccountsInv, NEW r \in Requests, Authenticate(r)
    PROVE  Good(r)
<1>1. RequestInv(r) /\ TypeOK /\ TablesOK /\ pc[r] = "authenticate"
    BY DEF AccountsInv, Authenticate, EnterIf
<1>2. job[r] \in Jobs /\ job[r].op \in Guarded BY <1>1 DEF RequestInv, Fits
<1>3. job[r].user \in UserIds BY <1>2, JobTypes DEF Guarded
<1>4. UserRow(job[r].user) \in users /\ UserRow(job[r].user).id = job[r].user
    BY <1>3, UserRowIs
<1>5. UserRow(job[r].user).active => r \notin barred
    <2>1. SUFFICES ASSUME r \in barred, UserRow(job[r].user).active PROVE FALSE OBVIOUS
    <2>2. PICK v \in users : ~v.active /\ v.id = job[r].user
        BY <1>1, <1>2, <2>1 DEF RequestInv, Stopped, Inactive, Guarded
    <2> QED BY <1>1, <1>4, <2>1, <2>2 DEF TablesOK
<1>6. CASE Refuse(r, 401) \/ Refuse(r, 403) BY <1>1, <1>6, RefuseGood DEF Codes
<1>7. CASE UserRow(job[r].user).active /\ job[r].op = "me" /\ Refuse(r, 200)
    BY <1>1, <1>5, <1>7, RefuseGood DEF Codes, Contests
<1>8. CASE /\ UserRow(job[r].user).active /\ job[r].op # "me"
           /\ me' = [me EXCEPT ![r] = UserRow(job[r].user)]
           /\ Goto(r, Handler(job[r].op)) /\ UNCHANGED lacks
    <2>1. PICK u \in users : u = UserRow(job[r].user) BY <1>4
    <2>2. PICK b \in BOOLEAN : b = lacks[r] BY <1>1 DEF TypeOK
    <2>3. lacks' = [lacks EXCEPT ![r] = b] BY <1>1, <1>8, <2>2 DEF TypeOK
    <2>4. PICK l : l = Handler(job[r].op) OBVIOUS
    <2>5. /\ l \in {"change", "admin", "profile"}
          /\ l = "change" => job[r].op = "change_password"
          /\ l = "admin" => job[r].op = "deactivate"
          /\ l = "profile" => job[r].op \in {"update_profile", "upload_avatar"}
        BY <1>2, <1>8, <2>4 DEF Guarded, Handler
    <2>6. l \in Labels \ {"new", "done"} BY <2>5 DEF Labels
    <2>7. /\ pc'[r] = l /\ job' = job /\ answer'[r] = 0 /\ job[r] \in Jobs'
          /\ UserIds' = UserIds
        BY <1>1, <1>8, <2>4, <2>6, Moves
    <2>8. Fits(r)' BY <2>5, <2>7 DEF Fits
    <2>9. u \in User /\ u.id \in UserIds BY <1>1 DEF TypeOK, UserIds
    <2>10. me'[r] = u BY <1>1, <1>8, <2>1 DEF TypeOK
    <2>11. Knows(r)' BY <2>5, <2>7, <2>9, <2>10 DEF Knows
    <2> QED BY <1>1, <1>5, <1>8, <2>1, <2>3, <2>4, <2>6, <2>8, <2>9, <2>11, GotoGood
<1> QED BY <1>6, <1>7, <1>8 DEF Authenticate, EnterIf

\* The admin, and whom the admin deactivates.
LEMMA DeactivateGood ==
    ASSUME AccountsInv, NEW r \in Requests,
           RequireAdmin(r) \/ FindTarget(r) \/ Deactivate(r)
    PROVE  Good(r)
<1>1. RequestInv(r) /\ pc[r] \in {"admin", "find_target", "deactivate"} /\ r \notin barred
    BY Entered DEF AccountsInv, RequireAdmin, FindTarget, Deactivate
<1>2. /\ job[r] \in Jobs /\ job[r].op = "deactivate"
      /\ me[r] \in User /\ me[r].id \in UserIds
    BY <1>1 DEF RequestInv, Fits, Knows
<1>3. CASE RequireAdmin(r)
    <2>1. CASE Refuse(r, 403) BY <1>1, <2>1, RefuseGood DEF Codes
    <2>2. CASE Goto(r, "find_target") /\ UNCHANGED <<me, lacks>>
        <3>1. "find_target" \in Labels \ {"new", "done"} BY DEF Labels
        <3>2. Fits(r)' /\ Knows(r)' BY <1>1, <1>2, <2>2, <3>1, Moves DEF Fits, Knows
        <3> QED BY <1>1, <2>2, <3>1, <3>2, MoveGood
    <2> QED BY <1>3, <2>1, <2>2 DEF RequireAdmin
<1>4. CASE FindTarget(r)
    <2>1. CASE Refuse(r, 404) BY <1>1, <2>1, RefuseGood DEF Codes
    <2>2. CASE job[r].target \in UserIds /\ Goto(r, "deactivate") /\ UNCHANGED <<me, lacks>>
        <3>1. "deactivate" \in Labels \ {"new", "done"} BY DEF Labels
        <3>2. Fits(r)' /\ Knows(r)' BY <1>1, <1>2, <2>2, <3>1, Moves DEF Fits, Knows
        <3> QED BY <1>1, <2>2, <3>1, <3>2, MoveGood
    <2> QED BY <1>4, <2>1, <2>2 DEF FindTarget
<1>5. CASE Deactivate(r)
    <2>1. pc[r] = "deactivate" BY <1>5 DEF Deactivate
    <2>2. job[r].target \in UserIds BY <1>1, <2>1 DEF RequestInv, Knows
    <2>3. PICK u \in users : u = UserRow(job[r].target) BY <2>2, UserRowIs
    <2>4. UpdateUser(u, [u EXCEPT !.active = FALSE]) /\ Answer(r, 200)
        BY <1>5, <2>3 DEF Deactivate
    <2>5. u \in User BY DEF AccountsInv, TypeOK
    <2>6. PICK v : v = [u EXCEPT !.active = FALSE] OBVIOUS
    <2> v \in User /\ v.id = u.id /\ v.email = u.email /\ v.name = u.name /\ ~v.active
        BY <2>5, <2>6 DEF User
    <2>7. Grow /\ TablesOK' /\ TablesType' BY <2>4, <2>6, UserUpdated DEF Answer
    <2>8. OwnColumns(r) BY <2>4, ProfilesKept DEF UpdateUser
    <2>9. job' = job BY <2>4 DEF Answer
    <2>10. Wins(r) /\ Made(job[r])' BY <1>2, <2>9 DEF Wins, Made
    <2> QED BY <1>1, <2>4, <2>7, <2>8, <2>10, WriteGood
<1> QED BY <1>3, <1>4, <1>5

\* A new password.
LEMMA ChangeGood ==
    ASSUME AccountsInv, NEW r \in Requests, ChangePassword(r)
    PROVE  Good(r)
<1>1. RequestInv(r) /\ pc[r] = "change" /\ r \notin barred
    BY Entered DEF AccountsInv, ChangePassword
<1>2. /\ job[r] \in Jobs /\ job[r].op = "change_password"
      /\ me[r] \in User /\ me[r].id \in UserIds
    BY <1>1 DEF RequestInv, Fits, Knows
<1>3. CASE Refuse(r, 422) BY <1>1, <1>3, RefuseGood DEF Codes
<1>4. CASE /\ UpdateUser(UserRow(me[r].id), [UserRow(me[r].id) EXCEPT !.hash = job[r].new])
           /\ Answer(r, 200)
    <2>1. PICK u \in users : u = UserRow(me[r].id) BY <1>2, UserRowIs
    <2>2. u \in User /\ job[r].new \in Passwords
        BY <1>2, JobTypes DEF AccountsInv, TypeOK
    <2>3. PICK v : v = [u EXCEPT !.hash = job[r].new] OBVIOUS
    <2> /\ v \in User /\ v.id = u.id /\ v.email = u.email /\ v.name = u.name
        /\ v.active = u.active
        BY <2>2, <2>3 DEF User
    <2>4. UpdateUser(u, v) BY <1>4, <2>1, <2>3
    <2>5. Grow /\ TablesOK' /\ TablesType' BY <1>4, <2>3, <2>4, UserUpdated DEF Answer
    <2>6. OwnColumns(r) BY <2>4, ProfilesKept DEF UpdateUser
    <2>7. job' = job BY <1>4 DEF Answer
    <2>8. Wins(r) /\ Made(job[r])' BY <1>2, <2>7 DEF Wins, Made
    <2> QED BY <1>1, <1>4, <2>5, <2>6, <2>8, WriteGood
<1> QED BY <1>3, <1>4 DEF ChangePassword

\* A new role.
LEMMA CreateRoleGood ==
    ASSUME AccountsInv, NEW r \in Requests, CheckRole(r) \/ CreateRole(r)
    PROVE  Good(r)
<1>1. RequestInv(r) /\ pc[r] \in {"role_name", "create_role"} /\ r \notin barred
    BY Entered DEF AccountsInv, CheckRole, CreateRole
<1>2. job[r] \in Jobs /\ job[r].op = "create_role" BY <1>1 DEF RequestInv, Fits
<1>3. job[r].name \in RoleNames BY <1>2, JobTypes
<1>4. job[r].name \in roles => Cause(job[r]) BY <1>2 DEF Cause
<1>5. CASE CheckRole(r)
    <2>1. "create_role" \in Labels \ {"new", "done"} BY DEF Labels
    <2>2. Goto(r, "create_role") => Fits(r)' /\ Knows(r)'
        BY <1>1, <1>2, <2>1, Moves DEF Fits, Knows
    <2> QED BY <1>1, <1>4, <1>5, <2>1, <2>2, CheckGood DEF CheckRole
<1>6. CASE CreateRole(r)
    <2>1. CASE job[r].name \in roles /\ Refuse(r, 500)
        BY <1>1, <1>4, <2>1, RefuseGood DEF Codes
    <2>2. CASE /\ job[r].name \notin roles /\ roles' = roles \cup {job[r].name}
               /\ UNCHANGED <<users, grants, instructors, profiles>> /\ Answer(r, 200)
        <3>1. UNCHANGED objects /\ job' = job BY <2>2 DEF Answer
        <3>2. TablesType /\ TablesOK BY Types DEF AccountsInv
        <3>3. Grow BY <2>2, <3>1 DEF Grow
        <3>4. UserIds' = UserIds BY <2>2 DEF UserIds
        <3>5. TablesType' BY <1>3, <2>2, <3>1, <3>2, <3>4 DEF TablesType
        <3>6. TablesOK' BY <2>2, <3>1, <3>2 DEF TablesOK, AvatarIsStored
        <3>7. Wins(r) /\ Made(job[r])' BY <1>2, <2>2, <3>1 DEF Wins, Made
        <3> QED BY <1>1, <2>2, <3>3, <3>5, <3>6, <3>7, ProfilesKept, WriteGood
    <2> QED BY <1>6, <2>1, <2>2 DEF CreateRole, Insert
<1> QED BY <1>5, <1>6

\* Who gets a role, or becomes an instructor, exists.
LEMMA FindUserGood ==
    ASSUME AccountsInv, NEW r \in Requests, FindUser(r)
    PROVE  Good(r)
<1>1. RequestInv(r) /\ pc[r] = "find_user" /\ r \notin barred
    BY Entered DEF AccountsInv, FindUser
<1>2. job[r].op \in {"assign_role", "create_instructor"} BY <1>1 DEF RequestInv, Fits
<1>3. CASE Refuse(r, 404) BY <1>1, <1>3, RefuseGood DEF Codes
<1>4. CASE /\ job[r].user \in UserIds
           /\ Goto(r, IF job[r].op = "assign_role" THEN "find_role" ELSE "check_instructor")
           /\ UNCHANGED <<me, lacks>>
    <2>1. PICK l : l = IF job[r].op = "assign_role" THEN "find_role" ELSE "check_instructor"
        OBVIOUS
    <2>2. l \in Labels \ {"new", "done"} BY <2>1 DEF Labels
    <2>3. Fits(r)' /\ Knows(r)' BY <1>1, <1>2, <1>4, <2>1, <2>2, Moves DEF Fits, Knows
    <2> QED BY <1>1, <1>4, <2>1, <2>2, <2>3, MoveGood
<1> QED BY <1>3, <1>4 DEF FindUser

\* A role for a user who does not have it.
LEMMA AssignGood ==
    ASSUME AccountsInv, NEW r \in Requests, FindRole(r) \/ ReadRoles(r) \/ AssignRole(r)
    PROVE  Good(r)
<1>1. RequestInv(r) /\ pc[r] \in {"find_role", "read_roles", "assign"} /\ r \notin barred
    BY Entered DEF AccountsInv, FindRole, ReadRoles, AssignRole
<1>2. job[r] \in Jobs /\ job[r].op = "assign_role" /\ job[r].user \in UserIds
    BY <1>1 DEF RequestInv, Fits, Knows
<1>3. CASE FindRole(r)
    <2>1. CASE Refuse(r, 404) BY <1>1, <2>1, RefuseGood DEF Codes
    <2>2. CASE job[r].role \in roles /\ Goto(r, "read_roles") /\ UNCHANGED <<me, lacks>>
        <3>1. "read_roles" \in Labels \ {"new", "done"} BY DEF Labels
        <3>2. Fits(r)' /\ Knows(r)' BY <1>1, <1>2, <2>2, <3>1, Moves DEF Fits, Knows
        <3> QED BY <1>1, <2>2, <3>1, <3>2, MoveGood
    <2> QED BY <1>3, <2>1, <2>2 DEF FindRole
<1>4. CASE ReadRoles(r)
    <2>1. CASE Refuse(r, 200) BY <1>1, <1>2, <2>1, RefuseGood DEF Codes, Contests
    <2>2. CASE Goto(r, "assign") /\ UNCHANGED <<me, lacks>>
        <3>1. "assign" \in Labels \ {"new", "done"} BY DEF Labels
        <3>2. job[r].role \in roles BY <1>1, <1>4 DEF ReadRoles, RequestInv, Knows
        <3>3. Fits(r)' /\ Knows(r)' BY <1>1, <1>2, <2>2, <3>1, <3>2, Moves DEF Fits, Knows
        <3> QED BY <1>1, <2>2, <3>1, <3>3, MoveGood
    <2> QED BY <1>4, <2>1, <2>2 DEF ReadRoles
<1>5. CASE AssignRole(r)
    <2>1. CASE Grant(job[r]) \in grants /\ Refuse(r, 500)
        <3>1. Cause(job[r]) BY <1>2, <2>1 DEF Cause
        <3> QED BY <1>1, <2>1, <3>1, RefuseGood DEF Codes
    <2>2. CASE /\ grants' = grants \cup {Grant(job[r])}
               /\ UNCHANGED <<users, roles, instructors, profiles>> /\ Answer(r, 200)
        <3>1. UNCHANGED objects /\ job' = job BY <2>2 DEF Answer
        <3>2. TablesType /\ TablesOK BY Types DEF AccountsInv
        <3>3. Grow BY <2>2, <3>1 DEF Grow
        <3>4. UserIds' = UserIds BY <2>2 DEF UserIds
        <3>5. Grant(job[r]) \in UserIds \X roles
            BY <1>1, <1>2, <1>5 DEF AssignRole, RequestInv, Knows, Grant
        <3>6. TablesType' BY <2>2, <3>1, <3>2, <3>4, <3>5 DEF TablesType
        <3>7. TablesOK' BY <2>2, <3>1, <3>2 DEF TablesOK, AvatarIsStored
        <3>8. Wins(r) /\ Made(job[r])' BY <1>2, <3>1 DEF Wins, Made
        <3> QED BY <1>1, <2>2, <3>3, <3>6, <3>7, <3>8, ProfilesKept, WriteGood
    <2> QED BY <1>5, <2>1, <2>2 DEF AssignRole, Insert
<1> QED BY <1>3, <1>4, <1>5

\* A new instructor.
LEMMA InstructorGood ==
    ASSUME AccountsInv, NEW r \in Requests, CheckInstructor(r) \/ CreateInstructor(r)
    PROVE  Good(r)
<1>1. RequestInv(r) /\ pc[r] \in {"check_instructor", "create_instructor"} /\ r \notin barred
    BY Entered DEF AccountsInv, CheckInstructor, CreateInstructor
<1>2. job[r].op = "create_instructor" /\ job[r].user \in UserIds
    BY <1>1 DEF RequestInv, Fits, Knows
<1>3. job[r].user \in instructors => Cause(job[r]) BY <1>2 DEF Cause
<1>4. CASE CheckInstructor(r)
    <2>1. "create_instructor" \in Labels \ {"new", "done"} BY DEF Labels
    <2>2. Goto(r, "create_instructor") => Fits(r)' /\ Knows(r)'
        BY <1>1, <1>2, <2>1, Moves DEF Fits, Knows
    <2> QED BY <1>1, <1>3, <1>4, <2>1, <2>2, CheckGood DEF CheckInstructor
<1>5. CASE CreateInstructor(r)
    <2>1. CASE job[r].user \in instructors /\ Refuse(r, 500)
        BY <1>1, <1>3, <2>1, RefuseGood DEF Codes
    <2>2. CASE /\ job[r].user \notin instructors /\ instructors' = instructors \cup {job[r].user}
               /\ UNCHANGED <<users, roles, grants, profiles>> /\ Answer(r, 200)
        <3>1. UNCHANGED objects /\ job' = job BY <2>2 DEF Answer
        <3>2. TablesType /\ TablesOK BY Types DEF AccountsInv
        <3>3. Grow BY <2>2, <3>1 DEF Grow
        <3>4. UserIds' = UserIds BY <2>2 DEF UserIds
        <3>5. TablesType' BY <1>2, <2>2, <3>1, <3>2, <3>4 DEF TablesType
        <3>6. TablesOK' BY <2>2, <3>1, <3>2 DEF TablesOK, AvatarIsStored
        <3>7. Wins(r) /\ Made(job[r])' BY <1>2, <2>2, <3>1 DEF Wins, Made
        <3> QED BY <1>1, <2>2, <3>3, <3>5, <3>6, <3>7, ProfilesKept, WriteGood
    <2> QED BY <1>5, <2>1, <2>2 DEF CreateInstructor, Insert
<1> QED BY <1>4, <1>5

\* The SELECT of a profile: what is written next depends on what it found.
LEMMA FindProfileGood ==
    ASSUME AccountsInv, NEW r \in Requests, FindProfile(r)
    PROVE  Good(r)
<1>1. RequestInv(r) /\ TypeOK /\ pc[r] = "profile" /\ r \notin barred
    BY Entered DEF AccountsInv, FindProfile
<1>2. job[r].op \in {"get_profile", "update_profile", "upload_avatar"}
    BY <1>1 DEF RequestInv, Fits
<1>3. CASE job[r].op = "get_profile" /\ Refuse(r, 200)
    BY <1>1, <1>3, RefuseGood DEF Codes, Contests
<1>4. CASE /\ lacks' = [lacks EXCEPT ![r] = ~HasProfile(job[r].user)]
           /\ Goto(r, job[r].op) /\ UNCHANGED me
    <2>1. PICK l : l = job[r].op OBVIOUS
    <2>2. l \in Labels \ {"new", "done"} BY <1>2, <2>1 DEF Labels
    <2>3. PICK b \in BOOLEAN : b = ~HasProfile(job[r].user) OBVIOUS
    <2>4. PICK m \in User \cup {NoUser} : m = me[r] BY <1>1 DEF TypeOK
    <2>5. me' = [me EXCEPT ![r] = m] /\ lacks' = [lacks EXCEPT ![r] = b]
        BY <1>1, <1>4, <2>3, <2>4 DEF TypeOK
    <2>6. /\ pc'[r] = l /\ job' = job /\ answer'[r] = 0 /\ job[r] \in Jobs'
          /\ UNCHANGED profiles
        BY <1>1, <1>4, <2>1, <2>2, Moves
    <2>7. Fits(r)' BY <1>2, <2>1, <2>6 DEF Fits
    <2>8. ~lacks'[r] => HasProfile(job[r].user)
        <3>1. lacks \in [Requests -> BOOLEAN] BY <1>1 DEF TypeOK
        <3>2. lacks'[r] = b BY <2>5, <3>1
        <3> QED BY <2>3, <3>2
    <2>9. Knows(r)'
        <3>1. HasProfile(job[r].user) => HasProfile(job[r].user)' BY <2>6 DEF HasProfile
        <3> QED BY <1>2, <2>1, <2>6, <2>8, <3>1 DEF Knows
    <2> QED BY <1>1, <1>4, <2>1, <2>2, <2>5, <2>7, <2>9, GotoGood
<1> QED BY <1>3, <1>4 DEF FindProfile

\* The profile that is made up for who has none.
LEMMA NewProfileGood ==
    ASSUME AccountsInv, NEW r \in Requests, NewProfile(r)
    PROVE  Good(r)
<1>1. RequestInv(r) /\ pc[r] = "get_profile" /\ r \notin barred
    BY Entered DEF AccountsInv, NewProfile
<1>2. job[r].op = "get_profile" BY <1>1 DEF RequestInv, Fits
<1>3. CASE NoRoom(r) /\ Refuse(r, 500)
    <2>1. Cause(job[r]) BY <1>2, <1>3 DEF NoRoom, Cause
    <2> QED BY <1>1, <1>3, <2>1, RefuseGood DEF Codes
<1>4. CASE ~NoRoom(r) /\ AddProfile(r, "default", "none") /\ Answer(r, 200)
    <2>1. Grow /\ TablesOK' /\ TablesType' /\ OwnColumns(r)
        BY <1>4, ProfileAdded DEF Answer
    <2>2. job' = job BY <1>4 DEF Answer
    <2>3. Wins(r) /\ Made(job[r])' BY <1>2, <2>2 DEF Wins, Made
    <2> QED BY <1>1, <1>4, <2>1, <2>3, WriteGood
<1> QED BY <1>3, <1>4 DEF NewProfile, Insert

\* The name in a profile.
LEMMA UpdateProfileGood ==
    ASSUME AccountsInv, NEW r \in Requests, UpdateProfile(r)
    PROVE  Good(r)
<1>1. RequestInv(r) /\ TypeOK /\ pc[r] = "update_profile" /\ r \notin barred
    BY Entered DEF AccountsInv, UpdateProfile
<1>2. job[r].op = "update_profile" /\ job[r] \in Jobs BY <1>1 DEF RequestInv, Fits
<1>3. job[r].user \in UserIds BY <1>2, JobTypes
<1>4. CASE job[r].sets = "null" /\ Refuse(r, 500)
    <2>1. Cause(job[r]) BY <1>2, <1>4 DEF Cause
    <2> QED BY <1>1, <1>4, <2>1, RefuseGood DEF Codes
<1>5. CASE NoRoom(r) /\ Refuse(r, 500)
    <2>1. Cause(job[r]) BY <1>2, <1>3, <1>5 DEF NoRoom, Cause
    <2> QED BY <1>1, <1>5, <2>1, RefuseGood DEF Codes
<1>6. ASSUME Grow, TablesOK', TablesType', OwnColumns(r), Answer(r, 200) PROVE Good(r)
    <2>1. job' = job BY <1>6 DEF Answer
    <2>2. Wins(r) /\ Made(job[r])' BY <1>2, <2>1 DEF Wins, Made
    <2> QED BY <1>1, <1>6, <2>2, WriteGood
<1>7. CASE /\ ~NoRoom(r) /\ Answer(r, 200)
           /\ AddProfile(r, IF job[r].sets = "name" THEN r ELSE "default", "none")
    <2>1. PICK name \in Requests \cup {"default"} :
              name = IF job[r].sets = "name" THEN r ELSE "default"
        OBVIOUS
    <2>2. AddProfile(r, name, "none") BY <1>7, <2>1
    <2>3. Grow /\ TablesOK' /\ TablesType' /\ OwnColumns(r)
        BY <1>7, <2>2, ProfileAdded DEF Answer
    <2> QED BY <1>6, <1>7, <2>3
<1>8. CASE /\ ~lacks[r] /\ Answer(r, 200)
           /\ SetProfile(ProfileOf(job[r].user),
                         IF job[r].sets = "name" THEN [ProfileOf(job[r].user) EXCEPT !.name = r]
                         ELSE ProfileOf(job[r].user))
    <2>1. HasProfile(job[r].user) BY <1>1, <1>8 DEF RequestInv, Knows
    <2>2. PICK p \in profiles : p = ProfileOf(job[r].user) BY <2>1, ProfileIs
    <2>3. PICK q : q = IF job[r].sets = "name" THEN [p EXCEPT !.name = r] ELSE p OBVIOUS
    <2>4. SetProfile(p, q) BY <1>8, <2>2, <2>3
    <2>5. p \in [user : UserIds, name : Requests \cup {"default"}, avatar : Files \cup {"none"}]
        BY <1>1 DEF TypeOK
    <2>6. /\ q \in [user : UserIds, name : Requests \cup {"default"},
                    avatar : Files \cup {"none"}]
          /\ q.user = p.user /\ q.avatar = p.avatar /\ (q.name # p.name => q.name = r)
        BY <2>3, <2>5
    <2>7. Grow /\ TablesOK' /\ TablesType' /\ OwnColumns(r)
        BY <1>2, <1>8, <2>4, <2>6, ProfileSet DEF Answer
    <2> QED BY <1>6, <1>8, <2>7
<1> QED BY <1>4, <1>5, <1>7, <1>8 DEF UpdateProfile, Insert

\* The file: what others have sent stays, and who goes on to the row has stored it.
LEMMA SendFileGood ==
    ASSUME AccountsInv, NEW r \in Requests, SendFile(r)
    PROVE  Good(r)
<1> DEFINE new   == [user |-> job[r].user, file |-> job[r].file, by |-> r]
           other == {o \in objects : o.user # job[r].user \/ o.file # job[r].file}
           sent  == other \cup {new}
<1>1. /\ pc[r] = "upload_avatar"
      /\ UNCHANGED <<tables, job, me, lacks, barred, answer>>
      /\ \/ objects' = sent /\ pc' = [pc EXCEPT ![r] = "set_avatar"]
         \/ objects' \in {objects, sent} /\ pc' = [pc EXCEPT ![r] = "no_url"]
    BY DEF SendFile
<1>2. /\ RequestInv(r) /\ TypeOK /\ TablesType /\ TablesOK /\ r \notin barred
    BY <1>1, Entered, Types DEF AccountsInv
<1>3. /\ job[r] \in Jobs /\ job[r].op = "upload_avatar" /\ answer[r] = 0
      /\ ~lacks[r] => HasProfile(job[r].user)
    BY <1>1, <1>2 DEF RequestInv, Fits, Knows
<1>4. job[r].user \in UserIds /\ job[r].file \in Files BY <1>3, JobTypes
<1>5. new \in sent /\ new.user = job[r].user /\ new.file = job[r].file OBVIOUS
<1>6. \A o \in objects : \E n \in objects' : n.user = o.user /\ n.file = o.file
    <2>1. \A o \in objects : o \in sent \/ (o.user = new.user /\ o.file = new.file) OBVIOUS
    <2> HIDE DEF new, sent
    <2> QED BY <1>1, <1>5, <2>1
<1>7. objects' \subseteq [user : UserIds, file : Files, by : Requests]
    BY <1>1, <1>2, <1>4 DEF TablesType
<1>8. Grow BY <1>1, <1>6 DEF Grow, tables
<1>9. UserIds' = UserIds /\ Jobs' = Jobs BY <1>1 DEF UserIds, Jobs, tables
<1>10. TablesType' BY <1>1, <1>2, <1>7, <1>9 DEF TablesType, tables
<1>11. TablesOK'
    <2>1. AvatarIsStored' BY <1>1, <1>2, <1>6 DEF TablesOK, AvatarIsStored, tables
    <2> QED BY <1>1, <1>2, <2>1 DEF TablesOK, tables
<1>12. pc'[r] \in {"set_avatar", "no_url"} /\ pc' = [pc EXCEPT ![r] = pc'[r]]
    BY <1>1, <1>2 DEF TypeOK
<1>13. pc'[r] = "set_avatar" => objects' = sent BY <1>1, <1>2 DEF TypeOK
<1> HIDE DEF new, sent
<1>14. TypeOK'
    <2>1. RequestsType BY <1>2, Types
    <2>2. RequestsType' BY <1>1, <1>9, <1>12, <2>1 DEF RequestsType, Labels
    <2> QED BY <1>10, <2>2, Types, PTL
<1>15. Untouched(r) BY <1>1, <1>2, <1>12 DEF Untouched, TypeOK
<1>16. Fits(r)' BY <1>1, <1>3, <1>9, <1>12 DEF Fits
<1>17. Knows(r)'
    <2>1. HasProfile(job[r].user) => HasProfile(job[r].user)' BY <1>1 DEF HasProfile, tables
    <2>2. pc'[r] = "set_avatar" => Stored(job[r].user, job[r].file)'
        BY <1>1, <1>5, <1>13 DEF Stored
    <2> QED BY <1>1, <1>3, <1>12, <2>1, <2>2 DEF Knows
<1>18. Outcome(r)' /\ Stopped(r)' /\ Wins(r) BY <1>1, <1>2, <1>3 DEF Outcome, Stopped, Wins
<1>19. OwnColumns(r) BY <1>1, ProfilesKept DEF AccountsInv, tables
<1> QED BY <1>8, <1>11, <1>14, <1>15, <1>16, <1>17, <1>18, <1>19 DEF Good, RequestInv

\* The avatar, or the answer without one.
LEMMA AvatarGood ==
    ASSUME AccountsInv, NEW r \in Requests, NoUrl(r) \/ SetAvatar(r)
    PROVE  Good(r)
<1>1. RequestInv(r) /\ TypeOK /\ pc[r] \in {"no_url", "set_avatar"} /\ r \notin barred
    BY Entered DEF AccountsInv, NoUrl, SetAvatar
<1>2. job[r].op = "upload_avatar" /\ job[r] \in Jobs BY <1>1 DEF RequestInv, Fits
<1>3. job[r].user \in UserIds /\ job[r].file \in Files BY <1>2, JobTypes
<1>4. Cause(job[r]) BY <1>2 DEF Cause
<1>5. CASE NoUrl(r)
    <2>1. Refuse(r, 500) \/ Refuse(r, 200) BY <1>5 DEF NoUrl
    <2> QED BY <1>1, <1>2, <1>4, <2>1, RefuseGood DEF Codes, Contests
<1>6. CASE SetAvatar(r)
    <2>1. Stored(job[r].user, job[r].file)
        BY <1>1, <1>6 DEF SetAvatar, RequestInv, Knows
    <2>2. PICK avatar \in Files : avatar = job[r].file BY <1>3
    <2>3. ASSUME Grow, TablesOK', TablesType', OwnColumns(r), Answer(r, 200) PROVE Good(r)
        <3>1. job' = job BY <2>3 DEF Answer
        <3>2. Wins(r) /\ Made(job[r])' BY <1>2, <3>1 DEF Wins, Made
        <3> QED BY <1>1, <2>3, <3>2, WriteGood
    <2>4. CASE NoRoom(r) /\ Refuse(r, 500) BY <1>1, <1>4, <2>4, RefuseGood DEF Codes
    <2>5. CASE ~NoRoom(r) /\ AddProfile(r, "default", avatar) /\ Answer(r, 200)
        <3>1. Grow /\ TablesOK' /\ TablesType' /\ OwnColumns(r)
            BY <2>1, <2>2, <2>5, ProfileAdded DEF Answer
        <3> QED BY <2>3, <2>5, <3>1
    <2>6. CASE /\ ~lacks[r] /\ Answer(r, 200)
               /\ SetProfile(ProfileOf(job[r].user),
                             [ProfileOf(job[r].user) EXCEPT !.avatar = avatar])
        <3>1. HasProfile(job[r].user) BY <1>1, <2>6 DEF RequestInv, Knows
        <3>2. PICK p \in profiles : p = ProfileOf(job[r].user) /\ p.user = job[r].user
            BY <3>1, ProfileIs
        <3>3. PICK q : q = [p EXCEPT !.avatar = avatar] OBVIOUS
        <3>4. SetProfile(p, q) BY <2>6, <3>2, <3>3
        <3>5. p \in [user : UserIds, name : Requests \cup {"default"},
                     avatar : Files \cup {"none"}]
            BY <1>1 DEF TypeOK
        <3>6. /\ q \in [user : UserIds, name : Requests \cup {"default"},
                        avatar : Files \cup {"none"}]
              /\ q.user = p.user /\ q.name = p.name /\ q.avatar = avatar
            BY <3>3, <3>5
        <3>7. Grow /\ TablesOK' /\ TablesType' /\ OwnColumns(r)
            BY <1>2, <2>1, <2>2, <2>6, <3>2, <3>4, <3>6, ProfileSet DEF Answer
        <3> QED BY <2>3, <2>6, <3>7
    <2> QED BY <1>6, <2>2, <2>4, <2>5, <2>6 DEF SetAvatar, WriteAvatar, Insert
<1> QED BY <1>5, <1>6

-----------------------------------------------------------------------------
(* The theorems.                                                           *)

\* Every statement of a request is good.
LEMMA StepGood ==
    ASSUME AccountsInv, NEW r \in Requests, Arrive(r) \/ Step(r)
    PROVE  Good(r) /\ pc[r] # "done"
<1>1. CASE Arrive(r) BY <1>1, ArriveGood DEF Arrive
<1>2. CASE RegisterEmail(r) \/ RegisterName(r) \/ Register(r)
    BY <1>2, RegisterGood DEF RegisterEmail, RegisterName, Register
<1>3. CASE Login(r) \/ Refresh(r) BY <1>3, EnterGood DEF Login, Refresh
<1>4. CASE Authenticate(r) BY <1>4, AuthenticateGood DEF Authenticate, EnterIf
<1>5. CASE RequireAdmin(r) \/ FindTarget(r) \/ Deactivate(r)
    BY <1>5, DeactivateGood DEF RequireAdmin, FindTarget, Deactivate
<1>6. CASE ChangePassword(r) BY <1>6, ChangeGood DEF ChangePassword
<1>7. CASE CheckRole(r) \/ CreateRole(r) BY <1>7, CreateRoleGood DEF CheckRole, CreateRole
<1>8. CASE FindUser(r) BY <1>8, FindUserGood DEF FindUser
<1>9. CASE FindRole(r) \/ ReadRoles(r) \/ AssignRole(r)
    BY <1>9, AssignGood DEF FindRole, ReadRoles, AssignRole
<1>10. CASE CheckInstructor(r) \/ CreateInstructor(r)
    BY <1>10, InstructorGood DEF CheckInstructor, CreateInstructor
<1>11. CASE FindProfile(r) BY <1>11, FindProfileGood DEF FindProfile
<1>12. CASE NewProfile(r) BY <1>12, NewProfileGood DEF NewProfile
<1>13. CASE UpdateProfile(r) BY <1>13, UpdateProfileGood DEF UpdateProfile
<1>14. CASE SendFile(r) BY <1>14, SendFileGood DEF SendFile
<1>15. CASE NoUrl(r) \/ SetAvatar(r) BY <1>15, AvatarGood DEF NoUrl, SetAvatar
<1> QED BY <1>1, <1>2, <1>3, <1>4, <1>5, <1>6, <1>7, <1>8, <1>9, <1>10, <1>11, <1>12,
           <1>13, <1>14, <1>15 DEF Step

\* At first there are the seed users, one of them an admin, and no request.
LEMMA InitInv == Init => AccountsInv
<1> SUFFICES ASSUME Init PROVE AccountsInv OBVIOUS
<1> USE DEF Init
<1>1. TypeOK
    <2>1. \A u \in SeedUsers : <<u.id, AdminRole>> \in UserIds \X roles BY DEF UserIds
    <2>2. RequestsType BY DEF RequestsType, Codes, Labels
    <2>3. TablesType BY <2>1, AccountsAssumption DEF TablesType
    <2> QED BY <2>2, <2>3, Types
<1>2. TablesOK BY AccountsAssumption DEF TablesOK, AvatarIsStored
<1>3. OneWinner BY DEF OneWinner
<1>4. ASSUME NEW r \in Requests PROVE RequestInv(r)
    BY DEF RequestInv, Fits, Knows, Outcome, Stopped
<1> QED BY <1>1, <1>2, <1>3, <1>4 DEF AccountsInv

\* The invariant is inductive.
LEMMA NextInv == AccountsInv /\ [Next]_vars => AccountsInv'
<1> SUFFICES ASSUME AccountsInv, [Next]_vars PROVE AccountsInv' OBVIOUS
<1>1. CASE \E r \in Requests : Arrive(r) \/ Step(r)
    <2>1. PICK r \in Requests : Arrive(r) \/ Step(r) BY <1>1
    <2> QED BY <2>1, StepGood, GoodKeeps
<1>2. CASE UNCHANGED vars
    <2>1. UserIds' = UserIds BY <1>2 DEF vars, tables, UserIds
    <2>2. Jobs' = Jobs BY <2>1 DEF Jobs
    <2>3. TypeOK' BY <1>2, <2>1, <2>2 DEF AccountsInv, TypeOK, vars, tables
    <2>4. TablesOK' BY <1>2 DEF AccountsInv, TablesOK, AvatarIsStored, vars, tables
    <2>5. OneWinner' BY <1>2 DEF AccountsInv, OneWinner, vars
    <2>6. ASSUME NEW r \in Requests PROVE RequestInv(r)'
        <3>1. RequestInv(r) BY DEF AccountsInv
        <3>2. Fits(r)' BY <1>2, <2>2, <3>1 DEF RequestInv, Fits, vars
        <3>3. Knows(r)'
            BY <1>2, <2>1, <3>1 DEF RequestInv, Knows, HasProfile, Stored, vars, tables
        <3>4. Outcome(r)'
            BY <1>2, <2>1, <3>1 DEF RequestInv, Outcome, Made, Cause, EmailTaken, NameTaken,
                                    HasProfile, Grant, vars, tables
        <3>5. Stopped(r)' BY <1>2, <3>1 DEF RequestInv, Stopped, Inactive, vars, tables
        <3> QED BY <3>2, <3>3, <3>4, <3>5 DEF RequestInv
    <2> QED BY <2>3, <2>4, <2>5, <2>6 DEF AccountsInv
<1> QED BY <1>1, <1>2 DEF Next, AllAnswered

\* The invariant holds of every behaviour.
LEMMA SpecInv == Spec => []AccountsInv
BY InitInv, NextInv, PTL DEF Spec

\* The variables have their types: grants, instructors and profiles are only of users that
\* exist, and ids are never given twice.
THEOREM TypesHold == Spec => []TypeOK
<1>1. AccountsInv => TypeOK BY DEF AccountsInv
<1> QED BY <1>1, SpecInv, PTL

\* Of the requests that register the same email or name, create the same role or make the
\* same user an instructor, one succeeds at most, although none locks what it has checked.
THEOREM OneSucceeds == Spec => []OneWinner
<1>1. AccountsInv => OneWinner BY DEF AccountsInv
<1> QED BY <1>1, SpecInv, PTL

\* A conflict or a database error is about a row that is there, and stays.
THEOREM RefusalsHaveCause == Spec => []RefusedForCause
<1>1. AccountsInv => RefusedForCause
    BY DEF AccountsInv, RequestInv, Outcome, Cause, RefusedForCause
<1> QED BY <1>1, SpecInv, PTL

\* No request that arrives in the name of a deactivated user succeeds.
THEOREM DeactivatedStayOut == Spec => []InactiveIsRefused
<1>1. AccountsInv => InactiveIsRefused
    BY DEF AccountsInv, TypeOK, RequestInv, Stopped, InactiveIsRefused
<1> QED BY <1>1, SpecInv, PTL

\* The avatar of a profile is in the bucket, whatever fails between S3 and the row.
THEOREM AvatarsAreStored == Spec => []AvatarIsStored
<1>1. AccountsInv => AvatarIsStored BY DEF AccountsInv, TablesOK
<1> QED BY <1>1, SpecInv, PTL

\* No write, of a password or of is_active, activates a user again.
THEOREM NobodyIsActivated == Spec => DeactivationSticks
<1> DEFINE Sticks == \A u \in users, v \in users' : (u.id = v.id /\ ~u.active) => ~v.active
<1>1. AccountsInv /\ [Next]_vars => [Sticks]_vars
    <2> SUFFICES ASSUME AccountsInv, Next PROVE Sticks OBVIOUS
    <2>1. CASE \E r \in Requests : Arrive(r) \/ Step(r)
        <3>1. Grow /\ TablesOK' BY <2>1, StepGood DEF Good
        <3> QED BY <3>1 DEF Grow, TablesOK
    <2>2. CASE UNCHANGED vars BY <2>2 DEF AccountsInv, TablesOK, vars, tables
    <2> QED BY <2>1, <2>2 DEF Next, AllAnswered
<1> QED BY <1>1, SpecInv, PTL DEF Spec, DeactivationSticks

\* Requests that set different columns of a profile do not overwrite each other.
THEOREM ColumnsStay == Spec => ProfileKeepsBoth
<1> DEFINE Keeps ==
        \A p \in profiles, q \in profiles' :
            p.user = q.user =>
               /\ q.name # p.name =>
                     \E r \in Requests : job[r].op = "update_profile" /\ q.name = r
               /\ q.avatar # p.avatar =>
                     \E r \in Requests : /\ job[r].op = "upload_avatar"
                                         /\ job[r].user = p.user /\ job[r].file = q.avatar
<1>1. AccountsInv /\ [Next]_vars => [Keeps]_vars
    <2> SUFFICES ASSUME AccountsInv, Next PROVE Keeps OBVIOUS
    <2>1. CASE \E r \in Requests : Arrive(r) \/ Step(r)
        <3>1. PICK r \in Requests : OwnColumns(r) BY <2>1, StepGood DEF Good
        <3> QED BY <3>1 DEF OwnColumns
    <2>2. CASE UNCHANGED vars BY <2>2 DEF AccountsInv, TablesOK, vars, tables
    <2> QED BY <2>1, <2>2 DEF Next, AllAnswered
<1> QED BY <1>1, SpecInv, PTL DEF Spec, ProfileKeepsBoth
=============================================================================
