-------------------------------- MODULE Cache --------------------------------
(***************************************************************************)
(* The Redis cache in front of the tables: the redis_cache decorator of    *)
(* the services' get_* methods and the clear_cache calls of every method   *)
(* that changes a table.  Each request runs in its own thread; a step is   *)
(* one Redis command, one SQL statement that matters, or one COMMIT.       *)
(*                                                                         *)
(* What the tables hold is abstracted to a version of each row.  Row i of  *)
(* every table belongs to row i of the others: lesson i and enrollment i   *)
(* are of course i, enrollment i and profile i of user i, course i is in   *)
(* category i.  Lists have one page.                                       *)
(***************************************************************************)
EXTENDS Integers, Sequences, FiniteSets

CONSTANTS
    Requests,    \* the requests that arrive
    Ids,         \* ids of rows
    Addresses,   \* where Python may place a service object
    Reads,       \* the cached methods called
    Mutations,   \* the methods called that change a table
    Seed,        \* the rows that exist before the first request
    RedisFails,  \* the Redis commands that may fail: "get", "set", "clear"
    Crashes      \* whether a worker process may die

Tables == {"courses", "categories", "lessons", "instructors", "enrollments", "users",
           "profiles"}

Cells == Tables \X Ids

ASSUME CacheAssumption ==
    /\ Ids \subseteq Nat \ {0}
    /\ Addresses \subseteq Nat \ {0}
    /\ Seed \subseteq Cells
    /\ RedisFails \subseteq {"get", "set", "clear"}
    /\ Crashes \in BOOLEAN

VARIABLES
    cell,    \* the version of each row; 0 before it exists, -1 once deleted
    clock,   \* the number of commits
    cache,   \* the keys in Redis, with the versions the value was made of
    pc,      \* what each request does next
    job,     \* the method each request calls
    loc,     \* its local variables
    answer   \* its response

vars == <<cell, clock, cache, pc, job, loc, answer>>

-----------------------------------------------------------------------------
(* The cached methods: their key, and the table they read.  A "query" key  *)
(* hashes the arguments, self among them; an "entity" key has the id.      *)

Query(m, res, t, all) ==
    [module |-> m, resource |-> res, kind |-> "query", table |-> t, all |-> all]
Entity(m, res, t) ==
    [module |-> m, resource |-> res, kind |-> "entity", table |-> t, all |-> FALSE]

get_courses     == Query("courses", "course", "courses", TRUE)
get_course      == Entity("courses", "course", "courses")
get_categories  == Query("categories", "get_categories", "categories", TRUE)
get_category    == Entity("categories", "single", "categories")
get_lessons_by_course == Query("lessons", "get_lessons_by_course", "lessons", FALSE)
get_lesson      == Entity("lessons", "single", "lessons")
get_instructors == Query("instructors", "get_instructors", "instructors", TRUE)
get_instructor  == Entity("instructors", "single", "instructors")
get_user_enrollments   == Query("enrollments", "get_user_enrollments", "enrollments", FALSE)
get_course_enrollments == Query("enrollments", "get_course_enrollments", "enrollments", FALSE)
get_users        == Query("users", "get_users", "users", TRUE)
get_user_profile == Entity("users", "profile", "profiles")

ReadOf == [get_courses |-> get_courses, get_course |-> get_course,
           get_categories |-> get_categories, get_category |-> get_category,
           get_lessons_by_course |-> get_lessons_by_course, get_lesson |-> get_lesson,
           get_instructors |-> get_instructors, get_instructor |-> get_instructor,
           get_user_enrollments |-> get_user_enrollments,
           get_course_enrollments |-> get_course_enrollments,
           get_users |-> get_users, get_user_profile |-> get_user_profile]

CellsOf(j) == LET rd == ReadOf[j.op]
              IN  {c \in Cells : c[1] = rd.table /\ (rd.all \/ c[2] = j.id)}

\* Mutation: the entity key without the id (the fallback "all").
KeyWithoutId(j, self) ==
    LET rd == ReadOf[j.op]
    IN  [module |-> rd.module, resource |-> rd.resource, kind |-> rd.kind,
         self |-> IF rd.kind = "query" THEN self ELSE 0,
         id |-> IF rd.kind = "query" THEN j.id ELSE 0]

\* args[0] of the hashed arguments is the service: its repr has its address.
Key(j, self) ==
    LET rd == ReadOf[j.op]
    IN  [module |-> rd.module, resource |-> rd.resource, kind |-> rd.kind,
         self |-> IF rd.kind = "query" THEN self ELSE 0,
         id |-> j.id]

-----------------------------------------------------------------------------
(* The patterns given to clear_cache.                                      *)

All(m) == [module |-> m, resource |-> "*", id |-> 0]

OneEntity(m, res, i) == [module |-> m, resource |-> res, id |-> i]

NamedLists(m, res) == [module |-> m, resource |-> res, id |-> 0]

Matches(p, k) == /\ k.module = p.module
                 /\ \/ p.resource = "*"
                    \/ k.resource = p.resource /\ p.id = 0
                    \/ k.resource = p.resource /\ k.kind = "entity" /\ k.id = p.id

-----------------------------------------------------------------------------
(* The methods that change a table: the row they look up first ("none": no *)
(* row), what they do to row i of which tables, the first being the row    *)
(* they return, whether they refresh it after the COMMIT, and the patterns *)
(* they clear then.                                                        *)

Mutation(needs, row, effect, refresh, clears) ==
    [needs |-> needs, row |-> row, effect |-> effect, refresh |-> refresh, clears |-> clears]

create_course(i) == Mutation("none", "courses", [courses |-> "create"], TRUE,
                             <<NamedLists("courses", "get_courses")>>)
update_course(i) == Mutation("courses", "courses", [courses |-> "update"], TRUE,
                             <<All("courses")>>)
delete_course(i) == Mutation("courses", "courses",
                             [courses |-> "delete", lessons |-> "delete",
                              enrollments |-> "delete"], FALSE, <<All("courses")>>)
bulk_update_course_categories(i) ==
    Mutation("none", "courses", [courses |-> "touch"], FALSE, <<All("courses")>>)
bulk_create_courses(i) ==
    Mutation("none", "courses", [courses |-> "create"], FALSE, <<All("courses")>>)

create_category(i) == Mutation("none", "categories", [categories |-> "create"], TRUE, <<>>)
update_category(i) == Mutation("categories", "categories", [categories |-> "update"], TRUE,
                               <<All("courses")>>)
delete_category(i) == Mutation("categories", "categories",
                               [categories |-> "delete", courses |-> "touch"], FALSE,
                               <<All("courses")>>)

create_lesson(i) == Mutation("courses", "lessons", [lessons |-> "create"], TRUE,
                             <<All("courses")>>)
update_lesson(i) == Mutation("lessons", "lessons", [lessons |-> "update"], TRUE,
                             <<All("courses")>>)
delete_lesson(i) == Mutation("lessons", "lessons", [lessons |-> "delete"], FALSE,
                             <<All("courses")>>)

create_instructor(i) == Mutation("users", "instructors", [instructors |-> "create"], TRUE,
                                 <<All("instructors")>>)
update_instructor(i) == Mutation("instructors", "instructors", [instructors |-> "update"],
                                 TRUE, <<All("instructors")>>)

enroll_in_course(i) == Mutation("courses", "enrollments", [enrollments |-> "create"], TRUE,
                                <<OneEntity("courses", "single", i), All("enrollments")>>)
concurrent_enroll(i) == Mutation("courses", "enrollments", [enrollments |-> "create"], FALSE,
                                 <<All("courses")>>)
transfer_enrollment(i) == Mutation("enrollments", "enrollments", [enrollments |-> "put"],
                                   FALSE, <<All("courses")>>)
unenroll(i) == Mutation("enrollments", "enrollments", [enrollments |-> "delete"], FALSE,
                        <<All("courses"), All("enrollments")>>)
update_enrollment(i) == Mutation("enrollments", "enrollments", [enrollments |-> "update"],
                                 TRUE, <<All("enrollments")>>)

create_user(i)     == Mutation("none", "users", [users |-> "create"], TRUE, <<All("users")>>)
deactivate_user(i) == Mutation("users", "users", [users |-> "update"], TRUE, <<All("users")>>)
update_user_profile(i) == Mutation("users", "profiles", [profiles |-> "put"], TRUE,
                                   <<OneEntity("users", "profile", i)>>)
upload_avatar(i)       == Mutation("users", "profiles", [profiles |-> "put"], TRUE,
                                   <<OneEntity("users", "profile", i)>>)

MutationOf(j) ==
    CASE j.op = "create_course"   -> create_course(j.id)
      [] j.op = "update_course"   -> update_course(j.id)
      [] j.op = "delete_course"   -> delete_course(j.id)
      [] j.op = "bulk_update_course_categories" -> bulk_update_course_categories(j.id)
      [] j.op = "bulk_create_courses" -> bulk_create_courses(j.id)
      [] j.op = "create_category" -> create_category(j.id)
      [] j.op = "update_category" -> update_category(j.id)
      [] j.op = "delete_category" -> delete_category(j.id)
      [] j.op = "create_lesson"   -> create_lesson(j.id)
      [] j.op = "update_lesson"   -> update_lesson(j.id)
      [] j.op = "delete_lesson"   -> delete_lesson(j.id)
      [] j.op = "create_instructor" -> create_instructor(j.id)
      [] j.op = "update_instructor" -> update_instructor(j.id)
      [] j.op = "enroll_in_course"  -> enroll_in_course(j.id)
      [] j.op = "concurrent_enroll" -> concurrent_enroll(j.id)
      [] j.op = "transfer_enrollment" -> transfer_enrollment(j.id)
      [] j.op = "unenroll"          -> unenroll(j.id)
      [] j.op = "update_enrollment" -> update_enrollment(j.id)
      [] j.op = "create_user"       -> create_user(j.id)
      [] j.op = "deactivate_user"   -> deactivate_user(j.id)
      [] j.op = "update_user_profile" -> update_user_profile(j.id)
      [] j.op = "upload_avatar"       -> upload_avatar(j.id)

ASSUME MethodsAssumption ==
    /\ Reads \subseteq DOMAIN ReadOf
    /\ Mutations \subseteq
          {"create_course", "update_course", "delete_course", "bulk_update_course_categories",
           "bulk_create_courses", "create_category", "update_category", "delete_category",
           "create_lesson", "update_lesson", "delete_lesson", "create_instructor",
           "update_instructor", "enroll_in_course", "concurrent_enroll",
           "transfer_enrollment", "unenroll", "update_enrollment", "create_user",
           "deactivate_user", "update_user_profile", "upload_avatar"}

Writes(j) == {c \in Cells : c[1] \in DOMAIN MutationOf(j).effect /\ c[2] = j.id}

ReturnedRow(j) == <<MutationOf(j).row, j.id>>

-----------------------------------------------------------------------------
(* Requests.                                                               *)

NoJob == [op |-> "none", id |-> 0]

Idle == [self |-> 0, val |-> <<>>, seen |-> FALSE, todo |-> <<>>, found |-> {}]

NoAnswer == [ok |-> FALSE, val |-> <<>>]

Live(c) == cell[c] > 0

\* What a query shows of the rows C.
Shown(C) == [c \in C |-> IF Live(c) THEN cell[c] ELSE 0]

\* The methods that add a row to a table with an id sequence.
Creating(j) == /\ j.op \in Mutations
               /\ MutationOf(j).row # "enrollments"
               /\ MutationOf(j).effect[MutationOf(j).row] = "create"

\* A list of everything has no id.
ReadJobs == {j \in [op : Reads, id : Ids \cup {0}] : (j.id = 0) = ReadOf[j.op].all}

\* A sequence gives each id once.
MutationJobs ==
    {j \in [op : Mutations, id : Ids] :
        Creating(j) =>
          /\ cell[ReturnedRow(j)] = 0
          /\ \A q \in Requests : (job[q].op \in Mutations /\ Creating(job[q])) =>
                                    ReturnedRow(job[q]) # ReturnedRow(j)}

InUse == {loc[r].self : r \in Requests}

\* A request with a service object of its own.
Arrive(r) ==
    /\ pc[r] = "new"
    /\ \E j \in ReadJobs \cup MutationJobs, a \in Addresses \ InUse :
          /\ job' = [job EXCEPT ![r] = j]
          /\ loc' = [loc EXCEPT ![r].self = a]
          /\ pc' = [pc EXCEPT ![r] = IF j.op \in Reads THEN "get" ELSE "check"]
    /\ UNCHANGED <<cell, clock, cache, answer>>

Reply(r, ok, val) ==
    /\ pc' = [pc EXCEPT ![r] = "done"]
    /\ loc' = [loc EXCEPT ![r] = Idle]
    /\ answer' = [answer EXCEPT ![r] = [ok |-> ok, val |-> val]]
    /\ UNCHANGED job

Goto(r, l) == /\ pc' = [pc EXCEPT ![r] = l]
              /\ UNCHANGED <<job, answer>>

-----------------------------------------------------------------------------
(* redis_cache                                                             *)

MyKey(r) == Key(job[r], loc[r].self)

\* cache_get; an error is a miss.
CacheGet(r) ==
    /\ pc[r] = "get"
    /\ \/ \E e \in cache : e.key = MyKey(r) /\ Reply(r, TRUE, e.val)
       \/ /\ "get" \in RedisFails \/ \A e \in cache : e.key # MyKey(r)
          /\ Goto(r, "query") /\ UNCHANGED loc
    /\ UNCHANGED <<cell, clock, cache>>

\* The method itself.  A row that is not there is a 404, except a profile, which
\* is added.
ReadTable(r) ==
    /\ pc[r] = "query"
    /\ LET missing == ReadOf[job[r].op].kind = "entity" /\ \A c \in CellsOf(job[r]) : ~Live(c)
       IN  \/ missing /\ job[r].op # "get_user_profile" /\ Reply(r, FALSE, <<>>)
           \/ missing /\ job[r].op = "get_user_profile" /\ Goto(r, "insert") /\ UNCHANGED loc
           \/ ~missing /\ loc' = [loc EXCEPT ![r].val = Shown(CellsOf(job[r]))] /\ Goto(r, "set")
    /\ UNCHANGED <<cell, clock, cache>>

\* The default profile of an existing user, unless another request has added one.
\* The refresh reads the row again.
InsertProfile(r) ==
    /\ pc[r] = "insert"
    /\ \/ /\ ~Live(<<"users", job[r].id>>) \/ Live(<<"profiles", job[r].id>>)
          /\ Reply(r, FALSE, <<>>) /\ UNCHANGED <<cell, clock>>
       \/ /\ Live(<<"users", job[r].id>>) /\ ~Live(<<"profiles", job[r].id>>)
          /\ cell' = [cell EXCEPT ![<<"profiles", job[r].id>>] = clock + 1]
          /\ clock' = clock + 1
          /\ Goto(r, "query") /\ UNCHANGED loc
    /\ UNCHANGED cache

\* Mutation: a second value beside the first.
PutBeside(r, expires) ==
    cache \cup {[key |-> MyKey(r), val |-> loc[r].val, expires |-> expires,
                 late |-> loc[r].val # Shown(CellsOf(job[r]))]}

\* "late" is not in the code: it records that a row changed between the query and
\* cache_set.
Put(r, expires) ==
    {e \in cache : e.key # MyKey(r)}
      \cup {[key |-> MyKey(r), val |-> loc[r].val, expires |-> expires,
             late |-> loc[r].val # Shown(CellsOf(job[r]))]}

\* Mutation: SET without a time to live.
CacheSetForever(r) ==
    /\ pc[r] = "set"
    /\ \/ "set" \in RedisFails /\ UNCHANGED cache
       \/ cache' = Put(r, FALSE)
    /\ Reply(r, TRUE, loc[r].val)
    /\ UNCHANGED <<cell, clock>>

CacheSet(r) ==
    /\ pc[r] = "set"
    /\ \/ "set" \in RedisFails /\ UNCHANGED cache
       \/ cache' = Put(r, TRUE)
    /\ Reply(r, TRUE, loc[r].val)
    /\ UNCHANGED <<cell, clock>>

\* The hour is over.
Expire(k) == /\ \E e \in cache : e.key = k /\ e.expires
             /\ cache' = {e \in cache : e.key # k}
             /\ UNCHANGED <<cell, clock, pc, job, loc, answer>>

-----------------------------------------------------------------------------
(* The methods that change a table.  Any of them may be refused (a         *)
(* conflict, a full course, a name that is taken, a foreign key, no answer *)
(* from S3): it changes nothing then.                                      *)

Refused(r) == Reply(r, FALSE, <<>>) /\ UNCHANGED <<cell, clock, cache>>

NeededRowExists(j) == LET t == MutationOf(j).needs
                      IN  t # "none" => Live(<<t, j.id>>)

CheckRow(r) ==
    /\ pc[r] = "check"
    /\ \/ Refused(r)
       \/ /\ NeededRowExists(job[r])
          /\ loc' = [loc EXCEPT ![r].seen = Live(ReturnedRow(job[r]))]
          /\ Goto(r, "commit")
          /\ UNCHANGED <<cell, clock, cache>>

After(effect, v) == CASE effect = "delete" -> IF v > 0 THEN -1 ELSE v
                      [] effect \in {"update", "touch"} -> IF v > 0 THEN clock + 1 ELSE v
                      [] OTHER -> clock + 1

\* The UPDATE finds no row, the INSERT finds one, or the parent row is gone.
Clash(r) ==
    LET m == MutationOf(job[r])
        e == m.effect[m.row]
        present == Live(ReturnedRow(job[r]))
    IN  \/ e = "update" /\ ~present
        \/ e \in {"create", "put"} /\ present /\ ~loc[r].seen
        \/ e = "create" /\ loc[r].seen
        \/ e = "create" /\ ~NeededRowExists(job[r])

Apply(r) == [c \in Cells |-> IF c \in Writes(job[r])
                             THEN After(MutationOf(job[r]).effect[c[1]], cell[c])
                             ELSE cell[c]]

CommitChange(r) ==
    /\ pc[r] = "commit"
    /\ \/ Refused(r)
       \/ /\ ~Clash(r)
          /\ cell' = Apply(r)
          /\ clock' = clock + 1
          /\ loc' = [loc EXCEPT ![r].todo = MutationOf(job[r]).clears]
          /\ Goto(r, IF MutationOf(job[r]).refresh THEN "refresh" ELSE "clear")
          /\ UNCHANGED cache

\* db.refresh raises when the row is gone: nothing is cleared.
RefreshRow(r) ==
    /\ pc[r] = "refresh"
    /\ \/ ~Live(ReturnedRow(job[r])) /\ Reply(r, FALSE, <<>>)
       \/ Live(ReturnedRow(job[r])) /\ Goto(r, "clear") /\ UNCHANGED loc
    /\ UNCHANGED <<cell, clock, cache>>

NextPattern(r) == loc' = [loc EXCEPT ![r].todo = Tail(@), ![r].found = {}]

\* clear_cache: KEYS, then DEL of what was found.
ClearKeys(r) ==
    /\ pc[r] = "clear"
    /\ \/ loc[r].todo = <<>> /\ Reply(r, TRUE, <<>>)
       \/ /\ loc[r].todo # <<>>
          /\ LET found == {k \in {e.key : e \in cache} : Matches(Head(loc[r].todo), k)}
             IN  \/ /\ found = {} \/ "clear" \in RedisFails
                    /\ NextPattern(r) /\ Goto(r, "clear")
                 \/ /\ found # {}
                    /\ loc' = [loc EXCEPT ![r].found = found]
                    /\ Goto(r, "delete")
    /\ UNCHANGED <<cell, clock, cache>>

\* Mutation: DEL of the first key only.
ClearDeleteFirst(r) ==
    /\ pc[r] = "delete"
    /\ cache' = {e \in cache : e.key # CHOOSE k \in loc[r].found : TRUE}
    /\ NextPattern(r)
    /\ Goto(r, "clear")
    /\ UNCHANGED <<cell, clock>>

ClearDelete(r) ==
    /\ pc[r] = "delete"
    /\ \/ "clear" \in RedisFails /\ UNCHANGED cache
       \/ cache' = {e \in cache : e.key \notin loc[r].found}
    /\ NextPattern(r)
    /\ Goto(r, "clear")
    /\ UNCHANGED <<cell, clock>>

-----------------------------------------------------------------------------

\* The process dies.  What is in PostgreSQL and in Redis stays.
Crash(r) == /\ Crashes
            /\ pc[r] \notin {"new", "done"}
            /\ Reply(r, FALSE, <<>>)
            /\ UNCHANGED <<cell, clock, cache>>

Step(r) == \/ CacheGet(r) \/ ReadTable(r) \/ InsertProfile(r) \/ CacheSet(r)
           \/ CheckRow(r) \/ CommitChange(r) \/ RefreshRow(r)
           \/ ClearKeys(r) \/ ClearDelete(r)

AllAnswered == (\A r \in Requests : pc[r] = "done") /\ UNCHANGED vars

Keys == {e.key : e \in cache}

AllKeys == {Key(j, a) : j \in ReadJobs, a \in Addresses}

Init == /\ cell = [c \in Cells |-> IF c \in Seed THEN 1 ELSE 0]
        /\ clock = 1
        /\ cache = {}
        /\ pc = [r \in Requests |-> "new"]
        /\ job = [r \in Requests |-> NoJob]
        /\ loc = [r \in Requests |-> Idle]
        /\ answer = [r \in Requests |-> NoAnswer]

Next == \/ \E r \in Requests : Arrive(r) \/ Step(r) \/ Crash(r)
        \/ \E k \in Keys : Expire(k)
        \/ AllAnswered

Spec == Init /\ [][Next]_vars

\* A thread runs on unless its process dies, and Redis drops what has expired.
Fairness == /\ \A r \in Requests : WF_vars(Step(r))
            /\ \A k \in AllKeys : WF_vars(Expire(k))

FairSpec == Spec /\ Fairness

-----------------------------------------------------------------------------
(* Properties                                                              *)

\* The types of the variables.
TypeOK ==
    /\ cell \in [Cells -> Int] /\ clock \in Nat
    /\ \A e \in cache : /\ e.key \in AllKeys /\ e.expires \in BOOLEAN /\ e.late \in BOOLEAN
                        /\ DOMAIN e.val \subseteq Cells
    /\ \A e, f \in cache : e.key = f.key => e = f
    /\ pc \in [Requests -> {"new", "get", "query", "insert", "set", "check", "commit",
                            "refresh", "clear", "delete", "done"}]
    /\ \A r \in Requests : /\ loc[r].self \in Addresses \cup {0}
                           /\ loc[r].found \subseteq AllKeys
                           /\ answer[r].ok \in BOOLEAN

Stale(e) == e.val # Shown(DOMAIN e.val)

\* q has changed a row the entry e was made of, and may not have cleared it yet.
Clearing(q, e) == /\ job[q].op \in Mutations
                  /\ pc[q] \in {"refresh", "clear", "delete"}
                  /\ Writes(job[q]) \cap DOMAIN e.val # {}

\* Every method called that changes a row the entry e was made of has a pattern
\* for it.
Covered(e) ==
    \A op \in Mutations, i \in Ids :
        LET j == [op |-> op, id |-> i]
        IN  Writes(j) \cap DOMAIN e.val # {} =>
                \E n \in DOMAIN MutationOf(j).clears : Matches(MutationOf(j).clears[n], e.key)

\* While Redis answers and no process dies, an entry that was right when it was
\* stored is wrong only as long as the method that changed the table is still on
\* its way to clear it: a change that is answered leaves no such entry behind,
\* however KEYS, DEL and SETEX of other requests fall in between.
StaleOnlyWhileClearing ==
    \A e \in cache : (Stale(e) /\ ~e.late /\ Covered(e)) => \E q \in Requests : Clearing(q, e)

\* A read is answered with the rows it asked for, from the cache or not: no two
\* questions share a key.
AnswersTheQuestion ==
    \A r \in Requests :
        (pc[r] = "done" /\ answer[r].ok /\ job[r].op \in Reads) =>
            DOMAIN answer[r].val = CellsOf(job[r])

\* A wrong entry goes away, also when Redis has lost the clear_cache, the process
\* has died before it, no pattern matched or the entry was stored late.
StaleEntriesExpire ==
    \A k \in AllKeys : (\E e \in cache : e.key = k /\ Stale(e)) ~>
                          ~(\E e \in cache : e.key = k /\ Stale(e))

-----------------------------------------------------------------------------
(* What the documents say, and the code does not do.                       *)

Answered(r) == pc[r] = "done" /\ answer[r].ok

\* redis_integration.md says that after any change the service clears the cache,
\* create_course that it invalidates the list caches: no entry stored before the
\* change is left when the change is answered.
ChangesInvalidate ==
    \A r \in Requests, e \in cache :
        (/\ Answered(r) /\ job[r].op \in Mutations
         /\ Writes(job[r]) \cap DOMAIN e.val # {}
         /\ \A q \in Requests : ~Clearing(q, e)) => ~Stale(e) \/ e.late
=============================================================================
