----------------------------- MODULE Enrollment -----------------------------
(***************************************************************************)
(* The requests that change the enrollments table or the courses it        *)
(* depends on, each run by its own worker thread with its own database     *)
(* session: CourseService.enroll_in_course, update_course, delete_course   *)
(* and bulk_update_course_categories, AdvancedService.concurrent_enroll    *)
(* and transfer_enrollment, EnrollmentService.unenroll and                 *)
(* update_enrollment.                                                      *)
(*                                                                         *)
(* A step is one SQL statement with the Python code up to the next one.    *)
(* PostgreSQL runs at READ COMMITTED: a plain SELECT sees what is          *)
(* committed when it starts and never waits; SELECT ... FOR UPDATE, UPDATE *)
(* and DELETE wait for the transaction that holds the row.  A write that   *)
(* is followed by COMMIT with no wait in between is one step with it.      *)
(* Uncommitted changes are kept out of the tables: a transaction that      *)
(* waits after a write only holds the rows it will delete (rowLocks).      *)
(***************************************************************************)
EXTENDS Integers, FiniteSets

CONSTANTS
    Users,      \* ids of the rows of users; no endpoint deletes a user
    UserIds,    \* ids a client may send as a user id
    Courses,    \* ids a client may send as a course id
    Caps,       \* values of courses.max_students; the schema bounds none
    Requests,   \* the requests that arrive
    Ops,        \* the endpoints called
    Repeats,    \* how many entries of a bulk list repeat an earlier one
    SeedRows,   \* enrollments that may exist before the first request
    FirstId     \* the next value of the enrollments id sequence

AllOps == {"enroll", "bulk", "transfer", "unenroll", "progress",
           "set_cap", "delete_course", "recategorise"}

Row == [id : Nat, user : Users, course : Courses]

ASSUME EnrollmentAssumption ==
    /\ IsFiniteSet(UserIds) /\ UserIds \subseteq Nat \ {0} /\ Users \subseteq UserIds
    /\ Courses \subseteq Nat \ {0}
    /\ Caps \subseteq Int
    /\ Ops \subseteq AllOps
    /\ Repeats \subseteq Nat
    /\ FirstId \in Nat
    /\ SeedRows \subseteq Row /\ IsFiniteSet(SeedRows)
    /\ \A e \in SeedRows : e.id > 0 /\ e.id < FirstId
    /\ \A e, f \in SeedRows :
          (e.id = f.id \/ (e.user = f.user /\ e.course = f.course)) => e = f

VARIABLES
    live,        \* ids of the rows of courses
    cap,         \* max_students of each course
    rows,        \* the table enrollments
    nextId,      \* the id sequence of enrollments
    courseLocks, \* the course rows each transaction has locked
    rowLocks,    \* the ids of the enrollment rows each transaction has deleted, not committed
    pc,          \* the statement each request runs next
    job,         \* the endpoint and parameters of each request
    loc,         \* what each request remembers between statements
    answer,      \* status code of the response, and the course a 404 names (0: none)
    cleared,     \* the cache patterns each request has cleared
    outbox,      \* the users each request has queued a confirmation mail for
    committed    \* the requests that have committed a change

dbVars   == <<live, cap, rows, nextId>>
lockVars == <<courseLocks, rowLocks>>
endVars  == <<answer, cleared, outbox>>
vars     == <<dbVars, lockVars, pc, job, loc, endVars, committed>>

-----------------------------------------------------------------------------
(* Requests.  "course" is the course enrolled into; a transfer also has     *)
(* the course it moves "from".                                             *)

NoJob == [op |-> "none"]

EnrollJobs        == [op : {"enroll"}, user : Users, course : Courses]
BulkJobs          == {j \in [op : {"bulk"}, ids : SUBSET UserIds, again : Repeats,
                             course : Courses] : j.ids = {} => j.again = 0}
TransferJobs      == [op : {"transfer"}, user : UserIds, from : Courses, course : Courses]
UnenrollJobs(Ids) == [op : {"unenroll"}, user : Users, row : Ids]
ProgressJobs(Ids) == [op : {"progress"}, row : Ids, changes : BOOLEAN]
CapJobs           == [op : {"set_cap"}, course : Courses, cap : Caps]
DeleteJobs        == [op : {"delete_course"}, course : Courses]
RecatJobs         == [op : {"recategorise"}, valid : BOOLEAN]

Jobs(Ids) == EnrollJobs \cup BulkJobs \cup TransferJobs \cup UnenrollJobs(Ids)
             \cup ProgressJobs(Ids) \cup CapJobs \cup DeleteJobs \cup RecatJobs

\* The ids of enrollments a client can have learnt, and one that never existed.
KnownIds == {e.id : e \in rows} \cup {0}

Entry == [enroll |-> "enroll_lock", bulk |-> "bulk_lock", transfer |-> "transfer_lock1",
          unenroll |-> "unenroll_read", progress |-> "progress_read",
          set_cap |-> "cap_read", delete_course |-> "delete_read",
          recategorise |-> "recat_scan"]

EnrollLabels   == {"enroll_lock", "enroll_check", "enroll_count", "enroll_insert",
                   "enroll_refresh", "enroll_reload"}
BulkLabels     == {"bulk_lock", "bulk_count", "bulk_users", "bulk_check", "bulk_insert",
                   "bulk_reload"}
TransferLabels == {"transfer_lock1", "transfer_lock2", "transfer_find", "transfer_check",
                   "transfer_count", "transfer_move", "transfer_reload"}
UnenrollLabels == {"unenroll_read", "unenroll_delete", "unenroll_clear"}
ProgressLabels == {"progress_read", "progress_write", "progress_refresh"}
CapLabels      == {"cap_read", "cap_write", "cap_refresh"}
DeleteLabels   == {"delete_read", "delete_load", "delete_rows", "delete_course",
                   "delete_cascade", "delete_clear"}
RecatLabels    == {"recat_scan", "recat_sweep", "recat_clear"}

Labels == {"new", "done"} \cup EnrollLabels \cup BulkLabels \cup TransferLabels
          \cup UnenrollLabels \cup ProgressLabels \cup CapLabels \cup DeleteLabels
          \cup RecatLabels

-----------------------------------------------------------------------------
(* The tables as a statement sees them.                                    *)

RowsOf(c)    == {e \in rows : e.course = c}
Seated(S, c) == {e \in RowsOf(c) : e.user \in S}
RowIds       == {e.id : e \in rows}
Exists(id)   == id \in RowIds

-----------------------------------------------------------------------------
(* Row locks, and who waits for whom.                                      *)

\* Mutation: the courses are locked in the order of the request.
LockOrderAsSent(j) == <<j.from, j.course>>

\* sorted([from, to])
LockOrder(j) == IF j.from <= j.course THEN <<j.from, j.course>> ELSE <<j.course, j.from>>

LeastOf(S) == {e \in S : \A f \in S : e <= f}

\* The course rows the next statement of r locks.  The UPDATE of recategorise
\* takes them in the order of its scan, which may be any: r waits for one of them.
WantedCourses(r) ==
    CASE pc[r] \in {"enroll_lock", "bulk_lock", "delete_course"} -> {job[r].course}
      [] pc[r] = "transfer_lock1" -> {LockOrder(job[r])[1]}
      [] pc[r] = "transfer_lock2" -> {LockOrder(job[r])[2]}
      [] pc[r] = "cap_write" /\ job[r].cap # loc[r].cap -> {job[r].course}
      [] pc[r] = "recat_sweep" -> loc[r].todo
      [] OTHER -> {}

\* The enrollment rows the next statement of r writes.
WantedRows(r) ==
    CASE pc[r] = "unenroll_delete" -> {job[r].row}
      [] pc[r] = "progress_write" /\ job[r].changes -> {job[r].row}
      [] pc[r] = "transfer_move" -> {loc[r].row}
      [] pc[r] = "delete_rows" -> LeastOf(loc[r].todo)
      [] pc[r] = "delete_cascade" -> {e.id : e \in RowsOf(job[r].course)}
      [] OTHER -> {}

WaitsFor(r, q) == /\ q # r
                  /\ \/ WantedCourses(r) \cap courseLocks[q] # {}
                     \/ WantedRows(r) \cap rowLocks[q] # {}

Unblocked(r) == \A q \in Requests : ~WaitsFor(r, q)

Deadlocked(S) == S # {} /\ \A r \in S : \E q \in S : WaitsFor(r, q)

InCycle(r) == \E S \in SUBSET Requests :
                 /\ r \in S /\ Deadlocked(S)
                 /\ \A T \in SUBSET S : Deadlocked(T) => T = S

-----------------------------------------------------------------------------
(* How a step ends.                                                        *)

\* Mutation: the session is not closed when the request ends.
KeepLocks(r) == UNCHANGED lockVars

Release(r) == /\ courseLocks' = [courseLocks EXCEPT ![r] = {}]
              /\ rowLocks' = [rowLocks EXCEPT ![r] = {}]

\* The response.  What the transaction has not committed is rolled back.
Reply(r, code, missing, patterns, mails) ==
    /\ pc' = [pc EXCEPT ![r] = "done"]
    /\ answer' = [answer EXCEPT ![r] = [code |-> code, missing |-> missing]]
    /\ cleared' = [cleared EXCEPT ![r] = patterns]
    /\ outbox' = [outbox EXCEPT ![r] = mails]
    /\ Release(r)
    /\ UNCHANGED <<dbVars, job, loc, committed>>

Refuse(r, code) == Reply(r, code, 0, {}, {})

NotFound(r, c) == Reply(r, 404, c, {}, {})

\* A statement that changes no table, in the middle of the transaction.
Proceed(r, l) == /\ pc' = [pc EXCEPT ![r] = l]
                 /\ UNCHANGED <<dbVars, rowLocks, job, endVars, committed>>

Read(r, l) == Proceed(r, l) /\ UNCHANGED <<courseLocks, loc>>

\* COMMIT of a change to the tables.
Commit(r, l) == /\ pc' = [pc EXCEPT ![r] = l]
                /\ Release(r)
                /\ committed' = committed \cup {r}
                /\ UNCHANGED <<job, endVars>>

\* COMMIT of a transaction that has changed no row.
CommitNothing(r, l) == /\ pc' = [pc EXCEPT ![r] = l]
                       /\ Release(r)
                       /\ UNCHANGED <<dbVars, job, loc, endVars, committed>>

\* SELECT ... FOR UPDATE of the course row c.  The max_students of the course
\* enrolled into is kept for the capacity check.
LockCourse(r, c, l) ==
    /\ courseLocks' = [courseLocks EXCEPT ![r] = @ \cup ({c} \cap live)]
    /\ loc' = [loc EXCEPT ![r].cap = IF c \in live /\ c = job[r].course THEN cap[c] ELSE @]
    /\ Proceed(r, l)

\* The ids come from the sequence, here in the order of the users.
NewRows(S, c) == {[id |-> nextId + Cardinality({v \in S : v < u}), user |-> u, course |-> c]
                    : u \in S}

\* The INSERTs of a seat in the course of r for each user of S, with the DELETE
\* of the rows gone, and COMMIT.  uq_enrollments_user_id refuses a second seat.
InsertAndCommit(r, S, gone, l) ==
    \/ /\ Seated(S, job[r].course) \ gone # {}
       /\ Refuse(r, 500)
    \/ /\ Seated(S, job[r].course) \subseteq gone
       /\ rows' = (rows \ gone) \cup NewRows(S, job[r].course)
       /\ nextId' = nextId + Cardinality(S)
       /\ loc' = [loc EXCEPT ![r].row = nextId]
       /\ UNCHANGED <<live, cap>>
       /\ Commit(r, l)

-----------------------------------------------------------------------------
(* POST /courses/{id}/enroll                                               *)

\* Mutation: SELECT without FOR UPDATE.
EnrollSelect(r) ==
    /\ pc[r] = "enroll_lock"
    /\ \/ job[r].course \notin live /\ NotFound(r, job[r].course)
       \/ /\ job[r].course \in live
          /\ loc' = [loc EXCEPT ![r].cap = cap[job[r].course]]
          /\ Proceed(r, "enroll_check") /\ UNCHANGED courseLocks

EnrollLock(r) ==
    /\ pc[r] = "enroll_lock"
    /\ Unblocked(r)
    /\ \/ job[r].course \notin live /\ NotFound(r, job[r].course)
       \/ job[r].course \in live /\ LockCourse(r, job[r].course, "enroll_check")

EnrollCheck(r) ==
    /\ pc[r] = "enroll_check"
    /\ \/ Seated({job[r].user}, job[r].course) # {} /\ Refuse(r, 409)
       \/ Seated({job[r].user}, job[r].course) = {} /\ Read(r, "enroll_count")

\* Mutation: one seat too many.
EnrollCountInclusive(r) ==
    /\ pc[r] = "enroll_count"
    /\ \/ Cardinality(RowsOf(job[r].course)) > loc[r].cap /\ Refuse(r, 422)
       \/ Cardinality(RowsOf(job[r].course)) <= loc[r].cap /\ Read(r, "enroll_insert")

EnrollCount(r) ==
    /\ pc[r] = "enroll_count"
    /\ \/ Cardinality(RowsOf(job[r].course)) >= loc[r].cap /\ Refuse(r, 422)
       \/ Cardinality(RowsOf(job[r].course)) < loc[r].cap /\ Read(r, "enroll_insert")

EnrollInsert(r) ==
    /\ pc[r] = "enroll_insert"
    /\ InsertAndCommit(r, {job[r].user}, {}, "enroll_refresh")

\* db.refresh(enrollment) is a new transaction: the row may be gone.
EnrollRefresh(r) ==
    /\ pc[r] = "enroll_refresh"
    /\ \/ ~Exists(loc[r].row) /\ Refuse(r, 500)
       \/ Exists(loc[r].row) /\ Read(r, "enroll_reload")

\* clear_cache, then course.title, expired by the COMMIT, is loaded again.
EnrollReload(r) ==
    /\ pc[r] = "enroll_reload"
    /\ \/ job[r].course \notin live /\ Reply(r, 500, 0, {"enrollments"}, {})
       \/ job[r].course \in live /\ Reply(r, 200, 0, {"enrollments"}, {job[r].user})

-----------------------------------------------------------------------------
(* POST /advanced/concurrent-enroll                                        *)

\* Mutation: SELECT without FOR UPDATE.
BulkSelect(r) ==
    /\ pc[r] = "bulk_lock"
    /\ \/ job[r].course \notin live /\ NotFound(r, job[r].course)
       \/ /\ job[r].course \in live
          /\ loc' = [loc EXCEPT ![r].cap = cap[job[r].course]]
          /\ Proceed(r, "bulk_count") /\ UNCHANGED courseLocks

BulkLock(r) ==
    /\ pc[r] = "bulk_lock"
    /\ Unblocked(r)
    /\ \/ job[r].course \notin live /\ NotFound(r, job[r].course)
       \/ job[r].course \in live /\ LockCourse(r, job[r].course, "bulk_count")

\* len(req.user_ids) counts repeated ids.
BulkCount(r) ==
    LET wanted == Cardinality(RowsOf(job[r].course)) + Cardinality(job[r].ids) + job[r].again
    IN  /\ pc[r] = "bulk_count"
        /\ \/ wanted > loc[r].cap /\ Refuse(r, 422)
           \/ wanted <= loc[r].cap /\ Read(r, "bulk_users")

BulkUsers(r) ==
    /\ pc[r] = "bulk_users"
    /\ \/ ~(job[r].ids \subseteq Users) /\ NotFound(r, 0)
       \/ job[r].ids \subseteq Users /\ Read(r, "bulk_check")

BulkCheck(r) ==
    /\ pc[r] = "bulk_check"
    /\ \/ Seated(job[r].ids, job[r].course) # {} /\ Refuse(r, 409)
       \/ Seated(job[r].ids, job[r].course) = {} /\ Read(r, "bulk_insert")

\* A repeated id breaks the unique constraint.  An empty list commits nothing.
\* Mutation: every enrollment is committed on its own.
BulkInsertEach(r) ==
    /\ pc[r] = "bulk_insert"
    /\ \/ job[r].ids = {} /\ CommitNothing(r, "bulk_reload")
       \/ /\ job[r].ids # {}
          /\ InsertAndCommit(r, job[r].ids, {},
                             IF job[r].again > 0 THEN "bulk_insert" ELSE "bulk_reload")

BulkInsert(r) ==
    /\ pc[r] = "bulk_insert"
    /\ \/ job[r].again > 0 /\ Refuse(r, 500)
       \/ job[r].ids = {} /\ CommitNothing(r, "bulk_reload")
       \/ /\ job[r].again = 0 /\ job[r].ids # {}
          /\ InsertAndCommit(r, job[r].ids, {}, "bulk_reload")

\* course.title is loaded again when there is a user to write to.
BulkReload(r) ==
    /\ pc[r] = "bulk_reload"
    /\ \/ /\ job[r].ids # {} /\ job[r].course \notin live
          /\ Reply(r, 500, 0, {"courses"}, {})
       \/ /\ job[r].ids = {} \/ job[r].course \in live
          /\ Reply(r, 200, 0, {"courses"}, job[r].ids)

-----------------------------------------------------------------------------
(* POST /advanced/transfer-enrollment                                      *)

TransferLock1(r) ==
    /\ pc[r] = "transfer_lock1"
    /\ Unblocked(r)
    /\ LockCourse(r, LockOrder(job[r])[1], "transfer_lock2")

TransferLock2(r) ==
    /\ pc[r] = "transfer_lock2"
    /\ Unblocked(r)
    /\ LockCourse(r, LockOrder(job[r])[2], "transfer_find")

\* The id of the 404: from_course_id when the course locked first is missing,
\* else to_course_id.
MissingCourse(r) == IF LockOrder(job[r])[1] \notin courseLocks[r] THEN job[r].from
                                                                 ELSE job[r].course

TransferFind(r) ==
    /\ pc[r] = "transfer_find"
    /\ \/ /\ ~({job[r].from, job[r].course} \subseteq courseLocks[r])
          /\ NotFound(r, MissingCourse(r))
       \/ /\ {job[r].from, job[r].course} \subseteq courseLocks[r]
          /\ Seated({job[r].user}, job[r].from) = {}
          /\ NotFound(r, 0)
       \/ /\ {job[r].from, job[r].course} \subseteq courseLocks[r]
          /\ \E e \in Seated({job[r].user}, job[r].from) :
                loc' = [loc EXCEPT ![r].row = e.id]
          /\ Proceed(r, "transfer_check")
          /\ UNCHANGED courseLocks

TransferCheck(r) ==
    /\ pc[r] = "transfer_check"
    /\ \/ Seated({job[r].user}, job[r].course) # {} /\ Refuse(r, 409)
       \/ Seated({job[r].user}, job[r].course) = {} /\ Read(r, "transfer_count")

TransferCount(r) ==
    /\ pc[r] = "transfer_count"
    /\ \/ Cardinality(RowsOf(job[r].course)) >= loc[r].cap /\ Refuse(r, 422)
       \/ Cardinality(RowsOf(job[r].course)) < loc[r].cap /\ Read(r, "transfer_move")

\* Mutation: the old enrollment is not deleted.
TransferInsertOnly(r) ==
    /\ pc[r] = "transfer_move"
    /\ Unblocked(r)
    /\ InsertAndCommit(r, {job[r].user}, {}, "transfer_reload")

\* The DELETE waits for a transaction that is deleting the same row.  When the
\* row is gone by then it matches nothing, and the INSERT is done all the same.
TransferMove(r) ==
    /\ pc[r] = "transfer_move"
    /\ Unblocked(r)
    /\ InsertAndCommit(r, {job[r].user}, {e \in rows : e.id = loc[r].row}, "transfer_reload")

\* clear_cache, then new_enrollment.id, expired by the COMMIT, is loaded again.
TransferReload(r) ==
    /\ pc[r] = "transfer_reload"
    /\ \/ ~Exists(loc[r].row) /\ Reply(r, 500, 0, {"courses"}, {})
       \/ Exists(loc[r].row) /\ Reply(r, 200, 0, {"courses"}, {})

-----------------------------------------------------------------------------
(* DELETE /enrollments/{id} and PUT /enrollments/{id}                      *)

UnenrollRead(r) ==
    /\ pc[r] = "unenroll_read"
    /\ \/ ~Exists(job[r].row) /\ Refuse(r, 404)
       \/ \E e \in rows : e.id = job[r].row /\ e.user # job[r].user /\ Refuse(r, 403)
       \/ \E e \in rows : /\ e.id = job[r].row /\ e.user = job[r].user
                          /\ Read(r, "unenroll_delete")

\* A DELETE that matches no row is only logged.
UnenrollDelete(r) ==
    /\ pc[r] = "unenroll_delete"
    /\ Unblocked(r)
    /\ \/ ~Exists(job[r].row) /\ CommitNothing(r, "unenroll_clear")
       \/ /\ Exists(job[r].row)
          /\ rows' = {e \in rows : e.id # job[r].row}
          /\ UNCHANGED <<live, cap, nextId, loc>>
          /\ Commit(r, "unenroll_clear")

\* Mutation: a pattern no key matches.
UnenrollClearMistyped(r) ==
    /\ pc[r] = "unenroll_clear"
    /\ Reply(r, 200, 0, {"courses", "enrollment"}, {})

UnenrollClear(r) ==
    /\ pc[r] = "unenroll_clear"
    /\ Reply(r, 200, 0, {"courses", "enrollments"}, {})

ProgressRead(r) ==
    /\ pc[r] = "progress_read"
    /\ \/ ~Exists(job[r].row) /\ Refuse(r, 404)
       \/ Exists(job[r].row) /\ Read(r, "progress_write")

\* Fields equal to those loaded make no UPDATE; one that matches no row raises.
ProgressWrite(r) ==
    /\ pc[r] = "progress_write"
    /\ Unblocked(r)
    /\ \/ ~job[r].changes /\ CommitNothing(r, "progress_refresh")
       \/ job[r].changes /\ ~Exists(job[r].row) /\ Refuse(r, 500)
       \/ /\ job[r].changes /\ Exists(job[r].row)
          /\ Commit(r, "progress_refresh")
          /\ UNCHANGED <<dbVars, loc>>

ProgressRefresh(r) ==
    /\ pc[r] = "progress_refresh"
    /\ \/ ~Exists(job[r].row) /\ Refuse(r, 500)
       \/ Exists(job[r].row) /\ Reply(r, 200, 0, {"enrollments"}, {})

-----------------------------------------------------------------------------
(* PUT /courses/{id} with a max_students                                   *)

CapRead(r) ==
    /\ pc[r] = "cap_read"
    /\ \/ job[r].course \notin live /\ NotFound(r, job[r].course)
       \/ /\ job[r].course \in live
          /\ loc' = [loc EXCEPT ![r].cap = cap[job[r].course]]
          /\ Proceed(r, "cap_write")
          /\ UNCHANGED courseLocks

CapWrite(r) ==
    /\ pc[r] = "cap_write"
    /\ Unblocked(r)
    /\ \/ job[r].cap = loc[r].cap /\ CommitNothing(r, "cap_refresh")
       \/ job[r].cap # loc[r].cap /\ job[r].course \notin live /\ Refuse(r, 500)
       \/ /\ job[r].cap # loc[r].cap /\ job[r].course \in live
          /\ cap' = [cap EXCEPT ![job[r].course] = job[r].cap]
          /\ UNCHANGED <<live, rows, nextId, loc>>
          /\ Commit(r, "cap_refresh")

CapRefresh(r) ==
    /\ pc[r] = "cap_refresh"
    /\ \/ job[r].course \notin live /\ Refuse(r, 500)
       \/ job[r].course \in live /\ Reply(r, 200, 0, {"courses"}, {})

-----------------------------------------------------------------------------
(* DELETE /courses/{id}.  The ORM deletes the enrollments it has loaded,    *)
(* then the course; the foreign key deletes the others.                    *)

DeleteRead(r) ==
    /\ pc[r] = "delete_read"
    /\ \/ job[r].course \notin live /\ NotFound(r, job[r].course)
       \/ job[r].course \in live /\ Read(r, "delete_load")

DeleteLoad(r) ==
    /\ pc[r] = "delete_load"
    /\ loc' = [loc EXCEPT ![r].todo = {e.id : e \in RowsOf(job[r].course)}]
    /\ Proceed(r, "delete_rows")
    /\ UNCHANGED courseLocks

\* DELETE of the loaded rows, one after the other by primary key.
DeleteRows(r) ==
    /\ pc[r] = "delete_rows"
    /\ Unblocked(r)
    /\ \/ loc[r].todo = {} /\ Read(r, "delete_course")
       \/ \E id \in LeastOf(loc[r].todo) :
             /\ rowLocks' = [rowLocks EXCEPT ![r] = @ \cup ({id} \cap RowIds)]
             /\ loc' = [loc EXCEPT ![r].todo = @ \ {id}]
             /\ UNCHANGED <<dbVars, courseLocks, pc, job, endVars, committed>>

DeleteCourse(r) ==
    /\ pc[r] = "delete_course"
    /\ Unblocked(r)
    /\ \/ job[r].course \notin live /\ CommitNothing(r, "delete_clear")
       \/ job[r].course \in live /\ LockCourse(r, job[r].course, "delete_cascade")

\* Mutation: no cascade in the foreign key.
DeleteLoadedOnly(r) ==
    /\ pc[r] = "delete_cascade"
    /\ live' = live \ {job[r].course}
    /\ rows' = {e \in rows : e.id \notin rowLocks[r]}
    /\ UNCHANGED <<cap, nextId, loc>>
    /\ Commit(r, "delete_clear")

\* ON DELETE CASCADE waits for every row that is left.
DeleteCascade(r) ==
    /\ pc[r] = "delete_cascade"
    /\ Unblocked(r)
    /\ live' = live \ {job[r].course}
    /\ rows' = rows \ RowsOf(job[r].course)
    /\ UNCHANGED <<cap, nextId, loc>>
    /\ Commit(r, "delete_clear")

DeleteClear(r) ==
    /\ pc[r] = "delete_clear"
    /\ Reply(r, 200, 0, {"courses"}, {})

-----------------------------------------------------------------------------
(* POST /courses/bulk-update-category: one UPDATE of every course of a     *)
(* category, which locks their rows as it finds them.                      *)

RecatScan(r) ==
    /\ pc[r] = "recat_scan"
    /\ \E S \in SUBSET live : loc' = [loc EXCEPT ![r].todo = S]
    /\ Proceed(r, "recat_sweep")
    /\ UNCHANGED courseLocks

\* A row deleted while the UPDATE waited for it is skipped.
RecatSweep(r) ==
    /\ pc[r] = "recat_sweep"
    /\ \E c \in loc[r].todo :
          /\ \A q \in Requests \ {r} : c \notin courseLocks[q]
          /\ courseLocks' = [courseLocks EXCEPT ![r] = @ \cup ({c} \cap live)]
          /\ loc' = [loc EXCEPT ![r].todo = @ \ {c}]
          /\ Proceed(r, "recat_sweep")

\* The foreign key of an unknown category fails the UPDATE if it matched a row.
RecatCommit(r) ==
    /\ pc[r] = "recat_sweep"
    /\ loc[r].todo = {}
    /\ \/ courseLocks[r] = {} /\ CommitNothing(r, "recat_clear")
       \/ courseLocks[r] # {} /\ ~job[r].valid /\ Refuse(r, 500)
       \/ /\ courseLocks[r] # {} /\ job[r].valid
          /\ Commit(r, "recat_clear")
          /\ UNCHANGED <<dbVars, loc>>

RecatClear(r) ==
    /\ pc[r] = "recat_clear"
    /\ Reply(r, 200, 0, {"courses"}, {})

-----------------------------------------------------------------------------

\* A client calls an endpoint; a worker thread takes it with a session of its own.
Arrive(r) ==
    /\ pc[r] = "new"
    /\ \E j \in Jobs(KnownIds) :
          /\ j.op \in Ops
          /\ job' = [job EXCEPT ![r] = j]
          /\ pc' = [pc EXCEPT ![r] = Entry[j.op]]
    /\ UNCHANGED <<dbVars, lockVars, loc, endVars, committed>>

\* PostgreSQL aborts the transaction of a cycle whose deadlock timeout ends first.
DeadlockVictim(r) == ~Unblocked(r) /\ InCycle(r) /\ Refuse(r, 500)

EnrollStep(r) == \/ EnrollLock(r) \/ EnrollCheck(r) \/ EnrollCount(r)
                 \/ EnrollInsert(r) \/ EnrollRefresh(r) \/ EnrollReload(r)
BulkStep(r) == \/ BulkLock(r) \/ BulkCount(r) \/ BulkUsers(r)
               \/ BulkCheck(r) \/ BulkInsert(r) \/ BulkReload(r)
TransferStep(r) == \/ TransferLock1(r) \/ TransferLock2(r) \/ TransferFind(r)
                   \/ TransferCheck(r) \/ TransferCount(r) \/ TransferMove(r)
                   \/ TransferReload(r)
UnenrollStep(r) == UnenrollRead(r) \/ UnenrollDelete(r) \/ UnenrollClear(r)
ProgressStep(r) == ProgressRead(r) \/ ProgressWrite(r) \/ ProgressRefresh(r)
CapStep(r) == CapRead(r) \/ CapWrite(r) \/ CapRefresh(r)
DeleteStep(r) == \/ DeleteRead(r) \/ DeleteLoad(r) \/ DeleteRows(r)
                 \/ DeleteCourse(r) \/ DeleteCascade(r) \/ DeleteClear(r)
RecatStep(r) == RecatScan(r) \/ RecatSweep(r) \/ RecatCommit(r) \/ RecatClear(r)

Step(r) == \/ EnrollStep(r) \/ BulkStep(r) \/ TransferStep(r) \/ UnenrollStep(r)
           \/ ProgressStep(r) \/ CapStep(r) \/ DeleteStep(r) \/ RecatStep(r)

AllAnswered == (\A r \in Requests : pc[r] = "done") /\ UNCHANGED vars

Init == /\ live \in SUBSET Courses
        /\ cap \in [Courses -> Caps]
        /\ rows \in SUBSET {e \in SeedRows : e.course \in live}
        /\ nextId = FirstId
        /\ courseLocks = [r \in Requests |-> {}]
        /\ rowLocks = [r \in Requests |-> {}]
        /\ pc = [r \in Requests |-> "new"]
        /\ job = [r \in Requests |-> NoJob]
        /\ loc = [r \in Requests |-> [cap |-> 0, row |-> 0, todo |-> {}]]
        /\ answer = [r \in Requests |-> [code |-> 0, missing |-> 0]]
        /\ cleared = [r \in Requests |-> {}]
        /\ outbox = [r \in Requests |-> {}]
        /\ committed = {}

Next == \/ \E r \in Requests : Arrive(r) \/ Step(r) \/ DeadlockVictim(r)
        \/ AllAnswered

Spec == Init /\ [][Next]_vars

\* A thread runs on until it waits, and PostgreSQL breaks every deadlock.  That
\* a client calls at all is not assumed.
Fairness == \A r \in Requests : WF_vars(Step(r)) /\ WF_vars(DeadlockVictim(r))

FairSpec == Spec /\ Fairness

-----------------------------------------------------------------------------
(* Properties                                                              *)

\* The types of the variables.
TypeOK ==
    /\ live \subseteq Courses
    /\ cap \in [Courses -> Caps]
    /\ rows \subseteq Row
    /\ nextId \in Nat
    /\ courseLocks \in [Requests -> SUBSET Courses]
    /\ rowLocks \in [Requests -> SUBSET Nat]
    /\ pc \in [Requests -> Labels]
    /\ job \in [Requests -> Jobs(Nat) \cup {NoJob}]
    /\ loc \in [Requests -> [cap : Int, row : Nat, todo : SUBSET Nat]]
    /\ answer \in [Requests -> [code : {0, 200, 403, 404, 409, 422, 500},
                                missing : Courses \cup {0}]]
    /\ cleared \in [Requests -> SUBSET {"courses", "enrollments"}]
    /\ outbox \in [Requests -> SUBSET UserIds]
    /\ committed \subseteq Requests

\* The seats of a course never grow beyond the max_students it has at that
\* moment, whatever enrollments, bulk enrollments, transfers, deletions and
\* changes of the limit run at the same time: the limit read and the count made
\* under the course lock are still good when the INSERT commits.  (The limit
\* may be lowered below the number of seats taken.)
SeatsRespectCap ==
    [][\A c \in Courses : Cardinality(RowsOf(c)') > Cardinality(RowsOf(c))
                             => Cardinality(RowsOf(c)') <= cap[c]]_vars

\* The check for an existing enrollment is still good when the INSERT runs: the
\* unique constraint never has to refuse a row, so a second enrollment is
\* answered by a conflict (409) and never by a database error (500).
InsertNeverCollides ==
    \A r \in Requests :
        pc[r] \in {"enroll_insert", "transfer_move", "bulk_insert"} =>
            Seated(IF job[r].op = "bulk" THEN job[r].ids ELSE {job[r].user}, job[r].course) = {}

\* When a transfer to another course commits, the student has a seat in the target
\* and none in the source, even if the student leaves the source, enrolls in it or
\* is transferred at the same time.  (From a course to itself, a student who leaves
\* the course after the transfer has found the seat gets it back.)
TransferLeavesSource ==
    [][\A r \in Requests :
          (job[r].op = "transfer" /\ job[r].from # job[r].course
                                  /\ r \in committed' \ committed) =>
             /\ \E e \in rows' : e.user = job[r].user /\ e.course = job[r].course
             /\ ~\E e \in rows' : e.user = job[r].user /\ e.course = job[r].from]_vars

\* Two transfers, or a transfer and an enrollment, never wait for each other:
\* every deadlock has a course deletion or a category update in it, which lock
\* rows in other orders.
NoDeadlockAmongEnrollers ==
    \A S \in SUBSET {r \in Requests : job[r].op \notin {"delete_course", "recategorise"}} :
        ~Deadlocked(S)

\* Every enrollment is of an existing course and no student has two seats in a
\* course, although a deletion only removes by id the rows it loaded before it
\* had the course.
ReferentialIntegrity ==
    /\ \A e \in rows : e.course \in live
    /\ \A e, f \in rows : (e.user = f.user /\ e.course = f.course) \/ e.id = f.id => e = f

\* An enrollment or transfer answered by an error has left no seat behind: what
\* fails after the COMMIT, the refresh of the new row or of course.title, fails
\* because somebody has deleted what was committed.
ErrorLeavesNoSeat ==
    \A r \in committed :
        answer[r].code >= 400 =>
            /\ job[r].op \in {"enroll", "transfer"} => ~Exists(loc[r].row)
            /\ job[r].op = "bulk" => RowsOf(job[r].course) = {}

\* Every request that arrived is answered in the end: each wait for a row lock
\* ends, by the commit or rollback of the holder or by the deadlock detector.
EveryRequestAnswered ==
    \A r \in Requests : (pc[r] # "new") ~> (pc[r] = "done")

\* The tables implement the ledger of seats.
Ledger == INSTANCE SeatLedger WITH
             open <- live, limit <- cap,
             seats <- {[user |-> e.user, course |-> e.course] : e \in rows}

ImplementsLedger == Ledger!Spec

-----------------------------------------------------------------------------
(* Why the seats respect the limit: what a request that holds the lock of   *)
(* the course it enrolls into knows about it.                               *)

\* The statements run after the course enrolled into was found and locked.
Locked == {"enroll_check", "enroll_count", "enroll_insert",
           "bulk_count", "bulk_users", "bulk_check", "bulk_insert",
           "transfer_check", "transfer_count", "transfer_move", "delete_cascade"}

\* The statements run after the seats were counted.
Counted == {"enroll_insert", "bulk_users", "bulk_check", "bulk_insert", "transfer_move"}

SeatsWanted(j) == IF j.op = "bulk" THEN Cardinality(j.ids) + j.again ELSE 1

JobFits(r) ==
    /\ pc[r] \in EnrollLabels   => job[r] \in EnrollJobs
    /\ pc[r] \in BulkLabels     => job[r] \in BulkJobs
    /\ pc[r] \in TransferLabels => job[r] \in TransferJobs
    /\ pc[r] \in UnenrollLabels => job[r] \in UnenrollJobs(Nat)
    /\ pc[r] \in ProgressLabels => job[r] \in ProgressJobs(Nat)
    /\ pc[r] \in CapLabels      => job[r] \in CapJobs
    /\ pc[r] \in DeleteLabels   => job[r] \in DeleteJobs
    /\ pc[r] \in RecatLabels    => job[r] \in RecatJobs

LimitIsCurrent(r) ==
    (/\ pc[r] \in Locked \cup {"transfer_lock2", "transfer_find"}
     /\ job[r].course \in courseLocks[r]) => loc[r].cap = cap[job[r].course]

CountIsCurrent(r) ==
    pc[r] \in Counted =>
        Cardinality(RowsOf(job[r].course)) + SeatsWanted(job[r]) <= loc[r].cap

\* The users a seat is inserted for exist.
UsersKnown(r) ==
    /\ pc[r] \in {"bulk_check", "bulk_insert"} => job[r].ids \subseteq Users
    /\ pc[r] \in {"transfer_check", "transfer_count", "transfer_move"} => job[r].user \in Users

RequestInv(r) ==
    /\ JobFits(r)
    /\ UsersKnown(r)
    /\ pc[r] \in {"new", "transfer_lock1"} => courseLocks[r] = {}
    /\ pc[r] \in Locked => job[r].course \in courseLocks[r]
    /\ LimitIsCurrent(r)
    /\ CountIsCurrent(r)

\* A course row is locked by at most one transaction and exists while it is
\* locked, and what a transaction has read about the course it locked, its limit
\* and its number of seats, still holds until it commits.
SeatsInv ==
    /\ IsFiniteSet(rows)
    /\ \A r \in Requests : courseLocks[r] \subseteq live
    /\ \A r, q \in Requests : r # q => courseLocks[r] \cap courseLocks[q] = {}
    /\ \A r \in Requests : RequestInv(r)

-----------------------------------------------------------------------------
(* What the comments of the code say, and the code does not do.            *)

\* advanced_service.py says a transfer moves a student atomically: the step that
\* gives the seat in the target takes the one in the source.
TransferIsAMove ==
    [][\A r \in Requests :
          (job[r].op = "transfer" /\ job[r].from # job[r].course
                                  /\ r \in committed' \ committed) =>
             \E e \in rows \ rows' : e.user = job[r].user /\ e.course = job[r].from]_vars
=============================================================================
