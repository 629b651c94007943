# TLA+ models of the LMS backend

The repository is the backend of a learning management system: a FastAPI application with
synchronous endpoints (each runs in a worker thread), SQLAlchemy sessions on PostgreSQL at
READ COMMITTED, a Redis cache in front of the tables, and background tasks that send mail
after a response. This directory holds TLA+ models of its concurrent parts, the instances
TLC checks, and the theorems TLAPS proves about them. All paths below are relative to
`src/`.

## 1. Inventory

| component | code | state | operations |
|---|---|---|---|
| Enrollment transactions | `app/services/{course,advanced,enrollment}_service.py`, `app/models/course.py` | tables `courses`, `enrollments`; row locks; the session of each request | enroll, bulk enroll, transfer, unenroll, update progress, update course, delete course, recategorise courses |
| Redis cache | `app/core/redis.py`, the decorators and `clear_cache` calls of all services | keys in Redis with a time to live of an hour | `redis_cache` (GET, the method, SETEX), `clear_cache` (KEYS, DEL) |
| Catalog | `{course,category,lesson,instructor}_service.py`, `app/crud`, `alembic` | tables `categories`, `courses`, `lessons`, `instructors`, the progress of `enrollments`; their constraints | create, update, delete, bulk create, move to another category |
| Background tasks | `app/core/tasks.py`, `app/models/failed_task.py` | the queue of each request (in memory), table `failed_tasks` | attempt, sleep, attempt again, record |
| Email | `email_service.py` | none | build a message, send it over SMTP |
| Administration | `admin_service.py` | none of its own | list and delete failed tasks, dashboard |
| Accounts, profiles, roles | `user_service.py`, `role_service.py` | `users`, `user_profile`, `roles`, `user_roles` | register, deactivate, profile, avatar; create and assign roles |
| Avatar storage | `s3_service.py` | the objects of a bucket in S3 | upload |
| Reports | `course_service.py`, `advanced_service.py`, `admin_service.py` | none | detailed course, instructor dashboard, analytics, statistics |
| Login and tokens | `auth_service.py`, `core/security.py` | none: a token is a function of the user and the clock | login, refresh, change password |
| Request plumbing | `api/deps.py`, `db/session.py`, `main.py` | connection pool, thread pool | one session per request, closed at its end |
| Error responses | `core/exceptions.py` | none | a status for each exception |
| Schemas, configuration, logging | the rest of `app/` | none | - |

**Interactions.** An endpoint gets a session (`get_db`), authenticates the user with it, and
calls one service method. The method reads and writes through the session, commits, calls
`clear_cache`, reads what the commit has expired again (`db.refresh`, attribute access) and
hands mails to `BackgroundTasks`. These run after the response *with the same session*. Requests
meet only in PostgreSQL and in Redis: there is no lock and no shared memory in the application.

**What is hard**, and what makes each part correct:

* *Enrollment.* A seat is given after a count made several statements earlier. What makes this
  right is `SELECT ... FOR UPDATE` of the course row, taken by the three enrolling endpoints and
  by nobody else; other endpoints lock rows only by their UPDATEs and DELETEs, and in other
  orders. Correct means: no enrollment beyond `max_students`, no duplicate seat, no seat in a
  deleted course, a transfer that moves, no deadlock among requests that follow the lock order,
  and an answer for everybody.
* *After the commit.* The title of the course and the new row are loaded again in a new
  transaction, when somebody may have deleted them. Correct means: a request that ends in an
  error leaves no seat behind.
* *Cache.* GET, the query and SETEX of a reader interleave with the COMMIT, KEYS and DEL of a
  writer, and any of the Redis commands may fail (the code ignores the error). Keys are built in
  one place and the patterns that must match them in another. Correct means: after a change
  nothing wrong is served for longer than the time to live, and as a rule not at all.
* *Background tasks.* Retries with sleeps in the worker thread, in a session that may be broken,
  and everything lost when the process dies. Correct means: what `failed_tasks` says is so, no
  mail goes out twice, every failure for good is recorded, the thread gets free again.
* *Accounts.* Uniqueness is checked by a SELECT before the INSERT, without a lock; the user of a
  request is loaded by a dependency and used later by the handler. Correct means: one of two equal
  requests wins and the other is refused because of the winner, a deactivated user stays out, and
  two writers of one row do not undo each other. An avatar goes to S3 before the profile that names
  it is committed, and the upload may fail after it has stored the file.
* *Catalog.* Rows are loaded, changed in Python and written columns at a time, without a lock or a
  version; foreign keys change the rows of other tables; the response is read again after the COMMIT.
  Correct means: no change of another column is undone, a course loses its category only for a
  reason, an answer shows what the request did, an error leaves no row.
* *Plumbing.* 40 threads share 30 connections. A request takes a thread for each call of a function
  and keeps its connection in between, and through the sleeps of its background tasks. Correct means:
  connections come back on every path, and threads that wait for connections held by requests that
  wait for threads do not stand still for ever.

`PROJECT.json` lists the hazards with their lines and the properties that cover them.

## 2. Plan

| | module | abstract specification / composition | status |
|---|---|---|---|
| 1 | `Enrollment` | implements `SeatLedger` | done; every safety property and the refinement proved |
| 2 | `Cache` | instance of the row changes of all services | done; safety proved |
| 3 | `Tasks` | - | done; safety proved |
| 4 | `Accounts` | - | done, with the bucket of avatars; all properties proved |
| 5 | `Catalog` | implements `CatalogContract` | done: all tables of the catalog, the progress of enrollments, two reports; every safety property and the refinement proved |
| 6 | `RequestPool` | - | done: threads, connections, the pool timeout, the session of a request; safety proved |
| 7 | what a token is good for | extends `Accounts` | left: the kinds of tokens and their expiry |

A composition of `Enrollment` and `Cache` was planned and dropped: what each service clears, and when,
is already in `Cache` method by method, and `Cache` looks at nothing of a change but which rows
it wrote.

Proofs: types and the seat limit of `Enrollment`; its table constraints, its checks,
`TransferLeavesSource` and `NoDeadlockAmongEnrollers`; the invariants of `RequestPool` and `Tasks`; the
refinement `ImplementsLedger`; the properties of `Accounts`; those of `Cache`, and of `Catalog` with
the refinement `KeepsContract` (all done). Liveness stays with TLC. The modules are written for it: constants with named
assumptions, one action per statement, invariants as named conjuncts, no recursive operators.

## 3. Modules

### Enrollment

One request per worker thread; `pc[r]` is the SQL statement it runs next and an action is that
statement with the Python code up to the next one, with all its outcomes (404, 409, 422, 500).
Which action stands for which lines is in `PROJECT.json`, "map"; the groups are

| actions | method |
|---|---|
| `EnrollLock, EnrollCheck, EnrollCount, EnrollInsert, EnrollRefresh, EnrollReload` | `CourseService.enroll_in_course` |
| `BulkLock, BulkCount, BulkUsers, BulkCheck, BulkInsert, BulkReload` | `AdvancedService.concurrent_enroll` |
| `TransferLock1, TransferLock2, TransferFind, TransferCheck, TransferCount, TransferMove, TransferReload` | `AdvancedService.transfer_enrollment` |
| `UnenrollRead, UnenrollDelete, UnenrollClear` | `EnrollmentService.unenroll` |
| `ProgressRead, ProgressWrite, ProgressRefresh` | `EnrollmentService.update_enrollment` |
| `CapRead, CapWrite, CapRefresh` | `CourseService.update_course` (its `max_students`) |
| `DeleteRead, DeleteLoad, DeleteRows, DeleteCourse, DeleteCascade, DeleteClear` | `CourseService.delete_course` with the ORM cascade |
| `RecatScan, RecatSweep, RecatCommit, RecatClear` | `CourseService.bulk_update_course_categories` |

`live`, `cap`, `rows`, `nextId` are the committed tables. `courseLocks` and `rowLocks` are the
rows a transaction has locked and still holds; `WaitsFor` says who must wait, `Deadlocked` and
`DeadlockVictim` are PostgreSQL's detector, which makes one member of a cycle fail (answered by
500). A plain SELECT never waits and sees what is committed when it runs. A write followed by
COMMIT with no wait in between is one step with it; a transaction that can still wait after a
write (deleting several rows, sweeping several courses) takes one step per row and shows its
changes at the COMMIT. PostgreSQL, its locks and SQLAlchemy's unit of work are not code of the
repository: they are modelled from how it uses them and marked external. Two facts of them
matter: a DELETE by primary key that finds no row is only a warning (the loser of two
unenrollments is answered 200), and `session.delete(course)` loads the enrollments and deletes
them by id *before* it deletes the course; what was committed in between falls to `ON DELETE
CASCADE` (`DeleteCascade`).

`SeatLedger` is the promise without transactions: seats appear by `Enrol` (all of a list or
none, and only when they fit), `Move`, and disappear by `Leave` and `Close`. `ImplementsLedger`
maps the committed tables to it. That the ledger has a `Move` which also accepts a student who
has meanwhile left the source is deliberate: see the first finding.

### Cache

A read is `CacheGet` (a hit answers), `ReadTable`, `CacheSet`; a change is `CheckRow`,
`CommitChange`, `RefreshRow`, `ClearKeys` (KEYS) and `ClearDelete` (DEL). A row is abstracted
to the number of the commit that wrote it last, so an entry is wrong when its versions differ
from the table's. `Query` and `Entity` are the two shapes of a key. The twelve cached methods
and the twenty-two methods that change a table are definitions with the method's name: what
each reads or writes, which rows it adds, deletes or updates by cascade, and which patterns it
clears, in order. `Matches` says which keys a pattern matches, worked out from the literal
strings; some match none. The arguments hashed into a list key contain `self`, printed with its
address: each request has a service object at an address no other living request has, and an
address may be used again. Commands of Redis may fail, and a process may die between any two
steps (`Crash`).

Row `i` of each table is related to row `i` of the others. That is enough to tell "the row of
this question" from "a row of another question" with two ids. Pages of lists and the content of
rows are left out.

### Tasks

The tasks a request has queued run one after the other: `AttemptRaises` or `AttemptEnds`, then
`Retry` after the sleep, `LogFailedTask` after the third failure. `send_email` catches delivery
errors and returns False, which no caller looks at, so such an attempt *ends*; a mail that the
email package refuses to build raises; `_sync_task_profile_updated` reads the user first and
raises when the statement fails. `broken` is a session whose failed statement nobody has rolled
back: every later statement on it raises too, the INSERT of the record included. `DbGoes` and
`DbComes` are outages of the database, `Crash` the death of a process, `FindFailedTask` and
`DeleteFailedTask` the admin endpoint that deletes a record ("retry" in its name only).
`raised`, `mails` and `removed` are history variables.

### Accounts

No method here locks a row before it decides, and each has a single write that is committed at
once. So a step is a SELECT, or the write with its COMMIT, and nobody waits; the races are between
the SELECT and the write. `Check` is the SELECT that leads to a 409, `Insert` the INSERT that the
unique constraint or the foreign key may turn into a 500.

| actions | method |
|---|---|
| `RegisterEmail, RegisterName, Register` | `UserService.create_user` |
| `Login`, `Refresh` | `AuthService.login`, `refresh_token` |
| `Authenticate, RequireAdmin` | `get_current_user`, `get_current_active_admin` |
| `FindTarget, Deactivate` | `UserService.deactivate_user` |
| `ChangePassword` | `AuthService.change_password` |
| `CheckRole, CreateRole` | `RoleService.create_role` |
| `FindUser, FindRole, ReadRoles, AssignRole` | `RoleService.assign_role_to_user` |
| `FindUser, CheckInstructor, CreateInstructor` | `InstructorService.create_instructor` |
| `FindProfile`, then `NewProfile` or `UpdateProfile` | `get_user_profile`, `update_user_profile` |
| `FindProfile`, `SendFile`, then `NoUrl` or `SetAvatar` | `UserService.upload_avatar` with `S3Service.upload_file` |

`me` is the row `get_current_user` has loaded and the handler works with. A password and its hash
are one value, because all that is used of bcrypt is whether they fit. A token is its user. The
name and the avatar of a profile are the request that set them, so that every value tells whose it
is. `objects` is the bucket: an upload overwrites the file of the same user and name, and may fail before
or after it has stored its own (`SendFile`). `barred` is a history variable. (`get_user_profile` here is a cache miss; hits are in `Cache`.)

### Catalog

The tables are functions from ids to rows with the columns that refer to another table, a `title` that
stands for those that do not, and `progress` and `completed`. `Allowed` is what the migrations
declare: unique names, columns that may not be NULL, foreign keys. A step is a SELECT or the last write of
a method with its COMMIT. That one step is enough for the writes rests on three facts about how they
are made:

* The methods set attributes of a loaded row, and SQLAlchemy writes the columns whose value differs from
  the one loaded (`Altered`): no statement when there are none, a `StaleDataError`, answered by 500,
  when the UPDATE finds no row. A DELETE that finds none is a warning.
* What a method writes depends on what it has loaded before (`loaded`, `kids`) and on its last statement;
  what it has written before that is locked and seen by nobody until the COMMIT. So the writes may
  be taken to happen at the last one.
* Where a transaction locks several rows in an order of its own (`Sweeps`), it may meet another that
  does, and one of them is rolled back (`DeadlockVictim`).

| actions | method |
|---|---|
| `FindName, InsertRows, Refresh` | `create_category`; without the first `create_course`; without the last `bulk_create_courses` |
| `FindCourse, InsertRows, Refresh` | `create_lesson` |
| `FindRow, UpdateRow, Refresh` | `update_category`, `update_course`, `update_lesson`, `update_instructor`, `update_enrollment` |
| `FindRow, LoadCourses, DeleteCategory` | `delete_category`: the ORM sets `category_id` of the courses it has loaded to NULL, the foreign key that of the others |
| `FindRow, DeleteCourse` / `DeleteLesson` | `delete_course`, `delete_lesson` |
| `FindCourses, MoveCourses` | `bulk_update_course_categories`: an UPDATE finds its rows and looks at each again when it has its lock |
| `FindDetailed, LoadLessons` | `get_course_detailed` |
| `FindRow, LoadTaught, LoadLessons, CountStudents` | `get_instructor_dashboard` |

`made` and `committed` say what a request has inserted and whether it has committed; `shown` is the row
of its response or the numbers of a dashboard.

`CatalogContract` is what the methods promise, without statements, sessions or loaded rows: between its
call and its answer a request makes one atomic change of the tables or none. `Create` adds all the rows sent,
under new ids; `Update` sets columns of one row to the values sent and leaves others only when they are
already so; `DeleteCategory`, `DeleteCourse` and `DeleteLesson` take what hangs on the row with
it; `Move` moves only courses of the old category. `Succeed` is the 200 of who has made its change or
had none to make, `Refuse` the error of who has made none, but for one case: a created or updated
row may be deleted before the response is built, and the answer is then a 500 though the change was made. What the
contract leaves open is where requests overtake one another (`Overtaken`): a column already as it was
sent when the row was loaded may have been changed by somebody else since, and a course found in a category
that is deleted may have been moved out of it. `KeepsContract` maps the committed tables, the jobs, the
answers and `committed` to it. The contract is an abstraction and has no lines of its own in the map.

### RequestPool

A request is a list of calls (`Calls`): `get_db`, the dependencies, the endpoint and the validation of its
response are plain functions, each of which FastAPI runs in one of the threads of a limiter (40 by
default), then the tasks (`Tasks`), run by Starlette in the same way. Of a call its statements and
its COMMITs are kept. `Execute` takes a connection for the session if it has none (`QueuePool`: 10 and
20 more), `Commit` gives it back, and so does `Close`, the exit of `get_db`, which runs after the tasks
with a limiter of its own. `PoolTimeout` is the exception after 30 seconds of waiting; in a task
`execute_with_retry` catches it. `Refuse` is any 4xx after a statement. An exception ends the request
without its tasks. `crowded` says whether there were ever more requests in progress than connections.
The nine endpoints are one for each shape of such a list.

## 4. Runs

| run | question | instance, and why it is enough |
|---|---|---|
| `EveryPair` | What can any two requests on the enrollment tables do to each other? `TypeOK`, `SeatsInv`, `ReferentialIntegrity`, `InsertNeverCollides`, `ErrorLeavesNoSeat`, `NoDeadlockAmongEnrollers`, `SeatsRespectCap`, `TransferLeavesSource`, `ImplementsLedger` | All eight endpoints, two users, two courses, limits 1 and 2, any subset of two seed rows in one course: empty, full, nearly full and overfull courses, both orders of a transfer, missing courses and rows; bulk lists of up to three ids, one of which belongs to no user, with a repeated id or not, that just fit or do not. That three requests do not deadlock either is proved |
| `Answered` | Is everybody answered? `EveryRequestAnswered` | Two of the endpoints that lock courses in different orders, where the deadlocks are |
| `CacheClears` | What does clearing guarantee while nothing fails? `TypeOK`, `StaleOnlyWhileClearing`, `AnswersTheQuestion` | Three requests (a reader, and a writer whose KEYS and DEL enclose the SETEX of another), two rows, three addresses; the methods are one for each shape of key and pattern |
| `CacheExpiry` | What is left when everything fails? `StaleEntriesExpire` | All twelve reads against all twenty-two changes, every Redis command may fail, processes die |
| `TaskFaults` | Is `failed_tasks` right, and do tasks end? `TypeOK`, `RecordsAreTrue`, `ExhaustedIsRecorded`, `AtMostOneMail`, `TasksEnd` | Two requests with each kind of list, two admins, outages and crashes, three attempts as in the code |
| `Accounts` | Who wins, who is refused, and what is overwritten? `TypeOK`, `OneWinner`, `RefusedForCause`, `InactiveIsRefused`, `AvatarIsStored`, `DeactivationSticks`, `ProfileKeepsBoth` | Any two of the twelve requests, two seed users of whom either is the admin, two free emails and a free name: both races of a registration, with either key; two file names, so that uploads collide or not |
| `Catalog` | Whose change is lost, who fails and why, and what do answers show? `TypeOK`, `OwnOrOvertaken`, `ErrorLeavesNoRow`, `DetailsAgree`, `DashboardAgrees`, `FieldsOfOthersKept`, `CategoryLostForCause`, `ErrorForCause`, `KeepsContract` | Any two of the fifteen requests, on one of two seeds: two categories with a course each, or one course in none; every update with each of its fields left out, null, 0 or another value; ids of missing rows |
| `RequestPool` | Who gets a thread and a connection? `TypeOK`, `EnoughForAll`, `ServedOnceConnected`, `EveryoneFinishes` | Three requests, two threads and one connection: all threads can wait for the connection while its holder waits for a thread. A change, a bulk enrollment whose tasks fail, an upload with an authenticated user |
| `TransferUnenroll`, `NewCourse`, `AssignTwice`, `LostMail` | Sentences of the code and its documentation that the code contradicts | The smallest instance with the counterexample |

Bounds: no state constraint is used. Requests are a finite set, each has one job, and every
counter (`nextId`, `clock`, `attempt`, the ids of records) is bounded by the number of requests.
`Longest` bounds the list of tasks of a request (a bulk enrollment has one for each user).
`FirstId` only keeps new ids apart from the seed rows. Requests (and admins) are
interchangeable, so symmetry is used, except in runs of liveness properties. The runs of `Tasks`
do not check deadlock: when all tasks are done and nobody calls, the system rests. In
the other modules the rest is an explicit step (`AllAnswered`), so TLC's deadlock check
means that no request hangs.

Fairness. `Enrollment`: weak fairness of each request's steps (the operating system runs every
thread; nothing in the application can keep a runnable one waiting), and of the deadlock
detector (`deadlock_timeout` is one second by default, nothing in the repository changes it).
That a client calls is not assumed. Weak fairness of a step that waits for a lock suffices for two
requests; nothing in the models needs a fair queue of lock waiters because each request runs
once. `Cache`: weak fairness of the steps and of the expiry of each key. `Tasks`: weak fairness
of the thread's steps; not of the database coming back, nor of the admins. A crash is never
required and never excluded. `RequestPool`: weak fairness of each request's steps, which include
`PoolTimeout`, because `pool_timeout` is 30 seconds unless it is set, and the repository does not set
it. Without that timeout (the mutant `WaitForever`) the threads do stand still.

## 5. What is proved

`EnrollmentProofs` (1568 obligations) proves, for all sets of users, courses, limits, requests
and endpoints that satisfy `EnrollmentAssumption` (finite sets of ids and seed rows that obey the
constraints of the table):

* `TypeCorrect`: `Spec => []TypeOK`.
* `Invariance`: `Spec => [](TypeOK /\ SeatsInv)`.
* `NoOverEnrollment`: `Spec => SeatsRespectCap`.

`SeatsRespectCap` is about a single step (a seat appears only under the limit of that
moment) but the reason lies several statements back, so it needs an inductive invariant.
`SeatsInv` is it. Its parts: a course row is locked by at most one transaction and exists while
locked; a request past its lock holds the lock of its course (`Locked`); while it does, the
limit it remembers is the limit (`LimitIsCurrent`: `CapWrite` needs the same row lock); past its
count there is room for all it wants (`CountIsCurrent`: whoever inserts into the course needs
the lock, and deletions only make room). With it each INSERT leaves at most `max_students`
seats, and no other action adds a seat.

The proof has one lemma per endpoint (`EnrollGood`, `BulkGood`, `TransferGood`, ...), with one
step per action, that shows the action keeps both invariants and gives no seat beyond the limit,
together called `Good`. These rest on a few lemmas about how a step ends (`ReplyGood`, `ProceedGood`, `CommitGood`, `InsertGood`), which
rest on `Frame`: a request that changes nothing others have locked cannot disturb what they
know. Facts about finite sets come from `FiniteSetTheorems`.

`EnrollmentTableProofs` goes on from there, under the same assumption. Its inductive invariant
`TablesInv` says that the constraints of the table hold, that ids are below the sequence, that only
finitely many requests have arrived, and of each request (`Known`):

* `LocksKnown`: only a transfer waits for a course while it holds one, the smaller of its two; only a
  deletion holds enrollment rows.
* `SeatsKnown`: past the check for an existing enrollment there is none, and past the SELECT of the
  enrollment to move there is no other in the source course. Both last because the course is locked
  and whoever inserts into it needs the lock.
* `Settled`: nothing is committed before the COMMIT; after it the new row has an id below the sequence,
  so that it cannot come back once it is gone, and an error means that it is gone.

`OthersKnown` shows that what a request knows survives any step of another that inserts under new ids
into a course it has locked (`Careful`); then there is one lemma per endpoint. From the invariant follow
`TableConstraints` (`ReferentialIntegrity`), `ChecksHold` (`InsertNeverCollides`), `NoSeatAfterError`
(`ErrorLeavesNoSeat`), `TransferLeaves` (`TransferLeavesSource`: `TransferCommits` shows which step it
is that commits a transfer) and `NoDeadlock` (`NoDeadlockAmongEnrollers`). The last one is the
classical argument: in a deadlock of such requests each waits for a transfer that is half way, which waits
for a greater course than the one it has (`AsksForGreater`); of finitely many transfers one has the
greatest course (`HasGreatest`, by well-foundedness of strict inclusion); so there is none for it to
wait for.

`RequestPoolProofs` proves for any finite set of requests, any number of threads and connections
(`PoolAssumption`) that threads and connections are held only by open requests and never exceed what
there is (`TypeCorrect`), that nothing leaks (`NothingLeaks`: `EnoughForAll`) and that a transaction
that has begun is never refused a connection (`TransactionsFinish`: `ServedOnceConnected`). The
inductive invariant adds that an uncrowded pool has room (`RoomForAll`), that a failed request is over
(`FailedIsOver`), and that a request which has had a connection and has neither committed nor
failed still has it (`KeepsConnection`).

`TasksProofs` proves for all sets of requests and admins and all lists of tasks (`TasksAssumption`)
`TypeCorrect`, `OneMailPerTask` (`AtMostOneMail`), `FailuresRecorded` (`ExhaustedIsRecorded`) and, if
`MaxRetries = 3`, `RecordsTellTheTruth` (`RecordsAreTrue`): `_log_failed_task` writes the number 3
whatever `max_retries` was, so the hypothesis is needed. The invariant relates the number of
raised attempts to the loop (`RaisedNow`) and says that the tasks from the present one on have sent
nothing and have no record (`Untouched`).

`EnrollmentLedgerProofs` proves `EndpointsKeepLedger`: `Spec => ImplementsLedger`, that is, `Enrollment`
implements `SeatLedger` under the mapping the run checks (the courses, their limits, and the pairs of a
student and a course that have a row). `TableSteps` shows that five statements change the tables
and all others stutter: the INSERTs of the two enrollments, the statement pair of a transfer, the DELETE of one
row, the UPDATE of a limit, and the last statement of a deletion. Each is then one entry of the ledger
(`EnrollsIsEnrol`, `MovesIsMove`, `UnenrollsIsLeave`, `CascadesIsClose`; a limit by definition). What this
needs of the past is in `SeatsInv` and `TablesInv` (room, and no seat yet, so that as many pairs as rows
are new: `RowsAreNew`) and in one more invariant, `FoundInv`: the enrollment a transfer has found is,
as long as it is there, the one of its student in its source. The row may be gone, and then the step is
the ledger's `Move` of somebody who has left (first finding of section 6).

`AccountsProofs` proves for all seed users, roles, requests, emails and names (`AccountsAssumption`; the seed
users are finitely many) each property of the run: `TypesHold`, `OneSucceeds` (`OneWinner`),
`RefusalsHaveCause` (`RefusedForCause`), `DeactivatedStayOut` (`InactiveIsRefused`), `AvatarsAreStored`
(`AvatarIsStored`), `NobodyIsActivated` (`DeactivationSticks`) and `ColumnsStay` (`ProfileKeepsBoth`). The
invariant `AccountsInv` has the unique columns and, for each request, which endpoint a statement belongs
to (`Fits`), what it has found out and still relies on (`Knows`: rows of these tables are not
deleted, so what is found stays) and what its answer says (`Outcome`, `Stopped`). A step is `Good` when it only adds
rows and changes only columns of its own (`Grow`, `OwnColumns`), leaves other requests alone
(`Untouched`) and succeeds only with a key nobody had (`Wins`); a `Good` step keeps what the others know.

`CacheProofs` proves for all numbers of requests, rows, addresses and all sets of methods
(`CacheAssumption`, and `MethodsAssumption`: the methods are among those of the services)

* `TypesHold` and `ReadsAreAnswered` (`AnswersTheQuestion`), whatever fails or dies. `CacheInv` says that the
  key of an entry is the question its value answers (`EntryOK`); `KeyIsQuestion` that no two
  questions have a key in common, whatever the addresses of their service objects.
* `WrongOnlyWhileClearing` (`StaleOnlyWhileClearing`), *if* clearing does not fail and no process dies, the
  hypotheses under which the run checks it: `clear_cache` swallows the error, so without them it is false. The property says that
  *somebody* is clearing; that is not inductive, because he may have changed one row of an entry that
  is wrong in two, and be done first. `ClearInv` is: *each* row that makes an entry wrong has a request which has changed it and
  still has a pattern or the key itself before it (`Clears`). Failures of GET and SETEX are
  allowed, and so is expiry. Of the twenty-two methods the proof uses only `MutationFacts`: who
  refreshes a row changes no other and leaves it there, and no profile is deleted.

`CatalogProofs` proves for all requests, names, values and seed tables that obey the constraints
(`CatalogAssumption`, `OpsAssumption`): `TypesHold`, `AnswersShow` (`OwnOrOvertaken`), `NoRowAfterError`
(`ErrorLeavesNoRow`), `DetailsAreOne` (`DetailsAgree`), `ColumnsKept` (`FieldsOfOthersKept`),
`CategoriesKept` (`CategoryLostForCause`), `ErrorsHaveCause` (`ErrorForCause`), `DashboardsAddUp`
(`DashboardAgrees`) and `MethodsKeepContract` (`KeepsContract`). First come lemmas about
the operators that change tables (`ChangedRows`, `AddedRows`, `CategoryGoneRows`, `CourseGoneRows`: which
rows and cells they touch) and about the constraints (`ChangeIsAllowed`, `AddIsAllowed`,
`LessIsAllowed`: when the result is allowed). A commit `Respects` the tables if it brings no row back
and changes cells only to what its request gives them. The invariant `CatalogInv` then follows an
update from its load to its answer: before the write, every column of the row is as it was
loaded or as another has committed it (`Reads`); after it, as it was sent or as another has
committed it (`Written`); so also in the answer (`Told`). The first is why writing only altered
columns is enough: a column that is not written because it already had the value sent may
have changed since, but then somebody who has committed gave it its value. An earlier form of `ErrorForCause`
counted NULL in a column that may be NULL among the causes, which made it say nothing of courses
without an instructor; the proof of `ChangeIsAllowed` showed that this is not needed.

`DashboardsAddUp` needs a fact about sums: the total is taken over the courses that the grouped count returned,
the list has a 0 for the others, and zeros may be left out (`ZerosAddNothing`). A sum over a set is a recursive
function that takes one element after the other (`SumFunctionIs`). That it exists (`SumsExist`) and
that it does not matter which element comes first (`SumAny`) is usually shown by induction over the set, but the induction
theorems of the library take an operator as a parameter, which no installed prover can instantiate. The
proofs use a smallest counterexample instead (`HasSmallest`, from `WFMin` on cardinalities): the sets for which the
statement fails are a set, so they have a member of the least size, and without one of its elements
it is a smaller one.

`MethodsKeepContract` goes through the actions: each COMMIT is a `Change` if what it writes is the effect of
its request (`CommitIsChange`), which is shown method by method (`InsertIsCreate`, `UpdateIsUpdate`,
`MoveIsMove`, `DeleteCategoryIsDelete`, `DeleteCourseIsDelete`, `DeleteLessonIsDelete`); a refresh or a report
is a `Succeed` or a `Refuse` (`RefreshIsAnswer`, `ReportIsAnswer`), all other statements are a `Refuse` or cannot be
seen. Two facts about the past are not in `CatalogInv` and make up `Ready`: who is about to read
the row it has inserted has committed, and a course that a deletion of a category has found is still in it
unless another request has moved it. The second is preserved by other requests for the same reason as
`Reads`: a commit changes a cell only to what its request gives it.

Only model-checked is liveness under fairness (`EveryRequestAnswered`, `TasksEnd`, `StaleEntriesExpire`,
`EveryoneFinishes`), which is beyond the prover, as is `ENABLED`; all other properties of the passing
runs are theorems. Recursive operators are avoided because they disable the SMT backend. The four
counterexamples of section 6 are TLC's. The inductive invariants of `Cache`, `Accounts` and
`Catalog` were checked by TLC on the instances of the runs before they were proved.

## 6. Where the code and what is said of it disagree

Each is a counterexample of a run and is listed in `PROJECT.json`.

1. `TransferUnenroll`. "Move a student from one course to another atomically"
   (`advanced_service.py:324`). The source enrollment is read without a lock. If the student
   leaves the course in between, the DELETE finds nothing and the target seat is given anyway: a
   student who has left is enrolled elsewhere. What does hold is `TransferLeavesSource`.
2. `NewCourse`. "Create a new course and invalidate list caches" (`course_service.py:80`). The
   pattern `*:courses:get_courses:*` matches no key, since list keys have the resource
   `course`. The cached lists lack the course until they expire. Lessons and categories have the
   same gap: their mutations clear keys of other modules, or nothing.
3. `LostMail`. Failed deliveries are retried and persisted (`docs/revision_guide.md:83`). `_send`
   catches the error and the tasks ignore its return value: nothing is retried or recorded.
4. `AssignTwice`. "Idempotent — silently skips if already assigned" (`role_service.py:40`), "no error
   if already assigned" (`docs/rbac.md:89`). Of two assignments at the same time the second is
   answered by 500.

Also met while modelling and visible in the models, though no run is spent on them:
a reader that queries before a COMMIT and stores after the clearing puts an old list back, though clearing
"ensures stale lists are never served" (`docs/INT_cache.md:235`; `StaleOnlyWhileClearing` says when);
`delete_category` takes the category from a course that has meanwhile moved to another one
(`category_service.py:71`; the third disjunct of `MayMove`); an upload has replaced the file of the same
name even when its profile is then not written; a change is committed and answered by 500 when the pool is
exhausted before the refresh; two updates of one enrollment can leave the progress of one with the
completion of the other, as each writes the columns it has changed; a bulk enrollment whose course is deleted just after its COMMIT is answered by 500 although it was not
rolled back (harmless, as `ErrorLeavesNoSeat` shows: the deletion has taken the seats with it); the 404
of a transfer names the course it locked first or second instead of the missing one
(`advanced_service.py:341`, `MissingCourse`); the retries of a task whose session is broken cannot
succeed even when the database is back, and its failure is not recorded either, since the record is
inserted with the same session (`tasks.py:84`; `ExhaustedIsRecorded` excludes it); two identical list requests share a cache entry only when their
service objects happen to have the same address.

## 7. What is not modelled

* Content of rows, pages, filters, formatting, logging, templates: no property depends on them.
* Authentication and roles of the caller, except in `Accounts`: checks before a method runs (the
  other models let every request through). The kinds of tokens and their clock.
* The wait for a thread or a connection, except in `RequestPool`.
* `get_course_analytics`, a single SELECT, and `get_dashboard_stats`, five counts that need not agree.
* `delete_file` and `generate_presigned_url` of `S3Service`, which nothing calls.
* S3 and SMTP servers: external; a call succeeds or not.
* Loss of the database connection in `Enrollment`, `Accounts` and `Catalog`: before the COMMIT the
  transaction is rolled back as for a refused one, and the answer is 500.
* Schemas, configuration and the request log: declarations and output without behaviour of their own.
