------------------------------ MODULE Catalog ------------------------------
(***************************************************************************)
(* The tables of the catalog and who changes which column: the methods of  *)
(* CategoryService, LessonService and EnrollmentService that create,       *)
(* update and delete rows, those of CourseService and AdvancedService that *)
(* create, update, delete and recategorise courses, update_instructor, and *)
(* the constraints of the tables.                                          *)
(*                                                                         *)
(* Each request runs in a worker thread of its own; a step is a SELECT, or *)
(* the writes of a method with the COMMIT that follows them.  A method     *)
(* locks no row before it writes, and what it writes depends on what it    *)
(* has loaded and on its last statement only, so its transaction appears   *)
(* at the last write; until then it waits for others and shows nothing.    *)
(*                                                                         *)
(* Seats and locks of enrollments are in the module Enrollment.            *)
(***************************************************************************)
EXTENDS Integers, Sequences, FiniteSets, Functions

CONSTANTS
    Requests,      \* the requests that arrive
    Ops,           \* the methods they call
    Names,         \* the names of categories that clients send
    Values,        \* the values of the other columns
    Seeds          \* the tables before the first request

\* NULL.  0 is a value like any other: FALSE, an empty string, no progress.
Null == -1

-----------------------------------------------------------------------------
(* The tables.  "title" stands for every column of a course or a lesson    *)
(* that refers to nothing and may not be NULL, "bio" for one that may.     *)

Category   == {"name"}
Course     == {"title", "category_id", "instructor_id"}
Lesson     == {"title", "course_id"}
Enrollment == {"progress", "completed", "course_id"}
Instructor == {"bio"}

Columns == [categories |-> Category, courses |-> Course, lessons |-> Lesson,
            enrollments |-> Enrollment, instructors |-> Instructor]

Tables == DOMAIN Columns

NotNull    == {"name", "title", "progress", "completed", "course_id"}
References == [category_id |-> "categories", instructor_id |-> "instructors",
               course_id |-> "courses"]

\* A table is a function from the ids of its rows.
Rows(t) == [Columns[t] -> Int]

NoRow == [c \in {} |-> Null]

IsRow(row) == row = NoRow \/ \E t \in Tables : row \in Rows(t)

\* The constraints of the tables.
NamesDiffer(db) ==
    \A i, j \in DOMAIN db.categories :
        db.categories[i].name = db.categories[j].name => i = j

RowAllowed(db, row) ==
    \A c \in DOMAIN row :
        /\ c \in NotNull => row[c] # Null
        /\ c \in DOMAIN References => row[c] \in DOMAIN db[References[c]] \cup {Null}

Allowed(db) == /\ NamesDiffer(db)
               /\ \A t \in Tables : \A i \in DOMAIN db[t] : RowAllowed(db, db[t][i])

ASSUME CatalogAssumption ==
    /\ Names \subseteq Nat /\ Values \subseteq Nat
    /\ \A db \in Seeds :
          /\ DOMAIN db = Tables
          /\ \A t \in Tables : \E I \in SUBSET {1, 2} : db[t] \in [I -> Rows(t)]
          /\ Allowed(db)

VARIABLES
    tables,     \* what is committed
    nextId,     \* the sequence of ids; one for all tables keeps the rows apart
    pc,         \* the statement each request runs next
    job,        \* the method and parameters of each request
    loaded,     \* the row each request has loaded and works with
    kids,       \* the rows a deletion or a report has loaded with it, or a bulk update found
    made,       \* the ids of the rows each request has inserted
    answer,     \* the status code of each response, 0: none
    shown,      \* the row a response shows, or the numbers of a dashboard
    committed   \* history: the requests whose COMMIT has succeeded

vars == <<tables, nextId, pc, job, loaded, kids, made, answer, shown, committed>>

NoJob == [op |-> "none"]

-----------------------------------------------------------------------------
(* What clients send.  An id may be one that is not there (nextId).        *)

Ids(t) == DOMAIN tables[t] \cup {nextId}

\* The fields of the schemas of updates; each is left out, null or a value.
CategoryUpdate   == {"name"}
CourseUpdate     == {"title", "category_id", "instructor_id"}
LessonUpdate     == {"title"}
EnrollmentUpdate == {"progress", "completed"}
InstructorUpdate == {"bio"}

Fields == [update_category |-> CategoryUpdate, update_course |-> CourseUpdate,
           update_lesson |-> LessonUpdate, update_enrollment |-> EnrollmentUpdate,
           update_instructor |-> InstructorUpdate]

Inserts == {"create_category", "create_course", "create_lesson", "bulk_create_courses"}
Updates == DOMAIN Fields
Deletes == {"delete_category", "delete_course", "delete_lesson"}
Moves   == {"bulk_update_course_categories"}
Reports == {"get_course_detailed", "get_instructor_dashboard"}

ASSUME OpsAssumption == Ops \subseteq Inserts \cup Updates \cup Deletes \cup Moves \cup Reports

Target == [update_category |-> "categories", delete_category |-> "categories",
           update_course |-> "courses", delete_course |-> "courses",
           update_lesson |-> "lessons", delete_lesson |-> "lessons",
           update_enrollment |-> "enrollments", update_instructor |-> "instructors",
           get_course_detailed |-> "courses", get_instructor_dashboard |-> "instructors",
           create_category |-> "categories", create_course |-> "courses",
           bulk_create_courses |-> "courses", create_lesson |-> "lessons"]

Sent(c) == CASE c = "name" -> Names
             [] c \in DOMAIN References -> Ids(References[c])
             [] OTHER -> Values

Cells == UNION {Sent(c) : c \in UNION {Columns[t] : t \in Tables}} \cup {Null}

Payloads(op) == UNION {{f \in [F -> Cells] : \A c \in F : f[c] \in Sent(c) \cup {Null}} :
                       F \in SUBSET Fields[op]}

NewCourse(i) == [title |-> 0, category_id |-> i, instructor_id |-> Null]

Jobs(op) ==
    CASE op \in Updates -> [op : {op}, id : Ids(Target[op]), sets : Payloads(op)]
      [] op \in Deletes \cup Reports -> [op : {op}, id : Ids(Target[op])]
      [] op \in Moves -> [op : {op}, old : Ids("categories"), new : Ids("categories")]
      [] op = "create_category" -> {[op |-> op, rows |-> <<[name |-> n]>>] : n \in Names}
      [] op = "create_course" ->
            {[op |-> op, rows |-> <<NewCourse(i)>>] : i \in Ids("categories") \cup {Null}}
      [] op = "bulk_create_courses" ->
            {[op |-> op, rows |-> <<NewCourse(i), NewCourse(j)>>] :
             i, j \in Ids("categories") \cup {Null}}
      [] op = "create_lesson" ->
            {[op |-> op, rows |-> <<[title |-> 0, course_id |-> i]>>] : i \in Ids("courses")}

\* A method that reads nothing first starts with its write.
Entry(op) == CASE op \in {"create_course", "bulk_create_courses"} -> "write"
               [] op \in Moves -> "load"
               [] OTHER -> "find"

Arrive(r) ==
    /\ pc[r] = "new"
    /\ \E op \in Ops : \E j \in Jobs(op) :
          /\ job' = [job EXCEPT ![r] = j]
          /\ pc' = [pc EXCEPT ![r] = Entry(op)]
    /\ UNCHANGED <<tables, nextId, loaded, kids, made, answer, shown, committed>>

-----------------------------------------------------------------------------
(* How a step ends.                                                        *)

Is(r, ops, at) == job[r].op \in ops /\ pc[r] = at

Goto(r, l) == /\ pc' = [pc EXCEPT ![r] = l]
              /\ UNCHANGED <<tables, nextId, job, made, answer, shown, committed>>

Answer(r, code, row) == /\ pc' = [pc EXCEPT ![r] = "done"]
                        /\ answer' = [answer EXCEPT ![r] = code]
                        /\ shown' = [shown EXCEPT ![r] = row]
                        /\ UNCHANGED <<job, loaded, kids>>

\* The transaction is rolled back when the session is closed.
Refuse(r, code) == Answer(r, code, NoRow) /\ UNCHANGED <<tables, nextId, made, committed>>

\* Mutation: the tables are declared without constraints.
CommitAnything(r, db, n, next) ==
    /\ tables' = db
    /\ nextId' = nextId + n
    /\ made' = [made EXCEPT ![r] = nextId .. nextId + n - 1]
    /\ committed' = committed \cup {r}
    /\ pc' = [pc EXCEPT ![r] = next]
    /\ UNCHANGED <<job, loaded, kids, answer, shown>>

\* The writes of a method, n new rows among them, and COMMIT, unless a constraint
\* forbids the result.
Commit(r, db, n, next) ==
    \/ ~Allowed(db) /\ Refuse(r, 500)
    \/ /\ Allowed(db)
       /\ tables' = db
       /\ nextId' = nextId + n
       /\ made' = [made EXCEPT ![r] = nextId .. nextId + n - 1]
       /\ committed' = committed \cup {r}
       /\ \/ next = "done" /\ Answer(r, 200, NoRow)
          \/ /\ next # "done"
             /\ pc' = [pc EXCEPT ![r] = next]
             /\ UNCHANGED <<job, loaded, kids, answer, shown>>

\* The SELECT of a row that has to be there.
FindOr404(r, t, i, l) ==
    \/ i \notin DOMAIN tables[t] /\ Refuse(r, 404)
    \/ /\ i \in DOMAIN tables[t]
       /\ loaded' = [loaded EXCEPT ![r] = tables[t][i]]
       /\ Goto(r, l) /\ UNCHANGED kids

-----------------------------------------------------------------------------
(* The changes of tables that SQL statements and foreign keys make.        *)

With(db, t, f) == [db EXCEPT ![t] = f]

\* INSERT of rows under the next ids.
Added(t, new) ==
    With(tables, t, [i \in DOMAIN tables[t] \cup (nextId .. nextId + Len(new) - 1) |->
                        IF i < nextId THEN tables[t][i] ELSE new[i - nextId + 1]])

\* UPDATE of the given columns of the rows I of t.
Changed(db, t, I, sets) ==
    With(db, t, [i \in DOMAIN db[t] |->
                    IF i \in I THEN [c \in Columns[t] |-> IF c \in DOMAIN sets THEN sets[c]
                                                          ELSE db[t][i][c]]
                    ELSE db[t][i]])

\* DELETE of the rows I of t, and of the rows whose column c refers to one of I.
Removed(db, t, I) == With(db, t, [i \in DOMAIN db[t] \ I |-> db[t][i]])

Referring(db, t, c, i) == {j \in DOMAIN db[t] : db[t][j][c] = i}

\* ON DELETE SET NULL.
CategoryGone(db, i) ==
    Removed(Changed(db, "courses", Referring(db, "courses", "category_id", i),
                    [category_id |-> Null]),
            "categories", {i})

\* Mutation: only what the session has loaded is deleted with the course.
CourseGoneAlone(db, i) == Removed(db, "courses", {i})

\* ON DELETE CASCADE.
CourseGone(db, i) ==
    LET lessonsGone == Removed(db, "lessons", Referring(db, "lessons", "course_id", i))
    IN  Removed(Removed(lessonsGone, "enrollments",
                        Referring(db, "enrollments", "course_id", i)),
                "courses", {i})

-----------------------------------------------------------------------------
(* Creating rows.                                                          *)

\* create_category looks the name up first.
FindName(r) ==
    /\ Is(r, {"create_category"}, "find")
    /\ LET taken == \E i \in DOMAIN tables.categories :
                        tables.categories[i].name = job[r].rows[1].name
       IN  \/ taken /\ Refuse(r, 409)
           \/ ~taken /\ Goto(r, "write") /\ UNCHANGED <<loaded, kids>>

\* create_lesson looks the course up first.
FindCourse(r) ==
    /\ Is(r, {"create_lesson"}, "find")
    /\ FindOr404(r, "courses", job[r].rows[1].course_id, "write")

\* Mutation: each course of a bulk creation has a COMMIT of its own.
InsertEach(r) ==
    LET new   == job[r].rows
        first == Added(Target[job[r].op], <<new[1]>>)
        both  == Added(Target[job[r].op], new)
    IN  /\ Is(r, Inserts, "write")
        /\ \/ Len(new) = 1 /\ Commit(r, first, 1, "refresh")
           \/ Len(new) = 2 /\ Allowed(both) /\ Commit(r, both, 2, "done")
           \/ /\ Len(new) = 2 /\ Allowed(first) /\ ~Allowed(both)
              /\ tables' = first
              /\ nextId' = nextId + 1
              /\ made' = [made EXCEPT ![r] = {nextId}]
              /\ committed' = committed \cup {r}
              /\ Answer(r, 500, NoRow)

\* The INSERTs.  A bulk creation answers with the ids it has got from its flush.
InsertRows(r) ==
    LET new == job[r].rows
    IN  /\ Is(r, Inserts, "write")
        /\ Commit(r, Added(Target[job[r].op], new), Len(new),
                  IF job[r].op = "bulk_create_courses" THEN "done" ELSE "refresh")

-----------------------------------------------------------------------------
(* Updating rows.                                                          *)

FindRow(r) ==
    /\ Is(r, Updates \cup Deletes \cup {"get_instructor_dashboard"}, "find")
    /\ FindOr404(r, Target[job[r].op], job[r].id,
                 IF job[r].op \in {"delete_category", "get_instructor_dashboard"}
                 THEN "load" ELSE "write")

\* UPDATE of some columns of a row: no statement when there are none, and a
\* StaleDataError when the row is gone.
WriteColumns(r, sets) ==
    LET t == Target[job[r].op]
    IN  \/ /\ DOMAIN sets = {}
           /\ Goto(r, "refresh") /\ UNCHANGED <<loaded, kids>>
        \/ /\ DOMAIN sets # {} /\ job[r].id \notin DOMAIN tables[t]
           /\ Refuse(r, 500)
        \/ /\ DOMAIN sets # {} /\ job[r].id \in DOMAIN tables[t]
           /\ Commit(r, Changed(tables, t, {job[r].id}, sets), 0, "refresh")

\* What has been set to something else than what was loaded.
Altered(row, sets) == [c \in {d \in DOMAIN sets : sets[d] # row[d]} |-> sets[c]]

\* Mutation: every column is written, as it was read.
UpdateWholeRow(r) ==
    /\ Is(r, Updates, "write")
    /\ WriteColumns(r, [c \in DOMAIN loaded[r] |-> IF c \in DOMAIN job[r].sets
                                                  THEN job[r].sets[c] ELSE loaded[r][c]])

\* Mutation: only values that are true in Python are set.
UpdateTruthy(r) ==
    /\ Is(r, Updates, "write")
    /\ LET sets == Altered(loaded[r], job[r].sets)
       IN  WriteColumns(r, [c \in {d \in DOMAIN sets : sets[d] > 0} |-> sets[c]])

UpdateRow(r) == Is(r, Updates, "write") /\ WriteColumns(r, Altered(loaded[r], job[r].sets))

\* The row is read again for the response.
Refresh(r) ==
    LET t == Target[job[r].op]
        i == IF job[r].op \in Updates THEN job[r].id ELSE CHOOSE k \in made[r] : TRUE
    IN  /\ pc[r] = "refresh"
        /\ \/ i \notin DOMAIN tables[t] /\ Refuse(r, 500)
           \/ /\ i \in DOMAIN tables[t] /\ Answer(r, 200, tables[t][i])
              /\ UNCHANGED <<tables, nextId, made, committed>>

-----------------------------------------------------------------------------
(* Deleting rows.                                                          *)

Note(r, ids, l) == /\ kids' = [kids EXCEPT ![r] = ids]
                   /\ Goto(r, l) /\ UNCHANGED loaded

\* At the flush the ORM loads the courses of the category.
LoadCourses(r) ==
    /\ Is(r, {"delete_category"}, "load")
    /\ Note(r, Referring(tables, "courses", "category_id", job[r].id), "write")

\* UPDATE of the courses loaded, by id, then DELETE of the category.  A course that
\* is gone is a StaleDataError; a category that is gone is only a warning.
DeleteCategory(r) ==
    LET cleared == Changed(tables, "courses", kids[r], [category_id |-> Null])
    IN  /\ Is(r, {"delete_category"}, "write")
        /\ \/ ~(kids[r] \subseteq DOMAIN tables.courses) /\ Refuse(r, 500)
           \/ /\ kids[r] \subseteq DOMAIN tables.courses
              /\ Commit(r, CategoryGone(cleared, job[r].id), 0, "done")

\* The ORM loads the lessons and enrollments and deletes them by id, the foreign keys
\* delete those that are left: together, all there are.
DeleteCourse(r) ==
    /\ Is(r, {"delete_course"}, "write")
    /\ Commit(r, CourseGone(tables, job[r].id), 0, "done")

\* Mutation: the deletion is flushed, but not committed.
DeleteLessonUncommitted(r) ==
    /\ Is(r, {"delete_lesson"}, "write")
    /\ Answer(r, 200, NoRow)
    /\ UNCHANGED <<tables, nextId, made, committed>>

DeleteLesson(r) ==
    /\ Is(r, {"delete_lesson"}, "write")
    /\ Commit(r, Removed(tables, "lessons", {job[r].id}), 0, "done")

-----------------------------------------------------------------------------
(* bulk_update_course_categories: one UPDATE, which finds its rows, waits  *)
(* for those that others are changing, and looks at each again.            *)

FindCourses(r) ==
    /\ Is(r, Moves, "load")
    /\ Note(r, Referring(tables, "courses", "category_id", job[r].old), "write")

\* Mutation: the courses found are moved wherever they are by now.
MoveFound(r) ==
    /\ Is(r, Moves, "write")
    /\ Commit(r, Changed(tables, "courses", kids[r], [category_id |-> job[r].new]), 0, "done")

MoveCourses(r) ==
    LET still == kids[r] \cap Referring(tables, "courses", "category_id", job[r].old)
    IN  /\ Is(r, Moves, "write")
        /\ Commit(r, Changed(tables, "courses", still, [category_id |-> job[r].new]), 0, "done")

-----------------------------------------------------------------------------
(* Reports.                                                                *)

\* get_course_detailed: the course and, joined to it, its category.
FindDetailed(r) ==
    LET i == job[r].id
    IN  /\ Is(r, {"get_course_detailed"}, "find")
        /\ \/ i \notin DOMAIN tables.courses /\ Refuse(r, 404)
           \/ /\ i \in DOMAIN tables.courses
              /\ loaded' = [loaded EXCEPT ![r] = tables.courses[i]]
              /\ kids' = [kids EXCEPT ![r] = {tables.courses[i].category_id}
                                              \cap DOMAIN tables.categories]
              /\ Goto(r, "lessons")

\* get_instructor_dashboard: the courses of the instructor.
LoadTaught(r) ==
    /\ Is(r, {"get_instructor_dashboard"}, "load")
    /\ LET taught == Referring(tables, "courses", "instructor_id", job[r].id)
       IN  Note(r, taught, IF taught = {} THEN "count" ELSE "lessons")

\* Mutation: the category is loaded when the response is built.
LazyCategory(r) ==
    /\ Is(r, Reports, "lessons")
    /\ \/ /\ job[r].op = "get_course_detailed"
          /\ kids' = [kids EXCEPT ![r] = {loaded[r].category_id} \cap DOMAIN tables.categories]
          /\ pc' = [pc EXCEPT ![r] = "done"]
          /\ answer' = [answer EXCEPT ![r] = 200]
          /\ shown' = [shown EXCEPT ![r] = loaded[r]]
          /\ UNCHANGED <<tables, nextId, job, loaded, made, committed>>
       \/ /\ job[r].op = "get_instructor_dashboard"
          /\ Goto(r, "count") /\ UNCHANGED <<loaded, kids>>

\* The lessons of these courses, of which nothing is said here.
LoadLessons(r) ==
    /\ Is(r, Reports, "lessons")
    /\ \/ /\ job[r].op = "get_course_detailed"
          /\ Answer(r, 200, loaded[r])
          /\ UNCHANGED <<tables, nextId, made, committed>>
       \/ /\ job[r].op = "get_instructor_dashboard"
          /\ Goto(r, "count") /\ UNCHANGED <<loaded, kids>>

Students(i) == Cardinality(Referring(tables, "enrollments", "course_id", i))

\* The dashboard with the students of the courses I: GROUP BY has no row for a course
\* without any, and the course is shown with 0.
ShowCounts(r, I) ==
    LET counted == {i \in I : Students(i) > 0}
    IN  /\ Is(r, {"get_instructor_dashboard"}, "count")
        /\ Answer(r, 200, [total |-> SumFunction([i \in counted |-> Students(i)]),
                           students |-> [i \in kids[r] |-> IF i \in counted THEN Students(i) ELSE 0]])
        /\ UNCHANGED <<tables, nextId, made, committed>>

\* Mutation: the courses of the instructor are looked up once more.
CountTaught(r) ==
    ShowCounts(r, Referring(tables, "courses", "instructor_id", job[r].id))

CountStudents(r) == ShowCounts(r, kids[r])

-----------------------------------------------------------------------------

\* Transactions that lock several rows of the same tables, in orders of their own.
Sweeps == {{"delete_category", "bulk_update_course_categories"}, {"delete_course"}}

\* One of those that wait for each other is rolled back.
DeadlockVictim(r) ==
    /\ \E S \in Sweeps : /\ Is(r, S, "write")
                        /\ \E q \in Requests \ {r} : Is(q, S, "write")
    /\ Refuse(r, 500)

Step(r) == \/ FindName(r) \/ FindCourse(r) \/ InsertRows(r)
           \/ FindRow(r) \/ UpdateRow(r) \/ Refresh(r)
           \/ LoadCourses(r) \/ DeleteCategory(r) \/ DeleteCourse(r) \/ DeleteLesson(r)
           \/ FindCourses(r) \/ MoveCourses(r) \/ DeadlockVictim(r)
           \/ FindDetailed(r) \/ LoadTaught(r) \/ LoadLessons(r) \/ CountStudents(r)

AllAnswered == (\A r \in Requests : pc[r] = "done") /\ UNCHANGED vars

Init == /\ tables \in Seeds
        /\ nextId = 3
        /\ pc = [r \in Requests |-> "new"]
        /\ job = [r \in Requests |-> NoJob]
        /\ loaded = [r \in Requests |-> NoRow]
        /\ kids = [r \in Requests |-> {}]
        /\ made = [r \in Requests |-> {}]
        /\ answer = [r \in Requests |-> 0]
        /\ shown = [r \in Requests |-> NoRow]
        /\ committed = {}

Next == (\E r \in Requests : Arrive(r) \/ Step(r)) \/ AllAnswered

Spec == Init /\ [][Next]_vars

-----------------------------------------------------------------------------
(* Properties                                                              *)

\* The types of the variables; the tables obey their constraints.
TypeOK ==
    /\ \A t \in Tables : tables[t] \in [DOMAIN tables[t] -> Rows(t)]
    /\ \A t \in Tables : DOMAIN tables[t] \subseteq 1 .. nextId - 1
    /\ Allowed(tables)
    /\ \A r \in Requests : /\ kids[r] \cup made[r] \subseteq 1 .. nextId - 1
                          /\ IsRow(loaded[r])
                          /\ job[r].op # "get_instructor_dashboard" => IsRow(shown[r])
    /\ answer \in [Requests -> {0, 200, 404, 409, 500}]
    /\ committed \subseteq Requests

\* What a request gives a cell: by a field it sends, by moving courses to a category,
\* or by deleting the category.
Gives(r, t, i, c, v) ==
    \/ /\ job[r].op \in Updates
       /\ t = Target[job[r].op] /\ i = job[r].id
       /\ c \in DOMAIN job[r].sets /\ job[r].sets[c] = v
    \/ /\ t = "courses" /\ c = "category_id"
       /\ \/ job[r].op \in Moves /\ v = job[r].new
          \/ job[r].op = "delete_category" /\ v = Null

\* Two requests that change different fields of a row, the progress and the completion
\* of an enrollment or the title and the category of a course, both keep their change:
\* no step changes a cell but by what its own request gives it.
FieldsOfOthersKept ==
    [][\A t \in Tables : \A i \in DOMAIN tables[t] \cap DOMAIN tables'[t] : \A c \in Columns[t] :
          tables'[t][i][c] # tables[t][i][c] =>
             \E r \in committed' \ committed : Gives(r, t, i, c, tables'[t][i][c])]_vars

\* Whether a request may take course i out of the category.
MayMove(r, i, category) ==
    \/ job[r].op = "update_course" /\ job[r].id = i
    \/ job[r].op \in Moves /\ job[r].old = category
    \/ job[r].op = "delete_category" /\ (job[r].id = category \/ i \in kids[r])

\* A course loses its category to a request that gives it another, to a move of the
\* category it is in at that moment, or to the deletion of a category that it is in,
\* or was in when the deletion loaded its courses.
CategoryLostForCause ==
    [][\A i \in DOMAIN tables.courses \cap DOMAIN tables'.courses :
          tables'.courses[i].category_id # tables.courses[i].category_id =>
             \E r \in committed' \ committed : MayMove(r, i, tables.courses[i].category_id)]_vars

\* The row in the answer of an update or a creation shows what the request has sent,
\* 0 and NULL included, or what another request has written over it.
OwnOrOvertaken ==
    \A r \in Requests :
        (answer[r] = 200 /\ shown[r] # NoRow /\ job[r].op \in Updates \cup Inserts) =>
            LET t    == Target[job[r].op]
                i    == IF job[r].op \in Updates THEN job[r].id ELSE CHOOSE k \in made[r] : TRUE
                sent == IF job[r].op \in Updates THEN job[r].sets ELSE job[r].rows[1]
            IN  \A c \in DOMAIN sent :
                   \/ shown[r][c] = sent[c]
                   \/ \E q \in committed \ {r} : Gives(q, t, i, c, shown[r][c])

\* A course in detail is shown with the category that it names, although categories are
\* deleted and courses move while its lessons are loaded.
DetailsAgree ==
    \A r \in Requests :
        (answer[r] = 200 /\ job[r].op = "get_course_detailed") =>
            kids[r] = {shown[r].category_id} \ {Null}

\* A dashboard whose statements saw different states still agrees with itself: the number
\* of all students is the sum of those of the courses shown.
DashboardAgrees ==
    \A r \in Requests :
        (answer[r] = 200 /\ job[r].op = "get_instructor_dashboard") =>
            shown[r].total = SumFunction(shown[r].students)

\* A request that is answered with an error leaves no row behind that it has inserted,
\* although it may have committed before the error: the row is then gone again.
ErrorLeavesNoRow ==
    \A r \in Requests :
        answer[r] >= 400 /\ made[r] # {} => made[r] \cap DOMAIN tables[Target[job[r].op]] = {}

\* What is wrong with a row or the fields a request sends.
Wrong(f) ==
    \E c \in DOMAIN f :
        \/ c \in NotNull /\ f[c] = Null
        \/ c \in DOMAIN References /\ f[c] \notin DOMAIN tables[References[c]] \cup {Null}
        \/ c = "name" /\ \E i \in DOMAIN tables.categories : tables.categories[i].name = f[c]

\* What may make a request fail.
Cause(r) ==
    LET op == job[r].op
    IN  \/ op \in Updates /\ (Wrong(job[r].sets) \/ job[r].id \notin DOMAIN tables[Target[op]])
        \/ op \in Inserts /\ \/ \E k \in DOMAIN job[r].rows : Wrong(job[r].rows[k])
                             \/ made[r] # {} /\ made[r] \cap DOMAIN tables[Target[op]] = {}
        \/ op \in Moves /\ job[r].new \notin DOMAIN tables.categories
        \/ op = "delete_category" /\ ~(kids[r] \subseteq DOMAIN tables.courses)
        \/ op \in Deletes \cup Moves /\ \E q \in Requests \ {r} : /\ pc[q] = "write"
                                                               /\ job[q].op \in Deletes \cup Moves

\* A 500 always has a cause in what the request asks for: a name that another category
\* has, a category or course that is not there, a null where there may be none, a row
\* (or a course of the deleted category) that somebody has deleted meanwhile, or a
\* deadlock.  A column that a request does not send is never the cause.
ErrorForCause == [][\A r \in Requests : (answer[r] = 0 /\ answer'[r] = 500) => Cause(r)]_vars

\* Every request is one atomic change of the tables or none, though it consists of several
\* statements between which others commit; the change is what the request asks for, all of
\* a bulk creation, a deletion with everything that hangs on it; and the answer tells
\* whether it was made.
Contract == INSTANCE CatalogContract WITH
                Reading <- Reports, Inserting <- Inserts, Updating <- Updates, Moving <- Moves,
                done <- committed

KeepsContract == Contract!Spec
=============================================================================
