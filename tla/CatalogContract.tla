-------------------------- MODULE CatalogContract --------------------------
(***************************************************************************)
(* What the methods of the catalog promise whoever calls them, apart from  *)
(* how they keep the promise: each request changes the tables in one       *)
(* atomic step between its call and its answer, or not at all; what the    *)
(* step does is what the request has asked for and no more; 200 means that *)
(* it is done, 404 and 409 that it is not.  No statement, no session, no   *)
(* loaded row can be seen here, only the tables, the requests and the      *)
(* answers.                                                                *)
(***************************************************************************)
EXTENDS Integers, Sequences

CONSTANTS Requests,    \* the requests that arrive
          Reading,     \* the methods that only read
          Inserting,   \* the methods that create rows
          Updating,    \* those that update a row
          Moving,      \* those that move the courses of a category to another
          Target,      \* the table each method is about
          References,  \* the table each foreign key refers to
          NotNull,     \* the columns that may not be NULL
          Null

VARIABLES tables,   \* the rows of each table by their ids
          job,      \* what each request asks for
          answer,   \* the status code of its answer, 0: none
          done      \* the requests that have changed the tables

vars == <<tables, job, answer, done>>

\* Names differ, columns that have to be there are, references lead somewhere.
Consistent(db) ==
    /\ \A i, j \in DOMAIN db.categories :
          db.categories[i].name = db.categories[j].name => i = j
    /\ \A t \in DOMAIN db : \A i \in DOMAIN db[t] : \A c \in DOMAIN db[t][i] :
          /\ c \in NotNull => db[t][i][c] # Null
          /\ c \in DOMAIN References => db[t][i][c] \in DOMAIN db[References[c]] \cup {Null}

Init == /\ Consistent(tables)
        /\ \A r \in Requests : job[r].op = "none"
        /\ answer = [r \in Requests |-> 0]
        /\ done = {}

-----------------------------------------------------------------------------
(* What a request may do to the tables.                                    *)

\* The rows of t whose column c refers to i, the rows of t without those, and the
\* courses with another category for those of K.
Of(t, c, i)   == {k \in DOMAIN tables[t] : tables[t][k][c] = i}
Without(t, I) == [k \in DOMAIN tables[t] \ I |-> tables[t][k]]
Placed(K, i)  == [k \in DOMAIN tables.courses |->
                     IF k \in K THEN [tables.courses[k] EXCEPT !.category_id = i]
                     ELSE tables.courses[k]]

\* All the rows a request sends get ids nobody had, and nothing else happens.
Create(r, t) ==
    /\ job[r].op \in Inserting
    /\ \E ids \in [DOMAIN job[r].rows -> DOMAIN tables'[t] \ DOMAIN tables[t]] :
          /\ \A k, l \in DOMAIN ids : ids[k] = ids[l] => k = l
          /\ DOMAIN tables'[t] = DOMAIN tables[t] \cup {ids[k] : k \in DOMAIN ids}
          /\ \A k \in DOMAIN ids : tables'[t][ids[k]] = job[r].rows[k]
    /\ \A i \in DOMAIN tables[t] : tables'[t][i] = tables[t][i]
    /\ tables' = [tables EXCEPT ![t] = tables'[t]]

\* A cell has its value from another request, which has made its change before.
Overtaken(r, t, i, c) ==
    \E q \in done \ {r} :
        \/ /\ job[q].op \in Updating
           /\ t = Target[job[q].op] /\ i = job[q].id
           /\ c \in DOMAIN job[q].sets /\ job[q].sets[c] = tables[t][i][c]
        \/ /\ t = "courses" /\ c = "category_id"
           /\ \/ job[q].op \in Moving /\ tables[t][i][c] = job[q].new
              \/ job[q].op = "delete_category" /\ tables[t][i][c] = Null

\* The columns C of the row a request is about are as it wants them, or as others do.
AsSent(r, t, C) ==
    /\ job[r].id \in DOMAIN tables[t]
    /\ \A c \in C : \/ tables[t][job[r].id][c] = job[r].sets[c]
                    \/ Overtaken(r, t, job[r].id, c)

\* Some of the columns sent are given the values sent, the others need not be.
Update(r, t) ==
    /\ job[r].op \in Updating
    /\ \E C \in SUBSET DOMAIN job[r].sets :
          /\ AsSent(r, t, DOMAIN job[r].sets \ C)
          /\ tables' = [tables EXCEPT ![t][job[r].id] =
                           [c \in DOMAIN @ |-> IF c \in C THEN job[r].sets[c] ELSE @[c]]]

\* The courses of a category are left without one.  So may be those that others have
\* moved elsewhere while it was being deleted.
DeleteCategory(r) ==
    /\ job[r].op = "delete_category"
    /\ \E K \in SUBSET DOMAIN tables.courses :
          /\ Of("courses", "category_id", job[r].id) \subseteq K
          /\ \A k \in K : \/ tables.courses[k].category_id = job[r].id
                          \/ Overtaken(r, "courses", k, "category_id")
          /\ tables' = [tables EXCEPT !.categories = Without("categories", {job[r].id}),
                                      !.courses = Placed(K, Null)]

\* A course goes with all its lessons and enrollments.
DeleteCourse(r) ==
    /\ job[r].op = "delete_course"
    /\ tables' = [tables EXCEPT
          !.courses = Without("courses", {job[r].id}),
          !.lessons = Without("lessons", Of("lessons", "course_id", job[r].id)),
          !.enrollments = Without("enrollments", Of("enrollments", "course_id", job[r].id))]

DeleteLesson(r) ==
    /\ job[r].op = "delete_lesson"
    /\ tables' = [tables EXCEPT !.lessons = Without("lessons", {job[r].id})]

\* Only courses of the old category move, and they all move to the new one; a course
\* that gets into the old category at the same time may stay behind.
Move(r) ==
    /\ job[r].op \in Moving
    /\ \E K \in SUBSET Of("courses", "category_id", job[r].old) :
          tables' = [tables EXCEPT !.courses = Placed(K, job[r].new)]

Effect(r) == \/ Create(r, Target[job[r].op]) \/ Update(r, Target[job[r].op])
             \/ DeleteCategory(r) \/ DeleteCourse(r) \/ DeleteLesson(r) \/ Move(r)

-----------------------------------------------------------------------------

Errors == {404, 409, 500}

\* A client sends a request.
Call(r) == /\ job[r].op = "none"
           /\ \A q \in Requests \ {r} : job'[q] = job[q]
           /\ UNCHANGED <<tables, answer, done>>

\* The change of a request, at once and for the first time, and perhaps its answer.
Change(r) == /\ answer[r] = 0 /\ r \notin done
             /\ Effect(r) /\ Consistent(tables')
             /\ done' = done \cup {r}
             /\ answer' \in {answer, [answer EXCEPT ![r] = 200]}
             /\ UNCHANGED job

\* Whoever has made a change, or has none to make, succeeds.
Succeed(r) == /\ answer[r] = 0
              /\ \/ r \in done
                 \/ job[r].op \in Reading
                 \/ job[r].op \in Updating /\ AsSent(r, Target[job[r].op], DOMAIN job[r].sets)
              /\ answer' = [answer EXCEPT ![r] = 200]
              /\ UNCHANGED <<tables, job, done>>

\* A request is refused and has changed nothing; or its answer is lost, as the row it
\* would show has been deleted.
Refuse(r) == /\ answer[r] = 0 /\ job[r].op # "none"
             /\ \E code \in Errors :
                   /\ r \in done => code = 500 /\ job[r].op \in Inserting \cup Updating
                   /\ answer' = [answer EXCEPT ![r] = code]
             /\ UNCHANGED <<tables, job, done>>

Next == \E r \in Requests : Call(r) \/ Change(r) \/ Succeed(r) \/ Refuse(r)

Spec == Init /\ [][Next]_vars
=============================================================================
