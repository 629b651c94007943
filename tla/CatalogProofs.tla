--------------------------- MODULE CatalogProofs ---------------------------
(***************************************************************************)
(* Proofs about Catalog for every set of requests, names, values and seed  *)
(* tables: no change of another column is undone, a course loses its       *)
(* category only for a reason, answers show what was sent or what came     *)
(* after it, errors have a cause and leave no row behind, a dashboard adds *)
(* up, and the methods keep the contract of CatalogContract.               *)
(***************************************************************************)
EXTENDS Catalog, TLAPS, FiniteSetTheorems, NaturalsInduction, WellFoundedInduction

-----------------------------------------------------------------------------
(* The invariant.                                                          *)

Methods == Inserts \cup Updates \cup Deletes \cup Moves \cup Reports

Labels == {"new", "find", "load", "lessons", "count", "write", "refresh", "done"}

\* Tables of typed rows.
Typed(db) == /\ DOMAIN db = Tables
             /\ \A t \in Tables : db[t] \in [DOMAIN db[t] -> Rows(t)]

\* Ids come from the sequence.
Below(db, n) == \A t \in Tables : DOMAIN db[t] \subseteq 1 .. n - 1

TablesOK == /\ nextId \in Nat \ {0}
            /\ Typed(tables)
            /\ Below(tables, nextId)
            /\ Allowed(tables)

Frames ==
    /\ pc \in [Requests -> Labels]
    /\ DOMAIN job = Requests
    /\ DOMAIN loaded = Requests
    /\ DOMAIN kids = Requests
    /\ DOMAIN made = Requests
    /\ answer \in [Requests -> {0, 200, 404, 409, 500}]
    /\ DOMAIN shown = Requests
    /\ committed \subseteq Requests

\* What clients send.
JobOK(j) ==
    /\ j.op \in Methods
    /\ j.op \in Updates => /\ DOMAIN j.sets \subseteq Fields[j.op]
                           /\ \A c \in DOMAIN j.sets : j.sets[c] \in Int
    /\ j.op \in Inserts => /\ j.rows \in Seq(Rows(Target[j.op]))
                           /\ Len(j.rows) = 1 \/ (Len(j.rows) = 2 /\ j.op = "bulk_create_courses")
    /\ j.op \in Moves => j.new \in Int

\* The row an update or a creation is about, and what it asks for.
RowOf(r)  == IF job[r].op \in Updates THEN job[r].id ELSE CHOOSE k \in made[r] : TRUE
WantOf(r) == IF job[r].op \in Updates THEN job[r].sets ELSE job[r].rows[1]

\* Gives, for the job of a request.
Assigns(j, t, i, c, v) ==
    \/ /\ j.op \in Updates
       /\ t = Target[j.op] /\ i = j.id
       /\ c \in DOMAIN j.sets /\ j.sets[c] = v
    \/ /\ t = "courses" /\ c = "category_id"
       /\ \/ j.op \in Moves /\ v = j.new
          \/ j.op = "delete_category" /\ v = Null

\* A row has the values wanted, or those another request has given it.
Shows(r, t, i, row, want) ==
    \A c \in DOMAIN want :
        row[c] = want[c] \/ \E q \in committed \ {r} : Assigns(job[q], t, i, c, row[c])

\* The types of what a request works with.
Works(r) ==
    /\ IF pc[r] = "new" THEN job[r] = NoJob ELSE JobOK(job[r])
    /\ kids[r] \cup made[r] \subseteq 1 .. nextId - 1
    /\ IsRow(loaded[r])
    /\ job[r].op # "get_instructor_dashboard" => IsRow(shown[r])

\* Nothing is committed or answered before its time.
Awaits(r) ==
    /\ pc[r] \notin {"refresh", "done"} => made[r] = {} /\ r \notin committed
    /\ pc[r] # "done" => answer[r] = 0

\* An update that is about to write: the row has changed since it was loaded only where
\* others have given it something.
Reads(r) ==
    LET t == Target[job[r].op]
    IN  (pc[r] = "write" /\ job[r].op \in Updates) =>
            /\ loaded[r] \in Rows(t)
            /\ job[r].id \in 1 .. nextId - 1
            /\ job[r].id \in DOMAIN tables[t] =>
                  Shows(r, t, job[r].id, tables[t][job[r].id], loaded[r])

\* A request that has written, and its answer.
Written(r) ==
    LET t == Target[job[r].op]
    IN  pc[r] = "refresh" =>
            /\ job[r].op \in (Updates \cup Inserts) \ {"bulk_create_courses"}
            /\ job[r].op \in Inserts => made[r] = {RowOf(r)}
            /\ job[r].op \in Updates => made[r] = {}
            /\ RowOf(r) \in 1 .. nextId - 1
            /\ RowOf(r) \in DOMAIN tables[t] =>
                  Shows(r, t, RowOf(r), tables[t][RowOf(r)], WantOf(r))

Told(r) ==
    LET t == Target[job[r].op]
    IN  /\ (answer[r] = 200 /\ shown[r] # NoRow /\ job[r].op \in Updates \cup Inserts) =>
              Shows(r, t, RowOf(r), shown[r], WantOf(r))
        /\ (answer[r] >= 400 /\ made[r] # {}) => /\ job[r].op \in Inserts
                                                 /\ made[r] \cap DOMAIN tables[t] = {}

\* A course in detail and the category that is joined to it.
Joined(r) ==
    job[r].op = "get_course_detailed" =>
        /\ pc[r] = "lessons" => kids[r] = {loaded[r].category_id} \ {Null}
        /\ answer[r] = 200 => kids[r] = {shown[r].category_id} \ {Null}

\* What is known of one request.
RequestInv(r) == Works(r) /\ Awaits(r) /\ Reads(r) /\ Written(r) /\ Told(r) /\ Joined(r)

\* The inductive invariant.
CatalogInv == TablesOK /\ Frames /\ \A r \in Requests : RequestInv(r)

-----------------------------------------------------------------------------
(* The tables and their columns.                                           *)

\* The names of the tables, and the columns of each.
LEMMA TheTables ==
    /\ Tables = {"categories", "courses", "lessons", "enrollments", "instructors"}
    /\ Columns["categories"] = {"name"}
    /\ Columns["courses"] = {"title", "category_id", "instructor_id"}
    /\ Columns["lessons"] = {"title", "course_id"}
    /\ Columns["enrollments"] = {"progress", "completed", "course_id"}
    /\ Columns["instructors"] = {"bio"}
BY DEF Tables, Columns, Category, Course, Lesson, Enrollment, Instructor

\* What each foreign key refers to.
LEMMA TheReferences ==
    /\ DOMAIN References = {"category_id", "instructor_id", "course_id"}
    /\ References["category_id"] = "categories"
    /\ References["instructor_id"] = "instructors"
    /\ References["course_id"] = "courses"
BY DEF References

\* The methods that have a target, and the fields an update may send.
LEMMA TheTargets ==
    /\ Updates = {"update_category", "update_course", "update_lesson", "update_enrollment",
                  "update_instructor"}
    /\ \A op \in Updates \cup Inserts : Target[op] \in Tables
    /\ \A op \in Updates : Fields[op] \subseteq Columns[Target[op]]
    /\ Target["create_category"] = "categories" /\ Target["create_lesson"] = "lessons"
    /\ Target["create_course"] = "courses" /\ Target["bulk_create_courses"] = "courses"
    /\ \A op \in Deletes \cup Reports : Target[op] \in Tables
<1>1. Updates = {"update_category", "update_course", "update_lesson", "update_enrollment",
                 "update_instructor"}
  BY DEF Updates, Fields
<1>2. \A op \in Updates \cup Inserts : Target[op] \in Tables
  BY <1>1, TheTables DEF Inserts, Target
<1>3. \A op \in Updates : Fields[op] \subseteq Columns[Target[op]]
  BY <1>1, TheTables DEF Fields, Target, CategoryUpdate, CourseUpdate, LessonUpdate,
     EnrollmentUpdate, InstructorUpdate
<1>4. \A op \in Deletes \cup Reports : Target[op] \in Tables
  BY TheTables DEF Deletes, Reports, Target
<1> QED
  BY <1>1, <1>2, <1>3, <1>4 DEF Target

-----------------------------------------------------------------------------
(* What the changes of tables do to their cells.                           *)

\* An UPDATE leaves all rows where they are.
LEMMA ChangedRows ==
    ASSUME NEW db, Typed(db), NEW t \in Tables, NEW I, NEW sets,
           \A c \in DOMAIN sets : sets[c] \in Int
    PROVE  /\ Typed(Changed(db, t, I, sets))
           /\ \A u \in Tables : DOMAIN Changed(db, t, I, sets)[u] = DOMAIN db[u]
           /\ \A u \in Tables \ {t} : Changed(db, t, I, sets)[u] = db[u]
           /\ \A i \in DOMAIN db[t], c \in Columns[t] :
                 Changed(db, t, I, sets)[t][i][c] =
                     IF i \in I /\ c \in DOMAIN sets THEN sets[c] ELSE db[t][i][c]
<1> DEFINE new == [i \in DOMAIN db[t] |->
                      IF i \in I THEN [c \in Columns[t] |-> IF c \in DOMAIN sets THEN sets[c]
                                                            ELSE db[t][i][c]]
                      ELSE db[t][i]]
           after == Changed(db, t, I, sets)
<1>1. after = [db EXCEPT ![t] = new]
  BY DEF Changed, With
<1>2. DOMAIN after = Tables /\ after[t] = new /\ \A u \in Tables \ {t} : after[u] = db[u]
  BY <1>1 DEF Typed
<1>3. db[t] \in [DOMAIN db[t] -> Rows(t)]
  BY DEF Typed
<1>4. \A i \in DOMAIN db[t] : new[i] \in Rows(t)
  BY <1>3 DEF Rows
<1>5. new \in [DOMAIN db[t] -> Rows(t)] /\ DOMAIN new = DOMAIN db[t]
  BY <1>4
<1>6. \A i \in DOMAIN db[t], c \in Columns[t] :
          new[i][c] = IF i \in I /\ c \in DOMAIN sets THEN sets[c] ELSE db[t][i][c]
  BY <1>3
<1> HIDE DEF new, after
<1>7. \A u \in Tables : after[u] \in [DOMAIN after[u] -> Rows(u)] /\ DOMAIN after[u] = DOMAIN db[u]
  <2> SUFFICES ASSUME NEW u \in Tables
               PROVE  after[u] \in [DOMAIN after[u] -> Rows(u)] /\ DOMAIN after[u] = DOMAIN db[u]
    OBVIOUS
  <2>1. CASE u = t
    BY <1>2, <1>5, <2>1
  <2>2. CASE u # t
    BY <1>2, <2>2 DEF Typed
  <2> QED
    BY <2>1, <2>2
<1>8. Typed(after)
  BY <1>2, <1>7 DEF Typed
<1> QED
  BY <1>2, <1>6, <1>7, <1>8 DEF after

\* A DELETE changes no row that is left.
LEMMA RemovedRows ==
    ASSUME NEW db, Typed(db), NEW t \in Tables, NEW I
    PROVE  /\ Typed(Removed(db, t, I))
           /\ DOMAIN Removed(db, t, I)[t] = DOMAIN db[t] \ I
           /\ \A i \in DOMAIN db[t] \ I : Removed(db, t, I)[t][i] = db[t][i]
           /\ \A u \in Tables \ {t} : Removed(db, t, I)[u] = db[u]
<1> DEFINE new == [i \in DOMAIN db[t] \ I |-> db[t][i]]
           after == Removed(db, t, I)
<1>1. after = [db EXCEPT ![t] = new]
  BY DEF Removed, With
<1>2. DOMAIN after = Tables /\ after[t] = new /\ \A u \in Tables \ {t} : after[u] = db[u]
  BY <1>1 DEF Typed
<1>3. db[t] \in [DOMAIN db[t] -> Rows(t)]
  BY DEF Typed
<1>4. new \in [DOMAIN db[t] \ I -> Rows(t)] /\ DOMAIN new = DOMAIN db[t] \ I
  BY <1>3
<1> HIDE DEF new, after
<1>5. \A u \in Tables : after[u] \in [DOMAIN after[u] -> Rows(u)]
  <2> SUFFICES ASSUME NEW u \in Tables
               PROVE  after[u] \in [DOMAIN after[u] -> Rows(u)]
    OBVIOUS
  <2>1. CASE u = t
    BY <1>2, <1>4, <2>1
  <2>2. CASE u # t
    BY <1>2, <2>2 DEF Typed
  <2> QED
    BY <2>1, <2>2
<1>6. Typed(after)
  BY <1>2, <1>5 DEF Typed
<1> QED
  BY <1>2, <1>4, <1>6 DEF after, new

\* INSERTs put new rows after the old ones.
LEMMA AddedRows ==
    ASSUME TablesOK, NEW t \in Tables, NEW new \in Seq(Rows(t))
    PROVE  /\ Typed(Added(t, new))
           /\ Below(Added(t, new), nextId + Len(new))
           /\ \A u \in Tables \ {t} : Added(t, new)[u] = tables[u]
           /\ DOMAIN Added(t, new)[t] = DOMAIN tables[t] \cup (nextId .. nextId + Len(new) - 1)
           /\ \A i \in DOMAIN tables[t] : Added(t, new)[t][i] = tables[t][i]
           /\ \A k \in 1 .. Len(new) : Added(t, new)[t][nextId + k - 1] = new[k]
<1> DEFINE I == DOMAIN tables[t] \cup (nextId .. nextId + Len(new) - 1)
           f == [i \in I |-> IF i < nextId THEN tables[t][i] ELSE new[i - nextId + 1]]
           after == Added(t, new)
<1>1. after = [tables EXCEPT ![t] = f]
  BY DEF Added, With
<1>2. /\ DOMAIN tables = Tables /\ tables[t] \in [DOMAIN tables[t] -> Rows(t)]
      /\ nextId \in Nat \ {0} /\ Len(new) \in Nat
      /\ \A u \in Tables : DOMAIN tables[u] \subseteq 1 .. nextId - 1
  BY DEF TablesOK, Typed, Below
<1>3. after[t] = f /\ DOMAIN after = Tables /\ \A u \in Tables \ {t} : after[u] = tables[u]
  BY <1>1, <1>2
<1>4. \A i \in DOMAIN tables[t] : i \in I /\ i < nextId /\ f[i] = tables[t][i]
  BY <1>2
<1>5. \A k \in 1 .. Len(new) : nextId + k - 1 \in I /\ f[nextId + k - 1] = new[k]
  <2> SUFFICES ASSUME NEW k \in 1 .. Len(new)
               PROVE  nextId + k - 1 \in I /\ f[nextId + k - 1] = new[k]
    OBVIOUS
  <2>1. nextId + k - 1 \in nextId .. nextId + Len(new) - 1 /\ ~(nextId + k - 1 < nextId)
        /\ (nextId + k - 1) - nextId + 1 = k
    BY <1>2
  <2> QED
    BY <2>1
<1>6. \A i \in I : f[i] \in Rows(t)
  <2> SUFFICES ASSUME NEW i \in I PROVE f[i] \in Rows(t)
    OBVIOUS
  <2>1. CASE i < nextId
    BY <1>2, <2>1
  <2>2. CASE ~(i < nextId)
    <3>1. i - nextId + 1 \in 1 .. Len(new)
      BY <1>2, <2>2
    <3> QED
      BY <2>2, <3>1
  <2> QED
    BY <2>1, <2>2
<1>7. f \in [I -> Rows(t)] /\ DOMAIN f = I
  BY <1>6
<1> HIDE DEF f, after
<1>8. \A u \in Tables : /\ after[u] \in [DOMAIN after[u] -> Rows(u)]
                        /\ DOMAIN after[u] \subseteq 1 .. nextId + Len(new) - 1
  <2> SUFFICES ASSUME NEW u \in Tables
               PROVE  /\ after[u] \in [DOMAIN after[u] -> Rows(u)]
                      /\ DOMAIN after[u] \subseteq 1 .. nextId + Len(new) - 1
    OBVIOUS
  <2>1. CASE u = t
    BY <1>2, <1>3, <1>7, <2>1
  <2>2. CASE u # t
    <3>1. after[u] = tables[u] /\ DOMAIN after[u] \subseteq 1 .. nextId - 1
      BY <1>2, <1>3, <2>2
    <3>2. after[u] \in [DOMAIN after[u] -> Rows(u)]
      BY <3>1 DEF TablesOK, Typed
    <3> QED
      BY <1>2, <3>1, <3>2
  <2> QED
    BY <2>1, <2>2
<1>9. Typed(after)
  BY <1>3, <1>8 DEF Typed
<1>10. Below(after, nextId + Len(new))
  <2>1. (nextId + Len(new)) - 1 = nextId + Len(new) - 1
    BY <1>2
  <2> QED
    BY <1>8, <2>1 DEF Below
<1> QED
  BY <1>3, <1>4, <1>5, <1>7, <1>9, <1>10 DEF after

\* What is left of the catalog without category i.
LEMMA CategoryGoneRows ==
    ASSUME NEW db, Typed(db), NEW i
    PROVE  /\ Typed(CategoryGone(db, i))
           /\ DOMAIN CategoryGone(db, i)["categories"] = DOMAIN db["categories"] \ {i}
           /\ \A k \in DOMAIN db["categories"] \ {i} :
                 CategoryGone(db, i)["categories"][k] = db["categories"][k]
           /\ \A u \in Tables \ {"categories"} : DOMAIN CategoryGone(db, i)[u] = DOMAIN db[u]
           /\ \A u \in Tables \ {"categories", "courses"} : CategoryGone(db, i)[u] = db[u]
           /\ \A k \in DOMAIN db["courses"], c \in Columns["courses"] :
                 CategoryGone(db, i)["courses"][k][c] =
                     IF c = "category_id" /\ db["courses"][k]["category_id"] = i THEN Null
                     ELSE db["courses"][k][c]
<1> DEFINE I == Referring(db, "courses", "category_id", i)
           sets == [category_id |-> Null]
           mid == Changed(db, "courses", I, sets)
           after == Removed(mid, "categories", {i})
<1>1. DOMAIN sets = {"category_id"} /\ sets["category_id"] = Null
      /\ \A c \in DOMAIN sets : sets[c] \in Int
  BY DEF Null
<1>2. "courses" \in Tables /\ "categories" \in Tables
  BY TheTables
<1>3. I = {k \in DOMAIN db["courses"] : db["courses"][k]["category_id"] = i}
  BY DEF Referring
<1> HIDE DEF I, sets
<1>4. /\ Typed(mid)
      /\ \A u \in Tables : DOMAIN mid[u] = DOMAIN db[u]
      /\ \A u \in Tables \ {"courses"} : mid[u] = db[u]
      /\ \A k \in DOMAIN db["courses"], c \in Columns["courses"] :
            mid["courses"][k][c] = IF k \in I /\ c \in DOMAIN sets THEN sets[c]
                                   ELSE db["courses"][k][c]
  BY <1>1, <1>2, ChangedRows
<1> HIDE DEF mid
<1>5. /\ Typed(after)
      /\ DOMAIN after["categories"] = DOMAIN mid["categories"] \ {i}
      /\ \A k \in DOMAIN mid["categories"] \ {i} :
            after["categories"][k] = mid["categories"][k]
      /\ \A u \in Tables \ {"categories"} : after[u] = mid[u]
  BY <1>2, <1>4, RemovedRows
<1>6. \A k \in DOMAIN db["courses"], c \in Columns["courses"] :
          mid["courses"][k][c] =
              IF c = "category_id" /\ db["courses"][k]["category_id"] = i THEN Null
              ELSE db["courses"][k][c]
  BY <1>1, <1>3, <1>4
<1>7. CategoryGone(db, i) = after
  BY DEF CategoryGone, after, mid, I, sets
<1> HIDE DEF after
<1> QED
  BY <1>2, <1>4, <1>5, <1>6, <1>7

\* What is left of the catalog without course i.
LEMMA CourseGoneRows ==
    ASSUME NEW db, Typed(db), NEW i
    PROVE  /\ Typed(CourseGone(db, i))
           /\ \A u \in Tables : /\ DOMAIN CourseGone(db, i)[u] \subseteq DOMAIN db[u]
                                /\ \A k \in DOMAIN CourseGone(db, i)[u] :
                                      CourseGone(db, i)[u][k] = db[u][k]
           /\ DOMAIN CourseGone(db, i)["courses"] = DOMAIN db["courses"] \ {i}
           /\ \A u \in {"categories", "instructors"} : CourseGone(db, i)[u] = db[u]
           /\ \A u \in {"lessons", "enrollments"} : \A k \in DOMAIN CourseGone(db, i)[u] :
                 CourseGone(db, i)[u][k]["course_id"] # i
<1> DEFINE I == Referring(db, "lessons", "course_id", i)
           J == Referring(db, "enrollments", "course_id", i)
           d1 == Removed(db, "lessons", I)
           d2 == Removed(d1, "enrollments", J)
           d3 == Removed(d2, "courses", {i})
<1>1. Tables = {"categories", "courses", "lessons", "enrollments", "instructors"}
  BY TheTables
<1>2. /\ I = {k \in DOMAIN db["lessons"] : db["lessons"][k]["course_id"] = i}
      /\ J = {k \in DOMAIN db["enrollments"] : db["enrollments"][k]["course_id"] = i}
  BY DEF Referring
<1>3. CourseGone(db, i) = d3
  BY DEF CourseGone
<1> HIDE DEF I, J
<1>4. /\ Typed(d1)
      /\ DOMAIN d1["lessons"] = DOMAIN db["lessons"] \ I
      /\ \A k \in DOMAIN db["lessons"] \ I : d1["lessons"][k] = db["lessons"][k]
      /\ \A u \in Tables \ {"lessons"} : d1[u] = db[u]
  BY <1>1, RemovedRows
<1> HIDE DEF d1
<1>5. /\ Typed(d2)
      /\ DOMAIN d2["enrollments"] = DOMAIN d1["enrollments"] \ J
      /\ \A k \in DOMAIN d1["enrollments"] \ J : d2["enrollments"][k] = d1["enrollments"][k]
      /\ \A u \in Tables \ {"enrollments"} : d2[u] = d1[u]
  BY <1>1, <1>4, RemovedRows
<1> HIDE DEF d2
<1>6. /\ Typed(d3)
      /\ DOMAIN d3["courses"] = DOMAIN d2["courses"] \ {i}
      /\ \A k \in DOMAIN d2["courses"] \ {i} : d3["courses"][k] = d2["courses"][k]
      /\ \A u \in Tables \ {"courses"} : d3[u] = d2[u]
  BY <1>1, <1>5, RemovedRows
<1> HIDE DEF d3
<1>7. /\ d3["categories"] = db["categories"] /\ d3["instructors"] = db["instructors"]
      /\ d3["lessons"] = d1["lessons"] /\ d3["enrollments"] = d2["enrollments"]
      /\ d2["courses"] = db["courses"] /\ d1["enrollments"] = db["enrollments"]
  BY <1>1, <1>4, <1>5, <1>6
<1>8. \A u \in {"lessons", "enrollments"} : \A k \in DOMAIN d3[u] : d3[u][k]["course_id"] # i
  BY <1>2, <1>4, <1>5, <1>7
<1>9. \A u \in Tables : /\ DOMAIN d3[u] \subseteq DOMAIN db[u]
                        /\ \A k \in DOMAIN d3[u] : d3[u][k] = db[u][k]
  <2> SUFFICES ASSUME NEW u \in Tables
               PROVE  /\ DOMAIN d3[u] \subseteq DOMAIN db[u]
                      /\ \A k \in DOMAIN d3[u] : d3[u][k] = db[u][k]
    OBVIOUS
  <2>1. CASE u = "lessons"
    BY <1>4, <1>7, <2>1
  <2>2. CASE u = "enrollments"
    BY <1>5, <1>7, <2>2
  <2>3. CASE u = "courses"
    BY <1>6, <1>7, <2>3
  <2> QED
    BY <1>1, <1>7, <2>1, <2>2, <2>3
<1> QED
  BY <1>3, <1>6, <1>7, <1>8, <1>9

-----------------------------------------------------------------------------
(* What a step of r may do.                                                *)

\* The requests other than r keep all they have.
Only(r) ==
    \A q \in Requests \ {r} :
        /\ pc'[q] = pc[q] /\ job'[q] = job[q] /\ loaded'[q] = loaded[q]
        /\ kids'[q] = kids[q] /\ made'[q] = made[q]
        /\ answer'[q] = answer[q] /\ shown'[q] = shown[q]

\* Tables that r may leave behind: no row comes back, and every cell is as it was or as r
\* has asked for; a course loses its category only to who may take it.
Respects(r, db) ==
    /\ \A t \in Tables : \A i \in DOMAIN db[t] : i < nextId => i \in DOMAIN tables[t]
    /\ \A t \in Tables : \A i \in DOMAIN tables[t] \cap DOMAIN db[t] : \A c \in Columns[t] :
          db[t][i][c] # tables[t][i][c] => Assigns(job[r], t, i, c, db[t][i][c])
    /\ \A i \in DOMAIN tables["courses"] \cap DOMAIN db["courses"] :
          db["courses"][i]["category_id"] # tables["courses"][i]["category_id"] =>
             MayMove(r, i, tables["courses"][i]["category_id"])

\* The tables change with the COMMIT, and a request commits once.
Careful(r) ==
    /\ Only(r)
    /\ nextId <= nextId'
    /\ \/ UNCHANGED <<tables, committed>>
       \/ r \notin committed /\ committed' = committed \cup {r} /\ Respects(r, tables')
    /\ job'[r] = job[r] \/ (pc[r] = "new" /\ committed' = committed)

Caused(r) == (answer[r] = 0 /\ answer'[r] = 500) => Cause(r)

Good(r) == TablesOK' /\ Frames' /\ RequestInv(r)' /\ Careful(r) /\ Caused(r)

\* Ids that have been given stay given.
LEMMA IdsStay ==
    ASSUME NEW m \in Nat, NEW n \in Nat, m <= n
    PROVE  /\ 1 .. m - 1 \subseteq 1 .. n - 1
           /\ \A k \in 1 .. m - 1 : k \in 1 .. n - 1 /\ k < m
OBVIOUS

\* A request keeps its job once it has one.
LEMMA JobsStay ==
    ASSUME CatalogInv, NEW r \in Requests, Careful(r), NEW q \in committed
    PROVE  job'[q] = job[q]
<1>1. q \in Requests
  BY DEF CatalogInv, Frames
<1>2. CASE q = r
  <2>1. pc[r] # "new"
    BY <1>2 DEF CatalogInv, RequestInv, Awaits
  <2> QED
    BY <1>2, <2>1 DEF Careful
<1>3. CASE q # r
  BY <1>1, <1>3 DEF Careful, Only
<1> QED
  BY <1>2, <1>3

\* What a row of q shows, it shows after a step of another, who may only have put values
\* of its own in.
LEMMA ShowsAfter ==
    ASSUME CatalogInv, NEW r \in Requests, Careful(r), NEW q \in Requests \ {r},
           NEW t, NEW i, NEW row, NEW want, Shows(q, t, i, row, want)
    PROVE  Shows(q, t, i, row, want)'
<1> SUFFICES ASSUME NEW c \in DOMAIN want, row[c] # want[c]
             PROVE  \E p \in committed' \ {q} : Assigns(job'[p], t, i, c, row[c])
  BY DEF Shows
<1>1. PICK p \in committed \ {q} : Assigns(job[p], t, i, c, row[c])
  BY DEF Shows
<1>2. p \in committed' /\ job'[p] = job[p]
  BY JobsStay DEF Careful
<1> QED
  BY <1>1, <1>2

\* The same for a row of the tables, which the step may have changed.
LEMMA RowShowsAfter ==
    ASSUME CatalogInv, NEW r \in Requests, Careful(r), NEW q \in Requests \ {r},
           NEW t \in Tables, NEW i \in 1 .. nextId - 1, NEW want, DOMAIN want \subseteq Columns[t],
           i \in DOMAIN tables[t] => Shows(q, t, i, tables[t][i], want),
           i \in DOMAIN tables'[t]
    PROVE  Shows(q, t, i, tables[t][i], want)' /\ i \in DOMAIN tables[t]
<1>0. i < nextId
  BY DEF CatalogInv, TablesOK
<1>1. i \in DOMAIN tables[t] /\ Shows(q, t, i, tables[t][i], want)
  BY <1>0 DEF Careful, Respects
<1> SUFFICES ASSUME NEW c \in DOMAIN want, tables'[t][i][c] # want[c]
             PROVE  \E p \in committed' \ {q} : Assigns(job'[p], t, i, c, tables'[t][i][c])
  BY <1>1 DEF Shows
<1>2. CASE tables'[t][i][c] = tables[t][i][c]
  <2>1. PICK p \in committed \ {q} : Assigns(job[p], t, i, c, tables[t][i][c])
    BY <1>1, <1>2 DEF Shows
  <2>2. p \in committed' /\ job'[p] = job[p]
    BY JobsStay DEF Careful
  <2> QED
    BY <1>2, <2>1, <2>2
<1>3. CASE tables'[t][i][c] # tables[t][i][c]
  <2>1. /\ r \notin committed /\ committed' = committed \cup {r} /\ Respects(r, tables')
        /\ job'[r] = job[r]
    BY <1>3 DEF Careful
  <2>2. Assigns(job[r], t, i, c, tables'[t][i][c])
    BY <1>1, <1>3, <2>1 DEF Respects
  <2> QED
    BY <2>1, <2>2
<1> QED
  BY <1>2, <1>3

\* No step disturbs another request.
LEMMA OthersKept ==
    ASSUME CatalogInv, NEW r \in Requests, Good(r), NEW q \in Requests \ {r}
    PROVE  RequestInv(q)'
<1>1. /\ pc'[q] = pc[q] /\ job'[q] = job[q] /\ loaded'[q] = loaded[q]
      /\ kids'[q] = kids[q] /\ made'[q] = made[q]
      /\ answer'[q] = answer[q] /\ shown'[q] = shown[q]
  BY DEF Good, Careful, Only
<1>0. nextId \in Nat /\ nextId' \in Nat /\ nextId <= nextId'
  BY DEF CatalogInv, TablesOK, Good, Careful
<1>2. RequestInv(q)
  BY DEF CatalogInv
<1>3. Careful(r) /\ (q \in committed' <=> q \in committed)
  BY DEF Good, Careful
<1>4. RowOf(q)' = RowOf(q) /\ WantOf(q)' = WantOf(q)
  BY <1>1 DEF RowOf, WantOf
<1>5. Works(q)'
  <2>1. 1 .. nextId - 1 \subseteq 1 .. nextId' - 1
    BY <1>0, IdsStay
  <2> QED
    BY <1>1, <1>2, <2>1 DEF RequestInv, Works
<1>6. Awaits(q)'
  BY <1>1, <1>2, <1>3 DEF RequestInv, Awaits
<1>7. PICK t : t = Target[job[q].op]
  OBVIOUS
<1>8. PICK i : i = RowOf(q)
  OBVIOUS
<1>9. PICK want : want = WantOf(q)
  OBVIOUS
<1>10. \A k \in 1 .. nextId - 1 : k \in 1 .. nextId' - 1 /\ k < nextId
  BY <1>0, IdsStay
<1>11. Reads(q)'
  <2> SUFFICES ASSUME pc[q] = "write", job[q].op \in Updates
               PROVE  /\ loaded[q] \in Rows(t)
                      /\ job[q].id \in 1 .. nextId' - 1
                      /\ job[q].id \in DOMAIN tables'[t] =>
                            Shows(q, t, job[q].id, tables[t][job[q].id], loaded[q])'
    BY <1>1, <1>7 DEF Reads
  <2>1. /\ loaded[q] \in Rows(t) /\ job[q].id \in 1 .. nextId - 1 /\ t \in Tables
        /\ job[q].id \in DOMAIN tables[t] =>
              Shows(q, t, job[q].id, tables[t][job[q].id], loaded[q])
    BY <1>2, <1>7, TheTargets DEF RequestInv, Reads
  <2>2. PICK k : k = job[q].id
    OBVIOUS
  <2>3. PICK row : row = loaded[q]
    OBVIOUS
  <2>4. DOMAIN row \subseteq Columns[t]
    BY <2>1, <2>3 DEF Rows
  <2>5. k \in DOMAIN tables'[t] => Shows(q, t, k, tables[t][k], row)'
    BY <1>3, <2>1, <2>2, <2>3, <2>4, RowShowsAfter
  <2> QED
    BY <1>1, <1>10, <2>1, <2>2, <2>3, <2>5 DEF Shows
<1>12. Written(q)'
  <2> SUFFICES ASSUME pc[q] = "refresh"
               PROVE  i \in DOMAIN tables'[t] => Shows(q, t, i, tables[t][i], want)'
    BY <1>1, <1>2, <1>4, <1>7, <1>8, <1>9, <1>10 DEF RequestInv, Written, Shows
  <2>1. /\ job[q].op \in Updates \cup Inserts /\ i \in 1 .. nextId - 1
        /\ i \in DOMAIN tables[t] => Shows(q, t, i, tables[t][i], want)
    BY <1>2, <1>7, <1>8, <1>9 DEF RequestInv, Written
  <2>2. t \in Tables
    BY <1>7, <2>1, TheTargets
  <2>3. DOMAIN want \subseteq Columns[t]
    <3>1. JobOK(job[q])
      BY <1>2 DEF RequestInv, Works
    <3>2. CASE job[q].op \in Updates
      BY <1>7, <1>9, <3>1, <3>2, TheTargets DEF JobOK, WantOf
    <3>3. CASE job[q].op \notin Updates
      <4>1. job[q].rows \in Seq(Rows(t)) /\ (Len(job[q].rows) = 1 \/ Len(job[q].rows) = 2)
        BY <1>7, <2>1, <3>1, <3>3 DEF JobOK
      <4>2. job[q].rows[1] \in Rows(t)
        BY <4>1
      <4> QED
        BY <1>9, <3>3, <4>2 DEF WantOf, Rows
    <3> QED
      BY <3>2, <3>3
  <2> QED
    BY <1>3, <2>1, <2>2, <2>3, RowShowsAfter
<1>13. Told(q)'
  <2>1. ASSUME answer[q] = 200, shown[q] # NoRow, job[q].op \in Updates \cup Inserts
        PROVE  Shows(q, t, i, shown[q], want)'
    <3>1. PICK row : row = shown[q]
      OBVIOUS
    <3>2. Shows(q, t, i, row, want)
      BY <1>2, <1>7, <1>8, <1>9, <2>1, <3>1 DEF RequestInv, Told
    <3>3. Shows(q, t, i, row, want)'
      BY <1>3, <3>2, ShowsAfter
    <3> QED
      BY <1>1, <3>1, <3>3 DEF Shows
  <2>2. ASSUME answer[q] >= 400, made[q] # {}
        PROVE  job[q].op \in Inserts /\ made[q] \cap DOMAIN tables'[t] = {}
    <3>1. job[q].op \in Inserts /\ made[q] \cap DOMAIN tables[t] = {} /\ t \in Tables
          /\ made[q] \subseteq 1 .. nextId - 1
      BY <1>2, <1>7, <2>2, TheTargets DEF RequestInv, Told, Works
    <3>2. \A k \in 1 .. nextId - 1 : k \in DOMAIN tables'[t] => k \in DOMAIN tables[t]
      BY <1>3, <1>10, <3>1 DEF Careful, Respects
    <3> QED
      BY <3>1, <3>2
  <2> QED
    BY <1>1, <1>4, <1>7, <1>8, <1>9, <2>1, <2>2 DEF Told, Shows
<1>14. Joined(q)'
  BY <1>1, <1>2 DEF RequestInv, Joined
<1> QED
  BY <1>5, <1>6, <1>11, <1>12, <1>13, <1>14 DEF RequestInv

-----------------------------------------------------------------------------
(* How steps end.                                                          *)

\* What clients may send in a cell is a number.
LEMMA SentIsInt ==
    ASSUME TablesOK, NEW c, NEW v \in Sent(c) \cup {Null}
    PROVE  v \in Int
<1>1. \A t \in Tables : Ids(t) \subseteq Int
  BY DEF TablesOK, Below, Ids
<1>2. CASE v = Null
  BY <1>2 DEF Null
<1>3. CASE c = "name" /\ v \in Sent(c)
  BY <1>3, CatalogAssumption, TheReferences DEF Sent
<1>4. CASE c # "name" /\ c \in DOMAIN References /\ v \in Sent(c)
  <2>1. v \in Ids(References[c]) /\ References[c] \in Tables
    BY <1>4, TheReferences, TheTables DEF Sent
  <2> QED
    BY <1>1, <2>1
<1>5. CASE c # "name" /\ c \notin DOMAIN References /\ v \in Sent(c)
  BY <1>5, CatalogAssumption DEF Sent
<1> QED
  BY <1>2, <1>3, <1>4, <1>5

\* The row of a course that is created.
LEMMA NewCourseIsRow ==
    ASSUME TablesOK, NEW i \in Ids("categories") \cup {Null}
    PROVE  NewCourse(i) \in Rows("courses")
<1>1. i \in Int
  BY TheTables DEF TablesOK, Below, Ids, Null
<1> QED
  BY <1>1, TheTables DEF NewCourse, Rows, Null

\* What clients send has the form the methods expect.
LEMMA JobsOK ==
    ASSUME TablesOK, NEW op \in Ops, NEW j \in Jobs(op)
    PROVE  JobOK(j) /\ j.op = op
<1>1. op \in Methods
  BY OpsAssumption DEF Methods
<1>2. Updates \cap (Inserts \cup Deletes \cup Moves \cup Reports) = {}
  BY TheTargets DEF Inserts, Deletes, Moves, Reports
<1>3. CASE op \in Updates
  <2>0. /\ op \notin Deletes \cup Reports /\ op \notin Moves
        /\ op # "create_category" /\ op # "create_course" /\ op # "bulk_create_courses"
        /\ op # "create_lesson"
    BY <1>2, <1>3 DEF Inserts
  <2>1. j \in [op : {op}, id : Ids(Target[op]), sets : Payloads(op)]
    BY <1>3, <2>0 DEF Jobs
  <2>2. j.op = op /\ j.sets \in Payloads(op)
    BY <2>1
  <2>3. PICK F \in SUBSET Fields[op] : j.sets \in {f \in [F -> Cells] :
                                            \A c \in F : f[c] \in Sent(c) \cup {Null}}
    BY <2>2 DEF Payloads
  <2>4. DOMAIN j.sets = F /\ \A c \in F : j.sets[c] \in Int
    BY <2>3, SentIsInt
  <2> QED
    BY <1>1, <1>2, <1>3, <2>2, <2>3, <2>4 DEF JobOK
<1>4. CASE op \in Deletes \cup Reports
  <2>0. /\ op \notin Updates /\ op \notin Moves
        /\ op # "create_category" /\ op # "create_course" /\ op # "bulk_create_courses"
        /\ op # "create_lesson"
    BY <1>2, <1>4 DEF Deletes, Reports, Moves
  <2>1. j \in [op : {op}, id : Ids(Target[op])]
    BY <1>4, <2>0 DEF Jobs
  <2>2. op \notin Inserts \cup Moves
    BY <1>4 DEF Inserts, Moves, Deletes, Reports
  <2> QED
    BY <1>1, <1>2, <1>4, <2>1, <2>2 DEF JobOK
<1>5. CASE op \in Moves
  <2>1. op \notin Inserts \cup Deletes \cup Reports
    BY <1>5 DEF Inserts, Moves, Deletes, Reports
  <2>2. j \in [op : {op}, old : Ids("categories"), new : Ids("categories")]
    <3>1. /\ op \notin Updates /\ op \notin Deletes \cup Reports
          /\ op # "create_category" /\ op # "create_course" /\ op # "bulk_create_courses"
          /\ op # "create_lesson"
      BY <1>2, <1>5, <2>1 DEF Moves
    <3> QED
      BY <1>5, <3>1 DEF Jobs
  <2>3. j.new \in Int
    BY <2>2, TheTables DEF TablesOK, Below, Ids
  <2> QED
    BY <1>1, <1>2, <1>5, <2>1, <2>2, <2>3 DEF JobOK
<1>6. CASE op \in Inserts
  <2>1. op \notin Updates \cup Deletes \cup Reports \cup Moves
    BY <1>2, <1>6 DEF Inserts, Moves, Deletes, Reports
  <2>2. /\ j.op = op
        /\ j.rows \in Seq(Rows(Target[op]))
        /\ Len(j.rows) = 1 \/ (Len(j.rows) = 2 /\ op = "bulk_create_courses")
    <3>1. CASE op = "create_category"
      <4>1. PICK n \in Names : j = [op |-> op, rows |-> <<[name |-> n]>>]
        BY <2>1, <3>1 DEF Jobs
      <4>2. [name |-> n] \in Rows("categories") /\ Target[op] = "categories"
        BY <3>1, CatalogAssumption, TheTables, TheTargets DEF Rows
      <4>3. PICK row : row = [name |-> n]
        OBVIOUS
      <4>4. <<row>> \in Seq(Rows(Target[op])) /\ Len(<<row>>) = 1
        BY <4>2, <4>3
      <4> QED
        BY <4>1, <4>3, <4>4
    <3>2. CASE op = "create_course"
      <4>1. PICK i \in Ids("categories") \cup {Null} : j = [op |-> op, rows |-> <<NewCourse(i)>>]
        BY <2>1, <3>2 DEF Jobs
      <4>2. NewCourse(i) \in Rows("courses") /\ Target[op] = "courses"
        BY <3>2, TheTargets, NewCourseIsRow
      <4>3. PICK row : row = NewCourse(i)
        OBVIOUS
      <4>4. <<row>> \in Seq(Rows(Target[op])) /\ Len(<<row>>) = 1
        BY <4>2, <4>3
      <4> QED
        BY <4>1, <4>3, <4>4
    <3>3. CASE op = "bulk_create_courses"
      <4>1. PICK i \in Ids("categories") \cup {Null}, k \in Ids("categories") \cup {Null} :
                j = [op |-> op, rows |-> <<NewCourse(i), NewCourse(k)>>]
        BY <2>1, <3>3 DEF Jobs
      <4>2. /\ NewCourse(i) \in Rows("courses") /\ NewCourse(k) \in Rows("courses")
            /\ Target[op] = "courses"
        BY <3>3, TheTargets, NewCourseIsRow
      <4>3. PICK row, more : row = NewCourse(i) /\ more = NewCourse(k)
        OBVIOUS
      <4>4. <<row, more>> \in Seq(Rows(Target[op])) /\ Len(<<row, more>>) = 2
        BY <4>2, <4>3
      <4> QED
        BY <3>3, <4>1, <4>3, <4>4
    <3>4. CASE op = "create_lesson"
      <4>1. PICK i \in Ids("courses") :
                j = [op |-> op, rows |-> <<[title |-> 0, course_id |-> i]>>]
        BY <2>1, <3>4 DEF Jobs
      <4>2. i \in Int
        BY TheTables DEF TablesOK, Below, Ids
      <4>3. [title |-> 0, course_id |-> i] \in Rows("lessons") /\ Target[op] = "lessons"
        BY <3>4, <4>2, TheTables, TheTargets DEF Rows
      <4>4. PICK row : row = [title |-> 0, course_id |-> i]
        OBVIOUS
      <4>5. <<row>> \in Seq(Rows(Target[op])) /\ Len(<<row>>) = 1
        BY <4>3, <4>4
      <4> QED
        BY <4>1, <4>4, <4>5
    <3> QED
      BY <1>6, <3>1, <3>2, <3>3, <3>4 DEF Inserts
  <2> QED
    BY <1>1, <1>6, <2>1, <2>2 DEF JobOK
<1> QED
  BY <1>1, <1>3, <1>4, <1>5, <1>6 DEF Methods

\* A request arrives.
LEMMA ArriveGood ==
    ASSUME CatalogInv, NEW r \in Requests, Arrive(r)
    PROVE  Good(r)
<1>1. PICK op \in Ops : \E j \in Jobs(op) : /\ job' = [job EXCEPT ![r] = j]
                                           /\ pc' = [pc EXCEPT ![r] = Entry(op)]
  BY DEF Arrive
<1>2. PICK j \in Jobs(op) : job' = [job EXCEPT ![r] = j] /\ pc' = [pc EXCEPT ![r] = Entry(op)]
  BY <1>1
<1>3. pc[r] = "new" /\ UNCHANGED <<tables, nextId, loaded, kids, made, answer, shown, committed>>
  BY DEF Arrive
<1>4. JobOK(j) /\ j.op = op
  BY JobsOK DEF CatalogInv
<1>5. Entry(op) \in {"write", "load", "find"} /\ (op \in Updates => Entry(op) = "find")
  BY TheTargets DEF Entry, Moves
<1>6. TablesOK /\ Frames /\ RequestInv(r)
  BY DEF CatalogInv
<1>7. job'[r] = j /\ pc'[r] = Entry(op) /\ \A q \in Requests \ {r} : job'[q] = job[q] /\ pc'[q] = pc[q]
  BY <1>2, <1>6 DEF Frames
<1>8. Frames'
  BY <1>2, <1>3, <1>5, <1>6 DEF Frames, Labels
<1>9. TablesOK'
  BY <1>3, <1>6 DEF TablesOK
<1>10. job[r].op = "none"
  BY <1>3, <1>6 DEF RequestInv, Works, NoJob
<1>11. Works(r)'
  BY <1>3, <1>4, <1>5, <1>6, <1>7, <1>10 DEF RequestInv, Works
<1>12. Awaits(r)' /\ answer[r] = 0
  BY <1>3, <1>5, <1>6, <1>7 DEF RequestInv, Awaits
<1>13. Reads(r)' /\ Written(r)' /\ Told(r)' /\ Joined(r)'
  BY <1>3, <1>4, <1>5, <1>7, <1>12 DEF Reads, Written, Told, Joined
<1>14. Careful(r)
  <2>1. nextId <= nextId'
    BY <1>3, <1>6 DEF TablesOK
  <2> QED
    BY <1>3, <1>7, <2>1 DEF Careful, Only
<1>15. Caused(r)
  BY <1>3, <1>12 DEF Caused
<1> QED
  BY <1>8, <1>9, <1>11, <1>12, <1>13, <1>14, <1>15 DEF Good, RequestInv

\* What the invariant says of the tables and of one request.
LEMMA Entered ==
    ASSUME CatalogInv, NEW r \in Requests
    PROVE  /\ TablesOK /\ Frames /\ RequestInv(r)
           /\ pc[r] \notin {"refresh", "done"} => made[r] = {} /\ r \notin committed
           /\ pc[r] # "done" => answer[r] = 0
           /\ pc[r] # "new" => JobOK(job[r]) /\ job[r].op \in Methods
           /\ kids[r] \subseteq 1 .. nextId - 1 /\ made[r] \subseteq 1 .. nextId - 1
           /\ IsRow(loaded[r])
BY DEF CatalogInv, RequestInv, Awaits, Works, JobOK

\* A step that leaves the tables alone.
LEMMA QuietIsCareful ==
    ASSUME CatalogInv, NEW r \in Requests, Only(r), UNCHANGED <<tables, nextId, committed>>,
           job'[r] = job[r]
    PROVE  Careful(r) /\ TablesOK'
<1>1. nextId \in Nat \ {0} /\ nextId' = nextId
  BY DEF CatalogInv, TablesOK
<1>2. nextId <= nextId'
  BY <1>1
<1>3. TablesOK'
  BY DEF CatalogInv, TablesOK
<1> QED
  BY <1>2, <1>3 DEF Careful

\* An answer changes nothing but what the client sees.
LEMMA AnswerKeeps ==
    ASSUME CatalogInv, NEW r \in Requests, NEW code \in {0, 200, 404, 409, 500}, NEW row,
           Answer(r, code, row), UNCHANGED made
    PROVE  /\ committed' \subseteq Requests => Frames'
           /\ Only(r)
           /\ pc'[r] = "done" /\ answer'[r] = code /\ shown'[r] = row
           /\ UNCHANGED <<job, loaded, kids>>
<1>1. Frames
  BY Entered
<1>2. /\ pc' = [pc EXCEPT ![r] = "done"] /\ answer' = [answer EXCEPT ![r] = code]
      /\ shown' = [shown EXCEPT ![r] = row] /\ UNCHANGED <<job, loaded, kids, made>>
  BY DEF Answer
<1>3. pc' \in [Requests -> Labels]
  BY <1>1, <1>2 DEF Frames, Labels
<1>4. answer' \in [Requests -> {0, 200, 404, 409, 500}]
  BY <1>1, <1>2 DEF Frames
<1>5. committed' \subseteq Requests => Frames'
  BY <1>1, <1>2, <1>3, <1>4 DEF Frames
<1> QED
  BY <1>1, <1>2, <1>5 DEF Frames, Only

\* A request is refused.  If it had committed its row is gone.
LEMMA RefuseGood ==
    ASSUME CatalogInv, NEW r \in Requests, pc[r] \notin {"new", "done"},
           NEW code \in {404, 409, 500}, Refuse(r, code),
           pc[r] = "refresh" => RowOf(r) \notin DOMAIN tables[Target[job[r].op]],
           code = 500 => Cause(r)
    PROVE  Good(r)
<1>1. TablesOK /\ Frames /\ RequestInv(r)
  BY Entered
<1>2. Answer(r, code, NoRow) /\ UNCHANGED <<tables, nextId, made, committed>>
  BY DEF Refuse
<1>3. /\ committed' \subseteq Requests => Frames'
      /\ Only(r)
      /\ pc'[r] = "done" /\ answer'[r] = code /\ shown'[r] = NoRow
      /\ UNCHANGED <<job, loaded, kids>>
  BY <1>2, AnswerKeeps
<1>4. Frames'
  BY <1>1, <1>2, <1>3 DEF Frames
<1>5. Careful(r) /\ TablesOK'
  BY <1>2, <1>3, QuietIsCareful
<1>6. Works(r)'
  BY <1>1, <1>2, <1>3 DEF RequestInv, Works, IsRow
<1>7. Awaits(r)' /\ Reads(r)' /\ Written(r)' /\ Joined(r)'
  BY <1>3 DEF Awaits, Reads, Written, Joined
<1>8. made[r] # {} => job[r].op \in Inserts /\ made[r] \cap DOMAIN tables[Target[job[r].op]] = {}
  <2> SUFFICES ASSUME made[r] # {}
               PROVE  job[r].op \in Inserts /\ made[r] \cap DOMAIN tables[Target[job[r].op]] = {}
    OBVIOUS
  <2>1. pc[r] = "refresh"
    BY Entered
  <2>2. job[r].op \in Inserts /\ made[r] = {RowOf(r)}
    BY <1>1, <2>1 DEF RequestInv, Written
  <2> QED
    BY <2>1, <2>2
<1>9. Told(r)'
  BY <1>2, <1>3, <1>8 DEF Told
<1>10. Caused(r)
  BY <1>3 DEF Caused
<1> QED
  BY <1>4, <1>5, <1>6, <1>7, <1>9, <1>10 DEF Good, RequestInv

\* A request that writes nothing more is answered with a row.
LEMMA AnswerGood ==
    ASSUME CatalogInv, NEW r \in Requests, pc[r] \notin {"new", "done"}, NEW row,
           Answer(r, 200, row), UNCHANGED <<tables, nextId, made, committed>>,
           job[r].op # "get_instructor_dashboard" => IsRow(row),
           job[r].op \in Updates \cup Inserts =>
               Shows(r, Target[job[r].op], RowOf(r), row, WantOf(r)),
           job[r].op = "get_course_detailed" => kids[r] = {row.category_id} \ {Null}
    PROVE  Good(r)
<1>1. TablesOK /\ Frames /\ RequestInv(r)
  BY Entered
<1>2. /\ committed' \subseteq Requests => Frames'
      /\ Only(r)
      /\ pc'[r] = "done" /\ answer'[r] = 200 /\ shown'[r] = row
      /\ UNCHANGED <<job, loaded, kids>>
  BY AnswerKeeps
<1>3. Frames'
  BY <1>1, <1>2 DEF Frames
<1>4. Careful(r) /\ TablesOK'
  BY <1>2, QuietIsCareful
<1>5. Works(r)'
  BY <1>1, <1>2 DEF RequestInv, Works
<1>6. Awaits(r)' /\ Reads(r)' /\ Written(r)' /\ Joined(r)'
  BY <1>2 DEF Awaits, Reads, Written, Joined
<1>7. RowOf(r)' = RowOf(r) /\ WantOf(r)' = WantOf(r)
  BY <1>2 DEF RowOf, WantOf
<1>8. Told(r)'
  BY <1>2, <1>7 DEF Told, Shows
<1>9. Caused(r)
  BY <1>2 DEF Caused
<1> QED
  BY <1>3, <1>4, <1>5, <1>6, <1>8, <1>9 DEF Good, RequestInv

\* A request goes on to its next statement with what it has loaded.
LEMMA GotoGood ==
    ASSUME CatalogInv, NEW r \in Requests, pc[r] \notin {"new", "refresh", "done"},
           NEW l \in Labels \ {"new", "refresh", "done"}, Goto(r, l),
           DOMAIN loaded' = Requests, DOMAIN kids' = Requests,
           \A q \in Requests \ {r} : loaded'[q] = loaded[q] /\ kids'[q] = kids[q],
           IsRow(loaded'[r]), kids'[r] \subseteq 1 .. nextId - 1,
           (l = "lessons" /\ job[r].op = "get_course_detailed") =>
               kids'[r] = {loaded'[r].category_id} \ {Null},
           (l = "write" /\ job[r].op \in Updates) =>
               /\ job[r].id \in DOMAIN tables[Target[job[r].op]]
               /\ loaded'[r] = tables[Target[job[r].op]][job[r].id]
    PROVE  Good(r)
<1>1. TablesOK /\ Frames /\ RequestInv(r)
  BY Entered
<1>2. pc' = [pc EXCEPT ![r] = l] /\ UNCHANGED <<tables, nextId, job, made, answer, shown, committed>>
  BY DEF Goto
<1>3. pc' \in [Requests -> Labels] /\ pc'[r] = l /\ \A q \in Requests \ {r} : pc'[q] = pc[q]
  BY <1>1, <1>2 DEF Frames
<1>4. Frames'
  BY <1>1, <1>2, <1>3 DEF Frames
<1>5. Only(r)
  BY <1>2, <1>3 DEF Only
<1>6. Careful(r) /\ TablesOK'
  BY <1>2, <1>5, QuietIsCareful
<1>7. Works(r)'
  BY <1>1, <1>2, <1>3 DEF RequestInv, Works
<1>8. Awaits(r)' /\ Written(r)' /\ Told(r)' /\ Joined(r)'
  BY <1>1, <1>2, <1>3, Entered DEF Awaits, Written, Told, Joined
<1>9. Reads(r)'
  <2> SUFFICES ASSUME l = "write", job[r].op \in Updates
               PROVE  LET t == Target[job[r].op]
                      IN  /\ loaded'[r] \in Rows(t)
                          /\ job[r].id \in 1 .. nextId - 1
                          /\ Shows(r, t, job[r].id, tables[t][job[r].id], loaded[r])'
    BY <1>2, <1>3 DEF Reads, Shows
  <2>1. PICK t \in Tables : t = Target[job[r].op]
    BY TheTargets
  <2>2. loaded'[r] = tables[t][job[r].id] /\ job[r].id \in DOMAIN tables[t]
    BY <2>1
  <2>3. loaded'[r] \in Rows(t) /\ job[r].id \in 1 .. nextId - 1
    BY <1>1, <2>2 DEF TablesOK, Typed, Below
  <2> QED
    BY <1>2, <2>1, <2>2, <2>3 DEF Shows
<1>10. Caused(r)
  BY <1>2 DEF Caused
<1> QED
  BY <1>4, <1>6, <1>7, <1>8, <1>9, <1>10 DEF Good, RequestInv

\* The writes of a method and its COMMIT, n new rows among them.
LEMMA CommitGood ==
    ASSUME CatalogInv, NEW r \in Requests, pc[r] = "write", job[r].op \notin Reports,
           NEW db, NEW n \in Nat, NEW next \in {"refresh", "done"}, Commit(r, db, n, next),
           Typed(db), Below(db, nextId + n), Respects(r, db),
           ~Allowed(db) => Cause(r),
           next = "refresh" =>
               LET t == Target[job[r].op]
               IN  /\ job[r].op \in (Updates \cup Inserts) \ {"bulk_create_courses"}
                   /\ job[r].op \in Updates =>
                         /\ n = 0 /\ job[r].id \in 1 .. nextId - 1
                         /\ Shows(r, t, job[r].id, db[t][job[r].id], job[r].sets)
                   /\ job[r].op \in Inserts =>
                         n = 1 /\ db[t][nextId] = job[r].rows[1]
    PROVE  Good(r)
<1>1. TablesOK /\ Frames /\ RequestInv(r) /\ nextId \in Nat \ {0}
  BY Entered DEF TablesOK
<1>2. CASE ~Allowed(db) /\ Refuse(r, 500)
  BY <1>2, RefuseGood
<1>3. CASE /\ Allowed(db)
           /\ tables' = db
           /\ nextId' = nextId + n
           /\ made' = [made EXCEPT ![r] = nextId .. nextId + n - 1]
           /\ committed' = committed \cup {r}
           /\ \/ next = "done" /\ Answer(r, 200, NoRow)
              \/ /\ next # "done"
                 /\ pc' = [pc EXCEPT ![r] = next]
                 /\ UNCHANGED <<job, loaded, kids, answer, shown>>
  <2>1. nextId' \in Nat \ {0} /\ nextId <= nextId'
    BY <1>1, <1>3
  <2>2. TablesOK'
    BY <1>3, <2>1 DEF TablesOK
  <2>3. r \notin committed /\ made[r] = {} /\ answer[r] = 0
    BY Entered
  <2>4. /\ made'[r] = nextId .. nextId + n - 1 /\ DOMAIN made' = Requests
        /\ \A q \in Requests \ {r} : made'[q] = made[q]
    BY <1>1, <1>3 DEF Frames
  <2>5. made'[r] \subseteq 1 .. nextId' - 1 /\ 1 .. nextId - 1 \subseteq 1 .. nextId' - 1
    <3>1. \A k \in made'[r] : k \in 1 .. nextId' - 1
      <4>1. \A k \in nextId .. nextId + n - 1 : k \in 1 .. (nextId + n) - 1
        BY <1>1
      <4>2. nextId' = nextId + n
        BY <1>3
      <4> QED
        BY <2>4, <4>1, <4>2
    <3>2. 1 .. nextId - 1 \subseteq 1 .. nextId' - 1
      BY <1>1, <2>1, IdsStay
    <3> QED
      BY <3>1, <3>2
  <2>6. Careful(r) /\ UNCHANGED <<job, loaded, kids>>
        /\ Frames' /\ pc'[r] = next
        /\ (next = "done" => answer'[r] = 200 /\ shown'[r] = NoRow)
        /\ (next = "refresh" => answer'[r] = 0 /\ shown'[r] = shown[r])
    <3>1. committed' \subseteq Requests
      BY <1>1, <1>3 DEF Frames
    <3>2. UNCHANGED <<job, loaded, kids>>
      BY <1>3 DEF Answer
    <3>3. CASE next = "done" /\ Answer(r, 200, NoRow)
      <4>1. /\ pc' = [pc EXCEPT ![r] = "done"] /\ answer' = [answer EXCEPT ![r] = 200]
            /\ shown' = [shown EXCEPT ![r] = NoRow]
        BY <3>3 DEF Answer
      <4>2. Only(r) /\ pc'[r] = "done" /\ answer'[r] = 200 /\ shown'[r] = NoRow
        BY <1>1, <2>4, <3>2, <4>1 DEF Frames, Only
      <4>3. Frames'
        <5>1. pc' \in [Requests -> Labels]
          BY <1>1, <4>1 DEF Frames, Labels
        <5>2. answer' \in [Requests -> {0, 200, 404, 409, 500}]
          BY <1>1, <4>1 DEF Frames
        <5> QED
          BY <1>1, <2>4, <3>1, <3>2, <4>1, <5>1, <5>2 DEF Frames
      <4> QED
        BY <1>3, <2>1, <2>3, <3>2, <3>3, <4>2, <4>3 DEF Careful
    <3>4. CASE next # "done" /\ pc' = [pc EXCEPT ![r] = next] /\ UNCHANGED <<answer, shown>>
      <4>1. Only(r) /\ pc'[r] = next /\ answer'[r] = 0 /\ shown'[r] = shown[r]
        BY <1>1, <2>3, <2>4, <3>2, <3>4 DEF Frames, Only
      <4>2. pc' \in [Requests -> Labels]
        BY <1>1, <3>4 DEF Frames, Labels
      <4>3. Frames'
        BY <1>1, <2>4, <3>1, <3>2, <3>4, <4>2 DEF Frames
      <4> QED
        BY <1>3, <2>1, <2>3, <3>2, <3>4, <4>1, <4>3 DEF Careful
    <3> QED
      BY <1>3, <3>3, <3>4
  <2>7. Works(r)'
    <3>1. JobOK(job[r]) /\ kids[r] \subseteq 1 .. nextId - 1 /\ IsRow(loaded[r])
      BY Entered
    <3>2. job[r].op # "get_instructor_dashboard" => IsRow(shown'[r])
      BY <1>1, <2>6 DEF RequestInv, Works, IsRow
    <3>3. pc'[r] # "new"
      BY <2>6
    <3> QED
      BY <2>5, <2>6, <3>1, <3>2, <3>3 DEF Works
  <2>8. Awaits(r)' /\ Reads(r)'
    BY <2>6 DEF Awaits, Reads
  <2>9. Told(r)' /\ Joined(r)'
    BY <2>6 DEF Told, Joined, Reports
  <2>10. Written(r)'
    <3> SUFFICES ASSUME next = "refresh"
                 PROVE  /\ job[r].op \in (Updates \cup Inserts) \ {"bulk_create_courses"}
                        /\ job[r].op \in Inserts => made'[r] = {RowOf(r)'}
                        /\ job[r].op \in Updates => made'[r] = {}
                        /\ RowOf(r)' \in 1 .. nextId' - 1
                        /\ Shows(r, Target[job[r].op], RowOf(r), tables[Target[job[r].op]][RowOf(r)],
                                 WantOf(r))'
      BY <2>6 DEF Written, Shows
    <3>1. PICK t : t = Target[job[r].op]
      OBVIOUS
    <3>2. CASE job[r].op \in Updates
      <4>1. /\ n = 0 /\ job[r].id \in 1 .. nextId - 1 /\ job[r].op \notin Inserts
            /\ Shows(r, t, job[r].id, db[t][job[r].id], job[r].sets)
        BY <3>1, <3>2, TheTargets DEF Inserts
      <4>2. made'[r] = {}
        BY <1>1, <2>4, <4>1
      <4>3. RowOf(r)' = job[r].id /\ WantOf(r)' = job[r].sets
        BY <2>6, <3>2 DEF RowOf, WantOf
      <4>4. \A q \in committed \ {r} : q \in committed' \ {r}
        BY <1>3
      <4>5. Shows(r, Target[job[r].op], RowOf(r), tables[Target[job[r].op]][RowOf(r)], WantOf(r))'
        BY <1>3, <2>6, <3>1, <4>1, <4>3, <4>4 DEF Shows
      <4> QED
        BY <2>5, <3>2, <4>1, <4>2, <4>3, <4>5
    <3>3. CASE job[r].op \notin Updates
      <4>1. /\ n = 1 /\ db[t][nextId] = job[r].rows[1]
            /\ job[r].op \in Inserts \ {"bulk_create_courses"}
        BY <3>1, <3>3
      <4>2. made'[r] = {nextId}
        BY <1>1, <2>4, <4>1
      <4>3. RowOf(r)' = nextId /\ WantOf(r)' = job[r].rows[1]
        BY <2>6, <3>3, <4>2 DEF RowOf, WantOf
      <4>4. Shows(r, Target[job[r].op], RowOf(r), tables[Target[job[r].op]][RowOf(r)], WantOf(r))'
        BY <1>3, <2>6, <3>1, <4>1, <4>3 DEF Shows
      <4> QED
        BY <2>5, <3>3, <4>1, <4>2, <4>3, <4>4
    <3> QED
      BY <3>2, <3>3
  <2>11. Caused(r)
    BY <2>6 DEF Caused
  <2> QED
    BY <2>2, <2>6, <2>7, <2>8, <2>9, <2>10, <2>11 DEF Good, RequestInv
<1> QED
  BY <1>2, <1>3 DEF Commit

-----------------------------------------------------------------------------
(* Which changes the constraints allow.                                    *)

\* An UPDATE of allowed rows with nothing wrong in what it sets.
LEMMA ChangeIsAllowed ==
    ASSUME TablesOK, NEW t \in Tables, NEW I, NEW sets,
           \A c \in DOMAIN sets : sets[c] \in Int, ~Wrong(sets),
           "name" \in DOMAIN sets => \A i, k \in I : i = k
    PROVE  Allowed(Changed(tables, t, I, sets))
<1> PICK db : db = Changed(tables, t, I, sets)
  OBVIOUS
<1>1. /\ Typed(tables) /\ NamesDiffer(tables)
      /\ \A u \in Tables : \A i \in DOMAIN tables[u] : RowAllowed(tables, tables[u][i])
  BY DEF TablesOK, Allowed
<1>2. /\ Typed(db)
      /\ \A u \in Tables : DOMAIN db[u] = DOMAIN tables[u]
      /\ \A u \in Tables \ {t} : db[u] = tables[u]
      /\ \A i \in DOMAIN tables[t], c \in Columns[t] :
            db[t][i][c] = IF i \in I /\ c \in DOMAIN sets THEN sets[c] ELSE tables[t][i][c]
  BY <1>1, ChangedRows
<1>3. \A c \in DOMAIN sets :
          /\ c \in NotNull => sets[c] # Null
          /\ c \in DOMAIN References => sets[c] \in DOMAIN tables[References[c]] \cup {Null}
          /\ c = "name" => \A i \in DOMAIN tables["categories"] :
                               tables["categories"][i]["name"] # sets[c]
  BY DEF Wrong
<1>4. "categories" \in Tables /\ "name" \in Columns["categories"]
  BY TheTables
<1>5. NamesDiffer(db)
  <2> SUFFICES ASSUME NEW i \in DOMAIN db["categories"], NEW k \in DOMAIN db["categories"],
                      db["categories"][i]["name"] = db["categories"][k]["name"]
               PROVE  i = k
    BY DEF NamesDiffer
  <2>1. /\ i \in DOMAIN tables["categories"] /\ k \in DOMAIN tables["categories"]
        /\ tables["categories"][i]["name"] = tables["categories"][k]["name"] => i = k
    BY <1>1, <1>2, <1>4 DEF NamesDiffer
  <2>2. CASE t # "categories" \/ "name" \notin DOMAIN sets
    BY <1>2, <1>4, <2>1, <2>2
  <2>3. CASE t = "categories" /\ "name" \in DOMAIN sets
    BY <1>2, <1>3, <1>4, <2>1, <2>3
  <2> QED
    BY <2>2, <2>3
<1>6. ASSUME NEW u \in Tables, NEW i \in DOMAIN db[u] PROVE RowAllowed(db, db[u][i])
  <2>1. /\ i \in DOMAIN tables[u] /\ RowAllowed(tables, tables[u][i])
        /\ DOMAIN db[u][i] = Columns[u] /\ DOMAIN tables[u][i] = Columns[u]
    BY <1>1, <1>2, <1>6 DEF Typed, Rows
  <2>2. \A c \in DOMAIN References : DOMAIN db[References[c]] = DOMAIN tables[References[c]]
    BY <1>2, TheReferences, TheTables
  <2> SUFFICES ASSUME NEW c \in Columns[u]
               PROVE  /\ c \in NotNull => db[u][i][c] # Null
                      /\ c \in DOMAIN References =>
                            db[u][i][c] \in DOMAIN tables[References[c]] \cup {Null}
    BY <2>1, <2>2 DEF RowAllowed
  <2>3. CASE db[u][i][c] = tables[u][i][c]
    BY <2>1, <2>3 DEF RowAllowed
  <2>4. CASE c \in DOMAIN sets /\ db[u][i][c] = sets[c]
    BY <1>3, <2>4
  <2>5. db[u][i][c] = tables[u][i][c] \/ (c \in DOMAIN sets /\ db[u][i][c] = sets[c])
    <3>1. CASE u = t
      BY <1>2, <2>1, <3>1
    <3>2. CASE u # t
      BY <1>2, <3>2
    <3> QED
      BY <3>1, <3>2
  <2> QED
    BY <2>3, <2>4, <2>5
<1> QED
  BY <1>5, <1>6 DEF Allowed

\* An INSERT of rows with nothing wrong in them.
LEMMA AddIsAllowed ==
    ASSUME TablesOK, NEW t \in Tables, NEW new \in Seq(Rows(t)),
           \A k \in 1 .. Len(new) : ~Wrong(new[k]),
           t = "categories" => Len(new) = 1
    PROVE  Allowed(Added(t, new))
<1> PICK db : db = Added(t, new)
  OBVIOUS
<1>1. /\ Typed(tables) /\ NamesDiffer(tables) /\ nextId \in Nat /\ Len(new) \in Nat
      /\ \A u \in Tables : \A i \in DOMAIN tables[u] : RowAllowed(tables, tables[u][i])
  BY DEF TablesOK, Allowed
<1>2. /\ \A u \in Tables \ {t} : db[u] = tables[u]
      /\ DOMAIN db[t] = DOMAIN tables[t] \cup (nextId .. nextId + Len(new) - 1)
      /\ \A i \in DOMAIN tables[t] : db[t][i] = tables[t][i]
      /\ \A k \in 1 .. Len(new) : db[t][nextId + k - 1] = new[k]
  BY AddedRows
<1>3. \A i \in DOMAIN db[t] : \/ i \in DOMAIN tables[t] /\ db[t][i] = tables[t][i]
                              \/ \E k \in 1 .. Len(new) : /\ i = nextId + k - 1
                                                          /\ db[t][i] = new[k]
  <2> SUFFICES ASSUME NEW i \in nextId .. nextId + Len(new) - 1
               PROVE  \E k \in 1 .. Len(new) : i = nextId + k - 1 /\ db[t][i] = new[k]
    BY <1>2
  <2>1. i - nextId + 1 \in 1 .. Len(new) /\ i = nextId + (i - nextId + 1) - 1
    BY <1>1
  <2> QED
    BY <1>2, <2>1
<1>4. \A k \in 1 .. Len(new) : new[k] \in Rows(t) /\ ~Wrong(new[k])
  OBVIOUS
<1>5. "categories" \in Tables /\ Columns["categories"] = {"name"}
  BY TheTables
<1>6. NamesDiffer(db)
  <2> SUFFICES ASSUME NEW i \in DOMAIN db["categories"], NEW k \in DOMAIN db["categories"],
                      db["categories"][i]["name"] = db["categories"][k]["name"]
               PROVE  i = k
    BY DEF NamesDiffer
  <2>1. CASE t # "categories"
    BY <1>1, <1>2, <1>5, <2>1 DEF NamesDiffer
  <2>2. CASE t = "categories"
    <3>0. Len(new) = 1 /\ 1 \in 1 .. 1
      BY <2>2
    <3>1. Len(new) = 1 /\ new[1] \in Rows("categories") /\ ~Wrong(new[1])
      <4>1. 1 \in 1 .. Len(new)
        BY <3>0
      <4> QED
        BY <1>4, <2>2, <3>0, <4>1
    <3>2. \A m \in DOMAIN tables["categories"] :
              tables["categories"][m]["name"] # new[1]["name"]
      BY <1>5, <3>1 DEF Wrong, Rows
    <3>3. \A m \in DOMAIN db["categories"] :
              \/ m \in DOMAIN tables["categories"] /\ db["categories"][m] = tables["categories"][m]
              \/ m = nextId /\ db["categories"][m] = new[1]
      BY <1>1, <1>3, <2>2, <3>1
    <3> QED
      BY <1>1, <3>2, <3>3 DEF NamesDiffer
  <2> QED
    BY <2>1, <2>2
<1>7. \A c \in DOMAIN References : DOMAIN tables[References[c]] \subseteq DOMAIN db[References[c]]
  <2> SUFFICES ASSUME NEW c \in DOMAIN References
               PROVE  DOMAIN tables[References[c]] \subseteq DOMAIN db[References[c]]
    OBVIOUS
  <2>1. References[c] \in Tables
    BY TheReferences, TheTables
  <2> QED
    BY <1>2, <2>1
<1>8. ASSUME NEW u \in Tables, NEW i \in DOMAIN db[u] PROVE RowAllowed(db, db[u][i])
  <2>1. CASE i \in DOMAIN tables[u] /\ db[u][i] = tables[u][i]
    BY <1>1, <1>7, <2>1 DEF RowAllowed
  <2>2. ASSUME NEW k \in 1 .. Len(new), db[u][i] = new[k] PROVE RowAllowed(db, db[u][i])
    BY <1>4, <1>7, <2>2 DEF RowAllowed, Wrong
  <2>3. CASE u = t
    BY <1>3, <1>8, <2>1, <2>2, <2>3
  <2>4. CASE u # t
    BY <1>2, <1>8, <2>1, <2>4
  <2> QED
    BY <2>3, <2>4
<1> QED
  BY <1>6, <1>8 DEF Allowed

\* Rows and their columns.
LEMMA RowColumns ==
    ASSUME NEW db, Typed(db), NEW t \in Tables, NEW i \in DOMAIN db[t]
    PROVE  db[t][i] \in Rows(t) /\ DOMAIN db[t][i] = Columns[t] /\ IsRow(db[t][i])
BY DEF Typed, Rows, IsRow

\* Whatever a row refers to, a deletion that takes the row, the reference or nothing
\* it refers to leaves it allowed.
LEMMA LessIsAllowed ==
    ASSUME TablesOK, NEW db, Typed(db),
           \A u \in Tables : DOMAIN db[u] \subseteq DOMAIN tables[u],
           \A i \in DOMAIN db["categories"] : db["categories"][i] = tables["categories"][i],
           \A u \in Tables : \A i \in DOMAIN db[u] : \A c \in Columns[u] :
               \/ db[u][i][c] = Null /\ c \notin NotNull
               \/ /\ db[u][i][c] = tables[u][i][c]
                  /\ c \in DOMAIN References /\ tables[u][i][c] \in DOMAIN tables[References[c]] =>
                        tables[u][i][c] \in DOMAIN db[References[c]]
    PROVE  Allowed(db)
<1>1. /\ Typed(tables) /\ NamesDiffer(tables)
      /\ \A u \in Tables : \A i \in DOMAIN tables[u] : RowAllowed(tables, tables[u][i])
  BY DEF TablesOK, Allowed
<1>2. NamesDiffer(db)
  BY <1>1, TheTables DEF NamesDiffer
<1>3. ASSUME NEW u \in Tables, NEW i \in DOMAIN db[u] PROVE RowAllowed(db, db[u][i])
  <2>1. /\ i \in DOMAIN tables[u] /\ RowAllowed(tables, tables[u][i])
        /\ DOMAIN db[u][i] = Columns[u] /\ DOMAIN tables[u][i] = Columns[u]
    BY <1>1, <1>3, RowColumns
  <2> QED
    BY <1>3, <2>1 DEF RowAllowed
<1> QED
  BY <1>2, <1>3 DEF Allowed

-----------------------------------------------------------------------------
(* The SELECTs.                                                            *)

\* The SELECT of a row that has to be there.
LEMMA FindGood ==
    ASSUME CatalogInv, NEW r \in Requests, pc[r] = "find", NEW t \in Tables, NEW i,
           NEW l \in {"write", "load"}, FindOr404(r, t, i, l),
           job[r].op \in Updates => t = Target[job[r].op] /\ i = job[r].id
    PROVE  Good(r)
<1>1. TablesOK /\ Frames /\ kids[r] \subseteq 1 .. nextId - 1 /\ l \in Labels
  BY Entered DEF Labels
<1>2. CASE i \notin DOMAIN tables[t] /\ Refuse(r, 404)
  BY <1>2, RefuseGood
<1>3. CASE /\ i \in DOMAIN tables[t]
           /\ loaded' = [loaded EXCEPT ![r] = tables[t][i]]
           /\ Goto(r, l) /\ UNCHANGED kids
  <2>1. /\ loaded'[r] = tables[t][i] /\ DOMAIN loaded' = Requests
        /\ \A q \in Requests \ {r} : loaded'[q] = loaded[q]
    BY <1>1, <1>3 DEF Frames
  <2>2. IsRow(tables[t][i])
    BY <1>1, <1>3, RowColumns DEF TablesOK
  <2>3. DOMAIN kids' = Requests /\ kids'[r] \subseteq 1 .. nextId - 1
        /\ \A q \in Requests \ {r} : kids'[q] = kids[q]
    BY <1>1, <1>3 DEF Frames
  <2>4. IsRow(loaded'[r])
    BY <2>1, <2>2
  <2> QED
    BY <1>1, <1>3, <2>1, <2>3, <2>4, GotoGood
<1> QED
  BY <1>2, <1>3 DEF FindOr404

\* A statement that loads the ids of other rows.
LEMMA NoteGood ==
    ASSUME CatalogInv, NEW r \in Requests, pc[r] \notin {"new", "refresh", "done"}, NEW ids,
           ids \subseteq 1 .. nextId - 1, NEW l \in {"write", "count", "lessons"},
           Note(r, ids, l), job[r].op \notin Updates \cup {"get_course_detailed"}
    PROVE  Good(r)
<1>1. Frames /\ IsRow(loaded[r]) /\ l \in Labels
  BY Entered DEF Labels
<1>2. kids' = [kids EXCEPT ![r] = ids] /\ Goto(r, l) /\ UNCHANGED loaded
  BY DEF Note
<1>3. /\ kids'[r] = ids /\ DOMAIN kids' = Requests /\ DOMAIN loaded' = Requests
      /\ \A q \in Requests \ {r} : kids'[q] = kids[q] /\ loaded'[q] = loaded[q]
      /\ loaded'[r] = loaded[r]
  BY <1>1, <1>2 DEF Frames
<1>4. IsRow(loaded'[r]) /\ kids'[r] \subseteq 1 .. nextId - 1
  BY <1>1, <1>3
<1> QED
  BY <1>1, <1>2, <1>3, <1>4, GotoGood

\* A statement after which the request knows nothing new.
LEMMA PassGood ==
    ASSUME CatalogInv, NEW r \in Requests, pc[r] \notin {"new", "refresh", "done"},
           NEW l \in {"write", "count"}, Goto(r, l), UNCHANGED <<loaded, kids>>,
           job[r].op \notin Updates
    PROVE  Good(r)
<1>1. Frames /\ IsRow(loaded[r]) /\ kids[r] \subseteq 1 .. nextId - 1 /\ l \in Labels
  BY Entered DEF Labels
<1>2. /\ DOMAIN kids' = Requests /\ DOMAIN loaded' = Requests
      /\ \A q \in Requests \ {r} : kids'[q] = kids[q] /\ loaded'[q] = loaded[q]
      /\ loaded'[r] = loaded[r] /\ kids'[r] = kids[r]
  BY <1>1 DEF Frames
<1>3. IsRow(loaded'[r]) /\ kids'[r] \subseteq 1 .. nextId - 1
  BY <1>1, <1>2
<1> QED
  BY <1>1, <1>2, <1>3, GotoGood

\* The rows that refer to another are rows.
LEMMA ReferringIds ==
    ASSUME TablesOK, NEW t \in Tables, NEW c, NEW i
    PROVE  Referring(tables, t, c, i) \subseteq 1 .. nextId - 1
BY DEF TablesOK, Below, Referring

\* The first SELECT of each method.
LEMMA FindsGood ==
    ASSUME CatalogInv, NEW r \in Requests,
           FindName(r) \/ FindCourse(r) \/ FindRow(r) \/ FindDetailed(r)
    PROVE  Good(r)
<1>1. CASE FindName(r)
  <2> DEFINE taken == \E i \in DOMAIN tables.categories :
                          tables.categories[i].name = job[r].rows[1].name
  <2>1. job[r].op \notin Updates /\ pc[r] = "find"
    BY <1>1, TheTargets DEF FindName, Is
  <2>2. \/ Refuse(r, 409)
        \/ Goto(r, "write") /\ UNCHANGED <<loaded, kids>>
    BY <1>1 DEF FindName
  <2>3. CASE Refuse(r, 409)
    BY <2>1, <2>3, RefuseGood
  <2>4. CASE Goto(r, "write") /\ UNCHANGED <<loaded, kids>>
    BY <2>1, <2>4, PassGood
  <2> QED
    BY <2>2, <2>3, <2>4
<1>2. CASE FindCourse(r)
  <2>1. PICK i : i = job[r].rows[1].course_id
    OBVIOUS
  <2>2. /\ job[r].op \notin Updates /\ pc[r] = "find" /\ "courses" \in Tables
        /\ FindOr404(r, "courses", i, "write")
    BY <1>2, <2>1, TheTargets, TheTables DEF FindCourse, Is
  <2> QED
    BY <2>2, FindGood
<1>3. CASE FindRow(r)
  <2>1. /\ job[r].op \in Updates \cup Deletes \cup {"get_instructor_dashboard"}
        /\ pc[r] = "find"
    BY <1>3 DEF FindRow, Is
  <2>2. Target[job[r].op] \in Tables
    BY <2>1, TheTargets DEF Reports
  <2>3. PICK t \in Tables : t = Target[job[r].op]
    BY <2>2
  <2>4. PICK i : i = job[r].id
    OBVIOUS
  <2>5. PICK l \in {"write", "load"} :
            l = IF job[r].op \in {"delete_category", "get_instructor_dashboard"}
                THEN "load" ELSE "write"
    OBVIOUS
  <2>6. FindOr404(r, t, i, l)
    BY <1>3, <2>3, <2>4, <2>5 DEF FindRow
  <2> QED
    BY <2>1, <2>3, <2>4, <2>6, FindGood
<1>4. CASE FindDetailed(r)
  <2>1. /\ job[r].op = "get_course_detailed" /\ pc[r] = "find"
        /\ job[r].op \notin Updates
    BY <1>4, TheTargets DEF FindDetailed, Is
  <2>2. PICK i : i = job[r].id
    OBVIOUS
  <2>3. CASE i \notin DOMAIN tables.courses /\ Refuse(r, 404)
    BY <2>1, <2>3, RefuseGood
  <2>4. CASE /\ i \in DOMAIN tables.courses
             /\ loaded' = [loaded EXCEPT ![r] = tables.courses[i]]
             /\ kids' = [kids EXCEPT ![r] = {tables.courses[i].category_id}
                                                \cap DOMAIN tables.categories]
             /\ Goto(r, "lessons")
    <3>1. Frames /\ TablesOK /\ "lessons" \in Labels
      BY Entered DEF Labels
    <3>2. "courses" \in Tables /\ "categories" \in Tables
      BY TheTables
    <3>3. IsRow(tables["courses"][i])
      BY <2>4, <3>1, <3>2, RowColumns DEF TablesOK
    <3>4. DOMAIN tables["categories"] \subseteq 1 .. nextId - 1
      BY <3>1, <3>2 DEF TablesOK, Below
    <3>5. /\ DOMAIN kids' = Requests /\ DOMAIN loaded' = Requests
          /\ \A q \in Requests \ {r} : kids'[q] = kids[q] /\ loaded'[q] = loaded[q]
          /\ loaded'[r] = tables["courses"][i] /\ kids'[r] \subseteq DOMAIN tables["categories"]
      BY <2>4, <3>1 DEF Frames
    <3>6. IsRow(loaded'[r]) /\ kids'[r] \subseteq 1 .. nextId - 1
      BY <3>3, <3>4, <3>5
    <3>7. kids'[r] = {loaded'[r].category_id} \ {Null}
      <4>1. tables["courses"][i]["category_id"] \in DOMAIN tables["categories"] \cup {Null}
        <5>1. RowAllowed(tables, tables["courses"][i])
          BY <2>4, <3>1, <3>2 DEF TablesOK, Allowed
        <5>2. "category_id" \in DOMAIN tables["courses"][i]
          BY <2>4, <3>1, <3>2, RowColumns, TheTables DEF TablesOK
        <5> QED
          BY <5>1, <5>2, TheReferences DEF RowAllowed
      <4>2. Null \notin DOMAIN tables["categories"]
        BY <3>4 DEF Null
      <4>3. kids'[r] = {tables["courses"][i]["category_id"]} \cap DOMAIN tables["categories"]
        BY <2>4, <3>1 DEF Frames
      <4> QED
        BY <3>5, <4>1, <4>2, <4>3
    <3> QED
      BY <2>1, <2>4, <3>1, <3>5, <3>6, <3>7, GotoGood
  <2> QED
    BY <1>4, <2>2, <2>3, <2>4 DEF FindDetailed
<1> QED
  BY <1>1, <1>2, <1>3, <1>4

\* The SELECTs that follow.
LEMMA LoadsGood ==
    ASSUME CatalogInv, NEW r \in Requests,
           LoadCourses(r) \/ FindCourses(r) \/ LoadTaught(r) \/ LoadLessons(r) \/ CountStudents(r)
    PROVE  Good(r)
<1>1. TablesOK /\ "courses" \in Tables /\ IsRow(loaded[r])
  BY Entered, TheTables
<1>2. CASE LoadCourses(r)
  <2>1. PICK ids : ids = Referring(tables, "courses", "category_id", job[r].id)
    OBVIOUS
  <2>2. /\ job[r].op \notin Updates \cup {"get_course_detailed"} /\ pc[r] = "load"
        /\ Note(r, ids, "write")
    BY <1>2, <2>1, TheTargets DEF LoadCourses, Is
  <2>3. ids \subseteq 1 .. nextId - 1
    BY <1>1, <2>1, ReferringIds
  <2> QED
    BY <2>2, <2>3, NoteGood
<1>3. CASE FindCourses(r)
  <2>1. PICK ids : ids = Referring(tables, "courses", "category_id", job[r].old)
    OBVIOUS
  <2>2. /\ job[r].op \notin Updates \cup {"get_course_detailed"} /\ pc[r] = "load"
        /\ Note(r, ids, "write")
    BY <1>3, <2>1, TheTargets DEF FindCourses, Is, Moves
  <2>3. ids \subseteq 1 .. nextId - 1
    BY <1>1, <2>1, ReferringIds
  <2> QED
    BY <2>2, <2>3, NoteGood
<1>4. CASE LoadTaught(r)
  <2>1. PICK ids : ids = Referring(tables, "courses", "instructor_id", job[r].id)
    OBVIOUS
  <2>2. PICK l \in {"count", "lessons"} : l = IF ids = {} THEN "count" ELSE "lessons"
    OBVIOUS
  <2>3. /\ job[r].op \notin Updates \cup {"get_course_detailed"} /\ pc[r] = "load"
        /\ Note(r, ids, l)
    BY <1>4, <2>1, <2>2, TheTargets DEF LoadTaught, Is
  <2>4. ids \subseteq 1 .. nextId - 1
    BY <1>1, <2>1, ReferringIds
  <2> QED
    BY <2>3, <2>4, NoteGood
<1>5. CASE LoadLessons(r)
  <2>1. job[r].op \in Reports /\ pc[r] = "lessons" /\ job[r].op \notin Updates \cup Inserts
    BY <1>5, TheTargets DEF LoadLessons, Is, Reports, Inserts
  <2>2. CASE Answer(r, 200, loaded[r]) /\ UNCHANGED <<tables, nextId, made, committed>>
    <3>1. PICK row : row = loaded[r]
      OBVIOUS
    <3>2. job[r].op = "get_course_detailed" => kids[r] = {row.category_id} \ {Null}
      BY <2>1, <3>1, Entered DEF RequestInv, Joined
    <3> QED
      BY <1>1, <2>1, <2>2, <3>1, <3>2, AnswerGood
  <2>3. CASE Goto(r, "count") /\ UNCHANGED <<loaded, kids>>
    BY <2>1, <2>3, PassGood
  <2> QED
    BY <1>5, <2>2, <2>3 DEF LoadLessons
<1>6. CASE CountStudents(r)
  <2>1. /\ job[r].op = "get_instructor_dashboard" /\ pc[r] = "count"
        /\ job[r].op \notin Updates \cup Inserts
    BY <1>6, TheTargets DEF CountStudents, ShowCounts, Is, Inserts
  <2>2. PICK row : Answer(r, 200, row) /\ UNCHANGED <<tables, nextId, made, committed>>
    BY <1>6 DEF CountStudents, ShowCounts
  <2> QED
    BY <2>1, <2>2, AnswerGood
<1> QED
  BY <1>2, <1>3, <1>4, <1>5, <1>6

\* The row of a response is read again.
LEMMA RefreshGood ==
    ASSUME CatalogInv, NEW r \in Requests, Refresh(r)
    PROVE  Good(r)
<1>1. PICK t, i : t = Target[job[r].op] /\ i = RowOf(r)
  OBVIOUS
<1>2. pc[r] = "refresh" /\ RequestInv(r) /\ TablesOK
  BY Entered DEF Refresh
<1>3. /\ job[r].op \in Updates \cup Inserts
      /\ job[r].op \in Inserts => made[r] = {i}
      /\ i \in DOMAIN tables[t] => Shows(r, t, i, tables[t][i], WantOf(r))
  BY <1>1, <1>2 DEF RequestInv, Written
<1>4. CASE i \notin DOMAIN tables[t] /\ Refuse(r, 500)
  <2>1. Cause(r)
    BY <1>1, <1>3, <1>4 DEF Cause, RowOf
  <2> QED
    BY <1>1, <1>2, <1>4, <2>1, RefuseGood
<1>5. CASE /\ i \in DOMAIN tables[t] /\ Answer(r, 200, tables[t][i])
           /\ UNCHANGED <<tables, nextId, made, committed>>
  <2>1. t \in Tables
    BY <1>1, <1>3, TheTargets
  <2>2. PICK row : row = tables[t][i]
    OBVIOUS
  <2>3. IsRow(row)
    BY <1>2, <1>5, <2>1, <2>2, RowColumns DEF TablesOK
  <2>4. Shows(r, Target[job[r].op], RowOf(r), row, WantOf(r))
    BY <1>1, <1>3, <1>5, <2>2
  <2> QED
    <3>1. job[r].op # "get_course_detailed"
      BY <1>3, TheTargets DEF Inserts
    <3> QED
      BY <1>2, <1>5, <2>2, <2>3, <2>4, <3>1, AnswerGood
<1>6. \/ i \notin DOMAIN tables[t] /\ Refuse(r, 500)
      \/ /\ i \in DOMAIN tables[t] /\ Answer(r, 200, tables[t][i])
         /\ UNCHANGED <<tables, nextId, made, committed>>
  BY <1>1 DEF Refresh, RowOf
<1> QED
  BY <1>4, <1>5, <1>6

-----------------------------------------------------------------------------
(* The writes.                                                             *)

\* The rows a request inserts are under new ids.
LEMMA InsertGood ==
    ASSUME CatalogInv, NEW r \in Requests, InsertRows(r)
    PROVE  Good(r)
<1>1. TablesOK /\ JobOK(job[r]) /\ pc[r] = "write" /\ job[r].op \in Inserts /\ nextId \in Nat
  BY Entered DEF InsertRows, Is, TablesOK
<1>2. PICK t \in Tables : t = Target[job[r].op]
  BY <1>1, TheTargets
<1>3. PICK new : new = job[r].rows
  OBVIOUS
<1>4. /\ new \in Seq(Rows(t))
      /\ Len(new) = 1 \/ (Len(new) = 2 /\ job[r].op = "bulk_create_courses")
  BY <1>1, <1>2, <1>3 DEF JobOK
<1>5. PICK db : db = Added(t, new)
  OBVIOUS
<1>6. PICK n \in {1, 2} : n = Len(new)
  BY <1>4
<1>7. /\ Typed(db) /\ Below(db, nextId + n)
      /\ \A u \in Tables \ {t} : db[u] = tables[u]
      /\ DOMAIN db[t] = DOMAIN tables[t] \cup (nextId .. nextId + n - 1)
      /\ \A i \in DOMAIN tables[t] : db[t][i] = tables[t][i]
      /\ \A k \in 1 .. n : db[t][nextId + k - 1] = new[k]
  BY <1>1, <1>4, <1>5, <1>6, AddedRows
<1>8. Respects(r, db)
  <2>1. \A u \in Tables : \A i \in DOMAIN db[u] : i < nextId => i \in DOMAIN tables[u]
    BY <1>1, <1>6, <1>7
  <2>2. \A u \in Tables : \A i \in DOMAIN tables[u] : db[u][i] = tables[u][i]
    BY <1>7
  <2> QED
    BY <2>1, <2>2, TheTables DEF Respects
<1>9. ~Allowed(db) => Cause(r)
  <2> SUFFICES ASSUME ~Allowed(db) PROVE Cause(r)
    OBVIOUS
  <2>1. t = "categories" => Len(new) = 1
    BY <1>2, <1>4, TheTargets
  <2>2. PICK k \in 1 .. Len(new) : Wrong(new[k])
    BY <1>1, <1>4, <1>5, <2>1, AddIsAllowed
  <2>3. k \in DOMAIN job[r].rows /\ Wrong(job[r].rows[k])
    BY <1>3, <1>4, <2>2
  <2> QED
    BY <1>1, <2>3 DEF Cause
<1>10. PICK next \in {"refresh", "done"} :
           next = IF job[r].op = "bulk_create_courses" THEN "done" ELSE "refresh"
  OBVIOUS
<1>11. Commit(r, db, n, next)
  BY <1>2, <1>3, <1>5, <1>6, <1>10 DEF InsertRows
<1>12. next = "refresh" => /\ job[r].op \in Inserts \ {"bulk_create_courses"}
                           /\ n = 1 /\ db[t][nextId] = new[1]
  <2> SUFFICES ASSUME next = "refresh"
               PROVE  /\ job[r].op \in Inserts \ {"bulk_create_courses"}
                      /\ n = 1 /\ db[t][nextId] = new[1]
    OBVIOUS
  <2>1. job[r].op # "bulk_create_courses"
    BY <1>10
  <2>2. n = 1
    BY <1>4, <1>6, <2>1
  <2>3. db[t][nextId + 1 - 1] = new[1] /\ nextId + 1 - 1 = nextId
    BY <1>1, <1>7, <2>2
  <2> QED
    BY <1>1, <2>1, <2>2, <2>3
<1>13. job[r].op \notin Updates /\ n \in Nat /\ job[r].op \notin Reports
  BY <1>1, TheTargets DEF Inserts, Reports
<1> QED
  BY <1>1, <1>2, <1>3, <1>7, <1>8, <1>9, <1>11, <1>12, <1>13, CommitGood

\* An UPDATE of columns r has been sent for row i of its table.
LEMMA ChangeRespects ==
    ASSUME TablesOK, NEW r \in Requests, NEW t \in Tables, NEW I, NEW sets,
           DOMAIN sets \subseteq Columns[t], \A c \in DOMAIN sets : sets[c] \in Int,
           \A i \in I \cap DOMAIN tables[t], c \in DOMAIN sets : Assigns(job[r], t, i, c, sets[c]),
           (t = "courses" /\ "category_id" \in DOMAIN sets) =>
               \A i \in I \cap DOMAIN tables[t] : MayMove(r, i, tables["courses"][i]["category_id"])
    PROVE  /\ Respects(r, Changed(tables, t, I, sets))
           /\ Typed(Changed(tables, t, I, sets))
           /\ Below(Changed(tables, t, I, sets), nextId + 0)
<1> PICK db : db = Changed(tables, t, I, sets)
  OBVIOUS
<1>1. /\ Typed(db)
      /\ \A u \in Tables : DOMAIN db[u] = DOMAIN tables[u]
      /\ \A u \in Tables \ {t} : db[u] = tables[u]
      /\ \A i \in DOMAIN tables[t], c \in Columns[t] :
            db[t][i][c] = IF i \in I /\ c \in DOMAIN sets THEN sets[c] ELSE tables[t][i][c]
  BY ChangedRows DEF TablesOK
<1>2. Below(db, nextId + 0)
  <2>1. nextId + 0 = nextId
    BY DEF TablesOK
  <2> QED
    BY <1>1, <2>1 DEF TablesOK, Below
<1>3. ASSUME NEW u \in Tables, NEW i \in DOMAIN tables[u], NEW c \in Columns[u],
             db[u][i][c] # tables[u][i][c]
      PROVE  u = t /\ i \in I /\ c \in DOMAIN sets /\ db[u][i][c] = sets[c]
  <2>1. u = t
    BY <1>1, <1>3
  <2> QED
    BY <1>1, <1>3, <2>1
<1>4. "courses" \in Tables /\ "category_id" \in Columns["courses"]
  BY TheTables
<1>5. Respects(r, db)
  BY <1>1, <1>3, <1>4 DEF Respects
<1> QED
  BY <1>1, <1>2, <1>5

\* An update writes the columns it has altered, and shows what it has been sent.
LEMMA UpdateGood ==
    ASSUME CatalogInv, NEW r \in Requests, UpdateRow(r)
    PROVE  Good(r)
<1>1. /\ TablesOK /\ Frames /\ RequestInv(r) /\ JobOK(job[r])
      /\ pc[r] = "write" /\ job[r].op \in Updates /\ made[r] = {} /\ answer[r] = 0
      /\ r \notin committed
  BY Entered DEF UpdateRow, Is
<1>2. PICK t \in Tables : t = Target[job[r].op]
  BY <1>1, TheTargets
<1>3. PICK i : i = job[r].id
  OBVIOUS
<1>4. PICK sent : sent = job[r].sets
  OBVIOUS
<1>5. PICK sets : sets = Altered(loaded[r], job[r].sets)
  OBVIOUS
<1>6. PICK row : row = loaded[r]
  OBVIOUS
<1>7. /\ row \in Rows(t) /\ i \in 1 .. nextId - 1
      /\ i \in DOMAIN tables[t] => Shows(r, t, i, tables[t][i], row)
  BY <1>1, <1>2, <1>3, <1>6 DEF RequestInv, Reads
<1>8. /\ DOMAIN sent \subseteq Columns[t] /\ \A c \in DOMAIN sent : sent[c] \in Int
      /\ DOMAIN row = Columns[t]
  BY <1>1, <1>2, <1>4, <1>7, TheTargets DEF JobOK, Rows
<1>9. /\ DOMAIN sets = {c \in DOMAIN sent : sent[c] # row[c]}
      /\ \A c \in DOMAIN sets : sets[c] = sent[c]
  BY <1>4, <1>5, <1>6 DEF Altered
<1>10. ASSUME NEW after, i \in DOMAIN tables[t],
              \A c \in Columns[t] :
                  after[c] = IF c \in DOMAIN sets THEN sets[c] ELSE tables[t][i][c]
       PROVE  Shows(r, t, i, after, sent)
  <2> SUFFICES ASSUME NEW c \in DOMAIN sent, after[c] # sent[c]
               PROVE  \E q \in committed \ {r} : Assigns(job[q], t, i, c, after[c])
    BY DEF Shows
  <2>1. c \notin DOMAIN sets /\ after[c] = tables[t][i][c] /\ sent[c] = row[c] /\ c \in DOMAIN row
    BY <1>8, <1>9, <1>10
  <2> QED
    BY <1>7, <1>10, <2>1 DEF Shows
<1>11. CASE DOMAIN sets = {} /\ Goto(r, "refresh") /\ UNCHANGED <<loaded, kids>>
  <2>1. /\ pc' = [pc EXCEPT ![r] = "refresh"]
        /\ UNCHANGED <<tables, nextId, job, made, answer, shown, committed>>
    BY <1>11 DEF Goto
  <2>2. pc' \in [Requests -> Labels] /\ pc'[r] = "refresh" /\ \A q \in Requests \ {r} : pc'[q] = pc[q]
    BY <1>1, <2>1 DEF Frames, Labels
  <2>3. Frames' /\ Only(r)
    BY <1>1, <1>11, <2>1, <2>2 DEF Frames, Only
  <2>4. Careful(r) /\ TablesOK'
    BY <2>1, <2>3, QuietIsCareful
  <2>5. Works(r)' /\ Awaits(r)' /\ Reads(r)' /\ Told(r)' /\ Joined(r)'
    BY <1>1, <1>11, <2>1, <2>2 DEF RequestInv, Works, Awaits, Reads, Told, Joined
  <2>6. RowOf(r)' = i /\ WantOf(r)' = sent
    BY <1>1, <1>3, <1>4, <2>1 DEF RowOf, WantOf
  <2>7. job[r].op \notin Inserts
    BY <1>1, TheTargets DEF Inserts
  <2>8. i \in DOMAIN tables[t] => Shows(r, t, i, tables[t][i], sent)
    BY <1>10, <1>11
  <2>9. Written(r)'
    <3>1. i \in DOMAIN tables[t] =>
              Shows(r, Target[job[r].op], RowOf(r), tables[Target[job[r].op]][RowOf(r)],
                    WantOf(r))'
      BY <1>2, <2>1, <2>6, <2>8 DEF Shows
    <3>2. job[r].op \in (Updates \cup Inserts) \ {"bulk_create_courses"}
      BY <1>1, <2>7 DEF Inserts
    <3> QED
      BY <1>1, <1>2, <1>7, <2>1, <2>6, <2>7, <3>1, <3>2 DEF Written
  <2>10. Caused(r)
    BY <2>1 DEF Caused
  <2> QED
    BY <2>3, <2>4, <2>5, <2>9, <2>10 DEF Good, RequestInv
<1>12. CASE i \notin DOMAIN tables[t] /\ Refuse(r, 500)
  <2>1. Cause(r)
    BY <1>1, <1>2, <1>3, <1>12 DEF Cause
  <2> QED
    BY <1>1, <1>12, <2>1, RefuseGood
<1>13. CASE i \in DOMAIN tables[t] /\ Commit(r, Changed(tables, t, {i}, sets), 0, "refresh")
  <2>1. PICK db : db = Changed(tables, t, {i}, sets)
    OBVIOUS
  <2>2. DOMAIN sets \subseteq Columns[t] /\ \A c \in DOMAIN sets : sets[c] \in Int
    BY <1>8, <1>9
  <2>3. \A c \in DOMAIN sets : Assigns(job[r], t, i, c, sets[c])
    BY <1>1, <1>2, <1>3, <1>4, <1>9 DEF Assigns
  <2>4. t = "courses" => job[r].op = "update_course"
    BY <1>1, <1>2, TheTargets DEF Target
  <2>5. t = "courses" => MayMove(r, i, tables["courses"][i]["category_id"])
    BY <1>3, <2>4 DEF MayMove
  <2>6. Respects(r, db) /\ Typed(db) /\ Below(db, nextId + 0)
    BY <1>1, <1>13, <2>1, <2>2, <2>3, <2>5, ChangeRespects
  <2>7. ~Allowed(db) => Cause(r)
    <3> SUFFICES ASSUME ~Allowed(db) PROVE Cause(r)
      OBVIOUS
    <3>1. Wrong(sets)
      BY <1>1, <2>1, <2>2, ChangeIsAllowed
    <3>2. Wrong(sent)
      BY <1>9, <3>1 DEF Wrong
    <3> QED
      BY <1>1, <1>4, <3>2 DEF Cause
  <2>8. \A c \in Columns[t] :
            db[t][i][c] = IF c \in DOMAIN sets THEN sets[c] ELSE tables[t][i][c]
    BY <1>1, <1>13, <2>1, <2>2, ChangedRows DEF TablesOK
  <2>9. Shows(r, t, i, db[t][i], sent)
    BY <1>10, <1>13, <2>8
  <2>10. /\ job[r].op \notin Inserts /\ job[r].op # "bulk_create_courses"
         /\ job[r].op \notin Reports
    BY <1>1, TheTargets DEF Inserts, Reports
  <2> QED
    <3>1. Commit(r, db, 0, "refresh")
      BY <1>13, <2>1
    <3>2. job[r].op \in (Updates \cup Inserts) \ {"bulk_create_courses"}
      BY <1>1, <2>10
    <3>3. Shows(r, Target[job[r].op], job[r].id, db[Target[job[r].op]][job[r].id], job[r].sets)
      BY <1>2, <1>3, <1>4, <2>9
    <3>4. job[r].id \in 1 .. nextId - 1
      BY <1>3, <1>7
    <3> QED
      BY <1>1, <2>6, <2>7, <2>10, <3>1, <3>2, <3>3, <3>4, CommitGood
<1>14. \/ DOMAIN sets = {} /\ Goto(r, "refresh") /\ UNCHANGED <<loaded, kids>>
       \/ i \notin DOMAIN tables[t] /\ Refuse(r, 500)
       \/ i \in DOMAIN tables[t] /\ Commit(r, Changed(tables, t, {i}, sets), 0, "refresh")
  BY <1>2, <1>3, <1>5 DEF UpdateRow, WriteColumns
<1> QED
  BY <1>11, <1>12, <1>13, <1>14

\* Bulk moves: only courses that are still in the category.
LEMMA MoveGood ==
    ASSUME CatalogInv, NEW r \in Requests, MoveCourses(r)
    PROVE  Good(r)
<1>1. TablesOK /\ JobOK(job[r]) /\ pc[r] = "write" /\ job[r].op \in Moves
  BY Entered DEF MoveCourses, Is
<1>2. PICK still : still = kids[r] \cap Referring(tables, "courses", "category_id", job[r].old)
  OBVIOUS
<1>3. PICK sets : sets = [category_id |-> job[r].new]
  OBVIOUS
<1>4. /\ DOMAIN sets = {"category_id"} /\ sets["category_id"] = job[r].new
      /\ \A c \in DOMAIN sets : sets[c] \in Int
  BY <1>1, <1>3 DEF JobOK
<1>5. \A i \in still : tables["courses"][i]["category_id"] = job[r].old
  BY <1>2 DEF Referring
<1>6. "courses" \in Tables /\ DOMAIN sets \subseteq Columns["courses"]
  BY <1>4, TheTables
<1>7. PICK db : db = Changed(tables, "courses", still, sets)
  OBVIOUS
<1>8. \A i \in still : /\ Assigns(job[r], "courses", i, "category_id", sets["category_id"])
                       /\ MayMove(r, i, tables["courses"][i]["category_id"])
  BY <1>1, <1>4, <1>5 DEF Assigns, MayMove
<1>9. Respects(r, db) /\ Typed(db) /\ Below(db, nextId + 0)
  BY <1>1, <1>4, <1>6, <1>7, <1>8, ChangeRespects
<1>10. ~Allowed(db) => Cause(r)
  <2> SUFFICES ASSUME ~Allowed(db) PROVE Cause(r)
    OBVIOUS
  <2>1. Wrong(sets)
    BY <1>1, <1>4, <1>6, <1>7, ChangeIsAllowed
  <2>2. job[r].new \notin DOMAIN tables["categories"]
    BY <1>4, <2>1, TheReferences DEF Wrong, NotNull
  <2> QED
    BY <1>1, <2>2 DEF Cause
<1>11. Commit(r, db, 0, "done")
  BY <1>2, <1>3, <1>7 DEF MoveCourses
<1>12. job[r].op \notin Reports
  BY <1>1 DEF Moves, Reports
<1> QED
  BY <1>1, <1>9, <1>10, <1>11, <1>12, CommitGood

\* The deletion of a category: its courses lose it, those that had it when they were
\* loaded too.
LEMMA DeleteCategoryGood ==
    ASSUME CatalogInv, NEW r \in Requests, DeleteCategory(r)
    PROVE  Good(r)
<1>1. TablesOK /\ pc[r] = "write" /\ job[r].op = "delete_category"
  BY Entered DEF DeleteCategory, Is
<1>2. PICK I : I = kids[r]
  OBVIOUS
<1>3. PICK sets : sets = [category_id |-> Null]
  OBVIOUS
<1>4. /\ DOMAIN sets = {"category_id"} /\ sets["category_id"] = Null
      /\ \A c \in DOMAIN sets : sets[c] \in Int
  BY <1>3 DEF Null
<1>5. PICK i : i = job[r].id
  OBVIOUS
<1>6. PICK mid : mid = Changed(tables, "courses", I, sets)
  OBVIOUS
<1>7. PICK db : db = CategoryGone(mid, i)
  OBVIOUS
<1>8. "courses" \in Tables /\ "categories" \in Tables /\ Typed(tables)
      /\ "category_id" \in Columns["courses"]
  BY <1>1, TheTables DEF TablesOK
<1>9. /\ Typed(mid)
      /\ \A u \in Tables : DOMAIN mid[u] = DOMAIN tables[u]
      /\ \A u \in Tables \ {"courses"} : mid[u] = tables[u]
      /\ \A k \in DOMAIN tables["courses"], c \in Columns["courses"] :
            mid["courses"][k][c] = IF k \in I /\ c \in DOMAIN sets THEN sets[c]
                                   ELSE tables["courses"][k][c]
  BY <1>4, <1>6, <1>8, ChangedRows
<1>10. /\ Typed(db)
       /\ DOMAIN db["categories"] = DOMAIN mid["categories"] \ {i}
       /\ \A k \in DOMAIN mid["categories"] \ {i} : db["categories"][k] = mid["categories"][k]
       /\ \A u \in Tables \ {"categories"} : DOMAIN db[u] = DOMAIN mid[u]
       /\ \A u \in Tables \ {"categories", "courses"} : db[u] = mid[u]
       /\ \A k \in DOMAIN mid["courses"], c \in Columns["courses"] :
             db["courses"][k][c] =
                 IF c = "category_id" /\ mid["courses"][k]["category_id"] = i THEN Null
                 ELSE mid["courses"][k][c]
  BY <1>7, <1>9, CategoryGoneRows
<1>11. /\ \A u \in Tables : DOMAIN db[u] \subseteq DOMAIN tables[u]
       /\ \A k \in DOMAIN db["categories"] : db["categories"][k] = tables["categories"][k]
       /\ \A u \in Tables \ {"categories", "courses"} : db[u] = tables[u]
       /\ DOMAIN db["courses"] = DOMAIN tables["courses"]
       /\ DOMAIN db["categories"] = DOMAIN tables["categories"] \ {i}
  BY <1>8, <1>9, <1>10
<1>12. ASSUME NEW k \in DOMAIN tables["courses"], NEW c \in Columns["courses"]
       PROVE  \/ db["courses"][k][c] = tables["courses"][k][c]
                 /\ (c = "category_id" => tables["courses"][k][c] # i)
              \/ /\ c = "category_id" /\ db["courses"][k][c] = Null
                 /\ k \in I \/ tables["courses"][k][c] = i
  <2>1. mid["courses"][k][c] = IF k \in I /\ c \in DOMAIN sets THEN sets[c]
                               ELSE tables["courses"][k][c]
    BY <1>9, <1>12
  <2>2. db["courses"][k][c] = IF c = "category_id" /\ mid["courses"][k]["category_id"] = i THEN Null
                              ELSE mid["courses"][k][c]
    BY <1>8, <1>9, <1>10, <1>12
  <2>3. CASE c = "category_id"
    BY <1>4, <2>1, <2>2, <2>3
  <2>4. CASE c # "category_id"
    BY <1>4, <2>1, <2>2, <2>4
  <2> QED
    BY <2>3, <2>4
<1>13. Below(db, nextId + 0)
  <2>1. nextId + 0 = nextId
    BY <1>1 DEF TablesOK
  <2> QED
    BY <1>1, <1>11, <2>1 DEF TablesOK, Below
<1>14. Respects(r, db)
  <2>1. ASSUME NEW u \in Tables, NEW k \in DOMAIN tables[u] \cap DOMAIN db[u], NEW c \in Columns[u],
               db[u][k][c] # tables[u][k][c]
        PROVE  Assigns(job[r], u, k, c, db[u][k][c])
    <3>1. u = "courses"
      BY <1>11, <2>1
    <3>2. c = "category_id" /\ db[u][k][c] = Null
      BY <1>12, <2>1, <3>1
    <3> QED
      BY <1>1, <3>1, <3>2 DEF Assigns
  <2>2. ASSUME NEW k \in DOMAIN tables["courses"],
               db["courses"][k]["category_id"] # tables["courses"][k]["category_id"]
        PROVE  MayMove(r, k, tables["courses"][k]["category_id"])
    <3>1. k \in I \/ tables["courses"][k]["category_id"] = i
      BY <1>8, <1>12, <2>2
    <3> QED
      BY <1>1, <1>2, <1>5, <3>1 DEF MayMove
  <2> QED
    BY <1>11, <2>1, <2>2 DEF Respects
<1>15. Allowed(db)
  <2>1. ASSUME NEW u \in Tables, NEW k \in DOMAIN db[u], NEW c \in Columns[u]
        PROVE  \/ db[u][k][c] = Null /\ c \notin NotNull
               \/ /\ db[u][k][c] = tables[u][k][c]
                  /\ c \in DOMAIN References /\ tables[u][k][c] \in DOMAIN tables[References[c]] =>
                        tables[u][k][c] \in DOMAIN db[References[c]]
    <3>1. CASE u = "courses" /\ c = "category_id"
      <4>1. References[c] = "categories" /\ c \notin NotNull
        BY <3>1, TheReferences DEF NotNull
      <4> QED
        BY <1>11, <1>12, <2>1, <3>1, <4>1
    <3>2. CASE ~(u = "courses" /\ c = "category_id")
      <4>1. db[u][k][c] = tables[u][k][c]
        <5>1. CASE u = "courses"
          BY <1>11, <1>12, <2>1, <3>2, <5>1
        <5>2. CASE u = "categories"
          BY <1>11, <2>1, <5>2
        <5>3. CASE u # "courses" /\ u # "categories"
          BY <1>11, <5>3
        <5> QED
          BY <5>1, <5>2, <5>3
      <4>2. c # "category_id"
        BY <2>1, <3>2, TheTables
      <4>3. c \in DOMAIN References => References[c] \in Tables \ {"categories"}
        BY <4>2, TheReferences, TheTables
      <4>4. \A v \in Tables \ {"categories"} : DOMAIN db[v] = DOMAIN tables[v]
        BY <1>11
      <4> QED
        BY <4>1, <4>3, <4>4
    <3> QED
      BY <3>1, <3>2
  <2> QED
    BY <1>1, <1>10, <1>11, <2>1, LessIsAllowed
<1>16. \/ ~(I \subseteq DOMAIN tables["courses"]) /\ Refuse(r, 500)
       \/ Commit(r, db, 0, "done")
  BY <1>2, <1>3, <1>5, <1>6, <1>7 DEF DeleteCategory
<1>17. CASE ~(I \subseteq DOMAIN tables["courses"]) /\ Refuse(r, 500)
  <2>1. Cause(r)
    BY <1>1, <1>2, <1>17 DEF Cause
  <2> QED
    BY <1>1, <1>17, <2>1, RefuseGood
<1>18. CASE Commit(r, db, 0, "done")
  <2>1. job[r].op \notin Reports
    BY <1>1 DEF Reports
  <2> QED
    BY <1>1, <1>10, <1>13, <1>14, <1>15, <1>18, <2>1, CommitGood
<1> QED
  BY <1>16, <1>17, <1>18

\* A deletion that takes rows and changes none, and leaves none that refers to them.
LEMMA DeletionGood ==
    ASSUME CatalogInv, NEW r \in Requests, pc[r] = "write", job[r].op \in Deletes,
           NEW db, Typed(db),
           \A u \in Tables : /\ DOMAIN db[u] \subseteq DOMAIN tables[u]
                             /\ \A k \in DOMAIN db[u] : db[u][k] = tables[u][k],
           \A u \in Tables : \A k \in DOMAIN db[u] : \A c \in Columns[u] \cap DOMAIN References :
               tables[u][k][c] \in DOMAIN tables[References[c]] =>
                   tables[u][k][c] \in DOMAIN db[References[c]],
           Commit(r, db, 0, "done")
    PROVE  Good(r)
<1>1. TablesOK /\ nextId + 0 = nextId
  BY Entered DEF TablesOK
<1>2. Below(db, nextId + 0)
  BY <1>1 DEF TablesOK, Below
<1>3. \A u \in Tables : \A k \in DOMAIN db[u] : \A c \in Columns[u] :
          db[u][k][c] = tables[u][k][c]
  OBVIOUS
<1>4. Respects(r, db)
  BY <1>3, TheTables DEF Respects
<1>5. Allowed(db)
  BY <1>1, <1>3, TheTables, LessIsAllowed
<1>6. job[r].op \notin Reports
  BY DEF Deletes, Reports
<1> QED
  BY <1>2, <1>4, <1>5, <1>6, CommitGood

\* The deletion of a course takes its lessons and enrollments with it.
LEMMA DeleteCourseGood ==
    ASSUME CatalogInv, NEW r \in Requests, DeleteCourse(r)
    PROVE  Good(r)
<1>1. TablesOK /\ Typed(tables) /\ pc[r] = "write" /\ job[r].op \in Deletes
  BY Entered DEF DeleteCourse, Is, TablesOK, Deletes
<1>2. PICK i : i = job[r].id
  OBVIOUS
<1>3. PICK db : db = CourseGone(tables, i)
  OBVIOUS
<1>4. /\ Typed(db)
      /\ \A u \in Tables : /\ DOMAIN db[u] \subseteq DOMAIN tables[u]
                           /\ \A k \in DOMAIN db[u] : db[u][k] = tables[u][k]
      /\ DOMAIN db["courses"] = DOMAIN tables["courses"] \ {i}
      /\ \A u \in {"categories", "instructors"} : db[u] = tables[u]
      /\ \A u \in {"lessons", "enrollments"} : \A k \in DOMAIN db[u] : db[u][k]["course_id"] # i
  BY <1>1, <1>3, CourseGoneRows
<1>5. ASSUME NEW u \in Tables, NEW k \in DOMAIN db[u], NEW c \in Columns[u] \cap DOMAIN References,
             tables[u][k][c] \in DOMAIN tables[References[c]]
      PROVE  tables[u][k][c] \in DOMAIN db[References[c]]
  <2>1. CASE c = "course_id"
    <3>1. u \in {"lessons", "enrollments"} /\ References[c] = "courses"
      BY <1>5, <2>1, TheTables, TheReferences
    <3>2. tables[u][k][c] # i
      BY <1>4, <1>5, <2>1, <3>1
    <3> QED
      BY <1>4, <1>5, <3>1, <3>2
  <2>2. CASE c # "course_id"
    BY <1>4, <1>5, <2>2, TheReferences
  <2> QED
    BY <2>1, <2>2
<1>6. Commit(r, db, 0, "done")
  BY <1>2, <1>3 DEF DeleteCourse
<1> QED
  BY <1>1, <1>4, <1>5, <1>6, DeletionGood

\* Nothing refers to a lesson.
LEMMA DeleteLessonGood ==
    ASSUME CatalogInv, NEW r \in Requests, DeleteLesson(r)
    PROVE  Good(r)
<1>1. TablesOK /\ Typed(tables) /\ pc[r] = "write" /\ "lessons" \in Tables
      /\ job[r].op \in Deletes
  BY Entered, TheTables DEF DeleteLesson, Is, TablesOK, Deletes
<1>2. PICK I : I = {job[r].id}
  OBVIOUS
<1>3. PICK db : db = Removed(tables, "lessons", I)
  OBVIOUS
<1>4. /\ Typed(db)
      /\ DOMAIN db["lessons"] = DOMAIN tables["lessons"] \ I
      /\ \A k \in DOMAIN tables["lessons"] \ I : db["lessons"][k] = tables["lessons"][k]
      /\ \A u \in Tables \ {"lessons"} : db[u] = tables[u]
  BY <1>1, <1>3, RemovedRows
<1>5. \A u \in Tables : /\ DOMAIN db[u] \subseteq DOMAIN tables[u]
                        /\ \A k \in DOMAIN db[u] : db[u][k] = tables[u][k]
  BY <1>4
<1>6. \A c \in DOMAIN References : db[References[c]] = tables[References[c]]
  BY <1>4, TheReferences, TheTables
<1>7. Commit(r, db, 0, "done")
  BY <1>2, <1>3 DEF DeleteLesson
<1> QED
  BY <1>1, <1>4, <1>5, <1>6, <1>7, DeletionGood

\* The victim of a deadlock.
LEMMA VictimGood ==
    ASSUME CatalogInv, NEW r \in Requests, DeadlockVictim(r)
    PROVE  Good(r)
<1>1. PICK S \in Sweeps : Is(r, S, "write") /\ \E q \in Requests \ {r} : Is(q, S, "write")
  BY DEF DeadlockVictim
<1>2. S \subseteq Deletes \cup Moves
  BY <1>1 DEF Sweeps, Deletes, Moves
<1>3. Cause(r)
  BY <1>1, <1>2 DEF Is, Cause
<1> QED
  BY <1>1, <1>3, RefuseGood DEF DeadlockVictim, Is

-----------------------------------------------------------------------------
(* Sums over finite sets.  Induction is done by a smallest counterexample: *)
(* a set of finite sets that is not empty has a smallest member.           *)

\* The element a sum takes from a set first, and the sums of the subsets of S.
Pick(s) == CHOOSE x \in s : TRUE

IsSum(iter, f, S) ==
    iter = [s \in SUBSET S |-> IF s = {} THEN 0 ELSE f[Pick(s)] + iter[s \ {Pick(s)}]]

SumsOf(f, S) == CHOOSE iter : IsSum(iter, f, S)

\* SumFunction is the sum of the whole domain.
LEMMA SumFunctionIs ==
    ASSUME NEW f
    PROVE  SumFunction(f) = SumsOf(f, DOMAIN f)[DOMAIN f]
BY DEF SumFunction, SumFunctionOnSet, FoldFunctionOnSet, MapThenFoldSet, SumsOf, IsSum, Pick

\* The recursion has a solution: by induction on the size of the subsets.
LEMMA SumsExist ==
    ASSUME NEW f, NEW S, IsFiniteSet(S)
    PROVE  IsSum(SumsOf(f, S), f, S)
<1> DEFINE Small(n) == {s \in SUBSET S : Cardinality(s) <= n}
           UpTo(g, n) == g = [s \in Small(n) |-> IF s = {} THEN 0
                                                 ELSE f[Pick(s)] + g[s \ {Pick(s)}]]
           Bad == {n \in Nat : ~\E g : UpTo(g, n)}
<1>1. \A s \in SUBSET S : /\ IsFiniteSet(s) /\ Cardinality(s) \in Nat
                          /\ Cardinality(s) = 0 => s = {}
                          /\ s # {} => /\ Pick(s) \in s
                                       /\ Cardinality(s \ {Pick(s)}) = Cardinality(s) - 1
  BY FS_Subset, FS_CardinalityType, FS_RemoveElement, FS_EmptySet DEF Pick
<1>2. \E g : UpTo(g, 0)
  <2> DEFINE g == [s \in Small(0) |-> 0]
  <2>1. \A s \in Small(0) : s = {}
    <3> HIDE DEF g
    <3>1. ASSUME NEW s \in SUBSET S, Cardinality(s) <= 0 PROVE s = {}
      <4>1. Cardinality(s) \in Nat /\ (Cardinality(s) = 0 => s = {})
        BY <1>1
      <4> QED
        BY <3>1, <4>1
    <3> QED
      BY <3>1
  <2>2. g = [s \in Small(0) |-> IF s = {} THEN 0 ELSE f[Pick(s)] + g[s \ {Pick(s)}]]
    BY <2>1
  <2> QED
    BY <2>2
<1>3. ASSUME NEW n \in Nat, n # 0, NEW g, UpTo(g, n - 1)
      PROVE  \E h : UpTo(h, n)
  <2> DEFINE h == [s \in Small(n) |-> IF s = {} THEN 0
                                      ELSE f[Pick(s)] + g[s \ {Pick(s)}]]
  <2>1. \A s \in Small(n - 1) : s \in Small(n)
    <3> HIDE DEF h
    <3>1. \A s \in SUBSET S : Cardinality(s) <= n - 1 => Cardinality(s) <= n
      <4>1. \A s \in SUBSET S : Cardinality(s) \in Nat
        BY <1>1
      <4> QED
        BY <4>1
    <3> QED
      BY <3>1
  <2>2. \A s \in Small(n) : s # {} => s \ {Pick(s)} \in Small(n - 1)
    BY <1>1
  <2>3. \A s \in Small(n - 1) : h[s] = g[s]
    <3>1. \A s \in Small(n - 1) : g[s] = IF s = {} THEN 0 ELSE f[Pick(s)] + g[s \ {Pick(s)}]
      BY <1>3
    <3> QED
      BY <2>1, <3>1
  <2>4. \A s \in Small(n) : s # {} => h[s \ {Pick(s)}] = g[s \ {Pick(s)}]
    BY <2>2, <2>3
  <2>5. UpTo(h, n)
    BY <2>4
  <2> QED
    BY <2>5
<1>4. Bad = {}
  <2> SUFFICES ASSUME Bad # {} PROVE FALSE
    OBVIOUS
  <2> HIDE DEF UpTo
  <2>1. PICK n \in Bad : \A m \in Bad : <<m, n>> \notin OpToRel(<, Nat)
    BY NatLessThanWellFounded, WFMin
  <2>2. n \in Nat /\ ~\E g : UpTo(g, n)
    BY <2>1
  <2>3. n # 0
    BY <1>2, <2>2
  <2>4. n - 1 \in Nat /\ n - 1 \notin Bad
    <3>1. \A m \in Bad : m \in Nat /\ ~(m < n)
      BY <2>1, <2>2 DEF OpToRel
    <3> HIDE DEF Bad
    <3> QED
      BY <2>2, <2>3, <3>1
  <2>5. PICK g : UpTo(g, n - 1)
    BY <2>4
  <2> QED
    BY <1>3, <2>2, <2>3, <2>5
<1>5. Cardinality(S) \in Nat /\ Small(Cardinality(S)) = SUBSET S
  BY FS_Subset, FS_CardinalityType
<1>6. PICK g : UpTo(g, Cardinality(S))
  <2> HIDE DEF UpTo
  <2> QED
    BY <1>4, <1>5
<1>7. IsSum(g, f, S)
  BY <1>5, <1>6 DEF IsSum
<1> QED
  BY <1>7 DEF SumsOf

\* What is defined by recursion satisfies the recursion.
LEMMA SumStep ==
    ASSUME NEW f, NEW S, IsFiniteSet(S), NEW s \in SUBSET S
    PROVE  /\ s = {} => SumsOf(f, S)[s] = 0
           /\ s # {} => /\ Pick(s) \in s
                        /\ SumsOf(f, S)[s] = f[Pick(s)] + SumsOf(f, S)[s \ {Pick(s)}]
<1> DEFINE g == SumsOf(f, S)
<1>1. g = [t \in SUBSET S |-> IF t = {} THEN 0 ELSE f[Pick(t)] + g[t \ {Pick(t)}]]
  <2>1. IsSum(g, f, S)
    BY SumsExist
  <2> HIDE DEF g
  <2> QED
    BY <2>1 DEF IsSum
<1>2. s # {} => Pick(s) \in s
  BY DEF Pick
<1> HIDE DEF g
<1>3. g[s] = IF s = {} THEN 0 ELSE f[Pick(s)] + g[s \ {Pick(s)}]
  BY <1>1
<1> QED
  BY <1>2, <1>3 DEF g

LEMMA SumOfNone ==
    ASSUME NEW f, NEW S, IsFiniteSet(S)
    PROVE  SumsOf(f, S)[{}] = 0
<1>1. {} \in SUBSET S
  OBVIOUS
<1> QED
  BY <1>1, SumStep

\* Among subsets of a finite set one is such that no removal of an element leads to another.
LEMMA HasSmallest ==
    ASSUME NEW S, IsFiniteSet(S), NEW T \in SUBSET SUBSET S, T # {}
    PROVE  \E s \in T : \A x \in s : s \ {x} \notin T
<1>1. T \subseteq FiniteSubsetsOf(S)
  BY FS_Subset DEF FiniteSubsetsOf
<1>2. PICK s \in T : \A t \in T : <<t, s>> \notin StrictSubsetOrdering(S)
  BY <1>1, FS_StrictSubsetOrderingWellFounded, WFMin
<1>3. ASSUME NEW x \in s, s \ {x} \in T PROVE FALSE
  BY <1>2, <1>3 DEF StrictSubsetOrdering
<1> QED
  BY <1>3

LEMMA SumType ==
    ASSUME NEW S, IsFiniteSet(S), NEW f \in [S -> Nat], NEW s \in SUBSET S
    PROVE  SumsOf(f, S)[s] \in Nat
<1> DEFINE Bad == {t \in SUBSET S : SumsOf(f, S)[t] \notin Nat}
<1>1. ASSUME Bad # {} PROVE FALSE
  <2>1. PICK t \in Bad : \A x \in t : t \ {x} \notin Bad
    BY <1>1, HasSmallest
  <2>2. /\ t # {} /\ Pick(t) \in t
        /\ SumsOf(f, S)[t] = f[Pick(t)] + SumsOf(f, S)[t \ {Pick(t)}]
    BY SumStep
  <2>3. SumsOf(f, S)[t \ {Pick(t)}] \in Nat
    BY <2>1, <2>2
  <2>4. f[Pick(t)] \in Nat
    BY <2>2
  <2> QED
    BY <2>2, <2>3, <2>4
<1> QED
  BY <1>1

\* A sum is the same whatever is taken out first.
LEMMA SumAny ==
    ASSUME NEW S, IsFiniteSet(S), NEW f \in [S -> Nat], NEW s \in SUBSET S, NEW x \in s
    PROVE  SumsOf(f, S)[s] = f[x] + SumsOf(f, S)[s \ {x}]
<1> DEFINE Sum(t) == SumsOf(f, S)[t]
           Bad == {t \in SUBSET S : \E y \in t : Sum(t) # f[y] + Sum(t \ {y})}
<1>1. ASSUME Bad # {} PROVE FALSE
  <2>1. PICK t \in Bad : \A y \in t : t \ {y} \notin Bad
    <3>1. Bad \in SUBSET SUBSET S
      OBVIOUS
    <3> HIDE DEF Bad
    <3> QED
      BY <1>1, <3>1, HasSmallest
  <2>2. PICK y \in t : Sum(t) # f[y] + Sum(t \ {y})
    BY <2>1
  <2> DEFINE p == Pick(t)
  <2>3. p \in t /\ Sum(t) = f[p] + Sum(t \ {p})
    BY SumStep
  <2>4. p # y
    BY <2>2, <2>3
  <2>5. Sum(t \ {p}) = f[y] + Sum((t \ {p}) \ {y})
    BY <2>1, <2>3, <2>4
  <2>6. Sum(t \ {y}) = f[p] + Sum((t \ {y}) \ {p})
    BY <2>1, <2>3, <2>4
  <2>7. (t \ {p}) \ {y} = (t \ {y}) \ {p}
    OBVIOUS
  <2>8. Sum((t \ {y}) \ {p}) \in Nat /\ f[p] \in Nat /\ f[y] \in Nat
    BY SumType, <2>3
  <2> HIDE DEF Sum, p
  <2> QED
    BY <2>2, <2>3, <2>5, <2>6, <2>7, <2>8
<1> QED
  BY <1>1

\* Leaving out zeros does not change a sum.
LEMMA ZerosAddNothing ==
    ASSUME NEW S, IsFiniteSet(S), NEW f \in [S -> Nat],
           NEW C \in SUBSET S, \A x \in S \ C : f[x] = 0
    PROVE  SumFunction(f) = SumFunction([x \in C |-> f[x]])
<1> DEFINE g == [x \in C |-> f[x]]
           All(s)  == SumsOf(f, S)[s]
           Some(s) == SumsOf(g, C)[s]
           Bad == {s \in SUBSET S : All(s) # Some(s \cap C)}
<1>1. IsFiniteSet(C) /\ g \in [C -> Nat] /\ DOMAIN g = C /\ \A x \in C : g[x] = f[x]
  BY FS_Subset
<1> HIDE DEF g
<1>2. ASSUME Bad # {} PROVE FALSE
  <2>1. PICK s \in Bad : \A x \in s : s \ {x} \notin Bad
    <3>1. Bad \in SUBSET SUBSET S
      OBVIOUS
    <3> HIDE DEF Bad
    <3> QED
      BY <1>2, <3>1, HasSmallest
  <2>2. s # {}
    <3>1. {} \cap C = {}
      OBVIOUS
    <3>2. All({}) = 0 /\ Some({}) = 0
      BY <1>1, SumOfNone
    <3> QED
      BY <2>1, <3>1, <3>2
  <2>3. PICK x \in s : TRUE
    BY <2>2
  <2>4. All(s) = f[x] + All(s \ {x}) /\ f[x] \in Nat /\ All(s \ {x}) \in Nat
    BY SumAny, SumType
  <2>5. All(s \ {x}) = Some((s \ {x}) \cap C)
    BY <2>1
  <2>6. CASE x \in C
    <3>1. Some(s \cap C) = g[x] + Some((s \cap C) \ {x})
      BY <1>1, <2>6, SumAny
    <3>2. (s \cap C) \ {x} = (s \ {x}) \cap C
      OBVIOUS
    <3> HIDE DEF All, Some
    <3> QED
      BY <1>1, <2>1, <2>4, <2>5, <2>6, <3>1, <3>2
  <2>7. CASE x \notin C
    <3>1. f[x] = 0 /\ (s \ {x}) \cap C = s \cap C
      BY <2>7
    <3> HIDE DEF All, Some
    <3> QED
      BY <2>1, <2>4, <2>5, <3>1
  <2> QED
    BY <2>6, <2>7
<1>3. All(S) = Some(S \cap C) /\ S \cap C = C
  BY <1>2
<1>4. SumFunction(f) = All(S) /\ SumFunction(g) = Some(C)
  <2>1. DOMAIN f = S
    OBVIOUS
  <2> QED
    BY <1>1, <2>1, SumFunctionIs
<1> QED
  BY <1>3, <1>4 DEF g

-----------------------------------------------------------------------------
(* The theorems.                                                           *)

\* Every step of a request.
LEMMA StepGood ==
    ASSUME CatalogInv, NEW r \in Requests, Arrive(r) \/ Step(r)
    PROVE  Good(r)
BY ArriveGood, FindsGood, LoadsGood, RefreshGood, InsertGood, UpdateGood, MoveGood,
   DeleteCategoryGood, DeleteCourseGood, DeleteLessonGood, VictimGood DEF Step

\* The seed tables.
LEMMA InitInv == Init => CatalogInv
<1> SUFFICES ASSUME Init PROVE CatalogInv
  OBVIOUS
<1>1. /\ tables \in Seeds /\ nextId = 3 /\ pc = [r \in Requests |-> "new"]
      /\ job = [r \in Requests |-> NoJob] /\ loaded = [r \in Requests |-> NoRow]
      /\ kids = [r \in Requests |-> {}] /\ made = [r \in Requests |-> {}]
      /\ answer = [r \in Requests |-> 0] /\ shown = [r \in Requests |-> NoRow]
      /\ committed = {}
  BY DEF Init
<1>2. /\ DOMAIN tables = Tables
      /\ \A t \in Tables : \E I \in SUBSET {1, 2} : tables[t] \in [I -> Rows(t)]
      /\ Allowed(tables)
  BY <1>1, CatalogAssumption
<1>3. \A t \in Tables : /\ tables[t] \in [DOMAIN tables[t] -> Rows(t)]
                        /\ DOMAIN tables[t] \subseteq 1 .. nextId - 1
  <2> SUFFICES ASSUME NEW t \in Tables
               PROVE  /\ tables[t] \in [DOMAIN tables[t] -> Rows(t)]
                      /\ DOMAIN tables[t] \subseteq 1 .. nextId - 1
    OBVIOUS
  <2>1. PICK I \in SUBSET {1, 2} : tables[t] \in [I -> Rows(t)]
    BY <1>2
  <2>2. {1, 2} \subseteq 1 .. nextId - 1
    BY <1>1
  <2> QED
    BY <2>1, <2>2
<1>4. TablesOK
  BY <1>1, <1>2, <1>3 DEF TablesOK, Typed, Below
<1>5. Frames
  BY <1>1 DEF Frames, Labels
<1>6. ASSUME NEW r \in Requests PROVE RequestInv(r)
  <2>1. /\ pc[r] = "new" /\ job[r] = NoJob /\ loaded[r] = NoRow /\ kids[r] = {} /\ made[r] = {}
        /\ answer[r] = 0 /\ shown[r] = NoRow /\ r \notin committed
    BY <1>1
  <2>2. Works(r)
    BY <2>1 DEF Works, IsRow
  <2>3. Awaits(r) /\ Reads(r) /\ Written(r) /\ Told(r) /\ Joined(r)
    BY <2>1 DEF Awaits, Reads, Written, Told, Joined
  <2> QED
    BY <2>2, <2>3 DEF RequestInv
<1> QED
  BY <1>4, <1>5, <1>6 DEF CatalogInv

\* Every step keeps the invariant.
LEMMA NextInv == CatalogInv /\ [Next]_vars => CatalogInv'
<1> SUFFICES ASSUME CatalogInv, [Next]_vars PROVE CatalogInv'
  OBVIOUS
<1>1. CASE UNCHANGED vars
  <2>1. TablesOK' /\ Frames'
    BY <1>1 DEF vars, CatalogInv, TablesOK, Frames
  <2>2. ASSUME NEW r \in Requests PROVE RequestInv(r)'
    <3>1. RequestInv(r)
      BY <2>2, Entered
    <3>2. RowOf(r)' = RowOf(r) /\ WantOf(r)' = WantOf(r)
      BY <1>1 DEF vars, RowOf, WantOf
    <3>3. Works(r)' /\ Awaits(r)' /\ Joined(r)'
      BY <1>1, <3>1 DEF vars, RequestInv, Works, Awaits, Joined
    <3>4. Reads(r)'
      BY <1>1, <3>1 DEF vars, RequestInv, Reads, Shows
    <3>5. Written(r)'
      BY <1>1, <3>1, <3>2 DEF vars, RequestInv, Written, Shows
    <3>6. Told(r)'
      BY <1>1, <3>1, <3>2 DEF vars, RequestInv, Told, Shows
    <3> QED
      BY <3>3, <3>4, <3>5, <3>6 DEF RequestInv
  <2> QED
    BY <2>1, <2>2 DEF CatalogInv
<1>2. ASSUME NEW r \in Requests, Arrive(r) \/ Step(r) PROVE CatalogInv'
  <2>1. Good(r)
    BY <1>2, StepGood
  <2>2. ASSUME NEW q \in Requests PROVE RequestInv(q)'
    BY <2>1, <2>2, OthersKept DEF Good
  <2> QED
    BY <2>1, <2>2 DEF Good, CatalogInv
<1> QED
  BY <1>1, <1>2 DEF Next, AllAnswered

\* CatalogInv holds in every state.
LEMMA Invariance == Spec => []CatalogInv
BY InitInv, NextInv, PTL DEF Spec

\* Gives and Assigns say the same.
LEMMA GivesAssigns ==
    ASSUME NEW r, NEW t, NEW i, NEW c, NEW v
    PROVE  Gives(r, t, i, c, v) <=> Assigns(job[r], t, i, c, v)
BY DEF Gives, Assigns

\* The tables keep their types and constraints, whoever writes them and in whatever order:
\* every method of the services leaves allowed tables behind or rolls back.
THEOREM TypesHold == Spec => []TypeOK
<1>1. CatalogInv => TypeOK
  BY DEF CatalogInv, TablesOK, Typed, Below, Frames, RequestInv, Works, TypeOK
<1> QED
  BY <1>1, Invariance, PTL

\* The row in an answer shows what the request has sent (update_category, update_course,
\* create_course, ...), or what another request has written over it.
THEOREM AnswersShow == Spec => []OwnOrOvertaken
<1>1. ASSUME CatalogInv, NEW r \in Requests, answer[r] = 200, shown[r] # NoRow,
             job[r].op \in Updates \cup Inserts, NEW c \in DOMAIN WantOf(r)
      PROVE  \/ shown[r][c] = WantOf(r)[c]
             \/ \E q \in committed \ {r} :
                    Gives(q, Target[job[r].op], RowOf(r), c, shown[r][c])
  <2>1. Shows(r, Target[job[r].op], RowOf(r), shown[r], WantOf(r))
    BY <1>1 DEF CatalogInv, RequestInv, Told
  <2> QED
    BY <2>1, GivesAssigns DEF Shows
<1>2. CatalogInv => OwnOrOvertaken
  BY <1>1, Zenon DEF OwnOrOvertaken, RowOf, WantOf
<1> QED
  BY <1>2, Invariance, PTL

\* A request that has committed a row and is answered by an error is one whose row
\* somebody has deleted before the refresh.
THEOREM NoRowAfterError == Spec => []ErrorLeavesNoRow
<1>1. CatalogInv => ErrorLeavesNoRow
  BY DEF CatalogInv, RequestInv, Told, ErrorLeavesNoRow
<1> QED
  BY <1>1, Invariance, PTL

\* A course is shown in detail with the category it names: both come from one SELECT with a
\* join (joinedload in get_course_detailed), and foreign keys leave no other category.
THEOREM DetailsAreOne == Spec => []DetailsAgree
<1>1. CatalogInv => DetailsAgree
  BY DEF CatalogInv, RequestInv, Joined, DetailsAgree
<1> QED
  BY <1>1, Invariance, PTL

\* The numbers of a dashboard agree when they are counted.
LEMMA CountsAgree ==
    ASSUME CatalogInv, NEW r \in Requests, CountStudents(r)
    PROVE  shown'[r].total = SumFunction(shown'[r].students)
<1> DEFINE n == [i \in kids[r] |-> Students(i)]
           counted == {i \in kids[r] : Students(i) > 0}
<1>1. nextId \in Nat \ {0} /\ kids[r] \subseteq 1 .. nextId - 1 /\ DOMAIN shown = Requests
  BY DEF CatalogInv, TablesOK, Frames, RequestInv, Works
<1>2. IsFiniteSet(kids[r])
  <2>1. IsFiniteSet(1 .. nextId - 1)
    BY <1>1, FS_Interval
  <2> QED
    BY <1>1, <2>1, FS_Subset
<1>3. \A i \in kids[r] : Students(i) \in Nat
  <2>1. "enrollments" \in Tables
    BY TheTables
  <2>2. DOMAIN tables["enrollments"] \subseteq 1 .. nextId - 1
    BY <2>1 DEF CatalogInv, TablesOK, Below
  <2>3. \A i : Referring(tables, "enrollments", "course_id", i) \subseteq 1 .. nextId - 1
    BY <2>2 DEF Referring
  <2>4. IsFiniteSet(1 .. nextId - 1)
    BY <1>1, FS_Interval
  <2> QED
    BY <2>3, <2>4, FS_Subset, FS_CardinalityType DEF Students
<1>4. n \in [kids[r] -> Nat] /\ counted \in SUBSET kids[r]
      /\ \A i \in kids[r] \ counted : n[i] = 0
  BY <1>3
<1>5. [i \in counted |-> n[i]] = [i \in counted |-> Students(i)]
  OBVIOUS
<1>6. n = [i \in kids[r] |-> IF i \in counted THEN Students(i) ELSE 0]
  BY <1>4
<1>7. shown'[r] = [total |-> SumFunction([i \in counted |-> Students(i)]),
                   students |-> [i \in kids[r] |-> IF i \in counted THEN Students(i) ELSE 0]]
  BY <1>1 DEF CountStudents, ShowCounts, Answer
<1> HIDE DEF n, counted
<1>8. SumFunction(n) = SumFunction([i \in counted |-> n[i]])
  BY <1>2, <1>4, ZerosAddNothing
<1>9. shown'[r].total = SumFunction([i \in counted |-> n[i]]) /\ shown'[r].students = n
  BY <1>5, <1>6, <1>7
<1> QED
  BY <1>8, <1>9

\* The total of get_instructor_dashboard, which adds up the rows of a GROUP BY, is the sum of
\* the numbers shown for the courses, which has a 0 for each course without a row.
THEOREM DashboardsAddUp == Spec => []DashboardAgrees
<1> DEFINE Adds(r) == (answer[r] = 200 /\ job[r].op = "get_instructor_dashboard") =>
                          shown[r].total = SumFunction(shown[r].students)
<1>1. Init => DashboardAgrees
  BY DEF Init, DashboardAgrees
<1>2. ASSUME CatalogInv, DashboardAgrees, [Next]_vars PROVE DashboardAgrees'
  <2>1. CASE UNCHANGED vars
    BY <1>2, <2>1 DEF vars, DashboardAgrees
  <2>2. ASSUME NEW q \in Requests, Arrive(q) \/ Step(q), NEW r \in Requests
        PROVE  Adds(r)'
    <3>1. Adds(r)
      BY <1>2 DEF DashboardAgrees
    <3>2. CASE r # q
      <4>1. Only(q)
        BY <1>2, <2>2, StepGood DEF Good, Careful
      <4> QED
        BY <3>1, <3>2, <4>1 DEF Only
    <3>3. CASE r = q /\ CountStudents(r)
      BY <1>2, <3>3, CountsAgree
    <3>4. CASE r = q /\ ~CountStudents(r)
      <4>1. /\ DOMAIN answer = Requests /\ Awaits(r) /\ Written(r)
            /\ pc[r] # "done" => answer[r] = 0
        BY <1>2 DEF CatalogInv, Frames, RequestInv, Awaits
      <4>2. CASE Arrive(r)
        BY <4>1, <4>2 DEF Arrive
      <4>3. CASE Step(r)
        <5>1. CASE \/ FindName(r) \/ FindCourse(r) \/ FindRow(r) \/ LoadCourses(r)
                   \/ FindCourses(r) \/ FindDetailed(r) \/ LoadTaught(r)
          <6>1. pc[r] \in {"find", "load"}
            BY <5>1 DEF FindName, FindCourse, FindRow, LoadCourses, FindCourses, FindDetailed,
                        LoadTaught, Is
          <6>2. answer' = answer \/ \E code \in {404, 409} : answer' = [answer EXCEPT ![r] = code]
            BY <5>1 DEF FindName, FindCourse, FindRow, LoadCourses, FindCourses, FindDetailed,
                        LoadTaught, FindOr404, Note, Goto, Refuse, Answer
          <6> QED
            BY <4>1, <6>1, <6>2
        <5>2. CASE \/ InsertRows(r) \/ UpdateRow(r) \/ DeleteCategory(r) \/ DeleteCourse(r)
                   \/ DeleteLesson(r) \/ MoveCourses(r) \/ DeadlockVictim(r)
          <6>1. job[r].op \in Inserts \cup Updates \cup Deletes \cup Moves
            BY <5>2 DEF InsertRows, UpdateRow, DeleteCategory, DeleteCourse, DeleteLesson, MoveCourses,
                        DeadlockVictim, Sweeps, Is, Deletes, Moves
          <6>2. job' = job
            BY <5>2 DEF InsertRows, UpdateRow, WriteColumns, DeleteCategory, DeleteCourse, DeleteLesson,
                        MoveCourses, DeadlockVictim, Commit, Refuse, Answer, Goto
          <6> QED
            BY <6>1, <6>2, TheTargets DEF Inserts, Deletes, Moves
        <5>3. CASE Refresh(r)
          <6>1. job[r].op \in Updates \cup Inserts /\ job' = job
            BY <4>1, <5>3 DEF Refresh, Written, Refuse, Answer
          <6> QED
            BY <6>1, TheTargets DEF Inserts
        <5>4. CASE LoadLessons(r)
          <6>1. job' = job /\ (job[r].op = "get_instructor_dashboard" => answer' = answer /\ pc[r] # "done")
            BY <5>4 DEF LoadLessons, Is, Goto, Answer
          <6> QED
            BY <4>1, <6>1
        <5> QED
          BY <3>4, <4>3, <5>1, <5>2, <5>3, <5>4 DEF Step
      <4> QED
        BY <2>2, <3>4, <4>2, <4>3
    <3> QED
      BY <3>2, <3>3, <3>4
  <2>3. CASE \E q \in Requests : Arrive(q) \/ Step(q)
    BY <2>2, <2>3 DEF DashboardAgrees
  <2> QED
    BY <1>2, <2>1, <2>3 DEF Next, AllAnswered
<1> QED
  BY <1>1, <1>2, Invariance, PTL DEF Spec

\* What a step does to the tables.
LEMMA StepRespects ==
    ASSUME CatalogInv, [Next]_vars
    PROVE  \/ UNCHANGED tables
           \/ \E r \in committed' \ committed : Respects(r, tables')
<1>1. CASE UNCHANGED vars
  BY <1>1 DEF vars
<1>2. ASSUME NEW r \in Requests, Arrive(r) \/ Step(r)
      PROVE  \/ UNCHANGED tables
             \/ \E q \in committed' \ committed : Respects(q, tables')
  <2>1. Careful(r)
    BY <1>2, StepGood DEF Good
  <2> QED
    BY <2>1 DEF Careful
<1> QED
  BY <1>1, <1>2 DEF Next, AllAnswered

\* No step changes a cell but by what its own request gives it: SQLAlchemy writes the
\* columns that a method has altered, and no method alters what it was not sent.
THEOREM ColumnsKept == Spec => FieldsOfOthersKept
<1> DEFINE Kept == \A t \in Tables : \A i \in DOMAIN tables[t] \cap DOMAIN tables'[t] :
                   \A c \in Columns[t] :
                       tables'[t][i][c] # tables[t][i][c] =>
                           \E r \in committed' \ committed : Gives(r, t, i, c, tables'[t][i][c])
<1>1. ASSUME CatalogInv, [Next]_vars PROVE Kept
  <2>1. CASE UNCHANGED tables
    BY <2>1
  <2>2. ASSUME NEW r \in committed' \ committed, Respects(r, tables') PROVE Kept
    <3> SUFFICES ASSUME NEW t \in Tables, NEW i \in DOMAIN tables[t] \cap DOMAIN tables'[t],
                        NEW c \in Columns[t], tables'[t][i][c] # tables[t][i][c]
                 PROVE  Gives(r, t, i, c, tables'[t][i][c])
      BY <2>2
    <3>1. Assigns(job[r], t, i, c, tables'[t][i][c])
      BY <2>2 DEF Respects
    <3> QED
      BY <3>1 DEF Gives, Assigns
  <2> QED
    BY <1>1, <2>1, <2>2, StepRespects
<1>2. CatalogInv /\ [Next]_vars => [Kept]_vars
  BY <1>1
<1> QED
  BY <1>2, Invariance, PTL DEF Spec, FieldsOfOthersKept

\* A course loses its category to an update of the course, to a move of the category it
\* is in, or to the deletion of a category it is in or was in.
THEOREM CategoriesKept == Spec => CategoryLostForCause
<1> DEFINE Kept == \A i \in DOMAIN tables.courses \cap DOMAIN tables'.courses :
                       tables'.courses[i].category_id # tables.courses[i].category_id =>
                           \E r \in committed' \ committed :
                               MayMove(r, i, tables.courses[i].category_id)
<1>1. ASSUME CatalogInv, [Next]_vars PROVE Kept
  <2>1. CASE UNCHANGED tables
    BY <2>1
  <2>2. ASSUME NEW r \in committed' \ committed, Respects(r, tables') PROVE Kept
    BY <2>2 DEF Respects
  <2> QED
    BY <1>1, <2>1, <2>2, StepRespects
<1>2. CatalogInv /\ [Next]_vars => [Kept]_vars
  BY <1>1
<1> QED
  BY <1>2, Invariance, PTL DEF Spec, CategoryLostForCause

\* A 500 has a cause in what the request asks for, in a row that is gone or in a deadlock:
\* the constraints never refuse a value the request did not send.
THEOREM ErrorsHaveCause == Spec => ErrorForCause
<1> DEFINE Explained == \A r \in Requests : (answer[r] = 0 /\ answer'[r] = 500) => Cause(r)
<1>1. ASSUME CatalogInv, [Next]_vars PROVE Explained
  <2>1. CASE UNCHANGED vars
    BY <2>1 DEF vars
  <2>2. ASSUME NEW r \in Requests, Arrive(r) \/ Step(r) PROVE Explained
    <3>1. Careful(r) /\ Caused(r)
      BY <1>1, <2>2, StepGood DEF Good
    <3>2. \A q \in Requests \ {r} : answer'[q] = answer[q]
      BY <3>1 DEF Careful, Only
    <3> QED
      BY <3>1, <3>2 DEF Caused
  <2> QED
    BY <1>1, <2>1, <2>2 DEF Next, AllAnswered
<1>2. CatalogInv /\ [Next]_vars => [Explained]_vars
  BY <1>1
<1> QED
  BY <1>2, Invariance, PTL DEF Spec, ErrorForCause

-----------------------------------------------------------------------------
(* The contract.                                                           *)

\* A request that is about to read the row it has inserted has committed; the courses a
\* deletion of a category has found are in it as long as nobody else has moved them.
Ready(r) ==
    /\ (pc[r] = "refresh" /\ job[r].op \in Inserts) => r \in committed
    /\ (pc[r] = "write" /\ job[r].op = "delete_category") =>
          \A k \in kids[r] \cap DOMAIN tables["courses"] :
              Shows(r, "courses", k, tables["courses"][k], [category_id |-> job[r].id])

\* A step of another leaves a request ready.
LEMMA OthersReady ==
    ASSUME CatalogInv, NEW r \in Requests, Good(r), NEW q \in Requests \ {r}, Ready(q)
    PROVE  Ready(q)'
<1>1. /\ pc'[q] = pc[q] /\ job'[q] = job[q] /\ kids'[q] = kids[q]
      /\ Careful(r) /\ (q \in committed => q \in committed')
  BY DEF Good, Careful, Only
<1>2. ASSUME pc[q] = "write", job[q].op = "delete_category",
             NEW k \in kids[q] \cap DOMAIN tables'["courses"]
      PROVE  Shows(q, "courses", k, tables["courses"][k], [category_id |-> job[q].id])'
  <2>1. PICK want : want = [category_id |-> job[q].id]
    OBVIOUS
  <2>2. k \in 1 .. nextId - 1 /\ "courses" \in Tables /\ DOMAIN want \subseteq Columns["courses"]
    BY <2>1, TheTables DEF CatalogInv, RequestInv, Works
  <2>3. k \in DOMAIN tables["courses"] =>
            Shows(q, "courses", k, tables["courses"][k], want)
    BY <1>2, <2>1 DEF Ready
  <2>4. Shows(q, "courses", k, tables["courses"][k], want)'
    BY <1>1, <2>2, <2>3, RowShowsAfter
  <2> QED
    BY <1>1, <2>1, <2>4 DEF Shows
<1> QED
  BY <1>1, <1>2 DEF Ready

\* A commit that goes on to read what it has written has committed.
LEMMA CommitIsReady ==
    ASSUME NEW r \in Requests, DOMAIN pc = Requests, NEW db, NEW n, NEW next \in {"refresh", "done"},
           Commit(r, db, n, next)
    PROVE  pc'[r] \in {"refresh", "done"} /\ (pc'[r] = "refresh" => r \in committed')
BY DEF Commit, Refuse, Answer

\* A request is ready after its own steps.
LEMMA SelfReady ==
    ASSUME CatalogInv, NEW r \in Requests, Ready(r), Arrive(r) \/ Step(r)
    PROVE  Ready(r)'
<1>1. DOMAIN pc = Requests /\ DOMAIN job = Requests /\ DOMAIN kids = Requests
  BY DEF CatalogInv, Frames
<1>2. CASE Arrive(r)
  <2>0. PICK op \in Ops : \E j \in Jobs(op) : /\ job' = [job EXCEPT ![r] = j]
                                             /\ pc' = [pc EXCEPT ![r] = Entry(op)]
    BY <1>2 DEF Arrive
  <2>1. PICK j \in Jobs(op) : job' = [job EXCEPT ![r] = j] /\ pc' = [pc EXCEPT ![r] = Entry(op)]
    BY <2>0
  <2>2. j.op = op
    BY <2>1, OpsAssumption, TheTargets DEF Jobs, Inserts, Deletes, Moves, Reports
  <2>3. Entry(op) \in {"write", "load", "find"}
        /\ (op = "delete_category" => Entry(op) # "write")
    BY DEF Entry, Moves
  <2> QED
    BY <1>1, <2>1, <2>2, <2>3 DEF Ready
<1>3. CASE LoadCourses(r)
  <2>1. /\ kids'[r] = Referring(tables, "courses", "category_id", job[r].id)
        /\ pc'[r] = "write" /\ UNCHANGED <<job, tables>>
    BY <1>1, <1>3 DEF LoadCourses, Note, Goto
  <2> QED
    BY <2>1 DEF Ready, Shows, Referring
<1>4. CASE \/ FindName(r) \/ FindCourse(r) \/ FindRow(r) \/ FindCourses(r) \/ FindDetailed(r)
           \/ LoadTaught(r) \/ LoadLessons(r) \/ CountStudents(r) \/ DeadlockVictim(r)
  <2>1. pc'[r] # "refresh" /\ job' = job
    BY <1>1, <1>4 DEF FindName, FindCourse, FindRow, FindCourses, FindDetailed, LoadTaught,
       LoadLessons, CountStudents, ShowCounts, DeadlockVictim, FindOr404, Note, Goto, Refuse, Answer
  <2>2. pc'[r] = "write" => job[r].op # "delete_category"
    BY <1>1, <1>4 DEF FindName, FindCourse, FindRow, FindCourses, FindDetailed, LoadTaught,
       LoadLessons, CountStudents, ShowCounts, DeadlockVictim, FindOr404, Note, Goto, Refuse, Answer,
       Is, Moves
  <2> QED
    BY <2>1, <2>2 DEF Ready
<1>5. CASE InsertRows(r)
  <2>1. \E db, n : \E next \in {"refresh", "done"} : Commit(r, db, n, next)
    BY <1>5 DEF InsertRows
  <2>2. pc'[r] \in {"refresh", "done"} /\ (pc'[r] = "refresh" => r \in committed')
    BY <1>1, <2>1, CommitIsReady
  <2> QED
    BY <2>2 DEF Ready
<1>6. CASE UpdateRow(r)
  <2>1. job' = job /\ job[r].op \in Updates /\ pc'[r] # "write"
    <3>1. job' = job /\ job[r].op \in Updates
      BY <1>6 DEF UpdateRow, Is, WriteColumns, Commit, Goto, Refuse, Answer
    <3>2. \/ Goto(r, "refresh")
          \/ Refuse(r, 500)
          \/ \E db, n : \E next \in {"refresh", "done"} : Commit(r, db, n, next)
      BY <1>6 DEF UpdateRow, WriteColumns
    <3>3. pc'[r] # "write"
      BY <1>1, <3>2, CommitIsReady DEF Goto, Refuse, Answer
    <3> QED
      BY <3>1, <3>3
  <2>2. job[r].op \notin Inserts
    BY <2>1, TheTargets DEF Inserts
  <2> QED
    BY <2>1, <2>2 DEF Ready
<1>7. CASE \/ Refresh(r) \/ DeleteCategory(r) \/ DeleteCourse(r) \/ DeleteLesson(r) \/ MoveCourses(r)
  <2>1. pc'[r] = "done"
    BY <1>1, <1>7 DEF Refresh, DeleteCategory, DeleteCourse, DeleteLesson, MoveCourses, Commit,
       Refuse, Answer
  <2> QED
    BY <2>1 DEF Ready
<1> QED
  BY <1>2, <1>3, <1>4, <1>5, <1>6, <1>7 DEF Step

\* Every request is ready in every state.
LEMMA AllReady == Spec => [](\A r \in Requests : Ready(r))
<1> DEFINE Readiness == \A r \in Requests : Ready(r)
<1>1. Init => Readiness
  BY DEF Init, Ready
<1>2. ASSUME CatalogInv, Readiness, [Next]_vars PROVE Readiness'
  <2>1. CASE UNCHANGED vars
    BY <1>2, <2>1 DEF vars, Ready, Shows
  <2>2. ASSUME NEW r \in Requests, Arrive(r) \/ Step(r), NEW q \in Requests PROVE Ready(q)'
    <3>1. CASE q = r
      BY <1>2, <2>2, <3>1, SelfReady
    <3>2. CASE q # r
      BY <1>2, <2>2, <3>2, StepGood, OthersReady
    <3> QED
      BY <3>1, <3>2
  <2>3. CASE \E r \in Requests : Arrive(r) \/ Step(r)
    BY <2>2, <2>3
  <2> QED
    BY <1>2, <2>1, <2>3 DEF Next, AllAnswered
<1> QED
  BY <1>1, <1>2, Invariance, PTL DEF Spec

\* What the database allows is consistent.
LEMMA AllowedIsConsistent ==
    ASSUME NEW db, DOMAIN db = Tables, Allowed(db)
    PROVE  Contract!Consistent(db)
BY DEF Allowed, NamesDiffer, RowAllowed, Contract!Consistent

\* Other requests that have given a cell its value have overtaken.
LEMMA ShowsIsOvertaken ==
    ASSUME NEW r, NEW t, NEW i, NEW want, Shows(r, t, i, tables[t][i], want), NEW c \in DOMAIN want
    PROVE  tables[t][i][c] = want[c] \/ Contract!Overtaken(r, t, i, c)
BY DEF Shows, Assigns, Contract!Overtaken

\* Between two statements nothing can be seen.
LEMMA GotoIsStutter ==
    ASSUME NEW r, NEW l, Goto(r, l)
    PROVE  UNCHANGED Contract!vars
BY DEF Goto, Contract!vars

\* A refusal is one of the contract's if its request has not committed, or may lose its
\* answer.
LEMMA RefuseIsAllowed ==
    ASSUME NEW r, NEW code \in {404, 409, 500}, Refuse(r, code), answer[r] = 0,
           job[r].op # "none",
           r \in committed => code = 500 /\ job[r].op \in Inserts \cup Updates
    PROVE  Contract!Refuse(r)
<1>1. answer' = [answer EXCEPT ![r] = code] /\ UNCHANGED <<tables, job, committed>>
  BY DEF Refuse, Answer
<1>2. code \in Contract!Errors
  BY DEF Contract!Errors
<1>3. \E c \in Contract!Errors :
          /\ r \in committed => c = 500 /\ job[r].op \in Inserts \cup Updates
          /\ answer' = [answer EXCEPT ![r] = c]
  BY <1>1, <1>2
<1> QED
  BY <1>1, <1>3 DEF Contract!Refuse

\* What a request that has not committed is refused for.
LEMMA RefuseIsRefuse ==
    ASSUME CatalogInv, NEW r \in Requests, NEW code \in {404, 409, 500}, Refuse(r, code),
           pc[r] \notin {"new", "refresh", "done"}
    PROVE  Contract!Refuse(r)
<1>1. answer[r] = 0 /\ r \notin committed /\ job[r].op \in Methods
  BY Entered
<1>2. job[r].op # "none"
  BY <1>1, TheTargets DEF Methods, Inserts, Deletes, Moves, Reports
<1> QED
  BY <1>1, <1>2, RefuseIsAllowed

\* A COMMIT is the change of its request if what it writes is the effect of the request.
LEMMA CommitIsChange ==
    ASSUME CatalogInv, NEW r \in Requests, pc[r] = "write", NEW db, NEW n, NEW next,
           Commit(r, db, n, next), DOMAIN db = Tables, tables' = db => Contract!Effect(r)
    PROVE  Contract!Change(r) \/ Contract!Refuse(r)
<1>1. CASE ~Allowed(db) /\ Refuse(r, 500)
  BY <1>1, RefuseIsRefuse
<1>2. CASE Allowed(db) /\ tables' = db
  <2>1. answer[r] = 0 /\ r \notin committed
    BY DEF CatalogInv, RequestInv, Awaits
  <2>2. /\ committed' = committed \cup {r} /\ job' = job
        /\ answer' = answer \/ answer' = [answer EXCEPT ![r] = 200]
    <3>1. ~(~Allowed(db) /\ Refuse(r, 500))
      BY <1>2
    <3> QED
      BY <3>1 DEF Commit, Answer
  <2>3. Contract!Consistent(tables')
    BY <1>2, AllowedIsConsistent
  <2> QED
    BY <1>2, <2>1, <2>2, <2>3 DEF Contract!Change
<1> QED
  BY <1>1, <1>2 DEF Commit

\* The rows of courses after they have got another category.
LEMMA PlacedCourses ==
    ASSUME TablesOK, NEW K, NEW v, NEW sets, sets = [category_id |-> v]
    PROVE  Changed(tables, "courses", K, sets) = [tables EXCEPT !["courses"] = Contract!Placed(K, v)]
<1> DEFINE before == tables["courses"]
           new == [k \in DOMAIN before |->
                      IF k \in K THEN [c \in Columns["courses"] |->
                                          IF c \in DOMAIN sets THEN sets[c] ELSE before[k][c]]
                      ELSE before[k]]
<1>1. before \in [DOMAIN before -> [Columns["courses"] -> Int]]
  BY TheTables DEF TablesOK, Typed, Rows
<1>2. DOMAIN sets = {"category_id"} /\ sets["category_id"] = v
  OBVIOUS
<1>3. "category_id" \in Columns["courses"]
  BY TheTables
<1> HIDE DEF before
<1>4. ASSUME NEW k \in DOMAIN before, k \in K
      PROVE  new[k] = [before[k] EXCEPT !["category_id"] = v]
  BY <1>1, <1>2, <1>3, <1>4
<1>5. new = [k \in DOMAIN before |-> IF k \in K THEN [before[k] EXCEPT !["category_id"] = v]
                                     ELSE before[k]]
  BY <1>4
<1>6. Contract!Placed(K, v) = new
  BY <1>5 DEF Contract!Placed, before
<1> QED
  BY <1>6 DEF Changed, With, before

\* INSERTs create the rows of the request.
LEMMA InsertIsCreate ==
    ASSUME CatalogInv, NEW r \in Requests, InsertRows(r)
    PROVE  Contract!Change(r) \/ Contract!Refuse(r)
<1>1. TablesOK /\ JobOK(job[r]) /\ pc[r] = "write" /\ job[r].op \in Inserts /\ nextId \in Nat
  BY Entered DEF InsertRows, Is, TablesOK
<1>2. PICK t \in Tables : t = Target[job[r].op]
  BY <1>1, TheTargets
<1>3. PICK new : new = job[r].rows
  OBVIOUS
<1>4. new \in Seq(Rows(t)) /\ DOMAIN new = 1 .. Len(new) /\ Len(new) \in Nat
  BY <1>1, <1>2, <1>3 DEF JobOK
<1>5. PICK db : db = Added(t, new)
  OBVIOUS
<1>6. /\ Typed(db)
      /\ DOMAIN db[t] = DOMAIN tables[t] \cup (nextId .. nextId + Len(new) - 1)
      /\ \A i \in DOMAIN tables[t] : db[t][i] = tables[t][i]
      /\ \A k \in 1 .. Len(new) : db[t][nextId + k - 1] = new[k]
  BY <1>1, <1>4, <1>5, AddedRows
<1>7. db = [tables EXCEPT ![t] = db[t]]
  BY <1>1, <1>5 DEF Added, With, TablesOK, Typed
<1> DEFINE ids == [k \in DOMAIN new |-> nextId + k - 1]
<1>8. ids \in [DOMAIN new -> DOMAIN db[t] \ DOMAIN tables[t]]
  <2>1. \A i \in DOMAIN tables[t] : i < nextId
    BY <1>1 DEF TablesOK, Below
  <2>2. \A k \in 1 .. Len(new) : nextId + k - 1 \in nextId .. nextId + Len(new) - 1
                                 /\ ~(nextId + k - 1 < nextId)
    BY <1>1, <1>4
  <2> QED
    BY <1>4, <1>6, <2>1, <2>2
<1>9. \A k, l \in DOMAIN ids : ids[k] = ids[l] => k = l
  BY <1>1, <1>4
<1>10. DOMAIN db[t] = DOMAIN tables[t] \cup {ids[k] : k \in DOMAIN ids}
  <2>1. \A i \in nextId .. nextId + Len(new) - 1 :
            i - nextId + 1 \in 1 .. Len(new) /\ nextId + (i - nextId + 1) - 1 = i
    BY <1>1, <1>4
  <2>2. \A k \in 1 .. Len(new) : nextId + k - 1 \in nextId .. nextId + Len(new) - 1
    BY <1>1, <1>4
  <2>3. {ids[k] : k \in DOMAIN ids} = nextId .. nextId + Len(new) - 1
    BY <1>4, <2>1, <2>2
  <2> QED
    BY <1>6, <2>3
<1>11. \A k \in DOMAIN ids : db[t][ids[k]] = new[k]
  BY <1>4, <1>6
<1>12. DOMAIN ids = DOMAIN new
  OBVIOUS
<1> HIDE DEF ids
<1>13. ASSUME tables' = db PROVE Contract!Effect(r)
  <2>1. ids \in [DOMAIN job[r].rows -> DOMAIN tables'[t] \ DOMAIN tables[t]]
    BY <1>3, <1>8, <1>13
  <2>2. Contract!Create(r, t)
    BY <1>1, <1>3, <1>6, <1>7, <1>9, <1>10, <1>11, <1>13, <2>1 DEF Contract!Create
  <2> QED
    BY <1>2, <2>2 DEF Contract!Effect
<1>14. \E n, next : Commit(r, db, n, next)
  BY <1>2, <1>3, <1>5 DEF InsertRows
<1>15. DOMAIN db = Tables
  BY <1>6 DEF Typed
<1> QED
  BY <1>1, <1>13, <1>14, <1>15, CommitIsChange

\* An update sets the columns that differ from what it has loaded; the others are as it
\* wants them, or have been overtaken since.
LEMMA UpdateIsUpdate ==
    ASSUME CatalogInv, NEW r \in Requests, UpdateRow(r)
    PROVE  Contract!Change(r) \/ Contract!Refuse(r) \/ UNCHANGED Contract!vars
<1>1. /\ TablesOK /\ RequestInv(r) /\ JobOK(job[r])
      /\ pc[r] = "write" /\ job[r].op \in Updates
  BY Entered DEF UpdateRow, Is
<1>2. PICK t \in Tables : t = Target[job[r].op]
  BY <1>1, TheTargets
<1>3. PICK i : i = job[r].id
  OBVIOUS
<1>4. PICK sent : sent = job[r].sets
  OBVIOUS
<1>5. PICK sets : sets = Altered(loaded[r], job[r].sets)
  OBVIOUS
<1>6. PICK row : row = loaded[r]
  OBVIOUS
<1>7. /\ row \in Rows(t)
      /\ i \in DOMAIN tables[t] => Shows(r, t, i, tables[t][i], row)
  BY <1>1, <1>2, <1>3, <1>6 DEF RequestInv, Reads
<1>8. DOMAIN sent \subseteq Columns[t] /\ DOMAIN row = Columns[t]
  BY <1>1, <1>2, <1>4, <1>7, TheTargets DEF JobOK, Rows
<1>9. /\ DOMAIN sets = {c \in DOMAIN sent : sent[c] # row[c]}
      /\ \A c \in DOMAIN sets : sets[c] = sent[c]
  BY <1>4, <1>5, <1>6 DEF Altered
<1>10. CASE Goto(r, "refresh")
  BY <1>10, GotoIsStutter
<1>11. CASE Refuse(r, 500)
  BY <1>1, <1>11, RefuseIsRefuse
<1>12. CASE i \in DOMAIN tables[t] /\ Commit(r, Changed(tables, t, {i}, sets), 0, "refresh")
  <2>1. PICK db : db = Changed(tables, t, {i}, sets)
    OBVIOUS
  <2>2. tables[t] \in [DOMAIN tables[t] -> [Columns[t] -> Int]] /\ DOMAIN tables = Tables
    BY <1>1 DEF TablesOK, Typed, Rows
  <2>3. PICK C : C = DOMAIN sets
    OBVIOUS
  <2>4. PICK cells : cells = [c \in DOMAIN tables[t][i] |-> IF c \in C THEN sent[c]
                                                            ELSE tables[t][i][c]]
    OBVIOUS
  <2>5. cells = [c \in Columns[t] |-> IF c \in DOMAIN sets THEN sets[c] ELSE tables[t][i][c]]
    BY <1>9, <1>12, <2>2, <2>3, <2>4
  <2>6. [k \in DOMAIN tables[t] |->
            IF k \in {i} THEN [c \in Columns[t] |-> IF c \in DOMAIN sets THEN sets[c]
                                                    ELSE tables[t][k][c]]
            ELSE tables[t][k]]
        = [tables[t] EXCEPT ![i] = cells]
    BY <1>12, <2>2, <2>5
  <2>7. db = [tables EXCEPT ![t] = [tables[t] EXCEPT ![i] = cells]]
    BY <2>1, <2>6 DEF Changed, With
  <2>8. C \in SUBSET DOMAIN sent
    BY <1>9, <2>3
  <2>9. Contract!AsSent(r, t, DOMAIN sent \ C)
    <3>1. ASSUME NEW c \in DOMAIN sent \ C
          PROVE  tables[t][i][c] = sent[c] \/ Contract!Overtaken(r, t, i, c)
      <4>1. c \in DOMAIN row /\ sent[c] = row[c]
        BY <1>8, <1>9, <2>3, <3>1
      <4> QED
        BY <1>7, <1>12, <4>1, ShowsIsOvertaken
    <3> QED
      BY <1>3, <1>4, <1>12, <3>1 DEF Contract!AsSent
  <2>10. ASSUME tables' = db PROVE Contract!Effect(r)
    <3>1. tables' = [tables EXCEPT ![t][i] = [c \in DOMAIN @ |-> IF c \in C THEN sent[c] ELSE @[c]]]
      BY <2>4, <2>7, <2>10
    <3>2. Contract!Update(r, t)
      BY <1>1, <1>3, <1>4, <2>8, <2>9, <3>1 DEF Contract!Update
    <3> QED
      BY <1>2, <3>2 DEF Contract!Effect
  <2>11. DOMAIN db = Tables
    BY <2>2, <2>7
  <2> QED
    BY <1>1, <1>12, <2>1, <2>10, <2>11, CommitIsChange
<1>13. \/ Goto(r, "refresh")
       \/ Refuse(r, 500)
       \/ i \in DOMAIN tables[t] /\ Commit(r, Changed(tables, t, {i}, sets), 0, "refresh")
  BY <1>2, <1>3, <1>5 DEF UpdateRow, WriteColumns
<1> QED
  BY <1>10, <1>11, <1>12, <1>13

\* A bulk move places courses of the old category in the new one.
LEMMA MoveIsMove ==
    ASSUME CatalogInv, NEW r \in Requests, MoveCourses(r)
    PROVE  Contract!Change(r) \/ Contract!Refuse(r)
<1>1. TablesOK /\ pc[r] = "write" /\ job[r].op \in Moves
  BY Entered DEF MoveCourses, Is
<1>2. PICK still : still = kids[r] \cap Referring(tables, "courses", "category_id", job[r].old)
  OBVIOUS
<1>3. PICK sets : sets = [category_id |-> job[r].new]
  OBVIOUS
<1>4. PICK db : db = Changed(tables, "courses", still, sets)
  OBVIOUS
<1>5. db = [tables EXCEPT !["courses"] = Contract!Placed(still, job[r].new)]
  BY <1>1, <1>3, <1>4, PlacedCourses
<1>6. still \in SUBSET Contract!Of("courses", "category_id", job[r].old)
  BY <1>2 DEF Referring, Contract!Of
<1>7. tables' = db => Contract!Effect(r)
  BY <1>1, <1>5, <1>6 DEF Contract!Effect, Contract!Move
<1>8. DOMAIN db = Tables
  BY <1>1, <1>5 DEF TablesOK, Typed
<1>9. Commit(r, db, 0, "done")
  BY <1>2, <1>3, <1>4 DEF MoveCourses
<1> QED
  BY <1>1, <1>7, <1>8, <1>9, CommitIsChange

\* The deletion of a category takes it from its courses and from those it has found.
LEMMA DeleteCategoryIsDelete ==
    ASSUME CatalogInv, NEW r \in Requests, Ready(r), DeleteCategory(r)
    PROVE  Contract!Change(r) \/ Contract!Refuse(r)
<1>1. TablesOK /\ Typed(tables) /\ pc[r] = "write" /\ job[r].op = "delete_category"
  BY Entered DEF DeleteCategory, Is, TablesOK
<1>2. CASE Refuse(r, 500)
  BY <1>1, <1>2, RefuseIsRefuse
<1>3. PICK i : i = job[r].id
  OBVIOUS
<1>4. PICK sets : sets = [category_id |-> Null]
  OBVIOUS
<1>5. PICK mid : mid = Changed(tables, "courses", kids[r], sets)
  OBVIOUS
<1>6. PICK db : db = CategoryGone(mid, i)
  OBVIOUS
<1>7. CASE kids[r] \subseteq DOMAIN tables["courses"] /\ Commit(r, db, 0, "done")
  <2>1. PICK courses : courses = tables["courses"]
    OBVIOUS
  <2>2. PICK K : K = kids[r] \cup {k \in DOMAIN courses : courses[k]["category_id"] = i}
    OBVIOUS
  <2>3. /\ DOMAIN courses = DOMAIN tables["courses"]
        /\ courses \in [DOMAIN courses -> [Columns["courses"] -> Int]]
        /\ "category_id" \in Columns["courses"] /\ "courses" \in Tables
    BY <1>1, <2>1, TheTables DEF Typed, Rows
  <2>4. PICK placed : placed = Contract!Placed(K, Null)
    OBVIOUS
  <2>5. /\ Typed(mid)
        /\ mid = [tables EXCEPT !["courses"] = Contract!Placed(kids[r], Null)]
    <3>1. DOMAIN sets = {"category_id"} /\ \A c \in DOMAIN sets : sets[c] \in Int
      BY <1>4 DEF Null
    <3> QED
      BY <1>1, <1>4, <1>5, <2>3, <3>1, ChangedRows, PlacedCourses
  <2>6. /\ mid["courses"] = [k \in DOMAIN courses |->
               IF k \in kids[r] THEN [courses[k] EXCEPT !["category_id"] = Null] ELSE courses[k]]
        /\ DOMAIN mid = Tables
        /\ \A u \in Tables \ {"courses"} : mid[u] = tables[u]
    BY <1>1, <2>1, <2>3, <2>5 DEF Typed, Contract!Placed
  <2>7. PICK J : J = Referring(mid, "courses", "category_id", i)
    OBVIOUS
  <2>8. J = {k \in DOMAIN courses : mid["courses"][k]["category_id"] = i}
    BY <2>6, <2>7 DEF Referring
  <2>9. PICK last : last = [k \in DOMAIN mid["courses"] |->
            IF k \in J THEN [c \in Columns["courses"] |-> IF c \in DOMAIN sets THEN sets[c]
                                                          ELSE mid["courses"][k][c]]
            ELSE mid["courses"][k]]
    OBVIOUS
  <2>10. last = placed
    <3>1. ASSUME NEW k \in DOMAIN courses
          PROVE  last[k] = IF k \in K THEN [courses[k] EXCEPT !["category_id"] = Null]
                           ELSE courses[k]
      <4>1. /\ courses[k] \in [Columns["courses"] -> Int]
            /\ DOMAIN sets = {"category_id"} /\ sets["category_id"] = Null
            /\ DOMAIN mid["courses"] = DOMAIN courses
        BY <1>4, <2>3, <2>6
      <4>2. CASE k \in kids[r]
        <5>1. mid["courses"][k] = [courses[k] EXCEPT !["category_id"] = Null] /\ k \in K
          BY <2>2, <2>6, <4>2
        <5>2. last[k] = mid["courses"][k]
          BY <2>3, <2>9, <4>1, <5>1
        <5> QED
          BY <5>1, <5>2
      <4>3. CASE k \notin kids[r]
        <5>1. mid["courses"][k] = courses[k] /\ (k \in J <=> k \in K)
          BY <2>2, <2>6, <2>8, <4>3
        <5>2. CASE k \in J
          BY <2>3, <2>9, <4>1, <5>1, <5>2
        <5>3. CASE k \notin J
          BY <2>9, <4>1, <5>1, <5>3
        <5> QED
          BY <5>2, <5>3
      <4> QED
        BY <4>2, <4>3
    <3>2. placed = [k \in DOMAIN courses |->
                       IF k \in K THEN [courses[k] EXCEPT !["category_id"] = Null] ELSE courses[k]]
      BY <2>1, <2>4 DEF Contract!Placed
    <3>3. DOMAIN mid["courses"] = DOMAIN courses
      BY <2>6
    <3> QED
      BY <2>9, <3>1, <3>2, <3>3
  <2>11. PICK left : left = Contract!Without("categories", {i})
    OBVIOUS
  <2>12. db = [tables EXCEPT !["categories"] = left, !["courses"] = placed]
    <3>1. Changed(mid, "courses", J, sets) = [mid EXCEPT !["courses"] = placed]
      BY <2>9, <2>10 DEF Changed, With
    <3>2. PICK m : m = [mid EXCEPT !["courses"] = placed]
      OBVIOUS
    <3>3. m["categories"] = tables["categories"]
      BY <2>6, <3>2, TheTables
    <3>4. db = [m EXCEPT !["categories"] = left]
      BY <1>4, <1>6, <2>7, <2>11, <3>1, <3>2, <3>3
         DEF CategoryGone, Removed, With, Contract!Without
    <3> QED
      BY <2>5, <3>2, <3>4
  <2>13. K \in SUBSET DOMAIN courses
    BY <1>7, <2>2, <2>3
  <2>14. ASSUME NEW k \in K
         PROVE  courses[k]["category_id"] = i \/ Contract!Overtaken(r, "courses", k, "category_id")
    <3>1. CASE k \in kids[r]
      <4>1. PICK want : want = [category_id |-> i]
        OBVIOUS
      <4>2. Shows(r, "courses", k, tables["courses"][k], want)
        BY <1>1, <1>3, <1>7, <3>1, <4>1 DEF Ready
      <4>3. "category_id" \in DOMAIN want /\ want["category_id"] = i
        BY <4>1
      <4> QED
        BY <2>1, <4>2, <4>3, ShowsIsOvertaken
    <3> QED
      BY <2>2, <2>14, <3>1
  <2>15. Contract!Of("courses", "category_id", i) \subseteq K
    BY <2>1, <2>2 DEF Contract!Of
  <2>16. ASSUME tables' = db PROVE Contract!Effect(r)
    <3>1. Contract!DeleteCategory(r)
      BY <1>1, <1>3, <2>1, <2>4, <2>11, <2>12, <2>13, <2>14, <2>15, <2>16
         DEF Contract!DeleteCategory
    <3> QED
      BY <3>1 DEF Contract!Effect
  <2>17. DOMAIN db = Tables
    BY <1>1, <2>12 DEF Typed
  <2> QED
    BY <1>1, <1>7, <2>16, <2>17, CommitIsChange
<1>8. \/ Refuse(r, 500)
      \/ kids[r] \subseteq DOMAIN tables["courses"] /\ Commit(r, db, 0, "done")
  BY <1>3, <1>4, <1>5, <1>6 DEF DeleteCategory
<1> QED
  BY <1>2, <1>7, <1>8

\* The deletion of a course takes its lessons and enrollments with it.
LEMMA DeleteCourseIsDelete ==
    ASSUME CatalogInv, NEW r \in Requests, DeleteCourse(r)
    PROVE  Contract!Change(r) \/ Contract!Refuse(r)
<1>1. TablesOK /\ DOMAIN tables = Tables /\ pc[r] = "write" /\ job[r].op = "delete_course"
  BY Entered DEF DeleteCourse, Is, TablesOK, Typed
<1>2. PICK i : i = job[r].id
  OBVIOUS
<1>3. PICK A : A = Contract!Without("lessons", Contract!Of("lessons", "course_id", i))
  OBVIOUS
<1>4. PICK B : B = Contract!Without("enrollments", Contract!Of("enrollments", "course_id", i))
  OBVIOUS
<1>5. PICK C : C = Contract!Without("courses", {i})
  OBVIOUS
<1>6. PICK d1 : d1 = [tables EXCEPT !["lessons"] = A]
  OBVIOUS
<1>7. PICK d2 : d2 = [d1 EXCEPT !["enrollments"] = B]
  OBVIOUS
<1>8. PICK db : db = [d2 EXCEPT !["courses"] = C]
  OBVIOUS
<1>9. d1["enrollments"] = tables["enrollments"] /\ d2["courses"] = tables["courses"]
  BY <1>1, <1>6, <1>7, TheTables
<1>10. d1 = Removed(tables, "lessons", Referring(tables, "lessons", "course_id", i))
  BY <1>3, <1>6 DEF Removed, With, Referring, Contract!Without, Contract!Of
<1>11. d2 = Removed(d1, "enrollments", Referring(tables, "enrollments", "course_id", i))
  BY <1>4, <1>7, <1>9 DEF Removed, With, Referring, Contract!Without, Contract!Of
<1>12. db = Removed(d2, "courses", {i})
  BY <1>5, <1>8, <1>9 DEF Removed, With, Contract!Without
<1>13. CourseGone(tables, i) = db
  BY <1>10, <1>11, <1>12 DEF CourseGone
<1>14. db = [tables EXCEPT !["courses"] = C, !["lessons"] = A, !["enrollments"] = B]
  BY <1>1, <1>6, <1>7, <1>8, TheTables
<1>15. ASSUME tables' = db PROVE Contract!Effect(r)
  <2>1. Contract!DeleteCourse(r)
    BY <1>1, <1>2, <1>3, <1>4, <1>5, <1>14, <1>15 DEF Contract!DeleteCourse
  <2> QED
    BY <2>1 DEF Contract!Effect
<1>16. DOMAIN db = Tables
  BY <1>1, <1>14
<1>17. Commit(r, db, 0, "done")
  BY <1>2, <1>13 DEF DeleteCourse
<1> QED
  BY <1>1, <1>15, <1>16, <1>17, CommitIsChange

\* The deletion of a lesson.
LEMMA DeleteLessonIsDelete ==
    ASSUME CatalogInv, NEW r \in Requests, DeleteLesson(r)
    PROVE  Contract!Change(r) \/ Contract!Refuse(r)
<1>1. DOMAIN tables = Tables /\ pc[r] = "write" /\ job[r].op = "delete_lesson"
  BY Entered DEF DeleteLesson, Is, TablesOK, Typed
<1>2. PICK db : db = Removed(tables, "lessons", {job[r].id})
  OBVIOUS
<1>3. db = [tables EXCEPT !["lessons"] = Contract!Without("lessons", {job[r].id})]
  BY <1>2 DEF Removed, With, Contract!Without
<1>4. ASSUME tables' = db PROVE Contract!Effect(r)
  <2>1. Contract!DeleteLesson(r)
    BY <1>1, <1>3, <1>4 DEF Contract!DeleteLesson
  <2> QED
    BY <2>1 DEF Contract!Effect
<1>5. DOMAIN db = Tables
  BY <1>1, <1>3
<1>6. Commit(r, db, 0, "done")
  BY <1>2 DEF DeleteLesson
<1> QED
  BY <1>1, <1>4, <1>5, <1>6, CommitIsChange

\* The answer of an update or a creation.
LEMMA RefreshIsAnswer ==
    ASSUME CatalogInv, NEW r \in Requests, Ready(r), Refresh(r)
    PROVE  Contract!Succeed(r) \/ Contract!Refuse(r)
<1>1. /\ RequestInv(r) /\ JobOK(job[r]) /\ pc[r] = "refresh" /\ answer[r] = 0
      /\ job[r].op \in Updates \cup Inserts
  BY Entered DEF Refresh, RequestInv, Written
<1>2. PICK t : t = Target[job[r].op]
  OBVIOUS
<1>3. PICK i : i = RowOf(r)
  OBVIOUS
<1>4. \/ Refuse(r, 500)
      \/ /\ i \in DOMAIN tables[t] /\ Answer(r, 200, tables[t][i])
         /\ UNCHANGED <<tables, nextId, made, committed>>
  BY <1>2, <1>3 DEF Refresh, RowOf
<1>5. CASE Refuse(r, 500)
  <2>1. job[r].op # "none" /\ (r \in committed => job[r].op \in Inserts \cup Updates)
    BY <1>1, TheTargets DEF Inserts
  <2> QED
    BY <1>1, <1>5, <2>1, RefuseIsAllowed
<1>6. CASE /\ i \in DOMAIN tables[t] /\ Answer(r, 200, tables[t][i])
           /\ UNCHANGED <<tables, nextId, made, committed>>
  <2>1. answer' = [answer EXCEPT ![r] = 200] /\ UNCHANGED <<tables, job, committed>>
    BY <1>6 DEF Answer
  <2>2. CASE job[r].op \in Inserts
    <3>1. r \in committed
      BY <1>1, <2>2 DEF Ready
    <3> QED
      BY <1>1, <2>1, <3>1 DEF Contract!Succeed
  <2>3. CASE job[r].op \in Updates
    <3>1. Shows(r, t, i, tables[t][i], job[r].sets) /\ i = job[r].id
      BY <1>1, <1>2, <1>3, <1>6, <2>3 DEF RequestInv, Written, RowOf, WantOf
    <3>2. \A c \in DOMAIN job[r].sets : tables[t][i][c] = job[r].sets[c]
                                        \/ Contract!Overtaken(r, t, i, c)
      BY <3>1, ShowsIsOvertaken
    <3>3. Contract!AsSent(r, t, DOMAIN job[r].sets)
      BY <1>6, <3>1, <3>2 DEF Contract!AsSent
    <3> QED
      BY <1>1, <1>2, <2>1, <2>3, <3>3 DEF Contract!Succeed
  <2> QED
    BY <1>1, <2>2, <2>3
<1> QED
  BY <1>4, <1>5, <1>6

\* The report of a method that only reads.
LEMMA ReportIsAnswer ==
    ASSUME CatalogInv, NEW r \in Requests, pc[r] # "done", job[r].op \in Reports, NEW row,
           Answer(r, 200, row), UNCHANGED <<tables, committed>>
    PROVE  Contract!Succeed(r)
<1>1. answer[r] = 0
  BY Entered
<1>2. answer' = [answer EXCEPT ![r] = 200] /\ UNCHANGED <<tables, job, committed>>
  BY DEF Answer
<1> QED
  BY <1>1, <1>2 DEF Contract!Succeed

\* What a request reads before it writes, it is refused for or keeps to itself.
LEMMA FindIsRefuse ==
    ASSUME CatalogInv, NEW r \in Requests,
           \/ FindName(r) \/ FindCourse(r) \/ FindRow(r) \/ LoadCourses(r) \/ FindCourses(r)
           \/ FindDetailed(r) \/ LoadTaught(r) \/ DeadlockVictim(r)
    PROVE  Contract!Refuse(r) \/ UNCHANGED Contract!vars
<1>1. pc[r] \in {"find", "load", "write"}
  BY DEF FindName, FindCourse, FindRow, LoadCourses, FindCourses, FindDetailed, LoadTaught,
     DeadlockVictim, Is
<1>2. \/ \E code \in {404, 409, 500} : Refuse(r, code)
      \/ \E l : Goto(r, l)
  BY DEF FindName, FindCourse, FindRow, LoadCourses, FindCourses, FindDetailed, LoadTaught,
     DeadlockVictim, FindOr404, Note
<1>3. ASSUME NEW code \in {404, 409, 500}, Refuse(r, code) PROVE Contract!Refuse(r)
  BY <1>1, <1>3, RefuseIsRefuse
<1>4. ASSUME NEW l, Goto(r, l) PROVE UNCHANGED Contract!vars
  BY <1>4, GotoIsStutter
<1> QED
  BY <1>2, <1>3, <1>4

\* Whatever a request does next, the contract allows it.
LEMMA StepIsAllowed ==
    ASSUME CatalogInv, NEW r \in Requests, Ready(r), Arrive(r) \/ Step(r)
    PROVE  Contract!Next \/ UNCHANGED Contract!vars
<1>1. CASE Arrive(r)
  <2>1. job[r].op = "none"
    BY <1>1, Entered DEF Arrive, RequestInv, Works, NoJob
  <2>2. \E j : job' = [job EXCEPT ![r] = j]
    BY <1>1 DEF Arrive
  <2>3. \A q \in Requests \ {r} : job'[q] = job[q]
    BY <2>2 DEF CatalogInv, Frames
  <2>4. Contract!Call(r)
    BY <1>1, <2>1, <2>3 DEF Arrive, Contract!Call
  <2> QED
    BY <2>4 DEF Contract!Next
<1>2. CASE \/ InsertRows(r) \/ MoveCourses(r) \/ DeleteCategory(r) \/ DeleteCourse(r)
           \/ DeleteLesson(r)
  <2>1. Contract!Change(r) \/ Contract!Refuse(r)
    BY <1>2, InsertIsCreate, MoveIsMove, DeleteCategoryIsDelete, DeleteCourseIsDelete,
       DeleteLessonIsDelete
  <2> QED
    BY <2>1 DEF Contract!Next
<1>3. CASE UpdateRow(r)
  BY <1>3, UpdateIsUpdate DEF Contract!Next
<1>4. CASE Refresh(r)
  BY <1>4, RefreshIsAnswer DEF Contract!Next
<1>5. CASE LoadLessons(r) \/ CountStudents(r)
  <2>1. pc[r] # "done" /\ job[r].op \in Reports
    BY <1>5 DEF LoadLessons, CountStudents, ShowCounts, Is, Reports
  <2>2. \/ \E row : Answer(r, 200, row) /\ UNCHANGED <<tables, committed>>
        \/ Goto(r, "count")
    BY <1>5 DEF LoadLessons, CountStudents, ShowCounts
  <2>3. Contract!Succeed(r) \/ UNCHANGED Contract!vars
    BY <2>1, <2>2, ReportIsAnswer, GotoIsStutter
  <2> QED
    BY <2>3 DEF Contract!Next
<1>6. CASE \/ FindName(r) \/ FindCourse(r) \/ FindRow(r) \/ LoadCourses(r) \/ FindCourses(r)
           \/ FindDetailed(r) \/ LoadTaught(r) \/ DeadlockVictim(r)
  BY <1>6, FindIsRefuse DEF Contract!Next
<1> QED
  BY <1>1, <1>2, <1>3, <1>4, <1>5, <1>6 DEF Step

\* Every request is one atomic change of the tables or none, however many statements it
\* consists of and whatever others commit between them: it creates all the rows it has been
\* sent, sets the columns it has been sent, deletes with everything that hangs on it, and
\* its answer tells whether it has.
THEOREM MethodsKeepContract == Spec => KeepsContract
<1> DEFINE Readiness == \A r \in Requests : Ready(r)
<1>1. Init => Contract!Init
  <2> SUFFICES ASSUME Init PROVE Contract!Init
    OBVIOUS
  <2>1. DOMAIN tables = Tables /\ Allowed(tables)
    BY CatalogAssumption DEF Init
  <2>2. \A r \in Requests : job[r].op = "none"
    BY DEF Init, NoJob
  <2>3. Contract!Consistent(tables)
    BY <2>1, AllowedIsConsistent
  <2> QED
    BY <2>2, <2>3 DEF Init, Contract!Init
<1>2. CatalogInv /\ Readiness /\ [Next]_vars => [Contract!Next]_(Contract!vars)
  <2> SUFFICES ASSUME CatalogInv, Readiness, [Next]_vars
               PROVE  Contract!Next \/ UNCHANGED Contract!vars
    OBVIOUS
  <2>1. ASSUME NEW r \in Requests, Arrive(r) \/ Step(r)
        PROVE  Contract!Next \/ UNCHANGED Contract!vars
    BY <2>1, StepIsAllowed
  <2>2. CASE UNCHANGED vars
    BY <2>2 DEF vars, Contract!vars
  <2> QED
    BY <2>1, <2>2 DEF Next, AllAnswered
<1>3. Spec => []Readiness
  BY AllReady
<1> QED
  BY <1>1, <1>2, <1>3, Invariance, PTL DEF Spec, KeepsContract, Contract!Spec

=============================================================================
