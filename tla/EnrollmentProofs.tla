-------------------------- MODULE EnrollmentProofs --------------------------
(***************************************************************************)
(* Proofs about Enrollment for every set of users, courses, limits and     *)
(* requests: the types of the variables, the inductive invariant SeatsInv, *)
(* and that seats never grow beyond the limit of their course.             *)
(***************************************************************************)
EXTENDS Enrollment, FiniteSetTheorems, TLAPS

\* What a step may do to the number of seats (the body of SeatsRespectCap).
SeatGain == \A c \in Courses : Cardinality(RowsOf(c)') > Cardinality(RowsOf(c))
                                  => Cardinality(RowsOf(c)') <= cap[c]

LocType == [cap : Int, row : Nat, todo : SUBSET Nat]

\* What has to be shown of each step.
Good == TypeOK' /\ SeatsInv' /\ SeatGain

\* A step of r leaves the other requests alone and locks no course of theirs.
OthersKeep(r) ==
    \A q \in Requests \ {r} :
        /\ pc'[q] = pc[q] /\ job'[q] = job[q] /\ loc'[q] = loc[q]
        /\ courseLocks'[q] = courseLocks[q]
        /\ courseLocks'[r] \cap courseLocks[q] = {}

-----------------------------------------------------------------------------
(* Counting                                                                *)

\* The table is finite, so the seats of a course can be counted.
LEMMA RowsOfFinite ==
    ASSUME IsFiniteSet(rows), NEW c
    PROVE  IsFiniteSet(RowsOf(c)) /\ Cardinality(RowsOf(c)) \in Nat
<1>1. RowsOf(c) \in SUBSET rows BY DEF RowsOf
<1>2. IsFiniteSet(RowsOf(c)) BY <1>1, FS_Subset
<1> QED BY <1>2, FS_CardinalityType

\* Fewer rows, fewer seats.
LEMMA FewerSeats ==
    ASSUME IsFiniteSet(rows), IsFiniteSet(rows'), NEW c, RowsOf(c)' \subseteq RowsOf(c)
    PROVE  /\ Cardinality(RowsOf(c)) \in Nat
           /\ Cardinality(RowsOf(c)') \in Nat
           /\ Cardinality(RowsOf(c)') <= Cardinality(RowsOf(c))
<1>1. IsFiniteSet(RowsOf(c)) /\ Cardinality(RowsOf(c)) \in Nat BY RowsOfFinite
<1>2. RowsOf(c)' \in SUBSET RowsOf(c) OBVIOUS
<1>3. /\ IsFiniteSet(RowsOf(c)')
      /\ Cardinality(RowsOf(c)') <= Cardinality(RowsOf(c))
    BY <1>1, <1>2, FS_Subset
<1>4. Cardinality(RowsOf(c)') \in Nat BY <1>3, FS_CardinalityType
<1> QED BY <1>1, <1>3, <1>4

\* The capacity check adds a natural number to the count: an operand of <= in BulkCount.
LEMMA WantedIsNat ==
    ASSUME NEW j \in EnrollJobs \cup BulkJobs \cup TransferJobs
    PROVE  SeatsWanted(j) \in Nat
<1>1. CASE j \in BulkJobs
    <2>1. j.op = "bulk" /\ j.ids \in SUBSET UserIds /\ j.again \in Nat
        BY <1>1, EnrollmentAssumption DEF BulkJobs
    <2>2. Cardinality(j.ids) \in Nat
        BY <2>1, EnrollmentAssumption, FS_Subset, FS_CardinalityType
    <2> QED BY <2>1, <2>2 DEF SeatsWanted
<1>2. CASE j \notin BulkJobs
    <2>1. j.op # "bulk" BY <1>2 DEF EnrollJobs, TransferJobs
    <2> QED BY <2>1 DEF SeatsWanted
<1> QED BY <1>1, <1>2

\* What a statement remembers has the type of loc.
LEMMA LocUpdates ==
    ASSUME NEW m \in LocType
    PROVE  /\ \A v \in Int : [m EXCEPT !.cap = v] \in LocType
           /\ \A v \in Nat : [m EXCEPT !.row = v] \in LocType
           /\ \A v \in SUBSET Nat : [m EXCEPT !.todo = v] \in LocType
BY DEF LocType

\* The limit of a course is an integer, whatever the schema lets through.
LEMMA LimitIsInt == ASSUME TypeOK, NEW c \in Courses PROVE cap[c] \in Int
<1>1. cap \in [Courses -> Caps] BY DEF TypeOK
<1>2. Caps \subseteq Int BY EnrollmentAssumption
<1> QED BY <1>1, <1>2

-----------------------------------------------------------------------------
(* A step of r keeps SeatsInv when it keeps what is stated of r, and what   *)
(* the others have locked.                                                 *)

\* The invariant of a request survives a step of another one that keeps its course.
LEMMA OthersInv ==
    ASSUME TypeOK, SeatsInv, NEW r \in Requests, OthersKeep(r),
           IsFiniteSet(rows'),
           NEW q \in Requests, q # r,
           \A c \in courseLocks[q] : cap'[c] = cap[c] /\ RowsOf(c)' \subseteq RowsOf(c)
    PROVE  RequestInv(q)'
<1> USE DEF OthersKeep
<1>1. RequestInv(q) BY DEF SeatsInv
<1>2. JobFits(q)' BY <1>1 DEF RequestInv, JobFits
<1>3. UsersKnown(q)' BY <1>1 DEF RequestInv, UsersKnown
<1>4. LimitIsCurrent(q)' BY <1>1 DEF RequestInv, LimitIsCurrent
<1>5. CountIsCurrent(q)'
    <2> SUFFICES ASSUME pc[q] \in Counted
                 PROVE  Cardinality(RowsOf(job[q].course)') + SeatsWanted(job[q])
                            <= loc[q].cap
        BY DEF CountIsCurrent
    <2>1. job[q].course \in courseLocks[q] BY <1>1 DEF RequestInv, Counted, Locked
    <2>2. /\ Cardinality(RowsOf(job[q].course)) \in Nat
          /\ Cardinality(RowsOf(job[q].course)') \in Nat
          /\ Cardinality(RowsOf(job[q].course)') <= Cardinality(RowsOf(job[q].course))
        BY <2>1, FewerSeats DEF SeatsInv
    <2>3. job[q] \in EnrollJobs \cup BulkJobs \cup TransferJobs
        BY <1>1 DEF RequestInv, JobFits, Counted, EnrollLabels, BulkLabels, TransferLabels
    <2>4. SeatsWanted(job[q]) \in Nat BY <2>3, WantedIsNat
    <2>5. loc[q].cap \in Int BY DEF TypeOK
    <2>6. Cardinality(RowsOf(job[q].course)) + SeatsWanted(job[q]) <= loc[q].cap
        BY <1>1 DEF RequestInv, CountIsCurrent
    <2> QED BY <2>2, <2>4, <2>5, <2>6
<1> QED BY <1>1, <1>2, <1>3, <1>4, <1>5 DEF RequestInv

\* A step that changes no table and takes no lock of another request is good when
\* it leaves the stepping request in its invariant.
LEMMA Frame ==
    ASSUME TypeOK, SeatsInv, NEW r \in Requests, OthersKeep(r),
           IsFiniteSet(rows'), RequestInv(r)',
           courseLocks'[r] \subseteq live',
           \A q \in Requests \ {r} :
              /\ courseLocks[q] \subseteq live'
              /\ \A c \in courseLocks[q] : cap'[c] = cap[c] /\ RowsOf(c)' \subseteq RowsOf(c)
    PROVE  SeatsInv'
<1>1. \A q \in Requests : courseLocks'[q] \subseteq live' BY DEF OthersKeep
<1>2. \A p, q \in Requests : p # q => courseLocks'[p] \cap courseLocks'[q] = {}
    BY DEF OthersKeep, SeatsInv
<1>3. \A q \in Requests : RequestInv(q)'
    <2> TAKE q \in Requests
    <2>1. CASE q = r BY <2>1
    <2>2. CASE q # r BY <2>2, OthersInv
    <2> QED BY <2>1, <2>2
<1> QED BY <1>1, <1>2, <1>3 DEF SeatsInv

\* A step that changes no table.
LEMMA Quiet ==
    ASSUME TypeOK, SeatsInv, NEW r \in Requests, OthersKeep(r),
           UNCHANGED <<live, cap, rows>>, RequestInv(r)', courseLocks'[r] \subseteq live
    PROVE  SeatsInv' /\ SeatGain
<1>1. IsFiniteSet(rows') /\ \A c : RowsOf(c)' = RowsOf(c) BY DEF SeatsInv, RowsOf
<1>2. SeatsInv' BY <1>1, Frame DEF SeatsInv
<1>3. SeatGain
    <2>1. \A c : Cardinality(RowsOf(c)) \in Nat BY RowsOfFinite DEF SeatsInv
    <2> QED BY <1>1, <2>1 DEF SeatGain
<1> QED BY <1>2, <1>3

-----------------------------------------------------------------------------
(* The ways a step ends.                                                   *)

Codes    == {0, 200, 403, 404, 409, 422, 500}
Patterns == {"courses", "enrollments"}

\* Answering a request, which rolls back and releases its locks, is good.
LEMMA ReplyGood ==
    ASSUME TypeOK, SeatsInv, NEW r \in Requests,
           NEW code \in Codes, NEW missing \in Courses \cup {0},
           NEW patterns \in SUBSET Patterns, NEW mails \in SUBSET UserIds,
           Reply(r, code, missing, patterns, mails)
    PROVE  Good
<1> USE DEF Reply, Release
<1>1. TypeOK'
    <2>1. "done" \in Labels BY DEF Labels
    <2>2. pc' \in [Requests -> Labels] BY <2>1 DEF TypeOK
    <2>3. answer' \in [Requests -> [code : Codes, missing : Courses \cup {0}]]
        BY DEF TypeOK, Codes
    <2>4. /\ cleared' \in [Requests -> SUBSET Patterns]
          /\ outbox' \in [Requests -> SUBSET UserIds]
        BY DEF TypeOK, Patterns
    <2>5. /\ courseLocks' \in [Requests -> SUBSET Courses]
          /\ rowLocks' \in [Requests -> SUBSET Nat]
        BY DEF TypeOK
    <2> QED BY <2>2, <2>3, <2>4, <2>5 DEF TypeOK, dbVars, Codes, Patterns
<1>2. OthersKeep(r) BY DEF TypeOK, OthersKeep
<1>3. pc'[r] = "done" /\ courseLocks'[r] = {} BY DEF TypeOK
<1>4. RequestInv(r)'
    BY <1>3 DEF RequestInv, JobFits, UsersKnown, LimitIsCurrent, CountIsCurrent, Locked,
                Counted, EnrollLabels, BulkLabels, TransferLabels, UnenrollLabels,
                ProgressLabels, CapLabels, DeleteLabels, RecatLabels
<1>5. SeatsInv' /\ SeatGain BY <1>2, <1>3, <1>4, Quiet DEF dbVars
<1> QED BY <1>1, <1>5 DEF Good

\* An error answer is good.
LEMMA RefuseGood ==
    ASSUME TypeOK, SeatsInv, NEW r \in Requests, NEW code \in Codes, Refuse(r, code)
    PROVE  Good
BY ReplyGood DEF Refuse

\* A 404 that names a course is good.
LEMMA NotFoundGood ==
    ASSUME TypeOK, SeatsInv, NEW r \in Requests, NEW c \in Courses \cup {0}, NotFound(r, c)
    PROVE  Good
BY ReplyGood DEF NotFound, Codes

\* A statement in the middle of a transaction, which may lock a course.
LEMMA ProceedGood ==
    ASSUME TypeOK, SeatsInv, NEW r \in Requests, NEW l \in Labels, Proceed(r, l),
           NEW m \in LocType,
           loc' = [loc EXCEPT ![r] = m],
           NEW C \in SUBSET live, courseLocks' = [courseLocks EXCEPT ![r] = @ \cup C],
           \A q \in Requests \ {r} : C \cap courseLocks[q] = {},
           RequestInv(r)'
    PROVE  Good
<1> USE DEF Proceed, dbVars, endVars
<1>1. TypeOK' BY DEF TypeOK, LocType
<1>2. OthersKeep(r) BY DEF TypeOK, OthersKeep, SeatsInv
<1>3. courseLocks'[r] \subseteq live BY DEF TypeOK, SeatsInv
<1> QED BY <1>1, <1>2, <1>3, Quiet DEF Good

\* A plain SELECT that leads to a statement with nothing new to rely on is good.
LEMMA ReadGood ==
    ASSUME TypeOK, SeatsInv, NEW r \in Requests, NEW l \in Labels, Read(r, l), RequestInv(r)'
    PROVE  Good
<1>1. loc[r] \in LocType BY DEF TypeOK, LocType
<1>2. loc' = [loc EXCEPT ![r] = loc[r]] BY DEF Read, TypeOK
<1>3. courseLocks' = [courseLocks EXCEPT ![r] = @ \cup {}] BY DEF Read, TypeOK
<1>4. {} \in SUBSET live /\ \A q \in Requests \ {r} : {} \cap courseLocks[q] = {} OBVIOUS
<1> QED BY <1>1, <1>2, <1>3, <1>4, ProceedGood DEF Read

\* COMMIT of a transaction that has changed nothing in the tables of this model.
LEMMA CommitNothingGood ==
    ASSUME TypeOK, SeatsInv, NEW r \in Requests, NEW l \in Labels, CommitNothing(r, l),
           RequestInv(r)'
    PROVE  Good
<1> USE DEF CommitNothing, Release, dbVars, endVars
<1>1. TypeOK' BY DEF TypeOK
<1>2. OthersKeep(r) /\ courseLocks'[r] = {} BY DEF TypeOK, OthersKeep
<1> QED BY <1>1, <1>2, Quiet DEF Good

\* COMMIT of a change to the tables that adds no row and leaves the limit of the
\* courses others have locked.
LEMMA CommitGood ==
    ASSUME TypeOK, SeatsInv, NEW r \in Requests, NEW l \in Labels, Commit(r, l),
           UNCHANGED <<nextId, loc>>,
           live' \subseteq live, cap' \in [Courses -> Caps], rows' \subseteq rows,
           \A q \in Requests \ {r} : /\ courseLocks[q] \subseteq live'
                                     /\ \A c \in courseLocks[q] : cap'[c] = cap[c],
           RequestInv(r)'
    PROVE  Good
<1> USE DEF Commit, Release, endVars
<1>1. TypeOK' BY DEF TypeOK
<1>2. OthersKeep(r) /\ courseLocks'[r] = {} BY DEF TypeOK, OthersKeep
<1>3. IsFiniteSet(rows')
    <2>1. rows' \in SUBSET rows OBVIOUS
    <2> QED BY <2>1, FS_Subset DEF SeatsInv
<1>4. \A c : RowsOf(c)' \subseteq RowsOf(c) BY DEF RowsOf
<1>5. SeatsInv' BY <1>2, <1>3, <1>4, Frame
<1>6. SeatGain
    <2>1. \A c : /\ Cardinality(RowsOf(c)) \in Nat
                 /\ Cardinality(RowsOf(c)') \in Nat
                 /\ Cardinality(RowsOf(c)') <= Cardinality(RowsOf(c))
        BY <1>3, <1>4, FewerSeats DEF SeatsInv
    <2> QED BY <2>1 DEF SeatGain
<1> QED BY <1>1, <1>5, <1>6 DEF Good

\* Nothing but the parameters of r is stated of r where it holds no lock it relies on.
Plain == Labels \ (Locked \cup {"new", "transfer_lock1", "transfer_lock2", "transfer_find"})

\* At a statement before which nothing is relied on, the invariant asks only that the
\* parameters fit.
LEMMA PlainInv ==
    ASSUME NEW r \in Requests, pc'[r] \in Plain, JobFits(r)'
    PROVE  RequestInv(r)'
BY DEF Plain, RequestInv, UsersKnown, LimitIsCurrent, CountIsCurrent, Locked, Counted

\* The INSERTs: at most one row for each user, all of them in the locked course.
LEMMA InsertedRows ==
    ASSUME TypeOK, NEW S \in SUBSET Users, NEW c \in Courses
    PROVE  /\ NewRows(S, c) \subseteq Row
           /\ IsFiniteSet(NewRows(S, c)) /\ Cardinality(NewRows(S, c)) \in Nat
           /\ Cardinality(NewRows(S, c)) <= Cardinality(S)
           /\ \A e \in NewRows(S, c) : e.course = c
           /\ IsFiniteSet(S) /\ Cardinality(S) \in Nat
<1> DEFINE id == [u \in S |-> nextId + Cardinality({v \in S : v < u})]
           row == [u \in S |-> [id |-> id[u], user |-> u, course |-> c]]
           New == {[id |-> id[u], user |-> u, course |-> c] : u \in S}
<1>1. \A T \in SUBSET S : IsFiniteSet(T) /\ Cardinality(T) \in Nat
    <2> TAKE T \in SUBSET S
    <2>1. T \in SUBSET UserIds BY EnrollmentAssumption
    <2> QED BY <2>1, EnrollmentAssumption, FS_Subset, FS_CardinalityType
<1>2. \A u \in S : id[u] \in Nat
    <2> TAKE u \in S
    <2>1. {v \in S : v < u} \in SUBSET S OBVIOUS
    <2>2. Cardinality({v \in S : v < u}) \in Nat BY <1>1, <2>1
    <2> QED BY <2>2 DEF TypeOK
<1>3. NewRows(S, c) = New BY DEF NewRows
<1> HIDE DEF id
<1>4. New \subseteq Row BY <1>2 DEF Row
<1>5. \A e \in New : e.course = c OBVIOUS
<1>6. row \in Surjection(S, New) BY DEF Surjection
<1>7. IsFiniteSet(S) /\ Cardinality(S) \in Nat BY <1>1
<1> HIDE DEF row, New
<1>8. IsFiniteSet(New) /\ Cardinality(New) <= Cardinality(S) BY <1>6, <1>7, FS_Surjection
<1>9. Cardinality(New) \in Nat BY <1>8, FS_CardinalityType
<1> QED BY <1>3, <1>4, <1>5, <1>7, <1>8, <1>9

\* The INSERTs of enroll, bulk and transfer under the lock of the course are good:
\* there was room for them when the seats were counted, and nobody else has added one.
LEMMA InsertGood ==
    ASSUME TypeOK, SeatsInv, NEW r \in Requests,
           NEW S \in SUBSET Users, NEW gone \in SUBSET rows, NEW l \in Plain,
           InsertAndCommit(r, S, gone, l),
           job[r].course \in courseLocks[r], loc[r].cap = cap[job[r].course],
           Cardinality(RowsOf(job[r].course)) + Cardinality(S) <= loc[r].cap,
           pc'[r] = l => JobFits(r)'
    PROVE  Good
<1> DEFINE c == job[r].course
           New == NewRows(S, c)
<1>1. CASE Refuse(r, 500) BY <1>1, RefuseGood DEF Codes
<1>2. CASE /\ rows' = (rows \ gone) \cup New
           /\ nextId' = nextId + Cardinality(S)
           /\ loc' = [loc EXCEPT ![r].row = nextId]
           /\ UNCHANGED <<live, cap>>
           /\ Commit(r, l)
    <2> USE <1>2 DEF Commit, Release, endVars
    <2>1. c \in Courses BY DEF TypeOK
    <2>2. /\ New \subseteq Row /\ IsFiniteSet(New) /\ Cardinality(New) \in Nat
          /\ Cardinality(New) <= Cardinality(S)
          /\ IsFiniteSet(S) /\ Cardinality(S) \in Nat
          /\ \A e \in New : e.course = c
        BY <2>1, InsertedRows
    <2>4. TypeOK'
        <3>1. rows' \subseteq Row BY <2>2 DEF TypeOK
        <3>2. nextId' \in Nat BY <2>2 DEF TypeOK
        <3>3. loc' \in [Requests -> LocType]
            <4>1. loc[r] \in LocType /\ nextId \in Nat BY DEF TypeOK, LocType
            <4>2. [loc[r] EXCEPT !.row = nextId] \in LocType BY <4>1, LocUpdates
            <4> QED BY <4>2 DEF TypeOK, LocType
        <3>4. pc' \in [Requests -> Labels] BY DEF TypeOK, Plain
        <3>5. /\ courseLocks' \in [Requests -> SUBSET Courses]
              /\ rowLocks' \in [Requests -> SUBSET Nat]
            BY DEF TypeOK
        <3>6. committed' \subseteq Requests BY DEF TypeOK
        <3> QED BY <3>1, <3>2, <3>3, <3>4, <3>5, <3>6 DEF TypeOK, LocType
    <2>5. OthersKeep(r) /\ courseLocks'[r] = {} BY DEF TypeOK, OthersKeep
    <2>6. IsFiniteSet(rows')
        <3>1. rows \ gone \in SUBSET rows OBVIOUS
        <3>2. IsFiniteSet(rows \ gone) BY <3>1, FS_Subset DEF SeatsInv
        <3> QED BY <2>2, <3>2, FS_Union
    <2>7. \A d : d # c => RowsOf(d)' \subseteq RowsOf(d) BY <2>2 DEF RowsOf
    <2>8. RequestInv(r)'
        <3>1. pc'[r] = l BY DEF TypeOK
        <3> QED BY <3>1, PlainInv
    <2>9. SeatsInv'
        <3>1. \A q \in Requests \ {r} : c \notin courseLocks[q] BY DEF SeatsInv
        <3>2. \A q \in Requests \ {r} : courseLocks[q] \subseteq live' BY DEF SeatsInv
        <3> QED BY <2>5, <2>6, <2>7, <2>8, <3>1, <3>2, Frame
    <2>10. Cardinality(RowsOf(c)') <= cap[c]
        <3>1. IsFiniteSet(RowsOf(c)) /\ Cardinality(RowsOf(c)) \in Nat
            BY RowsOfFinite DEF SeatsInv
        <3>2. RowsOf(c)' \in SUBSET (RowsOf(c) \cup New) BY DEF RowsOf
        <3>3. /\ IsFiniteSet(RowsOf(c) \cup New)
              /\ Cardinality(RowsOf(c) \cup New) =
                    Cardinality(RowsOf(c)) + Cardinality(New) - Cardinality(RowsOf(c) \cap New)
            BY <2>2, <3>1, FS_Union
        <3>4. Cardinality(RowsOf(c) \cap New) \in Nat
            <4>1. RowsOf(c) \cap New \in SUBSET New OBVIOUS
            <4> QED BY <2>2, <4>1, FS_Subset, FS_CardinalityType
        <3>5. /\ IsFiniteSet(RowsOf(c)')
              /\ Cardinality(RowsOf(c)') <= Cardinality(RowsOf(c) \cup New)
            BY <3>2, <3>3, FS_Subset
        <3>6. Cardinality(RowsOf(c)') \in Nat BY <3>5, FS_CardinalityType
        <3>7. cap[c] \in Int BY <2>1, LimitIsInt
        <3> QED BY <2>2, <3>1, <3>3, <3>4, <3>5, <3>6, <3>7
    <2>11. SeatGain
        <3> SUFFICES ASSUME NEW d \in Courses, d # c
                     PROVE  ~(Cardinality(RowsOf(d)') > Cardinality(RowsOf(d)))
            BY <2>10 DEF SeatGain
        <3>1. RowsOf(d)' \subseteq RowsOf(d) BY <2>7
        <3>2. /\ Cardinality(RowsOf(d)) \in Nat
              /\ Cardinality(RowsOf(d)') \in Nat
              /\ Cardinality(RowsOf(d)') <= Cardinality(RowsOf(d))
            BY <2>6, <3>1, FewerSeats DEF SeatsInv
        <3> QED BY <3>2
    <2> QED BY <2>4, <2>9, <2>11 DEF Good
<1> QED BY <1>1, <1>2 DEF InsertAndCommit

-----------------------------------------------------------------------------
(* Locks and labels.                                                       *)

\* A request that is not blocked wants no course row another one has locked.
LEMMA NobodyElseHolds ==
    ASSUME NEW r \in Requests, Unblocked(r), NEW c \in WantedCourses(r)
    PROVE  \A q \in Requests \ {r} : c \notin courseLocks[q]
BY DEF Unblocked, WaitsFor

Endpoints == {EnrollLabels, BulkLabels, TransferLabels, UnenrollLabels, ProgressLabels,
              CapLabels, DeleteLabels, RecatLabels}

\* The parameters of a request fit every statement of its endpoint.
LEMMA SameEndpoint ==
    ASSUME NEW r \in Requests, JobFits(r), job'[r] = job[r],
           NEW E \in Endpoints, pc[r] \in E, pc'[r] \in E
    PROVE  JobFits(r)'
BY DEF JobFits, Endpoints, EnrollLabels, BulkLabels, TransferLabels, UnenrollLabels, ProgressLabels,
       CapLabels, DeleteLabels, RecatLabels

\* SELECT ... FOR UPDATE of a course row is good.
LEMMA LockCourseGood ==
    ASSUME TypeOK, SeatsInv, NEW r \in Requests, NEW c \in WantedCourses(r), NEW l \in Labels,
           Unblocked(r), LockCourse(r, c, l), RequestInv(r)'
    PROVE  Good
<1> DEFINE v == IF c \in live /\ c = job[r].course THEN cap[c] ELSE loc[r].cap
           m == [loc[r] EXCEPT !.cap = v]
<1>1. loc[r] \in LocType BY DEF TypeOK, LocType
<1>2. v \in Int
    <2>1. loc[r].cap \in Int BY <1>1 DEF LocType
    <2>2. c \in live => cap[c] \in Int BY LimitIsInt DEF TypeOK
    <2> QED BY <2>1, <2>2
<1>3. m \in LocType BY <1>1, <1>2, LocUpdates
<1>4. loc' = [loc EXCEPT ![r] = m] BY <1>1 DEF LockCourse, LocType
<1>5. \A q \in Requests \ {r} : ({c} \cap live) \cap courseLocks[q] = {}
    BY NobodyElseHolds
<1>6. {c} \cap live \in SUBSET live OBVIOUS
<1> HIDE DEF m
<1> QED BY <1>3, <1>4, <1>5, <1>6, ProceedGood DEF LockCourse

\* A statement that keeps something for later and locks nothing.
LEMMA RememberGood ==
    ASSUME TypeOK, SeatsInv, NEW r \in Requests, NEW l \in Labels, Proceed(r, l),
           NEW m \in LocType, loc' = [loc EXCEPT ![r] = m], UNCHANGED courseLocks,
           RequestInv(r)'
    PROVE  Good
<1>1. courseLocks' = [courseLocks EXCEPT ![r] = @ \cup {}] BY DEF TypeOK
<1>2. {} \in SUBSET live /\ \A q \in Requests \ {r} : {} \cap courseLocks[q] = {} OBVIOUS
<1> QED BY <1>1, <1>2, ProceedGood

\* A statement, or a COMMIT without a change, after which nothing is relied on.
LEMMA PlainStepGood ==
    ASSUME TypeOK, SeatsInv, NEW r \in Requests, NEW E \in Endpoints, pc[r] \in E,
           NEW l \in E, l \in Plain, Read(r, l) \/ CommitNothing(r, l)
    PROVE  Good
<1>1. l \in Labels BY DEF Plain
<1>2. pc'[r] = l /\ job'[r] = job[r]
    BY DEF TypeOK, Read, Proceed, CommitNothing
<1>3. JobFits(r)' BY <1>2, SameEndpoint DEF SeatsInv, RequestInv
<1>4. RequestInv(r)' BY <1>2, <1>3, PlainInv
<1> QED BY <1>1, <1>4, ReadGood, CommitNothingGood

-----------------------------------------------------------------------------
(* The steps of each endpoint.                                             *)

\* Every statement of CourseService.enroll_in_course is good.
LEMMA EnrollGood ==
    ASSUME TypeOK, SeatsInv, NEW r \in Requests, EnrollStep(r)
    PROVE  Good
<1> DEFINE c == job[r].course
<1>1. RequestInv(r) /\ JobFits(r) BY DEF SeatsInv, RequestInv
<1>2. pc[r] \in EnrollLabels
    BY DEF EnrollStep, EnrollLock, EnrollCheck, EnrollCount, EnrollInsert, EnrollRefresh,
           EnrollReload, EnrollLabels
<1>3. job[r] \in EnrollJobs BY <1>1, <1>2 DEF JobFits
<1>4. job[r].op = "enroll" /\ job[r].user \in Users /\ c \in Courses BY <1>3 DEF EnrollJobs
<1>5. EnrollLabels \in Endpoints /\ EnrollLabels \subseteq Labels BY DEF Endpoints, Labels
<1> USE DEF EnrollLabels
<1>6. CASE EnrollLock(r)
    <2>1. CASE NotFound(r, c) BY <1>4, <2>1, NotFoundGood
    <2>2. CASE c \in live /\ LockCourse(r, c, "enroll_check")
        <3> USE <2>2 DEF LockCourse, Proceed, dbVars
        <3>1. /\ pc'[r] = "enroll_check" /\ job'[r] = job[r]
              /\ c \in courseLocks'[r] /\ loc'[r].cap = cap'[c]
            BY DEF TypeOK
        <3>2. JobFits(r)' BY <1>1, <1>2, <1>5, <3>1, SameEndpoint
        <3>3. RequestInv(r)'
            BY <3>1, <3>2 DEF RequestInv, UsersKnown, LimitIsCurrent, CountIsCurrent, Counted
        <3>4. c \in WantedCourses(r) BY <1>6 DEF EnrollLock, WantedCourses
        <3> QED BY <1>5, <1>6, <3>3, <3>4, LockCourseGood DEF EnrollLock
    <2> QED BY <1>6, <2>1, <2>2 DEF EnrollLock
<1>7. CASE EnrollCheck(r)
    <2>1. CASE Refuse(r, 409) BY <2>1, RefuseGood DEF Codes
    <2>2. CASE Read(r, "enroll_count")
        <3> USE <2>2 DEF Read, Proceed, dbVars
        <3>1. /\ pc'[r] = "enroll_count" /\ job'[r] = job[r] /\ loc'[r] = loc[r]
              /\ courseLocks'[r] = courseLocks[r] /\ cap' = cap
            BY DEF TypeOK
        <3>2. JobFits(r)' BY <1>1, <1>2, <1>5, <3>1, SameEndpoint
        <3>3. pc[r] \in Locked BY <1>7 DEF EnrollCheck, Locked
        <3>4. RequestInv(r)'
            BY <1>1, <3>1, <3>2, <3>3
            DEF RequestInv, UsersKnown, LimitIsCurrent, CountIsCurrent, Counted
        <3> QED BY <1>5, <3>4, ReadGood
    <2> QED BY <1>7, <2>1, <2>2 DEF EnrollCheck
<1>8. CASE EnrollCount(r)
    <2>1. CASE Refuse(r, 422) BY <2>1, RefuseGood DEF Codes
    <2>2. CASE Cardinality(RowsOf(c)) < loc[r].cap /\ Read(r, "enroll_insert")
        <3> USE <2>2 DEF Read, Proceed, dbVars
        <3>1. /\ pc'[r] = "enroll_insert" /\ job'[r] = job[r] /\ loc'[r] = loc[r]
              /\ courseLocks'[r] = courseLocks[r] /\ cap' = cap
            BY DEF TypeOK
        <3>2. JobFits(r)' BY <1>1, <1>2, <1>5, <3>1, SameEndpoint
        <3>3. pc[r] \in Locked BY <1>8 DEF EnrollCount, Locked
        <3>4. CountIsCurrent(r)'
            <4>1. SeatsWanted(job[r]) = 1 BY <1>4 DEF SeatsWanted
            <4>2. Cardinality(RowsOf(c)) \in Nat BY RowsOfFinite DEF SeatsInv
            <4>3. loc[r].cap \in Int BY DEF TypeOK
            <4>4. RowsOf(c)' = RowsOf(c) BY DEF RowsOf
            <4> QED BY <3>1, <4>1, <4>2, <4>3, <4>4 DEF CountIsCurrent
        <3>5. RequestInv(r)'
            BY <1>1, <3>1, <3>2, <3>3, <3>4 DEF RequestInv, UsersKnown, LimitIsCurrent
        <3> QED BY <1>5, <3>5, ReadGood
    <2> QED BY <1>8, <2>1, <2>2 DEF EnrollCount
<1>9. CASE EnrollInsert(r)
    <2>1. {job[r].user} \in SUBSET Users /\ {} \in SUBSET rows BY <1>4
    <2>2. Cardinality({job[r].user}) = 1 BY FS_Singleton
    <2>3. pc[r] \in Locked /\ pc[r] \in Counted BY <1>9 DEF EnrollInsert, Locked, Counted
    <2>4. c \in courseLocks[r] /\ loc[r].cap = cap[c]
        BY <1>1, <2>3 DEF RequestInv, LimitIsCurrent
    <2>5. Cardinality(RowsOf(c)) + Cardinality({job[r].user}) <= loc[r].cap
        BY <1>1, <1>4, <2>2, <2>3 DEF RequestInv, CountIsCurrent, SeatsWanted
    <2>6. "enroll_refresh" \in Plain BY DEF Plain, Labels, Locked
    <2>7. pc'[r] = "enroll_refresh" => JobFits(r)'
        <3>1. job'[r] = job[r]
            BY <1>9 DEF EnrollInsert, InsertAndCommit, Refuse, Reply, Commit
        <3> QED BY <1>1, <1>2, <1>5, <3>1, SameEndpoint
    <2> QED BY <1>9, <2>1, <2>4, <2>5, <2>6, <2>7, InsertGood DEF EnrollInsert
<1>10. CASE EnrollRefresh(r)
    <2>1. CASE Refuse(r, 500) BY <2>1, RefuseGood DEF Codes
    <2>2. CASE Read(r, "enroll_reload")
        <3>1. "enroll_reload" \in Plain BY <1>5 DEF Plain, Locked
        <3> QED BY <1>2, <1>5, <2>2, <3>1, PlainStepGood
    <2> QED BY <1>10, <2>1, <2>2 DEF EnrollRefresh
<1>11. CASE EnrollReload(r)
    <2>1. {job[r].user} \in SUBSET UserIds /\ {} \in SUBSET UserIds BY <1>4, EnrollmentAssumption
    <2> QED BY <1>11, <2>1, ReplyGood DEF EnrollReload, Codes, Patterns
<1> QED BY <1>6, <1>7, <1>8, <1>9, <1>10, <1>11 DEF EnrollStep

\* Every statement of AdvancedService.concurrent_enroll is good.
LEMMA BulkGood ==
    ASSUME TypeOK, SeatsInv, NEW r \in Requests, BulkStep(r)
    PROVE  Good
<1> DEFINE c == job[r].course
<1>1. RequestInv(r) /\ JobFits(r) BY DEF SeatsInv, RequestInv
<1>2. pc[r] \in BulkLabels
    BY DEF BulkStep, BulkLock, BulkCount, BulkUsers, BulkCheck, BulkInsert, BulkReload,
           BulkLabels
<1>3. job[r] \in BulkJobs BY <1>1, <1>2 DEF JobFits
<1>4. /\ job[r].op = "bulk" /\ job[r].ids \in SUBSET UserIds /\ job[r].again \in Nat
      /\ c \in Courses
    BY <1>3, EnrollmentAssumption DEF BulkJobs
<1>5. BulkLabels \in Endpoints /\ BulkLabels \subseteq Labels BY DEF Endpoints, Labels
<1>6. Cardinality(job[r].ids) \in Nat
    BY <1>4, EnrollmentAssumption, FS_Subset, FS_CardinalityType
<1>7. SeatsWanted(job[r]) = Cardinality(job[r].ids) + job[r].again BY <1>4 DEF SeatsWanted
<1>8. "bulk_reload" \in Plain BY DEF Plain, Labels, BulkLabels, Locked
<1> USE DEF BulkLabels
<1>9. CASE BulkLock(r)
    <2>1. CASE NotFound(r, c) BY <1>4, <2>1, NotFoundGood
    <2>2. CASE c \in live /\ LockCourse(r, c, "bulk_count")
        <3> USE <2>2 DEF LockCourse, Proceed, dbVars
        <3>1. /\ pc'[r] = "bulk_count" /\ job'[r] = job[r]
              /\ c \in courseLocks'[r] /\ loc'[r].cap = cap'[c]
            BY DEF TypeOK
        <3>2. JobFits(r)' BY <1>1, <1>2, <1>5, <3>1, SameEndpoint
        <3>3. RequestInv(r)'
            BY <3>1, <3>2 DEF RequestInv, UsersKnown, LimitIsCurrent, CountIsCurrent, Counted
        <3>4. c \in WantedCourses(r) BY <1>9 DEF BulkLock, WantedCourses
        <3> QED BY <1>5, <1>9, <3>3, <3>4, LockCourseGood DEF BulkLock
    <2> QED BY <1>9, <2>1, <2>2 DEF BulkLock
<1>10. CASE BulkCount(r)
    <2>1. CASE Refuse(r, 422) BY <2>1, RefuseGood DEF Codes
    <2>2. CASE /\ Cardinality(RowsOf(c)) + Cardinality(job[r].ids) + job[r].again <= loc[r].cap
               /\ Read(r, "bulk_users")
        <3> USE <2>2 DEF Read, Proceed, dbVars
        <3>1. /\ pc'[r] = "bulk_users" /\ job'[r] = job[r] /\ loc'[r] = loc[r]
              /\ courseLocks'[r] = courseLocks[r] /\ cap' = cap
            BY DEF TypeOK
        <3>2. JobFits(r)' BY <1>1, <1>2, <1>5, <3>1, SameEndpoint
        <3>3. pc[r] \in Locked BY <1>10 DEF BulkCount, Locked
        <3>4. CountIsCurrent(r)'
            <4>1. Cardinality(RowsOf(c)) \in Nat BY RowsOfFinite DEF SeatsInv
            <4>2. RowsOf(c)' = RowsOf(c) BY DEF RowsOf
            <4> QED BY <1>4, <1>6, <1>7, <3>1, <4>1, <4>2 DEF CountIsCurrent
        <3>5. RequestInv(r)'
            BY <1>1, <3>1, <3>2, <3>3, <3>4 DEF RequestInv, UsersKnown, LimitIsCurrent
        <3> QED BY <1>5, <3>5, ReadGood
    <2> QED BY <1>10, <2>1, <2>2 DEF BulkCount
<1>11. ASSUME NEW l \in {"bulk_check", "bulk_insert"}, Read(r, l),
              pc[r] \in {"bulk_users", "bulk_check"}, job[r].ids \subseteq Users
       PROVE  Good
    <2> USE <1>11 DEF Read, Proceed, dbVars
    <2>1. /\ pc'[r] = l /\ job'[r] = job[r] /\ loc'[r] = loc[r]
          /\ courseLocks'[r] = courseLocks[r] /\ cap' = cap
        BY DEF TypeOK
    <2>2. JobFits(r)' BY <1>1, <1>2, <1>5, <2>1, SameEndpoint
    <2>3. pc[r] \in Locked /\ pc[r] \in Counted BY DEF Locked, Counted
    <2>4. CountIsCurrent(r)'
        <3>1. RowsOf(c)' = RowsOf(c) BY DEF RowsOf
        <3> QED BY <1>1, <2>1, <2>3, <3>1 DEF RequestInv, CountIsCurrent
    <2>5. RequestInv(r)'
        BY <1>1, <2>1, <2>2, <2>3, <2>4 DEF RequestInv, UsersKnown, LimitIsCurrent
    <2> QED BY <1>5, <2>5, ReadGood
<1>12. CASE BulkUsers(r)
    <2>1. CASE NotFound(r, 0) BY <2>1, NotFoundGood
    <2>2. CASE job[r].ids \subseteq Users /\ Read(r, "bulk_check")
        BY <1>11, <1>12, <2>2 DEF BulkUsers
    <2> QED BY <1>12, <2>1, <2>2 DEF BulkUsers
<1>13. CASE BulkCheck(r)
    <2>1. CASE Refuse(r, 409) BY <2>1, RefuseGood DEF Codes
    <2>2. CASE Read(r, "bulk_insert")
        <3>1. pc[r] = "bulk_check" BY <1>13 DEF BulkCheck
        <3>2. job[r].ids \subseteq Users BY <1>1, <3>1 DEF RequestInv, UsersKnown
        <3> QED BY <1>11, <2>2, <3>1, <3>2
    <2> QED BY <1>13, <2>1, <2>2 DEF BulkCheck
<1>14. CASE BulkInsert(r)
    <2>1. pc[r] = "bulk_insert" BY <1>14 DEF BulkInsert
    <2>2. CASE Refuse(r, 500) BY <2>2, RefuseGood DEF Codes
    <2>3. CASE CommitNothing(r, "bulk_reload") BY <1>2, <1>5, <1>8, <2>3, PlainStepGood
    <2>4. CASE job[r].again = 0 /\ InsertAndCommit(r, job[r].ids, {}, "bulk_reload")
        <3>1. job[r].ids \in SUBSET Users /\ {} \in SUBSET rows
            BY <1>1, <2>1 DEF RequestInv, UsersKnown
        <3>2. pc[r] \in Locked /\ pc[r] \in Counted BY <2>1 DEF Locked, Counted
        <3>3. c \in courseLocks[r] /\ loc[r].cap = cap[c]
            BY <1>1, <3>2 DEF RequestInv, LimitIsCurrent
        <3>4. Cardinality(RowsOf(c)) + Cardinality(job[r].ids) <= loc[r].cap
            BY <1>1, <1>6, <1>7, <2>4, <3>2 DEF RequestInv, CountIsCurrent
        <3>5. pc'[r] = "bulk_reload" => JobFits(r)'
            <4>1. job'[r] = job[r] BY <2>4 DEF InsertAndCommit, Refuse, Reply, Commit
            <4> QED BY <1>1, <1>2, <1>5, <4>1, SameEndpoint
        <3> QED BY <1>8, <2>4, <3>1, <3>3, <3>4, <3>5, InsertGood
    <2> QED BY <1>14, <2>2, <2>3, <2>4 DEF BulkInsert
<1>15. CASE BulkReload(r)
    <2>1. {} \in SUBSET UserIds OBVIOUS
    <2> QED BY <1>4, <1>15, <2>1, ReplyGood DEF BulkReload, Codes, Patterns
<1> QED BY <1>9, <1>10, <1>12, <1>13, <1>14, <1>15 DEF BulkStep

\* Every statement of EnrollmentService.unenroll is good.
LEMMA UnenrollGood ==
    ASSUME TypeOK, SeatsInv, NEW r \in Requests, UnenrollStep(r)
    PROVE  Good
<1>1. RequestInv(r) /\ JobFits(r) BY DEF SeatsInv, RequestInv
<1>2. pc[r] \in UnenrollLabels
    BY DEF UnenrollStep, UnenrollRead, UnenrollDelete, UnenrollClear, UnenrollLabels
<1>3. UnenrollLabels \in Endpoints /\ UnenrollLabels \subseteq Plain
    BY DEF Endpoints, Plain, Labels, Locked, UnenrollLabels
<1>4. "unenroll_delete" \in UnenrollLabels /\ "unenroll_clear" \in UnenrollLabels
    BY DEF UnenrollLabels
<1>5. CASE UnenrollRead(r)
    <2>1. CASE Refuse(r, 404) \/ Refuse(r, 403) BY <2>1, RefuseGood DEF Codes
    <2>2. CASE Read(r, "unenroll_delete") BY <1>2, <1>3, <1>4, <2>2, PlainStepGood
    <2> QED BY <1>5, <2>1, <2>2 DEF UnenrollRead
<1>6. CASE UnenrollDelete(r)
    <2>1. CASE CommitNothing(r, "unenroll_clear") BY <1>2, <1>3, <1>4, <2>1, PlainStepGood
    <2>2. CASE /\ rows' = {e \in rows : e.id # job[r].row}
               /\ UNCHANGED <<live, cap, nextId, loc>>
               /\ Commit(r, "unenroll_clear")
        <3>1. pc'[r] = "unenroll_clear" /\ job'[r] = job[r] BY <2>2 DEF Commit, TypeOK
        <3>2. JobFits(r)' BY <1>1, <1>2, <1>3, <1>4, <3>1, SameEndpoint
        <3>3. RequestInv(r)' BY <1>3, <1>4, <3>1, <3>2, PlainInv
        <3>4. /\ live' \subseteq live /\ cap' \in [Courses -> Caps] /\ rows' \subseteq rows
              /\ \A q \in Requests \ {r} : /\ courseLocks[q] \subseteq live'
                                           /\ \A c \in courseLocks[q] : cap'[c] = cap[c]
            BY <2>2 DEF TypeOK, SeatsInv
        <3>5. "unenroll_clear" \in Labels BY <1>3, <1>4 DEF Plain
        <3> QED BY <2>2, <3>3, <3>4, <3>5, CommitGood
    <2> QED BY <1>6, <2>1, <2>2 DEF UnenrollDelete
<1>7. CASE UnenrollClear(r)
    <2>1. {} \in SUBSET UserIds /\ {"courses", "enrollments"} \in SUBSET Patterns
        BY DEF Patterns
    <2> QED BY <1>7, <2>1, ReplyGood DEF UnenrollClear, Codes
<1> QED BY <1>5, <1>6, <1>7 DEF UnenrollStep

\* Every statement of EnrollmentService.update_enrollment is good.
LEMMA ProgressGood ==
    ASSUME TypeOK, SeatsInv, NEW r \in Requests, ProgressStep(r)
    PROVE  Good
<1>1. RequestInv(r) /\ JobFits(r) BY DEF SeatsInv, RequestInv
<1>2. pc[r] \in ProgressLabels
    BY DEF ProgressStep, ProgressRead, ProgressWrite, ProgressRefresh, ProgressLabels
<1>3. ProgressLabels \in Endpoints /\ ProgressLabels \subseteq Plain
    BY DEF Endpoints, Plain, Labels, Locked, ProgressLabels
<1>4. "progress_write" \in ProgressLabels /\ "progress_refresh" \in ProgressLabels
    BY DEF ProgressLabels
<1>5. CASE ProgressRead(r)
    <2>1. CASE Refuse(r, 404) BY <2>1, RefuseGood DEF Codes
    <2>2. CASE Read(r, "progress_write") BY <1>2, <1>3, <1>4, <2>2, PlainStepGood
    <2> QED BY <1>5, <2>1, <2>2 DEF ProgressRead
<1>6. CASE ProgressWrite(r)
    <2>1. CASE Refuse(r, 500) BY <2>1, RefuseGood DEF Codes
    <2>2. CASE CommitNothing(r, "progress_refresh") BY <1>2, <1>3, <1>4, <2>2, PlainStepGood
    <2>3. CASE Commit(r, "progress_refresh") /\ UNCHANGED <<dbVars, loc>>
        <3> USE DEF dbVars
        <3>1. pc'[r] = "progress_refresh" /\ job'[r] = job[r] BY <2>3 DEF Commit, TypeOK
        <3>2. JobFits(r)' BY <1>1, <1>2, <1>3, <1>4, <3>1, SameEndpoint
        <3>3. RequestInv(r)' BY <1>3, <1>4, <3>1, <3>2, PlainInv
        <3>4. /\ live' \subseteq live /\ cap' \in [Courses -> Caps] /\ rows' \subseteq rows
              /\ \A q \in Requests \ {r} : /\ courseLocks[q] \subseteq live'
                                           /\ \A c \in courseLocks[q] : cap'[c] = cap[c]
            BY <2>3 DEF TypeOK, SeatsInv
        <3>5. "progress_refresh" \in Labels BY <1>3, <1>4 DEF Plain
        <3> QED BY <2>3, <3>3, <3>4, <3>5, CommitGood
    <2> QED BY <1>6, <2>1, <2>2, <2>3 DEF ProgressWrite
<1>7. CASE ProgressRefresh(r)
    <2>1. CASE Refuse(r, 500) BY <2>1, RefuseGood DEF Codes
    <2>2. CASE Reply(r, 200, 0, {"enrollments"}, {})
        BY <2>2, ReplyGood DEF Codes, Patterns
    <2> QED BY <1>7, <2>1, <2>2 DEF ProgressRefresh
<1> QED BY <1>5, <1>6, <1>7 DEF ProgressStep

\* Every statement of CourseService.update_course is good: its UPDATE waits for a
\* request that has read the limit under the lock.
LEMMA CapGood ==
    ASSUME TypeOK, SeatsInv, NEW r \in Requests, CapStep(r)
    PROVE  Good
<1> DEFINE c == job[r].course
<1>1. RequestInv(r) /\ JobFits(r) BY DEF SeatsInv, RequestInv
<1>2. pc[r] \in CapLabels BY DEF CapStep, CapRead, CapWrite, CapRefresh, CapLabels
<1>3. c \in Courses /\ job[r].cap \in Caps BY <1>1, <1>2 DEF JobFits, CapJobs
<1>4. CapLabels \in Endpoints /\ CapLabels \subseteq Plain
    BY DEF Endpoints, Plain, Labels, Locked, CapLabels
<1>5. "cap_write" \in CapLabels /\ "cap_refresh" \in CapLabels BY DEF CapLabels
<1>6. ASSUME NEW l \in CapLabels, pc'[r] = l, job'[r] = job[r]
      PROVE  RequestInv(r)' /\ l \in Labels
    <2>1. JobFits(r)' BY <1>1, <1>2, <1>4, <1>6, SameEndpoint
    <2> QED BY <1>4, <1>6, <2>1, PlainInv DEF Plain
<1>7. CASE CapRead(r)
    <2>1. CASE NotFound(r, c) BY <1>3, <2>1, NotFoundGood
    <2>2. CASE /\ c \in live
               /\ loc' = [loc EXCEPT ![r].cap = cap[c]]
               /\ Proceed(r, "cap_write")
               /\ UNCHANGED courseLocks
        <3>1. loc[r] \in LocType BY DEF TypeOK, LocType
        <3>2. cap[c] \in Int BY <1>3, LimitIsInt
        <3>3. [loc[r] EXCEPT !.cap = cap[c]] \in LocType BY <3>1, <3>2, LocUpdates
        <3>4. pc'[r] = "cap_write" /\ job'[r] = job[r] BY <2>2 DEF Proceed, TypeOK
        <3>5. RequestInv(r)' /\ "cap_write" \in Labels BY <1>5, <1>6, <3>4
        <3> QED BY <2>2, <3>3, <3>5, RememberGood
    <2> QED BY <1>7, <2>1, <2>2 DEF CapRead
<1>8. CASE CapWrite(r)
    <2>1. CASE Refuse(r, 500) BY <2>1, RefuseGood DEF Codes
    <2>2. CASE CommitNothing(r, "cap_refresh") BY <1>2, <1>4, <1>5, <2>2, PlainStepGood
    <2>3. CASE /\ job[r].cap # loc[r].cap
               /\ cap' = [cap EXCEPT ![c] = job[r].cap]
               /\ UNCHANGED <<live, rows, nextId, loc>>
               /\ Commit(r, "cap_refresh")
        <3>1. pc'[r] = "cap_refresh" /\ job'[r] = job[r] BY <2>3 DEF Commit, TypeOK
        <3>2. RequestInv(r)' /\ "cap_refresh" \in Labels BY <1>5, <1>6, <3>1
        <3>3. c \in WantedCourses(r) BY <1>8, <2>3 DEF CapWrite, WantedCourses
        <3>4. \A q \in Requests \ {r} : c \notin courseLocks[q]
            BY <1>8, <3>3, NobodyElseHolds DEF CapWrite
        <3>5. \A q \in Requests \ {r} : /\ courseLocks[q] \subseteq live'
                                        /\ \A d \in courseLocks[q] : cap'[d] = cap[d]
            BY <2>3, <3>4 DEF TypeOK, SeatsInv
        <3>6. live' \subseteq live /\ cap' \in [Courses -> Caps] /\ rows' \subseteq rows
            BY <1>3, <2>3 DEF TypeOK
        <3> QED BY <2>3, <3>2, <3>5, <3>6, CommitGood
    <2> QED BY <1>8, <2>1, <2>2, <2>3 DEF CapWrite
<1>9. CASE CapRefresh(r)
    <2>1. CASE Refuse(r, 500) BY <2>1, RefuseGood DEF Codes
    <2>2. CASE Reply(r, 200, 0, {"courses"}, {}) BY <2>2, ReplyGood DEF Codes, Patterns
    <2> QED BY <1>9, <2>1, <2>2 DEF CapRefresh
<1> QED BY <1>7, <1>8, <1>9 DEF CapStep

\* The ids of the enrollments are numbers.
LEMMA RowIdsAreNat == ASSUME TypeOK PROVE RowIds \subseteq Nat
BY DEF TypeOK, RowIds, Row

\* Every statement of CourseService.delete_course is good.
LEMMA DeleteGood ==
    ASSUME TypeOK, SeatsInv, NEW r \in Requests, DeleteStep(r)
    PROVE  Good
<1> DEFINE c == job[r].course
<1>1. RequestInv(r) /\ JobFits(r) BY DEF SeatsInv, RequestInv
<1>2. pc[r] \in DeleteLabels
    BY DEF DeleteStep, DeleteRead, DeleteLoad, DeleteRows, DeleteCourse, DeleteCascade,
           DeleteClear, DeleteLabels
<1>3. c \in Courses BY <1>1, <1>2 DEF JobFits, DeleteJobs
<1>4. /\ DeleteLabels \in Endpoints /\ DeleteLabels \subseteq Labels
      /\ DeleteLabels \ {"delete_cascade"} \subseteq Plain
    BY DEF Endpoints, Plain, Labels, Locked, DeleteLabels
<1>5. loc[r] \in LocType BY DEF TypeOK, LocType
<1>6. ASSUME NEW l \in DeleteLabels \ {"delete_cascade"}, pc'[r] = l, job'[r] = job[r]
      PROVE  RequestInv(r)'
    <2>1. JobFits(r)' BY <1>1, <1>2, <1>4, <1>6, SameEndpoint
    <2> QED BY <1>4, <1>6, <2>1, PlainInv
<1> USE DEF DeleteLabels
<1>7. CASE DeleteRead(r)
    <2>1. CASE NotFound(r, c) BY <1>3, <2>1, NotFoundGood
    <2>2. CASE Read(r, "delete_load") BY <1>2, <1>4, <2>2, PlainStepGood
    <2> QED BY <1>7, <2>1, <2>2 DEF DeleteRead
<1>8. CASE DeleteLoad(r)
    <2> DEFINE ids == {e.id : e \in RowsOf(c)}
    <2>1. ids \in SUBSET Nat BY DEF TypeOK, RowsOf, Row
    <2>2. [loc[r] EXCEPT !.todo = ids] \in LocType BY <1>5, <2>1, LocUpdates
    <2>3. pc'[r] = "delete_rows" /\ job'[r] = job[r]
        BY <1>8 DEF DeleteLoad, Proceed, TypeOK
    <2>4. RequestInv(r)' BY <1>6, <2>3
    <2> QED BY <1>4, <1>8, <2>2, <2>4, RememberGood DEF DeleteLoad
<1>9. CASE DeleteRows(r)
    <2>1. CASE Read(r, "delete_course") BY <1>2, <1>4, <2>1, PlainStepGood
    <2>2. CASE \E id \in LeastOf(loc[r].todo) :
                  /\ rowLocks' = [rowLocks EXCEPT ![r] = @ \cup ({id} \cap RowIds)]
                  /\ loc' = [loc EXCEPT ![r].todo = @ \ {id}]
                  /\ UNCHANGED <<dbVars, courseLocks, pc, job, endVars, committed>>
        <3>1. PICK id \in LeastOf(loc[r].todo) :
                  /\ rowLocks' = [rowLocks EXCEPT ![r] = @ \cup ({id} \cap RowIds)]
                  /\ loc' = [loc EXCEPT ![r].todo = @ \ {id}]
                  /\ UNCHANGED <<dbVars, courseLocks, pc, job, endVars, committed>>
            BY <2>2
        <3> USE DEF dbVars, endVars
        <3>2. loc[r].todo \ {id} \in SUBSET Nat BY <1>5 DEF LocType
        <3>3. [loc[r] EXCEPT !.todo = loc[r].todo \ {id}] \in LocType
            BY <1>5, <3>2, LocUpdates
        <3>4. loc' = [loc EXCEPT ![r] = [loc[r] EXCEPT !.todo = loc[r].todo \ {id}]]
            BY <3>1
        <3>5. loc' \in [Requests -> LocType] BY <3>3, <3>4 DEF TypeOK, LocType
        <3>6. rowLocks' \in [Requests -> SUBSET Nat] BY <3>1, RowIdsAreNat DEF TypeOK
        <3>7. TypeOK' BY <3>1, <3>5, <3>6 DEF TypeOK, LocType
        <3>8. OthersKeep(r) BY <3>1, <3>4 DEF OthersKeep, TypeOK, SeatsInv
        <3>9. RequestInv(r)'
            <4>1. pc[r] = "delete_rows" BY <1>9 DEF DeleteRows
            <4> QED BY <1>6, <3>1, <4>1
        <3>10. courseLocks'[r] \subseteq live BY <3>1 DEF SeatsInv
        <3> QED BY <3>1, <3>7, <3>8, <3>9, <3>10, Quiet DEF Good
    <2> QED BY <1>9, <2>1, <2>2 DEF DeleteRows
<1>10. CASE DeleteCourse(r)
    <2>1. CASE CommitNothing(r, "delete_clear") BY <1>2, <1>4, <2>1, PlainStepGood
    <2>2. CASE c \in live /\ LockCourse(r, c, "delete_cascade")
        <3> USE <2>2 DEF LockCourse, Proceed, dbVars
        <3>1. /\ pc'[r] = "delete_cascade" /\ job'[r] = job[r]
              /\ c \in courseLocks'[r] /\ loc'[r].cap = cap'[c]
            BY DEF TypeOK
        <3>2. JobFits(r)' BY <1>1, <1>2, <1>4, <3>1, SameEndpoint
        <3>3. RequestInv(r)'
            BY <3>1, <3>2 DEF RequestInv, UsersKnown, LimitIsCurrent, CountIsCurrent, Counted
        <3>4. c \in WantedCourses(r) BY <1>10 DEF DeleteCourse, WantedCourses
        <3> QED BY <1>4, <1>10, <3>3, <3>4, LockCourseGood DEF DeleteCourse
    <2> QED BY <1>10, <2>1, <2>2 DEF DeleteCourse
<1>11. CASE DeleteCascade(r)
    <2>1. pc[r] = "delete_cascade" BY <1>11 DEF DeleteCascade
    <2>2. c \in courseLocks[r] BY <1>1, <2>1 DEF RequestInv, Locked
    <2>3. \A q \in Requests \ {r} : c \notin courseLocks[q] BY <2>2 DEF SeatsInv
    <2>4. \A q \in Requests \ {r} : /\ courseLocks[q] \subseteq live'
                                    /\ \A d \in courseLocks[q] : cap'[d] = cap[d]
        BY <1>11, <2>3 DEF DeleteCascade, SeatsInv
    <2>5. live' \subseteq live /\ cap' \in [Courses -> Caps] /\ rows' \subseteq rows
        BY <1>11 DEF DeleteCascade, TypeOK
    <2>6. pc'[r] = "delete_clear" /\ job'[r] = job[r]
        BY <1>11 DEF DeleteCascade, Commit, TypeOK
    <2>7. RequestInv(r)' BY <1>6, <2>6
    <2> QED BY <1>4, <1>11, <2>4, <2>5, <2>7, CommitGood DEF DeleteCascade
<1>12. CASE DeleteClear(r) BY <1>12, ReplyGood DEF DeleteClear, Codes, Patterns
<1> QED BY <1>7, <1>8, <1>9, <1>10, <1>11, <1>12 DEF DeleteStep

\* Every statement of bulk_update_course_categories is good.
LEMMA RecatGood ==
    ASSUME TypeOK, SeatsInv, NEW r \in Requests, RecatStep(r)
    PROVE  Good
<1>1. RequestInv(r) /\ JobFits(r) BY DEF SeatsInv, RequestInv
<1>2. pc[r] \in RecatLabels
    BY DEF RecatStep, RecatScan, RecatSweep, RecatCommit, RecatClear, RecatLabels
<1>3. RecatLabels \in Endpoints /\ RecatLabels \subseteq Plain
    BY DEF Endpoints, Plain, Labels, Locked, RecatLabels
<1>4. "recat_sweep" \in RecatLabels /\ "recat_clear" \in RecatLabels BY DEF RecatLabels
<1>5. loc[r] \in LocType BY DEF TypeOK, LocType
<1>6. ASSUME NEW l \in RecatLabels, pc'[r] = l, job'[r] = job[r]
      PROVE  RequestInv(r)' /\ l \in Labels
    <2>1. JobFits(r)' BY <1>1, <1>2, <1>3, <1>6, SameEndpoint
    <2> QED BY <1>3, <1>6, <2>1, PlainInv DEF Plain
<1>7. CASE RecatScan(r)
    <2>1. PICK S \in SUBSET live : loc' = [loc EXCEPT ![r].todo = S]
        BY <1>7 DEF RecatScan
    <2>2. S \in SUBSET Nat
        <3>1. Courses \subseteq Nat BY EnrollmentAssumption
        <3> QED BY <3>1 DEF TypeOK
    <2>3. [loc[r] EXCEPT !.todo = S] \in LocType BY <1>5, <2>2, LocUpdates
    <2>4. pc'[r] = "recat_sweep" /\ job'[r] = job[r] BY <1>7 DEF RecatScan, Proceed, TypeOK
    <2>5. RequestInv(r)' /\ "recat_sweep" \in Labels BY <1>4, <1>6, <2>4
    <2> QED BY <1>7, <2>1, <2>3, <2>5, RememberGood DEF RecatScan
<1>8. CASE RecatSweep(r)
    <2>1. PICK c \in loc[r].todo :
              /\ \A q \in Requests \ {r} : c \notin courseLocks[q]
              /\ courseLocks' = [courseLocks EXCEPT ![r] = @ \cup ({c} \cap live)]
              /\ loc' = [loc EXCEPT ![r].todo = @ \ {c}]
              /\ Proceed(r, "recat_sweep")
        BY <1>8 DEF RecatSweep
    <2>2. loc[r].todo \ {c} \in SUBSET Nat BY <1>5 DEF LocType
    <2>3. [loc[r] EXCEPT !.todo = loc[r].todo \ {c}] \in LocType BY <1>5, <2>2, LocUpdates
    <2>4. pc'[r] = "recat_sweep" /\ job'[r] = job[r] BY <2>1 DEF Proceed, TypeOK
    <2>5. RequestInv(r)' /\ "recat_sweep" \in Labels BY <1>4, <1>6, <2>4
    <2>6. loc' = [loc EXCEPT ![r] = [loc[r] EXCEPT !.todo = loc[r].todo \ {c}]] BY <2>1
    <2>7. {c} \cap live \in SUBSET live OBVIOUS
    <2>8. \A q \in Requests \ {r} : ({c} \cap live) \cap courseLocks[q] = {} BY <2>1
    <2> QED BY <2>1, <2>3, <2>5, <2>6, <2>7, <2>8, ProceedGood DEF LocType
<1>9. CASE RecatCommit(r)
    <2>1. CASE Refuse(r, 500) BY <2>1, RefuseGood DEF Codes
    <2>2. CASE CommitNothing(r, "recat_clear") BY <1>2, <1>3, <1>4, <2>2, PlainStepGood
    <2>3. CASE Commit(r, "recat_clear") /\ UNCHANGED <<dbVars, loc>>
        <3> USE DEF dbVars
        <3>1. pc'[r] = "recat_clear" /\ job'[r] = job[r] BY <2>3 DEF Commit, TypeOK
        <3>2. RequestInv(r)' /\ "recat_clear" \in Labels BY <1>4, <1>6, <3>1
        <3>3. /\ live' \subseteq live /\ cap' \in [Courses -> Caps] /\ rows' \subseteq rows
              /\ \A q \in Requests \ {r} : /\ courseLocks[q] \subseteq live'
                                           /\ \A c \in courseLocks[q] : cap'[c] = cap[c]
            BY <2>3 DEF TypeOK, SeatsInv
        <3> QED BY <2>3, <3>2, <3>3, CommitGood
    <2> QED BY <1>9, <2>1, <2>2, <2>3 DEF RecatCommit
<1>10. CASE RecatClear(r) BY <1>10, ReplyGood DEF RecatClear, Codes, Patterns
<1> QED BY <1>7, <1>8, <1>9, <1>10 DEF RecatStep

\* Every statement of AdvancedService.transfer_enrollment is good.
LEMMA TransferGood ==
    ASSUME TypeOK, SeatsInv, NEW r \in Requests, TransferStep(r)
    PROVE  Good
<1> DEFINE c == job[r].course
           from == job[r].from
<1>1. RequestInv(r) /\ JobFits(r) BY DEF SeatsInv, RequestInv
<1>2. pc[r] \in TransferLabels
    BY DEF TransferStep, TransferLock1, TransferLock2, TransferFind, TransferCheck,
           TransferCount, TransferMove, TransferReload, TransferLabels
<1>3. job[r] \in TransferJobs BY <1>1, <1>2 DEF JobFits
<1>4. /\ job[r].op = "transfer" /\ job[r].user \in UserIds
      /\ c \in Courses /\ from \in Courses
    BY <1>3 DEF TransferJobs
<1>5. TransferLabels \in Endpoints /\ TransferLabels \subseteq Labels BY DEF Endpoints, Labels
<1>6. loc[r] \in LocType BY DEF TypeOK, LocType
<1>7. SeatsWanted(job[r]) = 1 BY <1>4 DEF SeatsWanted
<1>8. "transfer_reload" \in Plain BY <1>5 DEF Plain, Locked, TransferLabels
<1> USE DEF TransferLabels
<1>9. ASSUME NEW d, LockCourse(r, d, "transfer_lock2") \/ LockCourse(r, d, "transfer_find"),
             pc[r] = "transfer_lock1" => courseLocks[r] = {},
             pc[r] \in {"transfer_lock1", "transfer_lock2"}
      PROVE  RequestInv(r)'
    <2> USE <1>9 DEF LockCourse, Proceed, dbVars
    <2>1. /\ pc'[r] \in {"transfer_lock2", "transfer_find"} /\ job'[r] = job[r] /\ cap' = cap
          /\ courseLocks'[r] = courseLocks[r] \cup ({d} \cap live)
          /\ loc'[r].cap = IF d \in live /\ d = c THEN cap[d] ELSE loc[r].cap
        BY DEF TypeOK
    <2>2. JobFits(r)' BY <1>1, <1>2, <1>5, <2>1, SameEndpoint
    <2>3. LimitIsCurrent(r)' BY <1>1, <2>1 DEF RequestInv, LimitIsCurrent
    <2> QED BY <2>1, <2>2, <2>3 DEF RequestInv, UsersKnown, CountIsCurrent, Counted, Locked
<1>10. CASE TransferLock1(r)
    <2>1. pc[r] = "transfer_lock1" BY <1>10 DEF TransferLock1
    <2>2. courseLocks[r] = {} BY <1>1, <2>1 DEF RequestInv
    <2>3. LockOrder(job[r])[1] \in WantedCourses(r) BY <2>1 DEF WantedCourses
    <2> QED BY <1>5, <1>9, <1>10, <2>1, <2>2, <2>3, LockCourseGood DEF TransferLock1
<1>11. CASE TransferLock2(r)
    <2>1. pc[r] = "transfer_lock2" BY <1>11 DEF TransferLock2
    <2>2. LockOrder(job[r])[2] \in WantedCourses(r) BY <2>1 DEF WantedCourses
    <2> QED BY <1>5, <1>9, <1>11, <2>1, <2>2, LockCourseGood DEF TransferLock2
<1>12. CASE TransferFind(r)
    <2>1. CASE NotFound(r, MissingCourse(r)) \/ NotFound(r, 0)
        <3>1. MissingCourse(r) \in Courses BY <1>4 DEF MissingCourse
        <3> QED BY <2>1, <3>1, NotFoundGood
    <2>2. CASE /\ {from, c} \subseteq courseLocks[r]
               /\ \E e \in Seated({job[r].user}, from) : loc' = [loc EXCEPT ![r].row = e.id]
               /\ Proceed(r, "transfer_check")
               /\ UNCHANGED courseLocks
        <3>1. PICK e \in Seated({job[r].user}, from) : loc' = [loc EXCEPT ![r].row = e.id]
            BY <2>2
        <3>2. e \in Row /\ e.user = job[r].user BY DEF Seated, RowsOf, TypeOK
        <3>3. e.id \in Nat /\ job[r].user \in Users BY <3>2 DEF Row
        <3>4. [loc[r] EXCEPT !.row = e.id] \in LocType BY <1>6, <3>3, LocUpdates
        <3>5. /\ pc'[r] = "transfer_check" /\ job'[r] = job[r] /\ cap' = cap
              /\ courseLocks'[r] = courseLocks[r] /\ loc'[r].cap = loc[r].cap
            BY <2>2, <3>1 DEF Proceed, TypeOK, dbVars
        <3>6. JobFits(r)' BY <1>1, <1>2, <1>5, <3>5, SameEndpoint
        <3>7. pc[r] = "transfer_find" BY <1>12 DEF TransferFind
        <3>8. LimitIsCurrent(r)' BY <1>1, <3>5, <3>7 DEF RequestInv, LimitIsCurrent
        <3>9. RequestInv(r)'
            BY <2>2, <3>3, <3>5, <3>6, <3>8 DEF RequestInv, UsersKnown, CountIsCurrent, Counted
        <3> QED BY <1>5, <2>2, <3>1, <3>4, <3>9, RememberGood
    <2> QED BY <1>12, <2>1, <2>2 DEF TransferFind
<1>13. CASE TransferCheck(r)
    <2>1. CASE Refuse(r, 409) BY <2>1, RefuseGood DEF Codes
    <2>2. CASE Read(r, "transfer_count")
        <3> USE <2>2 DEF Read, Proceed, dbVars
        <3>1. /\ pc'[r] = "transfer_count" /\ job'[r] = job[r] /\ loc'[r] = loc[r]
              /\ courseLocks'[r] = courseLocks[r] /\ cap' = cap
            BY DEF TypeOK
        <3>2. JobFits(r)' BY <1>1, <1>2, <1>5, <3>1, SameEndpoint
        <3>3. pc[r] = "transfer_check" BY <1>13 DEF TransferCheck
        <3>4. pc[r] \in Locked BY <3>3 DEF Locked
        <3>5. RequestInv(r)'
            BY <1>1, <3>1, <3>2, <3>3, <3>4
            DEF RequestInv, UsersKnown, LimitIsCurrent, CountIsCurrent, Counted
        <3> QED BY <1>5, <3>5, ReadGood
    <2> QED BY <1>13, <2>1, <2>2 DEF TransferCheck
<1>14. CASE TransferCount(r)
    <2>1. CASE Refuse(r, 422) BY <2>1, RefuseGood DEF Codes
    <2>2. CASE Cardinality(RowsOf(c)) < loc[r].cap /\ Read(r, "transfer_move")
        <3> USE <2>2 DEF Read, Proceed, dbVars
        <3>1. /\ pc'[r] = "transfer_move" /\ job'[r] = job[r] /\ loc'[r] = loc[r]
              /\ courseLocks'[r] = courseLocks[r] /\ cap' = cap
            BY DEF TypeOK
        <3>2. JobFits(r)' BY <1>1, <1>2, <1>5, <3>1, SameEndpoint
        <3>3. pc[r] = "transfer_count" BY <1>14 DEF TransferCount
        <3>4. pc[r] \in Locked BY <3>3 DEF Locked
        <3>5. CountIsCurrent(r)'
            <4>1. Cardinality(RowsOf(c)) \in Nat BY RowsOfFinite DEF SeatsInv
            <4>2. loc[r].cap \in Int BY <1>6 DEF LocType
            <4>3. RowsOf(c)' = RowsOf(c) BY DEF RowsOf
            <4> QED BY <1>7, <3>1, <4>1, <4>2, <4>3 DEF CountIsCurrent
        <3>6. RequestInv(r)'
            BY <1>1, <3>1, <3>2, <3>3, <3>4, <3>5 DEF RequestInv, UsersKnown, LimitIsCurrent
        <3> QED BY <1>5, <3>6, ReadGood
    <2> QED BY <1>14, <2>1, <2>2 DEF TransferCount
<1>15. CASE TransferMove(r)
    <2> DEFINE gone == {e \in rows : e.id = loc[r].row}
    <2>1. pc[r] = "transfer_move" BY <1>15 DEF TransferMove
    <2>2. {job[r].user} \in SUBSET Users /\ gone \in SUBSET rows
        BY <1>1, <2>1 DEF RequestInv, UsersKnown
    <2>3. Cardinality({job[r].user}) = 1 BY FS_Singleton
    <2>4. pc[r] \in Locked /\ pc[r] \in Counted BY <2>1 DEF Locked, Counted
    <2>5. c \in courseLocks[r] /\ loc[r].cap = cap[c]
        BY <1>1, <2>4 DEF RequestInv, LimitIsCurrent
    <2>6. Cardinality(RowsOf(c)) + Cardinality({job[r].user}) <= loc[r].cap
        BY <1>1, <1>7, <2>3, <2>4 DEF RequestInv, CountIsCurrent
    <2>7. InsertAndCommit(r, {job[r].user}, gone, "transfer_reload") BY <1>15 DEF TransferMove
    <2>8. pc'[r] = "transfer_reload" => JobFits(r)'
        <3>1. job'[r] = job[r] BY <2>7 DEF InsertAndCommit, Refuse, Reply, Commit
        <3> QED BY <1>1, <1>2, <1>5, <3>1, SameEndpoint
    <2> QED BY <1>8, <2>2, <2>5, <2>6, <2>7, <2>8, InsertGood
<1>16. CASE TransferReload(r)
    BY <1>16, ReplyGood DEF TransferReload, Codes, Patterns
<1> QED BY <1>10, <1>11, <1>12, <1>13, <1>14, <1>15, <1>16 DEF TransferStep

\* The arrival of a request with any parameters is good.
LEMMA ArriveGood ==
    ASSUME TypeOK, SeatsInv, NEW r \in Requests, Arrive(r)
    PROVE  Good
<1>1. PICK j \in Jobs(KnownIds) : /\ j.op \in Ops
                                  /\ job' = [job EXCEPT ![r] = j]
                                  /\ pc' = [pc EXCEPT ![r] = Entry[j.op]]
    BY DEF Arrive
<1>2. pc[r] = "new" /\ UNCHANGED <<dbVars, lockVars, loc, endVars, committed>> BY DEF Arrive
<1> USE <1>2 DEF dbVars, lockVars, endVars
<1>3. KnownIds \subseteq Nat BY DEF KnownIds, TypeOK, Row
<1>4. \/ j \in EnrollJobs        /\ Entry[j.op] = "enroll_lock"
      \/ j \in BulkJobs          /\ Entry[j.op] = "bulk_lock"
      \/ j \in TransferJobs      /\ Entry[j.op] = "transfer_lock1"
      \/ j \in UnenrollJobs(Nat) /\ Entry[j.op] = "unenroll_read"
      \/ j \in ProgressJobs(Nat) /\ Entry[j.op] = "progress_read"
      \/ j \in CapJobs           /\ Entry[j.op] = "cap_read"
      \/ j \in DeleteJobs        /\ Entry[j.op] = "delete_read"
      \/ j \in RecatJobs         /\ Entry[j.op] = "recat_scan"
    <2> USE DEF Entry
    <2>1. CASE j \in EnrollJobs   BY <2>1 DEF EnrollJobs
    <2>2. CASE j \in BulkJobs
        <3>1. j.op = "bulk" BY ONLY <2>2 DEF BulkJobs
        <3> QED BY <2>2, <3>1
    <2>3. CASE j \in TransferJobs
        <3>1. j.op = "transfer" BY ONLY <2>3 DEF TransferJobs
        <3> QED BY <2>3, <3>1
    <2>4. CASE j \in UnenrollJobs(KnownIds)
        <3>1. j \in UnenrollJobs(Nat) /\ j.op = "unenroll" BY ONLY <1>3, <2>4 DEF UnenrollJobs
        <3> QED BY <3>1
    <2>5. CASE j \in ProgressJobs(KnownIds)
        <3>1. j \in ProgressJobs(Nat) /\ j.op = "progress" BY ONLY <1>3, <2>5 DEF ProgressJobs
        <3> QED BY <3>1
    <2>6. CASE j \in CapJobs    BY <2>6 DEF CapJobs
    <2>7. CASE j \in DeleteJobs BY <2>7 DEF DeleteJobs
    <2>8. CASE j \in RecatJobs  BY <2>8 DEF RecatJobs
    <2> QED BY <2>1, <2>2, <2>3, <2>4, <2>5, <2>6, <2>7, <2>8 DEF Jobs
<1>5. pc'[r] = Entry[j.op] /\ job'[r] = j BY <1>1 DEF TypeOK
<1>6. JobFits(r)'
    BY <1>4, <1>5 DEF JobFits, EnrollLabels, BulkLabels, TransferLabels, UnenrollLabels,
                      ProgressLabels, CapLabels, DeleteLabels, RecatLabels
<1>7. RequestInv(r)'
    <2>1. courseLocks'[r] = {} BY DEF SeatsInv, RequestInv
    <2>2. pc'[r] \notin Locked /\ pc'[r] \notin Counted BY <1>4, <1>5 DEF Locked, Counted
    <2>3. pc'[r] \notin {"transfer_lock2", "transfer_find"} BY <1>4, <1>5
    <2> QED BY <1>6, <2>1, <2>2, <2>3
        DEF RequestInv, UsersKnown, LimitIsCurrent, CountIsCurrent, Locked
<1>8. TypeOK'
    <2>1. Entry[j.op] \in Labels
        BY <1>4 DEF Labels, EnrollLabels, BulkLabels, TransferLabels, UnenrollLabels,
                    ProgressLabels, CapLabels, DeleteLabels, RecatLabels
    <2>2. j \in Jobs(Nat) BY <1>4 DEF Jobs
    <2> QED BY <1>1, <2>1, <2>2 DEF TypeOK
<1>9. OthersKeep(r) BY <1>1 DEF TypeOK, OthersKeep, SeatsInv
<1>10. courseLocks'[r] \subseteq live BY DEF SeatsInv
<1> QED BY <1>7, <1>8, <1>9, <1>10, Quiet DEF Good

-----------------------------------------------------------------------------
(* The theorems.                                                           *)

\* The invariant holds of every database the requests may find.
LEMMA InitInv == Init => TypeOK /\ SeatsInv
<1> SUFFICES ASSUME Init PROVE TypeOK /\ SeatsInv
    OBVIOUS
<1> USE DEF Init
<1>1. rows \in SUBSET SeedRows OBVIOUS
<1>2. IsFiniteSet(rows) BY <1>1, EnrollmentAssumption, FS_Subset
<1>3. TypeOK
    <2>1. SeedRows \subseteq Row /\ FirstId \in Nat BY EnrollmentAssumption
    <2>2. "new" \in Labels BY DEF Labels
    <2> QED BY <1>1, <2>1, <2>2 DEF TypeOK
<1>4. \A r \in Requests : RequestInv(r)
    BY DEF RequestInv, JobFits, UsersKnown, LimitIsCurrent, CountIsCurrent, Locked,
           Counted, EnrollLabels, BulkLabels, TransferLabels, UnenrollLabels,
           ProgressLabels, CapLabels, DeleteLabels, RecatLabels
<1> QED BY <1>2, <1>3, <1>4 DEF SeatsInv

\* So is a step that changes nothing.
LEMMA StutterGood ==
    ASSUME TypeOK, SeatsInv, UNCHANGED vars
    PROVE  Good
<1> USE DEF vars, dbVars, lockVars, endVars
<1>1. TypeOK' BY DEF TypeOK
<1>2. \A c : RowsOf(c)' = RowsOf(c) BY DEF RowsOf
<1>3. SeatsInv'
    <2>1. \A r \in Requests : RequestInv(r)'
        BY <1>2 DEF SeatsInv, RequestInv, JobFits, UsersKnown, LimitIsCurrent, CountIsCurrent
    <2> QED BY <2>1 DEF SeatsInv
<1>4. SeatGain
    <2>1. \A c : Cardinality(RowsOf(c)) \in Nat BY RowsOfFinite DEF SeatsInv
    <2> QED BY <1>2, <2>1 DEF SeatGain
<1> QED BY <1>1, <1>3, <1>4 DEF Good

\* Every step is good.
LEMMA NextGood ==
    ASSUME TypeOK, SeatsInv, [Next]_vars
    PROVE  Good
<1>1. ASSUME NEW r \in Requests, Step(r) PROVE Good
    BY <1>1, EnrollGood, BulkGood, TransferGood, UnenrollGood, ProgressGood, CapGood,
       DeleteGood, RecatGood DEF Step
<1>2. ASSUME NEW r \in Requests, DeadlockVictim(r) PROVE Good
    BY <1>2, RefuseGood DEF DeadlockVictim, Codes
<1>3. CASE UNCHANGED vars BY <1>3, StutterGood
<1> QED BY <1>1, <1>2, <1>3, ArriveGood DEF Next, AllAnswered

\* The variables keep their types, and a request that holds the lock of the
\* course it enrolls into has read its limit and counted its seats right.
THEOREM Invariance == Spec => [](TypeOK /\ SeatsInv)
<1>1. TypeOK /\ SeatsInv /\ [Next]_vars => (TypeOK /\ SeatsInv)' BY NextGood DEF Good
<1> QED BY InitInv, <1>1, PTL DEF Spec

\* The variables keep their types (the first half of Invariance on its own).
THEOREM TypeCorrect == Spec => []TypeOK
BY Invariance, PTL

\* Whatever requests run, a course never gains a seat beyond its limit.
THEOREM NoOverEnrollment == Spec => SeatsRespectCap
<1>1. TypeOK /\ SeatsInv /\ [Next]_vars => [SeatGain]_vars BY NextGood DEF Good
<1>2. Spec => [][SeatGain]_vars BY Invariance, <1>1, PTL DEF Spec
<1> QED BY <1>2 DEF SeatsRespectCap, SeatGain
=============================================================================
