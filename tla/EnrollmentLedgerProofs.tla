----------------------- MODULE EnrollmentLedgerProofs -----------------------
(***************************************************************************)
(* The proof that the enrollment endpoints implement the ledger of seats   *)
(* (SeatLedger): seen through the pairs of a student and a course that     *)
(* have a row, each step of Enrollment is one step of the ledger or none.  *)
(***************************************************************************)
EXTENDS EnrollmentTableProofs

-----------------------------------------------------------------------------
(* What the ledger shows of the tables.                                    *)

\* The seats the rows R stand for.
Pairs(R) == {[user |-> e.user, course |-> e.course] : e \in R}

\* The enrollment a transfer has found is, as long as it is there, the one it is to
\* move: ids are given once, and no enrollment changes its student or its course.
FoundStays(r) ==
    pc[r] \in Moving =>
        /\ loc[r].row < nextId
        /\ \A e \in rows : e.id = loc[r].row => e.user = job[r].user /\ e.course = job[r].from

FoundInv == \A r \in Requests : FoundStays(r)

-----------------------------------------------------------------------------
(* What a step does to the tables, and to the other requests.              *)

\* The INSERTs of seats for the applicants, and the DELETE of the rows gone.
Inserts(r, gone) ==
    /\ rows' = (rows \ gone) \cup NewRows(Applicants(job[r]), job[r].course)
    /\ nextId' = nextId + Cardinality(Applicants(job[r]))
    /\ UNCHANGED <<live, cap>>

Enrolls(r)  == pc[r] \in {"enroll_insert", "bulk_insert"} /\ Inserts(r, {})
Moves(r)    == pc[r] = "transfer_move" /\ Inserts(r, {e \in rows : e.id = loc[r].row})
Unenrolls(r) == /\ pc[r] = "unenroll_delete" /\ Exists(job[r].row)
                /\ rows' = {e \in rows : e.id # job[r].row}
                /\ UNCHANGED <<live, cap, nextId>>
SetsCap(r)  == /\ pc[r] = "cap_write" /\ job[r].course \in live
               /\ cap' = [cap EXCEPT ![job[r].course] = job[r].cap]
               /\ UNCHANGED <<live, rows, nextId>>
Cascades(r) == /\ pc[r] = "delete_cascade"
               /\ live' = live \ {job[r].course}
               /\ rows' = rows \ RowsOf(job[r].course)
               /\ UNCHANGED <<cap, nextId>>

\* Of all statements of a request, these five change the tables.
LEMMA TableSteps ==
    ASSUME TypeOK, SeatsInv, NEW r \in Requests, Step(r)
    PROVE  \/ UNCHANGED dbVars
           \/ Enrolls(r) \/ Moves(r) \/ Unenrolls(r) \/ SetsCap(r) \/ Cascades(r)
<1> USE DEF Reply, Refuse, NotFound, Proceed, Read, CommitNothing, LockCourse, dbVars
<1>1. JobFits(r) BY DEF SeatsInv, RequestInv
<1>2. CASE EnrollStep(r)
    <2>1. CASE EnrollInsert(r)
        <3>1. job[r].op = "enroll" BY <1>1, <2>1 DEF EnrollInsert, JobFits, EnrollLabels, EnrollJobs
        <3>2. Applicants(job[r]) = {job[r].user} BY <3>1 DEF Applicants
        <3> QED BY <2>1, <3>2 DEF EnrollInsert, InsertAndCommit, Enrolls, Inserts
    <2>2. CASE ~EnrollInsert(r)
        BY <1>2, <2>2 DEF EnrollStep, EnrollLock, EnrollCheck, EnrollCount, EnrollRefresh,
                          EnrollReload
    <2> QED BY <2>1, <2>2
<1>3. CASE BulkStep(r)
    <2>1. CASE BulkInsert(r)
        <3>1. job[r].op = "bulk" BY <1>1, <2>1 DEF BulkInsert, JobFits, BulkLabels, BulkJobs
        <3>2. Applicants(job[r]) = job[r].ids BY <3>1 DEF Applicants
        <3> QED BY <2>1, <3>2 DEF BulkInsert, InsertAndCommit, Enrolls, Inserts
    <2>2. CASE ~BulkInsert(r)
        BY <1>3, <2>2 DEF BulkStep, BulkLock, BulkCount, BulkUsers, BulkCheck, BulkReload
    <2> QED BY <2>1, <2>2
<1>4. CASE TransferStep(r)
    <2>1. CASE TransferMove(r)
        <3>1. job[r].op = "transfer"
            BY <1>1, <2>1 DEF TransferMove, JobFits, TransferLabels, TransferJobs
        <3>2. Applicants(job[r]) = {job[r].user} BY <3>1 DEF Applicants
        <3> QED BY <2>1, <3>2 DEF TransferMove, InsertAndCommit, Moves, Inserts
    <2>2. CASE ~TransferMove(r)
        BY <1>4, <2>2 DEF TransferStep, TransferLock1, TransferLock2, TransferFind,
                          TransferCheck, TransferCount, TransferReload
    <2> QED BY <2>1, <2>2
<1>5. CASE UnenrollStep(r)
    BY <1>5 DEF UnenrollStep, UnenrollRead, UnenrollDelete, UnenrollClear, Unenrolls
<1>6. CASE ProgressStep(r)
    BY <1>6 DEF ProgressStep, ProgressRead, ProgressWrite, ProgressRefresh
<1>7. CASE CapStep(r) BY <1>7 DEF CapStep, CapRead, CapWrite, CapRefresh, SetsCap
<1>8. CASE DeleteStep(r)
    BY <1>8 DEF DeleteStep, DeleteRead, DeleteLoad, DeleteRows, DeleteCourse, DeleteCascade,
                DeleteClear, Cascades
<1>9. CASE RecatStep(r)
    BY <1>9 DEF RecatStep, RecatScan, RecatSweep, RecatCommit, RecatClear
<1> QED BY <1>2, <1>3, <1>4, <1>5, <1>6, <1>7, <1>8, <1>9 DEF Step

\* What the mapping needs of the state of another request.
Untouched(r) == \A q \in Requests \ {r} : pc'[q] = pc[q] /\ job'[q] = job[q] /\ loc'[q] = loc[q]

\* A step of r leaves the others where they are.
LEMMA Alone ==
    ASSUME TypeOK, NEW r \in Requests, Arrive(r) \/ Step(r) \/ DeadlockVictim(r)
    PROVE  Untouched(r)
<1> USE DEF Reply, Refuse, NotFound, Proceed, Read, CommitNothing, Commit, LockCourse,
            InsertAndCommit
<1> SUFFICES ASSUME NEW q \in Requests, q # r
             PROVE  pc'[q] = pc[q] /\ job'[q] = job[q] /\ loc'[q] = loc[q]
    BY DEF Untouched
<1>0. q \in DOMAIN pc /\ q \in DOMAIN job /\ q \in DOMAIN loc
      /\ r \in DOMAIN pc /\ r \in DOMAIN job /\ r \in DOMAIN loc
    BY DEF TypeOK
<1>1. CASE EnrollStep(r)
    BY <1>1 DEF TypeOK, EnrollStep, EnrollLock, EnrollCheck, EnrollCount, EnrollInsert, EnrollRefresh,
                EnrollReload
<1>2. CASE BulkStep(r)
    BY <1>2 DEF TypeOK, BulkStep, BulkLock, BulkCount, BulkUsers, BulkCheck, BulkInsert, BulkReload
<1>3. CASE TransferStep(r)
    BY <1>3 DEF TypeOK, TransferStep, TransferLock1, TransferLock2, TransferFind,
                TransferCheck, TransferCount, TransferMove, TransferReload
<1>4. CASE UnenrollStep(r) \/ ProgressStep(r) \/ CapStep(r)
    BY <1>4 DEF TypeOK, UnenrollStep, UnenrollRead, UnenrollDelete, UnenrollClear, ProgressStep,
                ProgressRead, ProgressWrite, ProgressRefresh, CapStep, CapRead, CapWrite,
                CapRefresh
<1>5. CASE DeleteStep(r) \/ RecatStep(r)
    BY <1>5 DEF TypeOK, DeleteStep, DeleteRead, DeleteLoad, DeleteRows, DeleteCourse, DeleteCascade,
                DeleteClear, RecatStep, RecatScan, RecatSweep, RecatCommit, RecatClear
<1>6. CASE Arrive(r) \/ DeadlockVictim(r) BY <1>6 DEF TypeOK, Arrive, DeadlockVictim
<1> QED BY <1>1, <1>2, <1>3, <1>4, <1>5, <1>6 DEF Step

\* What a request knows when it inserts.
LEMMA ReadyToInsert ==
    ASSUME TypeOK, SeatsInv, TablesInv, NEW r \in Requests,
           pc[r] \in {"enroll_insert", "bulk_insert", "transfer_move"}
    PROVE  LET S == Applicants(job[r])
               c == job[r].course
           IN  /\ S \in SUBSET Users /\ c \in Courses /\ c \in live
               /\ Cardinality(S) \in Nat
               /\ Cardinality(RowsOf(c)) + Cardinality(S) <= cap[c]
               /\ Seated(S, c) = {}
<1> DEFINE S == Applicants(job[r])
           c == job[r].course
<1>1. RequestInv(r) /\ Known(r) BY DEF SeatsInv, TablesInv
<1>2. c \in live /\ c \in Courses
    BY <1>1 DEF RequestInv, Locked, SeatsInv, TypeOK
<1>3. loc[r].cap = cap[c] BY <1>1 DEF RequestInv, LimitIsCurrent, Locked
<1>4. Cardinality(RowsOf(c)) + SeatsWanted(job[r]) <= cap[c]
    BY <1>1, <1>3 DEF RequestInv, CountIsCurrent, Counted
<1>5. Seated(S, c) = {} BY <1>1 DEF Known, SeatsKnown, Checked
<1>6. cap[c] \in Int /\ Cardinality(RowsOf(c)) \in Nat
    BY <1>2, LimitIsInt, RowsOfFinite DEF SeatsInv
<1>7. CASE pc[r] = "bulk_insert"
    <2>1. job[r] \in BulkJobs BY <1>1, <1>7 DEF RequestInv, JobFits, BulkLabels
    <2>2. /\ job[r].op = "bulk" /\ job[r].ids \in SUBSET Users /\ job[r].again \in Nat
          /\ S = job[r].ids
        BY <1>1, <1>7, <2>1, EnrollmentAssumption
        DEF BulkJobs, RequestInv, UsersKnown, Applicants
    <2>3. Cardinality(S) \in Nat BY <1>2, <2>2, InsertedRows
    <2>4. SeatsWanted(job[r]) = Cardinality(S) + job[r].again BY <2>2 DEF SeatsWanted
    <2>5. Cardinality(RowsOf(c)) + Cardinality(S) <= cap[c]
        BY <1>4, <1>6, <2>2, <2>3, <2>4
    <2> QED BY <1>2, <1>5, <2>2, <2>3, <2>5
<1>8. CASE pc[r] \in {"enroll_insert", "transfer_move"}
    <2>1. job[r] \in EnrollJobs \cup TransferJobs
        BY <1>1, <1>8 DEF RequestInv, JobFits, EnrollLabels, TransferLabels
    <2>2. job[r].op # "bulk" BY <2>1 DEF EnrollJobs, TransferJobs
    <2>3. job[r].user \in Users
        BY <1>1, <1>8 DEF RequestInv, JobFits, EnrollLabels, EnrollJobs, UsersKnown
    <2>4. S = {job[r].user} /\ SeatsWanted(job[r]) = 1
        BY <2>2 DEF Applicants, SeatsWanted
    <2>5. Cardinality(S) = 1 BY <2>4, FS_Singleton
    <2> QED BY <1>2, <1>4, <1>5, <2>3, <2>4, <2>5
<1> QED BY <1>7, <1>8

\* Rows come under new ids.
LEMMA RowsAreNew ==
    ASSUME TypeOK, SeatsInv, TablesInv, NEW r \in Requests, Step(r)
    PROVE  /\ nextId <= nextId'
           /\ \A e \in rows' \ rows : e.id >= nextId
<1>1. nextId \in Nat BY DEF TypeOK
<1>2. CASE Enrolls(r) \/ Moves(r)
    <2> DEFINE S == Applicants(job[r])
               New == NewRows(S, job[r].course)
    <2>1. S \in SUBSET Users /\ job[r].course \in Courses
        BY <1>2, ReadyToInsert DEF Enrolls, Moves
    <2>2. Cardinality(S) \in Nat /\ \A e \in New : e.id \in Nat /\ nextId <= e.id
        BY <2>1, NewIds
    <2>3. nextId' = nextId + Cardinality(S) /\ \A e \in rows' \ rows : e \in New
        BY <1>2 DEF Enrolls, Moves, Inserts
    <2> HIDE DEF S, New
    <2> QED BY <1>1, <2>2, <2>3
<1>3. CASE UNCHANGED dbVars \/ Unenrolls(r) \/ SetsCap(r) \/ Cascades(r)
    BY <1>1, <1>3 DEF dbVars, Unenrolls, SetsCap, Cascades
<1> QED BY <1>2, <1>3, TableSteps

-----------------------------------------------------------------------------
(* FoundInv is an invariant.                                               *)

\* A request finds the enrollment it moves in one statement, and goes on with it.
LEMMA FindsRow ==
    ASSUME TypeOK, SeatsInv, TablesInv, FoundInv, NEW r \in Requests, Step(r),
           pc'[r] \in Moving
    PROVE  FoundStays(r)'
<1>1. CASE TransferFind(r)
    <2>1. PICK e \in Seated({job[r].user}, job[r].from) : loc' = [loc EXCEPT ![r].row = e.id]
        <3>1. \A c : ~NotFound(r, c) BY DEF NotFound, Reply, TypeOK, Moving
        <3> QED BY <1>1, <3>1 DEF TransferFind
    <2>2. UNCHANGED <<rows, nextId, job>>
        BY <1>1 DEF TransferFind, NotFound, Reply, Proceed, dbVars
    <2>3. loc'[r].row = e.id BY <2>1 DEF TypeOK
    <2>4. /\ e \in rows /\ e.user = job[r].user /\ e.course = job[r].from
          /\ e.id < nextId /\ \A f \in rows : f.id = e.id => f = e
        BY <2>1 DEF Seated, RowsOf, TablesInv, ReferentialIntegrity
    <2> QED BY <2>2, <2>3, <2>4 DEF FoundStays
<1>2. CASE ~TransferFind(r)
    <2>1. pc[r] \in Moving /\ UNCHANGED <<rows, nextId, job, loc>>
        <3> USE DEF Reply, Refuse, NotFound, Proceed, Read, CommitNothing, LockCourse, Commit,
                    InsertAndCommit, Moving, dbVars, TypeOK
        <3>1. CASE EnrollStep(r)
            BY <3>1 DEF EnrollStep, EnrollLock, EnrollCheck, EnrollCount, EnrollInsert,
                        EnrollRefresh, EnrollReload
        <3>2. CASE BulkStep(r)
            BY <3>2 DEF BulkStep, BulkLock, BulkCount, BulkUsers, BulkCheck, BulkInsert,
                        BulkReload
        <3>3. CASE TransferStep(r)
            BY <1>2, <3>3 DEF TransferStep, TransferLock1, TransferLock2,
                        TransferCheck, TransferCount, TransferMove, TransferReload
        <3>4. CASE UnenrollStep(r)
            BY <3>4 DEF UnenrollStep, UnenrollRead, UnenrollDelete, UnenrollClear
        <3>5. CASE ProgressStep(r)
            BY <3>5 DEF ProgressStep, ProgressRead, ProgressWrite, ProgressRefresh
        <3>6. CASE CapStep(r) BY <3>6 DEF CapStep, CapRead, CapWrite, CapRefresh
        <3>7. CASE DeleteStep(r)
            BY <3>7 DEF DeleteStep, DeleteRead, DeleteLoad, DeleteRows, DeleteCourse,
                        DeleteCascade, DeleteClear
        <3>8. CASE RecatStep(r)
            BY <3>8 DEF RecatStep, RecatScan, RecatSweep, RecatCommit, RecatClear
        <3> QED BY <3>1, <3>2, <3>3, <3>4, <3>5, <3>6, <3>7, <3>8 DEF Step
    <2> QED BY <2>1 DEF FoundInv, FoundStays
<1> QED BY <1>1, <1>2

\* Each step keeps what transfers have found.
LEMMA NextFound ==
    ASSUME TypeOK, SeatsInv, TablesInv, FoundInv, [Next]_vars
    PROVE  FoundInv'
<1>1. ASSUME NEW r \in Requests, Step(r) PROVE FoundInv'
    <2> SUFFICES ASSUME NEW q \in Requests, pc'[q] \in Moving PROVE FoundStays(q)'
        BY DEF FoundInv, FoundStays
    <2>1. CASE q = r BY <1>1, <2>1, FindsRow
    <2>2. CASE q # r
        <3>1. pc'[q] = pc[q] /\ job'[q] = job[q] /\ loc'[q] = loc[q]
            BY <1>1, <2>2, Alone DEF Untouched
        <3>2. nextId <= nextId' /\ \A e \in rows' \ rows : e.id >= nextId
            BY <1>1, RowsAreNew
        <3>3. loc[q].row \in Nat /\ nextId \in Nat /\ nextId' \in Nat
            <4>1. TypeOK' BY NextGood DEF Good
            <4> QED BY <4>1 DEF TypeOK
        <3>4. /\ loc[q].row < nextId
              /\ \A e \in rows : e.id = loc[q].row => e.user = job[q].user
                                                     /\ e.course = job[q].from
            BY <3>1 DEF FoundInv, FoundStays
        <3>5. \A e \in rows' : e.id = loc[q].row => e \in rows
            <4> SUFFICES ASSUME NEW e \in rows', e.id = loc[q].row, e \notin rows PROVE FALSE
                OBVIOUS
            <4>1. e.id >= nextId BY <3>2
            <4> QED BY <3>3, <3>4, <4>1
        <3>6. loc[q].row < nextId' BY <3>2, <3>3, <3>4
        <3> QED BY <3>1, <3>4, <3>5, <3>6 DEF FoundStays
    <2> QED BY <2>1, <2>2
<1>2. ASSUME NEW r \in Requests, Arrive(r) \/ DeadlockVictim(r) PROVE FoundInv'
    <2>1. UNCHANGED <<rows, nextId>> /\ pc'[r] \notin Moving
        BY <1>2 DEF Arrive, DeadlockVictim, Refuse, Reply, dbVars, TypeOK, Moving, Entry, Jobs,
                    EnrollJobs, BulkJobs, TransferJobs, UnenrollJobs, ProgressJobs, CapJobs,
                    DeleteJobs, RecatJobs
    <2>2. Untouched(r) BY <1>2, Alone
    <2> QED BY <2>1, <2>2 DEF FoundInv, FoundStays, Untouched
<1>3. CASE UNCHANGED vars BY <1>3 DEF vars, dbVars, FoundInv, FoundStays
<1> QED BY <1>1, <1>2, <1>3 DEF Next, AllAnswered

\* The enrollment a transfer has found is the one it moves.
THEOREM FoundStaysFound == Spec => []FoundInv
<1>1. Init => FoundInv BY DEF Init, FoundInv, FoundStays, Moving
<1>2. TypeOK /\ SeatsInv /\ TablesInv /\ FoundInv /\ [Next]_vars => FoundInv' BY NextFound
<1> QED BY <1>1, <1>2, Invariance, TablesInvariance, PTL DEF Spec

-----------------------------------------------------------------------------
(* Counting and changing seats through the mapping.                        *)

\* A course has at least as many rows as seats.
LEMMA SeatsOfCourse ==
    ASSUME IsFiniteSet(rows), NEW c
    PROVE  /\ Cardinality({s \in Pairs(rows) : s.course = c}) \in Nat
           /\ Cardinality({s \in Pairs(rows) : s.course = c}) <= Cardinality(RowsOf(c))
<1> DEFINE T == {s \in Pairs(rows) : s.course = c}
           f == [e \in RowsOf(c) |-> [user |-> e.user, course |-> e.course]]
<1>1. IsFiniteSet(RowsOf(c)) BY RowsOfFinite
<1>2. f \in Surjection(RowsOf(c), T) BY DEF Surjection, RowsOf, Pairs
<1> HIDE DEF f, T
<1>3. IsFiniteSet(T) /\ Cardinality(T) <= Cardinality(RowsOf(c))
    BY <1>1, <1>2, FS_Surjection
<1> QED BY <1>3, FS_CardinalityType DEF T

\* The rows inserted are the seats of the applicants.
LEMMA PairsOfNewRows ==
    ASSUME NEW S, NEW c
    PROVE  Pairs(NewRows(S, c)) = {[user |-> u, course |-> c] : u \in S}
<1> DEFINE id(u) == nextId + Cardinality({v \in S : v < u})
           New == {[id |-> id(u), user |-> u, course |-> c] : u \in S}
<1>1. NewRows(S, c) = New BY DEF NewRows
<1> HIDE DEF id
<1>2. ASSUME NEW s \in Pairs(New) PROVE s \in {[user |-> u, course |-> c] : u \in S}
    BY DEF Pairs
<1>3. ASSUME NEW u \in S PROVE [user |-> u, course |-> c] \in Pairs(New)
    <2>1. PICK e \in New : e = [id |-> id(u), user |-> u, course |-> c] OBVIOUS
    <2>2. [user |-> e.user, course |-> e.course] \in Pairs(New) BY DEF Pairs
    <2> QED BY <2>1, <2>2
<1> QED BY <1>1, <1>2, <1>3

\* The seats of rows inserted and deleted.
LEMMA PairsOfUnion == ASSUME NEW R, NEW Q PROVE Pairs(R \cup Q) = Pairs(R) \cup Pairs(Q)
BY DEF Pairs

\* Deleting the only row of a student in a course deletes the seat and no other.
LEMMA PairsWithout ==
    ASSUME TablesInv, NEW D, D \subseteq rows
    PROVE  Pairs(rows \ D) = Pairs(rows) \ Pairs(D)
<1>1. \A e, f \in rows : e.user = f.user /\ e.course = f.course => e = f
    BY DEF TablesInv, ReferentialIntegrity
<1> QED BY <1>1 DEF Pairs

\* The library counts the same sets in both modules.
LEMMA SameCount == \A S : Ledger!Cardinality(S) = Cardinality(S)
BY DEF Ledger!Cardinality, Cardinality

-----------------------------------------------------------------------------
(* Each statement that changes the tables is an entry of the ledger.       *)

\* An enrollment, alone or in bulk, gives all its applicants a seat.
LEMMA EnrollsIsEnrol ==
    ASSUME TypeOK, SeatsInv, TablesInv, NEW r \in Requests, Enrolls(r)
    PROVE  Ledger!Enrol(job[r].course, Applicants(job[r]))
<1> DEFINE S == Applicants(job[r])
           c == job[r].course
<1>1. /\ S \in SUBSET Users /\ c \in Courses /\ c \in live /\ Cardinality(S) \in Nat
      /\ Cardinality(RowsOf(c)) + Cardinality(S) <= cap[c]
      /\ Seated(S, c) = {}
    BY ReadyToInsert DEF Enrolls
<1>2. Cardinality({s \in Pairs(rows) : s.course = c}) + Cardinality(S) <= cap[c]
    BY <1>1, SeatsOfCourse, RowsOfFinite, LimitIsInt DEF SeatsInv
<1>3. Pairs(rows') = Pairs(rows) \cup {[user |-> u, course |-> c] : u \in S}
    <2>1. rows' = rows \cup NewRows(S, c) BY DEF Enrolls, Inserts
    <2> QED BY <2>1, PairsOfNewRows, PairsOfUnion
<1>4. {[user |-> u, course |-> c] : u \in S} \cap Pairs(rows) = {}
    BY <1>1 DEF Pairs, Seated, RowsOf
<1>5. UNCHANGED <<live, cap>> BY DEF Enrolls, Inserts
<1> QED BY <1>1, <1>2, <1>3, <1>4, <1>5, SameCount
        DEF Ledger!Enrol, Ledger!Seats, Ledger!Taken, Pairs

\* The rows a transfer deletes are those of its student in the source.
LEMMA GoneAreFound ==
    ASSUME TypeOK, SeatsInv, TablesInv, FoundInv, NEW r \in Requests, pc[r] = "transfer_move"
    PROVE  {e \in rows : e.id = loc[r].row} = Seated({job[r].user}, job[r].from)
<1>1. /\ FoundStays(r) /\ SeatsKnown(r) BY DEF FoundInv, TablesInv, Known
<1> QED BY <1>1 DEF FoundStays, SeatsKnown, Moving, Seated, RowsOf

\* A transfer moves a seat.  When the student asks to be moved from a course to the same
\* course, and has left it meanwhile, it gives one.
LEMMA MovesIsMove ==
    ASSUME TypeOK, SeatsInv, TablesInv, FoundInv, NEW r \in Requests, Moves(r)
    PROVE  \/ Ledger!Move(job[r].user, job[r].from, job[r].course)
           \/ Ledger!Enrol(job[r].course, {job[r].user})
<1> DEFINE u == job[r].user
           a == job[r].from
           b == job[r].course
<1>1. JobFits(r) /\ SeatsKnown(r) /\ pc[r] = "transfer_move"
    BY DEF SeatsInv, RequestInv, TablesInv, Known, Moves
<1>2. job[r] \in TransferJobs BY <1>1 DEF JobFits, TransferLabels
<1>3. Applicants(job[r]) = {u} BY <1>2 DEF Applicants, TransferJobs
<1>4. Cardinality({u}) = 1 BY FS_Singleton
<1>5. /\ u \in Users /\ b \in live /\ Seated({u}, b) = {}
      /\ b \in Courses /\ Cardinality(RowsOf(b)) + 1 <= cap[b]
    BY <1>1, <1>3, <1>4, ReadyToInsert
<1>6. a \in live BY <1>1 DEF SeatsKnown, Moving, SeatsInv
<1>7. Cardinality({s \in Pairs(rows) : s.course = b}) + 1 <= cap[b]
    BY <1>5, SeatsOfCourse, RowsOfFinite, LimitIsInt DEF SeatsInv
<1>8. {[user |-> v, course |-> b] : v \in {u}} \cap Pairs(rows) = {}
    BY <1>5 DEF Pairs, Seated, RowsOf
<1>9. UNCHANGED <<live, cap>> BY DEF Moves, Inserts
<1>10. Pairs(rows') = (Pairs(rows) \ Pairs(Seated({u}, a)))
                        \cup {[user |-> v, course |-> b] : v \in {u}}
    <2>1. rows' = (rows \ Seated({u}, a)) \cup NewRows({u}, b)
        BY <1>1, <1>3, GoneAreFound DEF Moves, Inserts
    <2>2. Pairs(rows \ Seated({u}, a)) = Pairs(rows) \ Pairs(Seated({u}, a))
        <3>1. Seated({u}, a) \in SUBSET rows BY DEF Seated, RowsOf
        <3> QED BY <3>1, PairsWithout
    <2>3. Pairs(NewRows({u}, b)) = {[user |-> v, course |-> b] : v \in {u}} BY PairsOfNewRows
    <2>4. Pairs(rows') = Pairs(rows \ Seated({u}, a)) \cup Pairs(NewRows({u}, b))
        BY <2>1, PairsOfUnion
    <2> QED BY <2>2, <2>3, <2>4
<1>11. Pairs(rows) \ Pairs(Seated({u}, a))
         = Pairs(rows) \ {[user |-> v, course |-> a] : v \in {u}}
    BY DEF Pairs, Seated, RowsOf
<1>12. CASE a = b
    <2>1. Pairs(Seated({u}, a)) = {} BY <1>5, <1>12 DEF Pairs
    <2>2. Pairs(rows') = Pairs(rows) \cup {[user |-> v, course |-> b] : v \in {u}}
        BY <1>10, <2>1
    <2> QED BY <1>4, <1>5, <1>7, <1>8, <1>9, <2>2, SameCount
            DEF Ledger!Enrol, Ledger!Seats, Ledger!Taken, Pairs
<1>13. CASE a # b
    BY <1>5, <1>6, <1>7, <1>8, <1>9, <1>10, <1>11, <1>13, SameCount
    DEF Ledger!Move, Ledger!Seats, Ledger!Taken, Pairs
<1> QED BY <1>12, <1>13

\* Deleting an enrollment frees one seat.
LEMMA UnenrollsIsLeave ==
    ASSUME TypeOK, TablesInv, NEW r \in Requests, Unenrolls(r)
    PROVE  \E u \in Users, c \in Courses : Ledger!Leave(u, c)
<1>1. PICK e \in rows : e.id = job[r].row BY DEF Unenrolls, Exists, RowIds
<1>2. e.user \in Users /\ e.course \in Courses BY DEF TypeOK, Row
<1>3. rows' = rows \ {e}
    BY <1>1 DEF Unenrolls, TablesInv, ReferentialIntegrity
<1>4. Pairs(rows') = Pairs(rows) \ Pairs({e})
    BY <1>3, PairsWithout
<1>5. Pairs({e}) = {[user |-> v, course |-> e.course] : v \in {e.user}} BY DEF Pairs
<1>6. UNCHANGED <<live, cap>> BY DEF Unenrolls
<1>7. Ledger!Leave(e.user, e.course)
    BY <1>4, <1>5, <1>6 DEF Ledger!Leave, Ledger!Seats, Pairs
<1> QED BY <1>2, <1>7

\* A deletion closes the course with all its seats.
LEMMA CascadesIsClose ==
    ASSUME TypeOK, TablesInv, NEW r \in Requests, Cascades(r)
    PROVE  Ledger!Close(job[r].course)
<1> DEFINE c == job[r].course
<1>1. RowsOf(c) \in SUBSET rows BY DEF RowsOf
<1>2. Pairs(rows') = Pairs(rows) \ Pairs(RowsOf(c))
    BY <1>1, PairsWithout DEF Cascades
<1>3. Pairs(rows) \ Pairs(RowsOf(c)) = Pairs(rows) \ {s \in Pairs(rows) : s.course = c}
    BY DEF Pairs, RowsOf
<1> QED BY <1>2, <1>3 DEF Cascades, Ledger!Close, Ledger!Taken, Pairs

\* A step that changes no table shows nothing in the ledger.
LEMMA QuietIsStutter == ASSUME UNCHANGED dbVars PROVE UNCHANGED Ledger!vars
BY DEF dbVars, Ledger!vars

\* Every statement of a request is an entry of the ledger or shows nothing.
LEMMA StepIsEntry ==
    ASSUME TypeOK, SeatsInv, TablesInv, FoundInv, NEW r \in Requests, Step(r)
    PROVE  Ledger!Next \/ UNCHANGED Ledger!vars
<1>1. CASE UNCHANGED dbVars BY <1>1, QuietIsStutter
<1>2. CASE Enrolls(r)
    <2>1. Applicants(job[r]) \in SUBSET Users /\ job[r].course \in Courses
        BY <1>2, ReadyToInsert DEF Enrolls
    <2>2. Ledger!Enrol(job[r].course, Applicants(job[r])) BY <1>2, EnrollsIsEnrol
    <2> QED BY <2>1, <2>2 DEF Ledger!Next, Ledger!Enrol
<1>3. CASE Moves(r)
    <2>1. job[r] \in TransferJobs
        BY <1>3 DEF SeatsInv, RequestInv, JobFits, Moves, TransferLabels
    <2>2. Applicants(job[r]) = {job[r].user} BY <2>1 DEF Applicants, TransferJobs
    <2>3. job[r].user \in Users BY <1>3, <2>2, ReadyToInsert DEF Moves
    <2>4. job[r].from \in Courses /\ job[r].course \in Courses BY <2>1 DEF TransferJobs
    <2>5. \/ Ledger!Move(job[r].user, job[r].from, job[r].course)
          \/ Ledger!Enrol(job[r].course, {job[r].user})
        BY <1>3, MovesIsMove
    <2>6. {job[r].user} \in SUBSET Users BY <2>3
    <2>7. CASE Ledger!Enrol(job[r].course, {job[r].user})
        BY <2>4, <2>6, <2>7 DEF Ledger!Next, Ledger!Enrol
    <2>8. CASE Ledger!Move(job[r].user, job[r].from, job[r].course)
        BY <2>3, <2>4, <2>8 DEF Ledger!Next, Ledger!Move
    <2> QED BY <2>5, <2>7, <2>8
<1>4. CASE Unenrolls(r) BY <1>4, UnenrollsIsLeave DEF Ledger!Next
<1>5. CASE SetsCap(r)
    <2>1. job[r] \in CapJobs BY <1>5 DEF SeatsInv, RequestInv, JobFits, SetsCap, CapLabels
    <2>2. job[r].course \in Courses /\ job[r].cap \in Caps BY <2>1 DEF CapJobs
    <2>3. Ledger!SetLimit(job[r].course, job[r].cap) BY <1>5 DEF SetsCap, Ledger!SetLimit
    <2> QED BY <2>2, <2>3 DEF Ledger!Next
<1>6. CASE Cascades(r)
    <2>1. job[r] \in DeleteJobs
        BY <1>6 DEF SeatsInv, RequestInv, JobFits, Cascades, DeleteLabels
    <2>2. job[r].course \in Courses BY <2>1 DEF DeleteJobs
    <2>3. Ledger!Close(job[r].course) BY <1>6, CascadesIsClose
    <2> QED BY <2>2, <2>3 DEF Ledger!Next, Ledger!Close
<1> QED BY <1>1, <1>2, <1>3, <1>4, <1>5, <1>6, TableSteps

\* The enrollment endpoints keep what the ledger promises: whatever requests run at
\* the same time, each change of the tables is one atomic entry of the ledger.
THEOREM EndpointsKeepLedger == Spec => ImplementsLedger
<1>1. Init => Ledger!Init
    BY EnrollmentAssumption DEF Init, Ledger!Init, Row
<1>2. TypeOK /\ SeatsInv /\ TablesInv /\ FoundInv /\ [Next]_vars => [Ledger!Next]_(Ledger!vars)
    <2> SUFFICES ASSUME TypeOK, SeatsInv, TablesInv, FoundInv, [Next]_vars
                 PROVE  Ledger!Next \/ UNCHANGED Ledger!vars
        OBVIOUS
    <2>1. ASSUME NEW r \in Requests, Step(r) PROVE Ledger!Next \/ UNCHANGED Ledger!vars
        BY <2>1, StepIsEntry
    <2>2. CASE ~\E r \in Requests : Step(r)
        <3>1. UNCHANGED dbVars
            BY <2>2 DEF Next, Arrive, DeadlockVictim, Refuse, Reply, AllAnswered, vars
        <3> QED BY <3>1, QuietIsStutter
    <2> QED BY <2>1, <2>2
<1> QED BY <1>1, <1>2, Invariance, TablesInvariance, FoundStaysFound, PTL
        DEF Spec, ImplementsLedger, Ledger!Spec
=============================================================================
