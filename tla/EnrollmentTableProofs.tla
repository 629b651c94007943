------------------------ MODULE EnrollmentTableProofs ------------------------
(***************************************************************************)
(* More proofs about Enrollment, for every set of users, courses, limits   *)
(* and requests: the constraints of the tables, what a request knows when  *)
(* it inserts a seat, what it leaves behind when it fails, and that the    *)
(* requests which follow the lock order do not deadlock.                   *)
(***************************************************************************)
EXTENDS EnrollmentProofs, WellFoundedInduction

-----------------------------------------------------------------------------
(* The invariant.                                                          *)

\* The users whom a request inserts seats for.
Applicants(j) == IF j.op = "bulk" THEN j.ids ELSE {j.user}

\* The statements run after the check for an existing enrollment.
Checked == {"enroll_count", "enroll_insert", "bulk_insert", "transfer_count", "transfer_move"}

\* The statements run after the enrollment to move was found.
Moving == {"transfer_check", "transfer_count", "transfer_move"}

\* The statements that lock a course, or lead to one that does, in the other endpoints.
Asking == {"enroll_lock", "bulk_lock", "cap_read", "cap_write"}

\* The statements of a deletion that has locked rows.
Deleting == {"delete_rows", "delete_course", "delete_cascade"}

\* The statements run after the COMMIT.
After == {"enroll_refresh", "enroll_reload", "bulk_reload", "transfer_reload",
          "unenroll_clear", "progress_refresh", "cap_refresh", "delete_clear",
          "recat_clear", "done"}

\* Only a transfer waits for a course while it has another, a smaller one, and only a
\* deletion has locked rows while it waits.
LocksKnown(r) ==
    /\ pc[r] \in Asking => courseLocks[r] = {}
    /\ pc[r] = "transfer_lock2" => courseLocks[r] \subseteq {LockOrder(job[r])[1]}
    /\ rowLocks[r] # {} => pc[r] \in Deleting

\* What a request has found out about seats is still so.
SeatsKnown(r) ==
    /\ pc[r] \in Checked => Seated(Applicants(job[r]), job[r].course) = {}
    /\ pc[r] \in Moving => /\ job[r].from \in courseLocks[r]
                           /\ \A e \in Seated({job[r].user}, job[r].from) : e.id = loc[r].row

\* What is known of the row a request has inserted, and when it is answered by an error.
SeatSettled(r) ==
    /\ loc[r].row < nextId
    /\ \A e \in rows : e.id = loc[r].row => e.course = job[r].course
    /\ answer[r].code >= 400 => ~Exists(loc[r].row)

Settled(r) ==
    /\ pc[r] # "done" => answer[r].code = 0
    /\ r \in committed =>
          /\ pc[r] \in After
          /\ job[r].op \in {"enroll", "transfer"} => SeatSettled(r)
          /\ (job[r].op = "bulk" /\ answer[r].code >= 400) => job[r].course \notin live

Known(r) == LocksKnown(r) /\ SeatsKnown(r) /\ Settled(r)

Arrived == {r \in Requests : pc[r] # "new"}

TablesInv == /\ ReferentialIntegrity
             /\ \A e \in rows : e.id < nextId
             /\ IsFiniteSet(Arrived)
             /\ \A r \in Requests : Known(r)

-----------------------------------------------------------------------------
(* A step of r leaves what the others know as it is.                       *)

Isolated(r) ==
    /\ OthersKeep(r)
    /\ \A q \in Requests \ {r} :
          /\ rowLocks'[q] = rowLocks[q] /\ answer'[q] = answer[q]
          /\ q \in committed' <=> q \in committed

\* Rows come under new ids, courses only go, and no course that another request has
\* locked gets a row.
Careful(r) ==
    /\ live' \subseteq live
    /\ nextId' \in Nat /\ nextId <= nextId'
    /\ \A e \in rows' \ rows : e.id >= nextId
    /\ \A q \in Requests \ {r} : \A c \in courseLocks[q] : RowsOf(c)' \subseteq RowsOf(c)

\* What another request knows survives the step.
LEMMA OthersKnown ==
    ASSUME TypeOK, SeatsInv, TablesInv, NEW r \in Requests, Isolated(r), Careful(r),
           NEW q \in Requests, q # r
    PROVE  Known(q)'
<1>1. /\ pc'[q] = pc[q] /\ job'[q] = job[q] /\ loc'[q] = loc[q]
      /\ courseLocks'[q] = courseLocks[q] /\ rowLocks'[q] = rowLocks[q]
      /\ answer'[q] = answer[q] /\ (q \in committed' <=> q \in committed)
    BY DEF Isolated, OthersKeep
<1>2. Known(q) /\ RequestInv(q) BY DEF TablesInv, SeatsInv
<1>3. LocksKnown(q)' BY <1>1, <1>2 DEF Known, LocksKnown
<1>4. \A S, c : c \in courseLocks[q] => Seated(S, c)' \subseteq Seated(S, c)
    BY DEF Careful, Seated
<1>5. SeatsKnown(q)'
    <2>1. pc[q] \in Checked \cup Moving => pc[q] \in Locked BY DEF Checked, Moving, Locked
    <2>2. pc[q] \in Locked => job[q].course \in courseLocks[q] BY <1>2 DEF RequestInv
    <2>3. SeatsKnown(q) BY <1>2 DEF Known
    <2>4. pc[q] \in Checked => Seated(Applicants(job[q]), job[q].course)' = {}
        <3> SUFFICES ASSUME pc[q] \in Checked
                     PROVE  Seated(Applicants(job[q]), job[q].course)' = {}
            OBVIOUS
        <3>1. Seated(Applicants(job[q]), job[q].course) = {} BY <2>3 DEF SeatsKnown
        <3> QED BY <1>1, <1>4, <2>1, <2>2, <3>1 DEF Applicants, Seated
    <2> QED BY <1>1, <1>4, <2>3, <2>4 DEF SeatsKnown, Applicants, Seated
<1>6. Settled(q)'
    <2>1. Settled(q) BY <1>2 DEF Known
    <2>2. ASSUME SeatSettled(q) PROVE SeatSettled(q)'
        <3>1. loc[q].row \in Nat /\ nextId \in Nat BY DEF TypeOK
        <3>2. loc[q].row < nextId' BY <2>2, <3>1 DEF SeatSettled, Careful
        <3>3. \A e \in rows' : e.id = loc[q].row => e \in rows
            <4> SUFFICES ASSUME NEW e \in rows', e.id = loc[q].row, e \notin rows PROVE FALSE
                OBVIOUS
            <4>1. e.id >= nextId BY DEF Careful
            <4> QED BY <2>2, <3>1, <4>1 DEF SeatSettled
        <3> QED BY <1>1, <2>2, <3>2, <3>3 DEF SeatSettled, Exists, RowIds
    <2> QED BY <1>1, <2>1, <2>2 DEF Settled, Careful
<1> QED BY <1>3, <1>5, <1>6 DEF Known

\* A step that adds no row.
LEMMA ShrinkKeeps ==
    ASSUME TypeOK, SeatsInv, TablesInv, NEW r \in Requests, Isolated(r),
           live' \subseteq live, rows' \subseteq rows, nextId' = nextId,
           \A e \in rows' : e.course \in live',
           Known(r)'
    PROVE  TablesInv'
<1>1. Careful(r)
    <2>1. nextId \in Nat BY DEF TypeOK
    <2> QED BY <2>1 DEF Careful, RowsOf
<1>2. \A q \in Requests : Known(q)'
    <2> TAKE q \in Requests
    <2>1. CASE q = r BY <2>1
    <2>2. CASE q # r BY <1>1, <2>2, OthersKnown
    <2> QED BY <2>1, <2>2
<1>3. ReferentialIntegrity' BY DEF TablesInv, ReferentialIntegrity
<1>4. IsFiniteSet(Arrived')
    <2>1. Arrived' \in SUBSET (Arrived \cup {r}) BY DEF Arrived, Isolated, OthersKeep
    <2>2. IsFiniteSet(Arrived \cup {r}) BY FS_AddElement DEF TablesInv
    <2> QED BY <2>1, <2>2, FS_Subset
<1> QED BY <1>2, <1>3, <1>4 DEF TablesInv

\* A step that changes no table.
LEMMA SteadyKeeps ==
    ASSUME TypeOK, SeatsInv, TablesInv, NEW r \in Requests, Isolated(r),
           UNCHANGED dbVars, Known(r)'
    PROVE  TablesInv'
BY ShrinkKeeps DEF dbVars, TablesInv, ReferentialIntegrity

-----------------------------------------------------------------------------
(* The ways a step ends.                                                   *)

\* Before its COMMIT a request has left nothing.
LEMMA NotYetCommitted ==
    ASSUME TablesInv, NEW r \in Requests, pc[r] \notin After
    PROVE  r \notin committed /\ answer[r].code = 0
BY DEF TablesInv, Known, Settled, After

\* An answer; an error after the COMMIT is one because the seats are gone.
LEMMA ReplyKeeps ==
    ASSUME TypeOK, SeatsInv, TablesInv, NEW r \in Requests,
           NEW code, NEW missing, NEW patterns, NEW mails,
           Reply(r, code, missing, patterns, mails),
           (r \in committed /\ code >= 400) =>
              /\ job[r].op \in {"enroll", "transfer"} => ~Exists(loc[r].row)
              /\ job[r].op = "bulk" => job[r].course \notin live
    PROVE  TablesInv'
<1> USE DEF Reply, Release
<1>1. Isolated(r) BY DEF TypeOK, Isolated, OthersKeep
<1>2. /\ pc'[r] = "done" /\ courseLocks'[r] = {} /\ rowLocks'[r] = {}
      /\ answer'[r].code = code
    BY DEF TypeOK
<1>3. LocksKnown(r)' /\ SeatsKnown(r)' BY <1>2 DEF LocksKnown, SeatsKnown, Checked, Moving
<1>4. Settled(r)'
    <2>1. Settled(r) BY DEF TablesInv, Known
    <2> QED BY <1>2, <2>1 DEF Settled, SeatSettled, After, Exists, RowIds, dbVars
<1>5. Known(r)' BY <1>3, <1>4 DEF Known
<1> QED BY <1>1, <1>5, SteadyKeeps

\* An answer before the COMMIT.
LEMMA EarlyReplyKeeps ==
    ASSUME TypeOK, SeatsInv, TablesInv, NEW r \in Requests, pc[r] \notin After,
           NEW code, NEW missing, NEW patterns, NEW mails,
           Reply(r, code, missing, patterns, mails)
    PROVE  TablesInv'
BY NotYetCommitted, ReplyKeeps

\* An error before the COMMIT.
LEMMA RefuseKeeps ==
    ASSUME TypeOK, SeatsInv, TablesInv, NEW r \in Requests, pc[r] \notin After,
           NEW code, Refuse(r, code)
    PROVE  TablesInv'
BY EarlyReplyKeeps DEF Refuse

\* A 404 before the COMMIT.
LEMMA NotFoundKeeps ==
    ASSUME TypeOK, SeatsInv, TablesInv, NEW r \in Requests, pc[r] \notin After,
           NEW c, NotFound(r, c)
    PROVE  TablesInv'
BY EarlyReplyKeeps DEF NotFound

\* A statement in the middle of a transaction.
LEMMA ProceedKeeps ==
    ASSUME TypeOK, SeatsInv, TablesInv, NEW r \in Requests, pc[r] \notin After,
           NEW l \in Labels \ {"done"}, Proceed(r, l),
           NEW m, loc' = [loc EXCEPT ![r] = m],
           NEW C, courseLocks' = [courseLocks EXCEPT ![r] = @ \cup C],
           \A q \in Requests \ {r} : C \cap courseLocks[q] = {},
           LocksKnown(r)', SeatsKnown(r)'
    PROVE  TablesInv'
<1> USE DEF Proceed, endVars
<1>1. Isolated(r) BY DEF TypeOK, Isolated, OthersKeep, SeatsInv
<1>2. Settled(r)'
    <2>1. pc'[r] = l BY DEF TypeOK
    <2> QED BY <2>1, NotYetCommitted DEF Settled
<1>3. Known(r)' BY <1>2 DEF Known
<1> QED BY <1>1, <1>3, SteadyKeeps

\* A plain SELECT.
LEMMA ReadKeeps ==
    ASSUME TypeOK, SeatsInv, TablesInv, NEW r \in Requests, pc[r] \notin After,
           NEW l \in Labels \ {"done"}, Read(r, l),
           LocksKnown(r)', SeatsKnown(r)'
    PROVE  TablesInv'
<1>1. loc' = [loc EXCEPT ![r] = loc[r]] BY DEF Read, TypeOK
<1>2. courseLocks' = [courseLocks EXCEPT ![r] = @ \cup {}] BY DEF Read, TypeOK
<1>3. \A q \in Requests \ {r} : {} \cap courseLocks[q] = {} OBVIOUS
<1> QED BY <1>1, <1>2, <1>3, ProceedKeeps DEF Read

\* After a COMMIT a request has no locks.
LEMMA ReleaseKnown ==
    ASSUME TypeOK, NEW r \in Requests, Release(r), pc'[r] \notin Checked \cup Moving
    PROVE  LocksKnown(r)' /\ SeatsKnown(r)'
<1>1. courseLocks'[r] = {} /\ rowLocks'[r] = {} BY DEF Release, TypeOK
<1> QED BY <1>1 DEF LocksKnown, SeatsKnown

\* COMMIT of a transaction that has changed no row.
LEMMA CommitNothingKeeps ==
    ASSUME TypeOK, SeatsInv, TablesInv, NEW r \in Requests, pc[r] \notin After,
           NEW l \in After \ {"done"}, CommitNothing(r, l)
    PROVE  TablesInv'
<1> USE DEF CommitNothing, endVars
<1>1. Isolated(r) BY DEF TypeOK, Isolated, OthersKeep, Release
<1>2. pc'[r] = l BY DEF TypeOK
<1>3. Settled(r)' BY <1>2, NotYetCommitted DEF Settled
<1>4. l \notin Checked \cup Moving BY DEF After, Checked, Moving
<1>5. Known(r)' BY <1>2, <1>3, <1>4, ReleaseKnown DEF Known
<1> QED BY <1>1, <1>5, SteadyKeeps

\* COMMIT of a change that gives no seat.
LEMMA CommitKeeps ==
    ASSUME TypeOK, SeatsInv, TablesInv, NEW r \in Requests, pc[r] \notin After,
           NEW l \in After \ {"done"}, Commit(r, l), UNCHANGED <<nextId, loc>>,
           job[r].op \notin {"enroll", "transfer", "bulk"},
           live' \subseteq live, rows' \subseteq rows, \A e \in rows' : e.course \in live'
    PROVE  TablesInv'
<1> USE DEF Commit, endVars
<1>1. Isolated(r) BY DEF TypeOK, Isolated, OthersKeep, Release
<1>2. pc'[r] = l /\ job'[r] = job[r] BY DEF TypeOK
<1>3. Settled(r)' BY <1>2, NotYetCommitted DEF Settled
<1>4. l \notin Checked \cup Moving BY DEF After, Checked, Moving
<1>5. Known(r)' BY <1>2, <1>3, <1>4, ReleaseKnown DEF Known
<1> QED BY <1>1, <1>5, ShrinkKeeps

\* The ids that the sequence gives are new, and differ.
LEMMA NewIds ==
    ASSUME TypeOK, NEW S \in SUBSET Users, NEW c \in Courses
    PROVE  /\ \A e \in NewRows(S, c) : /\ e.course = c /\ e.user \in S
                                      /\ e.id \in Nat
                                      /\ nextId <= e.id /\ e.id < nextId + Cardinality(S)
           /\ \A e, f \in NewRows(S, c) : e.id = f.id \/ e.user = f.user => e = f
           /\ Cardinality(S) \in Nat
<1> DEFINE Below(u) == {v \in S : v < u}
<1>1. IsFiniteSet(S) /\ Cardinality(S) \in Nat BY InsertedRows
<1>2. S \subseteq Nat BY EnrollmentAssumption
<1>3. ASSUME NEW u \in S
      PROVE  /\ IsFiniteSet(Below(u)) /\ Cardinality(Below(u)) \in Nat
             /\ Cardinality(Below(u)) < Cardinality(S)
    <2>1. Below(u) \in SUBSET S OBVIOUS
    <2>2. Below(u) # S BY <1>2
    <2>3. /\ IsFiniteSet(Below(u)) /\ Cardinality(Below(u)) <= Cardinality(S)
          /\ Cardinality(S) = Cardinality(Below(u)) => S = Below(u)
        BY <1>1, <2>1, FS_Subset
    <2>4. Cardinality(Below(u)) \in Nat BY <2>3, FS_CardinalityType
    <2> QED BY <1>1, <2>2, <2>3, <2>4
<1>4. ASSUME NEW u \in S, NEW w \in S, u < w
      PROVE  Cardinality(Below(u)) # Cardinality(Below(w))
    <2>1. Below(u) \in SUBSET Below(w)
        <3>1. u \in Nat /\ w \in Nat /\ \A v \in S : v \in Nat BY <1>2
        <3>2. \A v \in S : v < u => v < w BY <1>4, <3>1
        <3> QED BY <3>2
    <2>2. Below(u) # Below(w) BY <1>2, <1>4
    <2>3. IsFiniteSet(Below(w)) BY <1>3
    <2> HIDE DEF Below
    <2> QED BY <2>1, <2>2, <2>3, FS_Subset
<1>5. \A e \in NewRows(S, c) : /\ e.user \in S /\ e.course = c
                               /\ e.id = nextId + Cardinality(Below(e.user))
                               /\ e = [id |-> e.id, user |-> e.user, course |-> c]
    <2> TAKE e \in NewRows(S, c)
    <2>1. PICK u \in S : e = [id |-> nextId + Cardinality(Below(u)), user |-> u, course |-> c]
        BY DEF NewRows
    <2> HIDE DEF Below
    <2> QED BY <2>1
<1>6. nextId \in Nat BY DEF TypeOK
<1> HIDE DEF Below
<1>7. ASSUME NEW e \in NewRows(S, c), NEW f \in NewRows(S, c), e.id = f.id
      PROVE  e.user = f.user
    <2>1. e.user \in S /\ f.user \in S BY <1>5
    <2>2. Cardinality(Below(e.user)) = Cardinality(Below(f.user))
        BY <1>3, <1>5, <1>6, <1>7, <2>1
    <2>3. e.user \in Nat /\ f.user \in Nat BY <1>2, <2>1
    <2> QED BY <1>4, <2>1, <2>2, <2>3
<1>8. \A e, f \in NewRows(S, c) : e.id = f.id \/ e.user = f.user => e = f
    <2> TAKE e, f \in NewRows(S, c)
    <2>1. e.id = f.id \/ e.user = f.user => e.user = f.user BY <1>7
    <2> QED BY <1>5, <2>1
<1>9. \A e \in NewRows(S, c) : /\ e.id \in Nat
                               /\ nextId <= e.id /\ e.id < nextId + Cardinality(S)
    <2> TAKE e \in NewRows(S, c)
    <2>1. e.user \in S /\ e.id = nextId + Cardinality(Below(e.user)) BY <1>5
    <2>2. Cardinality(Below(e.user)) \in Nat /\ Cardinality(Below(e.user)) < Cardinality(S)
        BY <1>3, <2>1
    <2> QED BY <1>1, <1>6, <2>1, <2>2
<1> QED BY <1>1, <1>5, <1>8, <1>9

\* The INSERTs under the lock of the course keep the constraints.
LEMMA InsertKeeps ==
    ASSUME TypeOK, SeatsInv, TablesInv, NEW r \in Requests, pc[r] \notin After,
           NEW S \in SUBSET Users, NEW gone, NEW l \in After \ {"done"},
           InsertAndCommit(r, S, gone, l), job[r].course \in courseLocks[r],
           job[r].op \in {"enroll", "transfer"} => S # {}
    PROVE  TablesInv'
<1> DEFINE c == job[r].course
           New == NewRows(S, c)
<1>1. CASE Refuse(r, 500) BY <1>1, RefuseKeeps
<1>2. CASE /\ Seated(S, c) \subseteq gone
           /\ rows' = (rows \ gone) \cup New
           /\ nextId' = nextId + Cardinality(S)
           /\ loc' = [loc EXCEPT ![r].row = nextId]
           /\ UNCHANGED <<live, cap>>
           /\ Commit(r, l)
    <2> USE <1>2 DEF Commit, endVars
    <2>1. c \in Courses /\ c \in live BY DEF TypeOK, SeatsInv
    <2>2. /\ \A e \in New : /\ e.course = c /\ e.user \in S /\ e.id \in Nat
                             /\ nextId <= e.id /\ e.id < nextId + Cardinality(S)
          /\ \A e, f \in New : e.id = f.id \/ e.user = f.user => e = f
          /\ Cardinality(S) \in Nat
        BY <2>1, NewIds
    <2> HIDE DEF New
    <2>3. nextId \in Nat /\ \A e \in rows : e.id \in Nat /\ e.id < nextId
        BY DEF TypeOK, TablesInv, Row
    <2>4. Isolated(r) BY DEF TypeOK, Isolated, OthersKeep, Release
    <2>5. Careful(r)
        <3>1. \A e \in rows' \ rows : e.id >= nextId BY <2>2, <2>3
        <3>2. \A q \in Requests \ {r} : c \notin courseLocks[q] BY DEF SeatsInv
        <3>3. \A d : d # c => RowsOf(d)' \subseteq RowsOf(d) BY <2>2 DEF RowsOf
        <3>4. nextId' \in Nat /\ nextId <= nextId' BY <2>2, <2>3
        <3> QED BY <3>1, <3>2, <3>3, <3>4 DEF Careful
    <2>6. Known(r)'
        <3>1. /\ pc'[r] = l /\ job'[r] = job[r] /\ loc'[r].row = nextId
              /\ answer'[r] = answer[r]
            BY DEF TypeOK
        <3>2. LocksKnown(r)' /\ SeatsKnown(r)'
            BY <3>1, ReleaseKnown DEF After, Checked, Moving
        <3>3. job[r].op \in {"enroll", "transfer"} => SeatSettled(r)'
            <4> SUFFICES ASSUME job[r].op \in {"enroll", "transfer"} PROVE SeatSettled(r)'
                OBVIOUS
            <4>1. answer'[r].code = 0 BY <3>1, NotYetCommitted
            <4>2. \A e \in rows' : e.id = nextId => e.course = c BY <2>2, <2>3
            <4>3. nextId < nextId'
                <5>1. IsFiniteSet(S) BY <2>1, InsertedRows
                <5>2. Cardinality(S) # 0 BY <5>1, FS_EmptySet
                <5>3. nextId' = nextId + Cardinality(S) OBVIOUS
                <5> QED BY ONLY <2>2, <2>3, <5>2, <5>3
            <4> QED BY <3>1, <4>1, <4>2, <4>3 DEF SeatSettled
        <3>4. Settled(r)' BY <3>1, <3>3, NotYetCommitted DEF Settled
        <3> QED BY <3>2, <3>4 DEF Known
    <2>7. \A q \in Requests : Known(q)'
        <3> TAKE q \in Requests
        <3>1. CASE q = r BY <2>6, <3>1
        <3>2. CASE q # r BY <2>4, <2>5, <3>2, OthersKnown
        <3> QED BY <3>1, <3>2
    <2>8. ReferentialIntegrity'
        <3>1. ReferentialIntegrity BY DEF TablesInv
        <3>2. \A e \in rows' : e.course \in live' BY <2>1, <2>2, <3>1 DEF ReferentialIntegrity
        <3>3. ASSUME NEW e \in rows', NEW f \in rows',
                     (e.user = f.user /\ e.course = f.course) \/ e.id = f.id
              PROVE  e = f
            <4>1. CASE e \in rows \ gone /\ f \in rows \ gone
                <5>1. \A g, h \in rows : (g.user = h.user /\ g.course = h.course) \/ g.id = h.id
                                            => g = h
                    BY <3>1 DEF ReferentialIntegrity
                <5>2. e \in rows /\ f \in rows BY <4>1
                <5> QED BY ONLY <3>3, <5>1, <5>2
            <4>2. CASE e \in New /\ f \in New BY <2>2, <3>3, <4>2
            <4>3. ASSUME NEW g \in rows \ gone, NEW h \in New
                  PROVE  g.id # h.id /\ ~(g.user = h.user /\ g.course = h.course)
                <5>1. g.id # h.id BY <2>2, <2>3
                <5>2. g.user \in S /\ g.course = c => g \in gone BY DEF Seated, RowsOf
                <5> QED BY <2>2, <5>1, <5>2
            <4>4. e \in (rows \ gone) \cup New /\ f \in (rows \ gone) \cup New BY DEF New
            <4>5. ~(e \in rows \ gone /\ f \in New) BY <3>3, <4>3
            <4>6. ~(f \in rows \ gone /\ e \in New) BY <3>3, <4>3
            <4> QED BY <4>1, <4>2, <4>4, <4>5, <4>6
        <3> QED BY <3>2, <3>3 DEF ReferentialIntegrity
    <2>9. \A e \in rows' : e.id < nextId' BY <2>2, <2>3
    <2>10. IsFiniteSet(Arrived')
        <3>1. Arrived' \in SUBSET (Arrived \cup {r}) BY DEF Arrived, TypeOK
        <3>2. IsFiniteSet(Arrived \cup {r}) BY FS_AddElement DEF TablesInv
        <3> QED BY <3>1, <3>2, FS_Subset
    <2> QED BY <2>7, <2>8, <2>9, <2>10 DEF TablesInv
<1> QED BY <1>1, <1>2 DEF InsertAndCommit

\* A request that has locked no row goes on to a statement that locks no course.
LEMMA NoNewLocks ==
    ASSUME TypeOK, TablesInv, NEW r \in Requests, UNCHANGED rowLocks,
           pc[r] \notin Deleting, pc'[r] \notin Asking \cup {"transfer_lock2"}
    PROVE  LocksKnown(r)'
BY DEF TablesInv, Known, LocksKnown

\* A plain SELECT of a request that has locked no row.
LEMMA LookKeeps ==
    ASSUME TypeOK, SeatsInv, TablesInv, NEW r \in Requests, pc[r] \notin After \cup Deleting,
           NEW l \in Labels \ ({"done", "transfer_lock2"} \cup Asking), Read(r, l),
           SeatsKnown(r)'
    PROVE  TablesInv'
<1>1. pc'[r] = l /\ UNCHANGED rowLocks BY DEF Read, Proceed, TypeOK
<1> QED BY <1>1, NoNewLocks, ReadKeeps

\* SELECT ... FOR UPDATE of a course row.
LEMMA LockCourseKeeps ==
    ASSUME TypeOK, SeatsInv, TablesInv, NEW r \in Requests, pc[r] \notin After,
           NEW c \in WantedCourses(r), Unblocked(r),
           NEW l \in Labels \ {"done"}, LockCourse(r, c, l),
           LocksKnown(r)', SeatsKnown(r)'
    PROVE  TablesInv'
<1> DEFINE m == [loc[r] EXCEPT !.cap = IF c \in live /\ c = job[r].course THEN cap[c] ELSE @]
<1>1. loc' = [loc EXCEPT ![r] = m] BY DEF LockCourse, TypeOK
<1>2. \A q \in Requests \ {r} : ({c} \cap live) \cap courseLocks[q] = {}
    BY NobodyElseHolds
<1> HIDE DEF m
<1> QED BY <1>1, <1>2, ProceedKeeps DEF LockCourse

-----------------------------------------------------------------------------
(* The steps of each endpoint.                                             *)

\* CourseService.enroll_in_course.
LEMMA EnrollKeeps ==
    ASSUME TypeOK, SeatsInv, TablesInv, NEW r \in Requests, EnrollStep(r)
    PROVE  TablesInv'
<1> DEFINE c == job[r].course
<1>1. pc[r] \in EnrollLabels
    BY DEF EnrollStep, EnrollLock, EnrollCheck, EnrollCount, EnrollInsert, EnrollRefresh,
           EnrollReload, EnrollLabels
<1>2. job[r] \in EnrollJobs /\ RequestInv(r) /\ Known(r)
    BY <1>1 DEF SeatsInv, RequestInv, JobFits, TablesInv
<1>3. job[r].op = "enroll" /\ job[r].user \in Users /\ c \in Courses
    BY <1>2 DEF EnrollJobs
<1>4. EnrollLabels \subseteq Labels BY DEF Labels
<1>5. Applicants(job[r]) = {job[r].user} BY <1>3 DEF Applicants
<1> USE DEF EnrollLabels
<1>6. CASE EnrollLock(r)
    <2>1. pc[r] = "enroll_lock" /\ Unblocked(r) BY <1>6 DEF EnrollLock
    <2>2. pc[r] \notin After \cup Deleting BY <2>1 DEF After, Deleting
    <2>3. CASE NotFound(r, c) BY <2>2, <2>3, NotFoundKeeps
    <2>4. CASE LockCourse(r, c, "enroll_check")
        <3>1. pc'[r] = "enroll_check" /\ UNCHANGED rowLocks
            BY <2>4 DEF LockCourse, Proceed, TypeOK
        <3>2. LocksKnown(r)' BY <2>2, <3>1, NoNewLocks DEF Asking
        <3>3. SeatsKnown(r)' BY <3>1 DEF SeatsKnown, Checked, Moving
        <3>4. c \in WantedCourses(r) BY <2>1 DEF WantedCourses
        <3> QED BY <1>4, <2>1, <2>2, <2>4, <3>2, <3>3, <3>4, LockCourseKeeps
    <2> QED BY <1>6, <2>3, <2>4 DEF EnrollLock
<1>7. CASE EnrollCheck(r)
    <2>1. pc[r] \notin After \cup Deleting BY <1>7 DEF EnrollCheck, After, Deleting
    <2>2. CASE Refuse(r, 409) BY <2>1, <2>2, RefuseKeeps
    <2>3. CASE Seated({job[r].user}, c) = {} /\ Read(r, "enroll_count")
        <3>1. /\ pc'[r] = "enroll_count" /\ job' = job
              /\ Seated({job[r].user}, c)' = Seated({job[r].user}, c)
            BY <2>3 DEF Read, Proceed, TypeOK, dbVars, Seated, RowsOf
        <3>2. SeatsKnown(r)' BY <1>5, <2>3, <3>1 DEF SeatsKnown, Moving, Applicants
        <3> QED BY <1>4, <2>1, <2>3, <3>2, LookKeeps DEF Asking
    <2> QED BY <1>7, <2>2, <2>3 DEF EnrollCheck
<1>8. CASE EnrollCount(r)
    <2>1. pc[r] = "enroll_count" BY <1>8 DEF EnrollCount
    <2>2. pc[r] \notin After \cup Deleting BY <2>1 DEF After, Deleting
    <2>3. CASE Refuse(r, 422) BY <2>2, <2>3, RefuseKeeps
    <2>4. CASE Read(r, "enroll_insert")
        <3>1. /\ pc'[r] = "enroll_insert" /\ job' = job
              /\ Seated({job[r].user}, c)' = Seated({job[r].user}, c)
            BY <2>4 DEF Read, Proceed, TypeOK, dbVars, Seated, RowsOf
        <3>2. Seated({job[r].user}, c) = {}
            BY <1>2, <1>5, <2>1 DEF Known, SeatsKnown, Checked
        <3>3. SeatsKnown(r)' BY <1>5, <3>1, <3>2 DEF SeatsKnown, Moving, Applicants
        <3> QED BY <1>4, <2>2, <2>4, <3>3, LookKeeps DEF Asking
    <2> QED BY <1>8, <2>3, <2>4 DEF EnrollCount
<1>9. CASE EnrollInsert(r)
    <2>1. pc[r] = "enroll_insert" BY <1>9 DEF EnrollInsert
    <2>2. pc[r] \notin After /\ c \in courseLocks[r]
        BY <1>2, <2>1 DEF After, RequestInv, Locked
    <2>3. {job[r].user} \in SUBSET Users /\ "enroll_refresh" \in After \ {"done"}
        BY <1>3 DEF After
    <2> QED BY <1>9, <2>2, <2>3, InsertKeeps DEF EnrollInsert
<1>10. CASE EnrollRefresh(r)
    <2>1. pc[r] = "enroll_refresh" BY <1>10 DEF EnrollRefresh
    <2>2. CASE ~Exists(loc[r].row) /\ Refuse(r, 500) BY <1>3, <2>2, ReplyKeeps DEF Refuse
    <2>3. CASE Read(r, "enroll_reload")
        <3> USE <2>3 DEF Read, Proceed, endVars
        <3>1. pc'[r] = "enroll_reload" BY DEF TypeOK
        <3>2. Isolated(r) BY DEF TypeOK, Isolated, OthersKeep, SeatsInv
        <3>3. pc[r] \notin Deleting BY <2>1 DEF Deleting
        <3>4. LocksKnown(r)' BY <3>1, <3>3, NoNewLocks DEF Asking
        <3>5. SeatsKnown(r)' BY <3>1 DEF SeatsKnown, Checked, Moving
        <3>6. Settled(r) BY <1>2 DEF Known
        <3>7. Settled(r)'
            BY <1>3, <2>1, <3>1, <3>6 DEF Settled, SeatSettled, After, dbVars, Exists, RowIds
        <3>8. Known(r)' BY <3>4, <3>5, <3>7 DEF Known
        <3> QED BY <3>2, <3>8, SteadyKeeps
    <2> QED BY <1>10, <2>2, <2>3 DEF EnrollRefresh
<1>11. CASE EnrollReload(r)
    <2>1. CASE c \notin live /\ Reply(r, 500, 0, {"enrollments"}, {})
        <3>1. r \in committed => ~Exists(loc[r].row)
            <4> SUFFICES ASSUME r \in committed, NEW e \in rows, e.id = loc[r].row PROVE FALSE
                BY DEF Exists, RowIds
            <4>1. SeatSettled(r) BY <1>2, <1>3 DEF Known, Settled
            <4>2. e.course = c /\ e.course \in live
                BY <4>1 DEF SeatSettled, TablesInv, ReferentialIntegrity
            <4> QED BY <2>1, <4>2
        <3> QED BY <1>3, <2>1, <3>1, ReplyKeeps
    <2>2. CASE Reply(r, 200, 0, {"enrollments"}, {job[r].user}) BY <2>2, ReplyKeeps
    <2> QED BY <1>11, <2>1, <2>2 DEF EnrollReload
<1> QED BY <1>6, <1>7, <1>8, <1>9, <1>10, <1>11 DEF EnrollStep

\* AdvancedService.concurrent_enroll.
LEMMA BulkKeeps ==
    ASSUME TypeOK, SeatsInv, TablesInv, NEW r \in Requests, BulkStep(r)
    PROVE  TablesInv'
<1> DEFINE c == job[r].course
<1>1. pc[r] \in BulkLabels
    BY DEF BulkStep, BulkLock, BulkCount, BulkUsers, BulkCheck, BulkInsert, BulkReload,
           BulkLabels
<1>2. job[r] \in BulkJobs /\ RequestInv(r) /\ Known(r)
    BY <1>1 DEF SeatsInv, RequestInv, JobFits, TablesInv
<1>3. job[r].op = "bulk" BY <1>2 DEF BulkJobs
<1>4. BulkLabels \subseteq Labels BY DEF Labels
<1>5. "bulk_reload" \in After \ {"done"} BY DEF After
<1> USE DEF BulkLabels
<1>6. CASE BulkLock(r)
    <2>1. pc[r] = "bulk_lock" /\ Unblocked(r) BY <1>6 DEF BulkLock
    <2>2. pc[r] \notin After \cup Deleting BY <2>1 DEF After, Deleting
    <2>3. CASE NotFound(r, c) BY <2>2, <2>3, NotFoundKeeps
    <2>4. CASE LockCourse(r, c, "bulk_count")
        <3>1. pc'[r] = "bulk_count" /\ UNCHANGED rowLocks
            BY <2>4 DEF LockCourse, Proceed, TypeOK
        <3>2. LocksKnown(r)' BY <2>2, <3>1, NoNewLocks DEF Asking
        <3>3. SeatsKnown(r)' BY <3>1 DEF SeatsKnown, Checked, Moving
        <3>4. c \in WantedCourses(r) BY <2>1 DEF WantedCourses
        <3> QED BY <1>4, <2>1, <2>2, <2>4, <3>2, <3>3, <3>4, LockCourseKeeps
    <2> QED BY <1>6, <2>3, <2>4 DEF BulkLock
<1>7. ASSUME NEW l \in {"bulk_users", "bulk_check"}, Read(r, l),
             pc[r] \in {"bulk_count", "bulk_users"}
      PROVE  TablesInv'
    <2>1. pc'[r] = l BY <1>7 DEF Read, Proceed, TypeOK
    <2>2. SeatsKnown(r)' BY <2>1 DEF SeatsKnown, Checked, Moving
    <2>3. pc[r] \notin After \cup Deleting BY <1>7 DEF After, Deleting
    <2> QED BY <1>4, <1>7, <2>2, <2>3, LookKeeps DEF Asking
<1>8. CASE BulkCount(r)
    <2>1. pc[r] = "bulk_count" BY <1>8 DEF BulkCount
    <2>2. pc[r] \notin After BY <2>1 DEF After
    <2> QED BY <1>7, <1>8, <2>1, <2>2, RefuseKeeps DEF BulkCount
<1>9. CASE BulkUsers(r)
    <2>1. pc[r] = "bulk_users" BY <1>9 DEF BulkUsers
    <2>2. pc[r] \notin After BY <2>1 DEF After
    <2> QED BY <1>7, <1>9, <2>1, <2>2, NotFoundKeeps DEF BulkUsers
<1>10. CASE BulkCheck(r)
    <2>1. pc[r] \notin After \cup Deleting BY <1>10 DEF BulkCheck, After, Deleting
    <2>2. CASE Refuse(r, 409) BY <2>1, <2>2, RefuseKeeps
    <2>3. CASE Seated(job[r].ids, c) = {} /\ Read(r, "bulk_insert")
        <3>1. /\ pc'[r] = "bulk_insert" /\ job' = job
              /\ Seated(job[r].ids, c)' = Seated(job[r].ids, c)
            BY <2>3 DEF Read, Proceed, TypeOK, dbVars, Seated, RowsOf
        <3>2. SeatsKnown(r)' BY <1>3, <2>3, <3>1 DEF SeatsKnown, Moving, Applicants
        <3> QED BY <1>4, <2>1, <2>3, <3>2, LookKeeps DEF Asking
    <2> QED BY <1>10, <2>2, <2>3 DEF BulkCheck
<1>11. CASE BulkInsert(r)
    <2>1. pc[r] = "bulk_insert" BY <1>11 DEF BulkInsert
    <2>2. pc[r] \notin After /\ c \in courseLocks[r] /\ job[r].ids \in SUBSET Users
        BY <1>2, <2>1 DEF After, RequestInv, Locked, UsersKnown
    <2>3. CASE Refuse(r, 500) BY <2>2, <2>3, RefuseKeeps
    <2>4. CASE CommitNothing(r, "bulk_reload") BY <1>5, <2>2, <2>4, CommitNothingKeeps
    <2>5. CASE InsertAndCommit(r, job[r].ids, {}, "bulk_reload")
        BY <1>3, <1>5, <2>2, <2>5, InsertKeeps
    <2> QED BY <1>11, <2>3, <2>4, <2>5 DEF BulkInsert
<1>12. CASE BulkReload(r)
    <2>1. CASE c \notin live /\ Reply(r, 500, 0, {"courses"}, {}) BY <1>3, <2>1, ReplyKeeps
    <2>2. CASE Reply(r, 200, 0, {"courses"}, job[r].ids) BY <2>2, ReplyKeeps
    <2> QED BY <1>12, <2>1, <2>2 DEF BulkReload
<1> QED BY <1>6, <1>8, <1>9, <1>10, <1>11, <1>12 DEF BulkStep

\* AdvancedService.transfer_enrollment.
LEMMA TransferKeeps ==
    ASSUME TypeOK, SeatsInv, TablesInv, NEW r \in Requests, TransferStep(r)
    PROVE  TablesInv'
<1> DEFINE c == job[r].course
           from == job[r].from
<1>1. pc[r] \in TransferLabels
    BY DEF TransferStep, TransferLock1, TransferLock2, TransferFind, TransferCheck,
           TransferCount, TransferMove, TransferReload, TransferLabels
<1>2. job[r] \in TransferJobs /\ RequestInv(r) /\ Known(r)
    BY <1>1 DEF SeatsInv, RequestInv, JobFits, TablesInv
<1>3. job[r].op = "transfer" /\ c \in Courses /\ from \in Courses
    BY <1>2 DEF TransferJobs
<1>4. TransferLabels \subseteq Labels BY DEF Labels
<1>5. Applicants(job[r]) = {job[r].user} BY <1>3 DEF Applicants
<1> USE DEF TransferLabels
<1>6. CASE TransferLock1(r)
    <2>1. /\ pc[r] = "transfer_lock1" /\ Unblocked(r)
          /\ LockCourse(r, LockOrder(job[r])[1], "transfer_lock2")
        BY <1>6 DEF TransferLock1
    <2>2. pc[r] \notin After \cup Deleting BY <2>1 DEF After, Deleting
    <2>3. courseLocks[r] = {} BY <1>2, <2>1 DEF RequestInv
    <2>4. /\ pc'[r] = "transfer_lock2" /\ job' = job /\ rowLocks' = rowLocks
          /\ courseLocks'[r] \subseteq {LockOrder(job[r])[1]}
        BY <2>1, <2>3 DEF LockCourse, Proceed, TypeOK
    <2>5. LocksKnown(r)' BY <1>2, <2>2, <2>4 DEF Known, LocksKnown, Asking, LockOrder
    <2>6. SeatsKnown(r)' BY <2>4 DEF SeatsKnown, Checked, Moving
    <2>7. LockOrder(job[r])[1] \in WantedCourses(r) BY <2>1 DEF WantedCourses
    <2> QED BY <1>4, <2>1, <2>2, <2>5, <2>6, <2>7, LockCourseKeeps
<1>7. CASE TransferLock2(r)
    <2>1. /\ pc[r] = "transfer_lock2" /\ Unblocked(r)
          /\ LockCourse(r, LockOrder(job[r])[2], "transfer_find")
        BY <1>7 DEF TransferLock2
    <2>2. pc[r] \notin After \cup Deleting BY <2>1 DEF After, Deleting
    <2>3. pc'[r] = "transfer_find" /\ UNCHANGED rowLocks
        BY <2>1 DEF LockCourse, Proceed, TypeOK
    <2>4. LocksKnown(r)' BY <2>2, <2>3, NoNewLocks DEF Asking
    <2>5. SeatsKnown(r)' BY <2>3 DEF SeatsKnown, Checked, Moving
    <2>6. LockOrder(job[r])[2] \in WantedCourses(r) BY <2>1 DEF WantedCourses
    <2> QED BY <1>4, <2>1, <2>2, <2>4, <2>5, <2>6, LockCourseKeeps
<1>8. CASE TransferFind(r)
    <2>1. pc[r] = "transfer_find" BY <1>8 DEF TransferFind
    <2>2. pc[r] \notin After \cup Deleting BY <2>1 DEF After, Deleting
    <2>3. CASE NotFound(r, MissingCourse(r)) \/ NotFound(r, 0) BY <2>2, <2>3, NotFoundKeeps
    <2>4. CASE /\ {from, c} \subseteq courseLocks[r]
               /\ \E e \in Seated({job[r].user}, from) : loc' = [loc EXCEPT ![r].row = e.id]
               /\ Proceed(r, "transfer_check")
               /\ UNCHANGED courseLocks
        <3>1. PICK e \in Seated({job[r].user}, from) : loc' = [loc EXCEPT ![r].row = e.id]
            BY <2>4
        <3>2. /\ pc'[r] = "transfer_check" /\ job' = job /\ rowLocks' = rowLocks
              /\ courseLocks' = courseLocks /\ loc'[r].row = e.id
              /\ Seated({job[r].user}, from)' = Seated({job[r].user}, from)
            BY <2>4, <3>1 DEF Proceed, TypeOK, dbVars, Seated, RowsOf
        <3>3. \A f \in Seated({job[r].user}, from) : f = e
            BY DEF TablesInv, ReferentialIntegrity, Seated, RowsOf
        <3>4. SeatsKnown(r)' BY <2>4, <3>2, <3>3 DEF SeatsKnown, Checked
        <3>5. LocksKnown(r)' BY <2>2, <3>2, NoNewLocks DEF Asking
        <3>6. courseLocks' = [courseLocks EXCEPT ![r] = @ \cup {}] BY <3>2 DEF TypeOK
        <3>7. \A q \in Requests \ {r} : {} \cap courseLocks[q] = {} OBVIOUS
        <3>8. loc' = [loc EXCEPT ![r] = [loc[r] EXCEPT !.row = e.id]] BY <3>1
        <3> QED BY <1>4, <2>2, <2>4, <3>4, <3>5, <3>6, <3>7, <3>8, ProceedKeeps
    <2> QED BY <1>8, <2>3, <2>4 DEF TransferFind
<1>9. ASSUME NEW l \in {"transfer_count", "transfer_move"}, Read(r, l),
             pc[r] \in {"transfer_check", "transfer_count"},
             Seated({job[r].user}, c) = {}
      PROVE  TablesInv'
    <2>1. /\ pc'[r] = l /\ job' = job /\ loc' = loc /\ courseLocks' = courseLocks
          /\ Seated({job[r].user}, c)' = Seated({job[r].user}, c)
          /\ Seated({job[r].user}, from)' = Seated({job[r].user}, from)
        BY <1>9 DEF Read, Proceed, TypeOK, dbVars, Seated, RowsOf
    <2>2. pc[r] \in Moving /\ pc[r] \notin After \cup Deleting
        BY <1>9 DEF Moving, After, Deleting
    <2>3. SeatsKnown(r)'
        BY <1>2, <1>5, <1>9, <2>1, <2>2 DEF Known, SeatsKnown, Applicants
    <2> QED BY <1>4, <1>9, <2>2, <2>3, LookKeeps DEF Asking
<1>10. CASE TransferCheck(r)
    <2>1. pc[r] = "transfer_check" BY <1>10 DEF TransferCheck
    <2>2. pc[r] \notin After BY <2>1 DEF After
    <2> QED BY <1>9, <1>10, <2>1, <2>2, RefuseKeeps DEF TransferCheck
<1>11. CASE TransferCount(r)
    <2>1. pc[r] = "transfer_count" BY <1>11 DEF TransferCount
    <2>2. pc[r] \notin After /\ Seated({job[r].user}, c) = {}
        BY <1>2, <1>5, <2>1 DEF After, Known, SeatsKnown, Checked
    <2> QED BY <1>9, <1>11, <2>1, <2>2, RefuseKeeps DEF TransferCount
<1>12. CASE TransferMove(r)
    <2>1. pc[r] = "transfer_move" BY <1>12 DEF TransferMove
    <2>2. pc[r] \notin After /\ c \in courseLocks[r] /\ job[r].user \in Users
        BY <1>2, <2>1 DEF After, RequestInv, Locked, UsersKnown
    <2>3. {job[r].user} \in SUBSET Users /\ "transfer_reload" \in After \ {"done"}
        BY <2>2 DEF After
    <2> QED BY <1>12, <2>2, <2>3, InsertKeeps DEF TransferMove
<1>13. CASE TransferReload(r)
    BY <1>3, <1>13, ReplyKeeps DEF TransferReload
<1> QED BY <1>6, <1>7, <1>8, <1>10, <1>11, <1>12, <1>13 DEF TransferStep

\* EnrollmentService.unenroll.
LEMMA UnenrollKeeps ==
    ASSUME TypeOK, SeatsInv, TablesInv, NEW r \in Requests, UnenrollStep(r)
    PROVE  TablesInv'
<1>1. CASE UnenrollRead(r)
    <2>1. pc[r] \notin After \cup Deleting BY <1>1 DEF UnenrollRead, After, Deleting
    <2>2. CASE Read(r, "unenroll_delete")
        <3>1. pc'[r] = "unenroll_delete" BY <2>2 DEF Read, Proceed, TypeOK
        <3>2. SeatsKnown(r)' BY <3>1 DEF SeatsKnown, Checked, Moving
        <3> QED BY <2>1, <2>2, <3>2, LookKeeps DEF Asking, Labels, UnenrollLabels
    <2> QED BY <1>1, <2>1, <2>2, RefuseKeeps DEF UnenrollRead
<1>2. CASE UnenrollDelete(r)
    <2>1. pc[r] = "unenroll_delete" BY <1>2 DEF UnenrollDelete
    <2>2. pc[r] \notin After /\ "unenroll_clear" \in After \ {"done"} BY <2>1 DEF After
    <2>3. CASE CommitNothing(r, "unenroll_clear") BY <2>2, <2>3, CommitNothingKeeps
    <2>4. CASE /\ rows' = {e \in rows : e.id # job[r].row}
               /\ UNCHANGED <<live, cap, nextId, loc>>
               /\ Commit(r, "unenroll_clear")
        <3>1. job[r] \in UnenrollJobs(Nat)
            BY <2>1 DEF SeatsInv, RequestInv, JobFits, UnenrollLabels
        <3>2. job[r].op = "unenroll" BY <3>1 DEF UnenrollJobs
        <3>3. \A e \in rows' : e.course \in live'
            BY <2>4 DEF TablesInv, ReferentialIntegrity
        <3> QED BY <2>2, <2>4, <3>2, <3>3, CommitKeeps
    <2> QED BY <1>2, <2>3, <2>4 DEF UnenrollDelete
<1>3. CASE UnenrollClear(r) BY <1>3, ReplyKeeps DEF UnenrollClear
<1> QED BY <1>1, <1>2, <1>3 DEF UnenrollStep

\* EnrollmentService.update_enrollment.
LEMMA ProgressKeeps ==
    ASSUME TypeOK, SeatsInv, TablesInv, NEW r \in Requests, ProgressStep(r)
    PROVE  TablesInv'
<1>1. pc[r] \in ProgressLabels
    BY DEF ProgressStep, ProgressRead, ProgressWrite, ProgressRefresh, ProgressLabels
<1>2. job[r] \in ProgressJobs(Nat) BY <1>1 DEF SeatsInv, RequestInv, JobFits
<1>3. job[r].op = "progress" BY <1>2 DEF ProgressJobs
<1>4. CASE ProgressRead(r)
    <2>1. pc[r] \notin After \cup Deleting BY <1>4 DEF ProgressRead, After, Deleting
    <2>2. CASE Read(r, "progress_write")
        <3>1. pc'[r] = "progress_write" BY <2>2 DEF Read, Proceed, TypeOK
        <3>2. SeatsKnown(r)' BY <3>1 DEF SeatsKnown, Checked, Moving
        <3> QED BY <2>1, <2>2, <3>2, LookKeeps DEF Asking, Labels, ProgressLabels
    <2> QED BY <1>4, <2>1, <2>2, RefuseKeeps DEF ProgressRead
<1>5. CASE ProgressWrite(r)
    <2>1. pc[r] \notin After /\ "progress_refresh" \in After \ {"done"}
        BY <1>5 DEF ProgressWrite, After
    <2>2. CASE CommitNothing(r, "progress_refresh") BY <2>1, <2>2, CommitNothingKeeps
    <2>3. CASE Refuse(r, 500) BY <2>1, <2>3, RefuseKeeps
    <2>4. CASE Commit(r, "progress_refresh") /\ UNCHANGED <<dbVars, loc>>
        <3>1. \A e \in rows' : e.course \in live'
            BY <2>4 DEF TablesInv, ReferentialIntegrity, dbVars
        <3> QED BY <1>3, <2>1, <2>4, <3>1, CommitKeeps DEF dbVars
    <2> QED BY <1>5, <2>2, <2>3, <2>4 DEF ProgressWrite
<1>6. CASE ProgressRefresh(r) BY <1>3, <1>6, ReplyKeeps DEF ProgressRefresh, Refuse
<1> QED BY <1>4, <1>5, <1>6 DEF ProgressStep

\* CourseService.update_course.
LEMMA CapKeeps ==
    ASSUME TypeOK, SeatsInv, TablesInv, NEW r \in Requests, CapStep(r)
    PROVE  TablesInv'
<1>1. pc[r] \in CapLabels BY DEF CapStep, CapRead, CapWrite, CapRefresh, CapLabels
<1>2. job[r] \in CapJobs /\ Known(r)
    BY <1>1 DEF SeatsInv, RequestInv, JobFits, TablesInv
<1>3. job[r].op = "set_cap" BY <1>2 DEF CapJobs
<1>4. CASE CapRead(r)
    <2>1. pc[r] = "cap_read" BY <1>4 DEF CapRead
    <2>2. pc[r] \notin After \cup Deleting BY <2>1 DEF After, Deleting
    <2>3. CASE NotFound(r, job[r].course) BY <2>2, <2>3, NotFoundKeeps
    <2>4. CASE /\ loc' = [loc EXCEPT ![r].cap = cap[job[r].course]]
               /\ Proceed(r, "cap_write")
               /\ UNCHANGED courseLocks
        <3>1. pc'[r] = "cap_write" /\ courseLocks'[r] = {} /\ rowLocks' = rowLocks
            BY <1>2, <2>1, <2>4 DEF Proceed, TypeOK, Known, LocksKnown, Asking
        <3>2. LocksKnown(r)' BY <1>2, <2>2, <3>1 DEF Known, LocksKnown
        <3>3. SeatsKnown(r)' BY <3>1 DEF SeatsKnown, Checked, Moving
        <3>4. loc' = [loc EXCEPT ![r] = [loc[r] EXCEPT !.cap = cap[job[r].course]]] BY <2>4
        <3>5. courseLocks' = [courseLocks EXCEPT ![r] = @ \cup {}] BY <2>4 DEF TypeOK
        <3>6. \A q \in Requests \ {r} : {} \cap courseLocks[q] = {} OBVIOUS
        <3>7. "cap_write" \in Labels \ {"done"} BY DEF Labels, CapLabels
        <3> QED BY <2>2, <2>4, <3>2, <3>3, <3>4, <3>5, <3>6, <3>7, ProceedKeeps
    <2> QED BY <1>4, <2>3, <2>4 DEF CapRead
<1>5. CASE CapWrite(r)
    <2>1. pc[r] \notin After /\ "cap_refresh" \in After \ {"done"}
        BY <1>5 DEF CapWrite, After
    <2>2. CASE CommitNothing(r, "cap_refresh") BY <2>1, <2>2, CommitNothingKeeps
    <2>3. CASE Refuse(r, 500) BY <2>1, <2>3, RefuseKeeps
    <2>4. CASE UNCHANGED <<live, rows, nextId, loc>> /\ Commit(r, "cap_refresh")
        <3>1. \A e \in rows' : e.course \in live'
            BY <2>4 DEF TablesInv, ReferentialIntegrity
        <3> QED BY <1>3, <2>1, <2>4, <3>1, CommitKeeps
    <2> QED BY <1>5, <2>2, <2>3, <2>4 DEF CapWrite
<1>6. CASE CapRefresh(r) BY <1>3, <1>6, ReplyKeeps DEF CapRefresh, Refuse
<1> QED BY <1>4, <1>5, <1>6 DEF CapStep

\* CourseService.delete_course.
LEMMA DeleteKeeps ==
    ASSUME TypeOK, SeatsInv, TablesInv, NEW r \in Requests, DeleteStep(r)
    PROVE  TablesInv'
<1> DEFINE c == job[r].course
<1>1. pc[r] \in DeleteLabels
    BY DEF DeleteStep, DeleteRead, DeleteLoad, DeleteRows, DeleteCourse, DeleteCascade,
           DeleteClear, DeleteLabels
<1>2. job[r] \in DeleteJobs /\ Known(r)
    BY <1>1 DEF SeatsInv, RequestInv, JobFits, TablesInv
<1>3. job[r].op = "delete_course" BY <1>2 DEF DeleteJobs
<1>4. DeleteLabels \subseteq Labels BY DEF Labels
<1>5. "delete_clear" \in After \ {"done"} BY DEF After
<1> USE DEF DeleteLabels
<1>6. CASE DeleteRead(r)
    <2>1. pc[r] \notin After \cup Deleting BY <1>6 DEF DeleteRead, After, Deleting
    <2>2. CASE NotFound(r, c) BY <2>1, <2>2, NotFoundKeeps
    <2>3. CASE Read(r, "delete_load")
        <3>1. pc'[r] = "delete_load" BY <2>3 DEF Read, Proceed, TypeOK
        <3>2. SeatsKnown(r)' BY <3>1 DEF SeatsKnown, Checked, Moving
        <3> QED BY <1>4, <2>1, <2>3, <3>2, LookKeeps DEF Asking
    <2> QED BY <1>6, <2>2, <2>3 DEF DeleteRead
<1>7. CASE DeleteLoad(r)
    <2> DEFINE ids == {e.id : e \in RowsOf(c)}
    <2>1. /\ Proceed(r, "delete_rows") /\ UNCHANGED courseLocks
          /\ loc' = [loc EXCEPT ![r] = [loc[r] EXCEPT !.todo = ids]]
        BY <1>7 DEF DeleteLoad
    <2>2. pc[r] \notin After BY <1>7 DEF DeleteLoad, After
    <2>3. pc'[r] = "delete_rows" BY <2>1 DEF Proceed, TypeOK
    <2>4. LocksKnown(r)' /\ SeatsKnown(r)'
        BY <2>3 DEF LocksKnown, Asking, Deleting, SeatsKnown, Checked, Moving
    <2>5. courseLocks' = [courseLocks EXCEPT ![r] = @ \cup {}] BY <2>1 DEF TypeOK
    <2>6. \A q \in Requests \ {r} : {} \cap courseLocks[q] = {} OBVIOUS
    <2> QED BY <1>4, <2>1, <2>2, <2>4, <2>5, <2>6, ProceedKeeps
<1>8. CASE DeleteRows(r)
    <2>1. pc[r] = "delete_rows" BY <1>8 DEF DeleteRows
    <2>2. pc[r] \notin After BY <2>1 DEF After
    <2>3. CASE Read(r, "delete_course")
        <3>1. pc'[r] = "delete_course" BY <2>3 DEF Read, Proceed, TypeOK
        <3>2. LocksKnown(r)' /\ SeatsKnown(r)'
            BY <3>1 DEF LocksKnown, Asking, Deleting, SeatsKnown, Checked, Moving
        <3> QED BY <1>4, <2>2, <2>3, <3>2, ReadKeeps
    <2>4. ASSUME NEW id,
                 rowLocks' = [rowLocks EXCEPT ![r] = @ \cup ({id} \cap RowIds)],
                 loc' = [loc EXCEPT ![r].todo = @ \ {id}],
                 UNCHANGED <<dbVars, courseLocks, pc, job, endVars, committed>>
          PROVE  TablesInv'
        <3> USE <2>4 DEF endVars
        <3>1. Isolated(r) BY DEF TypeOK, Isolated, OthersKeep, SeatsInv
        <3>2. LocksKnown(r)' /\ SeatsKnown(r)'
            BY <2>1 DEF LocksKnown, Asking, Deleting, SeatsKnown, Checked, Moving
        <3>3. Settled(r)' BY <2>1, <2>2, NotYetCommitted DEF Settled
        <3> QED BY <3>1, <3>2, <3>3, SteadyKeeps DEF Known
    <2> QED BY <1>8, <2>3, <2>4 DEF DeleteRows
<1>9. CASE DeleteCourse(r)
    <2>1. pc[r] = "delete_course" /\ Unblocked(r) BY <1>9 DEF DeleteCourse
    <2>2. pc[r] \notin After BY <2>1 DEF After
    <2>3. CASE CommitNothing(r, "delete_clear") BY <1>5, <2>2, <2>3, CommitNothingKeeps
    <2>4. CASE LockCourse(r, c, "delete_cascade")
        <3>1. pc'[r] = "delete_cascade" BY <2>4 DEF LockCourse, Proceed, TypeOK
        <3>2. LocksKnown(r)' /\ SeatsKnown(r)'
            BY <3>1 DEF LocksKnown, Asking, Deleting, SeatsKnown, Checked, Moving
        <3>3. c \in WantedCourses(r) BY <2>1 DEF WantedCourses
        <3> QED BY <1>4, <2>1, <2>2, <2>4, <3>2, <3>3, LockCourseKeeps
    <2> QED BY <1>9, <2>3, <2>4 DEF DeleteCourse
<1>10. CASE DeleteCascade(r)
    <2>1. pc[r] \notin After BY <1>10 DEF DeleteCascade, After
    <2>2. /\ live' = live \ {c} /\ rows' = rows \ RowsOf(c) /\ UNCHANGED <<nextId, loc>>
          /\ Commit(r, "delete_clear")
        BY <1>10 DEF DeleteCascade
    <2>3. \A e \in rows' : e.course \in live'
        BY <2>2 DEF TablesInv, ReferentialIntegrity, RowsOf
    <2> QED BY <1>3, <1>5, <2>1, <2>2, <2>3, CommitKeeps
<1>11. CASE DeleteClear(r) BY <1>11, ReplyKeeps DEF DeleteClear
<1> QED BY <1>6, <1>7, <1>8, <1>9, <1>10, <1>11 DEF DeleteStep

\* CourseService.bulk_update_course_categories.
LEMMA RecatKeeps ==
    ASSUME TypeOK, SeatsInv, TablesInv, NEW r \in Requests, RecatStep(r)
    PROVE  TablesInv'
<1>1. pc[r] \in RecatLabels
    BY DEF RecatStep, RecatScan, RecatSweep, RecatCommit, RecatClear, RecatLabels
<1>2. job[r] \in RecatJobs /\ Known(r)
    BY <1>1 DEF SeatsInv, RequestInv, JobFits, TablesInv
<1>3. job[r].op = "recategorise" BY <1>2 DEF RecatJobs
<1>4. "recat_sweep" \in Labels \ {"done"} BY DEF Labels, RecatLabels
<1>5. "recat_clear" \in After \ {"done"} BY DEF After
<1>6. ASSUME pc[r] \in {"recat_scan", "recat_sweep"}, Proceed(r, "recat_sweep")
      PROVE  pc[r] \notin After /\ LocksKnown(r)' /\ SeatsKnown(r)'
    <2>1. pc[r] \notin After \cup Deleting BY <1>6 DEF After, Deleting
    <2>2. pc'[r] = "recat_sweep" /\ UNCHANGED rowLocks BY <1>6 DEF Proceed, TypeOK
    <2>3. LocksKnown(r)' BY <2>1, <2>2, NoNewLocks DEF Asking
    <2>4. SeatsKnown(r)' BY <2>2 DEF SeatsKnown, Checked, Moving
    <2> QED BY <2>1, <2>3, <2>4
<1>7. CASE RecatScan(r)
    <2>1. PICK S \in SUBSET live : loc' = [loc EXCEPT ![r].todo = S]
        BY <1>7 DEF RecatScan
    <2>2. courseLocks' = [courseLocks EXCEPT ![r] = @ \cup {}]
        BY <1>7 DEF RecatScan, TypeOK
    <2>3. \A q \in Requests \ {r} : {} \cap courseLocks[q] = {} OBVIOUS
    <2>4. loc' = [loc EXCEPT ![r] = [loc[r] EXCEPT !.todo = S]] BY <2>1
    <2>5. pc[r] = "recat_scan" /\ Proceed(r, "recat_sweep") BY <1>7 DEF RecatScan
    <2>6. pc[r] \notin After /\ LocksKnown(r)' /\ SeatsKnown(r)' BY <1>6, <2>5
    <2> QED BY <1>4, <2>2, <2>3, <2>4, <2>5, <2>6, ProceedKeeps
<1>8. CASE RecatSweep(r)
    <2>1. PICK c \in loc[r].todo :
              /\ \A q \in Requests \ {r} : c \notin courseLocks[q]
              /\ courseLocks' = [courseLocks EXCEPT ![r] = @ \cup ({c} \cap live)]
              /\ loc' = [loc EXCEPT ![r].todo = @ \ {c}]
              /\ Proceed(r, "recat_sweep")
        BY <1>8 DEF RecatSweep
    <2>2. \A q \in Requests \ {r} : ({c} \cap live) \cap courseLocks[q] = {} BY <2>1
    <2>3. loc' = [loc EXCEPT ![r] = [loc[r] EXCEPT !.todo = loc[r].todo \ {c}]] BY <2>1
    <2>4. pc[r] = "recat_sweep" BY <1>8 DEF RecatSweep
    <2>5. pc[r] \notin After /\ LocksKnown(r)' /\ SeatsKnown(r)' BY <1>6, <2>1, <2>4
    <2> QED BY <1>4, <2>1, <2>2, <2>3, <2>5, ProceedKeeps
<1>9. CASE RecatCommit(r)
    <2>1. pc[r] \notin After BY <1>9 DEF RecatCommit, After
    <2>2. CASE CommitNothing(r, "recat_clear") BY <1>5, <2>1, <2>2, CommitNothingKeeps
    <2>3. CASE Refuse(r, 500) BY <2>1, <2>3, RefuseKeeps
    <2>4. CASE Commit(r, "recat_clear") /\ UNCHANGED <<dbVars, loc>>
        <3>1. \A e \in rows' : e.course \in live'
            BY <2>4 DEF TablesInv, ReferentialIntegrity, dbVars
        <3> QED BY <1>3, <1>5, <2>1, <2>4, <3>1, CommitKeeps DEF dbVars
    <2> QED BY <1>9, <2>2, <2>3, <2>4 DEF RecatCommit
<1>10. CASE RecatClear(r) BY <1>10, ReplyKeeps DEF RecatClear
<1> QED BY <1>7, <1>8, <1>9, <1>10 DEF RecatStep

\* A request arrives without locks.
LEMMA ArriveKeeps ==
    ASSUME TypeOK, SeatsInv, TablesInv, NEW r \in Requests, Arrive(r)
    PROVE  TablesInv'
<1>1. PICK j \in Jobs(KnownIds) : /\ j.op \in Ops
                                  /\ job' = [job EXCEPT ![r] = j]
                                  /\ pc' = [pc EXCEPT ![r] = Entry[j.op]]
    BY DEF Arrive
<1>2. pc[r] = "new" /\ UNCHANGED <<dbVars, lockVars, loc, endVars, committed>> BY DEF Arrive
<1> USE <1>2 DEF lockVars, endVars
<1>3. j.op \in AllOps BY <1>1, EnrollmentAssumption
<1>4. pc'[r] = Entry[j.op] BY <1>1 DEF TypeOK
<1>5. Isolated(r) BY <1>1 DEF TypeOK, Isolated, OthersKeep, SeatsInv
<1>6. pc[r] \notin After \cup Deleting BY DEF After, Deleting
<1>7. courseLocks'[r] = {} /\ rowLocks'[r] = {}
    BY <1>6 DEF SeatsInv, RequestInv, TablesInv, Known, LocksKnown
<1>8. pc'[r] # "done" /\ pc'[r] \notin Checked \cup Moving
    BY <1>3, <1>4 DEF AllOps, Entry, Checked, Moving
<1>9. LocksKnown(r)' /\ SeatsKnown(r)' BY <1>7, <1>8 DEF LocksKnown, SeatsKnown
<1>10. Settled(r)' BY <1>6, <1>8, NotYetCommitted DEF Settled
<1> QED BY <1>5, <1>9, <1>10, SteadyKeeps DEF Known

\* A request that has committed waits for nothing, so it is no victim of a deadlock.
LEMMA VictimKeeps ==
    ASSUME TypeOK, SeatsInv, TablesInv, NEW r \in Requests, DeadlockVictim(r)
    PROVE  TablesInv'
<1>1. PICK q \in Requests : WaitsFor(r, q) BY DEF DeadlockVictim, Unblocked
<1>2. pc[r] \notin After BY <1>1 DEF WaitsFor, WantedCourses, WantedRows, After
<1> QED BY <1>2, RefuseKeeps DEF DeadlockVictim

-----------------------------------------------------------------------------
(* The invariant.                                                          *)

\* The tables a process starts with obey their constraints.
LEMMA InitTables == Init => TablesInv
<1> SUFFICES ASSUME Init PROVE TablesInv
    OBVIOUS
<1> USE DEF Init
<1>1. ReferentialIntegrity BY EnrollmentAssumption DEF ReferentialIntegrity
<1>2. \A e \in rows : e.id < nextId BY EnrollmentAssumption
<1>3. Arrived = {} BY DEF Arrived
<1>4. IsFiniteSet(Arrived) BY <1>3, FS_EmptySet
<1>5. \A r \in Requests : Known(r)
    BY DEF Known, LocksKnown, SeatsKnown, Settled, Asking, Checked, Moving
<1> QED BY <1>1, <1>2, <1>4, <1>5 DEF TablesInv

\* So does every step.
LEMMA NextKeeps ==
    ASSUME TypeOK, SeatsInv, TablesInv, [Next]_vars
    PROVE  TablesInv'
<1>1. ASSUME NEW r \in Requests, Step(r) PROVE TablesInv'
    BY <1>1, EnrollKeeps, BulkKeeps, TransferKeeps, UnenrollKeeps, ProgressKeeps, CapKeeps,
       DeleteKeeps, RecatKeeps DEF Step
<1>2. CASE UNCHANGED vars
    <2> USE <1>2 DEF vars, dbVars, lockVars, endVars
    <2>1. ReferentialIntegrity' /\ Arrived' = Arrived
        BY DEF TablesInv, ReferentialIntegrity, Arrived
    <2>2. \A r \in Requests : Known(r)'
        BY DEF TablesInv, Known, LocksKnown, SeatsKnown, Settled, SeatSettled, Seated, RowsOf,
               Exists, RowIds, Applicants, LockOrder
    <2> QED BY <2>1, <2>2 DEF TablesInv
<1> QED BY <1>1, <1>2, ArriveKeeps, VictimKeeps DEF Next, AllAnswered

\* The tables obey their constraints, and requests know them and their locks, always.
THEOREM TablesInvariance == Spec => []TablesInv
<1>1. TypeOK /\ SeatsInv /\ TablesInv /\ [Next]_vars => TablesInv' BY NextKeeps
<1> QED BY InitTables, Invariance, <1>1, PTL DEF Spec

\* Every enrollment is of an existing course, and no student has two seats in one.
THEOREM TableConstraints == Spec => []ReferentialIntegrity
BY TablesInvariance, PTL DEF TablesInv

\* The unique constraint never has to refuse what the check let pass.
THEOREM ChecksHold == Spec => []InsertNeverCollides
<1>1. TypeOK /\ SeatsInv /\ TablesInv => InsertNeverCollides
    <2> SUFFICES ASSUME TablesInv, NEW r \in Requests,
                        pc[r] \in {"enroll_insert", "transfer_move", "bulk_insert"}
                 PROVE  Seated(IF job[r].op = "bulk" THEN job[r].ids ELSE {job[r].user},
                               job[r].course) = {}
        BY DEF InsertNeverCollides
    <2> QED BY DEF TablesInv, Known, SeatsKnown, Checked, Applicants
<1> QED BY <1>1, Invariance, TablesInvariance, PTL

\* A request answered by an error has no seat in the table.
THEOREM NoSeatAfterError == Spec => []ErrorLeavesNoSeat
<1>1. TypeOK /\ SeatsInv /\ TablesInv => ErrorLeavesNoSeat
    <2> SUFFICES ASSUME TypeOK, TablesInv, NEW r \in committed, answer[r].code >= 400
                 PROVE  /\ job[r].op \in {"enroll", "transfer"} => ~Exists(loc[r].row)
                        /\ job[r].op = "bulk" => RowsOf(job[r].course) = {}
        BY DEF ErrorLeavesNoSeat
    <2>1. Settled(r) BY DEF TypeOK, TablesInv, Known
    <2>2. \A e \in rows : e.course \in live BY DEF TablesInv, ReferentialIntegrity
    <2> QED BY <2>1, <2>2 DEF Settled, SeatSettled, RowsOf
<1> QED BY <1>1, Invariance, TablesInvariance, PTL

-----------------------------------------------------------------------------
(* A transfer leaves its source.                                           *)

\* The only step that makes a transfer a committed one is its INSERT.
LEMMA TransferCommits ==
    ASSUME TypeOK, SeatsInv, NEW r \in Requests, job[r].op = "transfer", [Next]_vars,
           r \in committed', r \notin committed
    PROVE  /\ pc[r] = "transfer_move"
           /\ LET gone == {e \in rows : e.id = loc[r].row}
              IN  rows' = (rows \ gone) \cup NewRows({job[r].user}, job[r].course)
<1> USE DEF Reply, Refuse, NotFound, Proceed, Read, CommitNothing, LockCourse, endVars
<1>1. PICK q \in Requests : Step(q)
    BY DEF Next, Arrive, DeadlockVictim, AllAnswered, vars
<1>2. JobFits(q) BY DEF SeatsInv, RequestInv
<1>3. CASE UnenrollStep(q) \/ ProgressStep(q) \/ CapStep(q)
    <2>1. pc[q] \in UnenrollLabels \cup ProgressLabels \cup CapLabels
        BY <1>3 DEF UnenrollStep, UnenrollRead, UnenrollDelete, UnenrollClear,
                    ProgressStep, ProgressRead, ProgressWrite, ProgressRefresh,
                    CapStep, CapRead, CapWrite, CapRefresh,
                    UnenrollLabels, ProgressLabels, CapLabels
    <2>2. job[q].op # "transfer"
        BY <1>2, <2>1 DEF JobFits, UnenrollJobs, ProgressJobs, CapJobs
    <2>3. committed' \subseteq committed \cup {q}
        BY <1>3 DEF UnenrollStep, UnenrollRead, UnenrollDelete, UnenrollClear,
                    ProgressStep, ProgressRead, ProgressWrite, ProgressRefresh,
                    CapStep, CapRead, CapWrite, CapRefresh, Commit
    <2> QED BY <2>2, <2>3
<1>4. CASE DeleteStep(q) \/ RecatStep(q)
    <2>1. pc[q] \in DeleteLabels \cup RecatLabels
        BY <1>4 DEF DeleteStep, DeleteRead, DeleteLoad, DeleteRows, DeleteCourse,
                    DeleteCascade, DeleteClear, RecatStep, RecatScan, RecatSweep,
                    RecatCommit, RecatClear, DeleteLabels, RecatLabels
    <2>2. job[q].op # "transfer" BY <1>2, <2>1 DEF JobFits, DeleteJobs, RecatJobs
    <2>3. committed' \subseteq committed \cup {q}
        BY <1>4 DEF DeleteStep, DeleteRead, DeleteLoad, DeleteRows, DeleteCourse,
                    DeleteCascade, DeleteClear, RecatStep, RecatScan, RecatSweep,
                    RecatCommit, RecatClear, Commit
    <2> QED BY <2>2, <2>3
<1>5. CASE EnrollStep(q) \/ BulkStep(q)
    <2>1. pc[q] \in EnrollLabels \cup BulkLabels
        BY <1>5 DEF EnrollStep, EnrollLock, EnrollCheck, EnrollCount, EnrollInsert,
                    EnrollRefresh, EnrollReload, BulkStep, BulkLock, BulkCount, BulkUsers,
                    BulkCheck, BulkInsert, BulkReload, EnrollLabels, BulkLabels
    <2>2. job[q].op # "transfer" BY <1>2, <2>1 DEF JobFits, EnrollJobs, BulkJobs
    <2>3. committed' \subseteq committed \cup {q}
        BY <1>5 DEF EnrollStep, EnrollLock, EnrollCheck, EnrollCount, EnrollInsert,
                    EnrollRefresh, EnrollReload, BulkStep, BulkLock, BulkCount, BulkUsers,
                    BulkCheck, BulkInsert, BulkReload, InsertAndCommit, Commit
    <2> QED BY <2>2, <2>3
<1>6. CASE TransferStep(q)
    <2>1. CASE TransferMove(q) /\ Commit(q, "transfer_reload")
        <3>1. q = r BY <2>1 DEF Commit
        <3> QED BY <2>1, <3>1 DEF TransferMove, InsertAndCommit, Commit
    <2>2. CASE ~(TransferMove(q) /\ Commit(q, "transfer_reload"))
        <3>1. committed' = committed
            BY <1>6, <2>2 DEF TransferStep, TransferLock1, TransferLock2, TransferFind,
                              TransferCheck, TransferCount, TransferMove, TransferReload,
                              InsertAndCommit
        <3> QED BY <3>1
    <2> QED BY <2>1, <2>2
<1> QED BY <1>1, <1>3, <1>4, <1>5, <1>6 DEF Step

\* When a transfer to another course commits, the student has the seat in the target
\* and none in the source.
THEOREM TransferLeaves == Spec => TransferLeavesSource
<1> DEFINE Left ==
        \A r \in Requests :
            (job[r].op = "transfer" /\ job[r].from # job[r].course
                                    /\ r \in committed' \ committed) =>
               /\ \E e \in rows' : e.user = job[r].user /\ e.course = job[r].course
               /\ ~\E e \in rows' : e.user = job[r].user /\ e.course = job[r].from
<1>1. TypeOK /\ SeatsInv /\ TablesInv /\ [Next]_vars => [Left]_vars
    <2> SUFFICES ASSUME TypeOK, SeatsInv, TablesInv, [Next]_vars, NEW r \in Requests,
                        job[r].op = "transfer", job[r].from # job[r].course,
                        r \in committed', r \notin committed
                 PROVE  /\ \E e \in rows' : e.user = job[r].user /\ e.course = job[r].course
                        /\ ~\E e \in rows' : e.user = job[r].user /\ e.course = job[r].from
        OBVIOUS
    <2> DEFINE gone == {e \in rows : e.id = loc[r].row}
               New == NewRows({job[r].user}, job[r].course)
    <2>1. pc[r] = "transfer_move" /\ rows' = (rows \ gone) \cup New BY TransferCommits
    <2>2. \A e \in Seated({job[r].user}, job[r].from) : e \in gone
        BY <2>1 DEF TablesInv, Known, SeatsKnown, Moving, Seated, RowsOf
    <2>3. \A e \in New : e.user = job[r].user /\ e.course = job[r].course BY DEF NewRows
    <2>4. New # {} BY DEF NewRows
    <2> HIDE DEF New, gone
    <2> QED BY <2>1, <2>2, <2>3, <2>4 DEF Seated, RowsOf
<1>2. Spec => [][Left]_vars BY Invariance, TablesInvariance, <1>1, PTL DEF Spec
<1> QED BY <1>2 DEF TransferLeavesSource

-----------------------------------------------------------------------------
(* Why the lock order prevents deadlocks.                                  *)

\* Among finitely many things one has the greatest key.
LEMMA HasGreatest ==
    ASSUME NEW Q, IsFiniteSet(Q), Q # {}, NEW key \in [Q -> Nat]
    PROVE  \E q \in Q : \A p \in Q : ~(key[q] < key[p])
<1> DEFINE Above(q) == {p \in Q : key[q] < key[p]}
           T == {Above(q) : q \in Q}
<1>1. T \subseteq FiniteSubsetsOf(Q)
    BY FS_FiniteSubsetsOfFinite
<1>2. PICK q \in Q : \A y \in T : <<y, Above(q)>> \notin StrictSubsetOrdering(Q)
    <2>1. T # {}
        <3>1. PICK q \in Q : TRUE OBVIOUS
        <3>2. Above(q) \in T OBVIOUS
        <3> QED BY <3>2
    <2>2. \E x \in T : \A y \in T : <<y, x>> \notin StrictSubsetOrdering(Q)
        BY <1>1, <2>1, FS_StrictSubsetOrderingWellFounded, WFMin
    <2> QED BY <2>2
<1>3. ASSUME NEW p \in Q, key[q] < key[p] PROVE FALSE
    <2>1. p \in Above(q) /\ p \notin Above(p) BY <1>3
    <2>2. Above(p) \subseteq Above(q)
        <3>1. \A x \in Q : key[p] < key[x] => key[q] < key[x]
            <4>1. \A x \in Q : key[x] \in Nat OBVIOUS
            <4> QED BY <1>3, <4>1
        <3> QED BY <3>1
    <2>3. <<Above(p), Above(q)>> \in StrictSubsetOrdering(Q)
        BY <2>1, <2>2 DEF StrictSubsetOrdering
    <2>4. Above(p) \in T OBVIOUS
    <2> QED BY <1>2, <2>3, <2>4
<1> QED BY <1>3

\* A request that is neither a deletion of a course nor a category update.
Orderly(r) == r \in Requests /\ job[r].op \notin {"delete_course", "recategorise"}

\* A transfer that has the first of its courses and asks for the second.
HalfWay(r) == pc[r] = "transfer_lock2" /\ LockOrder(job[r])[1] \in courseLocks[r]

\* Who makes an orderly request wait, and waits for a lock, is a transfer half way,
\* and what it holds is the course asked for.
LEMMA HolderIsHalfWay ==
    ASSUME TypeOK, SeatsInv, TablesInv, NEW r, NEW q, NEW p, Orderly(r), Orderly(q), Orderly(p),
           WaitsFor(r, q), WaitsFor(q, p)
    PROVE  HalfWay(q) /\ LockOrder(job[q])[1] \in WantedCourses(r)
<1>1. \A x : Orderly(x) => /\ rowLocks[x] = {}
                           /\ pc[x] \notin {"delete_course", "recat_sweep"}
    <2> SUFFICES ASSUME NEW x, Orderly(x)
                 PROVE  rowLocks[x] = {} /\ pc[x] \notin {"delete_course", "recat_sweep"}
        OBVIOUS
    <2>1. JobFits(x) /\ LocksKnown(x)
        BY DEF Orderly, SeatsInv, RequestInv, TablesInv, Known
    <2>2. pc[x] \notin DeleteLabels \cup RecatLabels
        BY <2>1 DEF Orderly, JobFits, DeleteJobs, RecatJobs
    <2> QED BY <2>1, <2>2 DEF LocksKnown, Deleting, DeleteLabels, RecatLabels
<1>2. /\ WantedCourses(r) \cap courseLocks[q] # {}
      /\ WantedCourses(q) \cap courseLocks[p] # {}
    BY <1>1 DEF WaitsFor
<1>3. pc[q] \in Asking \cup {"transfer_lock1", "transfer_lock2"}
    BY <1>1, <1>2 DEF WantedCourses, Asking
<1>4. /\ LocksKnown(q)
      /\ pc[q] = "transfer_lock1" => courseLocks[q] = {}
    BY DEF Orderly, TablesInv, Known, SeatsInv, RequestInv
<1>5. pc[q] = "transfer_lock2" /\ courseLocks[q] \subseteq {LockOrder(job[q])[1]}
    BY <1>2, <1>3, <1>4 DEF LocksKnown
<1> QED BY <1>2, <1>5 DEF HalfWay

\* A transfer half way asks for a greater course than the one it has.
LEMMA AsksForGreater ==
    ASSUME TypeOK, SeatsInv, NEW q \in Requests, NEW p \in Requests, HalfWay(q), HalfWay(p),
           q # p, LockOrder(job[p])[1] \in WantedCourses(q)
    PROVE  /\ LockOrder(job[q])[1] \in Nat /\ LockOrder(job[p])[1] \in Nat
           /\ LockOrder(job[q])[1] < LockOrder(job[p])[1]
<1>1. JobFits(q) /\ JobFits(p) BY DEF SeatsInv, RequestInv
<1>2. job[q] \in TransferJobs /\ job[p] \in TransferJobs
    BY <1>1 DEF HalfWay, JobFits, TransferLabels
<1>3. /\ job[q].from \in Nat /\ job[q].course \in Nat
      /\ job[p].from \in Nat /\ job[p].course \in Nat
    BY <1>2, EnrollmentAssumption DEF TransferJobs
<1>4. LockOrder(job[p])[1] = LockOrder(job[q])[2] BY DEF HalfWay, WantedCourses
<1>5. LockOrder(job[q])[1] # LockOrder(job[p])[1] BY DEF HalfWay, SeatsInv
<1>6. LockOrder(job[q])[1] <= LockOrder(job[q])[2] BY <1>3 DEF LockOrder
<1>7. LockOrder(job[q])[1] \in Nat /\ LockOrder(job[p])[1] \in Nat BY <1>3 DEF LockOrder
<1> QED BY <1>4, <1>5, <1>6, <1>7

\* In a deadlock without deletions and category updates some transfer would hold the
\* greatest course of all those held by transfers half way, and wait for a greater one.
LEMMA OrderlyNeverDeadlock ==
    ASSUME TypeOK, SeatsInv, TablesInv, NEW S, \A r \in S : Orderly(r), Deadlocked(S)
    PROVE  FALSE
<1> DEFINE Q == {q \in S : HalfWay(q)}
           key == [q \in Q |-> LockOrder(job[q])[1]]
<1>1. ASSUME NEW r \in S
      PROVE  \E q \in Q : q # r /\ LockOrder(job[q])[1] \in WantedCourses(r)
    <2>1. PICK q \in S : WaitsFor(r, q) BY DEF Deadlocked
    <2>2. PICK p \in S : WaitsFor(q, p) BY DEF Deadlocked
    <2> QED BY <2>1, <2>2, HolderIsHalfWay DEF WaitsFor
<1>2. Q # {} BY <1>1 DEF Deadlocked
<1>3. IsFiniteSet(Q)
    <2>1. Q \subseteq Arrived BY DEF Arrived, HalfWay, Orderly
    <2> QED BY <2>1, FS_Subset DEF TablesInv
<1>4. \A q \in Q : \E p \in Q : /\ LockOrder(job[q])[1] \in Nat
                                /\ LockOrder(job[q])[1] < LockOrder(job[p])[1]
    <2> TAKE q \in Q
    <2>1. PICK p \in Q : p # q /\ LockOrder(job[p])[1] \in WantedCourses(q) BY <1>1
    <2> QED BY <2>1, AsksForGreater DEF Orderly
<1>5. key \in [Q -> Nat] BY <1>4
<1>6. \A q \in Q : key[q] = LockOrder(job[q])[1] OBVIOUS
<1> HIDE DEF Q, key
<1> QED BY <1>2, <1>3, <1>4, <1>5, <1>6, HasGreatest

\* Enrollments, transfers, unenrollments and limit changes never deadlock.
THEOREM NoDeadlock == Spec => []NoDeadlockAmongEnrollers
<1>1. TypeOK /\ SeatsInv /\ TablesInv => NoDeadlockAmongEnrollers
    BY OrderlyNeverDeadlock DEF NoDeadlockAmongEnrollers, Orderly
<1> QED BY <1>1, Invariance, TablesInvariance, PTL
=============================================================================
