----------------------------- MODULE SeatLedger -----------------------------
(***************************************************************************)
(* What the enrollment endpoints promise, apart from how they keep the     *)
(* promise: a ledger of the seats students hold in the courses on offer.   *)
(* Every entry of the ledger is one atomic change.  No locks, no           *)
(* transactions, no request in progress can be seen here.                  *)
(***************************************************************************)
EXTENDS Integers, FiniteSets

CONSTANTS Users,    \* the students
          Courses,  \* the ids a course may have
          Caps      \* the values max_students may take

VARIABLES open,     \* the courses on offer
          limit,    \* the number of students each course admits
          seats     \* the pairs [user, course] that hold a seat

vars == <<open, limit, seats>>

Taken(c) == {s \in seats : s.course = c}

Seats(S, c) == {[user |-> u, course |-> c] : u \in S}

Init == /\ open \subseteq Courses
        /\ limit \in [Courses -> Caps]
        /\ seats \subseteq [user : Users, course : open]

\* The students S, none of whom is in the course c, all get a seat in c, or none
\* of them does: together they fit.
Enrol(c, S) ==
    /\ c \in open
    /\ Seats(S, c) \cap seats = {}
    /\ Cardinality(Taken(c)) + Cardinality(S) <= limit[c]
    /\ seats' = seats \cup Seats(S, c)
    /\ UNCHANGED <<open, limit>>

\* The student u gets a seat in b, in which there is room, and has none in a
\* afterwards.
Move(u, a, b) ==
    /\ {a, b} \subseteq open /\ a # b
    /\ Seats({u}, b) \cap seats = {}
    /\ Cardinality(Taken(b)) + 1 <= limit[b]
    /\ seats' = (seats \ Seats({u}, a)) \cup Seats({u}, b)
    /\ UNCHANGED <<open, limit>>

Leave(u, c) == /\ seats' = seats \ Seats({u}, c)
               /\ UNCHANGED <<open, limit>>

\* The limit may be set below the number of seats taken: nobody is expelled.
SetLimit(c, k) == /\ c \in open
                  /\ limit' = [limit EXCEPT ![c] = k]
                  /\ UNCHANGED <<open, seats>>

\* A course that is closed takes its seats with it.
Close(c) == /\ open' = open \ {c}
            /\ seats' = seats \ Taken(c)
            /\ UNCHANGED limit

Next == \/ \E c \in Courses :
             \/ \E S \in SUBSET Users : Enrol(c, S)
             \/ \E u \in Users : Leave(u, c)
             \/ \E k \in Caps : SetLimit(c, k)
             \/ Close(c)
        \/ \E u \in Users, a \in Courses, b \in Courses : Move(u, a, b)

Spec == Init /\ [][Next]_vars
=============================================================================
