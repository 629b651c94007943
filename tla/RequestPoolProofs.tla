------------------------- MODULE RequestPoolProofs -------------------------
(***************************************************************************)
(* The invariants of RequestPool, for any number of requests, threads and  *)
(* connections, and any of the endpoints.                                  *)
(***************************************************************************)
EXTENDS RequestPool, FiniteSetTheorems, TLAPS

\* Without a crowd there is a connection for each open request.
RoomForAll == ~crowded => Cardinality(Open) <= PoolSize

\* A failure is final: it is the answer of a request that is being closed.
FailedIsOver == \A r \in Requests : answer[r] = 500 => stage[r] \in {"closing", "done"}

\* Who has had a connection and has not committed still has it.
KeepsConnection ==
    \A r \in held : /\ stage[r] # "new"
                    /\ stage[r] = "open" => r \in connected \cup committed

IInv == TypeOK /\ RoomForAll /\ EnoughForAll
               /\ FailedIsOver /\ KeepsConnection /\ ServedOnceConnected

USE PoolAssumption DEF PoolAssumption

-----------------------------------------------------------------------------

\* Every set of requests is finite, so that it can be counted.
LEMMA RequestsCounted ==
    ASSUME NEW S \in SUBSET Requests
    PROVE  IsFiniteSet(S) /\ Cardinality(S) \in Nat
  BY FS_Subset, FS_CardinalityType

\* A smaller set of requests has no more members.
LEMMA FewerRequests ==
    ASSUME NEW S \in SUBSET Requests, NEW T \in SUBSET S
    PROVE  Cardinality(T) <= Cardinality(S)
  BY RequestsCounted, FS_Subset

\* One more request is one more member.
LEMMA OneMoreRequest ==
    ASSUME NEW S \in SUBSET Requests, NEW r \in Requests
    PROVE  Cardinality(S \cup {r}) = IF r \in S THEN Cardinality(S) ELSE Cardinality(S) + 1
  BY RequestsCounted, FS_AddElement

-----------------------------------------------------------------------------

\* Before the first request nothing is taken.
LEMMA InitInv == Init => IInv
<1> SUFFICES ASSUME Init PROVE IInv
  OBVIOUS
<1>1. Open = {}
  BY DEF Init, Open
<1>2. Cardinality({}) = 0
  BY FS_EmptySet
<1>3. TypeOK
  <2>1. (CHOOSE k \in Kinds : TRUE) \in DOMAIN Calls
    OBVIOUS
  <2>2. kind \in [Requests -> DOMAIN Calls]
    BY <2>1 DEF Init
  <2>3. crowded \in BOOLEAN
    BY DEF Init
  <2>4. /\ stage \in [Requests -> {"new", "open", "closing", "done"}]
        /\ call \in [Requests -> Nat \ {0}] /\ at \in [Requests -> Nat \ {0}]
        /\ answer \in [Requests -> {0, 200, 400, 500}]
    BY DEF Init
  <2>5. running = {} /\ connected = {} /\ held = {} /\ committed = {}
    BY DEF Init
  <2> QED
    BY <1>1, <1>2, <2>2, <2>3, <2>4, <2>5 DEF TypeOK
<1>4. RoomForAll /\ EnoughForAll /\ FailedIsOver /\ KeepsConnection /\ ServedOnceConnected
  BY <1>1, <1>2 DEF Init, RoomForAll, EnoughForAll, FailedIsOver, KeepsConnection,
                    ServedOnceConnected
<1> QED
  BY <1>3, <1>4 DEF IInv

\* A request that arrives takes nothing yet.
LEMMA ArriveInv ==
    ASSUME IInv, NEW r \in Requests, Arrive(r)
    PROVE  IInv'
<1> USE DEF IInv, Arrive
<1>1. Open' = Open \cup {r}
  BY DEF Open, TypeOK
<1>2. TypeOK'
  BY <1>1 DEF TypeOK
<1>3. RoomForAll'
  <2> SUFFICES ASSUME ~crowded' PROVE Cardinality(Open') <= PoolSize
    BY DEF RoomForAll
  <2>1. Cardinality(Open \cup {r}) \in Nat
    BY RequestsCounted DEF Open
  <2>2. ~(Cardinality(Open \cup {r}) > PoolSize)
    OBVIOUS
  <2> QED
    BY <1>1, <2>1, <2>2
<1>4. EnoughForAll' /\ FailedIsOver' /\ KeepsConnection' /\ ServedOnceConnected'
  BY DEF TypeOK, EnoughForAll, FailedIsOver, KeepsConnection, ServedOnceConnected
<1> QED
  BY <1>2, <1>3, <1>4

\* A call takes a thread that is free.
LEMMA TakeThreadInv ==
    ASSUME IInv, NEW r \in Requests, TakeThread(r)
    PROVE  IInv'
<1> USE DEF IInv, TakeThread
<1>1. Open' = Open
  BY DEF Open
<1>2. Cardinality(running') <= Threads
  <2>1. running \in SUBSET Requests
    BY DEF TypeOK
  <2> QED
    BY <2>1, OneMoreRequest, RequestsCounted
<1>3. TypeOK'
  BY <1>1, <1>2 DEF TypeOK
<1>4. RoomForAll' /\ EnoughForAll' /\ FailedIsOver' /\ KeepsConnection' /\ ServedOnceConnected'
  BY <1>1 DEF RoomForAll, EnoughForAll, FailedIsOver, KeepsConnection, ServedOnceConnected
<1> QED
  BY <1>3, <1>4

\* A statement takes a connection, if the request has none.
LEMMA ExecuteInv ==
    ASSUME IInv, NEW r \in Requests, Execute(r)
    PROVE  IInv'
<1> USE DEF IInv, Execute
<1>1. Open' = Open /\ r \in Open /\ stage[r] = "open"
  BY DEF Open, TypeOK, AtStatement
<1>2. Cardinality(connected') <= PoolSize
  <2>1. connected \in SUBSET Requests
    BY DEF TypeOK, Open
  <2> QED
    BY <2>1, OneMoreRequest, RequestsCounted DEF TypeOK, PoolIsFull
<1>3. TypeOK'
  BY <1>1, <1>2 DEF TypeOK
<1>4. RoomForAll' /\ EnoughForAll' /\ FailedIsOver' /\ KeepsConnection' /\ ServedOnceConnected'
  BY <1>1 DEF TypeOK, RoomForAll, EnoughForAll, FailedIsOver, KeepsConnection,
              ServedOnceConnected
<1> QED
  BY <1>3, <1>4

\* A COMMIT gives the connection back.
LEMMA CommitInv ==
    ASSUME IInv, NEW r \in Requests, Commit(r)
    PROVE  IInv'
<1> USE DEF IInv, Commit
<1>1. Open' = Open
  BY DEF Open
<1>2. Cardinality(connected') <= PoolSize
  <2>1. connected \in SUBSET Requests
    BY DEF TypeOK, Open
  <2> QED
    BY <2>1, FewerRequests, RequestsCounted DEF TypeOK
<1>3. TypeOK'
  BY <1>1, <1>2 DEF TypeOK
<1>4. RoomForAll' /\ EnoughForAll' /\ FailedIsOver' /\ KeepsConnection' /\ ServedOnceConnected'
  BY <1>1 DEF TypeOK, RoomForAll, EnoughForAll, FailedIsOver, KeepsConnection,
              ServedOnceConnected
<1> QED
  BY <1>3, <1>4

\* What a running request leaves behind when it raises; a 500 is for those who
\* have met a full pool.
LEMMA RaiseInv ==
    ASSUME IInv, NEW r \in running, NEW code \in {400, 500}, Raise(r, code),
           code = 500 => crowded /\ (r \in held => r \in committed)
    PROVE  IInv'
<1> USE DEF IInv, Raise
<1>1. r \in Requests /\ stage[r] = "open"
  BY DEF TypeOK
<1>2. Open' = Open /\ connected' \subseteq connected /\ running' \subseteq running
  BY <1>1 DEF Open, TypeOK
<1>3. Cardinality(connected') <= PoolSize /\ Cardinality(running') <= Threads
  <2>1. connected \in SUBSET Requests /\ running \in SUBSET Requests
    BY DEF TypeOK, Open
  <2> QED
    BY <1>2, <2>1, FewerRequests, RequestsCounted DEF TypeOK
<1>4. TypeOK'
  BY <1>1, <1>2, <1>3 DEF TypeOK
<1>5. RoomForAll' /\ EnoughForAll'
  BY <1>1, <1>2 DEF TypeOK, RoomForAll, EnoughForAll
<1>6. FailedIsOver' /\ KeepsConnection' /\ ServedOnceConnected'
  BY <1>1 DEF TypeOK, FailedIsOver, KeepsConnection, ServedOnceConnected
<1> QED
  BY <1>4, <1>5, <1>6

\* An exception ends the request's calls.
LEMMA RefuseInv ==
    ASSUME IInv, NEW r \in Requests, Refuse(r)
    PROVE  IInv'
  BY RaiseInv DEF Refuse

\* Only a crowd fills the pool: the request that finds it full is open as well.
LEMMA PoolTimeoutInv ==
    ASSUME IInv, NEW r \in Requests, PoolTimeout(r)
    PROVE  IInv'
<1>1. r \in running /\ r \notin connected /\ PoolIsFull
  BY DEF PoolTimeout, AtStatement
<1>2. TypeOK /\ stage[r] = "open" /\ r \in Open
  BY <1>1 DEF IInv, TypeOK, Open
<1>3. crowded
  <2> SUFFICES ASSUME ~crowded PROVE FALSE
    OBVIOUS
  <2>1. connected \in SUBSET Requests /\ Open \in SUBSET Requests
    BY <1>2 DEF TypeOK, Open
  <2>2. connected \cup {r} \in SUBSET Open
    BY <1>2 DEF TypeOK
  <2>3. Cardinality(connected) + 1 <= Cardinality(Open)
    <3>1. Cardinality(connected \cup {r}) = Cardinality(connected) + 1
      BY <1>1, <2>1, OneMoreRequest
    <3>2. Cardinality(connected \cup {r}) <= Cardinality(Open)
      BY <2>1, <2>2, FewerRequests
    <3> QED
      BY <3>1, <3>2
  <2>4. Cardinality(connected) >= PoolSize /\ Cardinality(Open) <= PoolSize
    BY <1>1 DEF PoolIsFull, IInv, RoomForAll
  <2>5. Cardinality(connected) \in Nat /\ Cardinality(Open) \in Nat
    BY <2>1, RequestsCounted
  <2> QED
    BY <2>3, <2>4, <2>5
<1>4. r \in held => r \in committed
  BY <1>1, <1>2 DEF IInv, KeepsConnection
<1>5. CASE ~InTask(r) /\ Raise(r, 500)
  BY <1>1, <1>3, <1>4, <1>5, RaiseInv
<1>6. CASE /\ at' = [at EXCEPT ![r] = @ + 1]
           /\ UNCHANGED <<stage, kind, call, running, connected, answer, held, committed, crowded>>
  <2>1. Open' = Open
    BY <1>6 DEF Open
  <2>2. TypeOK'
    BY <1>2, <1>6, <2>1 DEF TypeOK
  <2>3. RoomForAll' /\ EnoughForAll' /\ FailedIsOver' /\ KeepsConnection' /\ ServedOnceConnected'
    BY <1>6, <2>1 DEF IInv, RoomForAll, EnoughForAll, FailedIsOver, KeepsConnection,
                      ServedOnceConnected
  <2> QED
    BY <2>2, <2>3 DEF IInv
<1> QED
  BY <1>5, <1>6 DEF PoolTimeout

\* A call that ends gives its thread back.
LEMMA EndCallInv ==
    ASSUME IInv, NEW r \in Requests, EndCall(r)
    PROVE  IInv'
<1> USE DEF IInv, EndCall
<1>1. stage[r] = "open"
  BY DEF TypeOK
<1>2. Open' = Open
  BY <1>1 DEF Open, TypeOK
<1>3. Cardinality(running') <= Threads
  <2>1. running \in SUBSET Requests /\ running' \in SUBSET running
    BY DEF TypeOK
  <2>2. Cardinality(running') <= Cardinality(running)
    BY <2>1, FewerRequests
  <2>3. Cardinality(running') \in Nat /\ Cardinality(running) \in Nat
    BY <2>1, RequestsCounted
  <2> QED
    BY <2>2, <2>3 DEF TypeOK
<1>4. TypeOK'
  <2>1. stage' \in [Requests -> {"new", "open", "closing", "done"}]
    BY DEF TypeOK
  <2>2. call' \in [Requests -> Nat \ {0}] /\ at' \in [Requests -> Nat \ {0}]
    BY DEF TypeOK
  <2>3. answer' \in [Requests -> {0, 200, 400, 500}]
    BY DEF TypeOK
  <2>4. running' \subseteq {q \in Requests : stage'[q] = "open"}
    BY DEF TypeOK
  <2> QED
    BY <1>2, <1>3, <2>1, <2>2, <2>3, <2>4 DEF TypeOK
<1>5. RoomForAll' /\ EnoughForAll'
  BY <1>2 DEF TypeOK, RoomForAll, EnoughForAll
<1>6. FailedIsOver' /\ KeepsConnection' /\ ServedOnceConnected'
  BY <1>1 DEF TypeOK, FailedIsOver, KeepsConnection, ServedOnceConnected
<1> QED
  BY <1>4, <1>5, <1>6

\* The exit of get_db gives back what the request still has.
LEMMA CloseInv ==
    ASSUME IInv, NEW r \in Requests, Close(r)
    PROVE  IInv'
<1> USE DEF IInv, Close
<1>1. Open' = Open \ {r} /\ Open \in SUBSET Requests /\ connected \in SUBSET Requests
  BY DEF Open, TypeOK
<1>2. Cardinality(connected') <= PoolSize
  BY <1>1, FewerRequests, RequestsCounted DEF TypeOK
<1>3. TypeOK'
  BY <1>1, <1>2 DEF TypeOK
<1>4. RoomForAll'
  BY <1>1, FewerRequests, RequestsCounted DEF RoomForAll
<1>5. EnoughForAll' /\ FailedIsOver' /\ KeepsConnection' /\ ServedOnceConnected'
  BY DEF TypeOK, EnoughForAll, FailedIsOver, KeepsConnection, ServedOnceConnected
<1> QED
  BY <1>3, <1>4, <1>5

\* Where nothing changes the invariant stays.
LEMMA StutterInv == IInv /\ UNCHANGED vars => IInv'
  BY DEF vars, IInv, TypeOK, Open, RoomForAll, EnoughForAll, FailedIsOver, KeepsConnection,
         ServedOnceConnected

\* Every step keeps the invariant.
LEMMA NextInv == IInv /\ [Next]_vars => IInv'
  BY ArriveInv, TakeThreadInv, ExecuteInv, CommitInv, RefuseInv, PoolTimeoutInv, EndCallInv,
     CloseInv, StutterInv DEF Next, Step, AllDone

\* So it holds always.
LEMMA Invariance == Spec => []IInv
  BY InitInv, NextInv, PTL DEF Spec

-----------------------------------------------------------------------------

\* The threads and the connections are never more than there are, and only requests in
\* progress have any.
THEOREM TypeCorrect == Spec => []TypeOK
  BY Invariance, PTL DEF IInv

\* No request is refused for want of a connection while there were never more requests
\* than connections: no path of get_db loses one.
THEOREM NothingLeaks == Spec => []EnoughForAll
  BY Invariance, PTL DEF IInv

\* A request that has a connection finds it again for each statement of its transaction,
\* whatever the other requests do between its calls.
THEOREM TransactionsFinish == Spec => []ServedOnceConnected
  BY Invariance, PTL DEF IInv
=============================================================================
