---------------------------- MODULE RequestPool ----------------------------
(***************************************************************************)
(* What a request needs to be served: worker threads and a connection.     *)
(*                                                                         *)
(* The functions of a request (get_db, the dependencies, the endpoint, the *)
(* validation of the response, then the background tasks) are called one   *)
(* after the other, each in one of the Threads of the server, which goes   *)
(* back after each call.  They share the session of get_db.  A session     *)
(* takes one of the PoolSize connections at the first statement of a       *)
(* transaction and gives it back at the end of the transaction, or when    *)
(* the session is closed: between two calls a request has no thread but    *)
(* keeps its connection.  Whoever waits too long for a connection gets an  *)
(* exception.                                                              *)
(***************************************************************************)
EXTENDS Naturals, Sequences, FiniteSets

CONSTANTS
    Requests,    \* the requests that arrive
    Kinds,       \* the endpoints they call
    Threads,     \* the worker threads
    PoolSize     \* pool_size + max_overflow

-----------------------------------------------------------------------------
(* The calls of an endpoint.  Of a call only this is kept: its statements, *)
(* where several in one transaction are as good as one, and its COMMITs.   *)

get_db                   == <<>>
get_current_user         == <<"sql">>
get_current_active_admin == <<"sql">>
Query                    == <<"sql">>
Delete                   == <<"sql", "commit">>
Change                   == <<"sql", "commit", "sql">>
ChangePassword           == <<"commit", "sql">>
Respond                  == <<>>
SendMail                 == <<>>
SyncProfile              == <<"sql">>
LogFailedTask            == <<"sql", "commit">>

Calls == [
    get_course        |-> <<get_db, Query, Respond>>,
    me                |-> <<get_db, get_current_user, <<>>, Respond>>,
    update_course     |-> <<get_db, Change, Respond>>,
    delete_course     |-> <<get_db, Delete>>,
    deactivate_user   |-> <<get_db, get_current_user, get_current_active_admin, Change, Respond>>,
    enroll_in_course  |-> <<get_db, get_current_user, Change>>,
    concurrent_enroll |-> <<get_db, Change, Respond>>,
    change_password   |-> <<get_db, get_current_user, ChangePassword>>,
    upload_avatar     |-> <<get_db, get_current_user, Change, Respond>>]

\* The tasks; those of concurrent_enroll fail for good and are recorded.
Tasks == [k \in DOMAIN Calls |->
             CASE k \in {"enroll_in_course", "change_password"} -> <<SendMail>>
               [] k = "upload_avatar" -> <<SyncProfile>>
               [] k = "concurrent_enroll" -> <<LogFailedTask, LogFailedTask>>
               [] OTHER -> <<>>]

ASSUME PoolAssumption == /\ IsFiniteSet(Requests)
                         /\ Kinds # {} /\ Kinds \subseteq DOMAIN Calls
                         /\ Threads \in Nat \ {0} /\ PoolSize \in Nat \ {0}

VARIABLES
    stage,      \* how far each request is: new, open, closing or done
    kind,       \* the endpoint it calls
    call,       \* the number of the call it is at
    at,         \* the number of the statement in this call
    running,    \* the requests that have a thread
    connected,  \* the requests whose session has a connection
    answer,     \* the status code of each response, 0: none
    held,       \* history: the requests that have had a connection
    committed,  \* history: the requests that have executed a COMMIT
    crowded     \* history: whether there were more open requests than connections

vars == <<stage, kind, call, at, running, connected, answer, held, committed, crowded>>

-----------------------------------------------------------------------------

InTask(r)     == call[r] > Len(Calls[kind[r]])
Statements(r) == IF InTask(r) THEN Tasks[kind[r]][call[r] - Len(Calls[kind[r]])]
                 ELSE Calls[kind[r]][call[r]]
LastCall(r)   == Len(Calls[kind[r]]) + Len(Tasks[kind[r]])

Open == {r \in Requests : stage[r] \in {"open", "closing"}}

Arrive(r) ==
    /\ stage[r] = "new"
    /\ \E k \in Kinds : kind' = [kind EXCEPT ![r] = k]
    /\ stage' = [stage EXCEPT ![r] = "open"]
    /\ crowded' = (crowded \/ Cardinality(Open \cup {r}) > PoolSize)
    /\ UNCHANGED <<call, at, running, connected, answer, held, committed>>

TakeThread(r) ==
    /\ stage[r] = "open" /\ r \notin running
    /\ Cardinality(running) < Threads
    /\ running' = running \cup {r}
    /\ UNCHANGED <<stage, kind, call, at, connected, answer, held, committed, crowded>>

\* The next statement of a running request.
AtStatement(r, s) == /\ r \in running
                     /\ at[r] <= Len(Statements(r))
                     /\ Statements(r)[at[r]] = s

PoolIsFull == Cardinality(connected) >= PoolSize

Execute(r) ==
    /\ AtStatement(r, "sql")
    /\ r \in connected \/ ~PoolIsFull
    /\ connected' = connected \cup {r}
    /\ held' = held \cup {r}
    /\ at' = [at EXCEPT ![r] = @ + 1]
    /\ UNCHANGED <<stage, kind, call, running, answer, committed, crowded>>

\* COMMIT; a session without a transaction has nothing to do.
Commit(r) ==
    /\ AtStatement(r, "commit")
    /\ connected' = connected \ {r}
    /\ committed' = committed \cup {r}
    /\ at' = [at EXCEPT ![r] = @ + 1]
    /\ UNCHANGED <<stage, kind, call, running, answer, held, crowded>>

\* A call raises: its thread is free, no task runs, the session is closed next.
\* Some methods roll their transaction back before they raise.
Raise(r, code) ==
    /\ \E c \in {connected, connected \ {r}} : connected' = c
    /\ running' = running \ {r}
    /\ answer' = [answer EXCEPT ![r] = code]
    /\ stage' = [stage EXCEPT ![r] = "closing"]
    /\ UNCHANGED <<kind, call, at, held, committed, crowded>>

\* What the statement has found is refused, with a 401, 403, 404, 409 or 422.
Refuse(r) ==
    /\ r \in running /\ ~InTask(r) /\ Statements(r) # <<>>
    /\ r \in held \ committed
    /\ Raise(r, 400)

\* Mutation: a thread waits for a connection until it gets one.
WaitForever(r) == FALSE /\ Raise(r, 500)

\* pool_timeout is over.  execute_with_retry catches the exception; that it tries again
\* is in the module Tasks.
PoolTimeout(r) ==
    /\ AtStatement(r, "sql")
    /\ r \notin connected /\ PoolIsFull
    /\ \/ ~InTask(r) /\ Raise(r, 500)
       \/ /\ InTask(r)
          /\ at' = [at EXCEPT ![r] = @ + 1]
          /\ UNCHANGED <<stage, kind, call, running, connected, answer, held, committed, crowded>>

\* Mutation: each call has a session of its own.
EndCallAndSession(r) ==
    /\ r \in running
    /\ at[r] > Len(Statements(r))
    /\ running' = running \ {r}
    /\ connected' = connected \ {r}
    /\ call' = [call EXCEPT ![r] = @ + 1]
    /\ at' = [at EXCEPT ![r] = 1]
    /\ answer' = [answer EXCEPT ![r] = IF call[r] = Len(Calls[kind[r]]) THEN 200 ELSE @]
    /\ stage' = [stage EXCEPT ![r] = IF call[r] = LastCall(r) THEN "closing" ELSE @]
    /\ UNCHANGED <<kind, held, committed, crowded>>

\* A call returns.  The response is sent after the last one, the tasks come then.
EndCall(r) ==
    /\ r \in running
    /\ at[r] > Len(Statements(r))
    /\ running' = running \ {r}
    /\ call' = [call EXCEPT ![r] = @ + 1]
    /\ at' = [at EXCEPT ![r] = 1]
    /\ answer' = [answer EXCEPT ![r] = IF call[r] = Len(Calls[kind[r]]) THEN 200 ELSE @]
    /\ stage' = [stage EXCEPT ![r] = IF call[r] = LastCall(r) THEN "closing" ELSE @]
    /\ UNCHANGED <<kind, connected, held, committed, crowded>>

\* Mutation: the session is left to the garbage collector.
Abandon(r) ==
    /\ stage[r] = "closing"
    /\ stage' = [stage EXCEPT ![r] = "done"]
    /\ UNCHANGED <<kind, call, at, running, connected, answer, held, committed, crowded>>

\* db.close(), which needs none of the worker threads.
Close(r) ==
    /\ stage[r] = "closing"
    /\ stage' = [stage EXCEPT ![r] = "done"]
    /\ connected' = connected \ {r}
    /\ UNCHANGED <<kind, call, at, running, answer, held, committed, crowded>>

Step(r) == \/ TakeThread(r) \/ Execute(r) \/ Commit(r) \/ Refuse(r)
           \/ PoolTimeout(r) \/ EndCall(r) \/ Close(r)

AllDone == (\A r \in Requests : stage[r] = "done") /\ UNCHANGED vars

Init == /\ stage = [r \in Requests |-> "new"]
        /\ kind \in [Requests -> {CHOOSE k \in Kinds : TRUE}]
        /\ call = [r \in Requests |-> 1]
        /\ at = [r \in Requests |-> 1]
        /\ running = {}
        /\ connected = {}
        /\ answer = [r \in Requests |-> 0]
        /\ held = {}
        /\ committed = {}
        /\ crowded = FALSE

Next == (\E r \in Requests : Arrive(r) \/ Step(r)) \/ AllDone

Spec == Init /\ [][Next]_vars

\* The threads run, and no wait for a connection lasts longer than pool_timeout.
Fairness == \A r \in Requests : WF_vars(Step(r))

FairSpec == Spec /\ Fairness

-----------------------------------------------------------------------------
(* Properties                                                              *)

\* The types of the variables, and the limits: only open requests have threads
\* and connections, and never more than there are.
TypeOK ==
    /\ stage \in [Requests -> {"new", "open", "closing", "done"}]
    /\ kind \in [Requests -> DOMAIN Calls]
    /\ call \in [Requests -> Nat \ {0}] /\ at \in [Requests -> Nat \ {0}]
    /\ running \subseteq {r \in Requests : stage[r] = "open"}
    /\ connected \subseteq Open
    /\ Cardinality(running) <= Threads /\ Cardinality(connected) <= PoolSize
    /\ answer \in [Requests -> {0, 200, 400, 500}]
    /\ held \subseteq Requests /\ committed \subseteq Requests
    /\ crowded \in BOOLEAN

\* As long as there were never more requests in progress than connections, nobody is
\* refused for want of a connection, however many have come before: each one gives its
\* connection back, on every path.
EnoughForAll == ~crowded => \A r \in Requests : answer[r] # 500

\* A request that has a connection keeps it until its transaction ends: when a request
\* that has authenticated its user fails for want of a connection, it has committed.
ServedOnceConnected ==
    \A r \in Requests : (r \in held /\ answer[r] = 500) => r \in committed

\* Everybody is answered, and the session closed after the tasks, although all the
\* threads may wait for connections that are held by requests which wait for a thread.
EveryoneFinishes == \A r \in Requests : (stage[r] # "new") ~> (stage[r] = "done")
=============================================================================
