-------------------------------- MODULE Tasks --------------------------------
(***************************************************************************)
(* The work requests leave for after their response: the confirmation      *)
(* mails of registrations and enrollments and the profile task of an       *)
(* avatar.  Starlette runs the tasks of a request one after the other,     *)
(* each through BackgroundTaskManager.execute_with_retry, with the         *)
(* database session of the request.  What has failed for good goes into    *)
(* the table failed_tasks, which AdminService reads and clears.            *)
(***************************************************************************)
EXTENDS Naturals, Sequences

CONSTANTS
    Requests,    \* the requests that queue tasks
    Admins,      \* the threads that serve DELETE /admin/failed-tasks/{id}
    Queues,      \* the lists of tasks a request may queue, each task a member of Kinds
    Longest,     \* bound: no request queues more tasks
    MaxRetries,  \* max_retries: no caller gives another than the default, 3
    DbFails,     \* whether the database may be away for a while
    Crashes      \* whether the process of a request may die

\* A mail; one the email package refuses to write, which send_email does not catch;
\* _sync_task_profile_updated, which reads the user before it sends a mail.
Kinds == {"mail", "unsendable", "sync"}

ASSUME TasksAssumption ==
    /\ Longest \in Nat
    /\ Queues \subseteq {q \in Seq(Kinds) : Len(q) \in 1 .. Longest}
    /\ MaxRetries \in Nat \ {0}
    /\ DbFails \in BOOLEAN /\ Crashes \in BOOLEAN

VARIABLES
    dbUp,     \* whether PostgreSQL answers
    queue,    \* the tasks of each request
    at,       \* the number of the task each request runs
    attempt,  \* its attempt
    pc,       \* what the thread of each request does next
    broken,   \* whether its session waits for a rollback nobody asks for
    records,  \* the table failed_tasks
    nextId,   \* its id sequence
    target,   \* the id of the record each admin thread has found, 0: none
    raised,   \* history: the attempts of each task that raised
    mails,    \* history: the mails each task has sent
    removed   \* history: the tasks whose record an admin has removed

dbVars   == <<dbUp, records, nextId, target, removed>>
taskVars == <<queue, at, attempt, pc, broken, raised, mails>>
vars     == <<dbVars, taskVars>>

TaskOf(r) == <<r, at[r]>>
KindOf(r) == queue[r][at[r]]

Tasks == Requests \X (1 .. Longest)

-----------------------------------------------------------------------------
(* A request.                                                              *)

\* The request has committed and is answered.
Arrive(r) ==
    /\ pc[r] = "new"
    /\ \E q \in Queues : queue' = [queue EXCEPT ![r] = q]
    /\ pc' = [pc EXCEPT ![r] = "try"]
    /\ UNCHANGED <<dbVars, at, attempt, broken, raised, mails>>

\* The task is over, one way or the other: the next one starts afresh.
NextTask(r) ==
    /\ at' = [at EXCEPT ![r] = @ + 1]
    /\ attempt' = [attempt EXCEPT ![r] = 1]
    /\ pc' = [pc EXCEPT ![r] = IF at[r] < Len(queue[r]) THEN "try" ELSE "done"]
    /\ UNCHANGED queue

\* A statement fails when the database is away.  If it was sent over a connection
\* of the session, every other one fails too until the session is rolled back.
StatementFails(r) == broken[r] \/ ~dbUp

Raises(r) == KindOf(r) = "unsendable" \/ (KindOf(r) = "sync" /\ StatementFails(r))

\* One more attempt has raised; the last one is recorded.
Fail(r, last) ==
    /\ pc[r] = "try" /\ Raises(r)
    /\ raised' = [raised EXCEPT ![TaskOf(r)] = @ + 1]
    /\ \/ UNCHANGED broken
       \/ KindOf(r) = "sync" /\ broken' = [broken EXCEPT ![r] = TRUE]
    /\ pc' = [pc EXCEPT ![r] = IF last THEN "record" ELSE "sleep"]
    /\ UNCHANGED <<dbVars, queue, at, attempt, mails>>

\* Mutation: one attempt too few.
AttemptRaisesEarly(r) == Fail(r, attempt[r] + 1 >= MaxRetries)

\* Mutation: one attempt too many.
AttemptRaisesLate(r) == Fail(r, attempt[r] > MaxRetries)

\* Nobody rolls the session back.
AttemptRaises(r) == Fail(r, attempt[r] = MaxRetries)

Sent(r, sent) == mails' = [mails EXCEPT ![TaskOf(r)] = IF sent THEN @ + 1 ELSE @]

\* Mutation: a mail that was not sent, or whose SMTP session ended in an error
\* after it was sent, raises.
AttemptEndsOrRaises(r) ==
    /\ pc[r] = "try" /\ ~Raises(r)
    /\ \E sent \in BOOLEAN : Sent(r, sent)
    /\ \/ NextTask(r) /\ UNCHANGED raised
       \/ /\ raised' = [raised EXCEPT ![TaskOf(r)] = @ + 1]
          /\ pc' = [pc EXCEPT ![r] = IF attempt[r] = MaxRetries THEN "record" ELSE "sleep"]
          /\ UNCHANGED <<queue, at, attempt>>
    /\ UNCHANGED <<dbVars, broken>>

\* The mail is sent or not: send_email returns the outcome, which the tasks ignore.
AttemptEnds(r) ==
    /\ pc[r] = "try" /\ ~Raises(r)
    /\ \E sent \in BOOLEAN : Sent(r, sent)
    /\ NextTask(r)
    /\ UNCHANGED <<dbVars, broken, raised>>

\* The backoff is over.
Retry(r) ==
    /\ pc[r] = "sleep"
    /\ attempt' = [attempt EXCEPT ![r] = @ + 1]
    /\ pc' = [pc EXCEPT ![r] = "try"]
    /\ UNCHANGED <<dbVars, queue, at, broken, raised, mails>>

\* Mutation: the record is added to the session, but not committed.
AddFailedTask(r) ==
    /\ pc[r] = "record"
    /\ NextTask(r)
    /\ UNCHANGED <<dbVars, broken, raised, mails>>

\* Mutation: the record is tried again until it is stored.
LogUntilStored(r) ==
    /\ pc[r] = "record"
    /\ \/ /\ StatementFails(r)
          /\ broken' = [broken EXCEPT ![r] = TRUE]
          /\ UNCHANGED <<records, nextId, queue, at, attempt, pc>>
       \/ /\ ~StatementFails(r)
          /\ records' = records \cup {[id |-> nextId, task |-> TaskOf(r), attempts |-> 3]}
          /\ nextId' = nextId + 1
          /\ NextTask(r) /\ UNCHANGED broken
    /\ UNCHANGED <<dbUp, target, removed, raised, mails>>

\* _log_failed_task, in the same session.  An error is only logged.
LogFailedTask(r) ==
    /\ pc[r] = "record"
    /\ \/ /\ StatementFails(r)
          /\ broken' = [broken EXCEPT ![r] = TRUE]
          /\ UNCHANGED <<records, nextId>>
       \/ /\ ~StatementFails(r)
          /\ records' = records \cup {[id |-> nextId, task |-> TaskOf(r), attempts |-> 3]}
          /\ nextId' = nextId + 1
          /\ UNCHANGED broken
    /\ NextTask(r)
    /\ UNCHANGED <<dbUp, target, removed, raised, mails>>

\* What is queued is only in the memory of the process.
Crash(r) ==
    /\ Crashes
    /\ pc[r] \notin {"new", "done", "lost"}
    /\ pc' = [pc EXCEPT ![r] = "lost"]
    /\ UNCHANGED <<dbVars, queue, at, attempt, broken, raised, mails>>

-----------------------------------------------------------------------------
(* AdminService.retry_failed_task and the database.                        *)

FindFailedTask(a) ==
    /\ target[a] = 0 /\ dbUp
    /\ \E e \in records : target' = [target EXCEPT ![a] = e.id]
    /\ UNCHANGED <<dbUp, records, nextId, removed, taskVars>>

\* A DELETE that finds no row any more is only logged.
DeleteFailedTask(a) ==
    /\ target[a] # 0
    /\ target' = [target EXCEPT ![a] = 0]
    /\ \/ ~dbUp /\ UNCHANGED <<records, removed>>
       \/ /\ dbUp
          /\ records' = {e \in records : e.id # target[a]}
          /\ removed' = removed \cup {e.task : e \in records \ records'}
    /\ UNCHANGED <<dbUp, nextId, taskVars>>

DbGoes  == /\ DbFails /\ dbUp /\ dbUp' = FALSE
           /\ UNCHANGED <<records, nextId, target, removed, taskVars>>
DbComes == /\ ~dbUp /\ dbUp' = TRUE
           /\ UNCHANGED <<records, nextId, target, removed, taskVars>>

-----------------------------------------------------------------------------

Step(r) == AttemptRaises(r) \/ AttemptEnds(r) \/ Retry(r) \/ LogFailedTask(r)

Init == /\ dbUp = TRUE
        /\ queue = [r \in Requests |-> <<>>]
        /\ at = [r \in Requests |-> 1]
        /\ attempt = [r \in Requests |-> 1]
        /\ pc = [r \in Requests |-> "new"]
        /\ broken = [r \in Requests |-> FALSE]
        /\ records = {}
        /\ nextId = 1
        /\ target = [a \in Admins |-> 0]
        /\ raised = [t \in Tasks |-> 0]
        /\ mails = [t \in Tasks |-> 0]
        /\ removed = {}

Next == \/ \E r \in Requests : Arrive(r) \/ Step(r) \/ Crash(r)
        \/ \E a \in Admins : FindFailedTask(a) \/ DeleteFailedTask(a)
        \/ DbGoes \/ DbComes

Spec == Init /\ [][Next]_vars

\* The thread of a request runs on unless its process dies.
FairSpec == Spec /\ \A r \in Requests : WF_vars(Step(r))

-----------------------------------------------------------------------------
(* Properties                                                              *)

\* The types of the variables.
TypeOK ==
    /\ dbUp \in BOOLEAN
    /\ queue \in [Requests -> Queues \cup {<<>>}]
    /\ at \in [Requests -> 1 .. Longest + 1]
    /\ attempt \in [Requests -> 1 .. MaxRetries]
    /\ pc \in [Requests -> {"new", "try", "sleep", "record", "done", "lost"}]
    /\ \A r \in Requests : pc[r] \in {"try", "sleep", "record"} => at[r] \in DOMAIN queue[r]
    /\ broken \in [Requests -> BOOLEAN]
    /\ nextId \in Nat \ {0}
    /\ records \subseteq [id : 1 .. nextId - 1, task : Tasks, attempts : Nat]
    /\ target \in [Admins -> 0 .. nextId - 1]
    /\ raised \in [Tasks -> Nat]
    /\ mails \in [Tasks -> Nat]
    /\ removed \subseteq Tasks

\* A row of failed_tasks is about a task that has failed as often as the row says
\* and has sent nothing, and no other row is about it: an admin who sends the mail
\* by hand sends no second one.
RecordsAreTrue ==
    \A e \in records :
        /\ raised[e.task] = e.attempts
        /\ mails[e.task] = 0
        /\ \A f \in records : f.task = e.task => f = e

\* No task sends a mail twice, though each is tried three times and the SMTP
\* session may fail after the mail was accepted: an attempt is only repeated when
\* it has sent nothing.
AtMostOneMail == \A t \in Tasks : mails[t] <= 1

\* The tasks of a request end, whatever fails.
TasksEnd == \A r \in Requests : (pc[r] = "try") ~> (pc[r] \in {"done", "lost"})

Ended(t) == pc[t[1]] # "lost" /\ t[2] < at[t[1]]

Recorded(t) == t \in removed \/ \E e \in records : e.task = t

\* A task whose every attempt raised is recorded when it ends, and stays so until an
\* admin removes the record, unless a statement has failed in the session of its
\* request: the record is written with the same session.
ExhaustedIsRecorded ==
    \A t \in Tasks :
        (Ended(t) /\ raised[t] = MaxRetries /\ ~broken[t[1]]) => Recorded(t)

-----------------------------------------------------------------------------
(* What the documents say, and the code does not do.                       *)

\* revision_guide.md says that when an email cannot be delivered the task is
\* retried, and its details are persisted when all retries fail.
UndeliveredIsRecorded ==
    \A t \in Tasks : (Ended(t) /\ mails[t] = 0) => Recorded(t)
=============================================================================
