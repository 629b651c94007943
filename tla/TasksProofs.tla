----------------------------- MODULE TasksProofs -----------------------------
(***************************************************************************)
(* Proofs about Tasks, for every set of requests and admins, every list of *)
(* tasks and whatever fails: what a row of failed_tasks says is true, a    *)
(* task that has failed for good is recorded unless its session is broken, *)
(* and no mail is sent twice.                                              *)
(***************************************************************************)
EXTENDS Tasks, TLAPS

-----------------------------------------------------------------------------
(* The invariant.                                                          *)

\* A thread runs a task of its list.
ListKept(r) ==
    pc[r] \in {"try", "sleep", "record"} => queue[r] \in Queues /\ at[r] \in 1 .. Len(queue[r])

\* How often the task that r runs now has raised.
RaisedNow(r) ==
    /\ pc[r] = "new" => at[r] = 1 /\ attempt[r] = 1
    /\ pc[r] = "try" => raised[TaskOf(r)] = attempt[r] - 1
    /\ pc[r] = "sleep" => raised[TaskOf(r)] = attempt[r] /\ attempt[r] < MaxRetries
    /\ pc[r] = "record" => raised[TaskOf(r)] = MaxRetries

\* The tasks to come, and the one r runs, have sent nothing and have no record; those
\* to come have not raised either.
Untouched(r) ==
    \A i \in 1 .. Longest :
        /\ i >= at[r] => mails[<<r, i>>] = 0 /\ \A e \in records : e.task # <<r, i>>
        /\ i > at[r] \/ pc[r] = "new" => raised[<<r, i>>] = 0

\* A record tells how often its task has raised, and is the only one.
RecordTrue(e) ==
    /\ raised[e.task] = MaxRetries /\ e.attempts = 3
    /\ mails[e.task] = 0
    /\ \A f \in records : f.task = e.task => f = e

\* The record of a task is written after its last attempt.
IInv == /\ TypeOK
        /\ \A r \in Requests : ListKept(r) /\ RaisedNow(r) /\ Untouched(r)
        /\ \A e \in records : RecordTrue(e)
        /\ AtMostOneMail
        /\ ExhaustedIsRecorded

-----------------------------------------------------------------------------
(* Steps that neither end an attempt nor write the table.                  *)

\* The task a thread runs is one of those counted.
LEMMA TaskKnown ==
    ASSUME IInv, NEW r \in Requests, pc[r] \in {"try", "sleep", "record"}
    PROVE  /\ at[r] \in 1 .. Longest /\ TaskOf(r) \in Tasks
           /\ Len(queue[r]) \in Nat /\ Len(queue[r]) <= Longest
           /\ at[r] \in 1 .. Len(queue[r])
<1>1. queue[r] \in Queues /\ at[r] \in 1 .. Len(queue[r]) BY DEF IInv, ListKept
<1>2. Len(queue[r]) \in 1 .. Longest /\ Longest \in Nat BY <1>1, TasksAssumption
<1> QED BY <1>1, <1>2 DEF TaskOf, Tasks

\* What is over stays as it is when nothing is counted, sent or recorded, and no
\* request comes back.
LEMMA QuietStep ==
    ASSUME IInv, TypeOK', UNCHANGED <<at, broken, records, raised, mails, removed>>,
           \A r \in Requests : /\ pc[r] = "lost" => pc'[r] = "lost"
                               /\ pc'[r] = "new" => pc[r] = "new"
                               /\ ListKept(r)' /\ RaisedNow(r)'
    PROVE  IInv'
<1>1. \A r \in Requests : Untouched(r)' BY DEF IInv, Untouched
<1>2. \A e \in records' : RecordTrue(e)' BY DEF IInv, RecordTrue
<1>3. AtMostOneMail' BY DEF IInv, AtMostOneMail
<1>4. ExhaustedIsRecorded'
    <2> SUFFICES ASSUME NEW t \in Tasks, Ended(t)', raised[t] = MaxRetries, ~broken[t[1]]
                 PROVE  Recorded(t)
        BY DEF ExhaustedIsRecorded, Recorded
    <2>1. t[1] \in Requests BY DEF Tasks
    <2>2. Ended(t) BY <2>1 DEF Ended
    <2> QED BY <2>2 DEF IInv, ExhaustedIsRecorded
<1> QED BY <1>1, <1>2, <1>3, <1>4 DEF IInv

\* A request arrives with its list.
LEMMA ArriveInv ==
    ASSUME IInv, NEW r \in Requests, Arrive(r)
    PROVE  IInv'
<1> USE DEF Arrive, dbVars
<1>1. PICK q \in Queues : queue' = [queue EXCEPT ![r] = q] OBVIOUS
<1>2. Len(q) \in 1 .. Longest /\ Longest \in Nat BY TasksAssumption
<1>3. TypeOK /\ RaisedNow(r) /\ Untouched(r) BY DEF IInv
<1>4. at[r] = 1 /\ attempt[r] = 1 BY <1>3 DEF RaisedNow
<1>5. queue'[r] = q /\ pc'[r] = "try" /\ UNCHANGED <<at, attempt, raised>>
    BY <1>1, <1>3 DEF TypeOK
<1>6. DOMAIN q = 1 .. Len(q) BY TasksAssumption
<1>7. TypeOK'
    <2>1. \A p \in Requests : pc'[p] \in {"try", "sleep", "record"} => at[p] \in DOMAIN queue'[p]
        BY <1>1, <1>2, <1>3, <1>4, <1>5, <1>6 DEF TypeOK
    <2> QED BY <1>1, <1>3, <2>1 DEF TypeOK
<1>8. ListKept(r)' BY <1>2, <1>4, <1>5 DEF ListKept
<1>9. RaisedNow(r)'
    <2>1. raised[<<r, 1>>] = 0 BY <1>2, <1>3 DEF Untouched
    <2> QED BY <1>4, <1>5, <2>1 DEF RaisedNow, TaskOf
<1>10. \A p \in Requests : /\ pc[p] = "lost" => pc'[p] = "lost"
                           /\ pc'[p] = "new" => pc[p] = "new"
                           /\ ListKept(p)' /\ RaisedNow(p)'
    <2> TAKE p \in Requests
    <2>1. CASE p = r BY <1>5, <1>8, <1>9, <2>1
    <2>2. CASE p # r
        <3>1. pc'[p] = pc[p] /\ queue'[p] = queue[p] BY <1>1, <1>3, <2>2 DEF TypeOK
        <3> QED BY <3>1 DEF IInv, ListKept, RaisedNow, TaskOf
    <2> QED BY <2>1, <2>2
<1> QED BY <1>7, <1>10, QuietStep

\* The backoff ends.
LEMMA RetryInv ==
    ASSUME IInv, NEW r \in Requests, Retry(r)
    PROVE  IInv'
<1> USE DEF Retry, dbVars
<1>1. TypeOK /\ RaisedNow(r) /\ MaxRetries \in Nat BY TasksAssumption DEF IInv
<1>2. attempt[r] \in Nat /\ attempt[r] < MaxRetries /\ raised[TaskOf(r)] = attempt[r]
    BY <1>1 DEF RaisedNow, TypeOK
<1>3. attempt'[r] = attempt[r] + 1 /\ pc'[r] = "try" BY <1>1 DEF TypeOK
<1>4. TypeOK'
    <2>1. attempt' \in [Requests -> 1 .. MaxRetries] BY <1>1, <1>2 DEF TypeOK
    <2> QED BY <1>1, <2>1 DEF TypeOK
<1>5. \A p \in Requests : /\ pc[p] = "lost" => pc'[p] = "lost"
                          /\ pc'[p] = "new" => pc[p] = "new"
                          /\ ListKept(p)' /\ RaisedNow(p)'
    <2> TAKE p \in Requests
    <2>1. CASE p = r BY <1>2, <1>3, <2>1 DEF IInv, ListKept, RaisedNow, TaskOf
    <2>2. CASE p # r
        <3>1. pc'[p] = pc[p] /\ attempt'[p] = attempt[p] BY <1>1, <2>2 DEF TypeOK
        <3> QED BY <3>1 DEF IInv, ListKept, RaisedNow, TaskOf
    <2> QED BY <2>1, <2>2
<1> QED BY <1>4, <1>5, QuietStep

\* The process of a request dies.
LEMMA CrashInv ==
    ASSUME IInv, NEW r \in Requests, Crash(r)
    PROVE  IInv'
<1> USE DEF Crash, dbVars
<1>1. TypeOK BY DEF IInv
<1>2. TypeOK' BY <1>1 DEF TypeOK
<1>3. \A p \in Requests : /\ pc[p] = "lost" => pc'[p] = "lost"
                          /\ pc'[p] = "new" => pc[p] = "new"
                          /\ ListKept(p)' /\ RaisedNow(p)'
    <2> TAKE p \in Requests
    <2>1. pc'[p] = "lost" \/ pc'[p] = pc[p] BY <1>1 DEF TypeOK
    <2> QED BY <2>1 DEF IInv, ListKept, RaisedNow, TaskOf
<1> QED BY <1>2, <1>3, QuietStep

\* The database comes and goes, an admin looks up a record, or nothing happens.
LEMMA ElsewhereInv ==
    ASSUME IInv, DbGoes \/ DbComes \/ (\E a \in Admins : FindFailedTask(a)) \/ UNCHANGED vars
    PROVE  IInv'
<1> USE DEF DbGoes, DbComes, FindFailedTask, vars, dbVars, taskVars
<1>1. TypeOK BY DEF IInv
<1>2. UNCHANGED <<taskVars, records, removed>> OBVIOUS
<1>3. TypeOK'
    <2>1. nextId' = nextId OBVIOUS
    <2>2. dbUp' \in BOOLEAN BY <1>1 DEF TypeOK
    <2>3. target' \in [Admins -> 0 .. nextId - 1] BY <1>1 DEF TypeOK
    <2> QED BY <1>1, <1>2, <2>1, <2>2, <2>3 DEF TypeOK
<1>4. \A p \in Requests : ListKept(p)' /\ RaisedNow(p)'
    BY <1>2 DEF IInv, ListKept, RaisedNow, TaskOf
<1> QED BY <1>2, <1>3, <1>4, QuietStep

-----------------------------------------------------------------------------
(* Steps that end an attempt.                                              *)

\* One attempt more has raised; it is the last or the backoff begins.
LEMMA AttemptRaisesInv ==
    ASSUME IInv, NEW r \in Requests, AttemptRaises(r)
    PROVE  IInv'
<1> USE DEF AttemptRaises, Fail, dbVars
<1>1. /\ TypeOK /\ RaisedNow(r) /\ MaxRetries \in Nat \ {0}
      /\ \A p \in Requests : ListKept(p) /\ RaisedNow(p) /\ Untouched(p)
    BY TasksAssumption DEF IInv
<1>2. at[r] \in 1 .. Longest /\ TaskOf(r) \in Tasks BY TaskKnown
<1>3. /\ raised[TaskOf(r)] = attempt[r] - 1 /\ attempt[r] \in 1 .. MaxRetries
    BY <1>1 DEF RaisedNow, TypeOK
<1>4. /\ pc'[r] = IF attempt[r] = MaxRetries THEN "record" ELSE "sleep"
      /\ raised'[TaskOf(r)] = attempt[r]
      /\ \A t \in Tasks \ {TaskOf(r)} : raised'[t] = raised[t]
      /\ \A p \in Requests \ {r} : pc'[p] = pc[p]
      /\ \A p \in Requests : broken[p] => broken'[p]
    <2>1. broken \in [Requests -> BOOLEAN] BY <1>1 DEF TypeOK
    <2>2. UNCHANGED broken \/ broken' = [broken EXCEPT ![r] = TRUE] OBVIOUS
    <2>3. \A p \in Requests : broken[p] => broken'[p] BY <2>1, <2>2
    <2> QED BY <1>1, <1>2, <1>3, <2>3 DEF TypeOK
<1>5. \A e \in records : e.task \in Tasks /\ e.task # TaskOf(r)
    BY <1>1, <1>2 DEF TypeOK, Untouched, TaskOf
<1>6. TypeOK'
    <2>1. raised' \in [Tasks -> Nat] BY <1>1, <1>2, <1>3 DEF TypeOK
    <2>2. broken' \in [Requests -> BOOLEAN] BY <1>1 DEF TypeOK
    <2>3. pc' \in [Requests -> {"new", "try", "sleep", "record", "done", "lost"}]
        BY <1>1 DEF TypeOK
    <2>4. \A p \in Requests : pc'[p] \in {"try", "sleep", "record"} => at[p] \in DOMAIN queue[p]
        BY <1>1, <1>4 DEF TypeOK
    <2> QED BY <1>1, <2>1, <2>2, <2>3, <2>4 DEF TypeOK
<1>7. \A p \in Requests : ListKept(p)' /\ RaisedNow(p)' /\ Untouched(p)'
    <2> TAKE p \in Requests
    <2>1. ListKept(p)' BY <1>1, <1>4 DEF ListKept
    <2>2. RaisedNow(p)'
        <3>1. CASE p = r BY <1>1, <1>3, <1>4, <3>1 DEF RaisedNow, TaskOf
        <3>2. CASE p # r
            <4>1. pc[p] \in {"try", "sleep", "record"} => TaskOf(p) \in Tasks BY TaskKnown
            <4>2. TaskOf(p) # TaskOf(r) BY <3>2 DEF TaskOf
            <4> QED BY <1>1, <1>4, <3>2, <4>1, <4>2 DEF RaisedNow, TaskOf
        <3> QED BY <3>1, <3>2
    <2>3. Untouched(p)'
        <3> SUFFICES ASSUME NEW i \in 1 .. Longest
                     PROVE  i > at[p] \/ pc'[p] = "new" => raised'[<<p, i>>] = 0
            BY <1>1 DEF Untouched
        <3>1. <<p, i>> \in Tasks BY DEF Tasks
        <3>2. i > at[p] \/ pc'[p] = "new" => <<p, i>> # TaskOf(r)
            BY <1>2, <1>4 DEF TaskOf
        <3>3. pc'[p] = "new" => pc[p] = "new" BY <1>4
        <3>4. i > at[p] \/ pc[p] = "new" => raised[<<p, i>>] = 0 BY <1>1 DEF Untouched
        <3> QED BY <1>4, <3>1, <3>2, <3>3, <3>4
    <2> QED BY <2>1, <2>2, <2>3
<1>8. \A e \in records' : RecordTrue(e)' BY <1>4, <1>5 DEF IInv, RecordTrue
<1>9. AtMostOneMail' BY DEF IInv, AtMostOneMail
<1>10. ExhaustedIsRecorded'
    <2> SUFFICES ASSUME NEW t \in Tasks, Ended(t)', raised'[t] = MaxRetries, ~broken'[t[1]]
                 PROVE  Recorded(t)
        BY DEF ExhaustedIsRecorded, Recorded
    <2>1. t[1] \in Requests BY DEF Tasks
    <2>2. Ended(t) BY <1>4, <2>1 DEF Ended
    <2>3. t # TaskOf(r) BY <1>1, <2>2 DEF Ended, TaskOf, TypeOK
    <2> QED BY <1>4, <2>1, <2>2, <2>3 DEF IInv, ExhaustedIsRecorded
<1> QED BY <1>6, <1>7, <1>8, <1>9, <1>10 DEF IInv

\* After a task its request goes on to the next one, which nobody has tried.
LEMMA NextTaskGood ==
    ASSUME IInv, NEW r \in Requests, pc[r] \in {"try", "record"}, NextTask(r), UNCHANGED raised
    PROVE  /\ at' \in [Requests -> 1 .. Longest + 1]
           /\ attempt' \in [Requests -> 1 .. MaxRetries]
           /\ pc' \in [Requests -> {"new", "try", "sleep", "record", "done", "lost"}]
           /\ at'[r] = at[r] + 1 /\ pc'[r] \in {"try", "done"}
           /\ \A p \in Requests \ {r} : at'[p] = at[p] /\ pc'[p] = pc[p]
           /\ \A p \in Requests :
                 /\ pc'[p] \in {"try", "sleep", "record"} => at'[p] \in DOMAIN queue'[p]
                 /\ ListKept(p)' /\ RaisedNow(p)'
<1> USE DEF NextTask
<1>1. TypeOK /\ MaxRetries \in Nat \ {0} /\ Longest \in Nat BY TasksAssumption DEF IInv
<1>2. \A p \in Requests : ListKept(p) /\ RaisedNow(p) /\ Untouched(p) BY DEF IInv
<1>3. /\ at[r] \in 1 .. Longest /\ Len(queue[r]) \in Nat /\ Len(queue[r]) <= Longest
      /\ at[r] \in 1 .. Len(queue[r]) /\ queue[r] \in Queues
    BY <1>2, TaskKnown DEF ListKept
<1>4. /\ at'[r] = at[r] + 1 /\ attempt'[r] = 1
      /\ pc'[r] = IF at[r] < Len(queue[r]) THEN "try" ELSE "done"
      /\ \A p \in Requests \ {r} : /\ at'[p] = at[p] /\ pc'[p] = pc[p]
                                   /\ attempt'[p] = attempt[p]
    BY <1>1, <1>3 DEF TypeOK
<1>5. at' \in [Requests -> 1 .. Longest + 1] BY <1>1, <1>3 DEF TypeOK
<1>6. attempt' \in [Requests -> 1 .. MaxRetries] BY <1>1 DEF TypeOK
<1>7. pc' \in [Requests -> {"new", "try", "sleep", "record", "done", "lost"}] BY <1>1 DEF TypeOK
<1>8. ASSUME NEW p \in Requests
      PROVE  /\ pc'[p] \in {"try", "sleep", "record"} => at'[p] \in DOMAIN queue'[p]
             /\ ListKept(p)' /\ RaisedNow(p)'
    <2>1. CASE p = r
        <3>1. DOMAIN queue[r] = 1 .. Len(queue[r]) BY <1>3, TasksAssumption
        <3>2. pc'[r] = "try" => at[r] + 1 \in 1 .. Len(queue[r]) BY <1>3, <1>4
        <3>3. pc'[r] = "try" => raised[<<r, at[r] + 1>>] = 0
            <4>1. at[r] + 1 > at[r] BY <1>3
            <4>2. pc'[r] = "try" => at[r] + 1 \in 1 .. Longest BY <1>1, <1>3, <3>2
            <4> QED BY <1>2, <4>1, <4>2 DEF Untouched
        <3> QED BY <1>3, <1>4, <2>1, <3>1, <3>2, <3>3 DEF ListKept, RaisedNow, TaskOf
    <2>2. CASE p # r BY <1>1, <1>2, <1>4, <2>2 DEF TypeOK, ListKept, RaisedNow, TaskOf
    <2> QED BY <2>1, <2>2
<1> QED BY <1>4, <1>5, <1>6, <1>7, <1>8

\* The mail of a task is sent, once at most, or not.
LEMMA AttemptEndsInv ==
    ASSUME IInv, NEW r \in Requests, AttemptEnds(r)
    PROVE  IInv'
<1> USE DEF AttemptEnds, Sent, dbVars
<1>1. /\ TypeOK /\ MaxRetries \in Nat \ {0}
      /\ \A p \in Requests : RaisedNow(p) /\ Untouched(p)
    BY TasksAssumption DEF IInv
<1>2. at[r] \in 1 .. Longest /\ TaskOf(r) \in Tasks BY TaskKnown
<1>3. /\ raised[TaskOf(r)] = attempt[r] - 1 /\ attempt[r] \in 1 .. MaxRetries
      /\ mails[TaskOf(r)] = 0
    BY <1>1, <1>2 DEF RaisedNow, TypeOK, Untouched, TaskOf
<1>4. /\ mails' \in [Tasks -> Nat] /\ mails'[TaskOf(r)] <= 1
      /\ \A t \in Tasks \ {TaskOf(r)} : mails'[t] = mails[t]
    BY <1>1, <1>2, <1>3 DEF TypeOK
<1>5. \A e \in records : e.task \in Tasks /\ e.task # TaskOf(r)
    BY <1>1, <1>2 DEF TypeOK, Untouched, TaskOf
<1>6. /\ at' \in [Requests -> 1 .. Longest + 1]
      /\ attempt' \in [Requests -> 1 .. MaxRetries]
      /\ pc' \in [Requests -> {"new", "try", "sleep", "record", "done", "lost"}]
      /\ at'[r] = at[r] + 1 /\ pc'[r] \in {"try", "done"}
      /\ \A p \in Requests \ {r} : at'[p] = at[p] /\ pc'[p] = pc[p]
      /\ \A p \in Requests :
            /\ pc'[p] \in {"try", "sleep", "record"} => at'[p] \in DOMAIN queue'[p]
            /\ ListKept(p)' /\ RaisedNow(p)'
    BY NextTaskGood
<1>7. TypeOK' BY <1>1, <1>4, <1>6 DEF TypeOK, NextTask
<1>8. \A p \in Requests : Untouched(p)'
    <2> SUFFICES ASSUME NEW p \in Requests, NEW i \in 1 .. Longest
                 PROVE  /\ i >= at'[p] => /\ mails'[<<p, i>>] = 0
                                          /\ \A e \in records : e.task # <<p, i>>
                        /\ i > at'[p] \/ pc'[p] = "new" => raised[<<p, i>>] = 0
        BY DEF Untouched
    <2>1. /\ i >= at[p] => mails[<<p, i>>] = 0 /\ \A e \in records : e.task # <<p, i>>
          /\ i > at[p] \/ pc[p] = "new" => raised[<<p, i>>] = 0
        BY <1>1 DEF Untouched
    <2>2. <<p, i>> \in Tasks /\ at[p] \in Nat BY <1>1, TasksAssumption DEF Tasks, TypeOK
    <2>3. i >= at'[p] => <<p, i>> # TaskOf(r) /\ i >= at[p] BY <1>2, <1>6, <2>2 DEF TaskOf
    <2>4. i > at'[p] => i > at[p] BY <1>2, <1>6, <2>2
    <2> QED BY <1>4, <1>6, <2>1, <2>2, <2>3, <2>4
<1>9. \A e \in records' : RecordTrue(e)' BY <1>4, <1>5 DEF IInv, RecordTrue
<1>10. AtMostOneMail' BY <1>4 DEF IInv, AtMostOneMail
<1>11. ExhaustedIsRecorded'
    <2> SUFFICES ASSUME NEW t \in Tasks, Ended(t)', raised[t] = MaxRetries, ~broken[t[1]]
                 PROVE  Recorded(t)
        BY DEF ExhaustedIsRecorded, Recorded
    <2>1. t[1] \in Requests /\ t[2] \in 1 .. Longest /\ t = <<t[1], t[2]>> BY DEF Tasks
    <2>2. t # TaskOf(r) BY <1>3
    <2>3. Ended(t)
        <3>1. at[r] \in Nat /\ t[2] \in Nat /\ (t[1] = r => t[2] # at[r])
            BY <1>2, <2>1, <2>2, TasksAssumption DEF TaskOf
        <3> QED BY <1>6, <2>1, <3>1 DEF Ended
    <2> QED BY <2>2, <2>3 DEF IInv, ExhaustedIsRecorded
<1> QED BY <1>6, <1>7, <1>8, <1>9, <1>10, <1>11 DEF IInv

-----------------------------------------------------------------------------
(* Steps that write the table.                                             *)

\* The ids given before stay ids given when the sequence goes on.
LEMMA LongerRange ==
    ASSUME NEW m \in Nat, NEW n \in Nat, m <= n
    PROVE  0 .. m - 1 \subseteq 0 .. n - 1 /\ 1 .. m - 1 \subseteq 1 .. n - 1
<1>1. m - 1 <= n - 1 OBVIOUS
<1> QED BY <1>1

\* The task that has failed for good is recorded, or its session is broken.
LEMMA LogFailedTaskInv ==
    ASSUME IInv, NEW r \in Requests, LogFailedTask(r)
    PROVE  IInv'
<1> DEFINE new == [id |-> nextId, task |-> TaskOf(r), attempts |-> 3]
<1>1. /\ TypeOK /\ MaxRetries \in Nat \ {0}
      /\ \A p \in Requests : RaisedNow(p) /\ Untouched(p)
    BY TasksAssumption DEF IInv
<1>2. /\ pc[r] = "record" /\ NextTask(r)
      /\ UNCHANGED <<dbUp, target, removed, raised, mails>>
    BY DEF LogFailedTask
<1>3. at[r] \in 1 .. Longest /\ TaskOf(r) \in Tasks BY <1>2, TaskKnown
<1>4. raised[TaskOf(r)] = MaxRetries /\ mails[TaskOf(r)] = 0
    BY <1>1, <1>2, <1>3 DEF RaisedNow, Untouched, TaskOf
<1>5. \/ /\ broken' = [broken EXCEPT ![r] = TRUE]
         /\ UNCHANGED <<records, nextId>>
      \/ /\ records' = records \cup {new} /\ nextId' = nextId + 1
         /\ UNCHANGED broken
    BY DEF LogFailedTask
<1>6. /\ at' \in [Requests -> 1 .. Longest + 1]
      /\ attempt' \in [Requests -> 1 .. MaxRetries]
      /\ pc' \in [Requests -> {"new", "try", "sleep", "record", "done", "lost"}]
      /\ at'[r] = at[r] + 1 /\ pc'[r] \in {"try", "done"}
      /\ \A p \in Requests \ {r} : at'[p] = at[p] /\ pc'[p] = pc[p]
      /\ \A p \in Requests :
            /\ pc'[p] \in {"try", "sleep", "record"} => at'[p] \in DOMAIN queue'[p]
            /\ ListKept(p)' /\ RaisedNow(p)'
    BY <1>2, NextTaskGood
<1>7. \A e \in records : e.task \in Tasks /\ e.task # TaskOf(r)
    BY <1>1, <1>3 DEF TypeOK, Untouched, TaskOf
<1>8. \A e \in records' : e \in records \/ e = new BY <1>5
<1>9. TypeOK'
    <2>1. broken' \in [Requests -> BOOLEAN]
        <3>1. broken \in [Requests -> BOOLEAN] BY <1>1 DEF TypeOK
        <3> QED BY <1>5, <3>1
    <2>2. nextId' \in Nat \ {0} /\ nextId <= nextId' /\ nextId \in Nat \ {0}
        BY <1>1, <1>5 DEF TypeOK
    <2>3. records' \subseteq [id : 1 .. nextId' - 1, task : Tasks, attempts : Nat]
        <3>1. records \subseteq [id : 1 .. nextId - 1, task : Tasks, attempts : Nat]
            BY <1>1 DEF TypeOK
        <3>2. 1 .. nextId - 1 \subseteq 1 .. nextId' - 1 BY <2>2, LongerRange
        <3>3. CASE UNCHANGED records BY <3>1, <3>2, <3>3
        <3>4. CASE records' = records \cup {new} /\ nextId' = nextId + 1
            <4>1. nextId \in 1 .. nextId' - 1 BY <2>2, <3>4
            <4>2. new \in [id : 1 .. nextId' - 1, task : Tasks, attempts : Nat]
                BY <1>3, <4>1
            <4> HIDE DEF new
            <4> QED BY <3>1, <3>2, <3>4, <4>2
        <3> QED BY <1>5, <3>3, <3>4
    <2>4. target' \in [Admins -> 0 .. nextId' - 1]
        <3>1. target \in [Admins -> 0 .. nextId - 1] BY <1>1 DEF TypeOK
        <3>2. 0 .. nextId - 1 \subseteq 0 .. nextId' - 1 BY <2>2, LongerRange
        <3> QED BY <1>2, <3>1, <3>2
    <2> QED BY <1>1, <1>2, <1>6, <2>1, <2>2, <2>3, <2>4 DEF TypeOK, NextTask
<1>10. \A p \in Requests : Untouched(p)'
    <2> SUFFICES ASSUME NEW p \in Requests, NEW i \in 1 .. Longest
                 PROVE  /\ i >= at'[p] => /\ mails'[<<p, i>>] = 0
                                          /\ \A e \in records' : e.task # <<p, i>>
                        /\ i > at'[p] \/ pc'[p] = "new" => raised'[<<p, i>>] = 0
        BY DEF Untouched
    <2>1. /\ i >= at[p] => mails[<<p, i>>] = 0 /\ \A e \in records : e.task # <<p, i>>
          /\ i > at[p] \/ pc[p] = "new" => raised[<<p, i>>] = 0
        BY <1>1 DEF Untouched
    <2>2. at[p] \in Nat BY <1>1, TasksAssumption DEF TypeOK
    <2>3. i >= at'[p] => <<p, i>> # TaskOf(r) /\ i >= at[p] BY <1>3, <1>6, <2>2 DEF TaskOf
    <2>4. i > at'[p] => i > at[p] BY <1>3, <1>6, <2>2
    <2>5. new.task = TaskOf(r) OBVIOUS
    <2> HIDE DEF new
    <2>6. i >= at'[p] => \A e \in records' : e.task # <<p, i>> BY <1>8, <2>1, <2>3, <2>5
    <2> QED BY <1>2, <1>6, <2>1, <2>3, <2>4, <2>6
<1>11. \A e \in records' : RecordTrue(e)'
    <2>1. \A e \in records : RecordTrue(e) BY DEF IInv
    <2>2. new.task = TaskOf(r) /\ new.attempts = 3 OBVIOUS
    <2> HIDE DEF new
    <2> QED BY <1>2, <1>4, <1>7, <1>8, <2>1, <2>2 DEF RecordTrue
<1>12. AtMostOneMail' BY <1>2 DEF IInv, AtMostOneMail
<1>13. ExhaustedIsRecorded'
    <2> SUFFICES ASSUME NEW t \in Tasks, Ended(t)', raised[t] = MaxRetries, ~broken'[t[1]]
                 PROVE  Recorded(t)'
        BY <1>2 DEF ExhaustedIsRecorded
    <2>1. t[1] \in Requests /\ t[2] \in 1 .. Longest /\ t = <<t[1], t[2]>> BY DEF Tasks
    <2>2. CASE t = TaskOf(r)
        <3>1. t[1] = r BY <2>2 DEF TaskOf
        <3>2. broken \in [Requests -> BOOLEAN] BY <1>1 DEF TypeOK
        <3>3. broken' # [broken EXCEPT ![r] = TRUE] BY <3>1, <3>2
        <3>4. new \in records' /\ new.task = t BY <1>5, <2>2, <3>3
        <3> QED BY <3>4 DEF Recorded
    <2>3. CASE t # TaskOf(r)
        <3>1. Ended(t)
            <4>1. at[r] \in Nat /\ t[2] \in Nat /\ (t[1] = r => t[2] # at[r])
                BY <1>3, <2>1, <2>3, TasksAssumption DEF TaskOf
            <4> QED BY <1>2, <1>6, <2>1, <4>1 DEF Ended
        <3>2. ~broken[t[1]]
            <4>1. broken \in [Requests -> BOOLEAN] BY <1>1 DEF TypeOK
            <4> QED BY <1>5, <2>1, <4>1
        <3>3. Recorded(t) BY <3>1, <3>2 DEF IInv, ExhaustedIsRecorded
        <3>4. records \subseteq records' BY <1>5
        <3> QED BY <1>2, <3>3, <3>4 DEF Recorded
    <2> QED BY <2>2, <2>3
<1> QED BY <1>6, <1>9, <1>10, <1>11, <1>12, <1>13 DEF IInv

\* An admin removes a record.
LEMMA DeleteFailedTaskInv ==
    ASSUME IInv, NEW a \in Admins, DeleteFailedTask(a)
    PROVE  IInv'
<1> USE DEF DeleteFailedTask, taskVars
<1>1. TypeOK BY DEF IInv
<1>2. /\ records' \subseteq records
      /\ removed \subseteq removed'
      /\ \A e \in records \ records' : e.task \in removed'
      /\ \A t \in removed' \ removed : \E e \in records : e.task = t
    OBVIOUS
<1>3. TypeOK'
    <2>1. 0 \in 0 .. nextId - 1 BY <1>1 DEF TypeOK
    <2>2. target' \in [Admins -> 0 .. nextId - 1] BY <1>1, <2>1 DEF TypeOK
    <2>3. removed' \subseteq Tasks BY <1>1, <1>2 DEF TypeOK
    <2> QED BY <1>1, <1>2, <2>2, <2>3 DEF TypeOK
<1>4. \A r \in Requests : ListKept(r)' /\ RaisedNow(r)' /\ Untouched(r)'
    BY <1>2 DEF IInv, ListKept, RaisedNow, TaskOf, Untouched
<1>5. \A e \in records' : RecordTrue(e)' BY <1>2 DEF IInv, RecordTrue
<1>6. AtMostOneMail' BY DEF IInv, AtMostOneMail
<1>7. ExhaustedIsRecorded'
    <2> SUFFICES ASSUME NEW t \in Tasks, Ended(t)', raised[t] = MaxRetries, ~broken[t[1]]
                 PROVE  Recorded(t)'
        BY DEF ExhaustedIsRecorded
    <2>1. Recorded(t) BY DEF IInv, ExhaustedIsRecorded, Ended
    <2> QED BY <1>2, <2>1 DEF Recorded
<1> QED BY <1>3, <1>4, <1>5, <1>6, <1>7 DEF IInv

-----------------------------------------------------------------------------
(* The invariant holds always.                                             *)

\* Before the first request nothing has been tried, sent or recorded.
LEMMA InitInv == Init => IInv
<1> SUFFICES ASSUME Init PROVE IInv
    OBVIOUS
<1> USE TasksAssumption DEF Init
<1>1. TypeOK BY DEF TypeOK
<1>2. \A r \in Requests : ListKept(r) /\ RaisedNow(r) /\ Untouched(r)
    BY DEF ListKept, RaisedNow, Untouched, Tasks
<1>3. AtMostOneMail BY DEF AtMostOneMail
<1>4. ExhaustedIsRecorded BY DEF ExhaustedIsRecorded
<1> QED BY <1>1, <1>2, <1>3, <1>4 DEF IInv

\* Every step keeps the invariant.
LEMMA NextInv == IInv /\ [Next]_vars => IInv'
BY ArriveInv, RetryInv, CrashInv, ElsewhereInv, AttemptRaisesInv, AttemptEndsInv,
   LogFailedTaskInv, DeleteFailedTaskInv DEF Next, Step

\* So it holds always.
LEMMA Invariance == Spec => []IInv
BY InitInv, NextInv, PTL DEF Spec

\* The variables keep their types.
THEOREM TypeCorrect == Spec => []TypeOK
<1>1. IInv => TypeOK BY DEF IInv
<1> QED BY <1>1, Invariance, PTL

\* A row of failed_tasks tells the truth, as long as every task is given the three
\* attempts that _log_failed_task writes down whatever max_retries was.
THEOREM RecordsTellTheTruth ==
    ASSUME MaxRetries = 3
    PROVE  Spec => []RecordsAreTrue
<1>1. IInv => RecordsAreTrue BY DEF IInv, RecordTrue, RecordsAreTrue
<1> QED BY <1>1, Invariance, PTL

\* No task sends two mails.
THEOREM OneMailPerTask == Spec => []AtMostOneMail
<1>1. IInv => AtMostOneMail BY DEF IInv
<1> QED BY <1>1, Invariance, PTL

\* A task that has failed for good is recorded unless its session is broken.
THEOREM FailuresRecorded == Spec => []ExhaustedIsRecorded
<1>1. IInv => ExhaustedIsRecorded BY DEF IInv
<1> QED BY <1>1, Invariance, PTL
=============================================================================
