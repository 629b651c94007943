----------------------------- MODULE CacheProofs -----------------------------
(***************************************************************************)
(* Proofs about Cache for every set of requests, rows and methods: no two  *)
(* questions share a key, and as long as Redis answers clear_cache and no  *)
(* process dies an entry is wrong only while the method that changed its   *)
(* row is on its way to clear it.                                          *)
(***************************************************************************)
EXTENDS Cache, TLAPS

-----------------------------------------------------------------------------
(* The invariant.                                                          *)

Changes == [op : Mutations, id : Ids]

\* What is given to clear_cache.
Patterns == [module : {"courses", "instructors", "enrollments", "users"},
             resource : {"*", "get_courses", "single", "profile"}, id : Nat]

\* A value read by j: a version of each row it asks for.
ValueOf(v, j) == v \in [CellsOf(j) -> Int]

\* A profile that was read is there: no method deletes profiles.
ProfilesLive(v) == \A c \in DOMAIN v : c[1] = "profiles" => Live(c)

\* The types of what a request holds.
Holds(r) ==
    /\ loc[r] = [self |-> loc[r].self, val |-> loc[r].val, seen |-> loc[r].seen,
                 todo |-> loc[r].todo, found |-> loc[r].found]
    /\ loc[r].todo \in Seq(Patterns)

\* What a request is doing, where it is.
Place(r) ==
    /\ pc[r] \in {"get", "query", "insert", "set"} =>
          job[r] \in ReadJobs /\ loc[r].self \in Addresses
    /\ pc[r] \in {"check", "commit", "refresh", "clear", "delete"} => job[r] \in Changes
    /\ pc[r] = "set" => ValueOf(loc[r].val, job[r]) /\ ProfilesLive(loc[r].val)
    /\ pc[r] = "refresh" => MutationOf(job[r]).refresh
    /\ pc[r] = "delete" => loc[r].todo # <<>>

Frames == /\ job \in [Requests -> ReadJobs \cup Changes \cup {NoJob}]
          /\ loc = [r \in Requests |-> loc[r]]
          /\ answer = [r \in Requests |-> answer[r]]

\* The key of an entry is the question that its value answers.
EntryOK(e) == /\ \E j \in ReadJobs, a \in Addresses : e.key = Key(j, a) /\ ValueOf(e.val, j)
              /\ ProfilesLive(e.val)

CacheInv == /\ TypeOK /\ Frames
            /\ \A r \in Requests : Holds(r) /\ Place(r)
            /\ \A e \in cache : EntryOK(e)
            /\ AnswersTheQuestion

\* q has a pattern or the key of e still before it.
Due(q, e) ==
    \/ /\ pc[q] \in {"refresh", "clear"}
       /\ \E n \in 1 .. Len(loc[q].todo) : Matches(loc[q].todo[n], e.key)
    \/ /\ pc[q] = "delete"
       /\ \/ e.key \in loc[q].found
          \/ \E n \in 2 .. Len(loc[q].todo) : Matches(loc[q].todo[n], e.key)

\* q has changed the row c and will clear e; where the row is gone it does not have to
\* refresh it first.
Clears(q, e, c) == /\ Due(q, e) /\ job[q] \in Changes /\ c \in Writes(job[q])
                   /\ ~Live(c) => pc[q] # "refresh"

\* The row c is not what the entry e shows.
Wrong(e, c) == e.val[c] # IF Live(c) THEN cell[c] ELSE 0

\* Each row that makes an entry wrong has somebody who will clear the entry.
ClearInv ==
    \A e \in cache : (~e.late /\ Covered(e)) =>
        \A c \in DOMAIN e.val : Wrong(e, c) => \E q \in Requests : Clears(q, e, c)

-----------------------------------------------------------------------------
(* The methods.                                                            *)

\* The parts of the key that are of the method.
MethodKey(x, m, res, kind) ==
    ReadOf[x].module = m /\ ReadOf[x].resource = res /\ ReadOf[x].kind = kind

\* The methods and their keys.
LEMMA ReadMethods ==
    ASSUME NEW x \in Reads
    PROVE  \/ x = "get_courses" /\ MethodKey(x, "courses", "course", "query")
           \/ x = "get_course" /\ MethodKey(x, "courses", "course", "entity")
           \/ x = "get_categories" /\ MethodKey(x, "categories", "get_categories", "query")
           \/ x = "get_category" /\ MethodKey(x, "categories", "single", "entity")
           \/ /\ x = "get_lessons_by_course"
              /\ MethodKey(x, "lessons", "get_lessons_by_course", "query")
           \/ x = "get_lesson" /\ MethodKey(x, "lessons", "single", "entity")
           \/ x = "get_instructors" /\ MethodKey(x, "instructors", "get_instructors", "query")
           \/ x = "get_instructor" /\ MethodKey(x, "instructors", "single", "entity")
           \/ /\ x = "get_user_enrollments"
              /\ MethodKey(x, "enrollments", "get_user_enrollments", "query")
           \/ /\ x = "get_course_enrollments"
              /\ MethodKey(x, "enrollments", "get_course_enrollments", "query")
           \/ x = "get_users" /\ MethodKey(x, "users", "get_users", "query")
           \/ x = "get_user_profile" /\ MethodKey(x, "users", "profile", "entity")
BY MethodsAssumption DEF ReadOf, MethodKey, Query, Entity, get_courses, get_course,
       get_categories, get_category, get_lessons_by_course, get_lesson, get_instructors,
       get_instructor, get_user_enrollments, get_course_enrollments, get_users,
       get_user_profile

\* Module, resource and kind tell the cached methods apart.
LEMMA KeysDiffer ==
    ASSUME NEW x \in Reads, NEW y \in Reads, ReadOf[x].module = ReadOf[y].module,
           ReadOf[x].resource = ReadOf[y].resource, ReadOf[x].kind = ReadOf[y].kind
    PROVE  x = y
BY ReadMethods DEF MethodKey

\* Who finds an entry by its key has asked its question.
LEMMA KeyIsQuestion ==
    ASSUME NEW i \in ReadJobs, NEW j \in ReadJobs, NEW a \in Addresses, NEW b \in Addresses,
           Key(i, a) = Key(j, b)
    PROVE  CellsOf(i) = CellsOf(j)
<1>1. i.op \in Reads /\ j.op \in Reads BY DEF ReadJobs
<1>2. /\ ReadOf[i.op].module = ReadOf[j.op].module /\ ReadOf[i.op].kind = ReadOf[j.op].kind
      /\ ReadOf[i.op].resource = ReadOf[j.op].resource /\ i.id = j.id
    BY DEF Key
<1>3. i.op = j.op BY <1>1, <1>2, KeysDiffer
<1> QED BY <1>2, <1>3 DEF CellsOf

\* The lists of patterns that occur.
Clearings(i) == {<<>>, <<All("courses")>>, <<All("instructors")>>, <<All("users")>>,
                 <<All("enrollments")>>, <<NamedLists("courses", "get_courses")>>,
                 <<OneEntity("users", "profile", i)>>,
                 <<OneEntity("courses", "single", i), All("enrollments")>>,
                 <<All("courses"), All("enrollments")>>}

\* They are lists of patterns.
LEMMA PatternTypes == ASSUME NEW i \in Nat PROVE Clearings(i) \subseteq Seq(Patterns)
<1>1. /\ All("courses") \in Patterns /\ All("instructors") \in Patterns
      /\ All("enrollments") \in Patterns /\ All("users") \in Patterns
      /\ OneEntity("courses", "single", i) \in Patterns
      /\ OneEntity("users", "profile", i) \in Patterns
      /\ NamedLists("courses", "get_courses") \in Patterns
    BY DEF All, OneEntity, NamedLists, Patterns
<1> QED BY <1>1 DEF Clearings

\* What the proofs need to know of the methods that change a table: who refreshes a row
\* changes no other and leaves it there, and no profile is deleted.
LEMMA MutationFacts ==
    ASSUME NEW j \in Changes
    PROVE  /\ MutationOf(j).clears \in Seq(Patterns)
           /\ MutationOf(j).refresh =>
                 /\ DOMAIN MutationOf(j).effect = {MutationOf(j).row}
                 /\ MutationOf(j).effect[MutationOf(j).row] \in {"create", "put", "update"}
           /\ "profiles" \in DOMAIN MutationOf(j).effect =>
                 MutationOf(j).effect["profiles"] = "put"
<1>0. j.id \in Nat BY CacheAssumption DEF Changes
<1>1. CASE j.op \in {"create_course", "update_course", "delete_course",
                     "bulk_update_course_categories", "bulk_create_courses"}
    <2>1. MutationOf(j) \in {create_course(j.id), update_course(j.id),
                             delete_course(j.id), bulk_update_course_categories(j.id),
                             bulk_create_courses(j.id)}
        BY <1>1 DEF MutationOf
    <2>2. MutationOf(j).clears \in Clearings(j.id)
        BY <2>1 DEF Clearings, Mutation, create_course, update_course,
               delete_course, bulk_update_course_categories, bulk_create_courses
    <2>3. "profiles" \in DOMAIN MutationOf(j).effect => MutationOf(j).effect["profiles"] = "put"
        BY <2>1 DEF Mutation, create_course, update_course,
               delete_course, bulk_update_course_categories, bulk_create_courses
    <2> QED BY <1>0, <2>1, <2>2, <2>3, PatternTypes DEF Mutation, create_course, update_course,
               delete_course, bulk_update_course_categories, bulk_create_courses
<1>2. CASE j.op \in {"create_category", "update_category", "delete_category",
                     "create_lesson", "update_lesson", "delete_lesson"}
    <2>1. MutationOf(j) \in {create_category(j.id), update_category(j.id),
                             delete_category(j.id), create_lesson(j.id),
                             update_lesson(j.id), delete_lesson(j.id)}
        BY <1>2 DEF MutationOf
    <2>2. MutationOf(j).clears \in Clearings(j.id)
        BY <2>1 DEF Clearings, Mutation, create_category, update_category,
               delete_category, create_lesson, update_lesson, delete_lesson
    <2>3. "profiles" \in DOMAIN MutationOf(j).effect => MutationOf(j).effect["profiles"] = "put"
        BY <2>1 DEF Mutation, create_category, update_category,
               delete_category, create_lesson, update_lesson, delete_lesson
    <2> QED BY <1>0, <2>1, <2>2, <2>3, PatternTypes DEF Mutation, create_category, update_category,
               delete_category, create_lesson, update_lesson, delete_lesson
<1>3. CASE j.op \in {"create_instructor", "update_instructor", "create_user",
                     "deactivate_user", "update_user_profile", "upload_avatar"}
    <2>1. MutationOf(j) \in {create_instructor(j.id), update_instructor(j.id),
                             create_user(j.id), deactivate_user(j.id),
                             update_user_profile(j.id), upload_avatar(j.id)}
        BY <1>3 DEF MutationOf
    <2>2. MutationOf(j).clears \in Clearings(j.id)
        BY <2>1 DEF Clearings, Mutation, create_instructor,
               update_instructor, create_user, deactivate_user, update_user_profile,
               upload_avatar
    <2>3. "profiles" \in DOMAIN MutationOf(j).effect => MutationOf(j).effect["profiles"] = "put"
        BY <2>1 DEF Mutation, create_instructor,
               update_instructor, create_user, deactivate_user, update_user_profile,
               upload_avatar
    <2> QED BY <1>0, <2>1, <2>2, <2>3, PatternTypes DEF Mutation, create_instructor,
               update_instructor, create_user, deactivate_user, update_user_profile,
               upload_avatar
<1>4. CASE j.op \in {"enroll_in_course", "concurrent_enroll", "transfer_enrollment",
                     "unenroll", "update_enrollment"}
    <2>1. MutationOf(j) \in {enroll_in_course(j.id), concurrent_enroll(j.id),
                             transfer_enrollment(j.id), unenroll(j.id),
                             update_enrollment(j.id)}
        BY <1>4 DEF MutationOf
    <2>2. MutationOf(j).clears \in Clearings(j.id)
        BY <2>1 DEF Clearings, Mutation, enroll_in_course,
               concurrent_enroll, transfer_enrollment, unenroll, update_enrollment
    <2>3. "profiles" \in DOMAIN MutationOf(j).effect => MutationOf(j).effect["profiles"] = "put"
        BY <2>1 DEF Mutation, enroll_in_course,
               concurrent_enroll, transfer_enrollment, unenroll, update_enrollment
    <2> QED BY <1>0, <2>1, <2>2, <2>3, PatternTypes DEF Mutation, enroll_in_course,
               concurrent_enroll, transfer_enrollment, unenroll, update_enrollment
<1> QED BY <1>1, <1>2, <1>3, <1>4, MethodsAssumption DEF Changes

-----------------------------------------------------------------------------
(* The frame of a step.                                                    *)

Labels == {"new", "get", "query", "insert", "set", "check", "commit", "refresh", "clear",
           "delete", "done"}

\* What the types say of the tables and of Redis, with what is known of the entries.
StoreOK ==
    /\ cell \in [Cells -> Int] /\ clock \in Nat
    /\ \A e \in cache : /\ e.key \in AllKeys /\ e.expires \in BOOLEAN /\ e.late \in BOOLEAN
                        /\ DOMAIN e.val \subseteq Cells
    /\ \A e, f \in cache : e.key = f.key => e = f
    /\ \A e \in cache : EntryOK(e)

\* A read that is answered has what it asked for.
AnswerOK(r) == (pc[r] = "done" /\ answer[r].ok /\ job[r].op \in Reads) =>
                   DOMAIN answer[r].val = CellsOf(job[r])

RequestOK(r) == /\ loc[r].self \in Addresses \cup {0} /\ loc[r].found \subseteq AllKeys
                /\ answer[r].ok \in BOOLEAN
                /\ Holds(r) /\ Place(r) /\ AnswerOK(r)

\* The invariant by its parts.
LEMMA Parts ==
    CacheInv <=> /\ StoreOK /\ Frames /\ pc \in [Requests -> Labels]
                 /\ \A r \in Requests : RequestOK(r)
BY DEF CacheInv, StoreOK, TypeOK, Labels, AnswersTheQuestion, AnswerOK, RequestOK

\* No profile goes away.
ProfilesStay == \A c \in Cells : (c[1] = "profiles" /\ Live(c)) => Live(c)'

\* The other requests.
Others(r) == \A q \in Requests \ {r} : /\ pc'[q] = pc[q] /\ job'[q] = job[q]
                                       /\ loc'[q] = loc[q] /\ answer'[q] = answer[q]

\* The rows a question is about are rows.
LEMMA CellsOfCells == \A j : CellsOf(j) \subseteq Cells
BY DEF CellsOf

\* A request that does nothing keeps what it holds.
LEMMA OtherOK ==
    ASSUME CacheInv, ProfilesStay, NEW q \in Requests, pc'[q] = pc[q], job'[q] = job[q],
           loc'[q] = loc[q], answer'[q] = answer[q]
    PROVE  RequestOK(q)'
<1>1. RequestOK(q) BY Parts
<1>2. Holds(q)' BY <1>1 DEF RequestOK, Holds
<1>3. AnswerOK(q)' BY <1>1 DEF RequestOK, AnswerOK
<1>4. Place(q)'
    <2>1. ASSUME pc[q] = "set" PROVE ProfilesLive(loc[q].val)'
        <3>1. ProfilesLive(loc[q].val) /\ DOMAIN loc[q].val \subseteq Cells
            BY <1>1, <2>1, CellsOfCells DEF RequestOK, Place, ValueOf
        <3> QED BY <3>1 DEF ProfilesLive, ProfilesStay
    <2> QED BY <1>1, <2>1 DEF RequestOK, Place, ValueOf
<1> QED BY <1>1, <1>2, <1>3, <1>4 DEF RequestOK

\* A step of r keeps the invariant if it does so where r is, and in the store.
LEMMA StepKeeps ==
    ASSUME CacheInv, NEW r \in Requests, Others(r), ProfilesStay, StoreOK', Frames',
           pc' \in [Requests -> Labels], RequestOK(r)'
    PROVE  CacheInv'
<1>1. ASSUME NEW q \in Requests PROVE RequestOK(q)' BY OtherOK DEF Others
<1> QED BY <1>1 DEF CacheInv, StoreOK, TypeOK, Labels, AnswersTheQuestion, AnswerOK, RequestOK

\* So does a step of no request.
LEMMA StoreStepKeeps ==
    ASSUME CacheInv, UNCHANGED <<pc, job, loc, answer>>, ProfilesStay, StoreOK'
    PROVE  CacheInv'
<1>1. ASSUME NEW q \in Requests PROVE RequestOK(q)' BY OtherOK
<1>2. Frames' /\ pc' \in [Requests -> Labels] BY Parts DEF Frames
<1> QED BY <1>1, <1>2
        DEF CacheInv, StoreOK, TypeOK, Labels, AnswersTheQuestion, AnswerOK, RequestOK

\* Redis may lose entries as long as the rows stay as they are.
LEMMA StoreKept ==
    ASSUME CacheInv, UNCHANGED <<cell, clock>>, cache' \subseteq cache
    PROVE  StoreOK' /\ ProfilesStay
<1>1. StoreOK BY Parts
<1>2. ASSUME NEW e \in cache PROVE EntryOK(e)'
    BY <1>1, <1>2 DEF StoreOK, EntryOK, ProfilesLive, Live
<1> QED BY <1>1, <1>2 DEF StoreOK, ProfilesStay, Live

\* An answer.
LEMMA ReplyGood ==
    ASSUME CacheInv, NEW r \in Requests, NEW ok \in BOOLEAN, NEW val, Reply(r, ok, val),
           StoreOK', ProfilesStay,
           (ok /\ job[r].op \in Reads) => DOMAIN val = CellsOf(job[r])
    PROVE  CacheInv'
<1>1. /\ Frames /\ pc \in [Requests -> Labels] BY Parts
<1>2. /\ pc' = [pc EXCEPT ![r] = "done"] /\ loc' = [loc EXCEPT ![r] = Idle] /\ job' = job
      /\ answer' = [answer EXCEPT ![r] = [ok |-> ok, val |-> val]]
    BY DEF Reply
<1>3. /\ pc'[r] = "done" /\ loc'[r] = Idle /\ job'[r] = job[r]
      /\ answer'[r].ok = ok /\ answer'[r].val = val
    BY <1>1, <1>2 DEF Frames
<1>4. Others(r) BY <1>1, <1>2 DEF Others, Frames
<1>5. Frames' BY <1>1, <1>2 DEF Frames
<1>6. pc' \in [Requests -> Labels] BY <1>1, <1>2 DEF Labels
<1>7. RequestOK(r)' BY <1>3 DEF RequestOK, Holds, Place, AnswerOK, Idle
<1> QED BY <1>4, <1>5, <1>6, <1>7, StepKeeps

Local(self, val, seen, todo, found) ==
    [self |-> self, val |-> val, seen |-> seen, todo |-> todo, found |-> found]

\* A request that goes on.
LEMMA GotoGood ==
    ASSUME CacheInv, NEW r \in Requests, NEW l \in Labels \ {"done"}, Goto(r, l),
           NEW self \in Addresses \cup {0}, NEW val, NEW seen, NEW todo \in Seq(Patterns),
           NEW found \in SUBSET AllKeys,
           loc' = [loc EXCEPT ![r] = Local(self, val, seen, todo, found)],
           StoreOK', ProfilesStay, Place(r)'
    PROVE  CacheInv'
<1>1. /\ Frames /\ pc \in [Requests -> Labels] /\ RequestOK(r) BY Parts
<1>2. pc' = [pc EXCEPT ![r] = l] /\ job' = job /\ answer' = answer BY DEF Goto
<1>3. pc'[r] = l /\ loc'[r] = Local(self, val, seen, todo, found)
    BY <1>1, <1>2 DEF Frames
<1>4. Others(r) BY <1>1, <1>2 DEF Others, Frames
<1>5. Frames' BY <1>1, <1>2 DEF Frames
<1>6. pc' \in [Requests -> Labels] BY <1>1, <1>2
<1>7. RequestOK(r)' BY <1>1, <1>2, <1>3 DEF RequestOK, Holds, AnswerOK, Local
<1> QED BY <1>4, <1>5, <1>6, <1>7, StepKeeps

\* What a request holds.
LEMMA LocalIs ==
    ASSUME CacheInv, NEW r \in Requests
    PROVE  \E self \in Addresses \cup {0}, todo \in Seq(Patterns), found \in SUBSET AllKeys :
              \E val, seen : loc[r] = Local(self, val, seen, todo, found)
<1>1. RequestOK(r) BY Parts
<1> QED BY <1>1 DEF RequestOK, Holds, Local

\* A request that goes on as it is.
LEMMA MoveGood ==
    ASSUME CacheInv, NEW r \in Requests, NEW l \in Labels \ {"done"}, Goto(r, l),
           UNCHANGED loc, StoreOK', ProfilesStay, Place(r)'
    PROVE  CacheInv'
<1>1. Frames BY Parts
<1>2. PICK self \in Addresses \cup {0}, todo \in Seq(Patterns), found \in SUBSET AllKeys :
          \E val, seen : loc[r] = Local(self, val, seen, todo, found)
    BY LocalIs
<1>3. PICK val, seen : loc[r] = Local(self, val, seen, todo, found) BY <1>2
<1>4. loc' = [loc EXCEPT ![r] = Local(self, val, seen, todo, found)]
    BY <1>1, <1>3 DEF Frames
<1> QED BY <1>4, GotoGood

-----------------------------------------------------------------------------
(* The steps of a read.                                                    *)

\* The only method that reads profiles reads one, by its id.
LEMMA ProfileMethod ==
    ASSUME NEW x \in Reads, ReadOf[x].table = "profiles"
    PROVE  ReadOf[x].kind = "entity" /\ ~ReadOf[x].all
BY MethodsAssumption DEF ReadOf, Query, Entity, get_courses, get_course,
       get_categories, get_category, get_lessons_by_course, get_lesson, get_instructors,
       get_instructor, get_user_enrollments, get_course_enrollments, get_users,
       get_user_profile

\* What a request knows on its way.
LEMMA Reading ==
    ASSUME CacheInv, NEW r \in Requests, pc[r] \in {"get", "query", "insert", "set"}
    PROVE  /\ job[r] \in ReadJobs /\ job[r].op \in Reads /\ loc[r].self \in Addresses
           /\ MyKey(r) \in AllKeys
           /\ pc[r] = "set" => ValueOf(loc[r].val, job[r]) /\ ProfilesLive(loc[r].val)
<1>1. RequestOK(r) BY Parts
<1>2. job[r] \in ReadJobs /\ loc[r].self \in Addresses BY <1>1 DEF RequestOK, Place
<1>3. job[r].op \in Reads BY <1>2 DEF ReadJobs
<1>4. MyKey(r) \in AllKeys BY <1>2 DEF MyKey, AllKeys
<1> QED BY <1>1, <1>2, <1>3, <1>4 DEF RequestOK, Place

\* Where a request is that goes on as it is.
LEMMA Moves ==
    ASSUME CacheInv, NEW r \in Requests, NEW l, Goto(r, l)
    PROVE  pc'[r] = l /\ job' = job /\ (loc' = loc => loc'[r] = loc[r])
BY Parts DEF Goto

\* cache_get: a hit is the answer to this question.
LEMMA CacheGetGood ==
    ASSUME CacheInv, NEW r \in Requests, CacheGet(r)
    PROVE  CacheInv'
<1>1. pc[r] = "get" /\ UNCHANGED <<cell, clock, cache>> BY DEF CacheGet
<1>2. StoreOK' /\ ProfilesStay BY <1>1, StoreKept
<1>3. job[r] \in ReadJobs /\ loc[r].self \in Addresses BY <1>1, Reading
<1>4. ASSUME NEW e \in cache, e.key = MyKey(r), Reply(r, TRUE, e.val) PROVE CacheInv'
    <2>1. PICK j \in ReadJobs, a \in Addresses : e.key = Key(j, a) /\ ValueOf(e.val, j)
        BY Parts DEF StoreOK, EntryOK
    <2>2. CellsOf(job[r]) = CellsOf(j) BY <1>3, <1>4, <2>1, KeyIsQuestion DEF MyKey
    <2>3. PICK val : val = e.val OBVIOUS
    <2> QED BY <1>2, <1>4, <2>1, <2>2, <2>3, ReplyGood DEF ValueOf
<1>5. CASE Goto(r, "query") /\ UNCHANGED loc
    <2>1. Place(r)' BY <1>3, <1>5, Moves DEF Place
    <2>2. "query" \in Labels \ {"done"} BY DEF Labels
    <2> QED BY <1>2, <1>5, <2>1, <2>2, MoveGood
<1> QED BY <1>4, <1>5 DEF CacheGet

\* The SELECT.
LEMMA ReadTableGood ==
    ASSUME CacheInv, NEW r \in Requests, ReadTable(r)
    PROVE  CacheInv'
<1> DEFINE C == CellsOf(job[r])
           missing == ReadOf[job[r].op].kind = "entity" /\ \A c \in C : ~Live(c)
<1>1. pc[r] = "query" /\ UNCHANGED <<cell, clock, cache>> BY DEF ReadTable
<1>2. StoreOK' /\ ProfilesStay BY <1>1, StoreKept
<1>3. job[r] \in ReadJobs /\ job[r].op \in Reads /\ loc[r].self \in Addresses
    BY <1>1, Reading
<1>4. CASE Reply(r, FALSE, <<>>) BY <1>2, <1>4, ReplyGood
<1>5. CASE Goto(r, "insert") /\ UNCHANGED loc
    <2>1. Place(r)' BY <1>3, <1>5, Moves DEF Place
    <2>2. "insert" \in Labels \ {"done"} BY DEF Labels
    <2> QED BY <1>2, <1>5, <2>1, <2>2, MoveGood
<1>6. CASE ~missing /\ loc' = [loc EXCEPT ![r].val = Shown(C)] /\ Goto(r, "set")
    <2>1. PICK self \in Addresses \cup {0}, todo \in Seq(Patterns), found \in SUBSET AllKeys :
              \E val, seen : loc[r] = Local(self, val, seen, todo, found)
        BY LocalIs
    <2>2. PICK v, seen : loc[r] = Local(self, v, seen, todo, found) BY <2>1
    <2>3. PICK val : val = Shown(C) OBVIOUS
    <2>4. loc' = [loc EXCEPT ![r] = Local(self, val, seen, todo, found)]
        <3>1. [loc[r] EXCEPT !.val = val] = Local(self, val, seen, todo, found)
            BY <2>2 DEF Local
        <3> QED BY <1>6, <2>3, <3>1
    <2>5. loc'[r].val = val /\ loc'[r].self = loc[r].self
        BY <2>2, <2>4, Parts DEF Frames, Local
    <2>6. val \in [C -> Int] BY <1>2, <2>3, CellsOfCells, Parts DEF Shown, StoreOK
    <2>7. ASSUME NEW c \in C, c[1] = "profiles" PROVE Live(c)
        <3>1. ReadOf[job[r].op].table = "profiles" BY <2>7 DEF CellsOf
        <3>2. ReadOf[job[r].op].kind = "entity" /\ ~ReadOf[job[r].op].all
            BY <1>3, <3>1, ProfileMethod
        <3>3. PICK d \in C : Live(d) BY <1>6, <3>2
        <3>4. c = d BY <3>2 DEF CellsOf, Cells
        <3> QED BY <3>3, <3>4
    <2>8. ProfilesLive(val)' BY <1>1, <2>6, <2>7 DEF ProfilesLive, Live
    <2>9. Place(r)' BY <1>3, <1>6, <2>5, <2>6, <2>8, Moves DEF Place, ValueOf
    <2>10. "set" \in Labels \ {"done"} BY DEF Labels
    <2> QED BY <1>2, <1>6, <2>4, <2>9, <2>10, GotoGood
<1> QED BY <1>4, <1>5, <1>6 DEF ReadTable

\* The default profile.
LEMMA InsertProfileGood ==
    ASSUME CacheInv, NEW r \in Requests, InsertProfile(r)
    PROVE  CacheInv'
<1>1. pc[r] = "insert" /\ UNCHANGED cache BY DEF InsertProfile
<1>2. job[r] \in ReadJobs /\ loc[r].self \in Addresses BY <1>1, Reading
<1>3. CASE Reply(r, FALSE, <<>>) /\ UNCHANGED <<cell, clock>>
    <2>1. StoreOK' /\ ProfilesStay BY <1>1, <1>3, StoreKept
    <2> QED BY <1>3, <2>1, ReplyGood
<1>4. CASE /\ cell' = [cell EXCEPT ![<<"profiles", job[r].id>>] = clock + 1]
           /\ clock' = clock + 1
           /\ Goto(r, "query") /\ UNCHANGED loc
    <2>1. StoreOK BY Parts
    <2>2. \A c \in Cells : Live(c) => Live(c)' BY <1>4, <2>1 DEF Live, StoreOK
    <2>3. ASSUME NEW e \in cache PROVE EntryOK(e)'
        BY <2>1, <2>2, <2>3 DEF StoreOK, EntryOK, ProfilesLive
    <2>4. StoreOK'
        <3>1. clock' \in Nat /\ clock + 1 \in Int BY <1>4, <2>1 DEF StoreOK
        <3>2. cell' \in [Cells -> Int] BY <1>4, <2>1, <3>1 DEF StoreOK
        <3> QED BY <1>1, <2>1, <2>3, <3>1, <3>2 DEF StoreOK
    <2>5. ProfilesStay BY <2>2 DEF ProfilesStay
    <2>6. Place(r)' BY <1>2, <1>4, Moves DEF Place
    <2>7. "query" \in Labels \ {"done"} BY DEF Labels
    <2> QED BY <1>4, <2>4, <2>5, <2>6, <2>7, MoveGood
<1> QED BY <1>3, <1>4 DEF InsertProfile

\* cache_set: the key is that of the question the value answers.
LEMMA CacheSetGood ==
    ASSUME CacheInv, NEW r \in Requests, CacheSet(r)
    PROVE  CacheInv'
<1>1. /\ pc[r] = "set" /\ UNCHANGED <<cell, clock>> /\ Reply(r, TRUE, loc[r].val)
      /\ cache' = cache \/ cache' = Put(r, TRUE)
    BY DEF CacheSet
<1>2. /\ job[r] \in ReadJobs /\ loc[r].self \in Addresses /\ MyKey(r) \in AllKeys
      /\ ValueOf(loc[r].val, job[r]) /\ ProfilesLive(loc[r].val)
    BY <1>1, Reading
<1>3. StoreOK' /\ ProfilesStay
    <2>1. CASE cache' = cache BY <1>1, <2>1, StoreKept
    <2>2. CASE cache' = Put(r, TRUE)
        <3>1. StoreOK BY Parts
        <3>2. PICK new : /\ cache' = {e \in cache : e.key # MyKey(r)} \cup {new}
                         /\ new = [key |-> MyKey(r), val |-> loc[r].val, expires |-> TRUE,
                                   late |-> loc[r].val # Shown(CellsOf(job[r]))]
            BY <2>2 DEF Put
        <3>3. \A c \in Cells : Live(c)' = Live(c) BY <1>1 DEF Live
        <3>4. ASSUME NEW e \in cache PROVE EntryOK(e)'
            BY <1>1, <3>1, <3>4 DEF StoreOK, EntryOK, ProfilesLive, Live
        <3>5. EntryOK(new) BY <1>2, <3>2 DEF EntryOK, MyKey
        <3>6. EntryOK(new)' BY <1>1, <3>5 DEF EntryOK, ProfilesLive, Live
        <3>7. new.key \in AllKeys /\ new.expires \in BOOLEAN /\ new.late \in BOOLEAN
              /\ DOMAIN new.val \subseteq Cells
            BY <1>2, <3>2, CellsOfCells DEF ValueOf
        <3>8. StoreOK'
            <4>1. \A e \in cache' : e = new \/ (e \in cache /\ e.key # new.key) BY <3>2
            <4>2. \A e \in cache' : EntryOK(e)' BY <3>4, <3>6, <4>1
            <4>3. \A e \in cache' :
                     /\ e.key \in AllKeys /\ e.expires \in BOOLEAN /\ e.late \in BOOLEAN
                     /\ DOMAIN e.val \subseteq Cells
                BY <3>1, <3>7, <4>1 DEF StoreOK
            <4>4. \A e, f \in cache' : e.key = f.key => e = f BY <3>1, <4>1 DEF StoreOK
            <4> QED BY <1>1, <3>1, <4>2, <4>3, <4>4 DEF StoreOK
        <3> QED BY <1>1, <3>8 DEF ProfilesStay, Live
    <2> QED BY <1>1, <2>1, <2>2
<1>4. PICK val : val = loc[r].val OBVIOUS
<1> QED BY <1>1, <1>2, <1>3, <1>4, ReplyGood DEF ValueOf

-----------------------------------------------------------------------------
(* The steps of a change.                                                  *)

\* What a request knows that changes a table.
LEMMA Changing ==
    ASSUME CacheInv, NEW r \in Requests,
           pc[r] \in {"check", "commit", "refresh", "clear", "delete"}
    PROVE  /\ job[r] \in Changes /\ job[r].op \in Mutations \ Reads /\ job[r].id \in Ids
           /\ pc[r] = "refresh" => MutationOf(job[r]).refresh
           /\ pc[r] = "delete" => loc[r].todo # <<>>
<1>1. Place(r) BY Parts DEF RequestOK
<1>2. job[r] \in Changes BY <1>1 DEF Place
<1>3. \A x \in Reads : x \notin Mutations BY ReadMethods, MethodsAssumption
<1> QED BY <1>1, <1>2, <1>3 DEF Place, Changes

\* The lookup.
LEMMA CheckRowGood ==
    ASSUME CacheInv, NEW r \in Requests, CheckRow(r)
    PROVE  CacheInv'
<1>1. pc[r] = "check" /\ UNCHANGED <<cell, clock, cache>> BY DEF CheckRow, Refused
<1>2. StoreOK' /\ ProfilesStay BY <1>1, StoreKept
<1>3. job[r] \in Changes BY <1>1, Changing
<1>4. CASE Reply(r, FALSE, <<>>) BY <1>2, <1>4, ReplyGood
<1>5. CASE /\ loc' = [loc EXCEPT ![r].seen = Live(ReturnedRow(job[r]))]
           /\ Goto(r, "commit")
    <2>1. PICK self \in Addresses \cup {0}, todo \in Seq(Patterns), found \in SUBSET AllKeys :
              \E val, seen : loc[r] = Local(self, val, seen, todo, found)
        BY LocalIs
    <2>2. PICK val, s : loc[r] = Local(self, val, s, todo, found) BY <2>1
    <2>3. PICK seen : seen = Live(ReturnedRow(job[r])) OBVIOUS
    <2>4. [loc[r] EXCEPT !.seen = seen] = Local(self, val, seen, todo, found)
        BY <2>2 DEF Local
    <2>5. loc' = [loc EXCEPT ![r] = Local(self, val, seen, todo, found)]
        BY <1>5, <2>3, <2>4
    <2>6. Place(r)' BY <1>3, <1>5, Moves DEF Place
    <2>7. "commit" \in Labels \ {"done"} BY DEF Labels
    <2> QED BY <1>2, <1>5, <2>5, <2>6, <2>7, GotoGood
<1> QED BY <1>4, <1>5 DEF CheckRow, Refused

\* Rows after a change have a version, and profiles that are there stay.
LEMMA ApplyStays ==
    ASSUME CacheInv, NEW r \in Requests, pc[r] = "commit", cell' = Apply(r),
           clock' = clock + 1, UNCHANGED cache
    PROVE  StoreOK' /\ ProfilesStay
<1>1. StoreOK BY Parts
<1>2. clock \in Nat /\ clock + 1 \in Int /\ clock + 1 > 0 BY <1>1 DEF StoreOK
<1>3. job[r] \in Changes BY Changing
<1>4. ASSUME NEW effect, NEW v \in Int PROVE After(effect, v) \in Int
    BY <1>2 DEF After
<1>5. cell' \in [Cells -> Int] BY <1>1, <1>4 DEF StoreOK, Apply
<1>6. ASSUME NEW c \in Cells, c[1] = "profiles", Live(c) PROVE Live(c)'
    <2>1. CASE c \notin Writes(job[r]) BY <1>6, <2>1 DEF Apply, Live
    <2>2. CASE c \in Writes(job[r])
        <3>1. MutationOf(job[r]).effect[c[1]] = "put"
            BY <1>3, <1>6, <2>2, MutationFacts DEF Writes
        <3>2. cell'[c] = clock + 1 BY <2>2, <3>1 DEF Apply, After
        <3> QED BY <1>2, <3>2 DEF Live
    <2> QED BY <2>1, <2>2
<1>7. ProfilesStay BY <1>6 DEF ProfilesStay
<1>8. ASSUME NEW e \in cache PROVE EntryOK(e)'
    BY <1>1, <1>7, <1>8 DEF StoreOK, EntryOK, ProfilesLive, ProfilesStay
<1>9. StoreOK' BY <1>1, <1>2, <1>5, <1>8 DEF StoreOK
<1> QED BY <1>7, <1>9

\* The change and its COMMIT.
LEMMA CommitGood ==
    ASSUME CacheInv, NEW r \in Requests, CommitChange(r)
    PROVE  CacheInv'
<1>1. pc[r] = "commit" BY DEF CommitChange
<1>2. job[r] \in Changes BY <1>1, Changing
<1>3. CASE Refused(r)
    <2>1. StoreOK' /\ ProfilesStay BY <1>3, StoreKept DEF Refused
    <2> QED BY <1>3, <2>1, ReplyGood DEF Refused
<1>4. CASE /\ cell' = Apply(r) /\ clock' = clock + 1 /\ UNCHANGED cache
           /\ loc' = [loc EXCEPT ![r].todo = MutationOf(job[r]).clears]
           /\ Goto(r, IF MutationOf(job[r]).refresh THEN "refresh" ELSE "clear")
    <2>1. StoreOK' /\ ProfilesStay BY <1>1, <1>4, ApplyStays
    <2>2. PICK self \in Addresses \cup {0}, t \in Seq(Patterns), found \in SUBSET AllKeys :
              \E val, seen : loc[r] = Local(self, val, seen, t, found)
        BY LocalIs
    <2>3. PICK val, seen : loc[r] = Local(self, val, seen, t, found) BY <2>2
    <2>4. PICK todo \in Seq(Patterns) : todo = MutationOf(job[r]).clears
        BY <1>2, MutationFacts
    <2>5. [loc[r] EXCEPT !.todo = todo] = Local(self, val, seen, todo, found)
        BY <2>3 DEF Local
    <2>6. loc' = [loc EXCEPT ![r] = Local(self, val, seen, todo, found)]
        BY <1>4, <2>4, <2>5
    <2>7. PICK l \in {"refresh", "clear"} :
              l = IF MutationOf(job[r]).refresh THEN "refresh" ELSE "clear"
        OBVIOUS
    <2>8. Goto(r, l) BY <1>4, <2>7
    <2>9. Place(r)' BY <1>2, <2>7, <2>8, Moves DEF Place
    <2>10. l \in Labels \ {"done"} BY DEF Labels
    <2> QED BY <2>1, <2>6, <2>8, <2>9, <2>10, GotoGood
<1> QED BY <1>3, <1>4 DEF CommitChange

\* db.refresh.
LEMMA RefreshGood ==
    ASSUME CacheInv, NEW r \in Requests, RefreshRow(r)
    PROVE  CacheInv'
<1>1. pc[r] = "refresh" /\ UNCHANGED <<cell, clock, cache>> BY DEF RefreshRow
<1>2. StoreOK' /\ ProfilesStay BY <1>1, StoreKept
<1>3. job[r] \in Changes BY <1>1, Changing
<1>4. CASE Reply(r, FALSE, <<>>) BY <1>2, <1>4, ReplyGood
<1>5. CASE Goto(r, "clear") /\ UNCHANGED loc
    <2>1. Place(r)' BY <1>3, <1>5, Moves DEF Place
    <2>2. "clear" \in Labels \ {"done"} BY DEF Labels
    <2> QED BY <1>2, <1>5, <2>1, <2>2, MoveGood
<1> QED BY <1>4, <1>5 DEF RefreshRow

\* The next pattern.
LEMMA NextPatternGood ==
    ASSUME CacheInv, NEW r \in Requests, pc[r] \in {"clear", "delete"}, loc[r].todo # <<>>,
           NextPattern(r), Goto(r, "clear"), StoreOK', ProfilesStay
    PROVE  CacheInv'
<1>1. job[r] \in Changes BY Changing
<1>2. PICK self \in Addresses \cup {0}, t \in Seq(Patterns), f \in SUBSET AllKeys :
          \E val, seen : loc[r] = Local(self, val, seen, t, f)
    BY LocalIs
<1>3. PICK val, seen : loc[r] = Local(self, val, seen, t, f) BY <1>2
<1>4. t # <<>> BY <1>3 DEF Local
<1>5. PICK todo \in Seq(Patterns), found \in SUBSET AllKeys : todo = Tail(t) /\ found = {}
    <2>1. Tail(t) \in Seq(Patterns) BY <1>4
    <2> QED BY <2>1
<1>6. loc' = [loc EXCEPT ![r] = Local(self, val, seen, todo, found)]
    <2>1. loc[r].todo = t BY <1>3 DEF Local
    <2>2. loc' = [loc EXCEPT ![r] = [[loc[r] EXCEPT !.todo = todo] EXCEPT !.found = found]]
        BY <1>5, <2>1, Parts DEF NextPattern, Frames
    <2>3. [loc[r] EXCEPT !.todo = todo] = Local(self, val, seen, todo, f)
        BY <1>3 DEF Local
    <2>4. [Local(self, val, seen, todo, f) EXCEPT !.found = found]
             = Local(self, val, seen, todo, found)
        BY DEF Local
    <2> QED BY <2>2, <2>3, <2>4
<1>7. Place(r)' BY <1>1, Moves DEF Place
<1>8. "clear" \in Labels \ {"done"} BY DEF Labels
<1> QED BY <1>6, <1>7, <1>8, GotoGood

\* KEYS.
LEMMA ClearKeysGood ==
    ASSUME CacheInv, NEW r \in Requests, ClearKeys(r)
    PROVE  CacheInv'
<1>1. pc[r] = "clear" /\ UNCHANGED <<cell, clock, cache>> BY DEF ClearKeys
<1>2. StoreOK' /\ ProfilesStay BY <1>1, StoreKept
<1>3. job[r] \in Changes /\ job[r].op \notin Reads BY <1>1, Changing
<1>4. CASE Reply(r, TRUE, <<>>) BY <1>2, <1>3, <1>4, ReplyGood
<1>5. CASE loc[r].todo # <<>> /\ NextPattern(r) /\ Goto(r, "clear")
    BY <1>1, <1>2, <1>5, NextPatternGood
<1>6. CASE /\ loc[r].todo # <<>> /\ Goto(r, "delete")
           /\ loc' = [loc EXCEPT ![r].found =
                         {k \in {e.key : e \in cache} : Matches(Head(loc[r].todo), k)}]
    <2>1. PICK self \in Addresses \cup {0}, todo \in Seq(Patterns), f \in SUBSET AllKeys :
              \E val, seen : loc[r] = Local(self, val, seen, todo, f)
        BY LocalIs
    <2>2. PICK val, seen : loc[r] = Local(self, val, seen, todo, f) BY <2>1
    <2>3. PICK found \in SUBSET AllKeys :
              found = {k \in {e.key : e \in cache} : Matches(Head(loc[r].todo), k)}
        BY Parts DEF StoreOK
    <2>4. [loc[r] EXCEPT !.found = found] = Local(self, val, seen, todo, found)
        BY <2>2 DEF Local
    <2>5. loc' = [loc EXCEPT ![r] = Local(self, val, seen, todo, found)]
        BY <1>6, <2>3, <2>4
    <2>6. loc'[r].todo = loc[r].todo BY <2>2, <2>5, Parts DEF Frames, Local
    <2>7. loc[r].todo # <<>> /\ Goto(r, "delete") BY <1>6
    <2>8. Place(r)' BY <1>3, <2>6, <2>7, Moves DEF Place
    <2>9. "delete" \in Labels \ {"done"} BY DEF Labels
    <2> QED BY <1>2, <2>5, <2>7, <2>8, <2>9, GotoGood
<1> QED BY <1>4, <1>5, <1>6 DEF ClearKeys

\* DEL.
LEMMA ClearDeleteGood ==
    ASSUME CacheInv, NEW r \in Requests, ClearDelete(r)
    PROVE  CacheInv'
<1>1. /\ pc[r] = "delete" /\ UNCHANGED <<cell, clock>> /\ cache' \subseteq cache
      /\ NextPattern(r) /\ Goto(r, "clear")
    BY DEF ClearDelete
<1>2. StoreOK' /\ ProfilesStay BY <1>1, StoreKept
<1>3. loc[r].todo # <<>> BY <1>1, Changing
<1> QED BY <1>1, <1>2, <1>3, NextPatternGood

\* A request arrives.
LEMMA ArriveGood ==
    ASSUME CacheInv, NEW r \in Requests, Arrive(r)
    PROVE  CacheInv'
<1>1. PICK j \in ReadJobs \cup MutationJobs, a \in Addresses :
          /\ job' = [job EXCEPT ![r] = j]
          /\ loc' = [loc EXCEPT ![r].self = a]
          /\ pc' = [pc EXCEPT ![r] = IF j.op \in Reads THEN "get" ELSE "check"]
          /\ UNCHANGED <<cell, clock, cache, answer>>
    BY DEF Arrive
<1>2. StoreOK' /\ ProfilesStay BY <1>1, StoreKept
<1>3. /\ Frames /\ pc \in [Requests -> Labels] /\ RequestOK(r) BY Parts
<1>4. j \in ReadJobs \cup Changes /\ (j.op \in Reads => j \in ReadJobs)
      /\ (j.op \notin Reads => j \in Changes)
    <2>1. \A x \in Reads : x \notin Mutations BY ReadMethods, MethodsAssumption
    <2> QED BY <2>1 DEF ReadJobs, MutationJobs, Changes
<1>5. PICK self \in Addresses \cup {0}, todo \in Seq(Patterns), found \in SUBSET AllKeys :
          \E val, seen : loc[r] = Local(self, val, seen, todo, found)
    BY LocalIs
<1>6. PICK val, seen : loc[r] = Local(self, val, seen, todo, found) BY <1>5
<1>7. [loc[r] EXCEPT !.self = a] = Local(a, val, seen, todo, found) BY <1>6 DEF Local
<1>8. loc' = [loc EXCEPT ![r] = Local(a, val, seen, todo, found)] BY <1>1, <1>7
<1>9. /\ pc'[r] = (IF j.op \in Reads THEN "get" ELSE "check") /\ job'[r] = j
      /\ loc'[r] = Local(a, val, seen, todo, found) /\ answer'[r] = answer[r]
    BY <1>1, <1>3, <1>8 DEF Frames
<1>10. Others(r) BY <1>1, <1>3, <1>8 DEF Others, Frames
<1>11. Frames' BY <1>1, <1>3, <1>4, <1>8 DEF Frames
<1>12. pc' \in [Requests -> Labels] BY <1>1, <1>3 DEF Labels
<1>13. Holds(r)' BY <1>9 DEF Holds, Local
<1>14. Place(r)' BY <1>4, <1>9 DEF Place, Local
<1>15. RequestOK(r)' BY <1>3, <1>9, <1>13, <1>14 DEF RequestOK, AnswerOK, Local
<1> QED BY <1>2, <1>10, <1>11, <1>12, <1>15, StepKeeps

\* The steps without a request: a key expires.
LEMMA ExpireGood ==
    ASSUME CacheInv, NEW k, Expire(k)
    PROVE  CacheInv'
<1>1. StoreOK' /\ ProfilesStay BY StoreKept DEF Expire
<1> QED BY <1>1, StoreStepKeeps DEF Expire

-----------------------------------------------------------------------------
(* Types, and answers.                                                     *)

\* At first Redis is empty and nobody has asked.
LEMMA InitInv == Init => CacheInv
<1> SUFFICES ASSUME Init PROVE CacheInv OBVIOUS
<1>1. StoreOK BY DEF Init, StoreOK
<1>2. Frames BY DEF Init, Frames
<1>3. pc \in [Requests -> Labels] BY DEF Init, Labels
<1>4. ASSUME NEW r \in Requests PROVE RequestOK(r)
    <2>1. loc[r] = Idle /\ pc[r] = "new" /\ answer[r] = NoAnswer BY DEF Init
    <2>2. Holds(r) BY <2>1 DEF Holds, Idle
    <2>3. Place(r) /\ AnswerOK(r) BY <2>1 DEF Place, AnswerOK
    <2>4. loc[r].self = 0 /\ loc[r].found = {} BY <2>1 DEF Idle
    <2>5. answer[r].ok \in BOOLEAN BY <2>1 DEF NoAnswer
    <2> QED BY <2>2, <2>3, <2>4, <2>5 DEF RequestOK
<1> QED BY <1>1, <1>2, <1>3, <1>4, Parts

\* The invariant is inductive.
LEMMA NextInv == CacheInv /\ [Next]_vars => CacheInv'
<1> SUFFICES ASSUME CacheInv, [Next]_vars PROVE CacheInv' OBVIOUS
<1>1. ASSUME NEW r \in Requests, Arrive(r) \/ Step(r) \/ Crash(r) PROVE CacheInv'
    <2>1. CASE Arrive(r) BY <2>1, ArriveGood
    <2>2. CASE CacheGet(r) BY <2>2, CacheGetGood
    <2>3. CASE ReadTable(r) BY <2>3, ReadTableGood
    <2>4. CASE InsertProfile(r) BY <2>4, InsertProfileGood
    <2>5. CASE CacheSet(r) BY <2>5, CacheSetGood
    <2>6. CASE CheckRow(r) BY <2>6, CheckRowGood
    <2>7. CASE CommitChange(r) BY <2>7, CommitGood
    <2>8. CASE RefreshRow(r) BY <2>8, RefreshGood
    <2>9. CASE ClearKeys(r) BY <2>9, ClearKeysGood
    <2>10. CASE ClearDelete(r) BY <2>10, ClearDeleteGood
    <2>11. CASE Crash(r)
        <3>1. Reply(r, FALSE, <<>>) /\ UNCHANGED <<cell, clock, cache>>
            BY <2>11 DEF Crash
        <3>2. StoreOK' /\ ProfilesStay BY <3>1, StoreKept
        <3> QED BY <3>1, <3>2, ReplyGood
    <2> QED BY <1>1, <2>1, <2>2, <2>3, <2>4, <2>5, <2>6, <2>7, <2>8, <2>9, <2>10, <2>11
            DEF Step
<1>2. CASE \E k \in Keys : Expire(k) BY <1>2, ExpireGood
<1>3. CASE UNCHANGED vars
    <2>1. StoreOK' /\ ProfilesStay BY <1>3, StoreKept DEF vars
    <2> QED BY <1>3, <2>1, StoreStepKeeps DEF vars
<1> QED BY <1>1, <1>2, <1>3 DEF Next, AllAnswered

\* The invariant holds of every behaviour.
LEMMA SpecInv == Spec => []CacheInv
BY InitInv, NextInv, PTL DEF Spec

\* The variables have their types; no key has two values, and each is one of a question.
THEOREM TypesHold == Spec => []TypeOK
<1>1. CacheInv => TypeOK BY DEF CacheInv
<1> QED BY <1>1, SpecInv, PTL

\* Whatever fails, a read is answered with the rows it asked for: the value found under a
\* key is one that was read for the same question.
THEOREM ReadsAreAnswered == Spec => []AnswersTheQuestion
<1>1. CacheInv => AnswersTheQuestion BY DEF CacheInv
<1> QED BY <1>1, SpecInv, PTL

-----------------------------------------------------------------------------
(* Who clears what is wrong.                                               *)

\* A step of r leaves the other requests alone.
LEMMA OthersStep ==
    ASSUME CacheInv, NEW r \in Requests, Arrive(r) \/ Step(r)
    PROVE  Others(r)
<1>1. Frames /\ pc \in [Requests -> Labels] BY Parts
<1>2. ASSUME NEW ok, NEW val, Reply(r, ok, val) PROVE Others(r)
    BY <1>1, <1>2 DEF Others, Reply, Frames
<1>3. ASSUME NEW l, Goto(r, l), NEW x, loc' = [loc EXCEPT ![r] = x] PROVE Others(r)
    BY <1>1, <1>3 DEF Others, Goto, Frames
<1>4. ASSUME NEW l, Goto(r, l), UNCHANGED loc PROVE Others(r)
    BY <1>1, <1>4 DEF Others, Goto, Frames
<1>5. ASSUME NEW l, Goto(r, l), NextPattern(r) PROVE Others(r)
    BY <1>1, <1>5 DEF Others, Goto, NextPattern, Frames
<1>6. CASE Arrive(r) BY <1>1, <1>6 DEF Arrive, Others, Frames
<1>7. CASE CacheGet(r) BY <1>2, <1>4, <1>7 DEF CacheGet
<1>8. CASE ReadTable(r)
    <2>1. CASE Reply(r, FALSE, <<>>) BY <1>2, <2>1
    <2>2. CASE Goto(r, "insert") /\ UNCHANGED loc BY <1>4, <2>2
    <2>3. CASE /\ loc' = [loc EXCEPT ![r].val = Shown(CellsOf(job[r]))] /\ Goto(r, "set")
        BY <1>3, <2>3
    <2> QED BY <1>8, <2>1, <2>2, <2>3 DEF ReadTable
<1>9. CASE InsertProfile(r) BY <1>2, <1>4, <1>9 DEF InsertProfile
<1>10. CASE CacheSet(r) BY <1>2, <1>10 DEF CacheSet
<1>11. CASE CheckRow(r)
    <2>1. CASE Reply(r, FALSE, <<>>) BY <1>2, <2>1
    <2>2. CASE /\ loc' = [loc EXCEPT ![r].seen = Live(ReturnedRow(job[r]))]
               /\ Goto(r, "commit")
        BY <1>3, <2>2
    <2> QED BY <1>11, <2>1, <2>2 DEF CheckRow, Refused
<1>12. CASE CommitChange(r)
    <2>1. CASE Reply(r, FALSE, <<>>) BY <1>2, <2>1
    <2>2. CASE /\ loc' = [loc EXCEPT ![r].todo = MutationOf(job[r]).clears]
               /\ Goto(r, IF MutationOf(job[r]).refresh THEN "refresh" ELSE "clear")
        BY <1>3, <2>2
    <2> QED BY <1>12, <2>1, <2>2 DEF CommitChange, Refused
<1>13. CASE RefreshRow(r) BY <1>2, <1>4, <1>13 DEF RefreshRow
<1>14. CASE ClearKeys(r)
    <2>1. CASE Reply(r, TRUE, <<>>) BY <1>2, <2>1
    <2>2. CASE NextPattern(r) /\ Goto(r, "clear") BY <1>5, <2>2
    <2>3. CASE /\ Goto(r, "delete")
               /\ loc' = [loc EXCEPT ![r].found =
                             {k \in {e.key : e \in cache} : Matches(Head(loc[r].todo), k)}]
        BY <1>3, <2>3
    <2> QED BY <1>14, <2>1, <2>2, <2>3 DEF ClearKeys
<1>15. CASE ClearDelete(r) BY <1>5, <1>15 DEF ClearDelete
<1> QED BY <1>6, <1>7, <1>8, <1>9, <1>10, <1>11, <1>12, <1>13, <1>14, <1>15 DEF Step

\* Who does nothing clears what it did.
LEMMA OthersClear ==
    ASSUME NEW q, NEW e, NEW c, Clears(q, e, c), pc'[q] = pc[q], job'[q] = job[q],
           loc'[q] = loc[q], cell'[c] = cell[c]
    PROVE  Clears(q, e, c)'
BY DEF Clears, Due, Live

\* A step that changes no row is good if r still clears what it did, and stores nothing
\* that is wrong but what is late.
LEMMA StepClears ==
    ASSUME ClearInv, NEW r \in Requests, Others(r), UNCHANGED cell,
           \A e \in cache' : e \in cache \/ e.late \/ \A c \in DOMAIN e.val : ~Wrong(e, c),
           \A e \in cache' : \A c \in DOMAIN e.val : Clears(r, e, c) => Clears(r, e, c)'
    PROVE  ClearInv'
<1>1. SUFFICES ASSUME NEW e \in cache', ~e.late, Covered(e), NEW c \in DOMAIN e.val,
                      Wrong(e, c)'
               PROVE  \E q \in Requests : Clears(q, e, c)'
    BY DEF ClearInv
<1>2. Wrong(e, c) BY <1>1 DEF Wrong, Live
<1>3. PICK q \in Requests : Clears(q, e, c) BY <1>1, <1>2 DEF ClearInv
<1>4. CASE q = r BY <1>3, <1>4
<1>5. CASE q # r BY <1>3, <1>5, OthersClear DEF Others
<1> QED BY <1>4, <1>5

\* So is every step before the change, and every step of a read.
LEMMA QuietClears ==
    ASSUME CacheInv, ClearInv, NEW r \in Requests, Arrive(r) \/ Step(r), UNCHANGED cell,
           pc[r] \notin {"refresh", "clear", "delete"},
           \A e \in cache' : e \in cache \/ e.late \/ \A c \in DOMAIN e.val : ~Wrong(e, c)
    PROVE  ClearInv'
<1>1. \A e, c : ~Clears(r, e, c) BY DEF Clears, Due
<1> QED BY <1>1, OthersStep, StepClears

\* What cache_set stores is right, or late.
LEMMA CacheSetClears ==
    ASSUME CacheInv, ClearInv, NEW r \in Requests, CacheSet(r)
    PROVE  ClearInv'
<1>1. pc[r] = "set" /\ UNCHANGED cell /\ (cache' = cache \/ cache' = Put(r, TRUE))
    BY DEF CacheSet
<1>2. ValueOf(loc[r].val, job[r]) BY <1>1, Reading
<1>3. ASSUME NEW e \in cache', e \notin cache, ~e.late PROVE \A c \in DOMAIN e.val : ~Wrong(e, c)
    <2>1. e = [key |-> MyKey(r), val |-> loc[r].val, expires |-> TRUE,
               late |-> loc[r].val # Shown(CellsOf(job[r]))]
        BY <1>1, <1>3 DEF Put
    <2>2. e.val = loc[r].val /\ e.val = Shown(CellsOf(job[r])) BY <1>3, <2>1
    <2>3. DOMAIN e.val = CellsOf(job[r]) BY <1>2, <2>2 DEF ValueOf
    <2> QED BY <2>2, <2>3 DEF Shown, Wrong
<1> QED BY <1>1, <1>3, QuietClears DEF Step

\* A profile that was not there is in no entry.
LEMMA InsertProfileClears ==
    ASSUME CacheInv, ClearInv, NEW r \in Requests, InsertProfile(r)
    PROVE  ClearInv'
<1>1. pc[r] = "insert" /\ UNCHANGED cache BY DEF InsertProfile
<1>2. CASE UNCHANGED cell BY <1>1, <1>2, QuietClears DEF Step
<1>3. CASE /\ ~Live(<<"profiles", job[r].id>>)
           /\ cell' = [cell EXCEPT ![<<"profiles", job[r].id>>] = clock + 1]
    <2>1. SUFFICES ASSUME NEW e \in cache, ~e.late, Covered(e), NEW c \in DOMAIN e.val,
                          Wrong(e, c)'
                   PROVE  \E q \in Requests : Clears(q, e, c)'
        BY <1>1 DEF ClearInv
    <2>2. /\ cell \in [Cells -> Int] /\ DOMAIN e.val \subseteq Cells /\ ProfilesLive(e.val)
        BY Parts DEF StoreOK, EntryOK
    <2>3. c # <<"profiles", job[r].id>> BY <1>3, <2>2 DEF ProfilesLive
    <2>4. cell'[c] = cell[c] BY <1>3, <2>2, <2>3
    <2>5. Wrong(e, c) BY <2>1, <2>4 DEF Wrong, Live
    <2>6. PICK q \in Requests : Clears(q, e, c) BY <2>1, <2>5 DEF ClearInv
    <2>7. q # r BY <1>1, <2>6 DEF Clears, Due
    <2> QED BY <2>4, <2>6, <2>7, OthersStep, OthersClear DEF Others, Step
<1> QED BY <1>2, <1>3 DEF InsertProfile

\* Who commits a change clears the entries of the rows it has changed.
LEMMA CommitClears ==
    ASSUME CacheInv, ClearInv, NEW r \in Requests, CommitChange(r)
    PROVE  ClearInv'
<1>1. pc[r] = "commit" /\ UNCHANGED cache BY DEF CommitChange, Refused
<1>2. CASE Refused(r) BY <1>1, <1>2, QuietClears DEF Refused, Step
<1>3. CASE /\ ~Clash(r) /\ cell' = Apply(r)
           /\ loc' = [loc EXCEPT ![r].todo = MutationOf(job[r]).clears]
           /\ Goto(r, IF MutationOf(job[r]).refresh THEN "refresh" ELSE "clear")
    <2>1. SUFFICES ASSUME NEW e \in cache, ~e.late, Covered(e), NEW c \in DOMAIN e.val,
                          Wrong(e, c)'
                   PROVE  \E q \in Requests : Clears(q, e, c)'
        BY <1>1 DEF ClearInv
    <2>2. c \in Cells /\ clock \in Nat BY Parts DEF StoreOK
    <2>3. CASE c \notin Writes(job[r])
        <3>1. cell'[c] = cell[c] BY <1>3, <2>2, <2>3 DEF Apply
        <3>2. Wrong(e, c) BY <2>1, <3>1 DEF Wrong, Live
        <3>3. PICK q \in Requests : Clears(q, e, c) BY <2>1, <3>2 DEF ClearInv
        <3>4. q # r BY <1>1, <3>3 DEF Clears, Due
        <3> QED BY <3>1, <3>3, <3>4, OthersStep, OthersClear DEF Others, Step
    <2>4. CASE c \in Writes(job[r])
        <3>1. job[r] \in Changes BY <1>1, Changing
        <3>2. PICK j \in Changes : j = job[r] BY <3>1
        <3>3. j = [op |-> j.op, id |-> j.id] /\ j.op \in Mutations /\ j.id \in Ids
            BY DEF Changes
        <3>4. PICK n \in DOMAIN MutationOf(j).clears : Matches(MutationOf(j).clears[n], e.key)
            BY <2>1, <2>4, <3>2, <3>3 DEF Covered
        <3>5. n \in 1 .. Len(MutationOf(j).clears) BY <3>4, MutationFacts
        <3>6. loc'[r].todo = MutationOf(j).clears
            <4>1. Frames BY Parts
            <4>2. PICK self \in Addresses \cup {0}, t \in Seq(Patterns), found \in SUBSET AllKeys :
                      \E val, seen : loc[r] = Local(self, val, seen, t, found)
                BY LocalIs
            <4>3. PICK val, seen : loc[r] = Local(self, val, seen, t, found) BY <4>2
            <4>4. [loc[r] EXCEPT !.todo = MutationOf(j).clears]
                     = Local(self, val, seen, MutationOf(j).clears, found)
                BY <4>3 DEF Local
            <4>5. loc'[r] = [loc[r] EXCEPT !.todo = MutationOf(j).clears]
                BY <1>3, <3>2, <4>1 DEF Frames
            <4> QED BY <4>4, <4>5 DEF Local
        <3>7. /\ pc'[r] = (IF MutationOf(j).refresh THEN "refresh" ELSE "clear")
              /\ job' = job
            BY <1>3, <3>2, Moves
        <3>8. Due(r, e)' BY <3>4, <3>5, <3>6, <3>7 DEF Due
        <3>9. MutationOf(j).refresh => Live(c)'
            <4>1. SUFFICES ASSUME MutationOf(j).refresh PROVE Live(c)' OBVIOUS
            <4>2. /\ c = ReturnedRow(j) /\ c[1] = MutationOf(j).row
                  /\ MutationOf(j).effect[c[1]] \in {"create", "put", "update"}
                BY <2>2, <2>4, <3>2, <4>1, MutationFacts DEF Writes, ReturnedRow, Cells
            <4>3. MutationOf(j).effect[c[1]] = "update" => cell[c] > 0
                BY <1>3, <3>2, <4>2 DEF Clash, Live
            <4>4. After(MutationOf(j).effect[c[1]], cell[c]) = clock + 1
                BY <4>2, <4>3 DEF After
            <4>5. cell'[c] = clock + 1 BY <1>3, <2>2, <2>4, <3>2, <4>4 DEF Apply
            <4> QED BY <2>2, <4>5 DEF Live
        <3>10. Clears(r, e, c)' BY <2>4, <3>1, <3>2, <3>7, <3>8, <3>9 DEF Clears
        <3> QED BY <3>10
    <2> QED BY <2>3, <2>4
<1> QED BY <1>2, <1>3 DEF CommitChange

\* Who finds the row gone has nothing left to clear: who deleted the row clears it.
LEMMA RefreshClears ==
    ASSUME CacheInv, ClearInv, NEW r \in Requests, RefreshRow(r)
    PROVE  ClearInv'
<1>1. pc[r] = "refresh" /\ UNCHANGED <<cell, cache>> BY DEF RefreshRow
<1>2. job[r] \in Changes /\ MutationOf(job[r]).refresh BY <1>1, Changing
<1>3. ASSUME NEW e \in cache, NEW c \in DOMAIN e.val, Clears(r, e, c) PROVE Clears(r, e, c)'
    <2>1. Live(c) /\ c \in Writes(job[r]) BY <1>1, <1>3 DEF Clears
    <2>2. c = ReturnedRow(job[r])
        BY <1>2, <2>1, MutationFacts DEF Writes, ReturnedRow, Cells
    <2>3. Goto(r, "clear") /\ UNCHANGED loc BY <2>1, <2>2 DEF RefreshRow
    <2>4. pc'[r] = "clear" /\ job' = job BY <2>3, Moves
    <2> QED BY <1>1, <1>3, <2>3, <2>4 DEF Clears, Due
<1> QED BY <1>1, <1>3, OthersStep, StepClears DEF Step

\* The patterns that are left.
LEMMA TailFacts ==
    ASSUME NEW s \in Seq(Patterns), s # <<>>
    PROVE  /\ Head(s) = s[1] /\ Len(Tail(s)) = Len(s) - 1
           /\ \A n \in 2 .. Len(s) : n - 1 \in 1 .. Len(Tail(s)) /\ Tail(s)[n - 1] = s[n]
OBVIOUS

\* Where NextPattern leaves a request.
LEMMA AfterNextPattern ==
    ASSUME CacheInv, NEW r \in Requests, NextPattern(r), Goto(r, "clear")
    PROVE  pc'[r] = "clear" /\ job' = job /\ loc'[r].todo = Tail(loc[r].todo)
<1>1. Frames BY Parts
<1>2. PICK self \in Addresses \cup {0}, t \in Seq(Patterns), f \in SUBSET AllKeys :
          \E val, seen : loc[r] = Local(self, val, seen, t, f)
    BY LocalIs
<1>3. PICK val, seen : loc[r] = Local(self, val, seen, t, f) BY <1>2
<1>4. PICK todo, found : todo = Tail(t) /\ found = {} OBVIOUS
<1>5. loc[r].todo = t BY <1>3 DEF Local
<1>6. loc' = [loc EXCEPT ![r] = [[loc[r] EXCEPT !.todo = todo] EXCEPT !.found = found]]
    BY <1>1, <1>4, <1>5 DEF NextPattern, Frames
<1>7. loc'[r] = [[loc[r] EXCEPT !.todo = todo] EXCEPT !.found = found]
    BY <1>1, <1>6 DEF Frames
<1>8. loc'[r].todo = todo BY <1>3, <1>7 DEF Local
<1> QED BY <1>4, <1>5, <1>8, Moves

\* A pattern leaves the list when no entry matches it any more, or they have been noted.
LEMMA ClearKeysClears ==
    ASSUME CacheInv, ClearInv, "clear" \notin RedisFails, NEW r \in Requests, ClearKeys(r)
    PROVE  ClearInv'
<1> DEFINE found == {k \in {e.key : e \in cache} : Matches(Head(loc[r].todo), k)}
<1>1. pc[r] = "clear" /\ UNCHANGED <<cell, cache>> BY DEF ClearKeys
<1>2. loc[r].todo \in Seq(Patterns) BY Parts DEF RequestOK, Holds
<1>3. ASSUME NEW e \in cache, NEW c \in DOMAIN e.val, Clears(r, e, c) PROVE Clears(r, e, c)'
    <2>1. PICK n \in 1 .. Len(loc[r].todo) : Matches(loc[r].todo[n], e.key)
        BY <1>1, <1>3 DEF Clears, Due
    <2>2. loc[r].todo # <<>> BY <2>1
    <2>3. n = 1 => e.key \in found BY <1>2, <2>1, <2>2, TailFacts
    <2>4. CASE found = {} /\ NextPattern(r) /\ Goto(r, "clear")
        <3>1. n \in 2 .. Len(loc[r].todo) BY <1>2, <2>1, <2>3, <2>4
        <3>2. /\ n - 1 \in 1 .. Len(Tail(loc[r].todo))
              /\ Tail(loc[r].todo)[n - 1] = loc[r].todo[n]
            BY <1>2, <2>2, <3>1, TailFacts
        <3>3. pc'[r] = "clear" /\ job' = job /\ loc'[r].todo = Tail(loc[r].todo)
            BY <2>4, AfterNextPattern
        <3>4. Due(r, e)' BY <2>1, <3>2, <3>3 DEF Due
        <3> QED BY <1>1, <1>3, <3>3, <3>4 DEF Clears, Live
    <2>5. CASE loc' = [loc EXCEPT ![r].found = found] /\ Goto(r, "delete")
        <3>1. pc'[r] = "delete" /\ job' = job BY <2>5, Moves
        <3>2. PICK self \in Addresses \cup {0}, t \in Seq(Patterns), f \in SUBSET AllKeys :
                  \E val, seen : loc[r] = Local(self, val, seen, t, f)
            BY LocalIs
        <3>3. PICK val, seen : loc[r] = Local(self, val, seen, t, f) BY <3>2
        <3>4. PICK keys : keys = found OBVIOUS
        <3>5. loc'[r] = [loc[r] EXCEPT !.found = keys] BY <2>5, <3>4, Parts DEF Frames
        <3>6. loc'[r].found = keys /\ loc'[r].todo = loc[r].todo BY <3>3, <3>5 DEF Local
        <3>7. e.key \in keys \/ n \in 2 .. Len(loc[r].todo) BY <1>2, <2>1, <2>3, <3>4
        <3>8. Due(r, e)' BY <2>1, <3>1, <3>6, <3>7 DEF Due
        <3> QED BY <1>1, <1>3, <3>1, <3>8 DEF Clears, Live
    <2> QED BY <2>2, <2>4, <2>5 DEF ClearKeys
<1> QED BY <1>1, <1>3, OthersStep, StepClears DEF Step

\* DEL removes every key that was noted.
LEMMA ClearDeleteClears ==
    ASSUME CacheInv, ClearInv, "clear" \notin RedisFails, NEW r \in Requests, ClearDelete(r)
    PROVE  ClearInv'
<1>1. /\ pc[r] = "delete" /\ UNCHANGED cell /\ NextPattern(r) /\ Goto(r, "clear")
      /\ cache' = {e \in cache : e.key \notin loc[r].found}
    BY DEF ClearDelete
<1>2. loc[r].todo \in Seq(Patterns) /\ loc[r].todo # <<>>
    BY <1>1, Parts, Changing DEF RequestOK, Holds
<1>3. pc'[r] = "clear" /\ job' = job /\ loc'[r].todo = Tail(loc[r].todo)
    BY <1>1, AfterNextPattern
<1>4. ASSUME NEW e \in cache', NEW c \in DOMAIN e.val, Clears(r, e, c) PROVE Clears(r, e, c)'
    <2>1. e.key \notin loc[r].found BY <1>1
    <2>2. PICK n \in 2 .. Len(loc[r].todo) : Matches(loc[r].todo[n], e.key)
        BY <1>1, <1>4, <2>1 DEF Clears, Due
    <2>3. /\ n - 1 \in 1 .. Len(Tail(loc[r].todo))
          /\ Tail(loc[r].todo)[n - 1] = loc[r].todo[n]
        BY <1>2, TailFacts
    <2>4. Due(r, e)' BY <1>3, <2>2, <2>3 DEF Due
    <2> QED BY <1>1, <1>3, <1>4, <2>4 DEF Clears, Live
<1> QED BY <1>1, <1>4, OthersStep, StepClears DEF Step

\* The strengthened invariant is inductive when Redis answers clear_cache and no process dies.
LEMMA NextClears ==
    ASSUME "clear" \notin RedisFails, ~Crashes
    PROVE  CacheInv /\ ClearInv /\ [Next]_vars => ClearInv'
<1> SUFFICES ASSUME CacheInv, ClearInv, [Next]_vars PROVE ClearInv' OBVIOUS
<1>1. ASSUME NEW r \in Requests, Arrive(r) \/ Step(r) PROVE ClearInv'
    <2>1. CASE Arrive(r) \/ CacheGet(r) \/ ReadTable(r) \/ CheckRow(r)
        <3>1. /\ pc[r] \in {"new", "get", "query", "check"} /\ UNCHANGED <<cell, cache>>
            BY <2>1 DEF Arrive, CacheGet, ReadTable, CheckRow, Refused
        <3> QED BY <1>1, <3>1, QuietClears
    <2>2. CASE InsertProfile(r) BY <2>2, InsertProfileClears
    <2>3. CASE CacheSet(r) BY <2>3, CacheSetClears
    <2>4. CASE CommitChange(r) BY <2>4, CommitClears
    <2>5. CASE RefreshRow(r) BY <2>5, RefreshClears
    <2>6. CASE ClearKeys(r) BY <2>6, ClearKeysClears
    <2>7. CASE ClearDelete(r) BY <2>7, ClearDeleteClears
    <2> QED BY <1>1, <2>1, <2>2, <2>3, <2>4, <2>5, <2>6, <2>7 DEF Step
<1>2. ASSUME UNCHANGED <<cell, pc, job, loc>>, cache' \subseteq cache PROVE ClearInv'
    <2>1. SUFFICES ASSUME NEW e \in cache, ~e.late, Covered(e), NEW c \in DOMAIN e.val,
                          Wrong(e, c)'
                   PROVE  \E q \in Requests : Clears(q, e, c)'
        BY <1>2 DEF ClearInv
    <2>2. Wrong(e, c) BY <1>2, <2>1 DEF Wrong, Live
    <2>3. PICK q \in Requests : Clears(q, e, c) BY <2>1, <2>2 DEF ClearInv
    <2> QED BY <1>2, <2>3, OthersClear
<1>3. CASE \E k \in Keys : Expire(k) BY <1>2, <1>3 DEF Expire
<1>4. CASE UNCHANGED vars BY <1>2, <1>4 DEF vars
<1> QED BY <1>1, <1>3, <1>4 DEF Next, AllAnswered, Crash

\* While Redis answers clear_cache and no process dies, an entry that was right when it was
\* stored and that every change has a pattern for is wrong only as long as the method that
\* changed the table is on its way to clear it, whatever the others do in between.
THEOREM WrongOnlyWhileClearing ==
    ASSUME "clear" \notin RedisFails, ~Crashes
    PROVE  Spec => []StaleOnlyWhileClearing
<1>1. Init => ClearInv BY DEF Init, ClearInv
<1>2. CacheInv /\ ClearInv /\ [Next]_vars => ClearInv' BY NextClears
<1>3. CacheInv /\ ClearInv => StaleOnlyWhileClearing
    <2> SUFFICES ASSUME CacheInv, ClearInv, NEW e \in cache, Stale(e), ~e.late, Covered(e)
                 PROVE  \E q \in Requests : Clearing(q, e)
        BY DEF StaleOnlyWhileClearing
    <2>1. PICK j : ValueOf(e.val, j) BY Parts DEF StoreOK, EntryOK
    <2>2. PICK c \in DOMAIN e.val : Wrong(e, c)
        BY <2>1 DEF Stale, Shown, ValueOf, Wrong
    <2>3. PICK q \in Requests : Clears(q, e, c) BY <2>2 DEF ClearInv
    <2> QED BY <2>3 DEF Clears, Due, Clearing, Changes
<1> QED BY <1>1, <1>2, <1>3, SpecInv, PTL DEF Spec
=============================================================================
