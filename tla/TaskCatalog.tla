------------------------------ MODULE TaskCatalog ------------------------------
(* What the members of a workspace see of its tasks: tasks are created, changed *)
(* and deleted while others page through the list, ask for statistics, or look  *)
(* at a category of theirs, rename or delete it.                                *)
(*                                                                              *)
(* Tasks and the category are MongoDB documents; a creation writes the task,    *)
(* its activity and its event in one transaction.  Pages, statistics and the    *)
(* category are kept in a Redis cache shared by the processes, each of which    *)
(* deletes only the keys that it has set itself.  How two writers of one task   *)
(* meet is the subject of TaskDocument: here a task is saved in one step.       *)
EXTENDS Integers, FiniteSets, Sequences

CONSTANTS
  Requests,     \* each is one HTTP request, or a client that asks for page after page
  Processes,    \* API processes
  Users,
  Admins,       \* the users who see the tasks of all users
  Owner,        \* the user to whom the category belongs
  MaxTask,      \* bound: task ids are 1 .. MaxTask, in the order of ObjectIds
  Existing,     \* bound: the owners of those that exist at first
  PageSize,     \* tasks per page
  Queries,      \* the queries that clients page through
  Mixes,        \* bound: how many requests of each kind are made in one behaviour
  None,         \* no query, nothing in the cache, no category
  MaxFaults     \* bound: aborted transactions, rejected calls and process deaths

Ids == 1 .. MaxTask
Paginations == {"cursor", "offset"}
Kinds == Paginations \cup {"create", "change", "remove", "stats", "file", "view", "list", "rename", "drop"}
Filters == {"none", "plain", "advanced"}
QueryRecords == [pagination : Paginations, filter : Filters,
                 sort : {"createdAt", "priority"}]

ASSUME CatalogAssumption ==
  /\ IsFiniteSet(Requests) /\ Admins \subseteq Users /\ Owner \in Users
  /\ Queries \subseteq QueryRecords /\ None \notin Queries
  /\ \A m \in Mixes : m \in [Kinds -> Nat]
  /\ MaxTask \in Nat /\ Existing \in Seq(Users) /\ Len(Existing) <= MaxTask
  /\ PageSize \in Nat \ {0} /\ MaxFaults \in Nat

VARIABLES
  task,       \* the tasks
  logged,     \* the tasks with an activity "created"
  announced,  \* the tasks with a TASK_CREATED event in the outbox
  made,       \* the task that a request has created
  category,   \* the category
  cache,      \* what Redis holds under a key
  registry,   \* the keys a process knows, of those it has set
  call,       \* what each request asks for
  todo,       \* the awaits that each request has still to do
  verdict,    \* how each request is going to be answered, or was
  reading,    \* what a request has read under its key
  place,      \* the page, or the cursor, that a client asks for
  shown,      \* the tasks that a client has been shown, in order
  steady,     \* the entries that were there whenever what a client was shown was read
  ever,       \* the entries that were there some time then
  cleared,    \* the keys that the clearCache of a request has deleted so far
  before,     \* the requests that had ended when each one arrived
  failures    \* failures so far

storeVars == <<task, logged, announced, made, category>>
cacheVars == <<cache, registry, cleared>>
clientVars == <<reading, place, shown, steady, ever>>
callVars == <<call, before>>
catalogVars == <<storeVars, cacheVars, clientVars, callVars, todo, verdict, failures>>

Weights == {1, 2}
Tasks == [state : {"absent", "live", "deleted"}, owner : Users \cup {None},
          weight : Weights, fits : BOOLEAN]
NoTask == [state |-> "absent", owner |-> None, weight |-> 1, fits |-> FALSE]

\* What a page, or a count, is computed from.
Entries == [id : Ids, weight : Weights]

\* tasks:<query and page>, stats:<user>, category:<owner>:<id>,
\* category:role:<role>:<owner>:<id> and categories:list:<owner>
Key(of, u, q, p) == [of |-> of, user |-> u, query |-> q, place |-> p]
CategoryKeys == {Key(of, Owner, None, 0) : of \in {"category", "role", "list"}}
Keys == {Key("tasks", u, q, p) : u \in Users, q \in Queries, p \in 0 .. MaxTask + 1}
        \cup {Key("stats", u, None, 0) : u \in Users} \cup CategoryKeys

\* A page has the ids of its tasks and tells the next page or cursor, or 0; what it was
\* computed from is kept for the properties: the entries that were there at each query of
\* it, and at one of them.  The category has a version.
Values == [data : Seq(Ids), next : 0 .. MaxTask + 1, steady : SUBSET Entries,
           ever : SUBSET Entries, version : Nat \cup {None}]
NoValue == [data |-> <<>>, next |-> 0, steady |-> {}, ever |-> {}, version |-> None]

Calls == [kind : Kinds, process : Processes, user : Users, query : Queries \cup {None},
          id : Ids \cup {0}, filed : BOOLEAN, version : Nat]
ASSUME CatalogCallAssumption == None \notin Calls

Steps == {"flag", "get", "query", "count", "set", "register", "insert", "commit", "save",
          "clear", "file", "rename", "drop"}
Verdicts == {"none", "ok", "refused", "error"}

CatalogTypeOK ==
  /\ task \in [Ids -> Tasks]
  /\ logged \subseteq Ids
  /\ announced \subseteq Ids
  /\ made \in [Requests -> Ids \cup {0}]
  /\ category \in [state : {"absent", "live", "deleted"}, version : Nat]
  /\ DOMAIN cache = Keys
  /\ \A k \in Keys : cache[k] = None \/ cache[k] \in Values
  /\ registry \in [Processes -> SUBSET Keys]
  /\ call \in [Requests -> Calls \cup {None}]
  /\ todo \in [Requests -> Seq(Steps)]
  /\ verdict \in [Requests -> Verdicts]
  /\ reading \in [Requests -> Values]
  /\ place \in [Requests -> 0 .. MaxTask + 1]
  /\ shown \in [Requests -> Seq(Ids)]
  /\ steady \in [Requests -> SUBSET Entries]
  /\ ever \in [Requests -> SUBSET Entries]
  /\ cleared \in [Requests -> SUBSET Keys]
  /\ before \in [Requests -> SUBSET Requests]
  /\ failures \in 0 .. MaxFaults

\* Some tasks have been created, and nothing is cached.
CatalogInit ==
  /\ task = [i \in Ids |-> IF i \in DOMAIN Existing
               THEN [state |-> "live", owner |-> Existing[i], weight |-> 1, fits |-> i = 1]
               ELSE NoTask]
  /\ logged = DOMAIN Existing
  /\ announced = DOMAIN Existing
  /\ made = [r \in Requests |-> 0]
  /\ category \in [state : {"absent", "live"}, version : {0}]
  /\ cache = [k \in Keys |-> None]
  /\ registry = [p \in Processes |-> {}]
  /\ call = [r \in Requests |-> None]
  /\ todo = [r \in Requests |-> <<>>]
  /\ verdict = [r \in Requests |-> "none"]
  /\ reading = [r \in Requests |-> NoValue]
  /\ place = [r \in Requests |-> 0]
  /\ shown = [r \in Requests |-> <<>>]
  /\ steady = [r \in Requests |-> Entries]
  /\ ever = [r \in Requests |-> {}]
  /\ cleared = [r \in Requests |-> {}]
  /\ before = [r \in Requests |-> {}]
  /\ failures = 0

Running(r) == todo[r] # <<>>
Arrived == {r \in Requests : call[r] # None}
Ended(r) == call[r] # None /\ ~ Running(r)
At(r, s) == Running(r) /\ Head(todo[r]) = s

\* r goes on with its next await.
Proceed(r) ==
  /\ todo' = [todo EXCEPT ![r] = Tail(@)]
  /\ UNCHANGED verdict

\* r ends with the answer v.
Answer(r, v) ==
  /\ todo' = [todo EXCEPT ![r] = <<>>]
  /\ verdict' = [verdict EXCEPT ![r] = v]

Fault ==
  /\ failures < MaxFaults
  /\ failures' = failures + 1

-------------------------------------------------------------------------------
(* Requests                                                                *)

\* dueFrom, dueTo, tags, assignee and any but the default order are advanced.
Advanced(q) == q.filter = "advanced" \/ q.sort # "createdAt"

\* The awaits of a lookup in the cache, and of the query if nothing is found there.
Lookup(q) ==
  <<"get", "query">>
  \o (IF q # None /\ q.pagination = "offset" THEN <<"count">> ELSE <<>>)
  \o <<"set", "register">>

\* The awaits of a request for a page.
PagePlan(q) == (IF Advanced(q) THEN <<"flag">> ELSE <<>>) \o Lookup(q)

\* The awaits that come after the lookup of a category.
AfterLookup(k) ==
  CASE k = "create" -> <<"insert", "commit", "clear">>
    [] k = "change" -> <<"save", "clear">>
    [] k = "rename" -> <<"rename", "clear">>
    [] OTHER -> <<>>

Plan(c) ==
  CASE c.kind \in {"create", "change"} ->
         (IF c.filed THEN Lookup(None) ELSE <<>>) \o AfterLookup(c.kind)
    [] c.kind = "remove" -> <<"save", "clear">>
    [] c.kind \in Paginations -> PagePlan(c.query)
    [] c.kind \in {"stats", "view", "list"} -> Lookup(None)
    [] c.kind = "rename" -> Lookup(None) \o AfterLookup(c.kind)
    [] c.kind \in {"file", "drop"} -> <<c.kind, "clear">>

\* The bound on the requests; a category is named, or still to be created, only where it
\* may be deleted.
Mixed(k, f) ==
  \E m \in Mixes :
    /\ Cardinality({x \in Arrived : call[x].kind = k}) < m[k]
    /\ \A x \in Arrived : Cardinality({y \in Arrived : call[y].kind = call[x].kind}) <= m[call[x].kind]
    /\ f \/ category.state = "absent" \/ (\E x \in Arrived : call[x].filed) => m["drop"] > 0

\* A request arrives: a task is changed by its owner, and the category is asked for by its
\* owner, who expects it to have a version that it has had.
Arrive(r) ==
  /\ call[r] = None
  /\ \E k \in Kinds, f \in BOOLEAN : Mixed(k, f) /\
     \E p \in Processes, u \in Users :
     \E q \in IF k \in Paginations THEN {x \in Queries : x.pagination = k} ELSE {None} :
     \E i \in IF k \in {"change", "remove"} THEN Ids ELSE {0} :
     \E v \in IF k = "rename" THEN 0 .. category.version ELSE {0} :
       /\ k = "file" => /\ category.state = "absent"
                        /\ \A x \in Arrived : call[x].kind # "file"
       /\ i # 0 => task[i].state = "live" /\ task[i].owner = u
       /\ f => k \in {"create", "change"}
       /\ f \/ k \in {"file", "view", "list", "rename", "drop"} => u = Owner
       /\ LET c == [kind |-> k, process |-> p, user |-> u, query |-> q, id |-> i,
                    filed |-> f, version |-> v]
          IN /\ call' = [call EXCEPT ![r] = c]
             /\ todo' = [todo EXCEPT ![r] = Plan(c)]
       /\ place' = [place EXCEPT ![r] =
                      IF k = "offset" THEN 1 ELSE 0]
  /\ verdict' = [verdict EXCEPT ![r] = "ok"]
  /\ before' = [before EXCEPT ![r] = {q \in Requests : Ended(q)}]
  /\ UNCHANGED <<storeVars, cacheVars, reading, shown, steady, ever, failures>>

-------------------------------------------------------------------------------
(* Reading                                                                 *)

\* Mutant of KeyOf: the key of a page does not name the user.
KeyOfQuery(r) ==
  LET c == call[r] IN
    CASE c.kind \in Paginations -> Key("tasks", Owner, c.query, place[r])
      [] c.kind = "stats" -> Key("stats", c.user, None, 0)
      [] c.kind = "change" -> Key("role", Owner, None, 0)
      [] c.kind = "list" -> Key("list", Owner, None, 0)
      [] OTHER -> Key("category", Owner, None, 0)

\* The key under which r looks something up.
KeyOf(r) ==
  LET c == call[r] IN
    CASE c.kind \in Paginations -> Key("tasks", c.user, c.query, place[r])
      [] c.kind = "stats" -> Key("stats", c.user, None, 0)
      [] c.kind = "change" -> Key("role", Owner, None, 0)
      [] c.kind = "list" -> Key("list", Owner, None, 0)
      [] OTHER -> Key("category", Owner, None, 0)

\* isEnabled: an administrator may switch the flag at any time.
CheckFlag(r) ==
  /\ At(r, "flag")
  /\ Proceed(r) \/ Answer(r, "refused")
  /\ UNCHANGED <<storeVars, cacheVars, clientVars, callVars, failures>>

\* The page v is shown to the client r, who asks for the next one, if there is one.
ShowPage(r, v) ==
  /\ shown' = [shown EXCEPT ![r] = @ \o v.data]
  /\ steady' = [steady EXCEPT ![r] = @ \cap v.steady]
  /\ ever' = [ever EXCEPT ![r] = @ \cup v.ever]
  /\ place' = [place EXCEPT ![r] = v.next]
  /\ todo' = [todo EXCEPT ![r] = IF v.next = 0 THEN <<>> ELSE PagePlan(call[r].query)]
  /\ reading' = [reading EXCEPT ![r] = NoValue]
  /\ UNCHANGED verdict

ShowStats(r, v) ==
  /\ Answer(r, "ok")
  /\ steady' = [steady EXCEPT ![r] = v.steady]
  /\ ever' = [ever EXCEPT ![r] = v.ever]
  /\ reading' = [reading EXCEPT ![r] = NoValue]
  /\ UNCHANGED <<place, shown>>

\* A missing category, or another version than expected, ends the request.
UseCategory(r, v) ==
  /\ IF \/ v.version = None /\ call[r].kind # "list"
        \/ call[r].kind = "rename" /\ v.version # call[r].version
       THEN Answer(r, "refused")
       ELSE todo' = [todo EXCEPT ![r] = AfterLookup(call[r].kind)] /\ UNCHANGED verdict
  /\ reading' = [reading EXCEPT ![r] = v]
  /\ UNCHANGED <<place, shown, steady, ever>>

\* r has found v, in the cache or in the database.
Found(r, v) ==
  CASE call[r].kind \in Paginations -> ShowPage(r, v)
    [] call[r].kind = "stats" -> ShowStats(r, v)
    [] OTHER -> UseCategory(r, v)

\* cacheManager.get: the key has never been set, was deleted, or its 60 seconds are over.
Miss(r) ==
  /\ At(r, "get")
  /\ cache' = [cache EXCEPT ![KeyOf(r)] = None]
  /\ Proceed(r)
  /\ UNCHANGED <<storeVars, registry, cleared, clientVars, callVars, failures>>

\* cacheManager.get
Hit(r) ==
  /\ At(r, "get") /\ cache[KeyOf(r)] # None
  /\ Found(r, cache[KeyOf(r)])
  /\ UNCHANGED <<storeVars, cacheVars, callVars, failures>>

\* The filter: not deleted, of the user unless he is an admin, and the conditions of q.
Visible(u, q) ==
  {i \in Ids : /\ task[i].state = "live"
               /\ u \in Admins \/ task[i].owner = u
               /\ q # None /\ q.filter # "none" => task[i].fits}

\* The weights matter only where they are ordered by, or counted.
EntriesOf(q, S) ==
  {[id |-> i, weight |-> IF q = None \/ q.sort = "priority" THEN task[i].weight ELSE 1] : i \in S}

\* aggregateSort: by _id for cursors, else by the order that is asked for and then by _id.
\* (createdAt, the newest first, follows the order of the ids.)
Precedes(q, d, e) ==
  IF q.pagination = "cursor" THEN d.id < e.id
  ELSE IF q.sort = "createdAt" THEN d.id > e.id
  ELSE IF d.weight # e.weight THEN d.weight > e.weight
  ELSE d.id < e.id

\* The entries in that order: each has the place that its predecessors leave to it.
Sorted(q, E) ==
  [n \in 1 .. Cardinality(E) |->
     CHOOSE e \in E : Cardinality({d \in E : Precedes(q, d, e)}) = n - 1]

\* At most n entries of s, after the first k.
Slice(s, k, n) == SubSeq(s, k + 1, IF k + n < Len(s) THEN k + n ELSE Len(s))

\* The page with the entries s, computed from E.
Page(E, s, next) ==
  [data |-> [n \in 1 .. Len(s) |-> s[n].id], next |-> next, steady |-> E, ever |-> E,
   version |-> None]

\* Mutant of CursorPage: the next cursor is the task that was read to know about a next page.
CursorPageBeyond(q, E, cursor) ==
  LET s == Slice(Sorted(q, {e \in E : e.id > cursor}), 0, PageSize + 1)
  IN Page(E, Slice(s, 0, PageSize), IF Len(s) > PageSize THEN s[PageSize + 1].id ELSE 0)

\* The page after a cursor: one task more is read to know whether there is a next page.
CursorPage(q, E, cursor) ==
  LET s == Slice(Sorted(q, {e \in E : e.id > cursor}), 0, PageSize + 1)
  IN Page(E, Slice(s, 0, PageSize), IF Len(s) > PageSize THEN s[PageSize].id ELSE 0)

\* The page with a number; whether there is a next one is known after the count.
OffsetPage(q, E, page) == Page(E, Slice(Sorted(q, E), (page - 1) * PageSize, PageSize), 0)

\* What the database holds for the key of r.
Queried(r) ==
  LET q == call[r].query
      E == EntriesOf(q, Visible(call[r].user, q))
  IN CASE call[r].kind = "cursor" -> CursorPage(q, E, place[r])
       [] call[r].kind = "offset" -> OffsetPage(q, E, place[r])
       [] call[r].kind = "stats" -> Page(E, <<>>, 0)
       [] OTHER -> [NoValue EXCEPT !.version =
                    IF category.state = "live" THEN category.version ELSE None]

\* aggregate, or findOne.  Cursors do not go with an order.  No category is not cached.
Query(r) ==
  /\ At(r, "query")
  /\ LET q == call[r].query IN
       IF q # None /\ q.pagination = "cursor" /\ q.sort # "createdAt"
         THEN Answer(r, "refused") /\ UNCHANGED clientVars
       ELSE IF KeyOf(r).of \in {"category", "role"} /\ category.state # "live"
         THEN Found(r, Queried(r))
       ELSE /\ Proceed(r)
            /\ reading' = [reading EXCEPT ![r] = Queried(r)]
            /\ UNCHANGED <<place, shown, steady, ever>>
  /\ UNCHANGED <<storeVars, cacheVars, callVars, failures>>

\* countDocuments: there is a next page if page < totalPages.
Count(r) ==
  /\ At(r, "count")
  /\ LET E == EntriesOf(call[r].query, Visible(call[r].user, call[r].query))
     IN reading' = [reading EXCEPT
          ![r].next = IF place[r] * PageSize < Cardinality(E) THEN place[r] + 1 ELSE 0,
          ![r].steady = @ \cap E, ![r].ever = @ \cup E]
  /\ Proceed(r)
  /\ UNCHANGED <<storeVars, cacheVars, place, shown, steady, ever, callVars, failures>>

\* cacheManager.set
SetCached(r) ==
  /\ At(r, "set")
  /\ cache' = [cache EXCEPT ![KeyOf(r)] = reading[r]]
  /\ Proceed(r)
  /\ UNCHANGED <<storeVars, registry, cleared, clientVars, callVars, failures>>

\* The process notes the key, and the handler goes on.
RegisterKey(r) ==
  /\ At(r, "register")
  /\ registry' = [registry EXCEPT ![call[r].process] = @ \cup {KeyOf(r)}]
  /\ Found(r, reading[r])
  /\ UNCHANGED <<storeVars, cache, cleared, callVars, failures>>

-------------------------------------------------------------------------------
(* Writing                                                                 *)

\* Mutant of Insert: the event is created outside of the transaction.
InsertOutside(r) ==
  /\ At(r, "insert")
  /\ \E i \in Ids :
       /\ task[i].state = "absent" /\ \A q \in Requests : made[q] # i
       /\ made' = [made EXCEPT ![r] = i]
       /\ announced' = announced \cup {i}
  /\ Proceed(r)
  /\ UNCHANGED <<task, logged, category, cacheVars, clientVars, callVars, failures>>

\* taskRepository.create, activityRepository.create and outboxService.create write in the
\* session, which nobody sees before the commit; the task gets an id of its own.
Insert(r) ==
  /\ At(r, "insert")
  /\ \E i \in Ids :
       /\ task[i].state = "absent" /\ \A q \in Requests : made[q] # i
       /\ made' = [made EXCEPT ![r] = i]
  /\ Proceed(r)
  /\ UNCHANGED <<task, logged, announced, category, cacheVars, clientVars, callVars,
                 failures>>

\* The transaction is committed.
Commit(r) ==
  /\ At(r, "commit")
  /\ \E w \in Weights, b \in BOOLEAN :
       task' = [task EXCEPT ![made[r]] =
         [state |-> "live", owner |-> call[r].user, weight |-> w, fits |-> b]]
  /\ logged' = logged \cup {made[r]}
  /\ announced' = announced \cup {made[r]}
  /\ Proceed(r)
  /\ UNCHANGED <<made, category, cacheVars, clientVars, callVars, failures>>

\* A transient error: the transaction is aborted and the callback repeated, with a new id.
AbortCreation(r) ==
  /\ At(r, "commit")
  /\ Fault
  /\ made' = [made EXCEPT ![r] = 0]
  /\ todo' = [todo EXCEPT ![r] = <<"insert">> \o @]
  /\ UNCHANGED <<task, logged, announced, category, cacheVars, clientVars, callVars,
                 verdict>>

\* A task is found and saved: an update may change all that lists look at.  (The audit
\* record and the activity are written before the cache is cleared; if that fails, the
\* cache is not cleared, as if its first call had failed.)
SaveTask(r) ==
  /\ At(r, "save")
  /\ LET i == call[r].id IN
       IF task[i].state # "live"
         THEN Answer(r, "refused") /\ UNCHANGED task
         ELSE /\ IF call[r].kind = "remove"
                   THEN task' = [task EXCEPT ![i].state = "deleted"]
                   ELSE \E w \in Weights, b \in BOOLEAN :
                          task' = [task EXCEPT ![i].weight = w, ![i].fits = b]
              /\ Proceed(r)
  /\ UNCHANGED <<logged, announced, made, category, cacheVars, clientVars,
                 callVars, failures>>

\* The step s writes c if the condition holds, and the cache is cleared in any case.
WriteCategory(r, s, condition, c) ==
  /\ At(r, s)
  /\ category' = IF condition THEN c ELSE category
  /\ verdict' = [verdict EXCEPT ![r] = IF condition THEN "ok" ELSE "refused"]
  /\ todo' = [todo EXCEPT ![r] = Tail(@)]
  /\ UNCHANGED <<task, logged, announced, made, cacheVars, clientVars,
                 callVars, failures>>

\* create: the one category of the model.
FileCategory(r) ==
  category.state = "absent" /\ WriteCategory(r, "file", TRUE, [category EXCEPT !.state = "live"])

\* update: findOneAndUpdate with the version in the filter.
RenameCategory(r) ==
  WriteCategory(r, "rename", category.state = "live" /\ category.version = call[r].version,
                [category EXCEPT !.version = @ + 1])

\* delete: findOneAndDelete
DropCategory(r) ==
  WriteCategory(r, "drop", category.state = "live", [category EXCEPT !.state = "deleted"])

\* The keys of the repository that r clears, as far as its process knows them.
KnownKeys(r) ==
  {k \in registry[call[r].process] :
     k \in CategoryKeys <=> call[r].kind \in {"file", "rename", "drop"}}

\* cacheManager.del of a key; the loop meets the keys that are added meanwhile.
ClearKey(r) ==
  /\ At(r, "clear")
  /\ \E k \in KnownKeys(r) \ cleared[r] :
       /\ cache' = [cache EXCEPT ![k] = None]
       /\ cleared' = [cleared EXCEPT ![r] = @ \cup {k}]
  /\ UNCHANGED <<storeVars, registry, clientVars, callVars, todo, verdict, failures>>

\* Mutant of ForgetKeys: the keys are forgotten before they are deleted.
ForgetKeysFirst(r) ==
  /\ At(r, "clear")
  /\ registry' = [registry EXCEPT ![call[r].process] = @ \ KnownKeys(r)]
  /\ cleared' = [cleared EXCEPT ![r] = {}]
  /\ Proceed(r)
  /\ UNCHANGED <<storeVars, cache, clientVars, callVars, failures>>

\* The set of keys is emptied: also of those that have been set again since.
ForgetKeys(r) ==
  /\ At(r, "clear")
  /\ KnownKeys(r) \subseteq cleared[r]
  /\ registry' = [registry EXCEPT ![call[r].process] = @ \ KnownKeys(r)]
  /\ cleared' = [cleared EXCEPT ![r] = {}]
  /\ Proceed(r)
  /\ UNCHANGED <<storeVars, cache, clientVars, callVars, failures>>

-------------------------------------------------------------------------------
(* Failures                                                                *)

\* The requests in S end without success; their transactions are aborted.
Fail(S) ==
  /\ todo' = [r \in Requests |-> IF r \in S THEN <<>> ELSE todo[r]]
  /\ verdict' = [r \in Requests |-> IF r \in S THEN "error" ELSE verdict[r]]
  /\ cleared' = [r \in Requests |-> IF r \in S THEN {} ELSE cleared[r]]
  /\ UNCHANGED <<task, logged, announced, made, category, clientVars, callVars>>

\* An await of r rejects, before or after the call has taken effect (an effect without an
\* answer is the step followed by this action).
CallRejected(r) ==
  /\ Running(r)
  /\ Fault
  /\ Fail({r})
  /\ UNCHANGED <<cache, registry>>

\* A process dies with the requests it serves and the keys it knows.
ProcessDies(p) ==
  /\ registry[p] # {} \/ \E r \in Requests : Running(r) /\ call[r].process = p
  /\ Fault
  /\ Fail({r \in Requests : Running(r) /\ call[r].process = p})
  /\ registry' = [registry EXCEPT ![p] = {}]
  /\ UNCHANGED cache

-------------------------------------------------------------------------------
Step(r) ==
  \/ CheckFlag(r) \/ Miss(r) \/ Hit(r) \/ Query(r) \/ Count(r) \/ SetCached(r) \/ RegisterKey(r)
  \/ Insert(r) \/ Commit(r) \/ SaveTask(r)
  \/ FileCategory(r) \/ RenameCategory(r) \/ DropCategory(r) \/ ClearKey(r) \/ ForgetKeys(r)

CatalogNext ==
  \/ \E r \in Requests : Arrive(r) \/ Step(r) \/ AbortCreation(r) \/ CallRejected(r)
  \/ \E p \in Processes : ProcessDies(p)

CatalogSpec == CatalogInit /\ [][CatalogNext]_catalogVars

-------------------------------------------------------------------------------
(* Properties                                                              *)

Succeeded(r, kinds) == Ended(r) /\ verdict[r] = "ok" /\ call[r].kind \in kinds

\* Who has walked to the last page with cursors has seen each task once that was there
\* whenever a page was computed, and no task twice, however many tasks were created and
\* deleted meanwhile.  With page numbers this is so if the list was the same at each page.
WalkComplete ==
  \A r \in Requests :
    Succeeded(r, Paginations) =>
      LET seen == {shown[r][n] : n \in DOMAIN shown[r]}
      IN call[r].kind = "cursor" \/ steady[r] = ever[r] =>
           /\ \A m, n \in DOMAIN shown[r] : m # n => shown[r][m] # shown[r][n]
           /\ {e.id : e \in steady[r]} \subseteq seen
           /\ seen \subseteq {e.id : e \in ever[r]}

\* Whatever is in the cache, a user who is no administrator is shown his own tasks only.
PagesArePrivate ==
  \A r \in Requests :
    call[r] # None /\ call[r].user \notin Admins =>
      /\ \A n \in DOMAIN shown[r] : task[shown[r][n]].owner = call[r].user
      /\ \A e \in ever[r] : task[e.id].owner = call[r].user

\* What r was shown takes account of the write w.
Reflects(r, w) ==
  LET c == call[w]
      plain == \/ call[r].kind = "stats"
               \/ call[r].kind \in Paginations /\ call[r].query.filter = "none"
      seesAll == call[r].user \in Admins \/ call[r].user = c.user
      gone(i) == \E x \in Requests : call[x] # None /\ call[x].kind = "remove" /\ call[x].id = i
  IN CASE c.kind = "create" ->
            plain /\ seesAll /\ ~ gone(made[w]) => \E e \in ever[r] : e.id = made[w]
       [] c.kind = "remove" -> \A e \in ever[r] : e.id # c.id
       [] c.kind = "drop" -> call[r].kind \in {"view", "list", "rename"} => reading[r].version = None
       [] c.kind = "rename" ->
            call[r].kind \in {"view", "list", "rename"} =>
              reading[r].version = None \/ reading[r].version > c.version
       [] OTHER -> TRUE

Readers == Paginations \cup {"stats", "view", "list", "rename"}
Reads(x) == call[x] # None /\ (call[x].kind \in Readers \/ call[x].filed)
Writes(x) == call[x] # None /\ call[x].kind \notin Readers \ {"rename"}
Apart(q, r) == q \in before[r] \/ r \in before[q]

\* Who reads after a write has been answered sees it, unless a value was cached before the
\* answer by another process than the writer's, or by a reader who overlapped a writer.
ReadsFresh ==
  \A w, r \in Requests :
    /\ failures = 0 /\ w \in before[r] /\ Writes(w) /\ verdict[w] = "ok"
    /\ Succeeded(r, Readers)
    => \/ Reflects(r, w)
       \/ \E x \in Requests \ {r} :
            /\ Reads(x) /\ w \notin before[x]
            /\ \/ call[x].process # call[w].process
               \/ \E y \in Requests \ {x} : Writes(y) /\ ~ Apart(x, y)

\* A task, its activity and its event are there together or not at all, and a creation that
\* was answered, repeated or not, has left one task, and one that failed at most one.
CreationAtomic ==
  /\ logged = announced /\ logged = {i \in Ids : task[i].state # "absent"}
  /\ \A r \in Requests : Succeeded(r, {"create"}) => made[r] \in logged

===============================================================================
