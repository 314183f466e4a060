--------------------------- MODULE TaskCatalogProofs ---------------------------
(***************************************************************************)
(* Safety of TaskCatalog for every number of requests, users, tasks,       *)
(* processes and failures: what a walk through the list shows, that pages  *)
(* stay private, what a read after a write may miss, and that creations    *)
(* are atomic.  All follow from one inductive invariant, CatalogInv.  A    *)
(* request is the list of its awaits, so the invariant says which lists    *)
(* may be left of it and what has been done by then.  The last part is     *)
(* about OutboxDispatch, which delivers the events of the creations.       *)
(***************************************************************************)
EXTENDS TaskCatalog, OutboxDispatch, FiniteSetTheorems, SequenceTheorems, TLAPS

-------------------------------------------------------------------------------
(* The invariant                                                           *)

\* What may be left to do of a request.
ReadLists ==
  {<<"get", "query", "set", "register">>, <<"query", "set", "register">>,
   <<"set", "register">>, <<"register">>, <<>>}
CursorLists == ReadLists \cup {<<"flag", "get", "query", "set", "register">>}
OffsetLists ==
  {<<"flag", "get", "query", "count", "set", "register">>,
   <<"get", "query", "count", "set", "register">>, <<"query", "count", "set", "register">>,
   <<"count", "set", "register">>, <<"set", "register">>, <<"register">>, <<>>}
CreateLists == {<<"insert", "commit", "clear">>, <<"commit", "clear">>, <<"clear">>, <<>>}
FiledCreateLists ==
  {<<"get", "query", "set", "register", "insert", "commit", "clear">>,
   <<"query", "set", "register", "insert", "commit", "clear">>,
   <<"set", "register", "insert", "commit", "clear">>,
   <<"register", "insert", "commit", "clear">>}
SaveLists == {<<"save", "clear">>, <<"clear">>, <<>>}
FiledSaveLists ==
  {<<"get", "query", "set", "register", "save", "clear">>,
   <<"query", "set", "register", "save", "clear">>,
   <<"set", "register", "save", "clear">>, <<"register", "save", "clear">>}
RenameLists ==
  {<<"get", "query", "set", "register", "rename", "clear">>,
   <<"query", "set", "register", "rename", "clear">>,
   <<"set", "register", "rename", "clear">>, <<"register", "rename", "clear">>,
   <<"rename", "clear">>, <<"clear">>, <<>>}
FileLists == {<<"file", "clear">>, <<"clear">>, <<>>}
DropLists == {<<"drop", "clear">>, <<"clear">>, <<>>}

Left(c, l) ==
  \/ c.kind = "cursor" /\ l \in CursorLists
  \/ c.kind = "offset" /\ l \in OffsetLists
  \/ c.kind \in {"stats", "view", "list"} /\ l \in ReadLists
  \/ c.kind = "create" /\ (l \in CreateLists \/ (c.filed /\ l \in FiledCreateLists))
  \/ c.kind = "change" /\ (l \in SaveLists \/ (c.filed /\ l \in FiledSaveLists))
  \/ c.kind = "remove" /\ l \in SaveLists
  \/ c.kind = "rename" /\ l \in RenameLists
  \/ c.kind = "file" /\ l \in FileLists
  \/ c.kind = "drop" /\ l \in DropLists

\* What Arrive asks for.
WellFormed(c) ==
  /\ c \in Calls
  /\ c.kind \in Paginations => c.query \in Queries /\ c.query.pagination = c.kind
  /\ c.kind \notin Paginations => c.query = None
  /\ c.kind \in {"change", "remove"} => c.id \in Ids
  /\ c.filed => c.kind \in {"create", "change"}
  /\ c.filed \/ c.kind \in {"view", "list", "rename"} => c.user = Owner

PageKinds == Paginations \cup {"stats"}

\* r has not arrived, or has some of its awaits still to do.
RequestInv(r) ==
  /\ call[r] = None =>
       /\ todo[r] = <<>> /\ verdict[r] = "none" /\ made[r] = 0 /\ before[r] = {}
       /\ reading[r] = NoValue /\ shown[r] = <<>> /\ steady[r] = Entries /\ ever[r] = {}
  /\ call[r] # None =>
       /\ WellFormed(call[r]) /\ Left(call[r], todo[r])
       /\ call[r].kind = "offset" /\ Running(r) => place[r] >= 1
       /\ call[r].kind \notin PageKinds => ever[r] = {}
  /\ cleared[r] # {} => todo[r] = <<"clear">>
  /\ \A q \in before[r] : Ended(q)

ShapeInv == \A r \in Requests : RequestInv(r)

\* Tasks and creations: see CreationAtomic.
CreationInv ==
  /\ logged = announced /\ logged = {i \in Ids : task[i].state # "absent"}
  /\ \A q, r \in Requests : made[q] = made[r] /\ made[q] # 0 => q = r
  /\ \A r \in Requests :
       /\ made[r] # 0 => call[r] # None /\ call[r].kind = "create"
       /\ At(r, "commit") => made[r] # 0 /\ task[made[r]].state = "absent"

\* The effect of a write that goes on to clear the cache, or has ended well.
Written(w) ==
  LET c == call[w] IN
    /\ c.kind = "create" =>
         made[w] # 0 /\ task[made[w]].state # "absent" /\ task[made[w]].owner = c.user
    /\ c.kind = "remove" => task[c.id].state = "deleted"
    /\ c.kind = "drop" => category.state = "deleted"
    /\ c.kind = "rename" => category.version > c.version

Gone(i) == \E x \in Requests : call[x] # None /\ call[x].kind = "remove" /\ call[x].id = i

EffectInv ==
  /\ \A w \in Requests :
       Writes(w) /\ verdict[w] = "ok" /\ todo[w] \in {<<"clear">>, <<>>} => Written(w)
  /\ \A i \in Ids : task[i].state = "deleted" => Gone(i)

-------------------------------------------------------------------------------
(* Values                                                                  *)

Rising(s) == \A m, n \in DOMAIN s : m < n => s[m] < s[n]
OneEach(E) == \A d, e \in E : d.id = e.id => d = e
Rank(q, E, e) == Cardinality({d \in E : Precedes(q, d, e)})

\* All that v was computed from belongs to u.
OwnedBy(u, v) ==
  /\ \A n \in DOMAIN v.data : task[v.data[n]].state # "absent" /\ task[v.data[n]].owner = u
  /\ \A e \in v.ever : task[e.id].state # "absent" /\ task[e.id].owner = u

\* v is the page after the cursor p.
CursorOk(p, v) ==
  /\ Rising(v.data) /\ (v.next # 0 => p < v.next)
  /\ \A n \in DOMAIN v.data :
       /\ v.data[n] > p /\ (v.next # 0 => v.data[n] <= v.next)
       /\ \E e \in v.ever : e.id = v.data[n]
  /\ \A e \in v.steady :
       e.id > p /\ (v.next = 0 \/ e.id <= v.next) => \E n \in DOMAIN v.data : v.data[n] = e.id

\* The entries of E that follow the first k have the ids s, in their order.
Follow(q, E, k, s) == \A n \in DOMAIN s : \E e \in E : e.id = s[n] /\ Rank(q, E, e) = k + n - 1

\* v is the page p, if the list was the same when it was read and when it was counted.
OffsetOk(q, p, v) ==
  LET k == (p - 1) * PageSize
      size == Cardinality(v.ever)
  IN v.steady = v.ever =>
       /\ OneEach(v.ever) /\ Follow(q, v.ever, k, v.data)
       /\ Len(v.data) = IF k + PageSize < size THEN PageSize ELSE IF k < size THEN size - k ELSE 0
OffsetNextOk(p, v) ==
  v.steady = v.ever =>
    v.next = IF (p - 1) * PageSize + PageSize < Cardinality(v.ever) THEN p + 1 ELSE 0

\* The value v under the key k: what it is before, and after it was counted.
Sound(k, v) ==
  /\ v \in Values /\ v.steady \subseteq v.ever
  /\ k.user \notin Admins => OwnedBy(k.user, v)
  /\ k.of = "tasks" /\ k.query.pagination = "cursor" => CursorOk(k.place, v)
  /\ k.of = "tasks" /\ k.query.pagination = "offset" => OffsetOk(k.query, k.place, v)
Whole(k, v) ==
  /\ Sound(k, v)
  /\ k.of = "tasks" /\ k.query.pagination = "offset" => OffsetNextOk(k.place, v)

ReadingInv(r) ==
  /\ At(r, "count") => Sound(KeyOf(r), reading[r])
  /\ At(r, "set") \/ At(r, "register") => Whole(KeyOf(r), reading[r])

ValueInv ==
  /\ \A k \in Keys : cache[k] # None => Whole(k, cache[k])
  /\ \A r \in Requests : ReadingInv(r)

-------------------------------------------------------------------------------
(* Clients                                                                 *)

ClientOwned(r) ==
  LET u == call[r].user IN
    /\ \A n \in DOMAIN shown[r] : task[shown[r][n]].state # "absent" /\ task[shown[r][n]].owner = u
    /\ \A e \in ever[r] : task[e.id].state # "absent" /\ task[e.id].owner = u

\* A walk with cursors has shown what it is to show up to its cursor.
CursorWalk(r) ==
  /\ Rising(shown[r])
  /\ \A n \in DOMAIN shown[r] :
       /\ Running(r) => shown[r][n] <= place[r]
       /\ \E e \in ever[r] : e.id = shown[r][n]
  /\ \A e \in steady[r] :
       (Running(r) => e.id <= place[r]) => \E n \in DOMAIN shown[r] : shown[r][n] = e.id

\* A walk with page numbers has shown all pages before the one it asks for.
OffsetWalk(r) ==
  \/ Running(r) /\ shown[r] = <<>> /\ place[r] = 1 /\ steady[r] = Entries /\ ever[r] = {}
  \/ /\ steady[r] \subseteq ever[r]
     /\ steady[r] = ever[r] =>
          /\ OneEach(ever[r]) /\ Follow(call[r].query, ever[r], 0, shown[r])
          /\ Running(r) => /\ Len(shown[r]) = (place[r] - 1) * PageSize
                           /\ Len(shown[r]) < Cardinality(ever[r])
          /\ ~ Running(r) => Len(shown[r]) = Cardinality(ever[r])

ClientOk(r) ==
  call[r] # None =>
    /\ call[r].user \notin Admins => ClientOwned(r)
    /\ Running(r) \/ verdict[r] = "ok" =>
         /\ call[r].kind = "cursor" => CursorWalk(r)
         /\ call[r].kind = "offset" => OffsetWalk(r)

ClientInv == \A r \in Requests : ClientOk(r)

-------------------------------------------------------------------------------
(* The cache and what is known of it                                       *)

\* All lookups were made by the process p, and none beside a write.
Undisturbed(p) ==
  \A x \in Requests :
    Reads(x) => call[x].process = p /\ \A y \in Requests \ {x} : Writes(y) => Apart(x, y)

\* What was deleted is there again only if somebody read beside.
SetAgain ==
  \A y \in Requests, k \in Keys :
    k \in cleared[y] /\ cache[k] # None => \E x \in Requests \ {y} : Reads(x) /\ ~ Apart(x, y)

\* While nothing disturbs it, a process knows of what is cached, or is about to.
Known(p, k) == k \in registry[p] \/ \E x \in Requests : At(x, "register") /\ KeyOf(x) = k
AllKnown == \A p \in Processes : Undisturbed(p) => \A k \in Keys : cache[k] # None => Known(p, k)

RegistryInv == SetAgain /\ (failures = 0 => AllKnown)

\* A value that a later read may have found may be older than w: see ReadsFresh.
Excused(w) ==
  \E x \in Requests :
    /\ Reads(x) /\ w \notin before[x]
    /\ \/ call[x].process # call[w].process
       \/ \E y \in Requests \ {x} : Writes(y) /\ ~ Apart(x, y)

Done(w) == Ended(w) /\ Writes(w) /\ verdict[w] = "ok"

Recent(w, v) ==
  /\ call[w].kind = "drop" => v.version = None
  /\ call[w].kind = "rename" => v.version = None \/ v.version > call[w].version

Lists(w, u, plain) ==
  call[w].kind = "create" /\ plain /\ (u \in Admins \/ u = call[w].user) /\ ~ Gone(made[w])

\* The value v under the key k takes account of w.
Fresh(w, k, v) ==
  /\ Lists(w, k.user, k.of = "stats" \/ (k.of = "tasks" /\ k.query.filter = "none"))
       => \E e \in v.ever : e.id = made[w]
  /\ call[w].kind = "remove" /\ k \notin CategoryKeys => \A e \in v.ever : e.id # call[w].id
  /\ k \in CategoryKeys => Recent(w, v)

FreshReader(w, r) ==
  /\ At(r, "count") \/ At(r, "set") \/ At(r, "register") => Fresh(w, KeyOf(r), reading[r])
  /\ call[w].kind = "remove" => \A e \in ever[r] : e.id # call[w].id
  /\ call[r].kind \notin PageKinds => Recent(w, reading[r])
  /\ Succeeded(r, PageKinds) /\ Lists(w, call[r].user,
       call[r].kind = "stats" \/ (call[r].kind \in Paginations /\ call[r].query.filter = "none"))
       => \E e \in ever[r] : e.id = made[w]

FreshFor(w) ==
  /\ \A k \in Keys : cache[k] # None => Fresh(w, k, cache[k])
  /\ \A r \in Requests : w \in before[r] => FreshReader(w, r)

FreshInv == failures = 0 => \A w \in Requests : Done(w) /\ ~ Excused(w) => FreshFor(w)

CatalogInv ==
  /\ CatalogTypeOK /\ ShapeInv /\ CreationInv /\ EffectInv
  /\ ValueInv /\ ClientInv /\ RegistryInv /\ FreshInv

-------------------------------------------------------------------------------
(* What is left to do                                                      *)

Looking(c) == c.kind \in Readers \/ c.filed
Changing(c) == c.kind \notin Readers \ {"rename"}

\* The await that a list begins with.
First(l) == IF l = <<>> THEN "end" ELSE Head(l)

\* What the awaits tell of the request, and which one comes next.
AwaitOk(c, l) ==
  /\ First(l) = Head(l) /\ First(l) \in Steps
  /\ First(l) = "flag" => c.kind \in Paginations /\ First(Tail(l)) = "get"
  /\ First(l) = "get" => Looking(c) /\ First(Tail(l)) = "query"
  /\ First(l) = "query" => /\ Looking(c)
                          /\ First(Tail(l)) = IF c.kind = "offset" THEN "count" ELSE "set"
  /\ First(l) = "count" => c.kind = "offset" /\ First(Tail(l)) = "set"
  /\ First(l) = "set" => Looking(c) /\ First(Tail(l)) = "register"
  /\ First(l) = "register" => Looking(c)
  /\ First(l) = "insert" => c.kind = "create" /\ Tail(l) = <<"commit", "clear">>
  /\ First(l) = "commit" => c.kind = "create" /\ l = <<"commit", "clear">>
  /\ First(l) = "save" => c.kind \in {"change", "remove"} /\ Tail(l) = <<"clear">>
  /\ First(l) \in {"rename", "file", "drop"} => c.kind = First(l) /\ Tail(l) = <<"clear">>
  /\ First(l) = "clear" => Changing(c) /\ l = <<"clear">>

\* The first and the others of a short list.
LEMMA Tuples ==
  /\ \A a : Head(<<a>>) = a /\ Tail(<<a>>) = <<>> /\ <<a>> # <<>>
  /\ \A a, b : Head(<<a, b>>) = a /\ Tail(<<a, b>>) = <<b>> /\ <<a, b>> # <<>>
  /\ \A a, b, c : Head(<<a, b, c>>) = a /\ Tail(<<a, b, c>>) = <<b, c>> /\ <<a, b, c>> # <<>>
  /\ \A a, b, c, d : /\ Head(<<a, b, c, d>>) = a /\ Tail(<<a, b, c, d>>) = <<b, c, d>>
                     /\ <<a, b, c, d>> # <<>>
  /\ \A a, b, c, d, e : /\ Head(<<a, b, c, d, e>>) = a /\ Tail(<<a, b, c, d, e>>) = <<b, c, d, e>>
                        /\ <<a, b, c, d, e>> # <<>>
  /\ \A a, b, c, d, e, f :
       /\ Head(<<a, b, c, d, e, f>>) = a /\ Tail(<<a, b, c, d, e, f>>) = <<b, c, d, e, f>>
       /\ <<a, b, c, d, e, f>> # <<>>
  /\ \A a, b, c, d, e, f, g :
       /\ Head(<<a, b, c, d, e, f, g>>) = a /\ Tail(<<a, b, c, d, e, f, g>>) = <<b, c, d, e, f, g>>
       /\ <<a, b, c, d, e, f, g>> # <<>>
  OBVIOUS

\* The lists of who reads something but pages.
LEMMA ReadAwaits ==
  ASSUME NEW c, c.kind \in {"stats", "view", "list"}, NEW l \in ReadLists, l # <<>>
  PROVE  AwaitOk(c, l) /\ Tail(l) \in ReadLists
<1> USE Tuples DEF AwaitOk, First, Steps, Paginations, Looking, Changing, Readers
<1>1. CASE l = <<"get", "query", "set", "register">>
  BY <1>1 DEF ReadLists
<1>2. CASE l = <<"query", "set", "register">>
  BY <1>2 DEF ReadLists
<1>3. CASE l = <<"set", "register">>
  BY <1>3 DEF ReadLists
<1>4. CASE l = <<"register">>
  BY <1>4 DEF ReadLists
<1> QED
  BY <1>1, <1>2, <1>3, <1>4 DEF ReadLists

\* The lists of a walk with cursors.
LEMMA CursorAwaits ==
  ASSUME NEW c, c.kind = "cursor", NEW l \in CursorLists, l # <<>>
  PROVE  AwaitOk(c, l) /\ Tail(l) \in CursorLists
<1> USE Tuples DEF AwaitOk, First, Steps, Paginations, Looking, Changing, Readers
<1>1. CASE l = <<"flag", "get", "query", "set", "register">>
  BY <1>1 DEF CursorLists, ReadLists
<1>2. CASE l = <<"get", "query", "set", "register">>
  BY <1>2 DEF CursorLists, ReadLists
<1>3. CASE l = <<"query", "set", "register">>
  BY <1>3 DEF CursorLists, ReadLists
<1>4. CASE l = <<"set", "register">>
  BY <1>4 DEF CursorLists, ReadLists
<1>5. CASE l = <<"register">>
  BY <1>5 DEF CursorLists, ReadLists
<1> QED
  BY <1>1, <1>2, <1>3, <1>4, <1>5 DEF CursorLists, ReadLists

\* The lists of a walk with page numbers.
LEMMA OffsetAwaits ==
  ASSUME NEW c, c.kind = "offset", NEW l \in OffsetLists, l # <<>>
  PROVE  AwaitOk(c, l) /\ Tail(l) \in OffsetLists
<1> USE Tuples DEF AwaitOk, First, Steps, Paginations, Looking, Changing, Readers
<1>1. CASE l = <<"flag", "get", "query", "count", "set", "register">>
  BY <1>1 DEF OffsetLists
<1>2. CASE l = <<"get", "query", "count", "set", "register">>
  BY <1>2 DEF OffsetLists
<1>3. CASE l = <<"query", "count", "set", "register">>
  BY <1>3 DEF OffsetLists
<1>4. CASE l = <<"count", "set", "register">>
  BY <1>4 DEF OffsetLists
<1>5. CASE l = <<"set", "register">>
  BY <1>5 DEF OffsetLists
<1>6. CASE l = <<"register">>
  BY <1>6 DEF OffsetLists
<1> QED
  BY <1>1, <1>2, <1>3, <1>4, <1>5, <1>6 DEF OffsetLists

\* The lists of who creates a task.
LEMMA CreateAwaits ==
  ASSUME NEW c, c.kind = "create", NEW l \in CreateLists, l # <<>>
  PROVE  AwaitOk(c, l) /\ Tail(l) \in CreateLists
<1> USE Tuples DEF AwaitOk, First, Steps, Paginations, Looking, Changing, Readers
<1>1. CASE l = <<"insert", "commit", "clear">>
  BY <1>1 DEF CreateLists
<1>2. CASE l = <<"commit", "clear">>
  BY <1>2 DEF CreateLists
<1>3. CASE l = <<"clear">>
  BY <1>3 DEF CreateLists
<1> QED
  BY <1>1, <1>2, <1>3 DEF CreateLists

\* The lists of who creates a task of a category.
LEMMA FiledCreateAwaits ==
  ASSUME NEW c, c.kind = "create", c.filed, NEW l \in FiledCreateLists, l # <<>>
  PROVE  AwaitOk(c, l) /\ (Tail(l) \in FiledCreateLists \/ Tail(l) \in CreateLists)
<1> USE Tuples DEF AwaitOk, First, Steps, Paginations, Looking, Changing, Readers
<1>1. CASE l = <<"get", "query", "set", "register", "insert", "commit", "clear">>
  BY <1>1 DEF FiledCreateLists, CreateLists
<1>2. CASE l = <<"query", "set", "register", "insert", "commit", "clear">>
  BY <1>2 DEF FiledCreateLists, CreateLists
<1>3. CASE l = <<"set", "register", "insert", "commit", "clear">>
  BY <1>3 DEF FiledCreateLists, CreateLists
<1>4. CASE l = <<"register", "insert", "commit", "clear">>
  BY <1>4 DEF FiledCreateLists, CreateLists
<1> QED
  BY <1>1, <1>2, <1>3, <1>4 DEF FiledCreateLists

\* The lists of who changes or deletes a task.
LEMMA SaveAwaits ==
  ASSUME NEW c, c.kind \in {"change", "remove"}, NEW l \in SaveLists, l # <<>>
  PROVE  AwaitOk(c, l) /\ Tail(l) \in SaveLists
<1> USE Tuples DEF AwaitOk, First, Steps, Paginations, Looking, Changing, Readers
<1>1. CASE l = <<"save", "clear">>
  BY <1>1 DEF SaveLists
<1>2. CASE l = <<"clear">>
  BY <1>2 DEF SaveLists
<1> QED
  BY <1>1, <1>2 DEF SaveLists

\* The lists of who gives a task a category.
LEMMA FiledSaveAwaits ==
  ASSUME NEW c, c.kind = "change", c.filed, NEW l \in FiledSaveLists, l # <<>>
  PROVE  AwaitOk(c, l) /\ (Tail(l) \in FiledSaveLists \/ Tail(l) \in SaveLists)
<1> USE Tuples DEF AwaitOk, First, Steps, Paginations, Looking, Changing, Readers
<1>1. CASE l = <<"get", "query", "set", "register", "save", "clear">>
  BY <1>1 DEF FiledSaveLists, SaveLists
<1>2. CASE l = <<"query", "set", "register", "save", "clear">>
  BY <1>2 DEF FiledSaveLists, SaveLists
<1>3. CASE l = <<"set", "register", "save", "clear">>
  BY <1>3 DEF FiledSaveLists, SaveLists
<1>4. CASE l = <<"register", "save", "clear">>
  BY <1>4 DEF FiledSaveLists, SaveLists
<1> QED
  BY <1>1, <1>2, <1>3, <1>4 DEF FiledSaveLists

\* The lists of who renames the category.
LEMMA RenameAwaits ==
  ASSUME NEW c, c.kind = "rename", NEW l \in RenameLists, l # <<>>
  PROVE  AwaitOk(c, l) /\ Tail(l) \in RenameLists
<1> USE Tuples DEF AwaitOk, First, Steps, Paginations, Looking, Changing, Readers
<1>1. CASE l = <<"get", "query", "set", "register", "rename", "clear">>
  BY <1>1 DEF RenameLists
<1>2. CASE l = <<"query", "set", "register", "rename", "clear">>
  BY <1>2 DEF RenameLists
<1>3. CASE l = <<"set", "register", "rename", "clear">>
  BY <1>3 DEF RenameLists
<1>4. CASE l = <<"register", "rename", "clear">>
  BY <1>4 DEF RenameLists
<1>5. CASE l = <<"rename", "clear">>
  BY <1>5 DEF RenameLists
<1>6. CASE l = <<"clear">>
  BY <1>6 DEF RenameLists
<1> QED
  BY <1>1, <1>2, <1>3, <1>4, <1>5, <1>6 DEF RenameLists

\* The lists of who creates the category.
LEMMA FileAwaits ==
  ASSUME NEW c, c.kind = "file", NEW l \in FileLists, l # <<>>
  PROVE  AwaitOk(c, l) /\ Tail(l) \in FileLists
<1> USE Tuples DEF AwaitOk, First, Steps, Paginations, Looking, Changing, Readers
<1>1. CASE l = <<"file", "clear">>
  BY <1>1 DEF FileLists
<1>2. CASE l = <<"clear">>
  BY <1>2 DEF FileLists
<1> QED
  BY <1>1, <1>2 DEF FileLists

\* The lists of who deletes the category.
LEMMA DropAwaits ==
  ASSUME NEW c, c.kind = "drop", NEW l \in DropLists, l # <<>>
  PROVE  AwaitOk(c, l) /\ Tail(l) \in DropLists
<1> USE Tuples DEF AwaitOk, First, Steps, Paginations, Looking, Changing, Readers
<1>1. CASE l = <<"drop", "clear">>
  BY <1>1 DEF DropLists
<1>2. CASE l = <<"clear">>
  BY <1>2 DEF DropLists
<1> QED
  BY <1>1, <1>2 DEF DropLists


\* A request that has something left to do is at one of the awaits of its kind.
LEMMA Awaits ==
  ASSUME NEW c, NEW l, Left(c, l), l # <<>>
  PROVE  AwaitOk(c, l) /\ Left(c, Tail(l))
<1>1. CASE c.kind = "cursor" /\ l \in CursorLists
  BY <1>1, CursorAwaits DEF Left
<1>2. CASE c.kind = "offset" /\ l \in OffsetLists
  BY <1>2, OffsetAwaits DEF Left
<1>3. CASE c.kind \in {"stats", "view", "list"} /\ l \in ReadLists
  BY <1>3, ReadAwaits DEF Left
<1>4. CASE c.kind = "create" /\ l \in CreateLists
  BY <1>4, CreateAwaits DEF Left
<1>5. CASE c.kind = "create" /\ c.filed /\ l \in FiledCreateLists
  BY <1>5, FiledCreateAwaits DEF Left
<1>6. CASE c.kind = "change" /\ l \in SaveLists
  BY <1>6, SaveAwaits DEF Left
<1>7. CASE c.kind = "change" /\ c.filed /\ l \in FiledSaveLists
  BY <1>7, FiledSaveAwaits DEF Left
<1>8. CASE c.kind = "remove" /\ l \in SaveLists
  BY <1>8, SaveAwaits DEF Left
<1>9. CASE c.kind = "rename" /\ l \in RenameLists
  BY <1>9, RenameAwaits DEF Left
<1>10. CASE c.kind = "file" /\ l \in FileLists
  BY <1>10, FileAwaits DEF Left
<1>11. CASE c.kind = "drop" /\ l \in DropLists
  BY <1>11, DropAwaits DEF Left
<1> QED
  BY <1>1, <1>2, <1>3, <1>4, <1>5, <1>6, <1>7, <1>8, <1>9, <1>10, <1>11 DEF Left

\* Any request may have nothing left to do.
LEMMA EmptyLeft ==
  ASSUME NEW c, c.kind \in Kinds
  PROVE  Left(c, <<>>)
  BY DEF Left, Kinds, Paginations, ReadLists, CursorLists, OffsetLists, CreateLists, SaveLists,
         RenameLists, FileLists, DropLists

\* What comes after the lookup of a category.
LEMMA AfterLookupLeft ==
  ASSUME NEW c, c.kind \in Kinds \ PageKinds
  PROVE  /\ c.kind \in {"create", "change", "rename", "view", "list"} => Left(c, AfterLookup(c.kind))
         /\ c.kind = "create" => AfterLookup(c.kind) = <<"insert", "commit", "clear">>
         /\ c.kind = "change" => AfterLookup(c.kind) = <<"save", "clear">>
         /\ c.kind = "rename" => AfterLookup(c.kind) = <<"rename", "clear">>
         /\ c.kind \in {"view", "list"} => AfterLookup(c.kind) = <<>>
  BY DEF AfterLookup, Left, CreateLists, SaveLists, RenameLists, ReadLists

\* The lists that are put together.
LEMMA Concatenations ==
  /\ \A l \in Seq(Steps) : <<>> \o l = l /\ l \o <<>> = l
  /\ <<"get", "query">> \o <<"set", "register">> = <<"get", "query", "set", "register">>
  /\ <<"get", "query">> \o <<"count">> = <<"get", "query", "count">>
  /\ <<"get", "query", "count">> \o <<"set", "register">> = <<"get", "query", "count", "set", "register">>
  /\ <<"flag">> \o <<"get", "query", "set", "register">> = <<"flag", "get", "query", "set", "register">>
  /\ <<"flag">> \o <<"get", "query", "count", "set", "register">> = <<"flag", "get", "query", "count", "set", "register">>
  /\ <<"get", "query", "set", "register">> \o <<"insert", "commit", "clear">> = <<"get", "query", "set", "register", "insert", "commit", "clear">>
  /\ <<"get", "query", "set", "register">> \o <<"save", "clear">> = <<"get", "query", "set", "register", "save", "clear">>
  /\ <<"get", "query", "set", "register">> \o <<"rename", "clear">> = <<"get", "query", "set", "register", "rename", "clear">>
  /\ <<"insert">> \o <<"commit", "clear">> = <<"insert", "commit", "clear">>
<1>1. ASSUME NEW s \in Seq(Steps), NEW t \in Seq(Steps), Len(s) = Len(t),
             \A n \in 1 .. Len(s) : s[n] = t[n]
      PROVE  s = t
  BY <1>1, SeqEqual
<1>2. \A l \in Seq(Steps) : <<>> \o l = l /\ l \o <<>> = l
  OBVIOUS
<1>3. <<"get", "query">> \o <<"set", "register">> = <<"get", "query", "set", "register">>
  <2> DEFINE s == <<"get", "query">> \o <<"set", "register">>
             t == <<"get", "query", "set", "register">>
  <2>1. s \in Seq(Steps) /\ t \in Seq(Steps)
    BY DEF Steps
  <2>2. Len(s) = Len(t) /\ \A n \in 1 .. Len(s) : s[n] = t[n]
    OBVIOUS
  <2> QED
    BY <1>1, <2>1, <2>2
<1>4. <<"get", "query">> \o <<"count">> = <<"get", "query", "count">>
  <2> DEFINE s == <<"get", "query">> \o <<"count">>
             t == <<"get", "query", "count">>
  <2>1. s \in Seq(Steps) /\ t \in Seq(Steps)
    BY DEF Steps
  <2>2. Len(s) = Len(t) /\ \A n \in 1 .. Len(s) : s[n] = t[n]
    OBVIOUS
  <2> QED
    BY <1>1, <2>1, <2>2
<1>5. <<"get", "query", "count">> \o <<"set", "register">> = <<"get", "query", "count", "set", "register">>
  <2> DEFINE s == <<"get", "query", "count">> \o <<"set", "register">>
             t == <<"get", "query", "count", "set", "register">>
  <2>1. s \in Seq(Steps) /\ t \in Seq(Steps)
    BY DEF Steps
  <2>2. Len(s) = Len(t) /\ \A n \in 1 .. Len(s) : s[n] = t[n]
    OBVIOUS
  <2> QED
    BY <1>1, <2>1, <2>2
<1>6. <<"flag">> \o <<"get", "query", "set", "register">> = <<"flag", "get", "query", "set", "register">>
  <2> DEFINE s == <<"flag">> \o <<"get", "query", "set", "register">>
             t == <<"flag", "get", "query", "set", "register">>
  <2>1. s \in Seq(Steps) /\ t \in Seq(Steps)
    BY DEF Steps
  <2>2. Len(s) = Len(t) /\ \A n \in 1 .. Len(s) : s[n] = t[n]
    OBVIOUS
  <2> QED
    BY <1>1, <2>1, <2>2
<1>7. <<"flag">> \o <<"get", "query", "count", "set", "register">> = <<"flag", "get", "query", "count", "set", "register">>
  <2> DEFINE s == <<"flag">> \o <<"get", "query", "count", "set", "register">>
             t == <<"flag", "get", "query", "count", "set", "register">>
  <2>1. s \in Seq(Steps) /\ t \in Seq(Steps)
    BY DEF Steps
  <2>2. Len(s) = Len(t) /\ \A n \in 1 .. Len(s) : s[n] = t[n]
    OBVIOUS
  <2> QED
    BY <1>1, <2>1, <2>2
<1>8. <<"get", "query", "set", "register">> \o <<"insert", "commit", "clear">> = <<"get", "query", "set", "register", "insert", "commit", "clear">>
  <2> DEFINE s == <<"get", "query", "set", "register">> \o <<"insert", "commit", "clear">>
             t == <<"get", "query", "set", "register", "insert", "commit", "clear">>
  <2>1. s \in Seq(Steps) /\ t \in Seq(Steps)
    BY DEF Steps
  <2>2. Len(s) = Len(t) /\ \A n \in 1 .. Len(s) : s[n] = t[n]
    OBVIOUS
  <2> QED
    BY <1>1, <2>1, <2>2
<1>9. <<"get", "query", "set", "register">> \o <<"save", "clear">> = <<"get", "query", "set", "register", "save", "clear">>
  <2> DEFINE s == <<"get", "query", "set", "register">> \o <<"save", "clear">>
             t == <<"get", "query", "set", "register", "save", "clear">>
  <2>1. s \in Seq(Steps) /\ t \in Seq(Steps)
    BY DEF Steps
  <2>2. Len(s) = Len(t) /\ \A n \in 1 .. Len(s) : s[n] = t[n]
    OBVIOUS
  <2> QED
    BY <1>1, <2>1, <2>2
<1>10. <<"get", "query", "set", "register">> \o <<"rename", "clear">> = <<"get", "query", "set", "register", "rename", "clear">>
  <2> DEFINE s == <<"get", "query", "set", "register">> \o <<"rename", "clear">>
             t == <<"get", "query", "set", "register", "rename", "clear">>
  <2>1. s \in Seq(Steps) /\ t \in Seq(Steps)
    BY DEF Steps
  <2>2. Len(s) = Len(t) /\ \A n \in 1 .. Len(s) : s[n] = t[n]
    OBVIOUS
  <2> QED
    BY <1>1, <2>1, <2>2
<1>11. <<"insert">> \o <<"commit", "clear">> = <<"insert", "commit", "clear">>
  <2> DEFINE s == <<"insert">> \o <<"commit", "clear">>
             t == <<"insert", "commit", "clear">>
  <2>1. s \in Seq(Steps) /\ t \in Seq(Steps)
    BY DEF Steps
  <2>2. Len(s) = Len(t) /\ \A n \in 1 .. Len(s) : s[n] = t[n]
    OBVIOUS
  <2> QED
    BY <1>1, <2>1, <2>2
<1> QED
  BY <1>2, <1>3, <1>4, <1>5, <1>6, <1>7, <1>8, <1>9, <1>10, <1>11

\* The awaits of a lookup.
LEMMA Lookups ==
  /\ Lookup(None) = <<"get", "query", "set", "register">>
  /\ \A q \in Queries :
       Lookup(q) = IF q.pagination = "offset" THEN <<"get", "query", "count", "set", "register">>
                   ELSE <<"get", "query", "set", "register">>
<1>1. <<"get", "query">> \in Seq(Steps) /\ <<"count">> \in Seq(Steps)
  BY DEF Steps
<1>2. None \notin Queries
  BY CatalogAssumption
<1>3. <<"get", "query">> \o <<>> = <<"get", "query">>
  BY <1>1, Concatenations
<1>4. Lookup(None) = <<"get", "query", "set", "register">>
  <2>1. Lookup(None) = <<"get", "query">> \o <<>> \o <<"set", "register">>
    BY DEF Lookup
  <2> QED
    BY <2>1, <1>3, Concatenations
<1>5. ASSUME NEW q \in Queries, q.pagination = "offset"
      PROVE  Lookup(q) = <<"get", "query", "count", "set", "register">>
  <2>1. Lookup(q) = <<"get", "query">> \o <<"count">> \o <<"set", "register">>
    BY <1>5, <1>2 DEF Lookup
  <2> QED
    BY <2>1, Concatenations
<1>6. ASSUME NEW q \in Queries, q.pagination # "offset"
      PROVE  Lookup(q) = <<"get", "query", "set", "register">>
  <2>1. Lookup(q) = <<"get", "query">> \o <<>> \o <<"set", "register">>
    BY <1>6 DEF Lookup
  <2> QED
    BY <2>1, <1>3, Concatenations
<1> QED
  BY <1>4, <1>5, <1>6

\* The awaits of a request for a page.
LEMMA PagePlanLeft ==
  ASSUME NEW c, WellFormed(c), c.kind \in Paginations
  PROVE  /\ PagePlan(c.query) # <<>> /\ First(PagePlan(c.query)) \in {"flag", "get"}
         /\ Left(c, PagePlan(c.query))
<1>1. c.query \in Queries /\ c.query.pagination = c.kind
  BY DEF WellFormed
<1>2. /\ <<"get", "query", "set", "register">> \in Seq(Steps)
      /\ <<"get", "query", "count", "set", "register">> \in Seq(Steps)
  BY DEF Steps
<1>3. CASE c.kind = "cursor"
  <2>1. Lookup(c.query) = <<"get", "query", "set", "register">>
    BY <1>1, <1>3, Lookups
  <2>2. \/ PagePlan(c.query) = <<"flag", "get", "query", "set", "register">>
        \/ PagePlan(c.query) = <<"get", "query", "set", "register">>
    BY <2>1, <1>2, Concatenations DEF PagePlan
  <2> QED
    BY <2>2, <1>3, Tuples DEF Left, CursorLists, ReadLists, First
<1>4. CASE c.kind = "offset"
  <2>1. Lookup(c.query) = <<"get", "query", "count", "set", "register">>
    BY <1>1, <1>4, Lookups
  <2>2. \/ PagePlan(c.query) = <<"flag", "get", "query", "count", "set", "register">>
        \/ PagePlan(c.query) = <<"get", "query", "count", "set", "register">>
    BY <2>1, <1>2, Concatenations DEF PagePlan
  <2> QED
    BY <2>2, <1>4, Tuples DEF Left, OffsetLists, First
<1> QED
  BY <1>3, <1>4 DEF Paginations

\* The awaits of a request that arrives.
LEMMA PlanLeft ==
  ASSUME NEW c, WellFormed(c)
  PROVE  /\ Plan(c) # <<>> /\ Left(c, Plan(c))
         /\ First(Plan(c)) \in {"flag", "get", "insert", "save", "file", "drop"}
<1>1. c.kind \in Kinds
  BY DEF WellFormed, Calls
<1>2. /\ <<"insert", "commit", "clear">> \in Seq(Steps) /\ <<"save", "clear">> \in Seq(Steps)
  BY DEF Steps
<1>3. CASE c.kind \in Paginations
  <2>1. Plan(c) = PagePlan(c.query)
    BY <1>3 DEF Plan, Paginations
  <2> QED
    BY <2>1, <1>3, PagePlanLeft
<1>4. CASE c.kind = "create"
  <2>1. \/ Plan(c) = <<"insert", "commit", "clear">>
        \/ c.filed /\ Plan(c) = <<"get", "query", "set", "register", "insert", "commit", "clear">>
    BY <1>4, <1>2, Lookups, Concatenations DEF Plan, AfterLookup, Paginations
  <2> QED
    BY <2>1, <1>4, Tuples DEF Left, CreateLists, FiledCreateLists, First
<1>5. CASE c.kind = "change"
  <2>1. \/ Plan(c) = <<"save", "clear">>
        \/ c.filed /\ Plan(c) = <<"get", "query", "set", "register", "save", "clear">>
    BY <1>5, <1>2, Lookups, Concatenations DEF Plan, AfterLookup, Paginations
  <2> QED
    BY <2>1, <1>5, Tuples DEF Left, SaveLists, FiledSaveLists, First
<1>6. CASE c.kind = "remove"
  <2>1. Plan(c) = <<"save", "clear">>
    BY <1>6 DEF Plan, Paginations
  <2> QED
    BY <2>1, <1>6, Tuples DEF Left, SaveLists, First
<1>7. CASE c.kind \in {"stats", "view", "list"}
  <2>1. Plan(c) = <<"get", "query", "set", "register">>
    BY <1>7, Lookups DEF Plan, Paginations
  <2> QED
    BY <2>1, <1>7, Tuples DEF Left, ReadLists, First
<1>8. CASE c.kind = "rename"
  <2>1. Plan(c) = <<"get", "query", "set", "register", "rename", "clear">>
    BY <1>8, Lookups, Concatenations DEF Plan, AfterLookup, Paginations
  <2> QED
    BY <2>1, <1>8, Tuples DEF Left, RenameLists, First
<1>9. CASE c.kind = "file"
  <2>1. Plan(c) = <<"file", "clear">>
    BY <1>9 DEF Plan, Paginations
  <2> QED
    BY <2>1, <1>9, Tuples DEF Left, FileLists, First
<1>10. CASE c.kind = "drop"
  <2>1. Plan(c) = <<"drop", "clear">>
    BY <1>10 DEF Plan, Paginations
  <2> QED
    BY <2>1, <1>10, Tuples DEF Left, DropLists, First
<1> QED
  BY <1>1, <1>3, <1>4, <1>5, <1>6, <1>7, <1>8, <1>9, <1>10 DEF Kinds

-------------------------------------------------------------------------------
(* The order of the entries                                                *)

\* Any set of entries is finite.
LEMMA EntriesFinite == IsFiniteSet(Ids) /\ IsFiniteSet(Entries)
<1>1. IsFiniteSet(Ids)
  BY CatalogAssumption, FS_Interval DEF Ids
<1>2. IsFiniteSet(Weights)
  <2>1. Weights = {1} \cup {2}
    BY DEF Weights
  <2> QED
    BY <2>1, FS_Singleton, FS_Union
<1>3. IsFiniteSet(Ids \X Weights)
  BY <1>1, <1>2, FS_Product
<1> DEFINE f == [x \in Ids \X Weights |-> [id |-> x[1], weight |-> x[2]]]
<1>4. f \in Surjection(Ids \X Weights, Entries)
  <2>1. f \in [Ids \X Weights -> Entries]
    BY DEF Entries
  <2>2. ASSUME NEW e \in Entries
        PROVE  \E x \in Ids \X Weights : f[x] = e
    <3>1. <<e.id, e.weight>> \in Ids \X Weights /\ e = [id |-> e.id, weight |-> e.weight]
      BY DEF Entries
    <3> QED
      BY <3>1
  <2> QED
    BY <2>1, <2>2 DEF Surjection
<1>5. IsFiniteSet(Entries)
  BY <1>3, <1>4, FS_Surjection
<1> QED
  BY <1>1, <1>5

\* Precedes orders the entries of different tasks.
LEMMA Ordered ==
  ASSUME NEW q, NEW E, E \subseteq Entries, OneEach(E)
  PROVE  /\ \A e \in E : ~ Precedes(q, e, e)
         /\ \A d, e \in E : d # e => Precedes(q, d, e) \/ Precedes(q, e, d)
         /\ \A c, d, e \in E : Precedes(q, c, d) /\ Precedes(q, d, e) => Precedes(q, c, e)
<1>1. \A e \in E : e.id \in Int /\ e.weight \in Int
  BY CatalogAssumption DEF Entries, Ids, Weights
<1>2. \A d, e \in E : d # e => d.id # e.id
  BY DEF OneEach
<1> QED
  BY <1>1, <1>2 DEF Precedes

\* The entries of E have the ranks 0, 1, ... in their order.
LEMMA Ranks ==
  ASSUME NEW q, NEW E, E \subseteq Entries, OneEach(E)
  PROVE  /\ IsFiniteSet(E) /\ Cardinality(E) \in Nat
         /\ \A e \in E : Rank(q, E, e) \in 0 .. Cardinality(E) - 1
         /\ \A d, e \in E : Precedes(q, d, e) => Rank(q, E, d) < Rank(q, E, e)
         /\ \A d, e \in E : Rank(q, E, d) = Rank(q, E, e) => d = e
         /\ \A n \in 0 .. Cardinality(E) - 1 : \E e \in E : Rank(q, E, e) = n
<1>1. IsFiniteSet(E) /\ Cardinality(E) \in Nat
  BY EntriesFinite, FS_Subset, FS_CardinalityType
<1> DEFINE Less(e) == {d \in E : Precedes(q, d, e)}
<1>2. ASSUME NEW S, NEW T, S \subseteq T, T \subseteq E, S # T
      PROVE  Cardinality(S) \in Nat /\ Cardinality(S) < Cardinality(T)
  <2>1. IsFiniteSet(T)
    BY <1>1, <1>2, FS_Subset
  <2>2. IsFiniteSet(S) /\ Cardinality(S) <= Cardinality(T) /\ Cardinality(S) # Cardinality(T)
    BY <2>1, <1>2, FS_Subset
  <2> QED
    BY <2>1, <2>2, FS_CardinalityType
<1>3. ASSUME NEW e \in E
      PROVE  Rank(q, E, e) \in 0 .. Cardinality(E) - 1
  <2>1. Less(e) \subseteq E /\ e \notin Less(e)
    BY Ordered
  <2>2. Cardinality(Less(e)) \in Nat /\ Cardinality(Less(e)) < Cardinality(E)
    BY <2>1, <1>2
  <2> QED
    BY <2>2, <1>1 DEF Rank
<1>4. ASSUME NEW d \in E, NEW e \in E, Precedes(q, d, e)
      PROVE  Rank(q, E, d) < Rank(q, E, e)
  <2>1. Less(d) \subseteq Less(e) /\ d \in Less(e) /\ d \notin Less(d) /\ Less(e) \subseteq E
    BY <1>4, Ordered
  <2> QED
    BY <2>1, <1>2 DEF Rank
<1>5. ASSUME NEW d \in E, NEW e \in E, Rank(q, E, d) = Rank(q, E, e)
      PROVE  d = e
  BY <1>3, <1>4, <1>5, Ordered
<1> DEFINE f == [e \in E |-> Rank(q, E, e)]
           N == 0 .. Cardinality(E) - 1
<1>6. f \in Injection(E, N)
  <2>1. f \in [E -> N]
    BY <1>3
  <2>2. \A d, e \in E : f[d] = f[e] => d = e
    BY <1>5
  <2> QED
    BY <2>1, <2>2 DEF Injection, IsInjective
<1>7. IsFiniteSet(N) /\ Cardinality(N) = Cardinality(E)
  BY <1>1, FS_Interval
<1>8. f \in Surjection(E, N)
  <2> HIDE DEF f, N
  <2> QED
    BY <1>6, <1>7, FS_Injection
<1>9. \A n \in N : \E e \in E : f[e] = n
  BY <1>8 DEF Surjection
<1> QED
  BY <1>1, <1>3, <1>4, <1>5, <1>9

\* Sorted gives all entries, in their order.
LEMMA SortedFacts ==
  ASSUME NEW q, NEW E, E \subseteq Entries, OneEach(E)
  PROVE  LET s == Sorted(q, E)
         IN /\ s \in Seq(E) /\ Len(s) = Cardinality(E) /\ Cardinality(E) \in Nat
            /\ \A n \in 1 .. Len(s) : s[n] \in E /\ Rank(q, E, s[n]) = n - 1
            /\ \A e \in E : \E n \in 1 .. Len(s) : s[n] = e
            /\ \A m, n \in 1 .. Len(s) : m < n => Precedes(q, s[m], s[n])
<1> DEFINE s == Sorted(q, E)
           N == Cardinality(E)
<1>1. /\ N \in Nat
      /\ \A e \in E : Rank(q, E, e) \in 0 .. N - 1
      /\ \A d, e \in E : Precedes(q, d, e) => Rank(q, E, d) < Rank(q, E, e)
      /\ \A d, e \in E : Rank(q, E, d) = Rank(q, E, e) => d = e
      /\ \A n \in 0 .. N - 1 : \E e \in E : Rank(q, E, e) = n
  BY Ranks
<1> DEFINE At0(n) == CHOOSE e \in E : Rank(q, E, e) = n - 1
<1>2. s = [n \in 1 .. N |-> At0(n)]
  BY DEF Sorted, Rank
<1>3. ASSUME NEW n \in 1 .. N
      PROVE  At0(n) \in E /\ Rank(q, E, At0(n)) = n - 1
  <2> HIDE DEF N
  <2>1. n - 1 \in 0 .. N - 1
    BY <1>1
  <2>2. \E e \in E : Rank(q, E, e) = n - 1
    BY <2>1, <1>1
  <2> QED
    BY <2>2
<1> HIDE DEF s, N, At0
<1>4. /\ s \in Seq(E) /\ Len(s) = N
      /\ \A n \in 1 .. N : s[n] \in E /\ Rank(q, E, s[n]) = n - 1
  <2>1. s \in [1 .. N -> E]
    BY <1>2, <1>3
  <2>2. \A n \in 1 .. N : s[n] = At0(n)
    BY <1>2
  <2> QED
    BY <1>1, <1>3, <2>1, <2>2
<1>5. ASSUME NEW e \in E
      PROVE  \E n \in 1 .. N : s[n] = e
  <2>1. Rank(q, E, e) \in 0 .. N - 1
    BY <1>1
  <2>2. Rank(q, E, e) + 1 \in 1 .. N /\ (Rank(q, E, e) + 1) - 1 = Rank(q, E, e)
    BY <2>1, <1>1
  <2>3. s[Rank(q, E, e) + 1] = e
    BY <1>1, <1>4, <2>2
  <2> QED
    BY <2>2, <2>3
<1>6. ASSUME NEW m \in 1 .. N, NEW n \in 1 .. N, m < n
      PROVE  Precedes(q, s[m], s[n])
  <2> DEFINE d == s[m]
             e == s[n]
  <2>1. d \in E /\ e \in E /\ Rank(q, E, d) = m - 1 /\ Rank(q, E, e) = n - 1
    BY <1>4
  <2> HIDE DEF d, e
  <2>2. d # e /\ ~ (Rank(q, E, e) < Rank(q, E, d))
    BY <2>1, <1>1, <1>6
  <2>3. Precedes(q, d, e)
    BY <2>1, <2>2, <1>1, Ordered
  <2> QED
    BY <2>3 DEF d, e
<1> QED
  BY <1>1, <1>4, <1>5, <1>6 DEF s, N

-------------------------------------------------------------------------------
(* Pages                                                                   *)

\* At most n elements of s, after the first k.
LEMMA SliceFacts ==
  ASSUME NEW S, NEW s \in Seq(S), NEW k \in Nat, NEW n \in Nat
  PROVE  LET t == Slice(s, k, n)
         IN /\ t \in Seq(S)
            /\ Len(t) = IF k + n < Len(s) THEN n ELSE IF k < Len(s) THEN Len(s) - k ELSE 0
            /\ \A i \in 1 .. Len(t) : t[i] = s[k + i] /\ k + i \in 1 .. Len(s)
<1> DEFINE j == IF k + n < Len(s) THEN k + n ELSE Len(s)
<1>1. CASE k < Len(s)
  <2>1. k + 1 \in 1 .. Len(s) + 1 /\ j \in (k + 1) - 1 .. Len(s)
    BY <1>1
  <2>2. /\ SubSeq(s, k + 1, j) \in Seq(S) /\ Len(SubSeq(s, k + 1, j)) = j - (k + 1) + 1
        /\ \A i \in 1 .. j - (k + 1) + 1 : SubSeq(s, k + 1, j)[i] = s[(k + 1) + i - 1]
    <3> HIDE DEF j
    <3> QED
      BY <2>1, SubSeqProperties
  <2> QED
    BY <1>1, <2>2 DEF Slice
<1>2. CASE ~ (k < Len(s))
  <2>1. j = Len(s) /\ k + 1 > j
    BY <1>2
  <2>2. SubSeq(s, k + 1, j) = <<>>
    BY <2>1, SubSeqEmpty
  <2> QED
    BY <1>2, <2>1, <2>2 DEF Slice
<1> QED
  BY <1>1, <1>2

\* At most n elements of s, from the first.
LEMMA FirstSlice ==
  ASSUME NEW S, NEW s \in Seq(S), NEW n \in Nat
  PROVE  LET t == Slice(s, 0, n)
         IN /\ t \in Seq(S)
            /\ Len(t) = IF n < Len(s) THEN n ELSE Len(s)
            /\ \A i \in 1 .. Len(t) : t[i] = s[i] /\ i \in 1 .. Len(s)
<1> DEFINE t == Slice(s, 0, n)
<1>1. /\ t \in Seq(S)
      /\ Len(t) = IF 0 + n < Len(s) THEN n ELSE IF 0 < Len(s) THEN Len(s) - 0 ELSE 0
      /\ \A i \in 1 .. Len(t) : t[i] = s[0 + i] /\ 0 + i \in 1 .. Len(s)
  BY SliceFacts
<1> HIDE DEF t
<1>2. \A i \in 1 .. Len(t) : 0 + i = i
  OBVIOUS
<1>3. Len(s) \in Nat
  OBVIOUS
<1>4. Len(t) = IF n < Len(s) THEN n ELSE Len(s)
  BY <1>1, <1>3
<1> QED
  BY <1>1, <1>2, <1>4 DEF t

\* A page has the ids of its entries.
LEMMA PageFacts ==
  ASSUME NEW E \in SUBSET Entries, NEW s \in Seq(E), NEW next \in 0 .. MaxTask + 1
  PROVE  LET v == Page(E, s, next)
         IN /\ v \in Values /\ v.steady = E /\ v.ever = E /\ v.next = next /\ v.version = None
            /\ Len(v.data) = Len(s) /\ DOMAIN v.data = 1 .. Len(s)
            /\ \A n \in 1 .. Len(s) : v.data[n] = s[n].id /\ s[n] \in E
<1> DEFINE d == [n \in 1 .. Len(s) |-> s[n].id]
<1>1. Len(s) \in Nat /\ \A n \in 1 .. Len(s) : s[n] \in E /\ s[n].id \in Ids
  BY DEF Entries
<1>2. d \in [1 .. Len(s) -> Ids]
  BY <1>1
<1>3. d \in Seq(Ids) /\ Len(d) = Len(s) /\ DOMAIN d = 1 .. Len(s)
  BY <1>1, <1>2
<1>4. \A n \in 1 .. Len(s) : d[n] = s[n].id
  OBVIOUS
<1>5. Page(E, s, next) = [data |-> d, next |-> next, steady |-> E, ever |-> E, version |-> None]
  BY DEF Page
<1> HIDE DEF d
<1>6. Page(E, s, next) \in Values
  BY <1>3, <1>5 DEF Values
<1> QED
  BY <1>1, <1>3, <1>4, <1>5, <1>6

\* A page of a walk with cursors has all that comes after its cursor, up to the next one.
LEMMA CursorPageOk ==
  ASSUME NEW q, q.pagination = "cursor", NEW E \in SUBSET Entries, OneEach(E), NEW p \in Nat
  PROVE  LET v == CursorPage(q, E, p)
         IN /\ v \in Values /\ v.steady = E /\ v.ever = E /\ v.version = None /\ CursorOk(p, v)
            /\ \A n \in DOMAIN v.data : \E e \in E : e.id = v.data[n]
<1> DEFINE P == {e \in E : e.id > p}
           z == Sorted(q, P)
           m == PageSize + 1
           s == Slice(z, 0, m)
           t == Slice(s, 0, PageSize)
           next == IF Len(s) > PageSize THEN s[PageSize].id ELSE 0
           v == Page(E, t, next)
<1>1. CursorPage(q, E, p) = v
  BY DEF CursorPage
<1>2. PageSize \in Nat /\ PageSize > 0 /\ m \in Nat /\ m = PageSize + 1 /\ MaxTask \in Nat
  BY CatalogAssumption
<1>3. P \subseteq Entries /\ OneEach(P) /\ P \subseteq E
  BY DEF OneEach
<1>4. \A e \in P : e.id \in Ids /\ e.id \in Nat /\ e.id > 0 /\ e.id > p
  BY <1>2 DEF Entries, Ids
<1>5. /\ z \in Seq(P) /\ \A e \in P : \E n \in 1 .. Len(z) : z[n] = e
      /\ \A n \in 1 .. Len(z) : z[n] \in P
      /\ \A i, n \in 1 .. Len(z) : i < n => Precedes(q, z[i], z[n])
  <2> HIDE DEF P
  <2> QED
    BY <1>3, SortedFacts
<1>6. \A i, n \in 1 .. Len(z) : i < n => z[i].id < z[n].id
  BY <1>5 DEF Precedes
<1>7. \A e : e \in P <=> e \in E /\ e.id > p
  OBVIOUS
<1> HIDE DEF z, m, P
<1>8. /\ s \in Seq(P) /\ Len(s) = IF m < Len(z) THEN m ELSE Len(z)
      /\ \A i \in 1 .. Len(s) : s[i] = z[i] /\ i \in 1 .. Len(z)
  BY <1>2, <1>5, FirstSlice
<1>9. Len(z) \in Nat
  BY <1>5
<1> HIDE DEF s
<1>10. /\ t \in Seq(P) /\ Len(t) = IF PageSize < Len(s) THEN PageSize ELSE Len(s)
       /\ \A i \in 1 .. Len(t) : t[i] = s[i] /\ i \in 1 .. Len(s)
  BY <1>2, <1>8, FirstSlice
<1> HIDE DEF t
<1>11. /\ Len(t) \in Nat /\ \A i \in 1 .. Len(t) : t[i] = z[i] /\ i \in 1 .. Len(z) /\ z[i] \in P
  BY <1>5, <1>8, <1>10
<1>12. \/ /\ Len(s) > PageSize /\ Len(t) = PageSize /\ PageSize \in 1 .. Len(z)
          /\ next = z[PageSize].id /\ z[PageSize] \in P
       \/ next = 0 /\ Len(t) = Len(z)
  <2>1. CASE Len(s) > PageSize
    <3>1. PageSize \in 1 .. Len(s) /\ PageSize \in 1 .. Len(z)
      BY <2>1, <1>2, <1>8, <1>9
    <3>2. s[PageSize] = z[PageSize] /\ z[PageSize] \in P
      BY <3>1, <1>5, <1>8
    <3> QED
      BY <2>1, <3>1, <3>2, <1>10
  <2>2. CASE ~ (Len(s) > PageSize)
    BY <2>2, <1>2, <1>8, <1>9, <1>10
  <2> QED
    BY <2>1, <2>2
<1>13. next \in 0 .. MaxTask + 1
  BY <1>12, <1>4, <1>2 DEF Ids
<1> HIDE DEF next
<1>14. t \in Seq(E)
  BY <1>3, <1>10
<1>15. /\ v \in Values /\ v.steady = E /\ v.ever = E /\ v.next = next /\ v.version = None
       /\ Len(v.data) = Len(t) /\ DOMAIN v.data = 1 .. Len(t)
       /\ \A n \in 1 .. Len(t) : v.data[n] = t[n].id /\ t[n] \in E
  BY <1>13, <1>14, PageFacts
<1> HIDE DEF v
<1>16. \A n \in DOMAIN v.data : v.data[n] = z[n].id /\ z[n] \in P /\ z[n] \in E /\ n \in 1 .. Len(z)
  BY <1>11, <1>15
<1>17. Rising(v.data)
  BY <1>6, <1>16 DEF Rising
<1>18. ASSUME NEW n \in DOMAIN v.data
       PROVE  /\ v.data[n] > p /\ (v.next # 0 => v.data[n] <= v.next)
              /\ \E e \in v.ever : e.id = v.data[n]
  <2>1. n \in 1 .. Len(t) /\ z[n].id > p /\ z[n].id \in Nat
    BY <1>16, <1>15, <1>4
  <2>2. ASSUME v.next # 0
        PROVE  z[n].id <= v.next
    <3>1. /\ Len(t) = PageSize /\ PageSize \in 1 .. Len(z) /\ v.next = z[PageSize].id
          /\ z[PageSize].id \in Nat
      BY <2>2, <1>12, <1>15, <1>4
    <3> QED
      BY <3>1, <2>1, <1>6, <1>16
  <2> QED
    BY <2>1, <2>2, <1>16, <1>15
<1>19. ASSUME NEW e \in v.steady, e.id > p, v.next = 0 \/ e.id <= v.next
       PROVE  \E n \in DOMAIN v.data : v.data[n] = e.id
  <2>1. e \in P
    BY <1>19, <1>7, <1>15
  <2>2. PICK j \in 1 .. Len(z) : z[j] = e
    BY <2>1, <1>5
  <2>3. j \in 1 .. Len(t)
    <3>1. CASE next = 0 /\ Len(t) = Len(z)
      BY <3>1
    <3>2. CASE Len(t) = PageSize /\ PageSize \in 1 .. Len(z) /\ next = z[PageSize].id /\ z[PageSize] \in P
      <4>1. next \in Nat /\ next > 0 /\ e.id \in Nat
        BY <3>2, <2>1, <1>4
      <4>2. ~ (PageSize < j)
        BY <3>2, <4>1, <2>2, <1>6, <1>19, <1>15
      <4> QED
        BY <3>2, <4>2, <2>2
    <3> QED
      BY <3>1, <3>2, <1>12
  <2> QED
    BY <2>2, <2>3, <1>15, <1>16
<1>20. v.next # 0 => p < v.next
  BY <1>12, <1>15, <1>4
<1>21. CursorOk(p, v)
  BY <1>17, <1>18, <1>19, <1>20 DEF CursorOk
<1> QED
  BY <1>1, <1>15, <1>16, <1>21

\* The entries before a page.
LEMMA PageStart ==
  ASSUME NEW p \in Nat, p >= 1
  PROVE  /\ (p - 1) * PageSize \in Nat
         /\ p * PageSize = (p - 1) * PageSize + PageSize
<1>1. PageSize \in Nat
  BY CatalogAssumption
<1>2. p - 1 \in Nat
  OBVIOUS
<1>3. \A j, n \in Nat : j * n \in Nat
  OBVIOUS
<1>4. \A j, n \in Nat : (j + 1) * n = j * n + n
  OBVIOUS
<1>5. p = (p - 1) + 1
  OBVIOUS
<1> QED
  BY <1>1, <1>2, <1>3, <1>4, <1>5

\* A page with a number has the entries that come after those of the pages before it.
LEMMA OffsetPageOk ==
  ASSUME NEW q, NEW E \in SUBSET Entries, OneEach(E), NEW p \in Nat, p >= 1
  PROVE  LET v == OffsetPage(q, E, p)
         IN /\ v \in Values /\ v.steady = E /\ v.ever = E /\ v.version = None /\ OffsetOk(q, p, v)
            /\ \A n \in DOMAIN v.data : \E e \in E : e.id = v.data[n]
<1> DEFINE z == Sorted(q, E)
           k == (p - 1) * PageSize
           t == Slice(z, k, PageSize)
           v == Page(E, t, 0)
<1>1. PageSize \in Nat /\ k \in Nat /\ 0 \in 0 .. MaxTask + 1
  BY CatalogAssumption, PageStart
<1>2. /\ z \in Seq(E) /\ Len(z) = Cardinality(E) /\ Cardinality(E) \in Nat
      /\ \A n \in 1 .. Len(z) : z[n] \in E /\ Rank(q, E, z[n]) = n - 1
  BY SortedFacts
<1>3. OffsetPage(q, E, p) = v
  BY DEF OffsetPage
<1>a. k = (p - 1) * PageSize
  OBVIOUS
<1> HIDE DEF z, k
<1>4. /\ t \in Seq(E)
      /\ Len(t) = IF k + PageSize < Len(z) THEN PageSize ELSE IF k < Len(z) THEN Len(z) - k ELSE 0
      /\ \A i \in 1 .. Len(t) : t[i] = z[k + i] /\ k + i \in 1 .. Len(z)
  BY <1>1, <1>2, SliceFacts
<1> HIDE DEF t
<1>5. /\ v \in Values /\ v.steady = E /\ v.ever = E /\ v.version = None
      /\ Len(v.data) = Len(t) /\ DOMAIN v.data = 1 .. Len(t)
      /\ \A n \in 1 .. Len(t) : v.data[n] = t[n].id /\ t[n] \in E
  BY <1>1, <1>4, PageFacts
<1> HIDE DEF v
<1>6. \A n \in 1 .. Len(t) : t[n] \in E /\ v.data[n] = t[n].id /\ Rank(q, E, t[n]) = k + n - 1
  <2> SUFFICES ASSUME NEW n \in 1 .. Len(t)
               PROVE  t[n] \in E /\ v.data[n] = t[n].id /\ Rank(q, E, t[n]) = k + n - 1
    OBVIOUS
  <2>1. t[n] = z[k + n] /\ k + n \in 1 .. Len(z)
    BY <1>4
  <2>2. Rank(q, E, z[k + n]) = (k + n) - 1
    BY <2>1, <1>2
  <2> QED
    BY <2>1, <2>2, <1>1, <1>5
<1>7. Follow(q, E, k, v.data)
  BY <1>5, <1>6 DEF Follow
<1>8. Len(v.data) = IF k + PageSize < Cardinality(E) THEN PageSize
                    ELSE IF k < Cardinality(E) THEN Cardinality(E) - k ELSE 0
  BY <1>2, <1>4, <1>5
<1>9. OffsetOk(q, p, v)
  BY <1>5, <1>7, <1>8, <1>a DEF OffsetOk
<1> QED
  BY <1>3, <1>5, <1>6, <1>9

\* The entries of tasks.
LEMMA EntriesOfFacts ==
  ASSUME CatalogTypeOK, NEW q, NEW S \in SUBSET Ids
  PROVE  LET E == EntriesOf(q, S)
         IN /\ E \subseteq Entries /\ OneEach(E) /\ (\A e \in E : e.id \in S)
            /\ \A i \in S : \E e \in E : e.id = i
<1>1. \A i \in Ids : task[i].weight \in Weights /\ 1 \in Weights
  BY DEF CatalogTypeOK, Tasks, Weights
<1>2. \A e \in EntriesOf(q, S) : e \in Entries /\ e.id \in S
  BY <1>1 DEF EntriesOf, Entries
<1>3. OneEach(EntriesOf(q, S))
  BY DEF EntriesOf, OneEach
<1>4. ASSUME NEW i \in S
      PROVE  \E e \in EntriesOf(q, S) : e.id = i
  <2> DEFINE w == IF q = None \/ q.sort = "priority" THEN task[i].weight ELSE 1
             e == [id |-> i, weight |-> w]
  <2>1. e \in EntriesOf(q, S)
    BY DEF EntriesOf
  <2>2. e.id = i
    OBVIOUS
  <2> QED
    BY <2>1, <2>2
<1> QED
  BY <1>2, <1>3, <1>4

\* What a query finds are tasks that are there, of the user unless he is an administrator.
LEMMA VisibleFacts ==
  ASSUME CatalogTypeOK, NEW u, NEW q
  PROVE  LET E == EntriesOf(q, Visible(u, q))
         IN /\ E \subseteq Entries /\ OneEach(E)
            /\ \A e \in E : /\ e.id \in Ids /\ task[e.id].state = "live"
                            /\ u \notin Admins => task[e.id].owner = u
            /\ \A i \in Visible(u, q) : \E e \in E : e.id = i
<1>1. Visible(u, q) \in SUBSET Ids
  BY DEF Visible
<1>2. \A i \in Visible(u, q) : i \in Ids /\ task[i].state = "live" /\ (u \notin Admins => task[i].owner = u)
  BY DEF Visible
<1> QED
  BY <1>1, <1>2, EntriesOfFacts

-------------------------------------------------------------------------------
(* What a request does at an await                                         *)

\* What is left to do are steps.
LEMMA LeftSteps ==
  ASSUME NEW c, NEW l, Left(c, l)
  PROVE  l \in Seq(Steps)
<1>1. l \in ReadLists => l \in Seq(Steps)
  <2>1. <<"get", "query", "set", "register">> \in Seq(Steps)
    BY DEF Steps
  <2>2. <<"query", "set", "register">> \in Seq(Steps)
    BY DEF Steps
  <2>3. <<"set", "register">> \in Seq(Steps)
    BY DEF Steps
  <2>4. <<"register">> \in Seq(Steps)
    BY DEF Steps
  <2>5. <<>> \in Seq(Steps)
    BY DEF Steps
  <2> QED
    BY <2>1, <2>2, <2>3, <2>4, <2>5 DEF ReadLists
<1>2. l \in CursorLists => l \in Seq(Steps)
  <2>1. <<"flag", "get", "query", "set", "register">> \in Seq(Steps)
    BY DEF Steps
  <2> QED
    BY <1>1, <2>1 DEF CursorLists
<1>3. l \in OffsetLists => l \in Seq(Steps)
  <2>1. <<"flag", "get", "query", "count", "set", "register">> \in Seq(Steps)
    BY DEF Steps
  <2>2. <<"get", "query", "count", "set", "register">> \in Seq(Steps)
    BY DEF Steps
  <2>3. <<"query", "count", "set", "register">> \in Seq(Steps)
    BY DEF Steps
  <2>4. <<"count", "set", "register">> \in Seq(Steps)
    BY DEF Steps
  <2>5. <<"set", "register">> \in Seq(Steps)
    BY DEF Steps
  <2>6. <<"register">> \in Seq(Steps)
    BY DEF Steps
  <2>7. <<>> \in Seq(Steps)
    BY DEF Steps
  <2> QED
    BY <2>1, <2>2, <2>3, <2>4, <2>5, <2>6, <2>7 DEF OffsetLists
<1>4. l \in CreateLists => l \in Seq(Steps)
  <2>1. <<"insert", "commit", "clear">> \in Seq(Steps)
    BY DEF Steps
  <2>2. <<"commit", "clear">> \in Seq(Steps)
    BY DEF Steps
  <2>3. <<"clear">> \in Seq(Steps)
    BY DEF Steps
  <2>4. <<>> \in Seq(Steps)
    BY DEF Steps
  <2> QED
    BY <2>1, <2>2, <2>3, <2>4 DEF CreateLists
<1>5. l \in FiledCreateLists => l \in Seq(Steps)
  <2>1. <<"get", "query", "set", "register", "insert", "commit", "clear">> \in Seq(Steps)
    BY DEF Steps
  <2>2. <<"query", "set", "register", "insert", "commit", "clear">> \in Seq(Steps)
    BY DEF Steps
  <2>3. <<"set", "register", "insert", "commit", "clear">> \in Seq(Steps)
    BY DEF Steps
  <2>4. <<"register", "insert", "commit", "clear">> \in Seq(Steps)
    BY DEF Steps
  <2> QED
    BY <2>1, <2>2, <2>3, <2>4 DEF FiledCreateLists
<1>6. l \in SaveLists => l \in Seq(Steps)
  <2>1. <<"save", "clear">> \in Seq(Steps)
    BY DEF Steps
  <2>2. <<"clear">> \in Seq(Steps)
    BY DEF Steps
  <2>3. <<>> \in Seq(Steps)
    BY DEF Steps
  <2> QED
    BY <2>1, <2>2, <2>3 DEF SaveLists
<1>7. l \in FiledSaveLists => l \in Seq(Steps)
  <2>1. <<"get", "query", "set", "register", "save", "clear">> \in Seq(Steps)
    BY DEF Steps
  <2>2. <<"query", "set", "register", "save", "clear">> \in Seq(Steps)
    BY DEF Steps
  <2>3. <<"set", "register", "save", "clear">> \in Seq(Steps)
    BY DEF Steps
  <2>4. <<"register", "save", "clear">> \in Seq(Steps)
    BY DEF Steps
  <2> QED
    BY <2>1, <2>2, <2>3, <2>4 DEF FiledSaveLists
<1>8. l \in RenameLists => l \in Seq(Steps)
  <2>1. <<"get", "query", "set", "register", "rename", "clear">> \in Seq(Steps)
    BY DEF Steps
  <2>2. <<"query", "set", "register", "rename", "clear">> \in Seq(Steps)
    BY DEF Steps
  <2>3. <<"set", "register", "rename", "clear">> \in Seq(Steps)
    BY DEF Steps
  <2>4. <<"register", "rename", "clear">> \in Seq(Steps)
    BY DEF Steps
  <2>5. <<"rename", "clear">> \in Seq(Steps)
    BY DEF Steps
  <2>6. <<"clear">> \in Seq(Steps)
    BY DEF Steps
  <2>7. <<>> \in Seq(Steps)
    BY DEF Steps
  <2> QED
    BY <2>1, <2>2, <2>3, <2>4, <2>5, <2>6, <2>7 DEF RenameLists
<1>9. l \in FileLists => l \in Seq(Steps)
  <2>1. <<"file", "clear">> \in Seq(Steps)
    BY DEF Steps
  <2>2. <<"clear">> \in Seq(Steps)
    BY DEF Steps
  <2>3. <<>> \in Seq(Steps)
    BY DEF Steps
  <2> QED
    BY <2>1, <2>2, <2>3 DEF FileLists
<1>10. l \in DropLists => l \in Seq(Steps)
  <2>1. <<"drop", "clear">> \in Seq(Steps)
    BY DEF Steps
  <2>2. <<"clear">> \in Seq(Steps)
    BY DEF Steps
  <2>3. <<>> \in Seq(Steps)
    BY DEF Steps
  <2> QED
    BY <2>1, <2>2, <2>3 DEF DropLists
<1> QED
  BY <1>1, <1>2, <1>3, <1>4, <1>5, <1>6, <1>7, <1>8, <1>9, <1>10 DEF Left

\* A request that has something to do is at an await of its kind.
LEMMA AtAwait ==
  ASSUME CatalogTypeOK, ShapeInv, NEW r \in Requests, Running(r)
  PROVE  /\ call[r] # None /\ call[r] \in Calls /\ WellFormed(call[r])
         /\ Left(call[r], todo[r]) /\ AwaitOk(call[r], todo[r]) /\ Left(call[r], Tail(todo[r]))
         /\ todo[r] \in Seq(Steps) /\ Tail(todo[r]) \in Seq(Steps)
         /\ First(todo[r]) = Head(todo[r])
<1>1. todo[r] # <<>> /\ todo[r] \in Seq(Steps) /\ RequestInv(r)
  BY DEF CatalogTypeOK, ShapeInv, Running
<1>2. call[r] # None /\ WellFormed(call[r]) /\ Left(call[r], todo[r])
  BY <1>1 DEF RequestInv
<1>3. AwaitOk(call[r], todo[r]) /\ Left(call[r], Tail(todo[r]))
  BY <1>1, <1>2, Awaits
<1>4. Tail(todo[r]) \in Seq(Steps)
  BY <1>3, LeftSteps
<1>5. First(todo[r]) = Head(todo[r])
  BY <1>1 DEF First
<1> QED
  BY <1>1, <1>2, <1>3, <1>4, <1>5 DEF WellFormed

\* Being at an await is having it first.
LEMMA AtFirst ==
  ASSUME NEW r \in Requests, NEW s \in Steps
  PROVE  /\ At(r, s) <=> First(todo[r]) = s
         /\ At(r, s)' <=> First(todo'[r]) = s
  BY DEF At, Running, First, Steps

\* The key that a request looks something up under.
LEMMA KeyFacts ==
  ASSUME CatalogTypeOK, NEW r \in Requests, WellFormed(call[r]), Looking(call[r])
  PROVE  /\ KeyOf(r) \in Keys /\ KeyOf(r).user = call[r].user
         /\ call[r].kind \in Paginations =>
              /\ KeyOf(r).of = "tasks" /\ KeyOf(r).query = call[r].query
              /\ KeyOf(r).place = place[r] /\ KeyOf(r) \notin CategoryKeys
         /\ call[r].kind = "stats" => KeyOf(r).of = "stats" /\ KeyOf(r) \notin CategoryKeys
         /\ call[r].kind \notin PageKinds =>
              /\ KeyOf(r).of \in {"category", "role", "list"} /\ KeyOf(r) \in CategoryKeys
              /\ KeyOf(r).of = "list" <=> call[r].kind = "list"
<1> DEFINE c == call[r]
<1>1. /\ c \in Calls /\ c.kind \in Kinds /\ c.user \in Users /\ place[r] \in 0 .. MaxTask + 1
      /\ c.kind \in Paginations => c.query \in Queries
      /\ c.kind \notin PageKinds => c.user = Owner
  BY DEF WellFormed, CatalogTypeOK, Calls, Looking, Readers, PageKinds, Paginations
<1>2. CASE c.kind \in Paginations
  <2>1. KeyOf(r) = Key("tasks", c.user, c.query, place[r])
    BY <1>2 DEF KeyOf, Paginations
  <2> QED
    BY <2>1, <1>1, <1>2 DEF Key, Keys, CategoryKeys, PageKinds, Paginations
<1>3. CASE c.kind = "stats"
  <2>1. KeyOf(r) = Key("stats", c.user, None, 0)
    BY <1>3 DEF KeyOf, Paginations
  <2> QED
    BY <2>1, <1>1, <1>3 DEF Key, Keys, CategoryKeys, PageKinds, Paginations
<1>4. CASE c.kind \notin PageKinds
  <2>1. \/ KeyOf(r) = Key("role", Owner, None, 0) /\ c.kind = "change"
        \/ KeyOf(r) = Key("list", Owner, None, 0) /\ c.kind = "list"
        \/ KeyOf(r) = Key("category", Owner, None, 0) /\ c.kind # "list"
    BY <1>4 DEF KeyOf, PageKinds, Paginations
  <2> QED
    BY <2>1, <1>1, <1>4 DEF Key, Keys, CategoryKeys, PageKinds, Paginations
<1> QED
  BY <1>2, <1>3, <1>4 DEF PageKinds

\* What of a request others leave alone when they look something up, and at any step.
ClientKept(q) ==
  /\ todo'[q] = todo[q] /\ verdict'[q] = verdict[q] /\ reading'[q] = reading[q]
  /\ place'[q] = place[q] /\ shown'[q] = shown[q] /\ steady'[q] = steady[q] /\ ever'[q] = ever[q]
Kept(q) ==
  /\ ClientKept(q) /\ call'[q] = call[q] /\ before'[q] = before[q]
  /\ cleared'[q] = cleared[q] /\ made'[q] = made[q]

ClientTypes ==
  /\ todo \in [Requests -> Seq(Steps)] /\ verdict \in [Requests -> Verdicts]
  /\ reading \in [Requests -> Values] /\ place \in [Requests -> 0 .. MaxTask + 1]
  /\ shown \in [Requests -> Seq(Ids)] /\ steady \in [Requests -> SUBSET Entries]
  /\ ever \in [Requests -> SUBSET Entries]

\* What finding something does.
LEMMA FoundFacts ==
  ASSUME CatalogTypeOK, NEW r \in Requests, WellFormed(call[r]), Looking(call[r]),
         NEW v \in Values, Found(r, v)
  PROVE  /\ call[r].kind \in Paginations =>
              /\ shown'[r] = shown[r] \o v.data /\ steady'[r] = steady[r] \cap v.steady
              /\ ever'[r] = ever[r] \cup v.ever /\ place'[r] = v.next
              /\ todo'[r] = IF v.next = 0 THEN <<>> ELSE PagePlan(call[r].query)
              /\ reading'[r] = NoValue /\ verdict'[r] = verdict[r]
         /\ call[r].kind = "stats" =>
              /\ todo'[r] = <<>> /\ verdict'[r] = "ok" /\ reading'[r] = NoValue
              /\ steady'[r] = v.steady /\ ever'[r] = v.ever
              /\ place'[r] = place[r] /\ shown'[r] = shown[r]
         /\ call[r].kind \notin PageKinds =>
              /\ reading'[r] = v /\ place'[r] = place[r] /\ shown'[r] = shown[r]
              /\ steady'[r] = steady[r] /\ ever'[r] = ever[r]
              /\ IF \/ v.version = None /\ call[r].kind # "list"
                    \/ call[r].kind = "rename" /\ v.version # call[r].version
                   THEN todo'[r] = <<>> /\ verdict'[r] = "refused"
                   ELSE todo'[r] = AfterLookup(call[r].kind) /\ verdict'[r] = verdict[r]
         /\ \A q \in Requests \ {r} : ClientKept(q)
         /\ ClientTypes'
<1>1. ClientTypes
  BY DEF CatalogTypeOK, ClientTypes
<1>2. /\ v.data \in Seq(Ids) /\ v.next \in 0 .. MaxTask + 1 /\ v.steady \in SUBSET Entries
      /\ v.ever \in SUBSET Entries /\ NoValue \in Values
  BY CatalogAssumption DEF Values, NoValue
<1>3. call[r].kind \in Kinds
  BY DEF WellFormed, Calls
<1>4. CASE call[r].kind \in Paginations
  <2>1. ShowPage(r, v)
    BY <1>4 DEF Found, Paginations
  <2>2. PagePlan(call[r].query) \in Seq(Steps)
    BY <1>4, PagePlanLeft, LeftSteps
  <2>3. shown[r] \o v.data \in Seq(Ids)
    BY <1>1, <1>2 DEF ClientTypes
  <2>4. ClientTypes'
    BY <1>1, <1>2, <2>1, <2>2, <2>3 DEF ShowPage, ClientTypes
  <2> QED
    BY <1>1, <2>1, <2>4, <1>4 DEF ShowPage, ClientTypes, ClientKept, PageKinds, Paginations
<1>5. CASE call[r].kind = "stats"
  <2>1. ShowStats(r, v)
    BY <1>5 DEF Found, Paginations
  <2>2. ClientTypes'
    BY <1>1, <1>2, <2>1 DEF ShowStats, Answer, ClientTypes, Verdicts
  <2> QED
    BY <1>1, <2>1, <2>2, <1>5 DEF ShowStats, Answer, ClientTypes, ClientKept, PageKinds, Paginations
<1>6. CASE call[r].kind \notin PageKinds
  <2>1. UseCategory(r, v)
    BY <1>6 DEF Found, PageKinds, Paginations
  <2>2. AfterLookup(call[r].kind) \in Seq(Steps)
    <3>1. <<"insert", "commit", "clear">> \in Seq(Steps)
      BY DEF Steps
    <3>2. <<"save", "clear">> \in Seq(Steps) /\ <<"rename", "clear">> \in Seq(Steps)
      BY DEF Steps
    <3>3. <<>> \in Seq(Steps)
      OBVIOUS
    <3> QED
      BY <3>1, <3>2, <3>3 DEF AfterLookup
  <2>3. /\ \/ todo' = [todo EXCEPT ![r] = <<>>] /\ verdict' = [verdict EXCEPT ![r] = "refused"]
           \/ todo' = [todo EXCEPT ![r] = AfterLookup(call[r].kind)] /\ verdict' = verdict
        /\ reading' = [reading EXCEPT ![r] = v] /\ UNCHANGED <<place, shown, steady, ever>>
    BY <2>1 DEF UseCategory, Answer
  <2>4. "refused" \in Verdicts /\ <<>> \in Seq(Steps)
    BY DEF Verdicts
  <2>5. todo' \in [Requests -> Seq(Steps)] /\ verdict' \in [Requests -> Verdicts]
    BY <1>1, <2>2, <2>3, <2>4 DEF ClientTypes
  <2>6. ClientTypes'
    BY <1>1, <2>3, <2>5 DEF ClientTypes
  <2> QED
    BY <1>1, <2>1, <2>6, <1>6 DEF UseCategory, Answer, ClientTypes, ClientKept, PageKinds, Paginations
<1> QED
  BY <1>4, <1>5, <1>6 DEF PageKinds

-------------------------------------------------------------------------------
(* What is read                                                            *)

\* There are no more entries than tasks.
LEMMA AtMostAll ==
  ASSUME NEW E \in SUBSET Entries, OneEach(E)
  PROVE  Cardinality(E) \in 0 .. MaxTask
<1>1. IsFiniteSet(Ids) /\ Cardinality(Ids) = MaxTask /\ MaxTask \in Nat
  <2>1. MaxTask \in Nat
    BY CatalogAssumption
  <2> QED
    BY <2>1, FS_Interval DEF Ids
<1>2. IsFiniteSet(E)
  BY EntriesFinite, FS_Subset
<1> DEFINE f == [e \in E |-> e.id]
<1>3. f \in Injection(E, Ids)
  <2>1. f \in [E -> Ids]
    BY DEF Entries
  <2> QED
    BY <2>1 DEF Injection, IsInjective, OneEach
<1>4. Cardinality(E) <= Cardinality(Ids)
  <2> HIDE DEF f
  <2> QED
    BY <1>1, <1>3, FS_Injection
<1> QED
  BY <1>1, <1>2, <1>4, FS_CardinalityType

\* The statistics show no task, but are computed from those of the user.
LEMMA StatsPage ==
  ASSUME NEW E \in SUBSET Entries
  PROVE  LET v == Page(E, <<>>, 0)
         IN /\ v \in Values /\ v.steady = E /\ v.ever = E /\ v.version = None
            /\ DOMAIN v.data = {}
<1> DEFINE s == <<>>
           next == 0
           v == Page(E, s, next)
<1>1. s \in Seq(E) /\ next \in 0 .. MaxTask + 1
  BY CatalogAssumption
<1>2. Len(s) = 0 /\ 1 .. 0 = {}
  OBVIOUS
<1> HIDE DEF s, next
<1>3. v \in Values /\ v.steady = E /\ v.ever = E /\ v.version = None /\ DOMAIN v.data = 1 .. Len(s)
  BY <1>1, PageFacts
<1> HIDE DEF v
<1>4. DOMAIN v.data = {}
  BY <1>2, <1>3
<1> QED
  BY <1>3, <1>4 DEF v, s, next

\* The entries of what r asks for.
Listed(r) == EntriesOf(call[r].query, Visible(call[r].user, call[r].query))

\* What a query returns is what the key stands for; pages with numbers are still to be counted.
LEMMA QueriedFacts ==
  ASSUME CatalogTypeOK, NEW r \in Requests, WellFormed(call[r]), Looking(call[r]),
         call[r].kind = "offset" => place[r] >= 1
  PROVE  LET v == Queried(r)
         IN /\ v \in Values /\ Sound(KeyOf(r), v)
            /\ call[r].kind # "offset" => Whole(KeyOf(r), v)
            /\ call[r].kind \in PageKinds =>
                 v.ever = Listed(r) /\ v.steady = Listed(r) /\ v.version = None
            /\ call[r].kind \notin PageKinds =>
                 /\ v.ever = {} /\ v.version = IF category.state = "live" THEN category.version ELSE None
<1> DEFINE c == call[r]
           k == KeyOf(r)
           v == Queried(r)
           E == Listed(r)
<1>1. /\ E \in SUBSET Entries /\ OneEach(E)
      /\ \A e \in E : /\ e.id \in Ids /\ task[e.id].state = "live"
                      /\ c.user \notin Admins => task[e.id].owner = c.user
  BY VisibleFacts DEF Listed
<1>2. place[r] \in Nat /\ category.version \in Nat
  BY CatalogAssumption DEF CatalogTypeOK
<1>3. c.kind \in Paginations => c.query \in Queries /\ c.query.pagination = c.kind
  BY DEF WellFormed
<1> HIDE DEF E
<1>4. ASSUME NEW x \in Values, x.ever = E, \A n \in DOMAIN x.data : \E e \in E : e.id = x.data[n]
      PROVE  k.user \notin Admins => OwnedBy(k.user, x)
  <2>1. k.user = c.user
    BY KeyFacts
  <2> QED
    BY <1>4, <1>1, <2>1 DEF OwnedBy
<1>5. CASE c.kind = "cursor"
  <2>1. v = CursorPage(c.query, E, place[r])
    BY <1>5 DEF Queried, Listed, E
  <2>2. c.query.pagination = "cursor"
    BY <1>3, <1>5 DEF Paginations
  <2>3. /\ v \in Values /\ v.steady = E /\ v.ever = E /\ v.version = None /\ CursorOk(place[r], v)
        /\ \A n \in DOMAIN v.data : \E e \in E : e.id = v.data[n]
    BY <2>1, <2>2, <1>1, <1>2, CursorPageOk
  <2>4. /\ k.of = "tasks" /\ k.query = c.query /\ k.place = place[r]
    BY <1>5, KeyFacts DEF Paginations
  <2> HIDE DEF v, k, c
  <2>5. Sound(k, v) /\ Whole(k, v)
    BY <2>2, <2>3, <2>4, <1>4 DEF Sound, Whole
  <2> QED
    BY <2>3, <2>5, <1>5 DEF PageKinds, Paginations, v, k, c, E
<1>6. CASE c.kind = "offset"
  <2>1. v = OffsetPage(c.query, E, place[r])
    BY <1>6 DEF Queried, Listed, E
  <2>2. c.query.pagination = "offset"
    BY <1>3, <1>6 DEF Paginations
  <2>5. place[r] >= 1
    BY <1>6
  <2> HIDE DEF v, k, c
  <2>3. /\ v \in Values /\ v.steady = E /\ v.ever = E /\ v.version = None
        /\ OffsetOk(c.query, place[r], v) /\ \A n \in DOMAIN v.data : \E e \in E : e.id = v.data[n]
    <3> DEFINE x == OffsetPage(c.query, E, place[r])
    <3>1. /\ x \in Values /\ x.steady = E /\ x.ever = E /\ x.version = None
          /\ OffsetOk(c.query, place[r], x) /\ \A n \in DOMAIN x.data : \E e \in E : e.id = x.data[n]
      <4>1. E \in SUBSET Entries /\ OneEach(E) /\ place[r] \in Nat /\ place[r] >= 1
        BY <2>5, <1>1, <1>2
      <4>2. PICK q0, p0, E0 : q0 = c.query /\ p0 = place[r] /\ E0 = E
        OBVIOUS
      <4>3. E0 \in SUBSET Entries /\ OneEach(E0) /\ p0 \in Nat /\ p0 >= 1
        BY ONLY <4>1, <4>2
      <4> DEFINE y == OffsetPage(q0, E0, p0)
      <4>4. /\ y \in Values /\ y.steady = E0 /\ y.ever = E0 /\ y.version = None
            /\ OffsetOk(q0, p0, y)
            /\ \A n \in DOMAIN y.data : \E e \in E0 : e.id = y.data[n]
        BY ONLY <4>3, OffsetPageOk
      <4>5. x = y
        BY <4>2
      <4> QED
        BY ONLY <4>2, <4>4, <4>5
    <3> QED
      BY <2>1, <3>1
  <2>4. /\ k.of = "tasks" /\ k.query = c.query /\ k.place = place[r]
    BY <1>6, KeyFacts DEF Paginations, k, c
  <2>6. Sound(k, v)
    BY <2>2, <2>3, <2>4, <1>4 DEF Sound
  <2> QED
    BY <2>3, <2>6, <1>6 DEF PageKinds, Paginations, v, k, c, E
<1>7. CASE c.kind = "stats"
  <2>1. v = Page(E, <<>>, 0)
    BY <1>7 DEF Queried, Listed, E
  <2>2. v \in Values /\ v.steady = E /\ v.ever = E /\ v.version = None /\ DOMAIN v.data = {}
    BY <2>1, <1>1, StatsPage
  <2>3. k.of = "stats"
    BY <1>7, KeyFacts
  <2> HIDE DEF v, k, c
  <2>4. Sound(k, v) /\ Whole(k, v)
    BY <2>2, <2>3, <1>4 DEF Sound, Whole
  <2> QED
    BY <2>2, <2>4, <1>7 DEF PageKinds, Paginations, v, k, c, E
<1>8. CASE c.kind \notin PageKinds
  <2> DEFINE version == IF category.state = "live" THEN category.version ELSE None
  <2>1. v = [NoValue EXCEPT !.version = version]
    BY <1>8 DEF Queried, PageKinds, Paginations
  <2>5. version \in Nat \cup {None} /\ 0 \in 0 .. MaxTask + 1
    BY <1>2, CatalogAssumption
  <2> HIDE DEF version
  <2>2. /\ v \in Values /\ v.steady = {} /\ v.ever = {} /\ v.data = <<>>
        /\ v.version = version
    <3>1. v = [data |-> <<>>, next |-> 0, steady |-> {}, ever |-> {}, version |-> version]
      BY <2>1 DEF NoValue
    <3>2. <<>> \in Seq(Ids) /\ {} \in SUBSET Entries
      OBVIOUS
    <3> HIDE DEF v
    <3>3. v \in Values
      BY <3>1, <3>2, <2>5 DEF Values
    <3> QED
      BY <3>1, <3>3
  <2>3. k.of \in {"category", "role", "list"}
    BY <1>8, KeyFacts
  <2> HIDE DEF v, k, c
  <2>4. Sound(k, v) /\ Whole(k, v)
    BY <2>2, <2>3 DEF Sound, Whole, OwnedBy
  <2> QED
    BY <2>2, <2>4, <1>8 DEF PageKinds, Paginations, v, k, c, E, version
<1> QED
  BY <1>5, <1>6, <1>7, <1>8 DEF PageKinds, Paginations

\* A page that has been counted says right what the next page is, if nothing has changed.
LEMMA CountFacts ==
  ASSUME CatalogTypeOK, NEW r \in Requests, WellFormed(call[r]), call[r].kind = "offset",
         place[r] >= 1, Sound(KeyOf(r), reading[r]), NEW v,
         v = [reading[r] EXCEPT
               !.next = IF place[r] * PageSize < Cardinality(Listed(r)) THEN place[r] + 1 ELSE 0,
               !.steady = @ \cap Listed(r), !.ever = @ \cup Listed(r)]
  PROVE  /\ v \in Values /\ Whole(KeyOf(r), v) /\ v.ever = reading[r].ever \cup Listed(r)
         /\ v.version = reading[r].version
<1> DEFINE c == call[r]
           k == KeyOf(r)
           E == Listed(r)
           x == reading[r]
           p == place[r]
           next == IF p * PageSize < Cardinality(E) THEN p + 1 ELSE 0
<1>1. /\ E \in SUBSET Entries /\ OneEach(E)
      /\ \A e \in E : /\ e.id \in Ids /\ task[e.id].state = "live"
                      /\ c.user \notin Admins => task[e.id].owner = c.user
  BY VisibleFacts DEF Listed
<1>2. x \in Values /\ Sound(k, x) /\ p \in Nat /\ p >= 1
  BY CatalogAssumption DEF CatalogTypeOK
<1>3. /\ k.of = "tasks" /\ k.query = c.query /\ k.place = p /\ k.user = c.user
      /\ c.query.pagination = "offset"
  BY KeyFacts DEF WellFormed, Paginations, Looking, Readers
<1>4. Cardinality(E) \in 0 .. MaxTask /\ PageSize \in Nat /\ PageSize >= 1 /\ MaxTask \in Nat
  BY <1>1, AtMostAll, CatalogAssumption
<1>5. p * PageSize = (p - 1) * PageSize + PageSize
  BY <1>2, PageStart
<1> HIDE DEF E, x, p, k, c
<1>6. next \in 0 .. MaxTask + 1
  <2>1. \A j, n \in Nat : n >= 1 => j * n \in Nat /\ j <= j * n
    OBVIOUS
  <2>2. p * PageSize \in Nat /\ p <= p * PageSize
    BY <2>1, <1>2, <1>4
  <2> QED
    BY <2>2, <1>2, <1>4
<1>7. v = [x EXCEPT !.next = next, !.steady = @ \cap E, !.ever = @ \cup E]
  BY DEF x, E, p
<1>8. /\ v \in Values /\ v.next = next /\ v.steady = x.steady \cap E /\ v.ever = x.ever \cup E
      /\ v.data = x.data /\ v.version = x.version
  <2>1. next \in 0 .. MaxTask + 1 /\ x \in Values /\ E \in SUBSET Entries
    BY <1>6, <1>2, <1>1
  <2>2. PICK x0, next0, E0 : x0 = x /\ next0 = next /\ E0 = E
    OBVIOUS
  <2> HIDE DEF next
  <2>3. next0 \in 0 .. MaxTask + 1 /\ x0 \in Values /\ E0 \in SUBSET Entries
    BY ONLY <2>1, <2>2
  <2> DEFINE w == [x0 EXCEPT !.next = next0, !.steady = @ \cap E0, !.ever = @ \cup E0]
  <2>4. /\ w \in Values /\ w.next = next0 /\ w.steady = x0.steady \cap E0
        /\ w.ever = x0.ever \cup E0 /\ w.data = x0.data /\ w.version = x0.version
    BY ONLY <2>3 DEF Values
  <2>5. v = w
    BY ONLY <2>2, <1>7
  <2> QED
    BY ONLY <2>2, <2>4, <2>5
<1>9. v.steady \subseteq v.ever
  BY <1>8
<1>10. k.user \notin Admins => OwnedBy(k.user, v)
  BY <1>1, <1>2, <1>3, <1>8 DEF Sound, OwnedBy
<1>11. v.steady = v.ever => x.steady = x.ever /\ v.ever = x.ever /\ v.ever = E
  <2>1. x.steady \subseteq x.ever
    BY <1>2 DEF Sound
  <2> QED
    BY <2>1, <1>8
<1>12. OffsetOk(k.query, k.place, v)
  <2>1. OffsetOk(k.query, k.place, x)
    BY <1>2, <1>3 DEF Sound
  <2> QED
    BY <2>1, <1>8, <1>11 DEF OffsetOk
<1>13. OffsetNextOk(k.place, v)
  BY <1>3, <1>5, <1>8, <1>11 DEF OffsetNextOk
<1>14. Whole(k, v)
  BY <1>3, <1>8, <1>9, <1>10, <1>12, <1>13 DEF Whole, Sound
<1> QED
  BY <1>8, <1>14 DEF x, k, E

-------------------------------------------------------------------------------
(* The steps of a request                                                  *)

\* Going on with the next await.
LEMMA ProceedFacts ==
  ASSUME CatalogTypeOK, NEW r \in Requests, Tail(todo[r]) \in Seq(Steps), Proceed(r)
  PROVE  /\ todo' \in [Requests -> Seq(Steps)] /\ verdict' = verdict
         /\ todo'[r] = Tail(todo[r]) /\ \A q \in Requests \ {r} : todo'[q] = todo[q]
<1>1. todo \in [Requests -> Seq(Steps)]
  BY DEF CatalogTypeOK
<1>2. todo' = [todo EXCEPT ![r] = Tail(todo[r])] /\ verdict' = verdict
  BY DEF Proceed
<1> QED
  BY <1>1, <1>2

\* Ending with an answer.
LEMMA AnswerFacts ==
  ASSUME CatalogTypeOK, NEW r \in Requests, NEW v \in Verdicts, Answer(r, v)
  PROVE  /\ todo' \in [Requests -> Seq(Steps)] /\ verdict' \in [Requests -> Verdicts]
         /\ todo'[r] = <<>> /\ verdict'[r] = v
         /\ \A q \in Requests \ {r} : todo'[q] = todo[q] /\ verdict'[q] = verdict[q]
<1>1. todo \in [Requests -> Seq(Steps)] /\ verdict \in [Requests -> Verdicts] /\ <<>> \in Seq(Steps)
  BY DEF CatalogTypeOK
<1> QED
  BY <1>1 DEF Answer

\* A step of r keeps the types and leaves the other requests alone.
Frame(r) ==
  /\ CatalogTypeOK' /\ call' = call /\ before' = before
  /\ \A q \in Requests \ {r} : Kept(q)

\* isEnabled
LEMMA FlagFrame ==
  ASSUME CatalogTypeOK, ShapeInv, NEW r \in Requests, CheckFlag(r)
  PROVE  /\ Frame(r)
         /\ \/ todo'[r] = Tail(todo[r]) /\ verdict'[r] = verdict[r]
            \/ todo'[r] = <<>> /\ verdict'[r] = "refused"
<1>1. Tail(todo[r]) \in Seq(Steps) /\ "refused" \in Verdicts
  BY AtAwait DEF CheckFlag, At, Verdicts
<1>2. /\ todo' \in [Requests -> Seq(Steps)] /\ verdict' \in [Requests -> Verdicts]
      /\ \A q \in Requests \ {r} : todo'[q] = todo[q] /\ verdict'[q] = verdict[q]
      /\ \/ todo'[r] = Tail(todo[r]) /\ verdict'[r] = verdict[r]
         \/ todo'[r] = <<>> /\ verdict'[r] = "refused"
  <2>1. CASE Proceed(r)
    BY <2>1, <1>1, ProceedFacts DEF CatalogTypeOK
  <2>2. CASE Answer(r, "refused")
    BY <2>2, <1>1, AnswerFacts
  <2> QED
    BY <2>1, <2>2 DEF CheckFlag
<1>3. UNCHANGED <<storeVars, cacheVars, clientVars, callVars, failures>>
  BY DEF CheckFlag
<1>4. CatalogTypeOK'
  BY <1>2, <1>3 DEF CatalogTypeOK, storeVars, cacheVars, clientVars, callVars
<1>5. \A q \in Requests \ {r} : Kept(q)
  BY <1>2, <1>3 DEF Kept, ClientKept, storeVars, cacheVars, clientVars, callVars
<1> QED
  BY <1>2, <1>3, <1>4, <1>5 DEF Frame, callVars

\* Who is at an await of a lookup looks something up.
LEMMA LookupFacts ==
  ASSUME CatalogTypeOK, ShapeInv, NEW r \in Requests,
         NEW s \in {"get", "query", "count", "set", "register"}, At(r, s)
  PROVE  /\ Running(r) /\ call[r] # None /\ WellFormed(call[r]) /\ Looking(call[r])
         /\ AwaitOk(call[r], todo[r]) /\ First(todo[r]) = s /\ KeyOf(r) \in Keys
         /\ Tail(todo[r]) \in Seq(Steps) /\ Left(call[r], Tail(todo[r]))
         /\ call[r].kind = "offset" => place[r] >= 1
         /\ s = "count" => call[r].kind = "offset"
<1>1. Running(r) /\ Head(todo[r]) = s
  BY DEF At
<1>2. /\ call[r] # None /\ WellFormed(call[r]) /\ AwaitOk(call[r], todo[r])
      /\ First(todo[r]) = s /\ Tail(todo[r]) \in Seq(Steps) /\ Left(call[r], Tail(todo[r]))
  BY <1>1, AtAwait
<1>3. Looking(call[r]) /\ (s = "count" => call[r].kind = "offset")
  BY <1>2 DEF AwaitOk, Looking, Readers, Paginations
<1>4. call[r].kind = "offset" => place[r] >= 1
  BY <1>1, <1>2 DEF ShapeInv, RequestInv
<1> QED
  BY <1>1, <1>2, <1>3, <1>4, KeyFacts

\* cacheManager.get finds nothing.
LEMMA MissFrame ==
  ASSUME CatalogTypeOK, ShapeInv, NEW r \in Requests, Miss(r)
  PROVE  /\ Frame(r) /\ todo'[r] = Tail(todo[r]) /\ verdict' = verdict
         /\ \A k \in Keys : cache'[k] = IF k = KeyOf(r) THEN None ELSE cache[k]
<1>1. KeyOf(r) \in Keys /\ Tail(todo[r]) \in Seq(Steps)
  BY LookupFacts DEF Miss
<1>2. /\ todo' \in [Requests -> Seq(Steps)] /\ verdict' = verdict
      /\ todo'[r] = Tail(todo[r]) /\ \A q \in Requests \ {r} : todo'[q] = todo[q]
  BY <1>1, ProceedFacts DEF Miss
<1>3. DOMAIN cache' = Keys /\ \A k \in Keys : cache'[k] = IF k = KeyOf(r) THEN None ELSE cache[k]
  BY <1>1 DEF Miss, CatalogTypeOK
<1>4. UNCHANGED <<storeVars, registry, cleared, clientVars, callVars, failures>>
  BY DEF Miss
<1>5. CatalogTypeOK'
  BY <1>2, <1>3, <1>4 DEF CatalogTypeOK, storeVars, clientVars, callVars
<1>6. \A q \in Requests \ {r} : Kept(q)
  BY <1>2, <1>4 DEF Kept, ClientKept, storeVars, clientVars, callVars
<1> QED
  BY <1>2, <1>3, <1>4, <1>5, <1>6 DEF Frame, callVars

\* Finding something, where the store and the cleared keys stay.
LEMMA FoundFrame ==
  ASSUME CatalogTypeOK, NEW r \in Requests, WellFormed(call[r]), Looking(call[r]),
         NEW v \in Values, Found(r, v), UNCHANGED <<storeVars, cache, cleared, callVars, failures>>,
         registry' \in [Processes -> SUBSET Keys]
  PROVE  Frame(r)
<1>1. ClientTypes' /\ \A q \in Requests \ {r} : ClientKept(q)
  BY FoundFacts
<1>2. CatalogTypeOK'
  BY <1>1 DEF CatalogTypeOK, ClientTypes, storeVars, callVars
<1>3. \A q \in Requests \ {r} : Kept(q)
  BY <1>1 DEF Kept, storeVars, callVars
<1> QED
  BY <1>2, <1>3 DEF Frame, callVars

\* cacheManager.get finds something.
LEMMA HitFrame ==
  ASSUME CatalogTypeOK, ShapeInv, NEW r \in Requests, Hit(r)
  PROVE  Frame(r) /\ cache[KeyOf(r)] \in Values
<1>1. KeyOf(r) \in Keys /\ WellFormed(call[r]) /\ Looking(call[r])
  BY LookupFacts DEF Hit
<1>2. cache[KeyOf(r)] \in Values
  BY <1>1 DEF Hit, CatalogTypeOK
<1>3. UNCHANGED <<storeVars, cacheVars, callVars, failures>> /\ Found(r, cache[KeyOf(r)])
  BY DEF Hit
<1>4. registry' \in [Processes -> SUBSET Keys]
  BY <1>3 DEF CatalogTypeOK, cacheVars
<1>5. UNCHANGED <<storeVars, cache, cleared, callVars, failures>>
  BY <1>3 DEF cacheVars
<1> QED
  BY <1>1, <1>2, <1>3, <1>4, <1>5, FoundFrame

\* A cursor does not go with an order.
Unordered(r) ==
  call[r].query # None /\ call[r].query.pagination = "cursor" /\ call[r].query.sort # "createdAt"

\* aggregate, or findOne
LEMMA QueryFrame ==
  ASSUME CatalogTypeOK, ShapeInv, NEW r \in Requests, Query(r)
  PROVE  /\ Frame(r) /\ Queried(r) \in Values
         /\ \/ /\ Unordered(r) /\ todo'[r] = <<>> /\ verdict'[r] = "refused" /\ UNCHANGED clientVars
            \/ /\ KeyOf(r).of \in {"category", "role"} /\ category.state # "live"
               /\ Found(r, Queried(r))
            \/ /\ ~ (KeyOf(r).of \in {"category", "role"} /\ category.state # "live")
               /\ todo'[r] = Tail(todo[r]) /\ verdict' = verdict /\ reading'[r] = Queried(r)
               /\ UNCHANGED <<place, shown, steady, ever>>
<1>1. /\ WellFormed(call[r]) /\ Looking(call[r]) /\ Tail(todo[r]) \in Seq(Steps)
      /\ Queried(r) \in Values /\ "refused" \in Verdicts
  BY LookupFacts, QueriedFacts DEF Query, Verdicts
<1>2. UNCHANGED <<storeVars, cacheVars, callVars, failures>>
  BY DEF Query
<1>3. CASE Unordered(r) /\ Answer(r, "refused") /\ UNCHANGED clientVars
  <2>1. /\ todo' \in [Requests -> Seq(Steps)] /\ verdict' \in [Requests -> Verdicts]
        /\ todo'[r] = <<>> /\ verdict'[r] = "refused"
        /\ \A q \in Requests \ {r} : todo'[q] = todo[q] /\ verdict'[q] = verdict[q]
    BY <1>1, <1>3, AnswerFacts
  <2>2. CatalogTypeOK'
    BY <2>1, <1>2, <1>3 DEF CatalogTypeOK, storeVars, cacheVars, clientVars, callVars
  <2>3. \A q \in Requests \ {r} : Kept(q)
    BY <2>1, <1>2, <1>3 DEF Kept, ClientKept, storeVars, cacheVars, clientVars, callVars
  <2> QED
    BY <1>1, <1>2, <1>3, <2>1, <2>2, <2>3 DEF Frame, callVars
<1>4. CASE KeyOf(r).of \in {"category", "role"} /\ category.state # "live" /\ Found(r, Queried(r))
  <2>1. registry' \in [Processes -> SUBSET Keys]
    BY <1>2 DEF CatalogTypeOK, cacheVars
  <2>2. UNCHANGED <<storeVars, cache, cleared, callVars, failures>>
    BY <1>2 DEF cacheVars
  <2>3. Frame(r)
    BY <1>1, <1>4, <2>1, <2>2, FoundFrame
  <2> QED
    BY <1>1, <1>4, <2>3
<1>5. CASE /\ ~ (KeyOf(r).of \in {"category", "role"} /\ category.state # "live")
           /\ Proceed(r) /\ reading' = [reading EXCEPT ![r] = Queried(r)]
           /\ UNCHANGED <<place, shown, steady, ever>>
  <2>1. /\ todo' \in [Requests -> Seq(Steps)] /\ verdict' = verdict
        /\ todo'[r] = Tail(todo[r]) /\ \A q \in Requests \ {r} : todo'[q] = todo[q]
    BY <1>1, <1>5, ProceedFacts
  <2>2. /\ reading' \in [Requests -> Values] /\ reading'[r] = Queried(r)
        /\ \A q \in Requests \ {r} : reading'[q] = reading[q]
    <3>1. reading \in [Requests -> Values]
      BY DEF CatalogTypeOK
    <3> QED
      BY <3>1, <1>1, <1>5
  <2>3. CatalogTypeOK'
    BY <2>1, <2>2, <1>2, <1>5 DEF CatalogTypeOK, storeVars, cacheVars, callVars
  <2>4. \A q \in Requests \ {r} : Kept(q)
    BY <2>1, <2>2, <1>2, <1>5 DEF Kept, ClientKept, storeVars, cacheVars, callVars
  <2> QED
    BY <1>1, <1>2, <1>5, <2>1, <2>2, <2>3, <2>4 DEF Frame, callVars
<1> QED
  BY <1>3, <1>4, <1>5 DEF Query, Unordered

\* countDocuments
LEMMA CountFrame ==
  ASSUME CatalogTypeOK, ShapeInv, ValueInv, NEW r \in Requests, Count(r)
  PROVE  /\ Frame(r) /\ todo'[r] = Tail(todo[r]) /\ verdict' = verdict
         /\ Whole(KeyOf(r), reading'[r]) /\ reading'[r] \in Values
         /\ reading'[r].ever = reading[r].ever \cup Listed(r)
         /\ reading'[r].version = reading[r].version
<1>1. /\ WellFormed(call[r]) /\ call[r].kind = "offset" /\ place[r] >= 1
      /\ Tail(todo[r]) \in Seq(Steps)
  BY LookupFacts DEF Count
<1>2. reading \in [Requests -> Values]
  BY DEF CatalogTypeOK
<1> DEFINE next == IF place[r] * PageSize < Cardinality(Listed(r)) THEN place[r] + 1 ELSE 0
           v == [reading[r] EXCEPT !.next = next, !.steady = @ \cap Listed(r), !.ever = @ \cup Listed(r)]
<1>3. reading' = [reading EXCEPT ![r] = v]
  <2> DEFINE x == reading[r]
  <2>1. x = [data |-> x.data, next |-> x.next, steady |-> x.steady, ever |-> x.ever, version |-> x.version]
    BY <1>2 DEF Values
  <2> DEFINE E == Listed(r)
  <2>2. reading' = [reading EXCEPT ![r].next = next, ![r].steady = @ \cap E, ![r].ever = @ \cup E]
    BY DEF Count, Listed
  <2> HIDE DEF next, E
  <2> QED
    BY <2>1, <2>2, <1>2 DEF E
<1>4. Sound(KeyOf(r), reading[r])
  BY DEF ValueInv, ReadingInv, Count
<1>5. /\ v \in Values /\ Whole(KeyOf(r), v) /\ v.ever = reading[r].ever \cup Listed(r)
      /\ v.version = reading[r].version
  BY <1>1, <1>4, CountFacts
<1> HIDE DEF v
<1>6. /\ todo' \in [Requests -> Seq(Steps)] /\ verdict' = verdict
      /\ todo'[r] = Tail(todo[r]) /\ \A q \in Requests \ {r} : todo'[q] = todo[q]
  BY <1>1, ProceedFacts DEF Count
<1>7. /\ reading' \in [Requests -> Values] /\ reading'[r] = v
      /\ \A q \in Requests \ {r} : reading'[q] = reading[q]
  BY <1>2, <1>3, <1>5
<1>8. UNCHANGED <<storeVars, cacheVars, place, shown, steady, ever, callVars, failures>>
  BY DEF Count
<1>9. CatalogTypeOK'
  BY <1>6, <1>7, <1>8 DEF CatalogTypeOK, storeVars, cacheVars, callVars
<1>10. \A q \in Requests \ {r} : Kept(q)
  BY <1>6, <1>7, <1>8 DEF Kept, ClientKept, storeVars, cacheVars, callVars
<1> QED
  BY <1>5, <1>6, <1>7, <1>8, <1>9, <1>10 DEF Frame, callVars

\* cacheManager.set
LEMMA SetFrame ==
  ASSUME CatalogTypeOK, ShapeInv, NEW r \in Requests, SetCached(r)
  PROVE  /\ Frame(r) /\ todo'[r] = Tail(todo[r]) /\ verdict' = verdict
         /\ \A k \in Keys : cache'[k] = IF k = KeyOf(r) THEN reading[r] ELSE cache[k]
<1>1. KeyOf(r) \in Keys /\ Tail(todo[r]) \in Seq(Steps) /\ reading[r] \in Values
  BY LookupFacts DEF SetCached, CatalogTypeOK
<1>2. /\ todo' \in [Requests -> Seq(Steps)] /\ verdict' = verdict
      /\ todo'[r] = Tail(todo[r]) /\ \A q \in Requests \ {r} : todo'[q] = todo[q]
  BY <1>1, ProceedFacts DEF SetCached
<1>3. DOMAIN cache' = Keys /\ \A k \in Keys : cache'[k] = IF k = KeyOf(r) THEN reading[r] ELSE cache[k]
  BY <1>1 DEF SetCached, CatalogTypeOK
<1>4. UNCHANGED <<storeVars, registry, cleared, clientVars, callVars, failures>>
  BY DEF SetCached
<1>5. CatalogTypeOK'
  BY <1>1, <1>2, <1>3, <1>4 DEF CatalogTypeOK, storeVars, clientVars, callVars
<1>6. \A q \in Requests \ {r} : Kept(q)
  BY <1>2, <1>4 DEF Kept, ClientKept, storeVars, clientVars, callVars
<1> QED
  BY <1>2, <1>3, <1>4, <1>5, <1>6 DEF Frame, callVars

\* The key is noted, and the handler goes on.
LEMMA RegisterFrame ==
  ASSUME CatalogTypeOK, ShapeInv, NEW r \in Requests, RegisterKey(r)
  PROVE  /\ Frame(r) /\ reading[r] \in Values
         /\ \A p \in Processes :
              registry'[p] = IF p = call[r].process THEN registry[p] \cup {KeyOf(r)} ELSE registry[p]
<1>1. /\ KeyOf(r) \in Keys /\ WellFormed(call[r]) /\ Looking(call[r]) /\ reading[r] \in Values
      /\ call[r].process \in Processes
  BY LookupFacts DEF RegisterKey, CatalogTypeOK, WellFormed, Calls
<1>2. /\ registry' \in [Processes -> SUBSET Keys]
      /\ \A p \in Processes :
           registry'[p] = IF p = call[r].process THEN registry[p] \cup {KeyOf(r)} ELSE registry[p]
  <2>1. registry \in [Processes -> SUBSET Keys]
    BY DEF CatalogTypeOK
  <2>2. registry' = [registry EXCEPT ![call[r].process] = registry[call[r].process] \cup {KeyOf(r)}]
    BY DEF RegisterKey
  <2> QED
    BY <2>1, <2>2, <1>1
<1>3. UNCHANGED <<storeVars, cache, cleared, callVars, failures>> /\ Found(r, reading[r])
  BY DEF RegisterKey
<1>4. Frame(r)
  BY <1>1, <1>2, <1>3, FoundFrame
<1> QED
  BY <1>1, <1>2, <1>4

\* The transaction begins, with an id of its own.
LEMMA InsertFrame ==
  ASSUME CatalogTypeOK, ShapeInv, NEW r \in Requests, Insert(r)
  PROVE  /\ Frame(r) /\ todo'[r] = Tail(todo[r]) /\ verdict' = verdict
         /\ made'[r] \in Ids /\ task[made'[r]].state = "absent"
         /\ \A q \in Requests : made[q] # made'[r]
<1>1. Tail(todo[r]) \in Seq(Steps)
  BY AtAwait DEF Insert, At
<1>2. /\ todo' \in [Requests -> Seq(Steps)] /\ verdict' = verdict
      /\ todo'[r] = Tail(todo[r]) /\ \A q \in Requests \ {r} : todo'[q] = todo[q]
  BY <1>1, ProceedFacts DEF Insert
<1>3. PICK i \in Ids : /\ task[i].state = "absent" /\ \A q \in Requests : made[q] # i
                       /\ made' = [made EXCEPT ![r] = i]
  BY DEF Insert
<1>4. /\ made' \in [Requests -> Ids \cup {0}] /\ made'[r] = i
      /\ \A q \in Requests \ {r} : made'[q] = made[q]
  BY <1>3 DEF CatalogTypeOK
<1>5. UNCHANGED <<task, logged, announced, category, cacheVars, clientVars, callVars, failures>>
  BY DEF Insert
<1>6. CatalogTypeOK'
  BY <1>2, <1>4, <1>5 DEF CatalogTypeOK, cacheVars, clientVars, callVars
<1>7. \A q \in Requests \ {r} : Kept(q)
  BY <1>2, <1>4, <1>5 DEF Kept, ClientKept, cacheVars, clientVars, callVars
<1> QED
  BY <1>2, <1>3, <1>4, <1>5, <1>6, <1>7 DEF Frame, callVars

\* The transaction is committed.
LEMMA CommitFrame ==
  ASSUME CatalogTypeOK, ShapeInv, CreationInv, NEW r \in Requests, Commit(r)
  PROVE  /\ Frame(r) /\ todo'[r] = Tail(todo[r]) /\ verdict' = verdict
         /\ made[r] \in Ids /\ task[made[r]].state = "absent"
         /\ task'[made[r]].state = "live" /\ task'[made[r]].owner = call[r].user
         /\ \A i \in Ids \ {made[r]} : task'[i] = task[i]
<1>1. Tail(todo[r]) \in Seq(Steps) /\ call[r].user \in Users
  BY AtAwait DEF Commit, At, Calls
<1>2. /\ todo' \in [Requests -> Seq(Steps)] /\ verdict' = verdict
      /\ todo'[r] = Tail(todo[r]) /\ \A q \in Requests \ {r} : todo'[q] = todo[q]
  BY <1>1, ProceedFacts DEF Commit
<1>3. made[r] \in Ids /\ task[made[r]].state = "absent"
  <2>1. made[r] \in Ids \cup {0}
    BY DEF CatalogTypeOK
  <2>2. made[r] # 0 /\ task[made[r]].state = "absent"
    BY DEF CreationInv, Commit
  <2> QED
    BY <2>1, <2>2
<1>4. PICK w \in Weights, b \in BOOLEAN :
        task' = [task EXCEPT ![made[r]] =
                   [state |-> "live", owner |-> call[r].user, weight |-> w, fits |-> b]]
  BY DEF Commit
<1> DEFINE new == [state |-> "live", owner |-> call[r].user, weight |-> w, fits |-> b]
<1>5. new \in Tasks /\ new.state = "live" /\ new.owner = call[r].user
  BY <1>1 DEF Tasks
<1>6. task' = [task EXCEPT ![made[r]] = new]
  BY <1>4
<1> HIDE DEF new
<1>7. /\ task' \in [Ids -> Tasks] /\ task'[made[r]] = new
      /\ \A i \in Ids \ {made[r]} : task'[i] = task[i]
  BY <1>3, <1>5, <1>6 DEF CatalogTypeOK
<1>8. logged' \subseteq Ids /\ announced' \subseteq Ids
  BY <1>3 DEF Commit, CatalogTypeOK
<1>9. UNCHANGED <<made, category, cacheVars, clientVars, callVars, failures>>
  BY DEF Commit
<1>10. CatalogTypeOK'
  BY <1>2, <1>7, <1>8, <1>9 DEF CatalogTypeOK, cacheVars, clientVars, callVars
<1>11. \A q \in Requests \ {r} : Kept(q)
  BY <1>2, <1>9 DEF Kept, ClientKept, cacheVars, clientVars, callVars
<1> QED
  BY <1>2, <1>3, <1>5, <1>7, <1>9, <1>10, <1>11 DEF Frame, callVars

\* The transaction is aborted.
LEMMA AbortFrame ==
  ASSUME CatalogTypeOK, ShapeInv, NEW r \in Requests, AbortCreation(r)
  PROVE  /\ Frame(r) /\ todo[r] = <<"commit", "clear">> /\ call[r].kind = "create"
         /\ todo'[r] = <<"insert", "commit", "clear">>
         /\ made'[r] = 0 /\ failures' # 0 /\ call[r] # None
<1>1. todo[r] = <<"commit", "clear">> /\ call[r].kind = "create" /\ call[r] # None
  BY AtAwait DEF AbortCreation, At, AwaitOk
<1>2. <<"insert">> \o todo[r] = <<"insert", "commit", "clear">>
  BY <1>1, Concatenations
<1>3. <<"insert", "commit", "clear">> \in Seq(Steps)
  BY DEF Steps
<1>4. /\ todo' \in [Requests -> Seq(Steps)] /\ todo'[r] = <<"insert", "commit", "clear">>
      /\ \A q \in Requests \ {r} : todo'[q] = todo[q]
  <2>1. todo \in [Requests -> Seq(Steps)]
    BY DEF CatalogTypeOK
  <2>2. todo' = [todo EXCEPT ![r] = <<"insert">> \o todo[r]]
    BY DEF AbortCreation
  <2> QED
    BY <2>1, <2>2, <1>2, <1>3
<1>5. /\ made' \in [Requests -> Ids \cup {0}] /\ made'[r] = 0
      /\ \A q \in Requests \ {r} : made'[q] = made[q]
  BY DEF AbortCreation, CatalogTypeOK
<1>6. failures' \in 0 .. MaxFaults /\ failures' # 0
  BY CatalogAssumption DEF AbortCreation, Fault, CatalogTypeOK
<1>7. UNCHANGED <<task, logged, announced, category, cacheVars, clientVars, callVars, verdict>>
  BY DEF AbortCreation
<1>8. CatalogTypeOK'
  BY <1>4, <1>5, <1>6, <1>7 DEF CatalogTypeOK, cacheVars, clientVars, callVars
<1>9. \A q \in Requests \ {r} : Kept(q)
  BY <1>4, <1>5, <1>7 DEF Kept, ClientKept, cacheVars, clientVars, callVars
<1> QED
  BY <1>1, <1>4, <1>5, <1>6, <1>7, <1>8, <1>9 DEF Frame, callVars

\* A task is saved.
LEMMA SaveFrame ==
  ASSUME CatalogTypeOK, ShapeInv, NEW r \in Requests, SaveTask(r)
  PROVE  /\ Frame(r) /\ call[r].id \in Ids /\ call[r].kind \in {"change", "remove"}
         /\ \A i \in Ids : task'[i].owner = task[i].owner
         /\ \A i \in Ids \ {call[r].id} : task'[i] = task[i]
         /\ \/ task' = task /\ todo'[r] = <<>> /\ verdict'[r] = "refused"
            \/ /\ todo'[r] = Tail(todo[r]) /\ verdict' = verdict /\ task[call[r].id].state = "live"
               /\ task'[call[r].id].state = IF call[r].kind = "remove" THEN "deleted" ELSE "live"
<1> DEFINE i == call[r].id
<1>1. /\ Tail(todo[r]) \in Seq(Steps) /\ "refused" \in Verdicts
      /\ call[r].kind \in {"change", "remove"} /\ i \in Ids
  BY AtAwait DEF SaveTask, At, Verdicts, AwaitOk, WellFormed
<1>2. task \in [Ids -> Tasks] /\ task[i] \in Tasks
  BY <1>1 DEF CatalogTypeOK
<1>3. UNCHANGED <<logged, announced, made, category, cacheVars, clientVars, callVars, failures>>
  BY DEF SaveTask
<1> HIDE DEF i
<1>4. ASSUME todo' \in [Requests -> Seq(Steps)], verdict' \in [Requests -> Verdicts],
             \A q \in Requests \ {r} : todo'[q] = todo[q] /\ verdict'[q] = verdict[q],
             task' \in [Ids -> Tasks]
      PROVE  Frame(r)
  <2>1. CatalogTypeOK'
    BY <1>3, <1>4 DEF CatalogTypeOK, cacheVars, clientVars, callVars
  <2>2. \A q \in Requests \ {r} : Kept(q)
    BY <1>3, <1>4 DEF Kept, ClientKept, cacheVars, clientVars, callVars
  <2> QED
    BY <1>3, <2>1, <2>2 DEF Frame, callVars
<1>5. CASE task[i].state # "live"
  <2>1. Answer(r, "refused") /\ task' = task
    BY <1>5 DEF SaveTask, i
  <2>2. /\ todo' \in [Requests -> Seq(Steps)] /\ verdict' \in [Requests -> Verdicts]
        /\ todo'[r] = <<>> /\ verdict'[r] = "refused"
        /\ \A q \in Requests \ {r} : todo'[q] = todo[q] /\ verdict'[q] = verdict[q]
    BY <2>1, <1>1, AnswerFacts
  <2>3. Frame(r)
    BY <2>1, <2>2, <1>2, <1>4
  <2> QED
    BY <2>1, <2>2, <2>3, <1>1 DEF i
<1>6. CASE task[i].state = "live"
  <2>1. Proceed(r)
    BY <1>6 DEF SaveTask, i
  <2>2. /\ todo' \in [Requests -> Seq(Steps)] /\ verdict' = verdict
        /\ todo'[r] = Tail(todo[r]) /\ \A q \in Requests \ {r} : todo'[q] = todo[q]
    BY <2>1, <1>1, ProceedFacts
  <2> DEFINE After(x) ==
               /\ x \in Tasks /\ x.owner = task[i].owner
               /\ x.state = IF call[r].kind = "remove" THEN "deleted" ELSE "live"
  <2>3. \E x : After(x) /\ task' = [task EXCEPT ![i] = x]
    <3>1. PICK s \in {"absent", "live", "deleted"}, o \in Users \cup {None}, v \in Weights, f \in BOOLEAN :
            task[i] = [state |-> s, owner |-> o, weight |-> v, fits |-> f]
      BY <1>2 DEF Tasks
    <3>2. i \in Ids
      BY <1>1 DEF i
    <3>3. CASE call[r].kind = "remove"
      <4> DEFINE x == [state |-> "deleted", owner |-> o, weight |-> v, fits |-> f]
      <4>1. After(x)
        BY <3>1, <3>3 DEF Tasks
      <4>2. task' = [task EXCEPT ![i].state = "deleted"]
        BY <1>6, <3>3 DEF SaveTask, i
      <4>3. [task[i] EXCEPT !.state = "deleted"] = x
        BY <3>1
      <4>4. task' = [task EXCEPT ![i] = [task[i] EXCEPT !.state = "deleted"]]
        BY <4>2
      <4> HIDE DEF x
      <4>5. task' = [task EXCEPT ![i] = x]
        BY <4>3, <4>4
      <4> QED
        BY <4>1, <4>5
    <3>4. CASE call[r].kind # "remove"
      <4>1. PICK w \in Weights, b \in BOOLEAN : task' = [task EXCEPT ![i].weight = w, ![i].fits = b]
        BY <1>6, <3>4 DEF SaveTask, i
      <4> DEFINE x == [state |-> s, owner |-> o, weight |-> w, fits |-> b]
      <4>2. After(x)
        BY <3>1, <3>4, <1>6 DEF Tasks
      <4> DEFINE y == [state |-> s, owner |-> o, weight |-> w, fits |-> f]
                 t == [task EXCEPT ![i] = y]
      <4>3. [task EXCEPT ![i].weight = w] = t
        <5>1. [task[i] EXCEPT !.weight = w] = y
          BY <3>1
        <5>2. [task EXCEPT ![i].weight = w] = [task EXCEPT ![i] = [task[i] EXCEPT !.weight = w]]
          OBVIOUS
        <5> HIDE DEF y
        <5> QED
          BY <5>1, <5>2
      <4>4. [t EXCEPT ![i].fits = b] = [t EXCEPT ![i] = x]
        <5>1. [y EXCEPT !.fits = b] = x
          OBVIOUS
        <5> HIDE DEF x, y
        <5>2. t[i] = y
          BY <3>2, <1>2
        <5> HIDE DEF t
        <5>3. [t EXCEPT ![i].fits = b] = [t EXCEPT ![i] = [t[i] EXCEPT !.fits = b]]
          OBVIOUS
        <5> QED
          BY <5>1, <5>2, <5>3
      <4>5. [t EXCEPT ![i] = x] = [task EXCEPT ![i] = x]
        <5> HIDE DEF x, y
        <5> QED
          BY <3>2, <1>2
      <4>6. task' = [[task EXCEPT ![i].weight = w] EXCEPT ![i].fits = b]
        BY <4>1, Zenon
      <4> HIDE DEF x, y, t
      <4>7. task' = [task EXCEPT ![i] = x]
        BY <4>3, <4>4, <4>5, <4>6
      <4> QED
        BY <4>2, <4>7
    <3> QED
      BY <3>3, <3>4
  <2>4. PICK x : After(x) /\ task' = [task EXCEPT ![i] = x]
    BY <2>3
  <2>5. /\ task' \in [Ids -> Tasks] /\ task'[i] = x /\ \A j \in Ids \ {i} : task'[j] = task[j]
    BY <2>4, <1>1, <1>2 DEF i
  <2>6. Frame(r)
    BY <2>2, <2>5, <1>4 DEF CatalogTypeOK
  <2>7. \A j \in Ids : task'[j].owner = task[j].owner
    BY <2>4, <2>5
  <2> QED
    BY <2>2, <2>4, <2>5, <2>6, <2>7, <1>1, <1>6 DEF i
<1> QED
  BY <1>5, <1>6

\* A write of the category.
LEMMA CategoryFrame ==
  ASSUME CatalogTypeOK, ShapeInv, NEW r \in Requests, NEW s \in {"file", "rename", "drop"},
         NEW b \in BOOLEAN, NEW c \in [state : {"absent", "live", "deleted"}, version : Nat],
         WriteCategory(r, s, b, c)
  PROVE  /\ Frame(r) /\ todo'[r] = Tail(todo[r]) /\ call[r].kind = s
         /\ category' = (IF b THEN c ELSE category)
         /\ verdict'[r] = (IF b THEN "ok" ELSE "refused")
         /\ UNCHANGED <<task, logged, announced, made, cacheVars, clientVars, callVars, failures>>
<1>1. Tail(todo[r]) \in Seq(Steps) /\ call[r].kind = s
  BY AtAwait DEF WriteCategory, At, AwaitOk
<1>2. UNCHANGED <<task, logged, announced, made, cacheVars, clientVars, callVars, failures>>
  BY DEF WriteCategory
<1>3. /\ todo' \in [Requests -> Seq(Steps)] /\ todo'[r] = Tail(todo[r])
      /\ \A q \in Requests \ {r} : todo'[q] = todo[q]
  BY <1>1 DEF WriteCategory, CatalogTypeOK
<1>4. /\ verdict' \in [Requests -> Verdicts] /\ verdict'[r] = (IF b THEN "ok" ELSE "refused")
      /\ \A q \in Requests \ {r} : verdict'[q] = verdict[q]
  BY DEF WriteCategory, CatalogTypeOK, Verdicts
<1>5. category' = (IF b THEN c ELSE category)
  BY DEF WriteCategory
<1>6. CatalogTypeOK'
  BY <1>2, <1>3, <1>4, <1>5 DEF CatalogTypeOK, cacheVars, clientVars, callVars
<1>7. \A q \in Requests \ {r} : Kept(q)
  BY <1>2, <1>3, <1>4 DEF Kept, ClientKept, cacheVars, clientVars, callVars
<1> QED
  BY <1>1, <1>2, <1>3, <1>4, <1>5, <1>6, <1>7 DEF Frame, callVars

\* What the writes of the category leave alone.
CategoryWritten(r) ==
  /\ Frame(r) /\ todo'[r] = Tail(todo[r])
  /\ UNCHANGED <<task, logged, announced, made, cacheVars, clientVars, callVars, failures>>

\* create
LEMMA FileFrame ==
  ASSUME CatalogTypeOK, ShapeInv, NEW r \in Requests, FileCategory(r)
  PROVE  /\ CategoryWritten(r) /\ call[r].kind = "file" /\ verdict'[r] = "ok"
         /\ category.state = "absent" /\ category'.state = "live"
         /\ category'.version = category.version
<1> DEFINE c == [category EXCEPT !.state = "live"]
<1>1. /\ c \in [state : {"absent", "live", "deleted"}, version : Nat]
      /\ c.state = "live" /\ c.version = category.version
  BY DEF CatalogTypeOK
<1>2. category.state = "absent" /\ WriteCategory(r, "file", TRUE, c)
  BY DEF FileCategory
<1> HIDE DEF c
<1> QED
  BY <1>1, <1>2, CategoryFrame DEF CategoryWritten

\* findOneAndUpdate
LEMMA RenameFrame ==
  ASSUME CatalogTypeOK, ShapeInv, NEW r \in Requests, RenameCategory(r)
  PROVE  /\ CategoryWritten(r) /\ call[r].kind = "rename" /\ category'.state = category.state
         /\ \/ category' = category /\ verdict'[r] = "refused"
            \/ /\ verdict'[r] = "ok" /\ category.state = "live"
               /\ category.version = call[r].version /\ category'.version = category.version + 1
<1> DEFINE c == [category EXCEPT !.version = @ + 1]
           b == category.state = "live" /\ category.version = call[r].version
<1>1. /\ c \in [state : {"absent", "live", "deleted"}, version : Nat]
      /\ c.state = category.state /\ c.version = category.version + 1
  BY DEF CatalogTypeOK
<1>2. WriteCategory(r, "rename", b, c) /\ b \in BOOLEAN
  BY DEF RenameCategory
<1> HIDE DEF c, b
<1>3. /\ CategoryWritten(r) /\ call[r].kind = "rename" /\ category' = (IF b THEN c ELSE category)
      /\ verdict'[r] = (IF b THEN "ok" ELSE "refused")
  BY <1>1, <1>2, CategoryFrame DEF CategoryWritten
<1> QED
  BY <1>1, <1>3 DEF b

\* findOneAndDelete
LEMMA DropFrame ==
  ASSUME CatalogTypeOK, ShapeInv, NEW r \in Requests, DropCategory(r)
  PROVE  /\ CategoryWritten(r) /\ call[r].kind = "drop" /\ category'.version = category.version
         /\ \/ category' = category /\ verdict'[r] = "refused"
            \/ verdict'[r] = "ok" /\ category.state = "live" /\ category'.state = "deleted"
<1> DEFINE c == [category EXCEPT !.state = "deleted"]
           b == category.state = "live"
<1>1. /\ c \in [state : {"absent", "live", "deleted"}, version : Nat]
      /\ c.state = "deleted" /\ c.version = category.version
  BY DEF CatalogTypeOK
<1>2. WriteCategory(r, "drop", b, c) /\ b \in BOOLEAN
  BY DEF DropCategory
<1> HIDE DEF c, b
<1>3. /\ CategoryWritten(r) /\ call[r].kind = "drop" /\ category' = (IF b THEN c ELSE category)
      /\ verdict'[r] = (IF b THEN "ok" ELSE "refused")
  BY <1>1, <1>2, CategoryFrame DEF CategoryWritten
<1> QED
  BY <1>1, <1>3 DEF b

\* cacheManager.del
LEMMA ClearFrame ==
  ASSUME CatalogTypeOK, ShapeInv, NEW r \in Requests, ClearKey(r)
  PROVE  /\ Frame(r) /\ todo[r] = <<"clear">> /\ Changing(call[r])
         /\ UNCHANGED <<todo, verdict>>
         /\ \E k \in KnownKeys(r) :
              /\ k \in Keys /\ cleared'[r] = cleared[r] \cup {k}
              /\ \A j \in Keys : cache'[j] = IF j = k THEN None ELSE cache[j]
<1>1. todo[r] = <<"clear">> /\ Changing(call[r]) /\ call[r].process \in Processes
  BY AtAwait DEF ClearKey, At, AwaitOk, Calls
<1>2. PICK k \in KnownKeys(r) : /\ cache' = [cache EXCEPT ![k] = None]
                                /\ cleared' = [cleared EXCEPT ![r] = @ \cup {k}]
  BY DEF ClearKey
<1>3. k \in Keys
  BY <1>1 DEF KnownKeys, CatalogTypeOK
<1>4. DOMAIN cache' = Keys /\ \A j \in Keys : cache'[j] = IF j = k THEN None ELSE cache[j]
  BY <1>2, <1>3 DEF CatalogTypeOK
<1>5. /\ cleared' \in [Requests -> SUBSET Keys] /\ cleared'[r] = cleared[r] \cup {k}
      /\ \A q \in Requests \ {r} : cleared'[q] = cleared[q]
  BY <1>2, <1>3 DEF CatalogTypeOK
<1>6. UNCHANGED <<storeVars, registry, clientVars, callVars, todo, verdict, failures>>
  BY DEF ClearKey
<1>7. CatalogTypeOK'
  BY <1>4, <1>5, <1>6 DEF CatalogTypeOK, storeVars, clientVars, callVars
<1>8. \A q \in Requests \ {r} : Kept(q)
  BY <1>5, <1>6 DEF Kept, ClientKept, storeVars, clientVars, callVars
<1> QED
  BY <1>1, <1>3, <1>4, <1>5, <1>6, <1>7, <1>8 DEF Frame, callVars

\* The set of keys is emptied.
LEMMA ForgetFrame ==
  ASSUME CatalogTypeOK, ShapeInv, NEW r \in Requests, ForgetKeys(r)
  PROVE  /\ Frame(r) /\ todo[r] = <<"clear">> /\ Changing(call[r])
         /\ todo'[r] = <<>> /\ verdict' = verdict /\ cleared'[r] = {}
         /\ KnownKeys(r) \subseteq cleared[r] /\ call[r].process \in Processes
         /\ \A p \in Processes :
              registry'[p] = IF p = call[r].process THEN registry[p] \ KnownKeys(r) ELSE registry[p]
<1>1. /\ todo[r] = <<"clear">> /\ Changing(call[r]) /\ call[r].process \in Processes
      /\ Tail(todo[r]) \in Seq(Steps)
  BY AtAwait DEF ForgetKeys, At, AwaitOk, Calls
<1>2. Tail(todo[r]) = <<>>
  BY <1>1, Tuples
<1>3. /\ todo' \in [Requests -> Seq(Steps)] /\ verdict' = verdict
      /\ todo'[r] = <<>> /\ \A q \in Requests \ {r} : todo'[q] = todo[q]
  BY <1>1, <1>2, ProceedFacts DEF ForgetKeys
<1>4. /\ registry' \in [Processes -> SUBSET Keys]
      /\ \A p \in Processes :
           registry'[p] = IF p = call[r].process THEN registry[p] \ KnownKeys(r) ELSE registry[p]
  <2>1. registry \in [Processes -> SUBSET Keys]
    BY DEF CatalogTypeOK
  <2>2. registry' = [registry EXCEPT ![call[r].process] = registry[call[r].process] \ KnownKeys(r)]
    BY DEF ForgetKeys
  <2> QED
    BY <2>1, <2>2, <1>1
<1>5. /\ cleared' \in [Requests -> SUBSET Keys] /\ cleared'[r] = {}
      /\ \A q \in Requests \ {r} : cleared'[q] = cleared[q]
  BY DEF ForgetKeys, CatalogTypeOK
<1>6. UNCHANGED <<storeVars, cache, clientVars, callVars, failures>> /\ KnownKeys(r) \subseteq cleared[r]
  BY DEF ForgetKeys
<1>7. CatalogTypeOK'
  BY <1>3, <1>4, <1>5, <1>6 DEF CatalogTypeOK, storeVars, clientVars, callVars
<1>8. \A q \in Requests \ {r} : Kept(q)
  BY <1>3, <1>5, <1>6 DEF Kept, ClientKept, storeVars, clientVars, callVars
<1> QED
  BY <1>1, <1>3, <1>4, <1>5, <1>6, <1>7, <1>8 DEF Frame, callVars

\* A request arrives.
LEMMA ArriveFrame ==
  ASSUME CatalogTypeOK, ShapeInv, NEW r \in Requests, Arrive(r)
  PROVE  /\ CatalogTypeOK' /\ call[r] = None /\ call'[r] # None /\ WellFormed(call'[r])
         /\ todo'[r] # <<>> /\ Left(call'[r], todo'[r])
         /\ First(todo'[r]) \in {"flag", "get", "insert", "save", "file", "drop"}
         /\ place'[r] = (IF call'[r].kind = "offset" THEN 1 ELSE 0) /\ verdict'[r] = "ok"
         /\ before'[r] = {q \in Requests : Ended(q)}
         /\ UNCHANGED <<storeVars, cacheVars, reading, shown, steady, ever, failures>>
         /\ \A q \in Requests \ {r} : Kept(q)
<1> DEFINE Asked(k, f, p, u, q, i, v) ==
       /\ k = "file" => /\ category.state = "absent"
                        /\ \A x \in Arrived : call[x].kind # "file"
       /\ i # 0 => task[i].state = "live" /\ task[i].owner = u
       /\ f => k \in {"create", "change"}
       /\ f \/ k \in {"file", "view", "list", "rename", "drop"} => u = Owner
       /\ LET c == [kind |-> k, process |-> p, user |-> u, query |-> q, id |-> i,
                    filed |-> f, version |-> v]
          IN /\ call' = [call EXCEPT ![r] = c]
             /\ todo' = [todo EXCEPT ![r] = Plan(c)]
       /\ place' = [place EXCEPT ![r] =
                      IF k = "offset" THEN 1 ELSE 0]
<1>1. \E k \in Kinds, f \in BOOLEAN : Mixed(k, f) /\
        \E p \in Processes, u \in Users :
        \E q \in IF k \in Paginations THEN {x \in Queries : x.pagination = k} ELSE {None} :
        \E i \in IF k \in {"change", "remove"} THEN Ids ELSE {0} :
        \E v \in IF k = "rename" THEN 0 .. category.version ELSE {0} : Asked(k, f, p, u, q, i, v)
  BY Zenon DEF Arrive
<1> HIDE DEF Asked
<1>2. PICK k \in Kinds, f \in BOOLEAN :
        \E p \in Processes, u \in Users :
        \E q \in IF k \in Paginations THEN {x \in Queries : x.pagination = k} ELSE {None} :
        \E i \in IF k \in {"change", "remove"} THEN Ids ELSE {0} :
        \E v \in IF k = "rename" THEN 0 .. category.version ELSE {0} : Asked(k, f, p, u, q, i, v)
  BY <1>1, Zenon
<1>3. PICK p \in Processes, u \in Users,
           q \in IF k \in Paginations THEN {x \in Queries : x.pagination = k} ELSE {None},
           i \in IF k \in {"change", "remove"} THEN Ids ELSE {0},
           v \in IF k = "rename" THEN 0 .. category.version ELSE {0} : Asked(k, f, p, u, q, i, v)
  BY <1>2, Zenon
<1> DEFINE c == [kind |-> k, process |-> p, user |-> u, query |-> q, id |-> i,
                 filed |-> f, version |-> v]
<1>4. /\ call' = [call EXCEPT ![r] = c] /\ todo' = [todo EXCEPT ![r] = Plan(c)]
      /\ place' = [place EXCEPT ![r] = IF k = "offset" THEN 1 ELSE 0]
      /\ f => k \in {"create", "change"}
      /\ f \/ k \in {"file", "view", "list", "rename", "drop"} => u = Owner
  BY <1>3 DEF Asked
<1>5. WellFormed(c)
  <2>1. category.version \in Nat
    BY DEF CatalogTypeOK
  <2>2. v \in Nat
    BY <2>1
  <2>3. q \in Queries \cup {None} /\ i \in Ids \cup {0}
    OBVIOUS
  <2>4. c \in Calls
    BY <2>2, <2>3 DEF Calls
  <2>5. k \in Paginations => q \in Queries /\ q.pagination = k
    OBVIOUS
  <2>6. k \notin Paginations => q = None
    OBVIOUS
  <2> QED
    BY <2>4, <2>5, <2>6, <1>4 DEF WellFormed
<1>6. c \in Calls /\ c # None /\ c.kind = k
  BY <1>5, CatalogCallAssumption DEF WellFormed
<1> HIDE DEF c
<1>7. /\ Plan(c) # <<>> /\ Left(c, Plan(c)) /\ Plan(c) \in Seq(Steps)
      /\ First(Plan(c)) \in {"flag", "get", "insert", "save", "file", "drop"}
  BY <1>5, PlanLeft, LeftSteps
<1>8. /\ call' \in [Requests -> Calls \cup {None}] /\ call'[r] = c
      /\ \A x \in Requests \ {r} : call'[x] = call[x]
  BY <1>4, <1>6 DEF CatalogTypeOK
<1>9. /\ todo' \in [Requests -> Seq(Steps)] /\ todo'[r] = Plan(c)
      /\ \A x \in Requests \ {r} : todo'[x] = todo[x]
  BY <1>4, <1>7 DEF CatalogTypeOK
<1>10. /\ place' \in [Requests -> 0 .. MaxTask + 1]
       /\ place'[r] = (IF k = "offset" THEN 1 ELSE 0)
       /\ \A x \in Requests \ {r} : place'[x] = place[x]
  BY <1>4, CatalogAssumption DEF CatalogTypeOK
<1>11. /\ verdict' \in [Requests -> Verdicts] /\ verdict'[r] = "ok"
       /\ \A x \in Requests \ {r} : verdict'[x] = verdict[x]
  BY DEF Arrive, CatalogTypeOK, Verdicts
<1>12. /\ before' \in [Requests -> SUBSET Requests] /\ before'[r] = {x \in Requests : Ended(x)}
       /\ \A x \in Requests \ {r} : before'[x] = before[x]
  BY DEF Arrive, CatalogTypeOK
<1>13. UNCHANGED <<storeVars, cacheVars, reading, shown, steady, ever, failures>> /\ call[r] = None
  BY DEF Arrive
<1>14. CatalogTypeOK'
  BY <1>8, <1>9, <1>10, <1>11, <1>12, <1>13 DEF CatalogTypeOK, storeVars, cacheVars
<1>15. \A x \in Requests \ {r} : Kept(x)
  BY <1>8, <1>9, <1>10, <1>11, <1>12, <1>13 DEF Kept, ClientKept, storeVars, cacheVars
<1> QED
  BY <1>5, <1>6, <1>7, <1>8, <1>9, <1>10, <1>11, <1>12, <1>13, <1>14, <1>15

\* The requests in S end without success.
Failed(S) ==
  /\ CatalogTypeOK' /\ failures' # 0
  /\ UNCHANGED <<task, logged, announced, made, category, clientVars, callVars, cache>>
  /\ \A q \in Requests : /\ q \in S => todo'[q] = <<>> /\ verdict'[q] = "error" /\ cleared'[q] = {}
                         /\ q \notin S => Kept(q)

\* What failing does.
LEMMA FailFrame ==
  ASSUME CatalogTypeOK, NEW S \in SUBSET Requests, Fail(S), Fault, UNCHANGED cache,
         registry' \in [Processes -> SUBSET Keys]
  PROVE  Failed(S)
<1>1. /\ todo' \in [Requests -> Seq(Steps)]
      /\ \A q \in Requests : todo'[q] = IF q \in S THEN <<>> ELSE todo[q]
  BY DEF Fail, CatalogTypeOK
<1>2. /\ verdict' \in [Requests -> Verdicts]
      /\ \A q \in Requests : verdict'[q] = IF q \in S THEN "error" ELSE verdict[q]
  BY DEF Fail, CatalogTypeOK, Verdicts
<1>3. /\ cleared' \in [Requests -> SUBSET Keys]
      /\ \A q \in Requests : cleared'[q] = IF q \in S THEN {} ELSE cleared[q]
  BY DEF Fail, CatalogTypeOK
<1>4. UNCHANGED <<task, logged, announced, made, category, clientVars, callVars>>
  BY DEF Fail
<1>5. failures' \in 0 .. MaxFaults /\ failures' # 0
  BY CatalogAssumption DEF Fault, CatalogTypeOK
<1>6. CatalogTypeOK'
  BY <1>1, <1>2, <1>3, <1>4, <1>5 DEF CatalogTypeOK, clientVars, callVars
<1>7. \A q \in Requests : q \notin S => Kept(q)
  BY <1>1, <1>2, <1>3, <1>4 DEF Kept, ClientKept, clientVars, callVars
<1> QED
  BY <1>1, <1>2, <1>3, <1>4, <1>5, <1>6, <1>7 DEF Failed

\* Both failures end requests that are running.
LEMMA FaultFrame ==
  ASSUME CatalogTypeOK,
         (\E r \in Requests : CallRejected(r)) \/ (\E p \in Processes : ProcessDies(p))
  PROVE  \E S \in SUBSET Requests : Failed(S) /\ \A r \in S : Running(r)
<1>1. ASSUME NEW r \in Requests, CallRejected(r)
      PROVE  Failed({r}) /\ Running(r)
  <2>1. registry' \in [Processes -> SUBSET Keys]
    BY <1>1 DEF CallRejected, CatalogTypeOK
  <2>2. Fail({r}) /\ Fault /\ UNCHANGED cache /\ Running(r)
    BY <1>1 DEF CallRejected
  <2> QED
    BY <2>1, <2>2, FailFrame
<1>2. ASSUME NEW p \in Processes, ProcessDies(p)
      PROVE  Failed({r \in Requests : Running(r) /\ call[r].process = p})
  <2>1. registry' \in [Processes -> SUBSET Keys]
    BY <1>2 DEF ProcessDies, CatalogTypeOK
  <2>2. Fail({r \in Requests : Running(r) /\ call[r].process = p}) /\ Fault /\ UNCHANGED cache
    BY <1>2 DEF ProcessDies
  <2> QED
    BY <2>1, <2>2, FailFrame
<1>3. ASSUME NEW r \in Requests, CallRejected(r)
      PROVE  \E S \in SUBSET Requests : Failed(S) /\ \A q \in S : Running(q)
  <2>1. {r} \in SUBSET Requests
    OBVIOUS
  <2> QED
    BY <2>1, <1>1, <1>3
<1>4. ASSUME NEW p \in Processes, ProcessDies(p)
      PROVE  \E S \in SUBSET Requests : Failed(S) /\ \A q \in S : Running(q)
  <2> DEFINE S == {r \in Requests : Running(r) /\ call[r].process = p}
  <2>1. S \in SUBSET Requests /\ \A q \in S : Running(q)
    OBVIOUS
  <2>2. Failed(S)
    BY <1>2, <1>4
  <2> HIDE DEF S
  <2> QED
    BY <2>1, <2>2
<1> QED
  BY <1>3, <1>4

\* What a step of r leaves is something for a request of its kind to do.
Ready(r) ==
  /\ Left(call[r], todo'[r])
  /\ call[r].kind = "offset" /\ todo'[r] # <<>> => place'[r] >= 1
  /\ call[r].kind \notin PageKinds => ever'[r] = {}
  /\ cleared'[r] # {} => todo'[r] = <<"clear">>

\* Nothing is cleared before the last await.
LEMMA NothingCleared ==
  ASSUME ShapeInv, NEW r \in Requests, Running(r), Head(todo[r]) # "clear"
  PROVE  cleared[r] = {}
  BY Tuples DEF ShapeInv, RequestInv

LEMMA FoundLeft ==
  ASSUME CatalogTypeOK, ShapeInv, NEW r \in Requests, call[r] # None, Looking(call[r]),
         NEW v \in Values, Found(r, v), cleared' = cleared, cleared[r] = {}
  PROVE  Ready(r)
<1>1. WellFormed(call[r]) /\ call[r].kind \in Kinds /\ (call[r].kind \notin PageKinds => ever[r] = {})
  BY DEF ShapeInv, RequestInv, WellFormed, Calls
<1>2. CASE call[r].kind \in Paginations
  <2>1. todo'[r] = (IF v.next = 0 THEN <<>> ELSE PagePlan(call[r].query)) /\ place'[r] = v.next
    BY <1>1, <1>2, FoundFacts
  <2>2. Left(call[r], todo'[r])
    BY <2>1, <1>1, <1>2, PagePlanLeft, EmptyLeft
  <2>3. todo'[r] # <<>> => place'[r] >= 1
    BY <2>1, CatalogAssumption DEF Values
  <2> QED
    BY <2>2, <2>3, <1>2 DEF Ready, PageKinds
<1>3. CASE call[r].kind = "stats"
  <2>1. todo'[r] = <<>>
    BY <1>1, <1>3, FoundFacts
  <2> QED
    BY <2>1, <1>1, <1>3, EmptyLeft DEF Ready, PageKinds
<1>4. CASE call[r].kind \notin PageKinds
  <2>1. /\ todo'[r] \in {<<>>, AfterLookup(call[r].kind)} /\ ever'[r] = ever[r]
    BY <1>1, <1>4, FoundFacts
  <2>2. call[r].kind \in {"create", "change", "rename", "view", "list"}
    BY <1>1, <1>4 DEF Looking, Readers, WellFormed, PageKinds
  <2>3. Left(call[r], todo'[r])
    BY <2>1, <2>2, <1>1, <1>4, AfterLookupLeft, EmptyLeft
  <2> QED
    BY <2>1, <2>3, <1>1, <1>4 DEF Ready, PageKinds, Paginations
<1> QED
  BY <1>2, <1>3, <1>4 DEF PageKinds

\* After an await that changes nothing of the client.
LEMMA ProceedReady ==
  ASSUME CatalogTypeOK, ShapeInv, NEW r \in Requests, Running(r), Head(todo[r]) # "clear",
         todo'[r] = Tail(todo[r]) \/ todo'[r] = <<>>, place'[r] = place[r], ever'[r] = ever[r],
         cleared'[r] = cleared[r]
  PROVE  Ready(r)
<1>1. /\ Left(call[r], Tail(todo[r])) /\ call[r] # None /\ call[r].kind \in Kinds
      /\ RequestInv(r)
  BY AtAwait DEF Calls, ShapeInv
<1>2. Left(call[r], todo'[r])
  BY <1>1, EmptyLeft
<1>3. cleared[r] = {}
  BY NothingCleared
<1> QED
  BY <1>1, <1>2, <1>3 DEF Ready, RequestInv

\* What every step of a request does.
LEMMA StepFrame ==
  ASSUME CatalogTypeOK, ShapeInv, CreationInv, ValueInv, NEW r \in Requests, Step(r)
  PROVE  /\ Frame(r) /\ Running(r) /\ call[r] # None /\ failures' = failures /\ Ready(r)
<1>1. Running(r)
  BY DEF Step, CheckFlag, Miss, Hit, Query, Count, SetCached, RegisterKey, Insert, Commit, SaveTask,
         FileCategory, RenameCategory, DropCategory, WriteCategory, ClearKey, ForgetKeys, At
<1>2. failures' = failures
  BY DEF Step, CheckFlag, Miss, Hit, Query, Count, SetCached, RegisterKey, Insert, Commit, SaveTask,
         FileCategory, RenameCategory, DropCategory, WriteCategory, ClearKey, ForgetKeys
<1>3. call[r] # None
  BY <1>1, AtAwait
<1>4. SUFFICES Frame(r) /\ Ready(r)
  BY <1>1, <1>2, <1>3
<1>5. CASE CheckFlag(r)
  <2>1. Frame(r) /\ (todo'[r] = Tail(todo[r]) \/ todo'[r] = <<>>)
    BY <1>5, FlagFrame
  <2>2. Head(todo[r]) # "clear" /\ place' = place /\ ever' = ever /\ cleared' = cleared
    BY <1>5 DEF CheckFlag, At, clientVars, cacheVars
  <2> QED
    BY <1>1, <2>1, <2>2, ProceedReady
<1>6. CASE Miss(r)
  <2>1. Frame(r) /\ todo'[r] = Tail(todo[r])
    BY <1>6, MissFrame
  <2>2. Head(todo[r]) # "clear" /\ place' = place /\ ever' = ever /\ cleared' = cleared
    BY <1>6 DEF Miss, At, clientVars
  <2> QED
    BY <1>1, <2>1, <2>2, ProceedReady
<1>7. CASE Hit(r)
  <2>1. Frame(r) /\ cache[KeyOf(r)] \in Values
    BY <1>7, HitFrame
  <2>2. Head(todo[r]) # "clear" /\ cleared' = cleared /\ Found(r, cache[KeyOf(r)]) /\ At(r, "get")
    BY <1>7 DEF Hit, At, cacheVars
  <2>3. Looking(call[r])
    BY <2>2, LookupFacts
  <2>4. cleared[r] = {}
    BY <1>1, <2>2, NothingCleared
  <2> QED
    BY <1>3, <2>1, <2>2, <2>3, <2>4, FoundLeft
<1>8. CASE Query(r)
  <2>1. Frame(r) /\ Queried(r) \in Values
    BY <1>8, QueryFrame
  <2>2. Head(todo[r]) # "clear" /\ cleared' = cleared /\ At(r, "query")
    BY <1>8 DEF Query, At, cacheVars
  <2>3. Looking(call[r])
    BY <2>2, LookupFacts
  <2>4. cleared[r] = {}
    BY <1>1, <2>2, NothingCleared
  <2>5. CASE Found(r, Queried(r))
    BY <1>3, <2>1, <2>2, <2>3, <2>4, <2>5, FoundLeft
  <2>6. CASE (todo'[r] = Tail(todo[r]) \/ todo'[r] = <<>>) /\ place' = place /\ ever' = ever
    BY <1>1, <2>1, <2>2, <2>6, ProceedReady
  <2> QED
    BY <1>8, <2>5, <2>6, QueryFrame DEF clientVars
<1>9. CASE Count(r)
  <2>1. Frame(r) /\ todo'[r] = Tail(todo[r])
    BY <1>9, CountFrame
  <2>2. /\ Head(todo[r]) # "clear" /\ place' = place /\ cleared' = cleared
    BY <1>9 DEF Count, At, cacheVars
  <2>3. ever' = ever
    BY <1>9 DEF Count
  <2> QED
    BY <1>1, <2>1, <2>2, <2>3, ProceedReady
<1>10. CASE SetCached(r)
  <2>1. Frame(r) /\ todo'[r] = Tail(todo[r])
    BY <1>10, SetFrame
  <2>2. Head(todo[r]) # "clear" /\ place' = place /\ ever' = ever /\ cleared' = cleared
    BY <1>10 DEF SetCached, At, clientVars
  <2> QED
    BY <1>1, <2>1, <2>2, ProceedReady
<1>11. CASE RegisterKey(r)
  <2>1. Frame(r) /\ reading[r] \in Values
    BY <1>11, RegisterFrame
  <2>2. Head(todo[r]) # "clear" /\ cleared' = cleared /\ Found(r, reading[r]) /\ At(r, "register")
    BY <1>11 DEF RegisterKey, At
  <2>3. Looking(call[r])
    BY <2>2, LookupFacts
  <2>4. cleared[r] = {}
    BY <1>1, <2>2, NothingCleared
  <2> QED
    BY <1>3, <2>1, <2>2, <2>3, <2>4, FoundLeft
<1>12. CASE Insert(r)
  <2>1. Frame(r) /\ todo'[r] = Tail(todo[r])
    BY <1>12, InsertFrame
  <2>2. Head(todo[r]) # "clear" /\ place' = place /\ ever' = ever /\ cleared' = cleared
    BY <1>12 DEF Insert, At, clientVars, cacheVars
  <2> QED
    BY <1>1, <2>1, <2>2, ProceedReady
<1>13. CASE Commit(r)
  <2>1. Frame(r) /\ todo'[r] = Tail(todo[r])
    BY <1>13, CommitFrame
  <2>2. Head(todo[r]) # "clear" /\ place' = place /\ ever' = ever /\ cleared' = cleared
    BY <1>13 DEF Commit, At, clientVars, cacheVars
  <2> QED
    BY <1>1, <2>1, <2>2, ProceedReady
<1>14. CASE SaveTask(r)
  <2>1. Frame(r) /\ (todo'[r] = Tail(todo[r]) \/ todo'[r] = <<>>)
    BY <1>14, SaveFrame
  <2>2. Head(todo[r]) # "clear" /\ place' = place /\ ever' = ever /\ cleared' = cleared
    BY <1>14 DEF SaveTask, At, clientVars, cacheVars
  <2> QED
    BY <1>1, <2>1, <2>2, ProceedReady
<1>15. CASE FileCategory(r) \/ RenameCategory(r) \/ DropCategory(r)
  <2>1. CategoryWritten(r)
    BY <1>15, FileFrame, RenameFrame, DropFrame
  <2>2. Head(todo[r]) # "clear"
    BY <1>15 DEF FileCategory, RenameCategory, DropCategory, WriteCategory, At
  <2>3. place' = place /\ ever' = ever /\ cleared' = cleared
    BY <2>1 DEF CategoryWritten, clientVars, cacheVars
  <2> QED
    BY <1>1, <2>1, <2>2, <2>3, ProceedReady DEF CategoryWritten
<1>16. CASE ClearKey(r)
  <2>1. Frame(r) /\ todo[r] = <<"clear">> /\ todo' = todo
    BY <1>16, ClearFrame
  <2>2. place' = place /\ ever' = ever
    BY <1>16 DEF ClearKey, clientVars
  <2>3. RequestInv(r)
    BY DEF ShapeInv
  <2> QED
    BY <1>1, <1>3, <2>1, <2>2, <2>3 DEF Ready, RequestInv
<1>17. CASE ForgetKeys(r)
  <2>1. Frame(r) /\ todo'[r] = <<>> /\ cleared'[r] = {}
    BY <1>17, ForgetFrame
  <2>2. ever' = ever
    BY <1>17 DEF ForgetKeys, clientVars
  <2>3. RequestInv(r) /\ call[r].kind \in Kinds
    BY <1>1, AtAwait DEF ShapeInv, Calls
  <2> QED
    BY <1>3, <2>1, <2>2, <2>3, EmptyLeft DEF Ready, RequestInv
<1> QED
  BY <1>5, <1>6, <1>7, <1>8, <1>9, <1>10, <1>11, <1>12, <1>13, <1>14, <1>15, <1>16, <1>17 DEF Step

-------------------------------------------------------------------------------
(* Types and what is left to do                                            *)

\* Who has ended has ended for good.
LEMMA EndedKept ==
  ASSUME CatalogTypeOK, NEW r \in Requests, Frame(r), ~ Ended(r), NEW q \in Requests, Ended(q)
  PROVE  Ended(q)'
<1>1. q # r
  OBVIOUS
<1>2. Kept(q)
  BY <1>1 DEF Frame
<1> QED
  BY <1>2 DEF Kept, ClientKept, Ended, Running

\* A request that a step leaves alone.
LEMMA RequestKept ==
  ASSUME CatalogTypeOK, NEW q \in Requests, RequestInv(q), Kept(q),
         \A x \in Requests : Ended(x) => Ended(x)'
  PROVE  RequestInv(q)'
<1>1. \A x \in before'[q] : Ended(x)'
  BY DEF CatalogTypeOK, RequestInv, Kept
<1> QED
  BY <1>1 DEF RequestInv, Kept, ClientKept, Running

\* A request that takes a step.
LEMMA RequestReady ==
  ASSUME CatalogTypeOK, NEW r \in Requests, RequestInv(r), call[r] # None, call' = call,
         before' = before, Ready(r), \A x \in Requests : Ended(x) => Ended(x)'
  PROVE  RequestInv(r)'
<1>1. \A x \in before'[r] : Ended(x)'
  BY DEF CatalogTypeOK, RequestInv
<1> QED
  BY <1>1 DEF RequestInv, Ready, Running

\* A step of a request keeps the types and what is left to do.
LEMMA ShapeStep ==
  ASSUME CatalogTypeOK, ShapeInv, NEW r \in Requests, Frame(r), Running(r), call[r] # None, Ready(r)
  PROVE  CatalogTypeOK' /\ ShapeInv'
<1>1. \A x \in Requests : Ended(x) => Ended(x)'
  BY EndedKept DEF Ended
<1>2. ASSUME NEW q \in Requests
      PROVE  RequestInv(q)'
  <2>1. RequestInv(q)
    BY DEF ShapeInv
  <2>2. CASE q = r
    BY <2>1, <2>2, <1>1, RequestReady DEF Frame
  <2>3. CASE q # r
    <3>1. Kept(q)
      BY <2>3 DEF Frame
    <3> QED
      BY <2>1, <3>1, <1>1, RequestKept
  <2> QED
    BY <2>2, <2>3
<1> QED
  BY <1>2 DEF ShapeInv, Frame

\* The arrival of a request.
LEMMA ShapeArrive ==
  ASSUME CatalogTypeOK, ShapeInv, NEW r \in Requests, Arrive(r)
  PROVE  CatalogTypeOK' /\ ShapeInv'
<1>1. /\ CatalogTypeOK' /\ call[r] = None /\ call'[r] # None /\ WellFormed(call'[r])
      /\ Left(call'[r], todo'[r]) /\ place'[r] = (IF call'[r].kind = "offset" THEN 1 ELSE 0)
      /\ before'[r] = {q \in Requests : Ended(q)}
      /\ UNCHANGED <<cacheVars, ever>>
      /\ \A q \in Requests \ {r} : Kept(q)
  BY ArriveFrame
<1>2. \A x \in Requests : Ended(x) => Ended(x)'
  BY <1>1 DEF Kept, ClientKept, Ended, Running
<1>3. ASSUME NEW q \in Requests
      PROVE  RequestInv(q)'
  <2>1. RequestInv(q)
    BY DEF ShapeInv
  <2>2. CASE q = r
    <3>4. ever[r] = {} /\ todo[r] = <<>> /\ (cleared[r] # {} => todo[r] = <<"clear">>)
      BY <2>1, <2>2, <1>1 DEF RequestInv
    <3>1. ever[r] = {} /\ cleared[r] = {}
      BY <3>4, Tuples
    <3>2. \A x \in before'[r] : Ended(x)'
      BY <1>1, <1>2
    <3>3. ever' = ever /\ cleared' = cleared
      BY <1>1 DEF cacheVars
    <3> QED
      BY <2>2, <3>1, <3>2, <3>3, <1>1 DEF RequestInv, Running
  <2>3. CASE q # r
    BY <2>1, <2>3, <1>1, <1>2, RequestKept
  <2> QED
    BY <2>2, <2>3
<1> QED
  BY <1>1, <1>3 DEF ShapeInv

\* An aborted transaction.
LEMMA ShapeAbort ==
  ASSUME CatalogTypeOK, ShapeInv, NEW r \in Requests, AbortCreation(r)
  PROVE  CatalogTypeOK' /\ ShapeInv' /\ Running(r) /\ Running(r)'
<1>1. /\ Frame(r) /\ todo[r] = <<"commit", "clear">> /\ call[r].kind = "create"
      /\ todo'[r] = <<"insert", "commit", "clear">> /\ call[r] # None
  BY AbortFrame
<1>2. Running(r) /\ Running(r)'
  BY <1>1, Tuples DEF Running
<1>3. /\ RequestInv(r) /\ place' = place /\ ever' = ever /\ cleared' = cleared
  BY DEF ShapeInv, AbortCreation, clientVars, cacheVars
<1>4. cleared[r] = {}
  BY <1>1, <1>3, Tuples DEF RequestInv
<1>5. Left(call[r], todo'[r])
  BY <1>1 DEF Left, CreateLists
<1>6. Ready(r)
  BY <1>1, <1>3, <1>4, <1>5 DEF Ready, RequestInv
<1> QED
  BY <1>1, <1>2, <1>6, ShapeStep

\* A failure.
LEMMA ShapeFailed ==
  ASSUME CatalogTypeOK, ShapeInv, NEW S \in SUBSET Requests, Failed(S), \A r \in S : Running(r)
  PROVE  CatalogTypeOK' /\ ShapeInv'
<1>1. \A x \in Requests : Ended(x) => Ended(x)'
  BY DEF Failed, Kept, ClientKept, Ended, Running
<1>2. ASSUME NEW q \in Requests
      PROVE  RequestInv(q)'
  <2>1. RequestInv(q)
    BY DEF ShapeInv
  <2>2. CASE q \in S
    <3>1. call[q] # None /\ Running(q)
      BY <2>1, <2>2 DEF RequestInv, Running
    <3>2. call' = call /\ before' = before /\ ever' = ever
      BY DEF Failed, callVars, clientVars
    <3>3. call[q].kind \in Kinds /\ (call[q].kind \notin PageKinds => ever[q] = {})
      BY <2>1, <3>1 DEF RequestInv, WellFormed, Calls
    <3>4. Ready(q)
      BY <2>2, <3>2, <3>3, EmptyLeft DEF Failed, Ready
    <3> QED
      BY <2>1, <3>1, <3>2, <3>4, <1>1, RequestReady
  <2>3. CASE q \notin S
    BY <2>1, <2>3, <1>1, RequestKept DEF Failed
  <2> QED
    BY <2>2, <2>3
<1> QED
  BY <1>2 DEF ShapeInv, Failed

\* Which await comes before an await of a lookup or a commit.
LEMMA FirstTail ==
  ASSUME NEW c, NEW l, AwaitOk(c, l), First(l) # "register"
  PROVE  LET next == First(Tail(l))
         IN /\ next = "commit" => First(l) = "insert"
            /\ next = "count" => First(l) = "query" /\ c.kind = "offset"
            /\ next = "set" => First(l) = "count" \/ (First(l) = "query" /\ c.kind # "offset")
            /\ next = "register" => First(l) = "set"
<1>1. First(l) \in Steps
  BY DEF AwaitOk
<1>2. First(<<"commit", "clear">>) = "commit" /\ First(<<"clear">>) = "clear" /\ First(<<>>) = "end"
  BY Tuples DEF First
<1>3. CASE First(l) \in {"flag", "get", "query", "count", "set"}
  BY <1>3 DEF AwaitOk
<1>4. CASE First(l) = "insert"
  BY <1>2, <1>4 DEF AwaitOk
<1>5. CASE First(l) \in {"save", "rename", "file", "drop"}
  BY <1>2, <1>5 DEF AwaitOk
<1>6. CASE First(l) = "commit"
  <2>3. l = <<"commit", "clear">>
    BY <1>6 DEF AwaitOk
  <2>1. Tail(l) = <<"clear">>
    BY ONLY <2>3, Tuples
  <2> QED
    BY <1>2, <2>1
<1>7. CASE First(l) = "clear"
  <2>3. l = <<"clear">>
    BY <1>7 DEF AwaitOk
  <2>1. Tail(l) = <<>>
    BY ONLY <2>3, Tuples
  <2> QED
    BY <1>2, <2>1
<1> QED
  BY <1>1, <1>3, <1>4, <1>5, <1>6, <1>7 DEF Steps

\* What a request has first after it has found something.
LEMMA FoundFirst ==
  ASSUME CatalogTypeOK, NEW r \in Requests, WellFormed(call[r]), Looking(call[r]),
         NEW v \in Values, Found(r, v)
  PROVE  First(todo'[r]) \in {"end", "flag", "get", "insert", "save", "rename"}
<1>1. call[r].kind \in Kinds
  BY DEF WellFormed, Calls
<1>2. CASE call[r].kind \in Paginations
  <2>1. todo'[r] = <<>> \/ todo'[r] = PagePlan(call[r].query)
    BY <1>2, FoundFacts
  <2> QED
    BY <2>1, <1>2, PagePlanLeft DEF First
<1>3. CASE call[r].kind = "stats"
  <2>1. todo'[r] = <<>>
    BY <1>3, FoundFacts
  <2> QED
    BY <2>1 DEF First
<1>4. CASE call[r].kind \notin PageKinds
  <2>1. todo'[r] = <<>> \/ todo'[r] = AfterLookup(call[r].kind)
    BY <1>4, FoundFacts
  <2>2. call[r].kind \in {"create", "change", "rename", "view", "list"}
    BY <1>1, <1>4 DEF Looking, Readers, WellFormed, PageKinds
  <2>3. \/ AfterLookup(call[r].kind) = <<"insert", "commit", "clear">>
        \/ AfterLookup(call[r].kind) = <<"save", "clear">>
        \/ AfterLookup(call[r].kind) = <<"rename", "clear">>
        \/ AfterLookup(call[r].kind) = <<>>
    BY <1>1, <1>4, <2>2, AfterLookupLeft
  <2> QED
    BY <2>1, <2>3, Tuples DEF First
<1> QED
  BY <1>2, <1>3, <1>4 DEF PageKinds

\* Which step has led to an await of a lookup or a commit.
LEMMA StepFirst ==
  ASSUME CatalogTypeOK, ShapeInv, CreationInv, ValueInv, NEW r \in Requests, Step(r)
  PROVE  LET next == First(todo'[r])
         IN /\ next = "commit" => Insert(r)
            /\ next = "count" => /\ Query(r) /\ call[r].kind = "offset" /\ reading'[r] = Queried(r)
            /\ next = "set" => \/ Count(r)
                               \/ Query(r) /\ call[r].kind # "offset" /\ reading'[r] = Queried(r)
            /\ next = "register" => SetCached(r)
            /\ next \in {"count", "set", "register"} => place'[r] = place[r]
<1> DEFINE next == First(todo'[r])
           Goal == /\ next = "commit" => Insert(r)
                   /\ next = "count" => /\ Query(r) /\ call[r].kind = "offset"
                                        /\ reading'[r] = Queried(r)
                   /\ next = "set" => \/ Count(r)
                                      \/ Query(r) /\ call[r].kind # "offset" /\ reading'[r] = Queried(r)
                   /\ next = "register" => SetCached(r)
                   /\ next \in {"count", "set", "register"} => place'[r] = place[r]
<1>1. SUFFICES Goal
  OBVIOUS
<1>2. ASSUME next \in {"end", "flag", "get", "insert", "save", "rename", "clear"}
      PROVE  Goal
  BY <1>2
<1>3. AwaitOk(call[r], todo[r]) /\ First(todo[r]) = Head(todo[r]) /\ Running(r)
  BY StepFrame, AtAwait
<1>4. First(<<>>) = "end" /\ First(<<"clear">>) = "clear"
  BY Tuples DEF First
<1>5. ASSUME NEW s \in Steps, At(r, s), s # "register", todo'[r] = Tail(todo[r])
      PROVE  /\ next = "commit" => s = "insert"
             /\ next = "count" => s = "query" /\ call[r].kind = "offset"
             /\ next = "set" => s = "count" \/ (s = "query" /\ call[r].kind # "offset")
             /\ next = "register" => s = "set"
  <2>1. First(todo[r]) = s
    BY <1>5, AtFirst
  <2> QED
    BY <2>1, <1>3, <1>5, FirstTail
<1> HIDE DEF Goal, next
<1>6. todo'[r] = <<>> => Goal
  BY <1>2, <1>4 DEF next
<1>7. CASE CheckFlag(r)
  <2>1. At(r, "flag")
    BY <1>7 DEF CheckFlag
  <2>2. todo'[r] = Tail(todo[r]) \/ todo'[r] = <<>>
    BY <1>7, FlagFrame
  <2>3. CASE todo'[r] = Tail(todo[r])
    BY <2>1, <2>3, <1>5 DEF Goal, Steps
  <2> QED
    BY <2>2, <2>3, <1>6
<1>8. CASE Miss(r)
  <2>1. At(r, "get")
    BY <1>8 DEF Miss
  <2>2. todo'[r] = Tail(todo[r])
    BY <1>8, MissFrame
  <2> QED
    BY <2>1, <2>2, <1>5 DEF Goal, Steps
<1>9. CASE Hit(r)
  <2>1. Found(r, cache[KeyOf(r)]) /\ At(r, "get")
    BY <1>9 DEF Hit
  <2>2. next \in {"end", "flag", "get", "insert", "save", "rename"}
    BY <1>9, <2>1, HitFrame, LookupFacts, FoundFirst DEF next
  <2> QED
    BY <2>2, <1>2
<1>10. CASE Query(r)
  <2>1. At(r, "query") /\ WellFormed(call[r]) /\ Looking(call[r])
    BY <1>10, LookupFacts DEF Query
  <2>2. CASE Found(r, Queried(r))
    <3>1. next \in {"end", "flag", "get", "insert", "save", "rename"}
      BY <1>10, <2>1, <2>2, QueryFrame, FoundFirst DEF next
    <3> QED
      BY <3>1, <1>2
  <2>3. CASE todo'[r] = Tail(todo[r]) /\ reading'[r] = Queried(r) /\ place' = place
    <3>1. /\ next # "commit" /\ next # "register" /\ (next = "count" => call[r].kind = "offset")
          /\ (next = "set" => call[r].kind # "offset")
      BY <2>1, <2>3, <1>5 DEF Steps
    <3> QED
      BY <3>1, <2>3, <1>10 DEF Goal
  <2> QED
    BY <1>10, <2>2, <2>3, <1>6, QueryFrame
<1>11. CASE Count(r)
  <2>1. At(r, "count") /\ place' = place
    BY <1>11 DEF Count
  <2>2. todo'[r] = Tail(todo[r])
    BY <1>11, CountFrame
  <2> QED
    BY <1>11, <2>1, <2>2, <1>5 DEF Goal, Steps
<1>12. CASE SetCached(r)
  <2>1. At(r, "set") /\ place' = place
    BY <1>12 DEF SetCached, clientVars
  <2>2. todo'[r] = Tail(todo[r])
    BY <1>12, SetFrame
  <2> QED
    BY <1>12, <2>1, <2>2, <1>5 DEF Goal, Steps
<1>13. CASE RegisterKey(r)
  <2>1. Found(r, reading[r]) /\ At(r, "register")
    BY <1>13 DEF RegisterKey
  <2>2. next \in {"end", "flag", "get", "insert", "save", "rename"}
    BY <1>13, <2>1, RegisterFrame, LookupFacts, FoundFirst DEF next
  <2> QED
    BY <2>2, <1>2
<1>14. CASE Insert(r)
  <2>1. At(r, "insert")
    BY <1>14 DEF Insert
  <2>2. todo'[r] = Tail(todo[r])
    BY <1>14, InsertFrame
  <2> QED
    BY <1>14, <2>1, <2>2, <1>5 DEF Goal, Steps
<1>15. CASE Commit(r)
  <2>1. At(r, "commit")
    BY <1>15 DEF Commit
  <2>2. todo'[r] = Tail(todo[r])
    BY <1>15, CommitFrame
  <2> QED
    BY <2>1, <2>2, <1>5 DEF Goal, Steps
<1>16. CASE SaveTask(r)
  <2>1. At(r, "save")
    BY <1>16 DEF SaveTask
  <2>2. todo'[r] = Tail(todo[r]) \/ todo'[r] = <<>>
    BY <1>16, SaveFrame
  <2>3. CASE todo'[r] = Tail(todo[r])
    BY <2>1, <2>3, <1>5 DEF Goal, Steps
  <2> QED
    BY <2>2, <2>3, <1>6
<1>17. CASE FileCategory(r) \/ RenameCategory(r) \/ DropCategory(r)
  <2>1. At(r, "file") \/ At(r, "rename") \/ At(r, "drop")
    BY <1>17 DEF FileCategory, RenameCategory, DropCategory, WriteCategory
  <2>2. todo'[r] = Tail(todo[r])
    BY <1>17, FileFrame, RenameFrame, DropFrame DEF CategoryWritten
  <2> QED
    BY <2>1, <2>2, <1>5 DEF Goal, Steps
<1>18. CASE ClearKey(r)
  <2>1. todo'[r] = <<"clear">>
    BY <1>18, ClearFrame
  <2> QED
    BY <2>1, <1>2, <1>4 DEF next
<1>19. CASE ForgetKeys(r)
  BY <1>19, <1>6, ForgetFrame
<1> QED
  BY StepFrame, <1>7, <1>8, <1>9, <1>10, <1>11, <1>12, <1>13, <1>14, <1>15, <1>16, <1>17, <1>18,
     <1>19 DEF Step

-------------------------------------------------------------------------------
(* What is stored                                                          *)

\* No task and no category comes back, no task changes its owner, and versions grow.
StoreGrows ==
  /\ \A i \in Ids :
       /\ task[i].state # "absent" => task'[i].state # "absent" /\ task'[i].owner = task[i].owner
       /\ task[i].state = "deleted" => task'[i].state = "deleted"
  /\ category.state = "deleted" => category'.state = "deleted"
  /\ category'.version \in Nat /\ category'.version >= category.version

\* Nothing is written.
LEMMA StoreStays ==
  ASSUME CatalogTypeOK, UNCHANGED <<task, category>>
  PROVE  StoreGrows
<1>1. category.version \in Nat
  BY DEF CatalogTypeOK
<1> QED
  BY <1>1 DEF StoreGrows

\* Which steps write tasks.
LEMMA StepGrows ==
  ASSUME CatalogTypeOK, ShapeInv, CreationInv, NEW r \in Requests, Step(r)
  PROVE  /\ StoreGrows
         /\ \A i \in Ids :
              /\ task[i].state = "absent" => task'[i] = task[i] \/ (Commit(r) /\ i = made[r])
              /\ task'[i].state = "deleted" =>
                   \/ task[i].state = "deleted"
                   \/ SaveTask(r) /\ call[r].kind = "remove" /\ call[r].id = i
         /\ Commit(r) \/ (logged' = logged /\ announced' = announced)
<1>1. category.version \in Nat
  BY DEF CatalogTypeOK
<1> DEFINE Goal == /\ StoreGrows
                   /\ \A i \in Ids :
                        /\ task[i].state = "absent" => task'[i] = task[i] \/ (Commit(r) /\ i = made[r])
                        /\ task'[i].state = "deleted" =>
                             \/ task[i].state = "deleted"
                             \/ SaveTask(r) /\ call[r].kind = "remove" /\ call[r].id = i
                   /\ Commit(r) \/ (logged' = logged /\ announced' = announced)
<1>2. SUFFICES Goal
  OBVIOUS
<1>3. CASE Commit(r)
  <2>1. /\ made[r] \in Ids /\ task[made[r]].state = "absent" /\ task'[made[r]].state = "live"
        /\ \A i \in Ids \ {made[r]} : task'[i] = task[i]
    BY <1>3, CommitFrame
  <2>2. category' = category
    BY <1>3 DEF Commit
  <2> QED
    BY <1>1, <1>3, <2>1, <2>2 DEF StoreGrows
<1>4. CASE SaveTask(r)
  <2> DEFINE j == call[r].id
  <2>1. /\ j \in Ids /\ \A i \in Ids : task'[i].owner = task[i].owner
        /\ \A i \in Ids \ {j} : task'[i] = task[i]
        /\ \/ task' = task
           \/ /\ task[j].state = "live"
              /\ task'[j].state = IF call[r].kind = "remove" THEN "deleted" ELSE "live"
    BY <1>4, SaveFrame
  <2>2. category' = category /\ logged' = logged /\ announced' = announced
    BY <1>4 DEF SaveTask
  <2> HIDE DEF j
  <2>3. \A i \in Ids :
          /\ task[i].state # "absent" => task'[i].state # "absent"
          /\ task[i].state = "deleted" => task'[i].state = "deleted"
          /\ task[i].state = "absent" => task'[i] = task[i]
          /\ task'[i].state = "deleted" =>
               task[i].state = "deleted" \/ (call[r].kind = "remove" /\ j = i)
    BY <2>1
  <2> QED
    BY <1>1, <1>4, <2>1, <2>2, <2>3 DEF StoreGrows, j
<1>5. ASSUME task' = task, logged' = logged, announced' = announced,
             category.state = "deleted" => category'.state = "deleted",
             category'.version \in Nat, category'.version >= category.version
      PROVE  Goal
  BY <1>5 DEF StoreGrows
<1> HIDE DEF Goal
<1>6. CASE FileCategory(r) \/ RenameCategory(r) \/ DropCategory(r)
  <2>1. CategoryWritten(r)
    BY <1>6, FileFrame, RenameFrame, DropFrame
  <2>2. /\ category.state = "deleted" => category'.state = "deleted"
        /\ category'.version \in Nat /\ category'.version >= category.version
    BY <1>1, <1>6, FileFrame, RenameFrame, DropFrame
  <2> QED
    BY <2>1, <2>2, <1>5 DEF CategoryWritten
<1>7. CASE /\ Step(r) /\ UNCHANGED <<task, logged, announced, category>>
  BY <1>1, <1>5, <1>7
<1>8. \/ Commit(r) \/ SaveTask(r) \/ FileCategory(r) \/ RenameCategory(r) \/ DropCategory(r)
      \/ UNCHANGED <<task, logged, announced, category>>
  BY DEF Step, CheckFlag, Miss, Hit, Query, Count, SetCached, RegisterKey, Insert, ClearKey,
         ForgetKeys, storeVars
<1> QED
  BY <1>2, <1>3, <1>4, <1>6, <1>7, <1>8

\* Only a creation that begins takes an id.
LEMMA StepMade ==
  ASSUME CatalogTypeOK, ShapeInv, NEW r \in Requests, Step(r)
  PROVE  made' = made \/ Insert(r)
  BY DEF Step, CheckFlag, Miss, Hit, Query, Count, SetCached, RegisterKey, Commit, SaveTask,
         FileCategory, RenameCategory, DropCategory, WriteCategory, ClearKey, ForgetKeys, storeVars

\* A step keeps what is known of the creations.
LEMMA CreationStep ==
  ASSUME CatalogTypeOK, ShapeInv, CreationInv, ValueInv, NEW r \in Requests, Step(r)
  PROVE  CreationInv'
<1>1. Frame(r) /\ Running(r) /\ call[r] # None /\ call' = call
  BY StepFrame DEF Frame
<1>2. /\ made \in [Requests -> Ids \cup {0}] /\ made' \in [Requests -> Ids \cup {0}]
      /\ 0 \notin Ids
  BY <1>1 DEF Frame, CatalogTypeOK, Ids
<1>3. \A q \in Requests \ {r} : Kept(q)
  BY <1>1 DEF Frame
<1>4. logged' = announced' /\ logged' = {i \in Ids : task'[i].state # "absent"}
  <2>1. logged = announced /\ logged = {i \in Ids : task[i].state # "absent"}
    BY DEF CreationInv
  <2>2. CASE Commit(r)
    <3>1. /\ made[r] \in Ids /\ task'[made[r]].state = "live"
          /\ \A i \in Ids \ {made[r]} : task'[i] = task[i]
      BY <2>2, CommitFrame
    <3>2. logged' = logged \cup {made[r]} /\ announced' = announced \cup {made[r]}
      BY <2>2 DEF Commit
    <3> QED
      BY <2>1, <3>1, <3>2
  <2>3. CASE ~ Commit(r)
    <3>1. \A i \in Ids : task[i].state = "absent" <=> task'[i].state = "absent"
      BY <2>3, StepGrows DEF StoreGrows
    <3>2. logged' = logged /\ announced' = announced
      BY <2>3, StepGrows
    <3> QED
      BY <2>1, <3>1, <3>2
  <2> QED
    BY <2>2, <2>3
<1>5. \A p, q \in Requests : made'[p] = made'[q] /\ made'[p] # 0 => p = q
  <2>1. \A p, q \in Requests : made[p] = made[q] /\ made[p] # 0 => p = q
    BY DEF CreationInv
  <2>2. CASE Insert(r)
    <3>1. /\ \A q \in Requests : made[q] # made'[r]
          /\ \A q \in Requests \ {r} : made'[q] = made[q]
      BY <2>2, <1>3, InsertFrame DEF Kept
    <3> QED
      BY <2>1, <3>1
  <2> QED
    BY <2>1, <2>2, StepMade
<1>6. \A q \in Requests : made'[q] # 0 => call'[q] # None /\ call'[q].kind = "create"
  <2>1. \A q \in Requests : made[q] # 0 => call[q] # None /\ call[q].kind = "create"
    BY DEF CreationInv
  <2>2. CASE Insert(r)
    <3>1. call[r].kind = "create"
      BY <2>2, AtAwait DEF Insert, At, AwaitOk
    <3>2. \A q \in Requests \ {r} : made'[q] = made[q]
      BY <1>3 DEF Kept
    <3> QED
      BY <2>1, <3>1, <3>2, <1>1
  <2> QED
    BY <2>1, <2>2, <1>1, StepMade
<1>7. ASSUME NEW q \in Requests, At(q, "commit")'
      PROVE  made'[q] # 0 /\ task'[made'[q]].state = "absent"
  <2>1. First(todo'[q]) = "commit"
    BY <1>7, AtFirst DEF Steps
  <2>2. CASE q = r
    <3>1. Insert(r)
      BY <2>1, <2>2, StepFirst
    <3>2. made'[r] \in Ids /\ task[made'[r]].state = "absent" /\ task' = task
      BY <3>1, InsertFrame DEF Insert
    <3> QED
      BY <2>2, <3>2, <1>2
  <2>3. CASE q # r
    <3>1. todo'[q] = todo[q] /\ made'[q] = made[q]
      BY <2>3, <1>3 DEF Kept, ClientKept
    <3>2. At(q, "commit")
      BY <2>1, <3>1, AtFirst DEF Steps
    <3>3. made[q] # 0 /\ task[made[q]].state = "absent" /\ made[q] \in Ids
      BY <3>2, <1>2 DEF CreationInv
    <3>4. made[q] # made[r]
      BY <2>3, <3>3 DEF CreationInv
    <3>5. task'[made[q]] = task[made[q]]
      BY <3>3, <3>4, StepGrows
    <3> QED
      BY <3>1, <3>3, <3>5
  <2> QED
    BY <2>2, <2>3
<1> QED
  BY <1>4, <1>5, <1>6, <1>7 DEF CreationInv

\* The arrival of a request keeps it.
LEMMA CreationArrive ==
  ASSUME CatalogTypeOK, ShapeInv, CreationInv, NEW r \in Requests, Arrive(r)
  PROVE  CreationInv'
<1>1. /\ call[r] = None /\ First(todo'[r]) # "commit"
      /\ UNCHANGED <<task, logged, announced, made>>
      /\ \A q \in Requests \ {r} : Kept(q)
  BY ArriveFrame DEF storeVars
<1>2. \A q \in Requests : made[q] # 0 => q # r
  BY <1>1 DEF CreationInv
<1>3. \A q \in Requests : made'[q] # 0 => call'[q] # None /\ call'[q].kind = "create"
  BY <1>1, <1>2 DEF CreationInv, Kept
<1>4. ASSUME NEW q \in Requests, At(q, "commit")'
      PROVE  made'[q] # 0 /\ task'[made'[q]].state = "absent"
  <2>1. First(todo'[q]) = "commit"
    BY <1>4, AtFirst DEF Steps
  <2>2. todo'[q] = todo[q]
    BY <2>1, <1>1 DEF Kept, ClientKept
  <2>3. At(q, "commit")
    BY <2>1, <2>2, AtFirst DEF Steps
  <2> QED
    BY <2>3, <1>1 DEF CreationInv
<1> QED
  BY <1>1, <1>3, <1>4 DEF CreationInv

\* An abort keeps it: the id is given up.
LEMMA CreationAbort ==
  ASSUME CatalogTypeOK, ShapeInv, CreationInv, NEW r \in Requests, AbortCreation(r)
  PROVE  CreationInv'
<1>1. /\ Frame(r) /\ todo'[r] = <<"insert", "commit", "clear">> /\ made'[r] = 0 /\ call[r] # None
      /\ call[r].kind = "create" /\ call' = call
  BY AbortFrame DEF Frame
<1>2. UNCHANGED <<task, logged, announced>> /\ \A q \in Requests \ {r} : Kept(q)
  BY <1>1 DEF AbortCreation, Frame
<1>3. \A q \in Requests : made'[q] # 0 => q # r /\ made'[q] = made[q]
  BY <1>1, <1>2 DEF Kept
<1>4. \A p, q \in Requests : made'[p] = made'[q] /\ made'[p] # 0 => p = q
  BY <1>3 DEF CreationInv
<1>5. \A q \in Requests : made'[q] # 0 => call'[q] # None /\ call'[q].kind = "create"
  BY <1>1, <1>3 DEF CreationInv
<1>6. ASSUME NEW q \in Requests, At(q, "commit")'
      PROVE  made'[q] # 0 /\ task'[made'[q]].state = "absent"
  <2>1. First(todo'[q]) = "commit"
    BY <1>6, AtFirst DEF Steps
  <2>2. q # r
    BY <2>1, <1>1, Tuples DEF First
  <2>3. todo'[q] = todo[q] /\ made'[q] = made[q]
    BY <2>2, <1>2 DEF Kept, ClientKept
  <2>4. At(q, "commit")
    BY <2>1, <2>3, AtFirst DEF Steps
  <2> QED
    BY <2>3, <2>4, <1>2 DEF CreationInv
<1>7. logged' = announced' /\ logged' = {i \in Ids : task'[i].state # "absent"}
  BY <1>2 DEF CreationInv
<1> QED
  BY <1>4, <1>5, <1>6, <1>7 DEF CreationInv

\* A failure keeps it.
LEMMA CreationFailed ==
  ASSUME CatalogTypeOK, ShapeInv, CreationInv, NEW S \in SUBSET Requests, Failed(S)
  PROVE  CreationInv'
<1>1. UNCHANGED <<task, logged, announced, made, call>>
  BY DEF Failed, callVars
<1>2. ASSUME NEW q \in Requests, At(q, "commit")'
      PROVE  At(q, "commit")
  <2>1. First(todo'[q]) = "commit"
    BY <1>2, AtFirst DEF Steps
  <2>2. todo'[q] = todo[q]
    BY <2>1 DEF Failed, Kept, ClientKept, First
  <2> QED
    BY <2>1, <2>2, AtFirst DEF Steps
<1> QED
  BY <1>1, <1>2 DEF CreationInv

-------------------------------------------------------------------------------
(* What writes leave behind                                                *)

\* The effect of a write stays.
LEMMA WrittenKept ==
  ASSUME CatalogTypeOK, StoreGrows, NEW w \in Requests, call'[w] = call[w], made'[w] = made[w],
         WellFormed(call[w]), Written(w)
  PROVE  Written(w)'
<1>1. /\ made[w] \in Ids \cup {0} /\ category.version \in Nat
      /\ call[w].version \in Nat /\ (call[w].kind = "remove" => call[w].id \in Ids)
  BY DEF CatalogTypeOK, WellFormed, Calls
<1>2. call[w].kind = "create" =>
        made'[w] # 0 /\ task'[made'[w]].state # "absent" /\ task'[made'[w]].owner = call[w].user
  BY <1>1 DEF Written, StoreGrows
<1>3. call[w].kind = "remove" => task'[call[w].id].state = "deleted"
  BY <1>1 DEF Written, StoreGrows
<1>4. call[w].kind = "drop" => category'.state = "deleted"
  BY DEF Written, StoreGrows
<1>5. call[w].kind = "rename" => category'.version > call[w].version
  <2>1. /\ category'.version \in Nat /\ category'.version >= category.version
        /\ call[w].kind = "rename" => category.version > call[w].version
    BY DEF Written, StoreGrows
  <2> QED
    BY <1>1, <2>1
<1> QED
  BY <1>2, <1>3, <1>4, <1>5 DEF Written

\* Who writes does not finish by finding something.
LEMMA FoundUnwritten ==
  ASSUME CatalogTypeOK, NEW r \in Requests, WellFormed(call[r]), Looking(call[r]), Changing(call[r]),
         NEW v \in Values, Found(r, v)
  PROVE  ~ (verdict'[r] = "ok" /\ todo'[r] \in {<<"clear">>, <<>>})
<1>1. call[r].kind \in {"create", "change", "rename"} /\ call[r].kind \in Kinds \ PageKinds
  BY DEF WellFormed, Calls, Kinds, Looking, Changing, Readers, PageKinds, Paginations
<1>2. \/ todo'[r] = <<>> /\ verdict'[r] = "refused"
      \/ todo'[r] = AfterLookup(call[r].kind)
  BY <1>1, FoundFacts
<1>3. First(AfterLookup(call[r].kind)) \in {"insert", "save", "rename"}
  BY <1>1, AfterLookupLeft, Tuples DEF First
<1>4. First(<<"clear">>) = "clear" /\ First(<<>>) = "end"
  BY Tuples DEF First
<1> QED
  BY <1>2, <1>3, <1>4

\* A write that goes on to clear the cache, or ends well, has had its effect.
LEMMA EffectOfStep ==
  ASSUME CatalogTypeOK, ShapeInv, CreationInv, ValueInv, EffectInv, NEW r \in Requests, Step(r),
         Writes(r), verdict'[r] = "ok", todo'[r] \in {<<"clear">>, <<>>}
  PROVE  Written(r)'
<1>1. Frame(r) /\ Running(r) /\ call[r] # None /\ call' = call
  BY StepFrame DEF Frame
<1>2. /\ WellFormed(call[r]) /\ AwaitOk(call[r], todo[r]) /\ First(todo[r]) = Head(todo[r])
      /\ Changing(call[r])
  BY <1>1, AtAwait DEF Writes, Changing
<1>3. First(<<"clear">>) = "clear" /\ First(<<>>) = "end" /\ First(<<"commit", "clear">>) = "commit"
  BY Tuples DEF First
<1>4. First(todo'[r]) \in {"clear", "end"}
  BY <1>3
<1>5. CASE CheckFlag(r)
  <2>1. call[r].kind \in Paginations
    BY <1>2, <1>5 DEF CheckFlag, At, AwaitOk
  <2> QED
    BY <1>2, <2>1 DEF Changing, Readers, Paginations
<1>6. CASE Miss(r)
  <2>1. First(todo'[r]) = "query"
    BY <1>2, <1>6, MissFrame DEF Miss, At, AwaitOk
  <2> QED
    BY <1>4, <2>1
<1>7. CASE Hit(r)
  <2>1. Looking(call[r]) /\ Found(r, cache[KeyOf(r)]) /\ cache[KeyOf(r)] \in Values
    BY <1>7, HitFrame, LookupFacts DEF Hit
  <2> QED
    BY <1>2, <2>1, FoundUnwritten
<1>8. CASE Query(r)
  <2>1. Looking(call[r]) /\ Queried(r) \in Values
    BY <1>8, QueryFrame, LookupFacts DEF Query
  <2>2. ~ Found(r, Queried(r))
    BY <1>2, <2>1, FoundUnwritten
  <2>3. todo'[r] = Tail(todo[r])
    BY <1>8, <2>2, QueryFrame
  <2>4. First(todo'[r]) \in {"count", "set"}
    BY <1>2, <1>8, <2>3 DEF Query, At, AwaitOk
  <2> QED
    BY <1>4, <2>4
<1>9. CASE Count(r)
  <2>1. First(todo'[r]) = "set"
    BY <1>2, <1>9, CountFrame DEF Count, At, AwaitOk
  <2> QED
    BY <1>4, <2>1
<1>10. CASE SetCached(r)
  <2>1. First(todo'[r]) = "register"
    BY <1>2, <1>10, SetFrame DEF SetCached, At, AwaitOk
  <2> QED
    BY <1>4, <2>1
<1>11. CASE RegisterKey(r)
  <2>1. Looking(call[r]) /\ Found(r, reading[r]) /\ reading[r] \in Values
    BY <1>11, RegisterFrame, LookupFacts DEF RegisterKey
  <2> QED
    BY <1>2, <2>1, FoundUnwritten
<1>12. CASE Insert(r)
  <2>1. todo'[r] = <<"commit", "clear">>
    BY <1>2, <1>12, InsertFrame DEF Insert, At, AwaitOk
  <2> QED
    BY <1>3, <1>4, <2>1
<1>13. CASE Commit(r)
  <2>1. /\ made[r] \in Ids /\ task'[made[r]].state = "live" /\ task'[made[r]].owner = call[r].user
    BY <1>13, CommitFrame
  <2>2. call[r].kind = "create" /\ made' = made /\ 0 \notin Ids
    BY <1>2, <1>13 DEF Commit, At, AwaitOk, Ids
  <2> QED
    BY <2>1, <2>2, <1>1 DEF Written
<1>14. CASE SaveTask(r)
  <2>1. /\ call[r].kind \in {"change", "remove"}
        /\ task'[call[r].id].state = IF call[r].kind = "remove" THEN "deleted" ELSE "live"
    BY <1>14, SaveFrame
  <2> QED
    BY <2>1, <1>1 DEF Written
<1>15. CASE FileCategory(r)
  BY <1>1, <1>15, FileFrame DEF Written
<1>16. CASE RenameCategory(r)
  <2>1. call[r].kind = "rename" /\ category'.version = category.version + 1 /\ category.version = call[r].version
    BY <1>16, RenameFrame
  <2>2. category.version \in Nat
    BY DEF CatalogTypeOK
  <2> QED
    BY <2>1, <2>2, <1>1 DEF Written
<1>17. CASE DropCategory(r)
  BY <1>1, <1>17, DropFrame DEF Written
<1>18. CASE ClearKey(r) \/ ForgetKeys(r)
  <2>1. UNCHANGED <<storeVars, verdict>> /\ todo[r] = <<"clear">>
    BY <1>18, ClearFrame, ForgetFrame DEF ClearKey, ForgetKeys
  <2>2. Written(r)
    BY <2>1 DEF EffectInv
  <2> QED
    BY <2>1, <2>2, <1>1 DEF Written, storeVars
<1> QED
  BY <1>5, <1>6, <1>7, <1>8, <1>9, <1>10, <1>11, <1>12, <1>13, <1>14, <1>15, <1>16, <1>17, <1>18 DEF Step

\* A step keeps what is known of the writes.
LEMMA EffectStep ==
  ASSUME CatalogTypeOK, ShapeInv, CreationInv, ValueInv, EffectInv, NEW r \in Requests, Step(r)
  PROVE  EffectInv'
<1>1. Frame(r) /\ call' = call /\ \A q \in Requests \ {r} : Kept(q)
  BY StepFrame DEF Frame
<1>2. StoreGrows
  BY StepGrows
<1>3. ASSUME NEW w \in Requests, Writes(w)', verdict'[w] = "ok", todo'[w] \in {<<"clear">>, <<>>}
      PROVE  Written(w)'
  <2>1. Writes(w)
    BY <1>1, <1>3 DEF Writes
  <2>2. CASE w = r
    BY <2>1, <2>2, <1>3, EffectOfStep
  <2>3. CASE w # r
    <3>1. Kept(w)
      BY <2>3, <1>1
    <3>2. Written(w)
      BY <2>1, <3>1, <1>3 DEF EffectInv, Kept, ClientKept
    <3>3. WellFormed(call[w])
      BY <2>1 DEF Writes, ShapeInv, RequestInv
    <3> QED
      BY <3>1, <3>2, <3>3, <1>2, WrittenKept DEF Kept
  <2> QED
    BY <2>2, <2>3
<1>4. ASSUME NEW i \in Ids, task'[i].state = "deleted"
      PROVE  Gone(i)'
  <2>1. CASE task[i].state = "deleted"
    BY <2>1, <1>1 DEF EffectInv, Gone
  <2>2. CASE call[r].kind = "remove" /\ call[r].id = i
    <3>1. call[r] # None
      BY StepFrame
    <3> QED
      BY <2>2, <3>1, <1>1 DEF Gone
  <2> QED
    BY <2>1, <2>2, <1>4, StepGrows
<1> QED
  BY <1>3, <1>4 DEF EffectInv

\* Where no task is written, and those who change have not ended well.
LEMMA EffectOthers ==
  ASSUME CatalogTypeOK, ShapeInv, EffectInv, UNCHANGED <<task, category>>,
         \A q \in Requests : call[q] # None => call'[q] = call[q],
         \A q \in Requests : Kept(q) \/ verdict'[q] # "ok" \/ todo'[q] \notin {<<"clear">>, <<>>}
  PROVE  EffectInv'
<1>1. StoreGrows
  BY StoreStays
<1>2. ASSUME NEW w \in Requests, Writes(w)', verdict'[w] = "ok", todo'[w] \in {<<"clear">>, <<>>}
      PROVE  Written(w)'
  <2>1. Kept(w)
    BY <1>2
  <2>2. Writes(w) /\ Written(w)
    BY <2>1, <1>2 DEF EffectInv, Kept, ClientKept, Writes
  <2>3. WellFormed(call[w])
    BY <2>2 DEF Writes, ShapeInv, RequestInv
  <2> QED
    BY <2>1, <2>2, <2>3, <1>1, WrittenKept DEF Kept
<1>3. ASSUME NEW i \in Ids, task'[i].state = "deleted"
      PROVE  Gone(i)'
  <2>1. Gone(i)
    BY <1>3 DEF EffectInv
  <2> QED
    BY <2>1 DEF Gone
<1> QED
  BY <1>2, <1>3 DEF EffectInv

LEMMA EffectArrive ==
  ASSUME CatalogTypeOK, ShapeInv, EffectInv, NEW r \in Requests, Arrive(r)
  PROVE  EffectInv'
<1>1. /\ call[r] = None /\ UNCHANGED storeVars /\ \A q \in Requests \ {r} : Kept(q)
      /\ First(todo'[r]) \in {"flag", "get", "insert", "save", "file", "drop"}
  BY ArriveFrame
<1>2. First(<<"clear">>) = "clear" /\ First(<<>>) = "end"
  BY Tuples DEF First
<1>3. todo'[r] \notin {<<"clear">>, <<>>}
  BY <1>1, <1>2
<1> QED
  BY <1>1, <1>3, EffectOthers DEF storeVars, Kept

LEMMA EffectAbort ==
  ASSUME CatalogTypeOK, ShapeInv, EffectInv, NEW r \in Requests, AbortCreation(r)
  PROVE  EffectInv'
<1>1. Frame(r) /\ todo'[r] = <<"insert", "commit", "clear">> /\ UNCHANGED <<task, category>>
  BY AbortFrame DEF AbortCreation
<1>2. First(<<"clear">>) = "clear" /\ First(<<>>) = "end" /\ First(todo'[r]) = "insert"
  BY <1>1, Tuples DEF First
<1>3. todo'[r] \notin {<<"clear">>, <<>>}
  BY <1>2
<1> QED
  BY <1>1, <1>3, EffectOthers DEF Frame

LEMMA EffectFailed ==
  ASSUME CatalogTypeOK, ShapeInv, EffectInv, NEW S \in SUBSET Requests, Failed(S)
  PROVE  EffectInv'
  BY EffectOthers DEF Failed, callVars

-------------------------------------------------------------------------------
(* What is cached and what is read                                         *)

\* What belongs to a user goes on belonging to him.
LEMMA OwnedKept ==
  ASSUME StoreGrows, NEW u, NEW v \in Values, OwnedBy(u, v)
  PROVE  OwnedBy(u, v)'
<1>1. /\ \A n \in DOMAIN v.data : v.data[n] \in Ids
      /\ \A e \in v.ever : e.id \in Ids
  BY DEF Values, Entries
<1> QED
  BY <1>1 DEF OwnedBy, StoreGrows

LEMMA SoundKept ==
  ASSUME StoreGrows, NEW k, NEW v, Sound(k, v)
  PROVE  Sound(k, v)'
<1>1. v \in Values
  BY DEF Sound
<1>2. k.user \notin Admins => OwnedBy(k.user, v)'
  BY <1>1, OwnedKept DEF Sound
<1> QED
  BY <1>2 DEF Sound

LEMMA WholeKept ==
  ASSUME StoreGrows, NEW k, NEW v, Whole(k, v)
  PROVE  Whole(k, v)'
<1>1. Sound(k, v)'
  BY SoundKept DEF Whole
<1> QED
  BY <1>1 DEF Whole

\* The key of a request changes only when it asks for another page.
LEMMA KeyKept ==
  ASSUME NEW r \in Requests, call'[r] = call[r], place'[r] = place[r]
  PROVE  KeyOf(r)' = KeyOf(r)
  BY DEF KeyOf

\* What a step does to the cache.
LEMMA StepCache ==
  ASSUME CatalogTypeOK, ShapeInv, NEW r \in Requests, Step(r), NEW k \in Keys
  PROVE  \/ cache'[k] = cache[k]
         \/ cache'[k] = None
         \/ SetCached(r) /\ k = KeyOf(r) /\ cache'[k] = reading[r]
<1>1. CASE Miss(r)
  BY <1>1, MissFrame
<1>2. CASE SetCached(r)
  BY <1>2, SetFrame
<1>3. CASE ClearKey(r)
  BY <1>3, ClearFrame
<1>4. Miss(r) \/ SetCached(r) \/ ClearKey(r) \/ cache' = cache
  BY DEF Step, CheckFlag, Hit, Query, Count, RegisterKey, Insert, Commit, SaveTask,
         FileCategory, RenameCategory, DropCategory, WriteCategory, ForgetKeys, cacheVars
<1> QED
  BY <1>1, <1>2, <1>3, <1>4

\* What r has read is what its key stands for.
LEMMA ReadingKept ==
  ASSUME StoreGrows, NEW q \in Requests, Kept(q), ReadingInv(q)
  PROVE  ReadingInv(q)'
<1>1. KeyOf(q)' = KeyOf(q) /\ reading'[q] = reading[q] /\ todo'[q] = todo[q]
  BY KeyKept DEF Kept, ClientKept
<1>2. PICK k, v : k = KeyOf(q) /\ v = reading[q]
  OBVIOUS
<1>3. KeyOf(q)' = k /\ reading'[q] = v
  BY <1>1, <1>2
<1>4. /\ At(q, "count")' => At(q, "count")
      /\ (At(q, "set") \/ At(q, "register"))' => At(q, "set") \/ At(q, "register")
  BY <1>1 DEF At, Running
<1>5. Sound(k, v) => Sound(k, v)'
  BY SoundKept
<1>6. Whole(k, v) => Whole(k, v)'
  BY WholeKept
<1>7. Sound(k, v)' => Sound(KeyOf(q), reading[q])'
  BY <1>3
<1>8. Whole(k, v)' => Whole(KeyOf(q), reading[q])'
  BY <1>3
<1> QED
  BY <1>2, <1>4, <1>5, <1>6, <1>7, <1>8 DEF ReadingInv

\* What r reads itself.
LEMMA ReadingOfStep ==
  ASSUME CatalogTypeOK, ShapeInv, CreationInv, ValueInv, NEW r \in Requests, Step(r)
  PROVE  ReadingInv(r)'
<1>1. StoreGrows /\ Frame(r)
  BY StepGrows, StepFrame
<1>2. SUFFICES ASSUME First(todo'[r]) \in {"count", "set", "register"}
               PROVE  /\ First(todo'[r]) = "count" => Sound(KeyOf(r), reading[r])'
                      /\ First(todo'[r]) # "count" => Whole(KeyOf(r), reading[r])'
  BY AtFirst DEF ReadingInv, Steps
<1>3. KeyOf(r)' = KeyOf(r)
  BY <1>1, <1>2, StepFirst, KeyKept DEF Frame
<1>4. PICK k, v : k = KeyOf(r) /\ v = reading'[r]
  OBVIOUS
<1>5. KeyOf(r)' = k /\ reading'[r] = v
  BY <1>3, <1>4
<1>6. /\ First(todo'[r]) = "count" => Sound(k, v)
      /\ First(todo'[r]) # "count" => Whole(k, v)
  <2>1. CASE Query(r) /\ reading'[r] = Queried(r)
    <3>1. /\ WellFormed(call[r]) /\ Looking(call[r])
          /\ call[r].kind = "offset" => place[r] >= 1
      BY <2>1, LookupFacts DEF Query
    <3>2. /\ Sound(KeyOf(r), Queried(r))
          /\ call[r].kind # "offset" => Whole(KeyOf(r), Queried(r))
      BY <3>1, QueriedFacts
    <3>3. First(todo'[r]) = IF call[r].kind = "offset" THEN "count" ELSE "set"
      <4>1. /\ ~ Unordered(r) \/ First(todo'[r]) # "end"
            /\ At(r, "query")
        BY <1>2, <2>1 DEF Query
      <4>2. AwaitOk(call[r], todo[r]) /\ First(todo[r]) = "query"
        BY <4>1, LookupFacts
      <4>3. todo'[r] = Tail(todo[r])
        <5>1. todo'[r] # <<>>
          BY <1>2 DEF First
        <5>2. ~ Found(r, Queried(r))
          BY <1>2, <3>1, <2>1, QueryFrame, FoundFirst
        <5> QED
          BY <5>1, <5>2, <2>1, QueryFrame
      <4> QED
        BY <4>2, <4>3 DEF AwaitOk
    <3> QED
      BY <2>1, <3>2, <3>3, <1>4
  <2>2. CASE Count(r)
    <3>1. Whole(KeyOf(r), reading'[r])
      BY <2>2, CountFrame
    <3> QED
      BY <3>1, <1>4 DEF Whole
  <2>3. CASE SetCached(r)
    <3>1. Whole(KeyOf(r), reading[r]) /\ reading' = reading
      BY <2>3 DEF ValueInv, ReadingInv, SetCached, clientVars
    <3> QED
      BY <3>1, <1>4 DEF Whole
  <2> QED
    BY <1>2, <2>1, <2>2, <2>3, StepFirst
<1>7. /\ First(todo'[r]) = "count" => Sound(k, v)'
      /\ First(todo'[r]) # "count" => Whole(k, v)'
  BY <1>1, <1>6, SoundKept, WholeKept
<1>8. (Sound(k, v)' => Sound(KeyOf(r), reading[r])') /\ (Whole(k, v)' => Whole(KeyOf(r), reading[r])')
  BY <1>5
<1> QED
  BY <1>7, <1>8

\* A step keeps the cache and what is read right.
LEMMA ValueStep ==
  ASSUME CatalogTypeOK, ShapeInv, CreationInv, ValueInv, NEW r \in Requests, Step(r)
  PROVE  ValueInv'
<1>1. StoreGrows /\ Frame(r)
  BY StepGrows, StepFrame
<1>2. ASSUME NEW k \in Keys, cache'[k] # None
      PROVE  Whole(k, cache[k])'
  <2>1. PICK v : v = cache'[k]
    OBVIOUS
  <2>2. Whole(k, v)
    <3>1. CASE cache'[k] = cache[k]
      BY <2>1, <3>1, <1>2 DEF ValueInv, ReadingInv
    <3>2. CASE SetCached(r) /\ k = KeyOf(r) /\ cache'[k] = reading[r]
      BY <2>1, <3>2 DEF ValueInv, ReadingInv, SetCached
    <3> QED
      BY <3>1, <3>2, <1>2, StepCache
  <2>3. Whole(k, v)'
    BY <1>1, <2>2, WholeKept
  <2> QED
    BY <2>1, <2>3
<1>3. ASSUME NEW q \in Requests
      PROVE  ReadingInv(q)'
  <2>1. CASE q = r
    BY <2>1, ReadingOfStep
  <2>2. CASE q # r
    <3>1. Kept(q) /\ ReadingInv(q)
      BY <2>2, <1>1 DEF Frame, ValueInv, ReadingInv
    <3> QED
      BY <3>1, <1>1, ReadingKept
  <2> QED
    BY <2>1, <2>2
<1> QED
  BY <1>2, <1>3 DEF ValueInv, ReadingInv

\* Where nothing is written or cached.
LEMMA ValueOthers ==
  ASSUME CatalogTypeOK, ValueInv, UNCHANGED <<task, category, cache>>,
         \A q \in Requests : Kept(q) \/ First(todo'[q]) \notin {"count", "set", "register"}
  PROVE  ValueInv'
<1>1. StoreGrows
  BY StoreStays
<1>2. ASSUME NEW k \in Keys, cache'[k] # None
      PROVE  Whole(k, cache[k])'
  <2>1. PICK v : v = cache'[k]
    OBVIOUS
  <2>2. Whole(k, v)
    BY <2>1, <1>2 DEF ValueInv, ReadingInv
  <2>3. Whole(k, v)'
    BY <1>1, <2>2, WholeKept
  <2> QED
    BY <2>1, <2>3
<1>3. ASSUME NEW q \in Requests
      PROVE  ReadingInv(q)'
  <2>1. CASE Kept(q)
    <3>1. ReadingInv(q)
      BY DEF ValueInv, ReadingInv
    <3> QED
      BY <2>1, <3>1, <1>1, ReadingKept
  <2>2. CASE First(todo'[q]) \notin {"count", "set", "register"}
    BY <2>2, AtFirst DEF ReadingInv, Steps
  <2> QED
    BY <2>1, <2>2
<1> QED
  BY <1>2, <1>3 DEF ValueInv, ReadingInv

LEMMA ValueArrive ==
  ASSUME CatalogTypeOK, ShapeInv, ValueInv, NEW r \in Requests, Arrive(r)
  PROVE  ValueInv'
<1>1. /\ UNCHANGED <<storeVars, cacheVars>> /\ \A q \in Requests \ {r} : Kept(q)
      /\ First(todo'[r]) \in {"flag", "get", "insert", "save", "file", "drop"}
  BY ArriveFrame
<1> QED
  BY <1>1, ValueOthers DEF storeVars, cacheVars

LEMMA ValueAbort ==
  ASSUME CatalogTypeOK, ShapeInv, ValueInv, NEW r \in Requests, AbortCreation(r)
  PROVE  ValueInv'
<1>1. /\ Frame(r) /\ todo'[r] = <<"insert", "commit", "clear">> /\ UNCHANGED <<task, category, cache>>
  BY AbortFrame DEF AbortCreation, cacheVars
<1>2. First(todo'[r]) = "insert"
  BY <1>1, Tuples DEF First
<1> QED
  BY <1>1, <1>2, ValueOthers DEF Frame

LEMMA ValueFailed ==
  ASSUME CatalogTypeOK, ShapeInv, ValueInv, NEW S \in SUBSET Requests, Failed(S)
  PROVE  ValueInv'
<1>1. \A q \in S : First(todo'[q]) = "end"
  BY DEF Failed, First
<1> QED
  BY <1>1, ValueOthers DEF Failed

-------------------------------------------------------------------------------
(* What clients have been shown                                            *)

\* The elements of two sequences, one after the other.
LEMMA Appended ==
  ASSUME NEW S, NEW s \in Seq(S), NEW t \in Seq(S)
  PROVE  /\ s \o t \in Seq(S) /\ Len(s \o t) = Len(s) + Len(t)
         /\ \A n \in 1 .. Len(s) : (s \o t)[n] = s[n]
         /\ \A n \in 1 .. Len(t) : (s \o t)[Len(s) + n] = t[n]
         /\ \A n \in 1 .. Len(s \o t) : n \in 1 .. Len(s) \/ n - Len(s) \in 1 .. Len(t)
  OBVIOUS

\* One page more of a walk with cursors.
LEMMA CursorFollows ==
  ASSUME NEW p \in Nat, NEW s \in Seq(Ids), NEW v \in Values,
         NEW S \in SUBSET Entries, NEW T \in SUBSET Entries, Rising(s),
         \A n \in DOMAIN s : s[n] <= p /\ \E e \in T : e.id = s[n],
         \A e \in S : e.id <= p => \E n \in DOMAIN s : s[n] = e.id,
         CursorOk(p, v)
  PROVE  LET t == s \o v.data
         IN /\ Rising(t)
            /\ \A n \in DOMAIN t : /\ v.next # 0 => t[n] <= v.next
                                   /\ \E e \in T \cup v.ever : e.id = t[n]
            /\ \A e \in S \cap v.steady :
                 (v.next # 0 => e.id <= v.next) => \E n \in DOMAIN t : t[n] = e.id
<1> DEFINE d == v.data
           t == s \o d
<1>1. /\ d \in Seq(Ids) /\ v.next \in Nat /\ Ids \subseteq Nat
      /\ \A e \in Entries : e.id \in Ids
  BY CatalogAssumption DEF Values, Ids, Entries
<1> HIDE DEF d
<1>2. /\ t \in Seq(Ids) /\ Len(t) = Len(s) + Len(d)
      /\ \A n \in 1 .. Len(s) : t[n] = s[n]
      /\ \A n \in 1 .. Len(d) : t[Len(s) + n] = d[n]
      /\ \A n \in 1 .. Len(t) : n \in 1 .. Len(s) \/ n - Len(s) \in 1 .. Len(d)
  BY <1>1, Appended
<1>3. /\ DOMAIN t = 1 .. Len(t) /\ DOMAIN s = 1 .. Len(s) /\ DOMAIN d = 1 .. Len(d)
      /\ Len(s) \in Nat /\ Len(d) \in Nat /\ Len(t) \in Nat
  BY <1>1, <1>2
<1> HIDE DEF t
<1>4. \A n \in 1 .. Len(t) : \/ n \in 1 .. Len(s) /\ t[n] = s[n]
                             \/ /\ n \notin 1 .. Len(s) /\ n - Len(s) \in 1 .. Len(d)
                                /\ t[n] = d[n - Len(s)]
  <2> SUFFICES ASSUME NEW n \in 1 .. Len(t), n \notin 1 .. Len(s)
               PROVE  n - Len(s) \in 1 .. Len(d) /\ t[n] = d[n - Len(s)]
    BY <1>2
  <2>1. n - Len(s) \in 1 .. Len(d) /\ Len(s) + (n - Len(s)) = n
    BY <1>2, <1>3
  <2> QED
    BY <2>1, <1>2
<1>5. /\ \A m, n \in 1 .. Len(d) : m < n => d[m] < d[n]
      /\ \A n \in 1 .. Len(d) : /\ d[n] > p /\ (v.next # 0 => d[n] <= v.next)
                                /\ \E e \in v.ever : e.id = d[n]
      /\ \A e \in v.steady :
           e.id > p /\ (v.next = 0 \/ e.id <= v.next) => \E n \in 1 .. Len(d) : d[n] = e.id
      /\ v.next # 0 => p < v.next
  BY <1>3 DEF CursorOk, Rising, d
<1>6. /\ \A n \in 1 .. Len(s) : s[n] \in Nat /\ s[n] <= p /\ \E e \in T : e.id = s[n]
      /\ \A m, n \in 1 .. Len(s) : m < n => s[m] < s[n]
      /\ \A n \in 1 .. Len(d) : d[n] \in Nat
  <2>1. \A n \in 1 .. Len(s) : s[n] \in Ids
    OBVIOUS
  <2>2. \A n \in 1 .. Len(d) : d[n] \in Ids
    BY ONLY <1>1
  <2>3. \A m, n \in 1 .. Len(s) : m < n => s[m] < s[n]
    BY <1>3, Zenon DEF Rising
  <2>4. \A n \in 1 .. Len(s) : s[n] <= p /\ \E e \in T : e.id = s[n]
    BY <1>3, Zenon
  <2>5. \A n \in Ids : n \in Nat
    BY <1>1, Zenon
  <2> QED
    BY ONLY <2>1, <2>2, <2>3, <2>4, <2>5, Zenon
<1>7. Rising(t)
  <2> SUFFICES ASSUME NEW m \in 1 .. Len(t), NEW n \in 1 .. Len(t), m < n
               PROVE  t[m] < t[n]
    BY <1>3 DEF Rising
  <2>1. CASE n \in 1 .. Len(s)
    <3>1. m \in 1 .. Len(s)
      BY <2>1, <1>3
    <3> QED
      BY <2>1, <3>1, <1>2, <1>6
  <2>2. CASE n \notin 1 .. Len(s) /\ m \in 1 .. Len(s)
    <3>1. t[n] \in Nat /\ t[n] > p
      BY <2>2, <1>4, <1>5, <1>6
    <3>2. t[m] \in Nat /\ t[m] <= p
      BY <2>2, <1>4, <1>6
    <3> QED
      BY <3>1, <3>2
  <2>3. CASE n \notin 1 .. Len(s) /\ m \notin 1 .. Len(s)
    <3>1. /\ n - Len(s) \in 1 .. Len(d) /\ t[n] = d[n - Len(s)]
          /\ m - Len(s) \in 1 .. Len(d) /\ t[m] = d[m - Len(s)]
      BY <2>3, <1>4
    <3>2. m - Len(s) < n - Len(s)
      BY <1>3
    <3> QED
      BY <3>1, <3>2, <1>5
  <2> QED
    BY <2>1, <2>2, <2>3
<1>8. ASSUME NEW n \in 1 .. Len(t)
      PROVE  (v.next # 0 => t[n] <= v.next) /\ \E e \in T \cup v.ever : e.id = t[n]
  <2>1. CASE n \in 1 .. Len(s) /\ t[n] = s[n]
    <3>1. t[n] \in Nat /\ t[n] <= p /\ \E e \in T : e.id = t[n]
      BY <2>1, <1>6
    <3> QED
      BY <3>1, <1>1, <1>5
  <2>2. CASE n - Len(s) \in 1 .. Len(d) /\ t[n] = d[n - Len(s)]
    BY <2>2, <1>5
  <2> QED
    BY <2>1, <2>2, <1>4
<1>9. ASSUME NEW e \in S \cap v.steady, v.next # 0 => e.id <= v.next
      PROVE  \E n \in 1 .. Len(t) : t[n] = e.id
  <2>1. e.id \in Nat
    BY <1>1
  <2>2. CASE e.id <= p
    <3>1. PICK n \in 1 .. Len(s) : s[n] = e.id
      BY <2>2, <1>3
    <3>2. n \in 1 .. Len(t) /\ t[n] = s[n]
      BY <1>2, <1>3
    <3> QED
      BY <3>1, <3>2
  <2>3. CASE ~ (e.id <= p)
    <3>1. e.id > p
      BY <2>1, <2>3
    <3>2. PICK n \in 1 .. Len(d) : d[n] = e.id
      BY <3>1, <1>5, <1>9
    <3>3. Len(s) + n \in 1 .. Len(t) /\ t[Len(s) + n] = d[n]
      BY <1>2, <1>3
    <3> QED
      BY <3>2, <3>3
  <2> QED
    BY <2>2, <2>3
<1> QED
  BY <1>3, <1>7, <1>8, <1>9 DEF t, d

\* One page more of a walk with page numbers, if the list was the same all the time.
LEMMA OffsetFollows ==
  ASSUME NEW p \in Nat, p >= 1, NEW q, NEW s \in Seq(Ids), NEW v \in Values, NEW E \in SUBSET Entries,
         v.ever = E, v.steady = E, Follow(q, E, 0, s), Len(s) = (p - 1) * PageSize,
         Len(s) = 0 \/ Len(s) < Cardinality(E), OffsetOk(q, p, v), OffsetNextOk(p, v)
  PROVE  LET t == s \o v.data
         IN /\ OneEach(E) /\ Follow(q, E, 0, t)
            /\ v.next # 0 => Len(t) = (v.next - 1) * PageSize /\ Len(t) < Cardinality(E)
            /\ v.next = 0 => Len(t) = Cardinality(E)
<1> DEFINE d == v.data
           t == s \o d
           k == (p - 1) * PageSize
           N == Cardinality(E)
<1>1. d \in Seq(Ids)
  BY DEF Values
<1>2. N \in Nat /\ k \in Nat /\ PageSize \in Nat /\ PageSize > 0
  <2>1. IsFiniteSet(E)
    BY EntriesFinite, FS_Subset
  <2> QED
    BY <2>1, FS_CardinalityType, PageStart, CatalogAssumption
<1>3. /\ OneEach(E) /\ Follow(q, E, k, d)
      /\ Len(d) = IF k + PageSize < N THEN PageSize ELSE IF k < N THEN N - k ELSE 0
      /\ v.next = IF k + PageSize < N THEN p + 1 ELSE 0
  BY DEF OffsetOk, OffsetNextOk
<1>4. p * PageSize = k + PageSize
  BY PageStart
<1>5. Len(s) = k
  OBVIOUS
<1> HIDE DEF d, k, N
<1>6. /\ t \in Seq(Ids) /\ Len(t) = Len(s) + Len(d)
      /\ \A n \in 1 .. Len(s) : t[n] = s[n]
      /\ \A n \in 1 .. Len(d) : t[Len(s) + n] = d[n]
      /\ \A n \in 1 .. Len(t) : n \in 1 .. Len(s) \/ n - Len(s) \in 1 .. Len(d)
  BY <1>1, Appended
<1>7. /\ DOMAIN t = 1 .. Len(t) /\ DOMAIN s = 1 .. Len(s) /\ DOMAIN d = 1 .. Len(d)
      /\ Len(s) \in Nat /\ Len(d) \in Nat /\ Len(t) \in Nat
  BY <1>1, <1>6
<1> HIDE DEF t
<1>8. Follow(q, E, 0, t)
  <2> SUFFICES ASSUME NEW n \in 1 .. Len(t)
               PROVE  \E e \in E : e.id = t[n] /\ Rank(q, E, e) = 0 + n - 1
    BY <1>7 DEF Follow
  <2>1. CASE n \in 1 .. Len(s)
    <3>1. \E e \in E : e.id = s[n] /\ Rank(q, E, e) = 0 + n - 1
      BY <2>1, <1>7 DEF Follow
    <3> QED
      BY <2>1, <3>1, <1>6
  <2>2. CASE n \notin 1 .. Len(s)
    <3> DEFINE m == n - Len(s)
    <3>1. m \in 1 .. Len(d) /\ Len(s) + m = n /\ k + m - 1 = 0 + n - 1
      BY <2>2, <1>5, <1>6, <1>7
    <3> HIDE DEF m
    <3>2. t[n] = d[m]
      BY <3>1, <1>6
    <3>3. \E e \in E : e.id = d[m] /\ Rank(q, E, e) = k + m - 1
      BY <3>1, <1>3, <1>7 DEF Follow
    <3> QED
      BY <3>1, <3>2, <3>3
  <2> QED
    BY <2>1, <2>2
<1>9. v.next # 0 => Len(t) = (v.next - 1) * PageSize /\ Len(t) < N
  <2> SUFFICES ASSUME v.next # 0
               PROVE  Len(t) = (v.next - 1) * PageSize /\ Len(t) < N
    OBVIOUS
  <2>1. k + PageSize < N /\ v.next = p + 1 /\ Len(d) = PageSize
    BY <1>3
  <2>2. v.next - 1 = p
    BY <2>1
  <2> QED
    BY <2>1, <2>2, <1>2, <1>4, <1>5, <1>6
<1>10. v.next = 0 => Len(t) = N
  <2>1. v.next = 0 => ~ (k + PageSize < N)
    BY <1>3
  <2>2. k = 0 \/ k < N
    BY <1>5 DEF N
  <2>3. ~ (k + PageSize < N) => Len(d) = IF k < N THEN N - k ELSE 0
    BY <1>3
  <2> QED
    BY <2>1, <2>2, <2>3, <1>2, <1>5, <1>6
<1> QED
  BY <1>3, <1>8, <1>9, <1>10 DEF t, d, N

-------------------------------------------------------------------------------
(* What clients are shown                                                  *)

\* The entries and the tasks of u.
ShownOwned(u, s, E) ==
  /\ \A n \in DOMAIN s : task[s[n]].state # "absent" /\ task[s[n]].owner = u
  /\ \A e \in E : task[e.id].state # "absent" /\ task[e.id].owner = u

LEMMA PageOwned ==
  ASSUME NEW u, NEW s \in Seq(Ids), NEW E, NEW v \in Values, ShownOwned(u, s, E), OwnedBy(u, v)
  PROVE  ShownOwned(u, s \o v.data, E \cup v.ever)
<1> DEFINE d == v.data
           t == s \o d
<1>1. d \in Seq(Ids)
  BY DEF Values
<1> HIDE DEF d
<1>2. /\ t \in Seq(Ids)
      /\ \A n \in 1 .. Len(s) : t[n] = s[n]
      /\ \A n \in 1 .. Len(d) : t[Len(s) + n] = d[n]
      /\ \A n \in 1 .. Len(t) : n \in 1 .. Len(s) \/ n - Len(s) \in 1 .. Len(d)
  BY <1>1, Appended
<1>3. /\ DOMAIN t = 1 .. Len(t) /\ DOMAIN s = 1 .. Len(s) /\ DOMAIN d = 1 .. Len(d)
      /\ Len(s) \in Nat
  BY <1>1, <1>2
<1> HIDE DEF t
<1>4. /\ \A n \in 1 .. Len(s) : task[s[n]].state # "absent" /\ task[s[n]].owner = u
      /\ \A n \in 1 .. Len(d) : task[d[n]].state # "absent" /\ task[d[n]].owner = u
      /\ \A e \in E \cup v.ever : task[e.id].state # "absent" /\ task[e.id].owner = u
  BY <1>3 DEF ShownOwned, OwnedBy, d
<1>5. ASSUME NEW n \in 1 .. Len(t)
      PROVE  task[t[n]].state # "absent" /\ task[t[n]].owner = u
  <2>1. CASE n \in 1 .. Len(s)
    BY <2>1, <1>2, <1>4
  <2>2. CASE n - Len(s) \in 1 .. Len(d)
    <3>1. Len(s) + (n - Len(s)) = n
      BY <1>3
    <3>2. t[n] = d[n - Len(s)]
      BY <3>1, <2>2, <1>2
    <3> QED
      BY <3>2, <2>2, <1>4
  <2> QED
    BY <2>1, <2>2, <1>2
<1> QED
  BY <1>3, <1>4, <1>5 DEF ShownOwned, t, d

LEMMA ShownOwnedKept ==
  ASSUME StoreGrows, NEW u, NEW s \in Seq(Ids), NEW E \in SUBSET Entries, ShownOwned(u, s, E)
  PROVE  ShownOwned(u, s, E)'
<1>1. \A n \in DOMAIN s : s[n] \in Ids
  OBVIOUS
<1>2. \A e \in E : e.id \in Ids
  BY DEF Entries
<1> QED
  BY <1>1, <1>2 DEF ShownOwned, StoreGrows

\* What a client has been shown stays its own.
LEMMA ClientOwnedStays ==
  ASSUME CatalogTypeOK, StoreGrows, NEW r \in Requests, call'[r] = call[r], shown'[r] = shown[r],
         ever'[r] = ever[r], ClientOwned(r)
  PROVE  ClientOwned(r)'
<1>1. PICK u, s, E : u = call[r].user /\ s = shown[r] /\ E = ever[r]
  OBVIOUS
<1>2. s \in Seq(Ids) /\ E \in SUBSET Entries
  BY <1>1 DEF CatalogTypeOK
<1>3. ShownOwned(u, s, E)
  BY <1>1 DEF ClientOwned, ShownOwned
<1>4. ShownOwned(u, s, E)'
  BY <1>2, <1>3, ShownOwnedKept
<1>5. call'[r].user = u /\ shown'[r] = s /\ ever'[r] = E
  BY <1>1
<1> QED
  BY <1>4, <1>5 DEF ClientOwned, ShownOwned

\* A client that is shown nothing new, and goes on or has failed.
LEMMA ClientStays ==
  ASSUME CatalogTypeOK, StoreGrows, NEW r \in Requests, ClientOk(r), call'[r] = call[r],
         place'[r] = place[r], shown'[r] = shown[r], steady'[r] = steady[r], ever'[r] = ever[r],
         call[r].kind \in Paginations =>
           \/ Running(r) /\ Running(r)'
           \/ ~ Running(r) /\ ~ Running(r)' /\ verdict'[r] = verdict[r]
           \/ ~ Running(r)' /\ verdict'[r] # "ok"
  PROVE  ClientOk(r)'
<1> SUFFICES ASSUME call[r] # None
             PROVE  ClientOk(r)'
  BY DEF ClientOk
<1>1. call[r].user \notin Admins => ClientOwned(r)'
  BY ClientOwnedStays DEF ClientOk
<1>2. ASSUME call[r].kind \in Paginations, Running(r)' \/ verdict'[r] = "ok"
      PROVE  /\ Running(r)' <=> Running(r)
             /\ call[r].kind = "cursor" => CursorWalk(r)
             /\ call[r].kind = "offset" => OffsetWalk(r)
  BY <1>2 DEF ClientOk
<1>3. ASSUME Running(r)' <=> Running(r), CursorWalk(r)
      PROVE  CursorWalk(r)'
  BY <1>3 DEF CursorWalk, Rising
<1>4. ASSUME Running(r)' <=> Running(r), OffsetWalk(r)
      PROVE  OffsetWalk(r)'
  <2>1. PICK q, E, S, s, p :
          q = call[r].query /\ E = ever[r] /\ S = steady[r] /\ s = shown[r] /\ p = place[r]
    OBVIOUS
  <2>2. /\ call'[r].query = q /\ ever'[r] = E /\ steady'[r] = S /\ shown'[r] = s /\ place'[r] = p
    BY <2>1
  <2>3. \/ Running(r) /\ s = <<>> /\ p = 1 /\ S = Entries /\ E = {}
        \/ /\ S \subseteq E
           /\ S = E => /\ OneEach(E) /\ Follow(q, E, 0, s)
                       /\ Running(r) => Len(s) = (p - 1) * PageSize /\ Len(s) < Cardinality(E)
                       /\ ~ Running(r) => Len(s) = Cardinality(E)
    BY ONLY <1>4, <2>1 DEF OffsetWalk
  <2>4. \/ Running(r)' /\ s = <<>> /\ p = 1 /\ S = Entries /\ E = {}
        \/ /\ S \subseteq E
           /\ S = E => /\ OneEach(E) /\ Follow(q, E, 0, s)
                       /\ Running(r)' => Len(s) = (p - 1) * PageSize /\ Len(s) < Cardinality(E)
                       /\ ~ Running(r)' => Len(s) = Cardinality(E)
    BY ONLY <1>4, <2>3
  <2> QED
    BY ONLY <2>2, <2>4 DEF OffsetWalk
<1> QED
  BY <1>1, <1>2, <1>3, <1>4 DEF ClientOk, Paginations

\* A page more is shown to a client that walks with cursors.
LEMMA CursorFound ==
  ASSUME CatalogTypeOK, NEW r \in Requests, WellFormed(call[r]), call[r].kind = "cursor", Running(r),
         CursorWalk(r), NEW v \in Values, CursorOk(place[r], v), Found(r, v)
  PROVE  CursorWalk(r)'
<1>1. /\ shown'[r] = shown[r] \o v.data /\ steady'[r] = steady[r] \cap v.steady
      /\ ever'[r] = ever[r] \cup v.ever /\ place'[r] = v.next
      /\ todo'[r] = IF v.next = 0 THEN <<>> ELSE PagePlan(call[r].query)
  BY FoundFacts DEF Looking, Readers, Paginations
<1>2. PagePlan(call[r].query) # <<>>
  BY PagePlanLeft DEF Paginations
<1>3. Running(r)' <=> v.next # 0
  BY <1>1, <1>2 DEF Running
<1>4. PICK p, s, S, T : p = place[r] /\ s = shown[r] /\ S = steady[r] /\ T = ever[r]
  OBVIOUS
<1>5. /\ p \in Nat /\ s \in Seq(Ids) /\ S \in SUBSET Entries /\ T \in SUBSET Entries
      /\ Rising(s) /\ CursorOk(p, v)
      /\ \A n \in DOMAIN s : s[n] <= p /\ \E e \in T : e.id = s[n]
      /\ \A e \in S : e.id <= p => \E n \in DOMAIN s : s[n] = e.id
  <2>1. p \in Nat /\ s \in Seq(Ids) /\ S \in SUBSET Entries /\ T \in SUBSET Entries
    BY <1>4, CatalogAssumption DEF CatalogTypeOK
  <2>2. CursorWalk(r) /\ Running(r) /\ CursorOk(p, v)
    BY <1>4
  <2>3. Rising(s)
    BY <1>4, <2>2 DEF CursorWalk
  <2>4. \A n \in DOMAIN s : s[n] <= p /\ \E e \in T : e.id = s[n]
    BY <1>4, <2>2 DEF CursorWalk
  <2>5. \A e \in S : e.id <= p => \E n \in DOMAIN s : s[n] = e.id
    BY <1>4, <2>2 DEF CursorWalk
  <2> QED
    BY <2>1, <2>2, <2>3, <2>4, <2>5
<1> DEFINE t == s \o v.data
<1>6. /\ Rising(t)
      /\ \A n \in DOMAIN t : /\ v.next # 0 => t[n] <= v.next
                             /\ \E e \in T \cup v.ever : e.id = t[n]
      /\ \A e \in S \cap v.steady :
           (v.next # 0 => e.id <= v.next) => \E n \in DOMAIN t : t[n] = e.id
  <2>1. LET u == s \o v.data
        IN /\ Rising(u)
           /\ \A n \in DOMAIN u : /\ v.next # 0 => u[n] <= v.next
                                  /\ \E e \in T \cup v.ever : e.id = u[n]
           /\ \A e \in S \cap v.steady :
                (v.next # 0 => e.id <= v.next) => \E n \in DOMAIN u : u[n] = e.id
    BY ONLY <1>5, v \in Values, CursorFollows, Zenon
  <2> QED
    BY <2>1, Zenon
<1>7. /\ shown'[r] = t /\ steady'[r] = S \cap v.steady /\ ever'[r] = T \cup v.ever
      /\ place'[r] = v.next
  BY <1>1, <1>4
<1> HIDE DEF t
<1> QED
  BY ONLY <1>3, <1>6, <1>7 DEF CursorWalk, Rising

\* And to one that walks with page numbers.
LEMMA OffsetFound ==
  ASSUME CatalogTypeOK, NEW r \in Requests, WellFormed(call[r]), call[r].kind = "offset", Running(r),
         OffsetWalk(r), place[r] >= 1, NEW v \in Values, v.steady \subseteq v.ever,
         OffsetOk(call[r].query, place[r], v), OffsetNextOk(place[r], v), Found(r, v), call' = call
  PROVE  OffsetWalk(r)'
<1>1. /\ shown'[r] = shown[r] \o v.data /\ steady'[r] = steady[r] \cap v.steady
      /\ ever'[r] = ever[r] \cup v.ever /\ place'[r] = v.next
      /\ todo'[r] = IF v.next = 0 THEN <<>> ELSE PagePlan(call[r].query)
  BY FoundFacts DEF Looking, Readers, Paginations
<1>2. PagePlan(call[r].query) # <<>>
  BY PagePlanLeft DEF Paginations
<1>3. Running(r)' <=> v.next # 0
  BY <1>1, <1>2 DEF Running
<1>4. PICK p, q, s, S, T :
        p = place[r] /\ q = call[r].query /\ s = shown[r] /\ S = steady[r] /\ T = ever[r]
  OBVIOUS
<1>5. /\ p \in Nat /\ p >= 1 /\ s \in Seq(Ids) /\ S \in SUBSET Entries /\ T \in SUBSET Entries
      /\ OffsetOk(q, p, v) /\ OffsetNextOk(p, v) /\ v.ever \in SUBSET Entries
      /\ v.steady \in SUBSET Entries /\ v.data \in Seq(Ids)
  BY <1>4, CatalogAssumption DEF CatalogTypeOK, Values
<1>6. \/ s = <<>> /\ p = 1 /\ S = Entries /\ T = {}
      \/ /\ S \subseteq T
         /\ S = T => Follow(q, T, 0, s) /\ Len(s) = (p - 1) * PageSize /\ Len(s) < Cardinality(T)
  BY <1>4 DEF OffsetWalk
<1>7. S \cap v.steady \subseteq T \cup v.ever
  OBVIOUS
<1> DEFINE t == s \o v.data
<1>8. ASSUME S \cap v.steady = T \cup v.ever
      PROVE  /\ v.steady = v.ever /\ T \cup v.ever = v.ever
             /\ Follow(q, v.ever, 0, s) /\ Len(s) = (p - 1) * PageSize
             /\ Len(s) = 0 \/ Len(s) < Cardinality(v.ever)
  <2>1. v.steady = v.ever /\ T \cup v.ever = v.ever /\ v.ever \subseteq S
    BY <1>8
  <2>2. CASE s = <<>> /\ p = 1
    <3>1. (p - 1) * PageSize = 0 /\ DOMAIN s = {} /\ Len(s) = 0
      BY <2>2, CatalogAssumption
    <3> QED
      BY <3>1, <2>1 DEF Follow
  <2>3. CASE /\ S \subseteq T
             /\ S = T => Follow(q, T, 0, s) /\ Len(s) = (p - 1) * PageSize /\ Len(s) < Cardinality(T)
    <3>1. S = T /\ T = v.ever
      BY <2>1, <2>3
    <3> QED
      BY <3>1, <2>1, <2>3
  <2> QED
    BY <2>2, <2>3, <1>6
<1>9. ASSUME S \cap v.steady = T \cup v.ever
      PROVE  /\ OneEach(v.ever) /\ Follow(q, v.ever, 0, t)
             /\ v.next # 0 => Len(t) = (v.next - 1) * PageSize /\ Len(t) < Cardinality(v.ever)
             /\ v.next = 0 => Len(t) = Cardinality(v.ever)
  <2>1. PICK E : E = v.ever
    OBVIOUS
  <2>2. /\ v.ever = E /\ v.steady = E /\ Follow(q, E, 0, s) /\ Len(s) = (p - 1) * PageSize
        /\ Len(s) = 0 \/ Len(s) < Cardinality(E)
        /\ E \in SUBSET Entries
    BY <1>5, <1>8, <1>9, <2>1
  <2>3. /\ OneEach(E) /\ Follow(q, E, 0, t)
        /\ v.next # 0 => Len(t) = (v.next - 1) * PageSize /\ Len(t) < Cardinality(E)
        /\ v.next = 0 => Len(t) = Cardinality(E)
    BY ONLY <1>5, <2>2, v \in Values, OffsetFollows
  <2> QED
    BY <2>1, <2>3
<1>10. /\ shown'[r] = t /\ steady'[r] = S \cap v.steady /\ ever'[r] = T \cup v.ever
       /\ place'[r] = v.next
  BY <1>1, <1>4
<1>11. call'[r].query = q
  BY <1>4
<1> HIDE DEF t
<1>12. steady'[r] \subseteq ever'[r]
  BY ONLY <1>7, <1>10
<1>13. ASSUME steady'[r] = ever'[r]
       PROVE  /\ OneEach(ever'[r]) /\ Follow(call'[r].query, ever'[r], 0, shown'[r])
              /\ Running(r)' => /\ Len(shown'[r]) = (place'[r] - 1) * PageSize
                                /\ Len(shown'[r]) < Cardinality(ever'[r])
              /\ ~ Running(r)' => Len(shown'[r]) = Cardinality(ever'[r])
  <2>1. S \cap v.steady = T \cup v.ever
    BY ONLY <1>10, <1>13
  <2>2. ever'[r] = v.ever
    BY ONLY <2>1, <1>8, <1>10
  <2>3. OneEach(ever'[r]) /\ Follow(call'[r].query, ever'[r], 0, shown'[r])
    BY ONLY <2>1, <2>2, <1>9, <1>10, <1>11
  <2> QED
    BY ONLY <2>1, <2>2, <2>3, <1>3, <1>9, <1>10
<1> QED
  BY ONLY <1>12, <1>13 DEF OffsetWalk

\* A step of r finds something, or shows nothing.
FoundIn(r, v) ==
  /\ WellFormed(call[r]) /\ Looking(call[r]) /\ Running(r) /\ v \in Values /\ Found(r, v)
  /\ KeyOf(r) \in Keys /\ (call[r].kind = "offset" => place[r] >= 1) /\ Whole(KeyOf(r), v)
  /\ UNCHANGED <<storeVars, callVars, failures, cleared>>
  /\ \/ Hit(r) /\ v = cache[KeyOf(r)]
     \/ RegisterKey(r) /\ v = reading[r]
     \/ Query(r) /\ call[r].kind \notin PageKinds /\ v = Queried(r)

Quiet(r) ==
  /\ place'[r] = place[r] /\ shown'[r] = shown[r] /\ steady'[r] = steady[r] /\ ever'[r] = ever[r]
  /\ call[r].kind \in PageKinds => Running(r)' \/ verdict'[r] # "ok"
  /\ reading'[r] = reading[r] \/ Count(r) \/ (Query(r) /\ reading'[r] = Queried(r))

LEMMA StepFound ==
  ASSUME CatalogTypeOK, ShapeInv, CreationInv, ValueInv, NEW r \in Requests, Step(r)
  PROVE  (\E v \in Values : FoundIn(r, v)) \/ Quiet(r)
<1>1. /\ AwaitOk(call[r], todo[r]) /\ First(todo[r]) = Head(todo[r]) /\ Running(r) /\ call[r] # None
      /\ WellFormed(call[r])
  BY StepFrame, AtAwait
<1>2. ASSUME NEW s \in Steps \ {"register", "flag", "get", "query", "count", "set"}, At(r, s)
      PROVE  call[r].kind \notin PageKinds
  <2>1. First(todo[r]) = s
    BY <1>2, AtFirst
  <2> QED
    BY <2>1, <1>1, <1>2 DEF AwaitOk, Steps, Changing, Readers, Paginations, PageKinds
<1>3. ASSUME UNCHANGED clientVars, call[r].kind \notin PageKinds
      PROVE  Quiet(r)
  BY <1>3 DEF Quiet, clientVars
<1>4. ASSUME NEW s \in {"flag", "get", "query", "count", "set"}, At(r, s),
             todo'[r] = Tail(todo[r]) \/ verdict'[r] # "ok",
             UNCHANGED <<place, shown, steady, ever>>,
             reading'[r] = reading[r] \/ Count(r) \/ (Query(r) /\ reading'[r] = Queried(r))
      PROVE  Quiet(r)
  <2>1. First(todo[r]) = s
    BY <1>4, AtFirst DEF Steps
  <2>2. First(Tail(todo[r])) # "end"
    BY <2>1, <1>1, <1>4 DEF AwaitOk
  <2>3. Tail(todo[r]) # <<>>
    BY <2>2 DEF First
  <2> QED
    BY <2>3, <1>4 DEF Quiet, Running
<1>5. CASE CheckFlag(r)
  <2>1. At(r, "flag") /\ UNCHANGED clientVars
    BY <1>5 DEF CheckFlag
  <2>2. todo'[r] = Tail(todo[r]) \/ verdict'[r] # "ok"
    BY <1>5, FlagFrame
  <2> QED
    BY <2>1, <2>2, <1>4 DEF clientVars
<1>6. CASE Miss(r)
  <2>1. At(r, "get") /\ UNCHANGED clientVars
    BY <1>6 DEF Miss
  <2>2. todo'[r] = Tail(todo[r])
    BY <1>6, MissFrame
  <2> QED
    BY <2>1, <2>2, <1>4 DEF clientVars
<1>7. CASE Hit(r)
  <2>1. /\ At(r, "get") /\ cache[KeyOf(r)] # None /\ Found(r, cache[KeyOf(r)])
        /\ UNCHANGED <<storeVars, callVars, failures, cleared>>
    BY <1>7 DEF Hit, cacheVars
  <2>2. /\ KeyOf(r) \in Keys /\ Looking(call[r]) /\ (call[r].kind = "offset" => place[r] >= 1)
        /\ cache[KeyOf(r)] \in Values
    BY <1>7, <2>1, LookupFacts, HitFrame
  <2>3. Whole(KeyOf(r), cache[KeyOf(r)])
    BY <2>1, <2>2 DEF ValueInv, ReadingInv
  <2> QED
    BY <2>1, <2>2, <2>3, <1>1, <1>7 DEF FoundIn
<1>8. CASE Query(r)
  <2>1. At(r, "query") /\ UNCHANGED <<storeVars, callVars, failures, cleared>>
    BY <1>8 DEF Query, cacheVars
  <2>2. /\ KeyOf(r) \in Keys /\ Looking(call[r]) /\ (call[r].kind = "offset" => place[r] >= 1)
    BY <2>1, LookupFacts
  <2>3. CASE KeyOf(r).of \in {"category", "role"} /\ Found(r, Queried(r))
    <3>1. call[r].kind \notin PageKinds
      BY <2>2, <2>3, <1>1, KeyFacts DEF PageKinds
    <3>2. Queried(r) \in Values /\ Whole(KeyOf(r), Queried(r))
      BY <3>1, <2>2, <1>1, QueriedFacts DEF PageKinds, Paginations
    <3> QED
      BY <3>1, <3>2, <2>1, <2>2, <2>3, <1>1, <1>8 DEF FoundIn
  <2>4. CASE verdict'[r] = "refused" /\ UNCHANGED clientVars
    BY <2>1, <2>4, <1>4 DEF clientVars
  <2>5. CASE /\ todo'[r] = Tail(todo[r]) /\ UNCHANGED <<place, shown, steady, ever>>
             /\ reading'[r] = Queried(r)
    BY <1>8, <2>1, <2>5, <1>4
  <2> QED
    BY <1>8, <2>3, <2>4, <2>5, QueryFrame
<1>9. CASE Count(r)
  <2>1. At(r, "count") /\ UNCHANGED <<place, shown, steady, ever>>
    BY <1>9 DEF Count
  <2>2. todo'[r] = Tail(todo[r])
    BY <1>9, CountFrame
  <2> QED
    BY <1>9, <2>1, <2>2, <1>4
<1>10. CASE SetCached(r)
  <2>1. At(r, "set") /\ UNCHANGED <<place, shown, steady, ever, reading>>
    BY <1>10 DEF SetCached, clientVars
  <2>2. todo'[r] = Tail(todo[r])
    BY <1>10, SetFrame
  <2> QED
    BY <2>1, <2>2, <1>4
<1>11. CASE RegisterKey(r)
  <2>1. /\ At(r, "register") /\ Found(r, reading[r])
        /\ UNCHANGED <<storeVars, callVars, failures, cleared>>
    BY <1>11 DEF RegisterKey
  <2>2. /\ KeyOf(r) \in Keys /\ Looking(call[r]) /\ (call[r].kind = "offset" => place[r] >= 1)
        /\ reading[r] \in Values
    BY <2>1, LookupFacts DEF CatalogTypeOK
  <2>3. Whole(KeyOf(r), reading[r])
    BY <2>1 DEF ValueInv, ReadingInv
  <2> QED
    BY <2>1, <2>2, <2>3, <1>1, <1>11 DEF FoundIn
<1>12. CASE \/ Insert(r) \/ Commit(r) \/ SaveTask(r) \/ FileCategory(r) \/ RenameCategory(r)
            \/ DropCategory(r) \/ ClearKey(r) \/ ForgetKeys(r)
  <2>1. UNCHANGED clientVars
    BY <1>12 DEF Insert, Commit, SaveTask, FileCategory, RenameCategory, DropCategory, WriteCategory,
                 ClearKey, ForgetKeys
  <2>2. \/ At(r, "insert") \/ At(r, "commit") \/ At(r, "save") \/ At(r, "file") \/ At(r, "rename")
        \/ At(r, "drop") \/ At(r, "clear")
    BY <1>12 DEF Insert, Commit, SaveTask, FileCategory, RenameCategory, DropCategory, WriteCategory,
                 ClearKey, ForgetKeys
  <2>3. call[r].kind \notin PageKinds
    BY <2>2, <1>2 DEF Steps
  <2> QED
    BY <2>1, <2>3, <1>3
<1> QED
  BY <1>5, <1>6, <1>7, <1>8, <1>9, <1>10, <1>11, <1>12 DEF Step

\* What a request has found is its own, and goes on its walk.
LEMMA ClientFound ==
  ASSUME CatalogTypeOK, NEW r \in Requests, ClientOk(r), call[r] # None, NEW v \in Values,
         FoundIn(r, v)
  PROVE  ClientOk(r)'
<1>1. /\ WellFormed(call[r]) /\ Looking(call[r]) /\ Running(r) /\ Found(r, v) /\ Whole(KeyOf(r), v)
      /\ call' = call /\ UNCHANGED storeVars /\ (call[r].kind = "offset" => place[r] >= 1)
  BY DEF FoundIn, callVars
<1>2. /\ KeyOf(r).user = call[r].user
      /\ call[r].kind \in Paginations =>
           KeyOf(r).of = "tasks" /\ KeyOf(r).query = call[r].query /\ KeyOf(r).place = place[r]
  BY <1>1, KeyFacts
<1>3. StoreGrows /\ task' = task
  BY <1>1, StoreStays DEF storeVars
<1>4. ASSUME call[r].user \notin Admins
      PROVE  ClientOwned(r)'
  <2>1. PICK u, s, E : u = call[r].user /\ s = shown[r] /\ E = ever[r]
    OBVIOUS
  <2>2. s \in Seq(Ids) /\ E \in SUBSET Entries
    BY <2>1 DEF CatalogTypeOK
  <2>3. ShownOwned(u, s, E) /\ OwnedBy(u, v)
    BY <1>1, <1>2, <1>4, <2>1 DEF ClientOk, ClientOwned, ShownOwned, Whole, Sound
  <2>4. call'[r].user = u
    BY <1>1, <2>1
  <2>5. CASE call[r].kind \in Paginations
    <3>1. shown'[r] = s \o v.data /\ ever'[r] = E \cup v.ever
      BY <1>1, <2>1, <2>5, FoundFacts
    <3>2. ShownOwned(u, s \o v.data, E \cup v.ever)
      BY <2>2, <2>3, PageOwned
    <3> QED
      BY <1>3, <2>4, <3>1, <3>2 DEF ClientOwned, ShownOwned
  <2>6. CASE call[r].kind = "stats"
    <3>1. shown'[r] = s /\ ever'[r] = v.ever
      BY <1>1, <2>1, <2>6, FoundFacts
    <3> QED
      BY <1>3, <2>3, <2>4, <3>1 DEF ClientOwned, ShownOwned, OwnedBy
  <2>7. CASE call[r].kind \notin PageKinds
    <3>1. shown'[r] = s /\ ever'[r] = E
      BY <1>1, <2>1, <2>7, FoundFacts
    <3> QED
      BY <1>3, <2>3, <2>4, <3>1 DEF ClientOwned, ShownOwned
  <2> QED
    BY <2>5, <2>6, <2>7 DEF PageKinds
<1>5. ASSUME call[r].kind = "cursor"
      PROVE  CursorWalk(r)'
  <2>1. call[r].query.pagination = "cursor"
    BY <1>1, <1>5 DEF WellFormed, Paginations
  <2>2. CursorOk(place[r], v)
    BY <1>1, <1>2, <1>5, <2>1 DEF Whole, Sound, Paginations
  <2>3. CursorWalk(r)
    BY <1>1, <1>5 DEF ClientOk
  <2> QED
    BY <1>1, <1>5, <2>2, <2>3, CursorFound
<1>6. ASSUME call[r].kind = "offset"
      PROVE  OffsetWalk(r)'
  <2>1. call[r].query.pagination = "offset"
    BY <1>1, <1>6 DEF WellFormed, Paginations
  <2>2. /\ OffsetOk(call[r].query, place[r], v) /\ OffsetNextOk(place[r], v)
        /\ v.steady \subseteq v.ever
    BY <1>1, <1>2, <1>6, <2>1 DEF Whole, Sound, Paginations
  <2>3. OffsetWalk(r)
    BY <1>1, <1>6 DEF ClientOk
  <2> QED
    BY <1>1, <1>6, <2>2, <2>3, OffsetFound
<1> QED
  BY <1>1, <1>4, <1>5, <1>6 DEF ClientOk

\* A step keeps what clients are shown right.
LEMMA ClientStep ==
  ASSUME CatalogTypeOK, ShapeInv, CreationInv, ValueInv, ClientInv, NEW r \in Requests, Step(r)
  PROVE  ClientInv'
<1>1. StoreGrows /\ Frame(r) /\ call[r] # None /\ Running(r)
  BY StepGrows, StepFrame
<1>2. \A q \in Requests : ClientOk(q)
  BY DEF ClientInv, ClientOk
<1>3. ASSUME NEW q \in Requests \ {r}
      PROVE  ClientOk(q)'
  <2>1. Kept(q)
    BY <1>1 DEF Frame
  <2> QED
    BY <1>1, <1>2, <2>1, ClientStays DEF Kept, ClientKept, Running
<1>4. ClientOk(r)'
  <2>1. CASE \E v \in Values : FoundIn(r, v)
    BY <1>1, <1>2, <2>1, ClientFound
  <2>2. CASE Quiet(r)
    BY <1>1, <1>2, <2>2, ClientStays DEF Quiet, Frame, PageKinds
  <2> QED
    BY <2>1, <2>2, StepFound
<1> QED
  BY <1>3, <1>4 DEF ClientInv, ClientOk

\* Where nothing is shown.
LEMMA ClientOthers ==
  ASSUME CatalogTypeOK, ClientInv, UNCHANGED <<task, category>>,
         UNCHANGED <<place, shown, steady, ever, call>>,
         \A q \in Requests : \/ Kept(q)
                             \/ Running(q) /\ Running(q)'
                             \/ ~ Running(q)' /\ verdict'[q] # "ok"
  PROVE  ClientInv'
<1>1. StoreGrows
  BY StoreStays
<1>2. ASSUME NEW q \in Requests
      PROVE  ClientOk(q)'
  <2>1. ClientOk(q)
    BY DEF ClientInv, ClientOk
  <2> QED
    BY <1>1, <2>1, ClientStays DEF Kept, ClientKept, Running
<1> QED
  BY <1>2 DEF ClientInv, ClientOk

LEMMA ClientArrive ==
  ASSUME CatalogTypeOK, ShapeInv, ClientInv, NEW r \in Requests, Arrive(r)
  PROVE  ClientInv'
<1>1. /\ call[r] = None /\ todo'[r] # <<>>
      /\ place'[r] = (IF call'[r].kind = "offset" THEN 1 ELSE 0)
      /\ UNCHANGED <<storeVars, shown, steady, ever>> /\ \A q \in Requests \ {r} : Kept(q)
  BY ArriveFrame
<1>2. StoreGrows
  BY <1>1, StoreStays DEF storeVars
<1>3. ASSUME NEW q \in Requests \ {r}
      PROVE  ClientOk(q)'
  <2>1. ClientOk(q)
    BY DEF ClientInv, ClientOk
  <2> QED
    BY <1>1, <1>2, <2>1, ClientStays DEF Kept, ClientKept, Running
<1>4. ClientOk(r)'
  <2>1. shown'[r] = <<>> /\ steady'[r] = Entries /\ ever'[r] = {}
    BY <1>1 DEF ShapeInv, RequestInv
  <2>2. DOMAIN shown'[r] = {}
    BY <2>1
  <2>3. ClientOwned(r)'
    BY <2>1, <2>2 DEF ClientOwned
  <2>4. Running(r)'
    BY <1>1 DEF Running
  <2>5. call'[r].kind = "cursor" => CursorWalk(r)'
    <3>1. SUFFICES ASSUME call'[r].kind = "cursor"
                   PROVE  CursorWalk(r)'
      OBVIOUS
    <3>2. place'[r] = 0
      BY <1>1, <3>1
    <3>3. \A e \in Entries : ~ (e.id <= 0)
      BY CatalogAssumption DEF Entries, Ids
    <3> QED
      BY <2>1, <2>2, <2>4, <3>2, <3>3 DEF CursorWalk, Rising
  <2>6. call'[r].kind = "offset" => OffsetWalk(r)'
    BY <1>1, <2>1, <2>4 DEF OffsetWalk
  <2> QED
    BY <2>3, <2>5, <2>6 DEF ClientOk
<1> QED
  BY <1>3, <1>4 DEF ClientInv, ClientOk

LEMMA ClientAbort ==
  ASSUME CatalogTypeOK, ShapeInv, ClientInv, NEW r \in Requests, AbortCreation(r)
  PROVE  ClientInv'
<1>1. /\ UNCHANGED <<task, category, place, shown, steady, ever, call>>
      /\ \A q \in Requests \ {r} : Kept(q)
  BY AbortFrame DEF AbortCreation, clientVars, callVars, Frame
<1>2. Running(r) /\ Running(r)'
  BY ShapeAbort
<1> QED
  BY <1>1, <1>2, ClientOthers

LEMMA ClientFailed ==
  ASSUME CatalogTypeOK, ShapeInv, ClientInv, NEW S \in SUBSET Requests, Failed(S)
  PROVE  ClientInv'
<1>1. /\ UNCHANGED <<task, category, place, shown, steady, ever, call>>
      /\ \A q \in Requests : Kept(q) \/ (~ Running(q)' /\ verdict'[q] # "ok")
  BY DEF Failed, clientVars, callVars, Running
<1> QED
  BY <1>1, ClientOthers

-------------------------------------------------------------------------------
(* What the processes know of the cache                                    *)

\* Who has arrived stays, and so does who had ended then.
Grown == \A q \in Requests : call[q] # None => call'[q] = call[q] /\ before'[q] = before[q]

LEMMA ApartKept ==
  ASSUME Grown, NEW x \in Requests, NEW y \in Requests, call[x] # None, call[y] # None
  PROVE  Apart(x, y)' <=> Apart(x, y)
  BY DEF Grown, Apart

LEMMA CallsKept ==
  ASSUME Grown, NEW x \in Requests
  PROVE  (Reads(x) => Reads(x)') /\ (Writes(x) => Writes(x)')
  BY DEF Grown, Reads, Writes

LEMMA UndisturbedBefore ==
  ASSUME Grown, NEW p, Undisturbed(p)'
  PROVE  Undisturbed(p)
<1> SUFFICES ASSUME NEW x \in Requests, Reads(x)
             PROVE  /\ call[x].process = p
                    /\ \A y \in Requests \ {x} : Writes(y) => Apart(x, y)
  BY DEF Undisturbed
<1>1. Reads(x)' /\ call'[x] = call[x]
  BY CallsKept DEF Grown, Reads
<1>2. ASSUME NEW y \in Requests \ {x}, Writes(y)
      PROVE  Apart(x, y)
  <2>1. Writes(y)' /\ call[x] # None /\ call[y] # None
    BY <1>2, CallsKept DEF Reads, Writes
  <2>2. Apart(x, y)'
    BY <1>1, <2>1 DEF Undisturbed
  <2> QED
    BY <2>1, <2>2, ApartKept
<1> QED
  BY <1>1, <1>2 DEF Undisturbed

LEMMA ExcusedKept ==
  ASSUME Grown, NEW w \in Requests, call[w] # None, Excused(w)
  PROVE  Excused(w)'
<1>1. PICK x \in Requests :
        /\ Reads(x) /\ w \notin before[x]
        /\ \/ call[x].process # call[w].process
           \/ \E y \in Requests \ {x} : Writes(y) /\ ~ Apart(x, y)
  BY DEF Excused
<1>2. Reads(x)' /\ w \notin before'[x] /\ call'[x] = call[x] /\ call'[w] = call[w]
  BY <1>1, CallsKept DEF Grown, Reads
<1>3. ASSUME NEW y \in Requests \ {x}, Writes(y), ~ Apart(x, y)
      PROVE  Writes(y)' /\ ~ Apart(x, y)'
  BY <1>1, <1>3, CallsKept, ApartKept DEF Reads, Writes
<1> QED
  BY <1>1, <1>2, <1>3 DEF Excused

\* Two requests that both run are not apart.
LEMMA RunningBeside ==
  ASSUME ShapeInv, NEW x \in Requests, NEW y \in Requests, Running(x), Running(y)
  PROVE  ~ Apart(x, y)
  BY DEF ShapeInv, RequestInv, Apart, Ended

LEMMA SetAgainKept ==
  ASSUME ShapeInv, SetAgain, Grown,
         \A y \in Requests, k \in Keys :
           k \in cleared'[y] /\ cache'[k] # None =>
             \/ k \in cleared[y] /\ cache[k] # None
             \/ \E x \in Requests \ {y} : Reads(x)' /\ ~ Apart(x, y)'
  PROVE  SetAgain'
<1> SUFFICES ASSUME NEW y \in Requests, NEW k \in Keys, k \in cleared[y], cache[k] # None
             PROVE  \E x \in Requests \ {y} : Reads(x)' /\ ~ Apart(x, y)'
  BY DEF SetAgain
<1>1. PICK x \in Requests \ {y} : Reads(x) /\ ~ Apart(x, y)
  BY DEF SetAgain
<1>2. call[y] # None /\ call[x] # None
  BY <1>1, Tuples DEF ShapeInv, RequestInv, Reads
<1> QED
  BY <1>1, <1>2, ApartKept, CallsKept

\* A value is set again by somebody who reads beside.
LEMMA SetAgainStep ==
  ASSUME CatalogTypeOK, ShapeInv, CreationInv, ValueInv, SetAgain, NEW r \in Requests, Step(r)
  PROVE  SetAgain'
<1>1. Frame(r) /\ Running(r) /\ call[r] # None
  BY StepFrame
<1>2. Grown
  BY <1>1 DEF Frame, Grown
<1>3. ASSUME NEW y \in Requests, NEW k \in Keys, k \in cleared'[y], cache'[k] # None
      PROVE  \/ k \in cleared[y] /\ cache[k] # None
             \/ \E x \in Requests \ {y} : Reads(x)' /\ ~ Apart(x, y)'
  <2>1. CASE k \notin cleared[y]
    <3>1. y = r
      BY <1>1, <1>3, <2>1 DEF Frame, Kept
    <3>2. cleared' # cleared /\ ~ (cleared'[r] = {})
      BY <1>3, <2>1, <3>1
    <3>3. ClearKey(r)
      <4>1. ~ ForgetKeys(r)
        BY <3>2, ForgetFrame
      <4> QED
        BY <3>2, <4>1 DEF Step, CheckFlag, Miss, Hit, Query, Count, SetCached, RegisterKey, Insert,
             Commit, SaveTask, FileCategory, RenameCategory, DropCategory, WriteCategory, cacheVars
    <3>4. PICK j \in KnownKeys(r) :
            /\ cleared'[r] = cleared[r] \cup {j}
            /\ \A i \in Keys : cache'[i] = IF i = j THEN None ELSE cache[i]
      BY <3>3, ClearFrame
    <3> QED
      BY <1>3, <2>1, <3>1, <3>4
  <2>2. CASE k \in cleared[y] /\ cache'[k] # cache[k]
    <3>1. SetCached(r)
      BY <1>3, <2>2, StepCache
    <3>2. todo[y] = <<"clear">>
      BY <2>2 DEF ShapeInv, RequestInv
    <3>3. Running(y) /\ y # r
      <4>1. At(r, "set")
        BY <3>1 DEF SetCached
      <4> QED
        BY <3>2, <4>1, Tuples DEF At, Running
    <3>4. call[y] # None /\ Looking(call[r])
      BY <3>1, <3>3, LookupFacts DEF ShapeInv, RequestInv, Running, SetCached
    <3>5. Reads(r) /\ ~ Apart(r, y)
      BY <1>1, <3>3, <3>4, RunningBeside DEF Reads, Looking
    <3> QED
      BY <1>1, <1>2, <3>3, <3>4, <3>5, ApartKept, CallsKept
  <2> QED
    BY <1>3, <2>1, <2>2
<1> QED
  BY <1>2, <1>3, SetAgainKept

\* Who sets a value registers it; what is forgotten is not there any more.
LEMMA AllKnownStep ==
  ASSUME CatalogTypeOK, ShapeInv, CreationInv, ValueInv, SetAgain, AllKnown, NEW r \in Requests, Step(r)
  PROVE  AllKnown'
<1>1. Frame(r) /\ Running(r) /\ call[r] # None
  BY StepFrame
<1>2. Grown
  BY <1>1 DEF Frame, Grown
<1> SUFFICES ASSUME NEW p \in Processes, Undisturbed(p)', NEW k \in Keys, cache'[k] # None
             PROVE  Known(p, k)'
  BY DEF AllKnown
<1>3. Undisturbed(p)
  BY <1>2, UndisturbedBefore
<1>4. CASE cache'[k] # cache[k]
  <2>1. SetCached(r) /\ k = KeyOf(r)
    BY <1>4, StepCache
  <2>2. todo'[r] = Tail(todo[r]) /\ AwaitOk(call[r], todo[r]) /\ First(todo[r]) = "set"
    BY <2>1, SetFrame, LookupFacts DEF SetCached
  <2>3. First(todo'[r]) = "register"
    BY <2>2 DEF AwaitOk
  <2>4. At(r, "register")'
    BY <2>3, AtFirst DEF Steps
  <2>5. KeyOf(r)' = k
    BY <1>1, <2>1, KeyKept DEF Frame, SetCached, clientVars
  <2> QED
    BY <2>4, <2>5 DEF Known
<1>5. CASE cache'[k] = cache[k]
  <2>1. Known(p, k)
    BY <1>3, <1>5 DEF AllKnown
  <2>2. CASE k \in registry[p] /\ k \notin registry'[p]
    <3>1. ForgetKeys(r)
      <4>1. registry' # registry
        BY <2>2
      <4>2. ~ RegisterKey(r)
        BY <2>2, RegisterFrame
      <4> QED
        BY <4>1, <4>2 DEF Step, CheckFlag, Miss, Hit, Query, Count, SetCached, ClearKey, Insert,
             Commit, SaveTask, FileCategory, RenameCategory, DropCategory, WriteCategory, cacheVars
    <3>2. k \in cleared[r] /\ Changing(call[r])
      BY <2>2, <3>1, ForgetFrame
    <3>3. PICK x \in Requests \ {r} : Reads(x) /\ ~ Apart(x, r)
      BY <1>5, <3>2 DEF SetAgain
    <3>4. Writes(r)
      BY <1>1, <3>2 DEF Writes, Changing
    <3> QED
      BY <1>3, <3>3, <3>4 DEF Undisturbed
  <2>3. CASE \E x \in Requests : At(x, "register") /\ KeyOf(x) = k
    <3>1. PICK x \in Requests : At(x, "register") /\ KeyOf(x) = k
      BY <2>3
    <3>2. CASE x = r
      <4>1. RegisterKey(r) /\ Looking(call[r])
        <5>1. First(todo[r]) = "register" /\ Looking(call[r])
          BY <3>1, <3>2, LookupFacts
        <5>2. At(r, "register")
          BY <3>1, <3>2
        <5> QED
          BY <5>1, <5>2 DEF At, Step, CheckFlag, Miss, Hit, Query, Count, SetCached, ClearKey, Insert,
               Commit, SaveTask, FileCategory, RenameCategory, DropCategory, WriteCategory, ForgetKeys
      <4>2. call[r].process = p
        BY <1>1, <1>3, <4>1 DEF Undisturbed, Reads, Looking
      <4>3. k \in registry'[p]
        BY <3>1, <3>2, <4>1, <4>2, RegisterFrame
      <4> QED
        BY <4>3 DEF Known
    <3>3. CASE x # r
      <4>1. Kept(x)
        BY <1>1, <3>3 DEF Frame
      <4>2. At(x, "register")' /\ KeyOf(x)' = k
        BY <3>1, <4>1, KeyKept DEF At, Running, Kept, ClientKept
      <4> QED
        BY <4>2 DEF Known
    <3> QED
      BY <3>2, <3>3
  <2> QED
    BY <2>1, <2>2, <2>3 DEF Known
<1> QED
  BY <1>4, <1>5

LEMMA RegistryStep ==
  ASSUME CatalogTypeOK, ShapeInv, CreationInv, ValueInv, RegistryInv, NEW r \in Requests, Step(r)
  PROVE  RegistryInv'
<1>1. SetAgain /\ (failures = 0 => AllKnown) /\ failures' = failures
  BY StepFrame DEF RegistryInv
<1>2. SetAgain' /\ (failures' = 0 => AllKnown')
  BY <1>1, SetAgainStep, AllKnownStep
<1> QED
  BY <1>2 DEF RegistryInv

LEMMA RegistryArrive ==
  ASSUME CatalogTypeOK, ShapeInv, RegistryInv, NEW r \in Requests, Arrive(r)
  PROVE  RegistryInv'
<1>1. /\ call[r] = None /\ UNCHANGED <<cache, registry, cleared, failures>>
      /\ \A q \in Requests \ {r} : Kept(q)
  BY ArriveFrame DEF cacheVars
<1>2. Grown
  BY <1>1 DEF Grown, Kept
<1>3. SetAgain /\ (failures = 0 => AllKnown)
  BY DEF RegistryInv
<1>4. SetAgain'
  BY <1>1, <1>2, <1>3, SetAgainKept
<1>5. ASSUME failures' = 0, NEW p \in Processes, Undisturbed(p)', NEW k \in Keys, cache'[k] # None
      PROVE  Known(p, k)'
  <2>1. Known(p, k)
    BY <1>1, <1>2, <1>3, <1>5, UndisturbedBefore DEF AllKnown
  <2>2. ASSUME NEW x \in Requests, At(x, "register"), KeyOf(x) = k
        PROVE  At(x, "register")' /\ KeyOf(x)' = k
    <3>1. x # r
      BY <1>1, <2>2 DEF ShapeInv, RequestInv, At, Running
    <3>2. Kept(x)
      BY <1>1, <3>1
    <3> QED
      BY <2>2, <3>2, KeyKept DEF At, Running, Kept, ClientKept
  <2> QED
    BY <1>1, <2>1, <2>2 DEF Known
<1>6. failures' = 0 => AllKnown'
  BY <1>5 DEF AllKnown
<1> QED
  BY <1>4, <1>6 DEF RegistryInv

\* After a failure, only what SetAgain says is left of it.
LEMMA RegistryOthers ==
  ASSUME CatalogTypeOK, ShapeInv, RegistryInv, UNCHANGED <<call, before, cache>>, failures' # 0,
         \A q \in Requests : cleared'[q] = cleared[q] \/ cleared'[q] = {}
  PROVE  RegistryInv'
<1>1. Grown /\ SetAgain
  BY DEF Grown, RegistryInv
<1>2. SetAgain'
  BY <1>1, SetAgainKept
<1> QED
  BY <1>2 DEF RegistryInv

LEMMA RegistryAbort ==
  ASSUME CatalogTypeOK, ShapeInv, RegistryInv, NEW r \in Requests, AbortCreation(r)
  PROVE  RegistryInv'
<1>1. UNCHANGED <<call, before, cache, cleared>> /\ failures' # 0
  BY AbortFrame DEF AbortCreation, callVars, cacheVars
<1> QED
  BY <1>1, RegistryOthers

LEMMA RegistryFailed ==
  ASSUME CatalogTypeOK, ShapeInv, RegistryInv, NEW S \in SUBSET Requests, Failed(S)
  PROVE  RegistryInv'
<1>1. /\ UNCHANGED <<call, before, cache>> /\ failures' # 0
      /\ \A q \in Requests : cleared'[q] = cleared[q] \/ cleared'[q] = {}
  BY DEF Failed, callVars, Kept
<1> QED
  BY <1>1, RegistryOthers

-------------------------------------------------------------------------------
(* What readers see of writes                                              *)

\* Of a write that has been answered, the effect is there.
LEMMA DoneWritten ==
  ASSUME ShapeInv, EffectInv, NEW w \in Requests, Done(w)
  PROVE  Written(w) /\ call[w] # None /\ WellFormed(call[w]) /\ ~ Running(w)
  BY DEF EffectInv, Done, Ended, Running, ShapeInv, RequestInv

\* What is queried takes account of it.
LEMMA QueriedFresh ==
  ASSUME CatalogTypeOK, ShapeInv, EffectInv, NEW w \in Requests, Done(w), NEW r \in Requests,
         WellFormed(call[r]), Looking(call[r]), call[r].kind = "offset" => place[r] >= 1
  PROVE  /\ Fresh(w, KeyOf(r), Queried(r))
         /\ call[r].kind \in Paginations =>
              /\ call[w].kind = "remove" => \A e \in Listed(r) : e.id # call[w].id
<1>1. Written(w) /\ WellFormed(call[w]) /\ call[w] # None
  BY DoneWritten
<1>2. /\ call[r].kind \in PageKinds => Queried(r).ever = Listed(r)
      /\ call[r].kind \notin PageKinds =>
           Queried(r).version = IF category.state = "live" THEN category.version ELSE None
  BY QueriedFacts
<1>3. /\ KeyOf(r).user = call[r].user
      /\ call[r].kind \in Paginations =>
           KeyOf(r).of = "tasks" /\ KeyOf(r).query = call[r].query /\ KeyOf(r) \notin CategoryKeys
      /\ call[r].kind = "stats" => KeyOf(r).of = "stats" /\ KeyOf(r) \notin CategoryKeys
      /\ call[r].kind \notin PageKinds =>
           KeyOf(r).of \in {"category", "role", "list"} /\ KeyOf(r) \in CategoryKeys
  BY KeyFacts
<1>4. /\ \A e \in Listed(r) : e.id \in Ids /\ task[e.id].state = "live"
      /\ \A i \in Visible(call[r].user, call[r].query) : \E e \in Listed(r) : e.id = i
  BY VisibleFacts DEF Listed
<1>5. ASSUME Lists(w, KeyOf(r).user, \/ KeyOf(r).of = "stats"
                                     \/ (KeyOf(r).of = "tasks" /\ KeyOf(r).query.filter = "none"))
      PROVE  \E e \in Queried(r).ever : e.id = made[w]
  <2>1. /\ call[w].kind = "create" /\ (call[r].user \in Admins \/ call[r].user = call[w].user)
        /\ ~ Gone(made[w])
    BY <1>3, <1>5 DEF Lists
  <2>2. call[r].kind = "stats" \/ (call[r].kind \in Paginations /\ call[r].query.filter = "none")
    BY <1>3, <1>5 DEF Lists, PageKinds
  <2>3. /\ made[w] \in Ids /\ task[made[w]].state # "absent" /\ task[made[w]].owner = call[w].user
    BY <1>1, <2>1 DEF Written, CatalogTypeOK
  <2>4. task[made[w]].state = "live"
    BY <2>1, <2>3 DEF EffectInv, CatalogTypeOK, Tasks
  <2>5. call[r].query = None \/ call[r].query.filter = "none"
    BY <2>2 DEF WellFormed, Paginations
  <2>6. made[w] \in Visible(call[r].user, call[r].query)
    BY <2>1, <2>3, <2>4, <2>5 DEF Visible
  <2> QED
    BY <1>2, <1>4, <2>2, <2>6 DEF PageKinds
<1>6. ASSUME call[w].kind = "remove"
      PROVE  \A e \in Listed(r) : e.id # call[w].id
  <2>1. task[call[w].id].state = "deleted"
    BY <1>1, <1>6 DEF Written
  <2> QED
    BY <2>1, <1>4
<1>7. ASSUME KeyOf(r) \notin CategoryKeys, call[w].kind = "remove"
      PROVE  \A e \in Queried(r).ever : e.id # call[w].id
  BY <1>2, <1>3, <1>6, <1>7
<1>8. ASSUME KeyOf(r) \in CategoryKeys
      PROVE  Recent(w, Queried(r))
  <2>1. Queried(r).version = IF category.state = "live" THEN category.version ELSE None
    BY <1>2, <1>3, <1>8 DEF PageKinds
  <2> QED
    BY <1>1, <2>1 DEF Recent, Written
<1> QED
  BY <1>5, <1>6, <1>7, <1>8 DEF Fresh

\* A reader whom nothing excuses came after w.
LEMMA ReaderLater ==
  ASSUME ShapeInv, NEW w \in Requests, Done(w), ~ Excused(w), NEW r \in Requests,
         Looking(call[r]), Running(r)
  PROVE  w \in before[r] /\ r # w
<1>1. /\ Ended(w) /\ Writes(w) /\ call[r] # None
  BY DEF Done, ShapeInv, RequestInv, Running
<1>2. r # w /\ Reads(r)
  BY <1>1 DEF Ended, Reads, Looking
<1>3. r \notin before[w]
  BY DEF ShapeInv, RequestInv, Ended
<1> QED
  BY <1>1, <1>2, <1>3 DEF Excused, Apart

\* Of a write that ends now, nothing older is cached: it was known, and deleted.
LEMMA EndedFresh ==
  ASSUME CatalogTypeOK, ShapeInv, CreationInv, SetAgain, AllKnown, NEW w \in Requests,
         ForgetKeys(w), ~ Excused(w), NEW k \in Keys, cache[k] # None
  PROVE  ~ (k \in CategoryKeys <=> call[w].kind \in {"file", "rename", "drop"})
<1>1. /\ todo[w] = <<"clear">> /\ Changing(call[w]) /\ KnownKeys(w) \subseteq cleared[w]
      /\ call[w].process \in Processes
  BY ForgetFrame
<1>2. Running(w) /\ call[w] # None /\ Writes(w) /\ ~ Ended(w)
  BY <1>1, Tuples DEF Running, ShapeInv, RequestInv, Writes, Changing, Ended
<1>3. \A x \in Requests : w \notin before[x]
  BY <1>2 DEF ShapeInv, RequestInv
<1>4. Undisturbed(call[w].process)
  BY <1>3 DEF Undisturbed, Excused
<1>5. ~ \E x \in Requests : At(x, "register") /\ KeyOf(x) = k
  <2> SUFFICES ASSUME NEW x \in Requests, At(x, "register")
               PROVE  FALSE
    OBVIOUS
  <2>1. Running(x) /\ call[x] # None /\ Looking(call[x])
    BY LookupFacts
  <2>2. x # w
    BY <1>1, Tuples DEF At
  <2>3. Reads(x) /\ ~ Apart(x, w)
    BY <1>2, <2>1, <2>2, RunningBeside DEF Reads, Looking
  <2> QED
    BY <1>2, <1>4, <2>2, <2>3 DEF Undisturbed
<1>6. k \in registry[call[w].process]
  BY <1>1, <1>4, <1>5 DEF AllKnown, Known
<1>7. k \notin cleared[w]
  BY <1>2, <1>4 DEF SetAgain, Undisturbed
<1> QED
  BY <1>1, <1>6, <1>7 DEF KnownKeys

\* What is fresh stays it, and may be asked for less.
LEMMA FreshKept ==
  ASSUME Grown, NEW w \in Requests, call[w] # None, made'[w] = made[w]
  PROVE  /\ \A k, v : Fresh(w, k, v) => Fresh(w, k, v)'
         /\ \A v : Recent(w, v) => Recent(w, v)'
         /\ \A u, b : Lists(w, u, b)' => Lists(w, u, b)
<1>1. call'[w] = call[w] /\ \A i : Gone(i) => Gone(i)'
  BY DEF Grown, Gone
<1>2. \A u, b : Lists(w, u, b)' => Lists(w, u, b)
  BY <1>1 DEF Lists
<1>3. \A v : Recent(w, v) => Recent(w, v)'
  BY <1>1 DEF Recent
<1>4. ASSUME NEW k, NEW v, Fresh(w, k, v)
      PROVE  Fresh(w, k, v)'
  BY <1>1, <1>2, <1>3, <1>4 DEF Fresh
<1> QED
  BY <1>2, <1>3, <1>4

LEMMA ReaderKept ==
  ASSUME Grown, NEW w \in Requests, call[w] # None, made'[w] = made[w], NEW r \in Requests,
         Kept(r), FreshReader(w, r)
  PROVE  FreshReader(w, r)'
<1>1. /\ call'[r] = call[r] /\ todo'[r] = todo[r] /\ reading'[r] = reading[r] /\ ever'[r] = ever[r]
      /\ verdict'[r] = verdict[r] /\ KeyOf(r)' = KeyOf(r) /\ call'[w] = call[w]
  BY KeyKept DEF Kept, ClientKept, Grown
<1>2. PICK k, v, u, E : k = KeyOf(r) /\ v = reading[r] /\ u = call[r].user /\ E = ever[r]
  OBVIOUS
<1>3. KeyOf(r)' = k /\ reading'[r] = v /\ call'[r].user = u /\ ever'[r] = E
  BY <1>1, <1>2
<1>4. At(r, "count") \/ At(r, "set") \/ At(r, "register") => Fresh(w, k, v)'
  BY <1>2, FreshKept DEF FreshReader
<1>5. call'[r].kind \notin PageKinds => Recent(w, v)'
  BY <1>1, <1>2, FreshKept DEF FreshReader
<1>6. \A b : Lists(w, u, b)' => Lists(w, u, b)
  BY FreshKept
<1>7. PICK b : b = (call[r].kind = "stats"
                   \/ (call[r].kind \in Paginations /\ call[r].query.filter = "none"))
  OBVIOUS
<1>8. Succeeded(r, PageKinds) /\ Lists(w, u, b) => \E e \in E : e.id = made[w]
  BY <1>2, <1>7 DEF FreshReader
<1>9. (At(r, "count") \/ At(r, "set") \/ At(r, "register"))'
        => At(r, "count") \/ At(r, "set") \/ At(r, "register")
  BY <1>1 DEF At, Running
<1>10. Succeeded(r, PageKinds)' => Succeeded(r, PageKinds)
  BY <1>1 DEF Succeeded, Ended, Running, PageKinds, Paginations
<1>11. Succeeded(r, PageKinds)' /\ Lists(w, u, b)' => \E e \in E : e.id = made'[w]
  BY <1>6, <1>10, <1>8
<1>12. Succeeded(r, PageKinds)' /\ Lists(w, call[r].user,
         call[r].kind = "stats" \/ (call[r].kind \in Paginations /\ call[r].query.filter = "none"))'
         => \E e \in ever'[r] : e.id = made'[w]
  <2>1. b = (call'[r].kind = "stats"
             \/ (call'[r].kind \in Paginations' /\ call'[r].query.filter = "none"))
    BY <1>1, <1>7
  <2> QED
    BY <1>3, <1>11, <2>1
<1>13. call'[w].kind = "remove" => \A e \in ever'[r] : e.id # call'[w].id
  BY <1>1 DEF FreshReader
<1>14. (At(r, "count") \/ At(r, "set") \/ At(r, "register"))' => Fresh(w, KeyOf(r), reading[r])'
  BY <1>3, <1>4, <1>9
<1>15. call'[r].kind \notin PageKinds => Recent(w, reading[r])'
  BY <1>3, <1>5
<1> QED
  BY <1>12, <1>13, <1>14, <1>15 DEF FreshReader

\* What r finds is fresh, and so is then what r has been shown.
LEMMA ReaderFound ==
  ASSUME CatalogTypeOK, ShapeInv, Grown, NEW w \in Requests, call[w] # None, made'[w] = made[w],
         NEW r \in Requests, call[r] # None, NEW v, FoundIn(r, v), Fresh(w, KeyOf(r), v),
         FreshReader(w, r)
  PROVE  FreshReader(w, r)'
<1>1. /\ WellFormed(call[r]) /\ Looking(call[r]) /\ v \in Values /\ Found(r, v)
      /\ call'[r] = call[r] /\ call'[w] = call[w]
  BY DEF FoundIn, Grown
<1>2. PICK k : k = KeyOf(r)
  OBVIOUS
<1>3. /\ k.user = call[r].user
      /\ call[r].kind \in Paginations =>
           k.of = "tasks" /\ k.query = call[r].query /\ k \notin CategoryKeys
      /\ call[r].kind = "stats" => k.of = "stats" /\ k \notin CategoryKeys
      /\ call[r].kind \notin PageKinds => k \in CategoryKeys
  BY <1>1, <1>2, KeyFacts
<1>4. Fresh(w, k, v)
  BY <1>2
<1>5. /\ call[r].kind \in Paginations => ever'[r] = ever[r] \cup v.ever
      /\ call[r].kind = "stats" => ever'[r] = v.ever
      /\ call[r].kind \notin PageKinds => ever'[r] = ever[r] /\ reading'[r] = v
  BY <1>1, FoundFacts
<1>6. ~ (At(r, "count") \/ At(r, "set") \/ At(r, "register"))'
  <2>1. First(todo'[r]) \in {"end", "flag", "get", "insert", "save", "rename"}
    BY <1>1, FoundFirst
  <2> QED
    BY <2>1, AtFirst DEF Steps
<1>7. ASSUME call[w].kind = "remove"
      PROVE  \A e \in ever'[r] : e.id # call[w].id
  BY <1>3, <1>4, <1>5, <1>7 DEF Fresh, FreshReader, PageKinds
<1>8. ASSUME call[r].kind \notin PageKinds
      PROVE  Recent(w, reading[r])'
  <2>1. Recent(w, v)
    BY <1>3, <1>4, <1>8 DEF Fresh
  <2>2. Recent(w, v)'
    BY <2>1, FreshKept
  <2> QED
    BY <1>5, <1>8, <2>2
<1>9. PICK u, b :
        /\ u = call[r].user
        /\ b = (call[r].kind = "stats"
                \/ (call[r].kind \in Paginations /\ call[r].query.filter = "none"))
  OBVIOUS
<1>10. /\ call'[r].user = u
       /\ b = (call'[r].kind = "stats"
               \/ (call'[r].kind \in Paginations' /\ call'[r].query.filter = "none"))
  BY <1>1, <1>9
<1>11. ASSUME Lists(w, u, b)'
       PROVE  \E e \in ever'[r] : e.id = made[w]
  <2>1. Lists(w, u, b)
    BY <1>11, FreshKept
  <2>2. b = TRUE
    BY <1>9, <2>1 DEF Lists
  <2>3. call[r].kind \in PageKinds /\ v.ever \subseteq ever'[r]
    BY <1>5, <1>9, <2>2 DEF PageKinds
  <2>4. k.of = "stats" \/ (k.of = "tasks" /\ k.query.filter = "none")
    BY <1>3, <1>9, <2>2
  <2>5. Lists(w, k.user, k.of = "stats" \/ (k.of = "tasks" /\ k.query.filter = "none"))
    BY <1>3, <1>9, <2>1, <2>4 DEF Lists
  <2> QED
    BY <1>4, <2>3, <2>5 DEF Fresh
<1>12. Lists(w, call[r].user,
         call[r].kind = "stats" \/ (call[r].kind \in Paginations /\ call[r].query.filter = "none"))'
         => \E e \in ever'[r] : e.id = made'[w]
  BY <1>10, <1>11
<1> QED
  BY <1>1, <1>6, <1>7, <1>8, <1>12 DEF FreshReader

\* What r does not find in the cache it reads itself.
LEMMA ReaderQuiet ==
  ASSUME CatalogTypeOK, ShapeInv, CreationInv, EffectInv, ValueInv, Grown,
         NEW w \in Requests, Done(w), made'[w] = made[w],
         NEW r \in Requests, Step(r), Quiet(r), FreshReader(w, r)
  PROVE  FreshReader(w, r)'
<1>1. /\ call[w] # None /\ call[r] # None /\ call'[r] = call[r] /\ call'[w] = call[w]
      /\ place'[r] = place[r] /\ ever'[r] = ever[r]
  BY StepFrame, DoneWritten DEF Grown, Quiet
<1>2. KeyOf(r)' = KeyOf(r)
  BY <1>1, KeyKept
<1>3. ASSUME Query(r)
      PROVE  Fresh(w, KeyOf(r), Queried(r)) /\ WellFormed(call[r]) /\ Looking(call[r])
  <2>1. /\ WellFormed(call[r]) /\ Looking(call[r])
        /\ call[r].kind = "offset" => place[r] >= 1
    BY <1>3, LookupFacts DEF Query
  <2> QED
    BY <2>1, QueriedFresh
<1>4. ASSUME Count(r)
      PROVE  Fresh(w, KeyOf(r), reading'[r]) /\ call[r].kind = "offset"
  <2>1. /\ At(r, "count") /\ WellFormed(call[r]) /\ Looking(call[r]) /\ call[r].kind = "offset"
        /\ place[r] >= 1
    BY <1>4, LookupFacts DEF Count
  <2>2. Fresh(w, KeyOf(r), reading[r])
    BY <2>1 DEF FreshReader
  <2>3. /\ reading'[r].ever = reading[r].ever \cup Listed(r)
        /\ reading'[r].version = reading[r].version
    BY <1>4, CountFrame
  <2>4. call[w].kind = "remove" => \A e \in Listed(r) : e.id # call[w].id
    BY <2>1, QueriedFresh DEF Paginations
  <2> QED
    BY <2>1, <2>2, <2>3, <2>4 DEF Fresh, Recent
<1>5. ASSUME First(todo'[r]) \in {"count", "set", "register"}
      PROVE  Fresh(w, KeyOf(r), reading'[r])
  <2>1. CASE Query(r) /\ reading'[r] = Queried(r)
    BY <2>1, <1>3
  <2>2. CASE Count(r)
    BY <2>2, <1>4
  <2>3. CASE SetCached(r)
    <3>1. At(r, "set") /\ reading'[r] = reading[r]
      BY <2>3 DEF SetCached, clientVars
    <3> QED
      BY <3>1 DEF FreshReader
  <2> QED
    BY <1>5, <2>1, <2>2, <2>3, StepFirst
<1>6. ASSUME call[r].kind \notin PageKinds
      PROVE  Recent(w, reading'[r])
  <2>1. CASE reading'[r] = reading[r]
    BY <1>6, <2>1 DEF FreshReader
  <2>2. CASE Count(r)
    BY <1>4, <1>6, <2>2 DEF PageKinds, Paginations
  <2>3. CASE Query(r) /\ reading'[r] = Queried(r)
    <3>1. KeyOf(r) \in CategoryKeys
      BY <1>3, <1>6, <2>3, KeyFacts
    <3> QED
      BY <1>3, <2>3, <3>1 DEF Fresh
  <2> QED
    BY <2>1, <2>2, <2>3 DEF Quiet
<1>7. ~ Succeeded(r, PageKinds)'
  BY <1>1 DEF Quiet, Succeeded, Ended, Running, PageKinds, Paginations
<1>8. PICK k, v : k = KeyOf(r) /\ v = reading'[r]
  OBVIOUS
<1>9. KeyOf(r)' = k /\ reading'[r] = v
  BY <1>2, <1>8
<1>10. ASSUME (At(r, "count") \/ At(r, "set") \/ At(r, "register"))'
       PROVE  Fresh(w, KeyOf(r), reading[r])'
  <2>1. Fresh(w, k, v)
    BY <1>5, <1>8, <1>10, AtFirst DEF Steps
  <2>2. Fresh(w, k, v)'
    BY <1>1, <2>1, FreshKept
  <2> QED
    BY <1>9, <2>2
<1>11. ASSUME call[r].kind \notin PageKinds
       PROVE  Recent(w, reading[r])'
  <2>1. Recent(w, v)'
    BY <1>1, <1>6, <1>8, <1>11, FreshKept
  <2> QED
    BY <1>9, <2>1
<1>12. call'[w].kind = "remove" => \A e \in ever'[r] : e.id # call'[w].id
  BY <1>1 DEF FreshReader
<1> QED
  BY <1>1, <1>7, <1>10, <1>11, <1>12 DEF FreshReader

\* A write is answered after its cache has been cleared, unless it is refused.
LEMMA WriterEnds ==
  ASSUME CatalogTypeOK, ShapeInv, CreationInv, ValueInv, NEW r \in Requests, Step(r), Writes(r),
         todo'[r] = <<>>, verdict'[r] = "ok"
  PROVE  ForgetKeys(r)
<1>1. /\ AwaitOk(call[r], todo[r]) /\ First(todo[r]) = Head(todo[r]) /\ Running(r)
      /\ WellFormed(call[r])
  BY StepFrame, AtAwait
<1>2. ASSUME NEW s \in Steps \ {"register", "clear"}, At(r, s)
      PROVE  todo'[r] # Tail(todo[r])
  <2>1. First(todo[r]) = s
    BY <1>2, AtFirst
  <2>2. CASE s \in {"flag", "get", "query", "count", "set"}
    <3>1. First(Tail(todo[r])) # "end"
      BY <2>1, <2>2, <1>1 DEF AwaitOk
    <3> QED
      BY <3>1 DEF First
  <2>3. CASE s \in {"insert", "save", "rename", "file", "drop"}
    <3>1. Tail(todo[r]) = <<"commit", "clear">> \/ Tail(todo[r]) = <<"clear">>
      BY <2>1, <2>3, <1>1 DEF AwaitOk
    <3> QED
      BY <3>1, Tuples
  <2>4. CASE s = "commit"
    <3>1. todo[r] = <<"commit", "clear">>
      BY <2>1, <2>4, <1>1 DEF AwaitOk
    <3> QED
      BY <3>1, Tuples
  <2> QED
    BY <2>2, <2>3, <2>4 DEF Steps
<1>3. ASSUME NEW v, FoundIn(r, v)
      PROVE  FALSE
  BY <1>3, FoundUnwritten DEF FoundIn, Writes, Changing
<1>4. ~ CheckFlag(r)
  BY <1>2, FlagFrame DEF CheckFlag, Steps
<1>5. ~ Miss(r)
  BY <1>2, MissFrame DEF Miss, Steps
<1>6. ~ Query(r)
  <2> SUFFICES ASSUME Query(r)
               PROVE  FALSE
    OBVIOUS
  <2>1. At(r, "query") /\ Looking(call[r]) /\ Changing(call[r])
    BY LookupFacts DEF Query, Writes, Changing
  <2>2. ~ Found(r, Queried(r))
    BY <2>1, <1>1, QueryFrame, FoundUnwritten
  <2> QED
    BY <2>1, <2>2, <1>2, QueryFrame DEF Steps
<1>7. ~ Count(r)
  BY <1>2, CountFrame DEF Count, Steps
<1>8. ~ SetCached(r)
  BY <1>2, SetFrame DEF SetCached, Steps
<1>9. ~ Hit(r)
  <2> SUFFICES ASSUME Hit(r)
               PROVE  FALSE
    OBVIOUS
  <2>1. At(r, "get") /\ Looking(call[r]) /\ Changing(call[r]) /\ Found(r, cache[KeyOf(r)])
    BY LookupFacts DEF Hit, Writes, Changing
  <2> QED
    BY <2>1, <1>1, HitFrame, FoundUnwritten
<1>10. ~ RegisterKey(r)
  <2> SUFFICES ASSUME RegisterKey(r)
               PROVE  FALSE
    OBVIOUS
  <2>1. At(r, "register") /\ Looking(call[r]) /\ Changing(call[r]) /\ Found(r, reading[r])
    BY LookupFacts DEF RegisterKey, Writes, Changing
  <2> QED
    BY <2>1, <1>1, RegisterFrame, FoundUnwritten
<1>11. ~ Insert(r)
  BY <1>2, InsertFrame DEF Insert, Steps
<1>12. ~ Commit(r)
  BY <1>2, CommitFrame DEF Commit, Steps
<1>13. ~ SaveTask(r)
  BY <1>2, SaveFrame DEF SaveTask, Steps
<1>14. ~ FileCategory(r)
  BY <1>2, FileFrame DEF FileCategory, WriteCategory, CategoryWritten, Steps
<1>15. ~ RenameCategory(r)
  BY <1>2, RenameFrame DEF RenameCategory, WriteCategory, CategoryWritten, Steps
<1>16. ~ DropCategory(r)
  BY <1>2, DropFrame DEF DropCategory, WriteCategory, CategoryWritten, Steps
<1>17. ~ ClearKey(r)
  BY <1>1, ClearFrame DEF Running
<1> QED
  BY <1>4, <1>5, <1>6, <1>7, <1>8, <1>9, <1>10, <1>11, <1>12, <1>13, <1>14, <1>15, <1>16, <1>17
     DEF Step

\* A write that has been answered before the step.
LEMMA FreshLater ==
  ASSUME CatalogTypeOK, ShapeInv, CreationInv, EffectInv, ValueInv, NEW w \in Requests, Done(w),
         ~ Excused(w), FreshFor(w), NEW r \in Requests, Step(r)
  PROVE  FreshFor(w)'
<1>1. Frame(r) /\ Running(r) /\ call[r] # None /\ call[w] # None
  BY StepFrame, DoneWritten
<1>2. Grown /\ w # r
  BY <1>1 DEF Frame, Grown, Done, Ended
<1>3. made'[w] = made[w] /\ call'[w] = call[w]
  BY <1>1, <1>2 DEF Frame, Kept
<1>4. ASSUME NEW k \in Keys, cache'[k] # None
      PROVE  Fresh(w, k, cache[k])'
  <2>1. PICK v : v = cache'[k]
    OBVIOUS
  <2>2. Fresh(w, k, v)
    <3>1. CASE cache'[k] = cache[k]
      BY <1>4, <2>1, <3>1 DEF FreshFor
    <3>2. CASE SetCached(r) /\ k = KeyOf(r) /\ cache'[k] = reading[r]
      <4>1. At(r, "set") /\ Looking(call[r])
        BY <3>2, LookupFacts DEF SetCached
      <4>2. FreshReader(w, r)
        BY <1>1, <4>1, ReaderLater DEF FreshFor
      <4> QED
        BY <2>1, <3>2, <4>1, <4>2 DEF FreshReader
    <3> QED
      BY <1>4, <3>1, <3>2, StepCache
  <2>3. Fresh(w, k, v)'
    BY <1>1, <1>2, <1>3, <2>2, FreshKept
  <2> QED
    BY <2>1, <2>3
<1>5. ASSUME NEW x \in Requests, w \in before'[x]
      PROVE  FreshReader(w, x)'
  <2>1. FreshReader(w, x)
    BY <1>1, <1>5 DEF Frame, FreshFor
  <2>2. CASE x # r
    <3>1. Kept(x)
      BY <1>1, <2>2 DEF Frame
    <3> QED
      BY <1>1, <1>2, <1>3, <2>1, <3>1, ReaderKept
  <2>3. CASE x = r /\ Quiet(r)
    BY <1>2, <1>3, <2>1, <2>3, ReaderQuiet
  <2>4. CASE x = r /\ \E v \in Values : FoundIn(r, v)
    <3>1. PICK v \in Values : FoundIn(r, v)
      BY <2>4
    <3>2. /\ WellFormed(call[r]) /\ Looking(call[r]) /\ KeyOf(r) \in Keys
          /\ call[r].kind = "offset" => place[r] >= 1
      BY <3>1 DEF FoundIn
    <3>3. Fresh(w, KeyOf(r), v)
      <4>1. CASE Hit(r) /\ v = cache[KeyOf(r)]
        BY <3>2, <4>1 DEF Hit, FreshFor
      <4>2. CASE RegisterKey(r) /\ v = reading[r]
        BY <2>1, <2>4, <4>2 DEF RegisterKey, FreshReader
      <4>3. CASE Query(r) /\ v = Queried(r)
        BY <3>2, <4>3, QueriedFresh
      <4> QED
        BY <3>1, <4>1, <4>2, <4>3 DEF FoundIn
    <3> QED
      BY <1>1, <1>2, <1>3, <2>1, <2>4, <3>1, <3>3, ReaderFound
  <2> QED
    BY <2>2, <2>3, <2>4, StepFound
<1> QED
  BY <1>4, <1>5 DEF FreshFor

\* A write that is answered by the step.
LEMMA FreshNow ==
  ASSUME CatalogTypeOK, ShapeInv, CreationInv, SetAgain, AllKnown, NEW w \in Requests, ForgetKeys(w),
         ~ Excused(w)
  PROVE  FreshFor(w)'
<1>1. Frame(w) /\ todo[w] = <<"clear">> /\ UNCHANGED <<cache, before, made, call>>
  BY ForgetFrame DEF ForgetKeys, storeVars, callVars
<1>2. Running(w) /\ call[w] # None /\ \A x \in Requests : w \notin before[x]
  BY <1>1, Tuples DEF Running, ShapeInv, RequestInv, Ended
<1>3. Grown
  BY <1>1 DEF Grown
<1>4. ASSUME NEW k \in Keys, cache'[k] # None
      PROVE  Fresh(w, k, cache[k])'
  <2>1. PICK v : v = cache[k]
    OBVIOUS
  <2>2. ~ (k \in CategoryKeys <=> call[w].kind \in {"file", "rename", "drop"})
    BY <1>1, <1>4, EndedFresh
  <2>3. k \in CategoryKeys => k.of # "stats" /\ k.of # "tasks"
    BY DEF CategoryKeys, Key
  <2>4. Fresh(w, k, v)
    BY <2>2, <2>3 DEF Fresh, Lists, Recent
  <2>5. Fresh(w, k, v)'
    BY <1>1, <1>2, <1>3, <2>4, FreshKept
  <2> QED
    BY <1>1, <2>1, <2>5
<1> QED
  BY <1>1, <1>2, <1>4 DEF FreshFor

LEMMA FreshStep ==
  ASSUME CatalogTypeOK, ShapeInv, CreationInv, EffectInv, ValueInv, RegistryInv, FreshInv,
         NEW r \in Requests, Step(r)
  PROVE  FreshInv'
<1>1. Frame(r) /\ Running(r) /\ call[r] # None /\ failures' = failures
  BY StepFrame
<1>2. Grown /\ call' = call
  BY <1>1 DEF Frame, Grown
<1> SUFFICES ASSUME failures' = 0, NEW w \in Requests, Done(w)', ~ Excused(w)'
             PROVE  FreshFor(w)'
  BY DEF FreshInv
<1>3. call[w] # None /\ ~ Excused(w) /\ SetAgain /\ AllKnown
  BY <1>1, <1>2, ExcusedKept DEF Done, Writes, RegistryInv
<1>4. CASE Done(w)
  <2>1. FreshFor(w)
    BY <1>1, <1>3, <1>4 DEF FreshInv
  <2> QED
    BY <1>3, <1>4, <2>1, FreshLater
<1>5. CASE ~ Done(w)
  <2>1. w = r
    <3>1. ~ Kept(w)
      BY <1>2, <1>5 DEF Kept, ClientKept, Done, Ended, Running, Writes, Readers, Paginations
    <3> QED
      BY <1>1, <3>1 DEF Frame
  <2>2. Writes(w) /\ todo'[w] = <<>> /\ verdict'[w] = "ok"
    BY <1>2 DEF Done, Ended, Running, Writes, Readers, Paginations
  <2> QED
    BY <1>3, <2>1, <2>2, WriterEnds, FreshNow
<1> QED
  BY <1>4, <1>5

\* Who arrives has read nothing.
LEMMA FreshArrive ==
  ASSUME CatalogTypeOK, ShapeInv, FreshInv, NEW r \in Requests, Arrive(r)
  PROVE  FreshInv'
<1>1. /\ call[r] = None /\ todo'[r] # <<>>
      /\ First(todo'[r]) \in {"flag", "get", "insert", "save", "file", "drop"}
      /\ UNCHANGED <<storeVars, cache, reading, ever, failures>>
      /\ \A q \in Requests \ {r} : Kept(q)
  BY ArriveFrame DEF cacheVars
<1>2. Grown
  BY <1>1 DEF Grown, Kept
<1> SUFFICES ASSUME failures' = 0, NEW w \in Requests, Done(w)', ~ Excused(w)'
             PROVE  FreshFor(w)'
  BY DEF FreshInv
<1>3. w # r
  BY <1>1 DEF Done, Ended, Running
<1>4. Done(w) /\ call[w] # None /\ made'[w] = made[w] /\ call'[w] = call[w]
  BY <1>1, <1>3 DEF Kept, ClientKept, Done, Ended, Running, Writes, Readers, Paginations
<1>5. FreshFor(w)
  BY <1>1, <1>2, <1>4, ExcusedKept DEF FreshInv
<1>6. ASSUME NEW k \in Keys, cache'[k] # None
      PROVE  Fresh(w, k, cache[k])'
  <2>1. PICK v : v = cache[k]
    OBVIOUS
  <2>2. Fresh(w, k, v)'
    BY <1>1, <1>2, <1>4, <1>5, <1>6, <2>1, FreshKept DEF FreshFor
  <2> QED
    BY <1>1, <2>1, <2>2
<1>7. ASSUME NEW x \in Requests \ {r}, w \in before'[x]
      PROVE  FreshReader(w, x)'
  <2>1. Kept(x) /\ w \in before[x]
    BY <1>1, <1>7 DEF Kept
  <2> QED
    BY <1>2, <1>4, <1>5, <2>1, ReaderKept DEF FreshFor
<1>8. FreshReader(w, r)'
  <2>1. reading'[r] = NoValue /\ ever'[r] = {}
    BY <1>1 DEF ShapeInv, RequestInv
  <2>2. ~ (At(r, "count") \/ At(r, "set") \/ At(r, "register"))'
    BY <1>1, AtFirst DEF Steps
  <2>3. ~ Succeeded(r, PageKinds)'
    BY <1>1 DEF Succeeded, Ended, Running
  <2>4. NoValue.version = None
    BY DEF NoValue
  <2>5. Recent(w, reading[r])'
    BY <2>1, <2>4 DEF Recent
  <2> QED
    BY <2>1, <2>2, <2>3, <2>5 DEF FreshReader
<1> QED
  BY <1>6, <1>7, <1>8 DEF FreshFor

-------------------------------------------------------------------------------
(* The invariant holds                                                     *)

LEMMA InitType ==
  CatalogInit => CatalogTypeOK
<1> SUFFICES ASSUME CatalogInit
             PROVE  CatalogTypeOK
  OBVIOUS
<1>1. DOMAIN Existing \subseteq Ids /\ \A i \in DOMAIN Existing : Existing[i] \in Users
  BY CatalogAssumption DEF Ids
<1>2. NoTask \in Tasks
  BY DEF NoTask, Tasks, Weights
<1>3. \A i \in DOMAIN Existing :
        [state |-> "live", owner |-> Existing[i], weight |-> 1, fits |-> i = 1] \in Tasks
  BY <1>1 DEF Tasks, Weights
<1>4. task \in [Ids -> Tasks]
  BY <1>2, <1>3 DEF CatalogInit
<1>5. NoValue \in Values
  BY CatalogAssumption DEF NoValue, Values
<1>6. 0 \in 0 .. MaxTask + 1 /\ 0 \in 0 .. MaxFaults
  BY CatalogAssumption
<1>7. category \in [state : {"absent", "live", "deleted"}, version : Nat]
  BY DEF CatalogInit
<1>8. /\ logged \subseteq Ids /\ announced \subseteq Ids
      /\ made \in [Requests -> Ids \cup {0}] /\ place \in [Requests -> 0 .. MaxTask + 1]
      /\ failures \in 0 .. MaxFaults
  BY <1>1, <1>6 DEF CatalogInit
<1>9. /\ DOMAIN cache = Keys /\ \A k \in Keys : cache[k] = None
      /\ registry \in [Processes -> SUBSET Keys] /\ cleared \in [Requests -> SUBSET Keys]
      /\ call \in [Requests -> Calls \cup {None}] /\ before \in [Requests -> SUBSET Requests]
  BY DEF CatalogInit
<1>10. /\ todo \in [Requests -> Seq(Steps)] /\ verdict \in [Requests -> Verdicts]
       /\ reading \in [Requests -> Values] /\ shown \in [Requests -> Seq(Ids)]
       /\ steady \in [Requests -> SUBSET Entries] /\ ever \in [Requests -> SUBSET Entries]
  BY <1>5 DEF CatalogInit, Verdicts
<1> QED
  BY <1>4, <1>7, <1>8, <1>9, <1>10 DEF CatalogTypeOK

LEMMA InitCatalog ==
  CatalogInit => CatalogInv
<1> SUFFICES ASSUME CatalogInit
             PROVE  CatalogInv
  OBVIOUS
<1>1. CatalogTypeOK
  BY InitType
<1>2. \A r \in Requests :
        /\ call[r] = None /\ todo[r] = <<>> /\ verdict[r] = "none" /\ made[r] = 0 /\ before[r] = {}
        /\ reading[r] = NoValue /\ shown[r] = <<>> /\ steady[r] = Entries /\ ever[r] = {}
        /\ cleared[r] = {}
  BY DEF CatalogInit
<1>3. \A k \in Keys : cache[k] = None
  BY DEF CatalogInit
<1>4. ShapeInv
  BY <1>2 DEF ShapeInv, RequestInv
<1>5. \A r \in Requests : ~ Running(r) /\ ~ Writes(r) /\ \A s : ~ At(r, s)
  BY <1>2 DEF Running, Writes, At
<1>6. /\ \A i \in Ids : task[i].state = IF i \in DOMAIN Existing THEN "live" ELSE "absent"
      /\ DOMAIN Existing \subseteq Ids
  BY CatalogAssumption DEF CatalogInit, NoTask, Ids
<1>7. logged = {i \in Ids : task[i].state # "absent"} /\ logged = announced
  BY <1>6 DEF CatalogInit
<1>8. CreationInv
  BY <1>2, <1>5, <1>7 DEF CreationInv
<1>9. EffectInv
  BY <1>5, <1>6 DEF EffectInv
<1>10. ValueInv
  BY <1>3, <1>5 DEF ValueInv, ReadingInv
<1>11. ClientInv
  BY <1>2 DEF ClientInv, ClientOk
<1>12. RegistryInv
  BY <1>2, <1>3 DEF RegistryInv, SetAgain, AllKnown
<1>13. FreshInv
  BY <1>5 DEF FreshInv, Done
<1> QED
  BY <1>1, <1>4, <1>8, <1>9, <1>10, <1>11, <1>12, <1>13 DEF CatalogInv

LEMMA StepCatalog ==
  ASSUME CatalogInv, NEW r \in Requests, Step(r)
  PROVE  CatalogInv'
<1>1. /\ CatalogTypeOK /\ ShapeInv /\ CreationInv /\ EffectInv
      /\ ValueInv /\ ClientInv /\ RegistryInv /\ FreshInv
  BY DEF CatalogInv
<1>2. CatalogTypeOK' /\ ShapeInv'
  BY <1>1, StepFrame, ShapeStep
<1>3. CreationInv' /\ EffectInv'
  BY <1>1, CreationStep, EffectStep
<1>4. ValueInv' /\ ClientInv'
  BY <1>1, ValueStep, ClientStep
<1>5. RegistryInv' /\ FreshInv'
  BY <1>1, RegistryStep, FreshStep
<1> QED
  BY <1>2, <1>3, <1>4, <1>5 DEF CatalogInv

LEMMA ArriveCatalog ==
  ASSUME CatalogInv, NEW r \in Requests, Arrive(r)
  PROVE  CatalogInv'
<1>1. /\ CatalogTypeOK /\ ShapeInv /\ CreationInv /\ EffectInv
      /\ ValueInv /\ ClientInv /\ RegistryInv /\ FreshInv
  BY DEF CatalogInv
<1>2. CatalogTypeOK' /\ ShapeInv' /\ CreationInv' /\ EffectInv'
  BY <1>1, ShapeArrive, CreationArrive, EffectArrive
<1>3. ValueInv' /\ ClientInv' /\ RegistryInv' /\ FreshInv'
  BY <1>1, ValueArrive, ClientArrive, RegistryArrive, FreshArrive
<1> QED
  BY <1>2, <1>3 DEF CatalogInv

LEMMA AbortCatalog ==
  ASSUME CatalogInv, NEW r \in Requests, AbortCreation(r)
  PROVE  CatalogInv'
<1>1. /\ CatalogTypeOK /\ ShapeInv /\ CreationInv /\ EffectInv
      /\ ValueInv /\ ClientInv /\ RegistryInv
  BY DEF CatalogInv
<1>2. CatalogTypeOK' /\ ShapeInv' /\ CreationInv' /\ EffectInv'
  BY <1>1, ShapeAbort, CreationAbort, EffectAbort
<1>3. ValueInv' /\ ClientInv' /\ RegistryInv'
  BY <1>1, ValueAbort, ClientAbort, RegistryAbort
<1>4. FreshInv'
  BY <1>1, AbortFrame DEF FreshInv
<1> QED
  BY <1>2, <1>3, <1>4 DEF CatalogInv

LEMMA FailedCatalog ==
  ASSUME CatalogInv, NEW S \in SUBSET Requests, Failed(S), \A r \in S : Running(r)
  PROVE  CatalogInv'
<1>1. /\ CatalogTypeOK /\ ShapeInv /\ CreationInv /\ EffectInv
      /\ ValueInv /\ ClientInv /\ RegistryInv
  BY DEF CatalogInv
<1>2. CatalogTypeOK' /\ ShapeInv' /\ CreationInv' /\ EffectInv'
  BY <1>1, ShapeFailed, CreationFailed, EffectFailed
<1>3. ValueInv' /\ ClientInv' /\ RegistryInv'
  BY <1>1, ValueFailed, ClientFailed, RegistryFailed
<1>4. FreshInv'
  BY DEF FreshInv, Failed
<1> QED
  BY <1>2, <1>3, <1>4 DEF CatalogInv

LEMMA CatalogStays ==
  CatalogInv /\ [CatalogNext]_catalogVars => CatalogInv'
<1> SUFFICES ASSUME CatalogInv, [CatalogNext]_catalogVars
             PROVE  CatalogInv'
  OBVIOUS
<1>1. CASE \E r \in Requests : Arrive(r)
  BY <1>1, ArriveCatalog
<1>2. CASE \E r \in Requests : Step(r)
  BY <1>2, StepCatalog
<1>3. CASE \E r \in Requests : AbortCreation(r)
  BY <1>3, AbortCatalog
<1>4. CASE (\E r \in Requests : CallRejected(r)) \/ (\E p \in Processes : ProcessDies(p))
  <2>1. PICK S \in SUBSET Requests : Failed(S) /\ \A r \in S : Running(r)
    BY <1>4, FaultFrame DEF CatalogInv
  <2> QED
    BY <2>1, FailedCatalog
<1>5. CASE UNCHANGED catalogVars
  <2>1. UNCHANGED <<task, logged, announced, made, category, cache, registry, cleared, reading,
                    place, shown, steady, ever, call, before, todo, verdict, failures>>
    BY <1>5 DEF catalogVars, storeVars, cacheVars, clientVars, callVars
  <2>2. /\ CatalogTypeOK /\ ShapeInv /\ CreationInv /\ EffectInv
        /\ ValueInv /\ ClientInv /\ RegistryInv /\ FreshInv
    BY DEF CatalogInv
  <2>3. \A q \in Requests : Kept(q) /\ KeyOf(q)' = KeyOf(q)
    BY <2>1, KeyKept DEF Kept, ClientKept
  <2>4. CatalogTypeOK'
    BY <2>1, <2>2 DEF CatalogTypeOK
  <2>5. ShapeInv'
    BY <2>1, <2>2, <2>3, RequestKept DEF ShapeInv, Ended, Running
  <2>6. CreationInv'
    BY <2>1, <2>2 DEF CreationInv, At, Running
  <2>7. EffectInv' /\ ValueInv' /\ ClientInv'
    BY <2>1, <2>2, <2>3, EffectOthers, ValueOthers, ClientOthers
  <2>8. Grown /\ StoreGrows
    BY <2>1, <2>2, StoreStays DEF Grown
  <2>9. RegistryInv'
    <3>1. SetAgain /\ (failures = 0 => AllKnown)
      BY <2>2 DEF RegistryInv
    <3>2. SetAgain'
      BY <2>1, <2>2, <2>8, <3>1, SetAgainKept
    <3>3. ASSUME failures' = 0, NEW p \in Processes, Undisturbed(p)', NEW k \in Keys, cache'[k] # None
          PROVE  Known(p, k)'
      <4>1. Known(p, k)
        BY <2>1, <2>8, <3>1, <3>3, UndisturbedBefore DEF AllKnown
      <4> QED
        BY <2>1, <2>3, <4>1 DEF Known, At, Running
    <3> QED
      BY <3>2, <3>3 DEF RegistryInv, AllKnown
  <2>10. FreshInv'
    <3> SUFFICES ASSUME failures' = 0, NEW w \in Requests, Done(w)', ~ Excused(w)'
                 PROVE  FreshFor(w)'
      BY DEF FreshInv
    <3>1. Done(w) /\ call[w] # None /\ ~ Excused(w)
      BY <2>1, <2>8, ExcusedKept DEF Done, Ended, Running, Writes, Readers, Paginations
    <3>2. FreshFor(w)
      BY <2>1, <2>2, <3>1 DEF FreshInv
    <3>3. ASSUME NEW k \in Keys, cache'[k] # None
          PROVE  Fresh(w, k, cache[k])'
      <4>1. PICK v : v = cache[k]
        OBVIOUS
      <4>2. Fresh(w, k, v)'
        BY <2>1, <2>8, <3>1, <3>2, <3>3, <4>1, FreshKept DEF FreshFor
      <4> QED
        BY <2>1, <4>1, <4>2
    <3>4. ASSUME NEW x \in Requests, w \in before'[x]
          PROVE  FreshReader(w, x)'
      BY <2>1, <2>3, <2>8, <3>1, <3>2, <3>4, ReaderKept DEF FreshFor
    <3> QED
      BY <3>3, <3>4 DEF FreshFor
  <2> QED
    BY <2>4, <2>5, <2>6, <2>7, <2>9, <2>10 DEF CatalogInv
<1> QED
  BY <1>1, <1>2, <1>3, <1>4, <1>5 DEF CatalogNext

\* The inductive invariant: what is left to do of each request, the tasks and the creations,
\* the writes that have taken effect, what is cached and read, what clients have been shown,
\* what processes know of the cache, and how old what is read may be.
THEOREM CatalogInvariance ==
  CatalogSpec => []CatalogInv
<1>1. CatalogInit => CatalogInv
  BY InitCatalog
<1>2. CatalogInv /\ [CatalogNext]_catalogVars => CatalogInv'
  BY CatalogStays
<1> QED
  BY <1>1, <1>2, PTL DEF CatalogSpec

\* Every variable keeps its type; so does every page, for any number of tasks and page size.
THEOREM CatalogTypeCorrectness ==
  CatalogSpec => []CatalogTypeOK
<1>1. CatalogInv => CatalogTypeOK
  BY DEF CatalogInv
<1> QED
  BY <1>1, CatalogInvariance, PTL

-------------------------------------------------------------------------------
(* What follows from it                                                    *)

\* A list with the ranks of all entries has each entry once.
LEMMA FollowsAll ==
  ASSUME NEW q, NEW E \in SUBSET Entries, OneEach(E), NEW s \in Seq(Ids), Follow(q, E, 0, s),
         Len(s) = Cardinality(E)
  PROVE  /\ \A m, n \in DOMAIN s : m # n => s[m] # s[n]
         /\ \A e \in E : \E n \in DOMAIN s : s[n] = e.id
         /\ \A n \in DOMAIN s : \E e \in E : s[n] = e.id
<1>1. /\ \A n \in DOMAIN s : \E e \in E : e.id = s[n] /\ Rank(q, E, e) = 0 + n - 1
      /\ DOMAIN s = 1 .. Len(s) /\ Len(s) \in Nat
  BY DEF Follow
<1>2. /\ \A e \in E : Rank(q, E, e) \in 0 .. Len(s) - 1
      /\ \A d, e \in E : Rank(q, E, d) = Rank(q, E, e) => d = e
  BY Ranks
<1>3. ASSUME NEW m \in DOMAIN s, NEW n \in DOMAIN s, s[m] = s[n]
      PROVE  m = n
  <2>1. PICK d \in E : d.id = s[m] /\ Rank(q, E, d) = 0 + m - 1
    BY <1>1
  <2>2. PICK e \in E : e.id = s[n] /\ Rank(q, E, e) = 0 + n - 1
    BY <1>1
  <2>3. d = e
    BY <1>3, <2>1, <2>2 DEF OneEach
  <2> QED
    BY <1>1, <2>1, <2>2, <2>3
<1>4. ASSUME NEW e \in E
      PROVE  \E n \in DOMAIN s : s[n] = e.id
  <2>1. PICK n : n = Rank(q, E, e) + 1
    OBVIOUS
  <2>2. n \in DOMAIN s /\ 0 + n - 1 = Rank(q, E, e)
    BY <1>1, <1>2, <2>1
  <2>3. PICK d \in E : d.id = s[n] /\ Rank(q, E, d) = 0 + n - 1
    BY <1>1, <2>2
  <2>4. d = e
    BY <1>2, <2>2, <2>3
  <2> QED
    BY <2>2, <2>3, <2>4
<1>5. \A n \in DOMAIN s : \E e \in E : s[n] = e.id
  BY <1>1
<1> QED
  BY <1>3, <1>4, <1>5

\* A finished walk with cursors has shown every task that was there all the time once, and
\* none twice, whatever was created and deleted between the pages and cached by whom; with
\* page numbers this is so if the list stayed the same.
THEOREM WalksComplete ==
  CatalogSpec => []WalkComplete
<1>1. ASSUME CatalogInv
      PROVE  WalkComplete
  <2> SUFFICES ASSUME NEW r \in Requests, Succeeded(r, Paginations),
                      call[r].kind = "cursor" \/ steady[r] = ever[r]
               PROVE  /\ \A m, n \in DOMAIN shown[r] : m # n => shown[r][m] # shown[r][n]
                      /\ \A e \in steady[r] : \E n \in DOMAIN shown[r] : shown[r][n] = e.id
                      /\ \A n \in DOMAIN shown[r] : \E e \in ever[r] : shown[r][n] = e.id
    BY DEF WalkComplete
  <2>1. /\ call[r] # None /\ ~ Running(r) /\ verdict[r] = "ok"
        /\ call[r].kind = "cursor" \/ call[r].kind = "offset"
    BY DEF Succeeded, Ended, Paginations
  <2>2. shown[r] \in Seq(Ids) /\ ever[r] \in SUBSET Entries
    BY <1>1 DEF CatalogInv, CatalogTypeOK
  <2>3. CASE call[r].kind = "cursor"
    <3>1. CursorWalk(r)
      BY <1>1, <2>1, <2>3 DEF CatalogInv, ClientInv, ClientOk
    <3>2. \A n \in DOMAIN shown[r] : n \in Nat /\ shown[r][n] \in Nat
      BY <2>2, CatalogAssumption DEF Ids
    <3>3. \A m, n \in DOMAIN shown[r] : m < n => shown[r][m] < shown[r][n]
      BY <3>1 DEF CursorWalk, Rising
    <3>4. \A m, n \in DOMAIN shown[r] : m # n => shown[r][m] # shown[r][n]
      <4> SUFFICES ASSUME NEW m \in DOMAIN shown[r], NEW n \in DOMAIN shown[r], m # n
                   PROVE  shown[r][m] # shown[r][n]
        OBVIOUS
      <4>1. m < n \/ n < m
        BY <3>2
      <4> QED
        BY <3>2, <3>3, <4>1
    <3>5. \A e \in steady[r] : \E n \in DOMAIN shown[r] : shown[r][n] = e.id
      BY <2>1, <3>1 DEF CursorWalk
    <3>6. \A n \in DOMAIN shown[r] : \E e \in ever[r] : shown[r][n] = e.id
      BY <3>1 DEF CursorWalk
    <3> QED
      BY <3>4, <3>5, <3>6
  <2>4. CASE call[r].kind = "offset" /\ steady[r] = ever[r]
    <3>1. OffsetWalk(r)
      BY <1>1, <2>1, <2>4 DEF CatalogInv, ClientInv, ClientOk
    <3>2. PICK q, s, E : q = call[r].query /\ s = shown[r] /\ E = ever[r]
      OBVIOUS
    <3>3. /\ E \in SUBSET Entries /\ s \in Seq(Ids) /\ OneEach(E) /\ Follow(q, E, 0, s)
          /\ Len(s) = Cardinality(E)
      BY <2>1, <2>2, <2>4, <3>1, <3>2 DEF OffsetWalk
    <3>4. /\ \A m, n \in DOMAIN s : m # n => s[m] # s[n]
          /\ \A e \in E : \E n \in DOMAIN s : s[n] = e.id
          /\ \A n \in DOMAIN s : \E e \in E : s[n] = e.id
      BY <3>3, FollowsAll
    <3> QED
      BY <2>4, <3>2, <3>4
  <2> QED
    BY <2>1, <2>3, <2>4
<1> QED
  BY <1>1, CatalogInvariance, PTL

\* Whatever is cached, under whichever key and by whichever process, a user who is no
\* administrator is shown his own tasks only, and counts only them.
THEOREM PagesStayPrivate ==
  CatalogSpec => []PagesArePrivate
<1>1. CatalogInv => PagesArePrivate
  BY DEF CatalogInv, ClientInv, ClientOk, ClientOwned, PagesArePrivate
<1> QED
  BY <1>1, CatalogInvariance, PTL

\* Who asks after a write was answered is told of it, except for what another process, or a
\* reader beside a writer, has cached.
THEOREM ReadsStayFresh ==
  CatalogSpec => []ReadsFresh
<1>1. ASSUME CatalogInv
      PROVE  ReadsFresh
  <2> SUFFICES ASSUME NEW w \in Requests, NEW r \in Requests, failures = 0, w \in before[r],
                      Writes(w), verdict[w] = "ok", Succeeded(r, Readers), ~ Reflects(r, w)
               PROVE  \E x \in Requests \ {r} :
                        /\ Reads(x) /\ w \notin before[x]
                        /\ \/ call[x].process # call[w].process
                           \/ \E y \in Requests \ {x} : Writes(y) /\ ~ Apart(x, y)
    BY DEF ReadsFresh
  <2>1. Done(w)
    BY <1>1 DEF CatalogInv, ShapeInv, RequestInv, Done
  <2>2. CASE Excused(w)
    BY <2>2 DEF Excused
  <2>3. CASE ~ Excused(w)
    <3>1. FreshReader(w, r)
      BY <1>1, <2>1, <2>3 DEF CatalogInv, FreshInv, FreshFor
    <3>2. ASSUME call[w].kind = "create",
                 \/ call[r].kind = "stats"
                 \/ call[r].kind \in Paginations /\ call[r].query.filter = "none",
                 call[r].user \in Admins \/ call[r].user = call[w].user, ~ Gone(made[w])
          PROVE  \E e \in ever[r] : e.id = made[w]
      <4>1. Succeeded(r, PageKinds)
        BY <3>2 DEF Succeeded, PageKinds
      <4> QED
        BY <3>1, <3>2, <4>1 DEF FreshReader, Lists
    <3>3. call[w].kind = "remove" => \A e \in ever[r] : e.id # call[w].id
      BY <3>1 DEF FreshReader
    <3>4. call[r].kind \in {"view", "list", "rename"} => Recent(w, reading[r])
      BY <3>1 DEF FreshReader, PageKinds, Paginations
    <3>5. Reflects(r, w)
      BY <3>2, <3>3, <3>4 DEF Reflects, Gone, Recent
    <3> QED
      BY <3>5
  <2> QED
    BY <2>2, <2>3
<1> QED
  BY <1>1, CatalogInvariance, PTL

\* A task, its activity and its event are committed together, and a creation that succeeds has
\* left its task, for any number of aborted transactions.
THEOREM CreationsAtomic ==
  CatalogSpec => []CreationAtomic
<1>1. ASSUME CatalogInv
      PROVE  CreationAtomic
  <2>1. logged = announced /\ logged = {i \in Ids : task[i].state # "absent"}
    BY <1>1 DEF CatalogInv, CreationInv
  <2>2. ASSUME NEW r \in Requests, Succeeded(r, {"create"})
        PROVE  made[r] \in logged
    <3>1. /\ Writes(r) /\ verdict[r] = "ok" /\ todo[r] = <<>> /\ call[r].kind = "create"
      BY <2>2 DEF Succeeded, Ended, Running, Writes, Readers, Paginations
    <3>2. Written(r)
      BY <1>1, <3>1 DEF CatalogInv, EffectInv
    <3>3. made[r] # 0 /\ task[made[r]].state # "absent" /\ made[r] \in Ids
      BY <1>1, <3>1, <3>2 DEF Written, CatalogInv, CatalogTypeOK
    <3> QED
      BY <2>1, <3>3
  <2> QED
    BY <2>1, <2>2 DEF CreationAtomic
<1> QED
  BY <1>1, CatalogInvariance, PTL

-------------------------------------------------------------------------------
(* The outbox: safety of OutboxDispatch for every number of events, runs,     *)
(* processes and failures.  The inductive invariant adds to the type           *)
(* invariant what a run knows about the event it has claimed: nobody but the   *)
(* holder moves an event out of PROCESSING, so what it read when it claimed    *)
(* stays true until it reports the outcome.                                    *)

\* What run r may rely on while it holds an event.
HolderInv(r) ==
  /\ current[r] # NoEvent <=> Holding(r)
  /\ Holding(r) => status[current[r]] \in {"PROCESSING", "COMPLETED"}
  /\ pc[r] \in {"add", "complete"} => status[current[r]] = "PROCESSING"
  /\ pc[r] = "add" => handed[current[r]] < attempts[current[r]]
  /\ pc[r] = "complete" => handed[current[r]] > 0

\* What is true of an event whoever holds it.
EventInv(e) ==
  /\ status[e] = "COMPLETED" \/ job[e] # "NONE" => handed[e] > 0
  /\ handed[e] <= attempts[e]

Inv ==
  /\ TypeOK
  /\ ClaimExclusive
  /\ \A r \in Runs : HolderInv(r)
  /\ \A e \in Events : EventInv(e)

-------------------------------------------------------------------------------

\* Events are numbers from 1 on, so that NoEvent is none of them.
LEMMA EventsAreNotNoEvent == NoEvent \notin Events /\ Events \subseteq Nat
  BY BoundsAssumption DEF Events, NoEvent

\* Before the first event the invariant holds.
LEMMA InitInv == Init => Inv
  BY EventsAreNotNoEvent DEF Init, Inv, TypeOK, ClaimExclusive, HolderInv,
     EventInv, Holding, HoldingPoints, Points, StatusSet, Claimable

-------------------------------------------------------------------------------
(* The steps, one lemma each                                               *)

\* findPending changes no document.
LEMMA StartRunInv == ASSUME NEW r \in Runs, Inv, StartRun(r) PROVE Inv'
<1>1. FindPending \subseteq Events
  BY DEF FindPending
<1> QED
  BY <1>1, EventsAreNotNoEvent DEF Inv, TypeOK, ClaimExclusive, HolderInv, EventInv, Holding,
     HoldingPoints, Points, StartRun, docVars, queueVars

\* markProcessing claims an event that no other run holds.
LEMMA ClaimInv ==
  ASSUME NEW r \in Runs, NEW e \in Events, Inv, Claim(r, e) PROVE Inv'
<1> USE EventsAreNotNoEvent
<1>1. TypeOK'
  BY DEF Inv, TypeOK, Claim, Reaches, MarkProcessing, Goto, queueVars, Points,
     HoldingPoints, StatusSet
<1>2. \A s \in Runs : Holding(s) => current[s] # e
  BY DEF Inv, HolderInv, Claim, MarkProcessing, Claimable
<1>3. ClaimExclusive'
  BY <1>2 DEF Inv, TypeOK, ClaimExclusive, Holding, HoldingPoints, Claim, Goto
<1>4. ASSUME NEW s \in Runs PROVE HolderInv(s)'
  <2>1. CASE s = r
    BY <2>1 DEF Inv, TypeOK, HolderInv, EventInv, Holding, HoldingPoints, Claim,
       MarkProcessing, Goto, queueVars
  <2>2. CASE s # r
    BY <2>2, <1>2 DEF Inv, TypeOK, HolderInv, Holding, HoldingPoints, Claim,
       MarkProcessing, Goto, queueVars
  <2> QED BY <2>1, <2>2
<1>5. \A f \in Events : EventInv(f)'
  BY DEF Inv, TypeOK, EventInv, Claim, MarkProcessing, Claimable, queueVars
<1> QED
  BY <1>1, <1>3, <1>4, <1>5 DEF Inv

\* An event that another run has claimed is left alone.
LEMMA SkipInv ==
  ASSUME NEW r \in Runs, NEW e \in Events, Inv, Skip(r, e) PROVE Inv'
  BY EventsAreNotNoEvent DEF Inv, TypeOK, ClaimExclusive, HolderInv, EventInv, Holding,
     HoldingPoints, Points, Skip, Reaches, docVars, queueVars

\* A claim whose answer is lost belongs to no run.
LEMMA ClaimRejectedInv ==
  ASSUME NEW r \in Runs, NEW e \in Events, Inv, ClaimRejected(r, e) PROVE Inv'
<1> USE EventsAreNotNoEvent
<1>1. \A s \in Runs : Holding(s) => current[s] # e \/ status[e] \notin Claimable
  BY DEF Inv, HolderInv, Claimable
<1>2. CASE MarkProcessing(e)
  <2>1. TypeOK'
    BY <1>2 DEF Inv, TypeOK, ClaimRejected, MarkProcessing, MongoFault, Abort, Goto,
       queueVars, Points, StatusSet
  <2>2. ClaimExclusive' /\ \A s \in Runs : HolderInv(s)'
    BY <1>1, <1>2 DEF Inv, TypeOK, ClaimExclusive, HolderInv, Holding, HoldingPoints,
       ClaimRejected, MarkProcessing, Abort, Goto, queueVars
  <2>3. \A f \in Events : EventInv(f)'
    BY <1>2 DEF Inv, TypeOK, EventInv, ClaimRejected, MarkProcessing, queueVars
  <2> QED BY <2>1, <2>2, <2>3 DEF Inv
<1>3. CASE UNCHANGED docVars
  BY <1>3 DEF Inv, TypeOK, ClaimExclusive, HolderInv, EventInv, Holding, HoldingPoints,
     Points, ClaimRejected, MongoFault, Abort, Goto, docVars, queueVars
<1> QED BY <1>2, <1>3 DEF ClaimRejected

\* What a step of the holder may assume about its event, and about the others.
LEMMA HolderFacts ==
  ASSUME Inv, NEW r \in Runs, Holding(r)
  PROVE  /\ current[r] \in Events /\ current[r] # NoEvent
         /\ \A s \in Runs \ {r} : Holding(s) => current[s] # current[r]
  BY DEF Inv, TypeOK, ClaimExclusive, HolderInv

\* queue.add hands an event over at most once for its claim.
LEMMA AddInv ==
  ASSUME NEW r \in Runs, Inv, AddJob(r) \/ AddRejected(r) PROVE Inv'
<1> DEFINE e == current[r]
<1> USE EventsAreNotNoEvent
<1>1. /\ pc[r] = "add" /\ Holding(r) /\ UNCHANGED <<docVars, batch, seen>>
      /\ QueueAdd(e) \/ UNCHANGED queueVars
      /\ \/ Goto(r, "complete", e) /\ QueueAdd(e) /\ UNCHANGED faults
         \/ Goto(r, "failRead", e) /\ RedisFault
  BY DEF AddJob, AddRejected, Holding, HoldingPoints
<1>2. e \in Events /\ \A s \in Runs \ {r} : Holding(s) => current[s] # e
  BY <1>1, HolderFacts
<1>3. status[e] = "PROCESSING" /\ handed[e] < attempts[e]
  BY <1>1 DEF Inv, HolderInv
<1>4. handed' \in [Events -> Nat] /\ job' \in [Events -> {"NONE", "KEPT", "REMOVED"}]
  BY <1>1, <1>2 DEF Inv, TypeOK, QueueAdd, queueVars
<1>5. /\ \A f \in Events : f # e => handed'[f] = handed[f]
      /\ handed'[e] \in {handed[e], handed[e] + 1}
  BY <1>1, <1>2 DEF Inv, TypeOK, QueueAdd, queueVars
<1>6. TypeOK'
  BY <1>1, <1>2, <1>4 DEF Inv, TypeOK, Goto, RedisFault, docVars, Points, HoldingPoints
<1>7. ClaimExclusive'
  BY <1>1, <1>2 DEF Inv, TypeOK, ClaimExclusive, Holding, HoldingPoints, Goto
<1>8. \A f \in Events : EventInv(f)'
  BY <1>1, <1>2, <1>3 DEF Inv, TypeOK, EventInv, docVars, QueueAdd, queueVars
<1>9. ASSUME NEW s \in Runs PROVE HolderInv(s)'
  <2>1. CASE s # r
    <3>1. pc'[s] = pc[s] /\ current'[s] = current[s]
      BY <1>1, <2>1 DEF Goto, Inv, TypeOK
    <3>2. Holding(s) => current[s] \in Events /\ handed'[current[s]] = handed[current[s]]
      BY <1>2, <1>5, <2>1, HolderFacts
    <3>3. Holding(s)' <=> Holding(s)
      BY <3>1 DEF Holding
    <3> QED
      BY <1>1, <3>1, <3>2, <3>3 DEF Inv, HolderInv, Holding, HoldingPoints, docVars
  <2>2. CASE s = r
    <3>1. QueueAdd(e) => handed'[e] > 0
      <4>1. handed[e] \in Nat /\ (job[e] = "KEPT" => handed[e] > 0)
        BY <1>2 DEF Inv, TypeOK, EventInv
      <4>2. CASE job[e] = "KEPT"
        BY <4>1, <4>2 DEF QueueAdd, queueVars
      <4>3. CASE job[e] # "KEPT"
        BY <1>2, <4>1, <4>3 DEF QueueAdd, Inv, TypeOK
      <4> QED BY <4>2, <4>3
    <3>2. current'[r] = e /\ status'[e] = "PROCESSING"
      BY <1>1, <1>3 DEF Inv, TypeOK, Goto, docVars
    <3>3. \/ pc'[r] = "complete" /\ handed'[e] > 0
          \/ pc'[r] = "failRead"
      BY <1>1, <3>1 DEF Inv, TypeOK, Goto
    <3> QED
      BY <1>2, <2>2, <3>2, <3>3, HolderFacts, <1>1 DEF HolderInv, Holding, HoldingPoints
  <2> QED BY <2>1, <2>2
<1> QED BY <1>6, <1>7, <1>8, <1>9 DEF Inv

\* A step of holder r that touches no run but r and no event but its own, and
\* claims nothing new, leaves the claims exclusive and the other holders at ease.
LEMMA HolderFrame ==
  ASSUME Inv, NEW r \in Runs, Holding(r),
         \A s \in Runs \ {r} : pc'[s] = pc[s] /\ current'[s] = current[s],
         Holding(r)' => current'[r] = current[r],
         \A f \in Events \ {current[r]} :
           status'[f] = status[f] /\ attempts'[f] = attempts[f] /\ handed'[f] = handed[f]
  PROVE  ClaimExclusive' /\ \A s \in Runs \ {r} : HolderInv(s)'
<1>1. ClaimExclusive'
  BY DEF Inv, ClaimExclusive, Holding
<1>2. ASSUME NEW s \in Runs \ {r} PROVE HolderInv(s)'
  <2>1. Holding(s)' <=> Holding(s)
    BY DEF Holding
  <2>2. Holding(s) => current[s] \in Events \ {current[r]}
    BY HolderFacts
  <2>3. HolderInv(s)
    BY DEF Inv
  <2> QED
    BY <2>1, <2>2, <2>3 DEF HolderInv, Holding, HoldingPoints
<1> QED BY <1>1, <1>2

\* markCompleted gives the claim up, or the run goes on to markFailed.
LEMMA CompleteInv ==
  ASSUME NEW r \in Runs, Inv, Complete(r) \/ CompleteRejected(r) PROVE Inv'
<1> DEFINE e == current[r]
<1> USE EventsAreNotNoEvent
<1>1. /\ Holding(r) /\ pc[r] = "complete" /\ UNCHANGED <<queueVars, batch, seen>>
      /\ MarkCompleted(e) \/ UNCHANGED docVars
      /\ \/ NextIteration(r) /\ UNCHANGED faults
         \/ Goto(r, "failRead", e) /\ MongoFault
  BY DEF Complete, CompleteRejected, Holding, HoldingPoints
<1>2. e \in Events /\ status[e] = "PROCESSING" /\ handed[e] > 0
  BY <1>1, HolderFacts DEF Inv, HolderInv
<1>3. /\ UNCHANGED <<attempts, availableAt, job, handed>>
      /\ status' \in [Events -> StatusSet] /\ status'[e] \in {"PROCESSING", "COMPLETED"}
      /\ \A f \in Events \ {e} : status'[f] = status[f]
  BY <1>1, <1>2 DEF Inv, TypeOK, MarkCompleted, docVars, queueVars, StatusSet
<1>4. TypeOK'
  BY <1>1, <1>2, <1>3 DEF Inv, TypeOK, Goto, NextIteration, MongoFault, Points,
     HoldingPoints
<1>5. ClaimExclusive' /\ \A s \in Runs \ {r} : HolderInv(s)'
  <2>1. /\ \A s \in Runs \ {r} : pc'[s] = pc[s] /\ current'[s] = current[s]
        /\ Holding(r)' => current'[r] = e
    BY <1>1 DEF Inv, TypeOK, Goto, NextIteration, Holding, HoldingPoints
  <2> QED BY <1>1, <1>3, <2>1, HolderFrame
<1>6. HolderInv(r)'
  BY <1>1, <1>2, <1>3 DEF Inv, TypeOK, HolderInv, Goto, NextIteration, Holding,
     HoldingPoints
<1>7. \A f \in Events : EventInv(f)'
  BY <1>2, <1>3 DEF Inv, EventInv
<1> QED BY <1>4, <1>5, <1>6, <1>7 DEF Inv

\* The shape shared by the steps of markFailed.
LEMMA FailInv ==
  ASSUME NEW r \in Runs, Inv, FailRead(r) \/ FailWrite(r) \/ FailRejected(r) PROVE Inv'
<1> DEFINE e == current[r]
<1> USE EventsAreNotNoEvent
<1>1. /\ Holding(r) /\ pc[r] \in {"failRead", "failWrite"} /\ UNCHANGED queueVars
      /\ \/ FailRead(r) /\ UNCHANGED <<docVars, batch, faults>> /\ Goto(r, "failWrite", e)
         \/ /\ MarkFailed(e, seen[r]) /\ UNCHANGED <<batch, faults>> /\ NextIteration(r)
            /\ seen' = [seen EXCEPT ![r] = 0]
         \/ MarkFailed(e, seen[r]) /\ MongoFault /\ Abort(r)
         \/ UNCHANGED docVars /\ MongoFault /\ Abort(r)
  BY DEF FailRead, FailWrite, FailRejected, Holding, HoldingPoints
<1>2. e \in Events /\ status[e] \in {"PROCESSING", "COMPLETED"}
  BY <1>1, HolderFacts DEF Inv, HolderInv
<1>3. MarkFailed(e, seen[r]) \/ UNCHANGED docVars
  BY <1>1
<1>4. /\ UNCHANGED <<attempts, job, handed>>
      /\ status' \in [Events -> StatusSet]
      /\ availableAt' \in [Events -> {"UNSET", "FUTURE", "PAST"}]
      /\ status'[e] \in {"FAILED", status[e]}
      /\ \A f \in Events \ {e} : status'[f] = status[f]
  BY <1>1, <1>2, <1>3 DEF Inv, TypeOK, MarkFailed, docVars, queueVars, StatusSet, Claimable
<1>5. TypeOK'
  <2>1. FailRead(r) => seen' \in [Runs -> Nat]
    BY <1>2 DEF FailRead, Inv, TypeOK
  <2>2. /\ pc' \in [Runs -> Points] /\ current' \in [Runs -> Events \cup {NoEvent}]
        /\ seen' \in [Runs -> Nat] /\ batch' \in [Runs -> SUBSET Events]
    BY <1>1, <1>2, <2>1 DEF Inv, TypeOK, Goto, NextIteration, Abort, Points, HoldingPoints
  <2>3. faults' \in [redis : Nat, mongo : Nat, crash : Nat]
    BY <1>1 DEF Inv, TypeOK, MongoFault
  <2> QED BY <1>4, <2>2, <2>3 DEF Inv, TypeOK
<1>6. ClaimExclusive' /\ \A s \in Runs \ {r} : HolderInv(s)'
  <2>1. /\ \A s \in Runs \ {r} : pc'[s] = pc[s] /\ current'[s] = current[s]
        /\ Holding(r)' => current'[r] = e
    BY <1>1 DEF Inv, TypeOK, Goto, NextIteration, Abort, Holding, HoldingPoints
  <2> QED BY <1>1, <1>4, <2>1, HolderFrame
<1>7. HolderInv(r)'
  BY <1>1, <1>2 DEF Inv, TypeOK, HolderInv, Goto, NextIteration, Abort, Holding,
     HoldingPoints, docVars
<1>8. \A f \in Events : EventInv(f)'
  BY <1>2, <1>4 DEF Inv, EventInv
<1> QED BY <1>5, <1>6, <1>7, <1>8 DEF Inv

\* Producers, the clock and BullMQ do not touch claims.
LEMMA SurroundingsInv ==
  ASSUME NEW e \in Events, Inv, Create(e) \/ BackoffElapses(e) \/ JobRemoved(e) PROVE Inv'
<1>1. TypeOK' /\ ClaimExclusive'
  BY DEF Inv, TypeOK, ClaimExclusive, Holding, Create, BackoffElapses, JobRemoved, docVars,
     queueVars, runVars, StatusSet, Claimable
<1>2. ASSUME NEW s \in Runs PROVE HolderInv(s)'
  <2>1. Holding(s) => /\ current[s] \in Events
                      /\ status[current[s]] \in {"PROCESSING", "COMPLETED"}
    BY HolderFacts DEF Inv, HolderInv
  <2>2. \A f \in Events : status[f] # "ABSENT" => status'[f] = status[f]
    BY DEF Inv, TypeOK, Create, BackoffElapses, JobRemoved, docVars
  <2>3. UNCHANGED <<attempts, handed, pc, current>>
    BY DEF Create, BackoffElapses, JobRemoved, docVars, queueVars, runVars
  <2>4. HolderInv(s)
    BY DEF Inv
  <2> QED
    BY <2>1, <2>2, <2>3, <2>4 DEF HolderInv, Holding, HoldingPoints
<1>3. \A f \in Events : EventInv(f)'
  BY DEF Inv, TypeOK, EventInv, Create, BackoffElapses, JobRemoved, docVars, queueVars
<1> QED BY <1>1, <1>2, <1>3 DEF Inv

\* A process death gives the claims of its runs up.
LEMMA CrashInv == ASSUME NEW n \in Nodes, Inv, Crash(n) PROVE Inv'
  BY EventsAreNotNoEvent DEF Inv, TypeOK, ClaimExclusive, HolderInv, EventInv, Holding,
     HoldingPoints, Points, Crash, docVars, queueVars

-------------------------------------------------------------------------------

\* Every step preserves the invariant.
LEMMA NextInv == Inv /\ [Next]_vars => Inv'
<1> SUFFICES ASSUME Inv, [Next]_vars PROVE Inv'
  OBVIOUS
<1>1. CASE \E r \in Runs : StartRun(r) \/ RunStep(r) \/ RunFault(r)
  BY <1>1, StartRunInv, ClaimInv, SkipInv, ClaimRejectedInv, AddInv, CompleteInv, FailInv
     DEF RunStep, RunFault
<1>2. CASE \E e \in Events : Create(e) \/ BackoffElapses(e) \/ JobRemoved(e)
  BY <1>2, SurroundingsInv
<1>3. CASE \E n \in Nodes : Crash(n)
  BY <1>3, CrashInv
<1>4. CASE UNCHANGED vars
  BY <1>4 DEF Inv, TypeOK, ClaimExclusive, HolderInv, EventInv, Holding, vars, docVars,
     queueVars, runVars
<1> QED BY <1>1, <1>2, <1>3, <1>4 DEF Next

\* The dispatcher keeps the inductive invariant whatever is rejected or dies.
THEOREM Invariance == Spec => []Inv
  BY InitInv, NextInv, PTL DEF Spec

\* Every document and every run stays within the schema's values.
THEOREM TypeCorrectness == Spec => []TypeOK
  BY Invariance, PTL DEF Inv

\* Overlapping cron runs, in one process or several, never share an event.
THEOREM Exclusion == Spec => []ClaimExclusive
  BY Invariance, PTL DEF Inv

\* An event never has more jobs created for it than attempts counted.
THEOREM JobsPerAttempt == Spec => []HandedOverPerClaim
<1>1. Inv => HandedOverPerClaim
  BY DEF Inv, EventInv, HandedOverPerClaim
<1> QED BY <1>1, Invariance, PTL

-------------------------------------------------------------------------------
(* The dispatcher implements OutboxContract                                *)

accepted == {e \in Events : status[e] # "ABSENT"}
acked == {e \in Events : status[e] = "COMPLETED"}

\* A step that moves no document into or out of ABSENT or COMPLETED, and creates
\* no job, is invisible in the contract.
LEMMA Invisible ==
  ASSUME Inv, UNCHANGED handed,
         \A e \in Events : /\ status'[e] = "ABSENT" <=> status[e] = "ABSENT"
                           /\ status'[e] = "COMPLETED" <=> status[e] = "COMPLETED"
  PROVE  UNCHANGED Contract!vars
  BY DEF Contract!vars

\* The initial states are those of the contract.
LEMMA ContractInit == Init => Contract!Init
  BY DEF Init, Contract!Init

\* A claim is not visible in the contract.
LEMMA ClaimIsInvisible ==
  ASSUME NEW r \in Runs, NEW e \in Events, Inv,
         StartRun(r) \/ Claim(r, e) \/ Skip(r, e) \/ ClaimRejected(r, e)
  PROVE  UNCHANGED Contract!vars
<1>1. UNCHANGED handed
  BY DEF StartRun, Claim, Skip, ClaimRejected, queueVars
<1>2. MarkProcessing(e) \/ UNCHANGED status
  BY DEF StartRun, Claim, Skip, ClaimRejected, docVars
<1>3. MarkProcessing(e) =>
        \A f \in Events : status'[f] # status[f] =>
                            status[f] \in Claimable /\ status'[f] = "PROCESSING"
  BY DEF Inv, TypeOK, MarkProcessing
<1> QED BY <1>1, <1>2, <1>3, Invisible DEF Claimable

\* A job that is added is a hand-over of the contract, unless BullMQ still has it.
LEMMA AddIsHandOver ==
  ASSUME NEW r \in Runs, Inv, AddJob(r) \/ AddRejected(r)
  PROVE  Contract!Next \/ UNCHANGED Contract!vars
<1> DEFINE e == current[r]
<1>1. /\ Holding(r) /\ pc[r] = "add" /\ UNCHANGED status
      /\ QueueAdd(e) \/ UNCHANGED handed
  BY DEF AddJob, AddRejected, Holding, HoldingPoints, docVars, queueVars
<1>2. e \in Events /\ status[e] = "PROCESSING"
  BY <1>1, HolderFacts DEF Inv, HolderInv
<1>3. CASE UNCHANGED handed
  BY <1>1, <1>3, Invisible
<1>4. CASE handed' = [handed EXCEPT ![e] = @ + 1]
  BY <1>1, <1>2, <1>4 DEF Contract!Next, Contract!HandOver
<1> QED BY <1>1, <1>3, <1>4 DEF QueueAdd, queueVars

\* markCompleted acknowledges an event that was handed over.
LEMMA CompleteIsAck ==
  ASSUME NEW r \in Runs, Inv, Complete(r) \/ CompleteRejected(r)
  PROVE  Contract!Next \/ UNCHANGED Contract!vars
<1> DEFINE e == current[r]
<1>1. /\ Holding(r) /\ pc[r] = "complete" /\ UNCHANGED handed
      /\ MarkCompleted(e) \/ UNCHANGED status
  BY DEF Complete, CompleteRejected, Holding, HoldingPoints, docVars, queueVars
<1>2. e \in Events /\ status[e] = "PROCESSING" /\ handed[e] > 0
  BY <1>1, HolderFacts DEF Inv, HolderInv
<1>3. CASE UNCHANGED status
  BY <1>1, <1>3, Invisible
<1>4. CASE status' = [status EXCEPT ![e] = "COMPLETED"]
  <2>1. accepted' = accepted /\ acked' = acked \cup {e}
    BY <1>2, <1>4 DEF Inv, TypeOK, accepted, acked
  <2> QED BY <1>1, <1>2, <2>1 DEF Contract!Next, Contract!Ack, accepted, acked
<1> QED BY <1>1, <1>3, <1>4 DEF MarkCompleted

\* A failed hand-over is not visible in the contract.
LEMMA FailIsInvisible ==
  ASSUME NEW r \in Runs, Inv, FailRead(r) \/ FailWrite(r) \/ FailRejected(r)
  PROVE  UNCHANGED Contract!vars
<1>1. UNCHANGED handed /\ (MarkFailed(current[r], seen[r]) \/ UNCHANGED status)
  BY DEF FailRead, FailWrite, FailRejected, docVars, queueVars
<1>2. \A f \in Events : status'[f] # status[f] =>
                          status[f] = "PROCESSING" /\ status'[f] = "FAILED"
  BY <1>1 DEF Inv, TypeOK, MarkFailed, docVars
<1> QED BY <1>1, <1>2, Invisible

\* A new event is accepted by the contract; the rest is not visible in it.
LEMMA SurroundingsMapped ==
  ASSUME NEW e \in Events, Inv, Create(e) \/ BackoffElapses(e) \/ JobRemoved(e)
  PROVE  Contract!Next \/ UNCHANGED Contract!vars
<1>1. CASE Create(e)
  <2>1. accepted' = accepted \cup {e} /\ acked' = acked /\ UNCHANGED handed
    BY <1>1 DEF Inv, TypeOK, Create, queueVars, accepted, acked
  <2>2. Contract!Accept(e)
    BY <1>1, <2>1 DEF Create, Contract!Accept, accepted, acked
  <2> QED BY <2>2 DEF Contract!Next
<1>2. CASE BackoffElapses(e) \/ JobRemoved(e)
  BY <1>2, Invisible DEF BackoffElapses, JobRemoved, docVars, queueVars
<1> QED BY <1>1, <1>2

\* Every step is a step of the contract or changes nothing of it.
LEMMA StepMapped == Inv /\ [Next]_vars => [Contract!Next]_(Contract!vars)
<1> SUFFICES ASSUME Inv, [Next]_vars
             PROVE  Contract!Next \/ UNCHANGED Contract!vars
  OBVIOUS
<1>1. CASE \E r \in Runs : RunStep(r) \/ RunFault(r)
  BY <1>1, ClaimIsInvisible, AddIsHandOver, CompleteIsAck, FailIsInvisible
     DEF RunStep, RunFault
<1>2. CASE \E r \in Runs : StartRun(r)
  BY <1>2, Invisible DEF StartRun, docVars, queueVars
<1>3. CASE \E e \in Events : Create(e) \/ BackoffElapses(e) \/ JobRemoved(e)
  BY <1>3, SurroundingsMapped
<1>4. CASE \E n \in Nodes : Crash(n)
  BY <1>4, Invisible DEF Crash, docVars, queueVars
<1>5. CASE UNCHANGED vars
  BY <1>5, Invisible DEF vars, docVars, queueVars
<1> QED BY <1>1, <1>2, <1>3, <1>4, <1>5 DEF Next

\* The dispatcher, with every overlap, rejection and crash, implements the
\* at-least-once contract of the outbox.
THEOREM Refinement == Spec => ImplementsContract
<1>1. Init => Contract!Init
  BY ContractInit
<1>2. Inv /\ [Next]_vars => [Contract!Next]_(Contract!vars)
  BY StepMapped
<1> QED BY <1>1, <1>2, Invariance, PTL DEF Spec, ImplementsContract, Contract!SafeSpec

-------------------------------------------------------------------------------
(* How many events can be lost.  An event is stranded when it is PROCESSING    *)
(* and no run holds it.  A step that does not fail strands none, a rejected    *)
(* MongoDB call at most the one event it was about, and the death of a process *)
(* at most those its runs held.                                                *)

StrandedEvents == {e \in Events : Stranded(e)}

\* What a run holds, as a function that a process death empties.
HeldEvents == {current[r] : r \in Runs}

LossInv == Inv /\ StrandedBound

-------------------------------------------------------------------------------
(* Counting                                                                *)

\* Events are finitely many, and so are those that are stranded.
LEMMA StrandedFinite ==
  /\ IsFiniteSet(StrandedEvents)
  /\ IsFiniteSet(StrandedEvents')
  /\ Cardinality(StrandedEvents) \in Nat
  /\ Cardinality(StrandedEvents') \in Nat
<1>1. IsFiniteSet(Events)
  BY FS_Interval, BoundsAssumption DEF Events
<1>2. StrandedEvents \in SUBSET Events /\ StrandedEvents' \in SUBSET Events
  BY DEF StrandedEvents
<1>3. IsFiniteSet(StrandedEvents) /\ IsFiniteSet(StrandedEvents')
  BY <1>1, <1>2, FS_Subset
<1> QED BY <1>3, FS_CardinalityType

\* A step that adds nothing but members of X adds at most as many as X has.
LEMMA AddedAtMost ==
  ASSUME NEW X, IsFiniteSet(X), StrandedEvents' \subseteq StrandedEvents \cup X
  PROVE  Cardinality(StrandedEvents') <= Cardinality(StrandedEvents) + Cardinality(X)
<1>1. IsFiniteSet(StrandedEvents \cap X)
  BY StrandedFinite, FS_Subset
<1>2. /\ Cardinality(X) \in Nat
      /\ Cardinality(StrandedEvents \cap X) \in Nat
  BY <1>1, FS_CardinalityType
<1>3. /\ IsFiniteSet(StrandedEvents \cup X)
      /\ Cardinality(StrandedEvents \cup X)
           = Cardinality(StrandedEvents) + Cardinality(X)
               - Cardinality(StrandedEvents \cap X)
  BY StrandedFinite, FS_Union
<1>4. Cardinality(StrandedEvents') <= Cardinality(StrandedEvents \cup X)
  BY <1>3, FS_Subset
<1> QED BY <1>2, <1>3, <1>4, StrandedFinite

\* The runs hold no more events than there are runs.
LEMMA HeldAtMost ==
  /\ IsFiniteSet(HeldEvents) /\ Cardinality(HeldEvents) <= Cardinality(Runs)
  /\ Cardinality(Runs) \in Nat /\ Cardinality(HeldEvents) \in Nat
<1> DEFINE f == [r \in Runs |-> current[r]]
<1>1. f \in Surjection(Runs, HeldEvents)
  BY DEF Surjection, HeldEvents
<1>2. IsFiniteSet(Runs)
  BY HostAssumption
<1>3. IsFiniteSet(HeldEvents) /\ Cardinality(HeldEvents) <= Cardinality(Runs)
  BY <1>1, <1>2, FS_Surjection
<1> QED BY <1>2, <1>3, FS_CardinalityType

-------------------------------------------------------------------------------
(* The steps                                                               *)

\* What a run does while nothing fails, and a refused queue.add, strand nothing:
\* the run goes on with its event, or lets it go COMPLETED or FAILED.
LEMMA RunStrandsNothing ==
  ASSUME Inv, NEW r \in Runs,
         StartRun(r) \/ RunStep(r) \/ AddRejected(r) \/ CompleteRejected(r)
  PROVE  StrandedEvents' \subseteq StrandedEvents
<1> USE DEF Inv, TypeOK, StrandedEvents, Stranded
<1>1. CASE StartRun(r)
  BY <1>1 DEF StartRun, docVars
<1>2. ASSUME NEW e \in Events, Claim(r, e)
      PROVE  StrandedEvents' \subseteq StrandedEvents
  <2>1. current[r] = NoEvent
    BY <1>2 DEF HolderInv, Claim, Reaches, Holding, HoldingPoints
  <2> QED BY <1>2, <2>1, EventsAreNotNoEvent DEF Claim, MarkProcessing, Goto
<1>3. ASSUME NEW e \in Events, Skip(r, e)
      PROVE  StrandedEvents' \subseteq StrandedEvents
  BY <1>3 DEF Skip, docVars
<1>4. CASE AddJob(r) \/ FailRead(r) \/ AddRejected(r)
  BY <1>4 DEF AddJob, FailRead, AddRejected, Goto, docVars
<1>5. CASE Complete(r)
  BY <1>5 DEF Complete, MarkCompleted, NextIteration, Goto
<1>6. CASE CompleteRejected(r)
  BY <1>6 DEF CompleteRejected, MarkCompleted, Goto, docVars
<1>7. CASE FailWrite(r)
  BY <1>7 DEF FailWrite, MarkFailed, NextIteration, Goto, docVars
<1> QED BY <1>1, <1>2, <1>3, <1>4, <1>5, <1>6, <1>7 DEF RunStep

\* A rejected MongoDB call that ends the run strands one event at most.
LEMMA AbortStrandsOne ==
  ASSUME Inv, NEW r \in Runs,
         FailRejected(r) \/ (\E e \in Events : ClaimRejected(r, e))
  PROVE  \E x : StrandedEvents' \subseteq StrandedEvents \cup {x}
<1> USE DEF Inv, TypeOK, StrandedEvents, Stranded
<1>1. CASE FailRejected(r)
  <2>1. StrandedEvents' \subseteq StrandedEvents \cup {current[r]}
    BY <1>1 DEF FailRejected, MarkFailed, Abort, Goto, docVars
  <2> QED BY <2>1
<1>2. ASSUME NEW e \in Events, ClaimRejected(r, e)
      PROVE  StrandedEvents' \subseteq StrandedEvents \cup {e}
  <2>1. current[r] = NoEvent
    BY <1>2 DEF HolderInv, ClaimRejected, Reaches, Holding, HoldingPoints
  <2> QED BY <1>2, <2>1, EventsAreNotNoEvent
       DEF ClaimRejected, MarkProcessing, Abort, Goto, docVars
<1> QED BY <1>1, <1>2

\* A process that dies strands nothing but what its runs held.
LEMMA CrashStrandsHeld ==
  ASSUME Inv, NEW n \in Nodes, Crash(n)
  PROVE  StrandedEvents' \subseteq StrandedEvents \cup HeldEvents
  BY DEF Inv, TypeOK, StrandedEvents, Stranded, HeldEvents, Crash, docVars

\* New events are PENDING; the clock and the workers do not touch the status.
LEMMA SurroundingsStrandNothing ==
  ASSUME Inv, NEW e \in Events, Create(e) \/ BackoffElapses(e) \/ JobRemoved(e)
  PROVE  StrandedEvents' \subseteq StrandedEvents
  BY DEF Inv, TypeOK, StrandedEvents, Stranded, Create, BackoffElapses, JobRemoved,
     runVars, docVars

-------------------------------------------------------------------------------
(* The bound                                                               *)

\* The counters of faults never go back.
LEMMA FaultsGrow ==
  ASSUME Inv, [Next]_vars
  PROVE  faults'.mongo >= faults.mongo /\ faults'.crash >= faults.crash
  BY DEF vars, Inv, TypeOK, Next, StartRun, RunStep, Claim, Skip, AddJob, Complete, FailRead,
     FailWrite, RunFault, ClaimRejected, AddRejected, CompleteRejected, FailRejected,
     RedisFault, MongoFault, Create, BackoffElapses, JobRemoved, Crash

\* No step exceeds the bound.
LEMMA BoundKept == LossInv /\ [Next]_vars => LossInv'
<1> SUFFICES ASSUME LossInv, [Next]_vars PROVE StrandedBound'
  BY NextInv DEF LossInv
<1> DEFINE N == Cardinality(StrandedEvents)
           N2 == Cardinality(StrandedEvents')
           C == Cardinality(Runs)
<1>1. /\ N \in Nat /\ N2 \in Nat /\ C \in Nat
      /\ faults.mongo \in Nat /\ faults.crash \in Nat
      /\ faults'.mongo \in Nat /\ faults'.crash \in Nat
  BY StrandedFinite, HeldAtMost, NextInv DEF LossInv, Inv, TypeOK
<1>2. N <= faults.mongo + C * faults.crash
  BY DEF LossInv, StrandedBound, StrandedEvents
<1>3. SUFFICES N2 <= faults'.mongo + C * faults'.crash
  BY DEF StrandedBound, StrandedEvents
<1> HIDE DEF N, N2, C
<1>4. CASE StrandedEvents' \subseteq StrandedEvents
  <2>1. faults'.mongo >= faults.mongo /\ faults'.crash >= faults.crash
    BY FaultsGrow DEF LossInv
  <2>2. N2 <= N
    BY <1>4, StrandedFinite, FS_Subset DEF N, N2
  <2>3. C * faults'.crash >= C * faults.crash
    BY <1>1, <2>1
  <2> QED BY <1>1, <1>2, <2>1, <2>2, <2>3
<1>5. ASSUME NEW r \in Runs, FailRejected(r) \/ (\E e \in Events : ClaimRejected(r, e))
      PROVE  N2 <= faults'.mongo + C * faults'.crash
  <2>1. faults'.mongo = faults.mongo + 1 /\ faults'.crash = faults.crash
    BY <1>5 DEF LossInv, Inv, TypeOK, FailRejected, ClaimRejected, MongoFault
  <2>2. PICK x : StrandedEvents' \subseteq StrandedEvents \cup {x}
    BY <1>5, AbortStrandsOne DEF LossInv
  <2>3. N2 <= N + 1
    BY <2>2, AddedAtMost, FS_Singleton DEF N, N2
  <2> QED BY <1>1, <1>2, <2>1, <2>3
<1>6. ASSUME NEW n \in Nodes, Crash(n)
      PROVE  N2 <= faults'.mongo + C * faults'.crash
  <2>1. faults'.mongo = faults.mongo /\ faults'.crash = faults.crash + 1
    BY <1>6 DEF LossInv, Inv, TypeOK, Crash
  <2>2. N2 <= N + C
    BY <1>6, CrashStrandsHeld, AddedAtMost, HeldAtMost, <1>1 DEF LossInv, N, N2, C
  <2>3. C * (faults.crash + 1) = C * faults.crash + C
    BY <1>1
  <2> QED BY <1>1, <1>2, <2>1, <2>2, <2>3
<1>7. CASE UNCHANGED vars
  BY <1>7, <1>4 DEF vars, docVars, runVars, StrandedEvents, Stranded
<1>8. CASE \E r \in Runs : StartRun(r) \/ RunStep(r) \/ AddRejected(r) \/ CompleteRejected(r)
  BY <1>8, <1>4, RunStrandsNothing DEF LossInv
<1>9. CASE \E e \in Events : Create(e) \/ BackoffElapses(e) \/ JobRemoved(e)
  BY <1>9, <1>4, SurroundingsStrandNothing DEF LossInv
<1> QED BY <1>5, <1>6, <1>7, <1>8, <1>9 DEF Next, RunFault

\* Before the first event none is stranded.
LEMMA BoundInit == Init => LossInv
<1> SUFFICES ASSUME Init PROVE StrandedBound
  BY InitInv DEF LossInv
<1>1. {e \in Events : Stranded(e)} = {}
  BY DEF Init, Stranded
<1>2. faults.mongo = 0 /\ faults.crash = 0
  BY DEF Init
<1>3. Cardinality(Runs) \in Nat
  BY HeldAtMost
<1>4. Cardinality({e \in Events : Stranded(e)}) = 0
  BY <1>1, FS_EmptySet
<1>5. Cardinality(Runs) * faults.crash = 0
  BY <1>2, <1>3
<1> QED BY <1>2, <1>4, <1>5 DEF StrandedBound

\* However many events, overlapping runs, processes and failures there are:
\* each rejected MongoDB call strands at most one event, each process death at
\* most one per run, and nothing else loses any.
THEOREM LossesBounded == Spec => []StrandedBound
<1>1. LossInv => StrandedBound
  BY DEF LossInv
<1> QED BY <1>1, BoundInit, BoundKept, PTL DEF Spec

=============================================================================
