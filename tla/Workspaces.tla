------------------------------- MODULE Workspaces -------------------------------
(* The workspace with one slug, its owner's membership, its feature flags and   *)
(* its settings.  Creation inserts the four documents one after the other and   *)
(* outside of a transaction, so that it may stop in between; flags and settings *)
(* that are missing are created by the first request that writes them, or reads *)
(* the settings.  Unique indexes on slug, membership and both documents decide  *)
(* who comes first when several requests have found nothing.                    *)
(*                                                                              *)
(* Workspaces and memberships are neither changed nor deleted, and only found   *)
(* ones are cached, so that a lookup in the cache finds what the database has:  *)
(* the cache is left out.  A request is the list of the awaits it has still to  *)
(* do, each a record of what is done on which document.                         *)
EXTENDS Authorization, Integers, FiniteSets, Sequences

CONSTANTS
  Requests,     \* each is one HTTP request, or one isEnabled of another component
  First,        \* names the workspace that may exist at first
  Users,
  Fields,       \* the fields of flags and settings that the instance looks at
  Defaults,     \* DEFAULT_WORKSPACE_FEATURE_FLAGS and DEFAULT_WORKSPACE_SETTINGS
  Changes,      \* bound: what updates ask for: a document, and values of some of its fields
  None,         \* no workspace, user, role or document; no value of a field
  MaxFaults     \* bound: requests that are stopped by a rejection or a process death

Docs == {"flags", "settings"}

\* What a document has in each field, or a change for it.
Documents == [Fields -> BOOLEAN \cup {None}]

ASSUME WorkspacesAssumption ==
  /\ First \notin Requests
  /\ Defaults \in [Docs -> [Fields -> BOOLEAN]]
  /\ Changes \subseteq [doc : Docs, change : Documents]
  /\ None \notin Requests \cup {First} \cup Users /\ None \notin Docs \cup Roles
  /\ None \notin BOOLEAN
  /\ MaxFaults \in Nat

VARIABLES
  workspace,  \* which creation has made the workspace of the slug
  role,       \* the role that each user has in it
  doc,        \* its flags and its settings
  call,       \* what each request asks for
  todo,       \* the awaits that each request has still to do
  verdict,    \* how each request is going to be answered, or was
  shown,      \* the document that each request answers with
  before,     \* the requests that had ended when each one arrived
  faults      \* faults so far

storeVars == <<workspace, role, doc>>
vars == <<storeVars, call, todo, verdict, shown, before, faults>>

Origins == Requests \cup {First}

Kinds == {"create", "get", "update", "isEnabled"}
Calls == [kind : Kinds, user : Users \cup {None}, doc : Docs \cup {None},
          change : Documents]
Steps == [do : {"findSlug", "insertWorkspace", "insertOwner", "guard", "find", "insert",
                "update", "audit"},
          on : Docs \cup {None}]
Verdicts == {"none", "ok", "refused", "error"}

ASSUME DocumentAssumption == None \notin Documents \cup Calls

TypeOK ==
  /\ workspace \in Origins \cup {None}
  /\ role \in [Users -> Roles \cup {None}]
  /\ doc \in [Docs -> Documents \cup {None}]
  /\ call \in [Requests -> Calls \cup {None}]
  /\ todo \in [Requests -> Seq(Steps)]
  /\ verdict \in [Requests -> Verdicts]
  /\ shown \in [Requests -> Documents \cup {None}]
  /\ before \in [Requests -> SUBSET Requests]
  /\ faults \in 0 .. MaxFaults

\* There is no workspace, or one whose creation has ended after some of its inserts (the demo
\* data, too, have neither flags nor settings); others may have joined it since.
Init ==
  /\ workspace \in {None, First}
  /\ role \in [Users -> Roles \cup {None}]
  /\ doc \in {[d \in Docs |-> IF d \in S THEN Defaults[d] ELSE None] : S \in SUBSET Docs}
  /\ workspace = None => \A u \in Users : role[u] = None
  /\ Cardinality({u \in Users : role[u] = "OWNER"}) <= 1
  /\ (\A u \in Users : role[u] # "OWNER") =>
       (\A u \in Users : role[u] = None) /\ \A d \in Docs : doc[d] = None
  /\ call = [r \in Requests |-> None]
  /\ todo = [r \in Requests |-> <<>>]
  /\ verdict = [r \in Requests |-> "none"]
  /\ shown = [r \in Requests |-> None]
  /\ before = [r \in Requests |-> {}]
  /\ faults = 0

Running(r) == todo[r] # <<>>
Ended(r) == call[r] # None /\ ~ Running(r)
At(r, s) == Running(r) /\ Head(todo[r]).do = s

\* The document that the next await of r is about.
Doc(r) == Head(todo[r]).on

\* r goes on with its next await.
Proceed(r) ==
  /\ todo' = [todo EXCEPT ![r] = Tail(@)]
  /\ UNCHANGED verdict

\* r ends with the answer v.
Answer(r, v) ==
  /\ todo' = [todo EXCEPT ![r] = <<>>]
  /\ verdict' = [verdict EXCEPT ![r] = v]

-------------------------------------------------------------------------------
(* Requests                                                                *)

Step(s, d) == [do |-> s, on |-> d]

\* createDefaultConfiguration, createDefaultSettings: look first, then insert.
FindOrInsert(d) == <<Step("find", d), Step("insert", d)>>

\* The awaits of a request that finds no document and is not refused.
Plan(c) ==
  CASE c.kind = "create" ->
         <<Step("findSlug", None), Step("insertWorkspace", None), Step("insertOwner", None)>>
         \o FindOrInsert("flags") \o FindOrInsert("settings") \o <<Step("audit", None)>>
    [] c.kind = "update" -> <<Step("guard", None)>> \o FindOrInsert(c.doc)
    [] c.kind = "get" ->
         <<Step("guard", None)>>
         \o (IF c.doc = "settings" THEN FindOrInsert(c.doc) ELSE <<Step("find", c.doc)>>)
    [] c.kind = "isEnabled" -> <<Step("find", c.doc)>>

\* The fields that a request leaves out are not changed; those that it has are Named.
NoChange == [f \in Fields |-> None]
Named(r) == {f \in Fields : call[r].change[f] # None}

\* A request arrives, or another component asks for a flag.
Arrive(r) ==
  /\ call[r] = None
  /\ \E c \in Calls :
       /\ c.kind = "create" <=> c.doc = None
       /\ c.kind = "isEnabled" <=> c.user = None
       /\ c.kind = "isEnabled" => c.doc = "flags"
       /\ IF c.kind = "update"
            THEN [doc |-> c.doc, change |-> c.change] \in Changes
            ELSE c.change = NoChange
       /\ c.kind # "create" => workspace # None
       /\ call' = [call EXCEPT ![r] = c]
       /\ todo' = [todo EXCEPT ![r] = Plan(c)]
  /\ verdict' = [verdict EXCEPT ![r] = "ok"]
  /\ before' = [before EXCEPT ![r] = {q \in Requests : Ended(q)}]
  /\ UNCHANGED <<storeVars, shown, faults>>

-------------------------------------------------------------------------------
(* Creation                                                                *)

\* CreateWorkspaceHandler: findBySlug
FindSlug(r) ==
  /\ At(r, "findSlug")
  /\ IF workspace # None THEN Answer(r, "refused") ELSE Proceed(r)
  /\ UNCHANGED <<storeVars, call, shown, before, faults>>

\* workspaceRepository.create: the unique index on the slug refuses a second one, and the
\* error is not translated.
InsertWorkspace(r) ==
  /\ At(r, "insertWorkspace")
  /\ IF workspace # None
       THEN Answer(r, "error") /\ UNCHANGED workspace
       ELSE workspace' = r /\ Proceed(r)
  /\ UNCHANGED <<role, doc, call, shown, before, faults>>

\* Mutant of InsertOwner: the owner is given another role.
InsertOwnerAsAdmin(r) ==
  /\ At(r, "insertOwner")
  /\ role' = [role EXCEPT ![call[r].user] = "ADMIN"]
  /\ Proceed(r)
  /\ UNCHANGED <<workspace, doc, call, shown, before, faults>>

\* membershipRepository.create
InsertOwner(r) ==
  /\ At(r, "insertOwner")
  /\ role' = [role EXCEPT ![call[r].user] = "OWNER"]
  /\ Proceed(r)
  /\ UNCHANGED <<workspace, doc, call, shown, before, faults>>

\* auditService.log
Audit(r) ==
  /\ At(r, "audit")
  /\ Proceed(r)
  /\ UNCHANGED <<storeVars, call, shown, before, faults>>

-------------------------------------------------------------------------------
(* Flags and settings                                                      *)

\* The route that c comes by.
RouteName(c) ==
  CASE c.kind = "update" -> (IF c.doc = "flags" THEN "updateFlags" ELSE "updateSettings")
    [] c.kind = "get"    -> (IF c.doc = "flags" THEN "getFlags" ELSE "getSettings")

\* PoliciesGuard: the membership is looked up and the policy of the route is asked.  (It is
\* asked here in the workspace of the path; the code prefers one that query or body name.  No
\* property relies on a refusal.)
Guard(r) ==
  /\ At(r, "guard")
  /\ IF \E route \in SettingsRoutes \cup WorkspaceRoutes :
          /\ route.name = RouteName(call[r])
          /\ Admits(route, role[call[r].user], FALSE, {})
       THEN Proceed(r)
       ELSE Answer(r, "refused")
  /\ UNCHANGED <<storeVars, call, shown, before, faults>>

\* What getFlags answers, and what isEnabled goes by, if the flags are x.
GetFlags(x) ==
  IF x = None THEN Defaults["flags"]
  ELSE [f \in Fields |-> IF x[f] = None THEN Defaults["flags"][f] ELSE x[f]]
IsEnabled(x) ==
  IF x = None THEN Defaults["flags"]
  ELSE [f \in Fields |-> IF x[f] = None THEN FALSE ELSE x[f]]

\* What r answers if the document is x.
Shown(r, x) ==
  CASE call[r].kind = "isEnabled" -> IsEnabled(x)
    [] call[r].kind = "get" /\ call[r].doc = "flags" -> GetFlags(x)
    [] OTHER -> x

\* findByWorkspaceId.  An existing document is not inserted, and an update changes it.
Find(r) ==
  /\ At(r, "find")
  /\ LET d == Doc(r)
         next == Tail(todo[r])
         rest == IF next # <<>> /\ Head(next) = Step("insert", d) THEN Tail(next) ELSE next
     IN /\ todo' = [todo EXCEPT ![r] =
                      IF doc[d] = None THEN next
                      ELSE IF call[r].kind = "update" THEN <<Step("update", d)>>
                      ELSE rest]
        /\ shown' = [shown EXCEPT ![r] = Shown(r, doc[d])]
  /\ UNCHANGED <<storeVars, call, verdict, before, faults>>

\* The document x with the change that r asks for.
Changed(r, x) == [f \in Fields |-> IF f \in Named(r) THEN call[r].change[f] ELSE x[f]]

\* Mutant of New: a document that an update inserts has only the fields that it names.
NewPartial(r, d) == Changed(r, IF call[r].kind = "update" THEN NoChange ELSE Defaults[d])

\* The document that r inserts.
New(r, d) == Changed(r, Defaults[d])

\* create: the unique index on the workspace refuses a second document, and the error is not
\* translated.
Insert(r) ==
  /\ At(r, "insert")
  /\ LET d == Doc(r) IN
       IF doc[d] # None
         THEN Answer(r, "error") /\ UNCHANGED <<doc, shown>>
         ELSE /\ doc' = [doc EXCEPT ![d] = New(r, d)]
              /\ shown' = [shown EXCEPT ![r] = New(r, d)]
              /\ Proceed(r)
  /\ UNCHANGED <<workspace, role, call, before, faults>>

\* Mutant of Update: the document that was read is written back with the change.
UpdateFromCopy(r) ==
  /\ At(r, "update")
  /\ LET d == Doc(r) IN
       /\ doc' = [doc EXCEPT ![d] = Changed(r, shown[r])]
       /\ shown' = [shown EXCEPT ![r] = Changed(r, shown[r])]
  /\ Proceed(r)
  /\ UNCHANGED <<workspace, role, call, before, faults>>

\* update: findOneAndUpdate sets the named fields; no document is an error.
Update(r) ==
  /\ At(r, "update")
  /\ LET d == Doc(r) IN
       IF doc[d] = None
         THEN Answer(r, "error") /\ UNCHANGED <<doc, shown>>
         ELSE /\ doc' = [doc EXCEPT ![d] = Changed(r, @)]
              /\ shown' = [shown EXCEPT ![r] = Changed(r, doc[d])]
              /\ Proceed(r)
  /\ UNCHANGED <<workspace, role, call, before, faults>>

-------------------------------------------------------------------------------
\* An await of r rejects, or its process dies, before or after the call has taken effect
\* (an effect without an answer is the step followed by this action).
Stop(r) ==
  /\ Running(r)
  /\ faults < MaxFaults
  /\ faults' = faults + 1
  /\ Answer(r, "error")
  /\ UNCHANGED <<storeVars, call, shown, before>>

Next ==
  \E r \in Requests :
    \/ Arrive(r)
    \/ FindSlug(r) \/ InsertWorkspace(r) \/ InsertOwner(r) \/ Audit(r)
    \/ Guard(r) \/ Find(r) \/ Insert(r) \/ Update(r)
    \/ Stop(r)

Spec == Init /\ [][Next]_vars

-------------------------------------------------------------------------------
(* Properties                                                              *)

Is(r, k) == call[r] # None /\ call[r].kind = k
Succeeded(r, k) == Is(r, k) /\ Ended(r) /\ verdict[r] = "ok"

\* A creation that is answered with success has made the workspace, its owner, flags and
\* settings, and it is the only one for the slug.  Without a fault, a creation that has made the
\* workspace stops early only if another request inserted flags or settings between its
\* look and its insert; the owner is a member by then.
CreationAccounted ==
  \A r \in Requests : Is(r, "create") /\ Ended(r) =>
    /\ verdict[r] = "ok" =>
         workspace = r /\ role[call[r].user] = "OWNER" /\ \A d \in Docs : doc[d] # None
    /\ verdict[r] = "error" /\ workspace = r /\ faults = 0 =>
         /\ role[call[r].user] = "OWNER"
         /\ \E q \in Requests : /\ q # r /\ q \notin before[r] /\ call[q] # None
                                /\ call[q].kind \in {"update", "get"} /\ doc[call[q].doc] # None

\* The requests that may have set the field f, which r has set, to another value, after r or
\* while it ran.
Overwrites(q, r, f) ==
  /\ Is(q, "update") /\ q \notin before[r] /\ verdict[q] # "refused"
  /\ call[q].doc = call[r].doc /\ f \in Named(q) /\ call[q].change[f] # call[r].change[f]

\* Every field of an update that was answered is in the document, and shown to whoever asks
\* afterwards, until another one of the same field: updates of different fields do not undo
\* each other, whether they change the document or create it.
UpdatesKept ==
  \A r \in Requests : Succeeded(r, "update") =>
    LET d == call[r].doc
        kept(f, x) == x[f] = call[r].change[f]
    IN \A f \in Named(r) :
         \/ \E q \in Requests : Overwrites(q, r, f)
         \/ /\ kept(f, doc[d])
            /\ \A q \in Requests :
                 Ended(q) /\ verdict[q] = "ok" /\ r \in before[q] /\ call[q].doc = d
                 => kept(f, shown[q])

\* The flags that GET shows are those that webhooks, exports, reminders and the task list go
\* by, although the two ways to read them treat a missing flag differently.
FlagAnswersAgree == GetFlags(doc["flags"]) = IsEnabled(doc["flags"])
===============================================================================
