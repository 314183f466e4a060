---------------------------- MODULE WorkspacesProofs ----------------------------
(* The roles form a hierarchy, and what ties a member to a task matters exactly *)
(* where the policy asks about that task.                                       *)
(*                                                                              *)
(* A workspace is accounted for by the creation that has made it, updates of    *)
(* flags and settings are kept, and the two ways to read the flags agree.  Inv  *)
(* says, of every request, which awaits may be left of it, and what has been    *)
(* done by then; that requests know of each other in the order of their         *)
(* arrivals; and that a document which a creation looked for in vain is still   *)
(* missing, or inserted by a request of which the creation has not seen the end.*)
(* Every await is summed up by its Effect, what it may change for others; the   *)
(* rest of the invariant follows from that for all requests but its own.        *)
(*                                                                              *)
(* The last sections prove of the interceptor in front of the creating endpoint *)
(* that replays are genuine, with any incidents, and that without incidents one *)
(* key gets one resource and keeps the response.                                *)
EXTENDS Workspaces, Idempotency, FiniteSetTheorems, SequenceTheorems, TLAPS

-------------------------------------------------------------------------------
(* Authorization                                                           *)

\* Whatever ties two users have in common, the higher role can what the lower one can.
LEMMA Stronger ==
  ASSUME NEW a \in {"manage", "create", "read", "update", "delete"},
         NEW s \in Subjects, NEW ties \in SUBSET Ties
  PROVE  /\ Can("VIEWER", a, s, ties) => Can("MEMBER", a, s, ties)
         /\ Can("MEMBER", a, s, ties) => Can("ADMIN", a, s, ties)
         /\ Can("ADMIN", a, s, ties) => Can("OWNER", a, s, ties)
<1> USE DEF Can, Rule, TaskRule
<1>1. ViewerRules \subseteq MemberRules
  BY DEF ViewerRules, MemberRules
<1>2. ASSUME NEW x \in MemberRules
      PROVE  \E y \in AdminRules : /\ y.action \in {x.action, "manage"} /\ y.subject = x.subject
                                   /\ y.on = "any" /\ x.action # "manage"
  <2>1. CASE x.subject = "Task"
    <3>1. x.action \in {"create", "read", "update"}
      BY <1>2, <2>1 DEF MemberRules
    <3>2. Rule(x.action, "Task") \in AdminRules
      BY <3>1 DEF AdminRules
    <3> QED
      BY <2>1, <3>1, <3>2
  <2>2. CASE x.subject = "Export"
    <3>1. x.action \in {"create", "read"}
      BY <1>2, <2>2 DEF MemberRules
    <3>2. Rule(x.action, "Export") \in AdminRules
      BY <3>1 DEF AdminRules
    <3> QED
      BY <2>2, <3>1, <3>2
  <2>3. CASE x.subject \in {"Workspace", "Member", "Comment", "Attachment"}
    <3>1. x.action \in {"create", "read"}
      BY <1>2, <2>3 DEF MemberRules
    <3>2. Rule("manage", x.subject) \in AdminRules
      BY <2>3 DEF AdminRules
    <3> QED
      BY <3>1, <3>2
  <2> QED
    BY <1>2, <2>1, <2>2, <2>3 DEF MemberRules
<1>3. ASSUME NEW x \in AdminRules
      PROVE  \E y \in OwnerRules : /\ y.action \in {x.action, "manage"} /\ y.subject = x.subject
                                   /\ y.on = "any"
  <2>1. CASE x.subject = "AuditLog"
    <3>1. x = Rule("read", "AuditLog")
      BY <1>3, <2>1 DEF AdminRules
    <3> QED
      BY <3>1 DEF OwnerRules
  <2>2. CASE x.subject # "AuditLog"
    <3>1. x.subject \in Subjects \ {"AuditLog"}
      BY <1>3, <2>2 DEF AdminRules, Subjects
    <3>2. Rule("manage", x.subject) \in OwnerRules
      BY <3>1 DEF OwnerRules
    <3> QED
      BY <3>2
  <2> QED
    BY <2>1, <2>2
<1>4. Can("VIEWER", a, s, ties) => Can("MEMBER", a, s, ties)
  BY <1>1 DEF Rules
<1>5. Can("MEMBER", a, s, ties) => Can("ADMIN", a, s, ties)
  <2> SUFFICES ASSUME NEW x \in MemberRules,
                      x.action \in {a, "manage"}, x.subject = s
               PROVE  \E y \in AdminRules : y.action \in {a, "manage"} /\ y.subject = s
                                            /\ y.on \in {"any"} \cup ties
    BY DEF Rules
  <2> QED
    BY <1>2
<1>6. Can("ADMIN", a, s, ties) => Can("OWNER", a, s, ties)
  <2> SUFFICES ASSUME NEW x \in AdminRules,
                      x.action \in {a, "manage"}, x.subject = s
               PROVE  \E y \in OwnerRules : y.action \in {a, "manage"} /\ y.subject = s
                                            /\ y.on \in {"any"} \cup ties
    BY DEF Rules
  <2> QED
    BY <1>3
<1> QED
  BY <1>4, <1>5, <1>6

\* Every route asks about an action and a kind of subject.
LEMMA RouteType ==
  \A route \in Routes :
    route.action \in {"manage", "create", "read", "update", "delete"} /\ route.subject \in Subjects
<1>1. ASSUME NEW n, NEW a, NEW s, NEW r \in {Route(n, a, s), Loading(n, a, s)}
      PROVE  r.action = a /\ r.subject = s
  BY <1>1 DEF Route, Loading
<1>2. ASSUME NEW n, NEW a
      PROVE  Asking(n, a).action = a /\ Asking(n, a).subject = "Task"
  BY DEF Asking, Route, Loading
<1>3. \A r \in TaskRoutes \cup OneTaskRoutes \cup RemovalRoutes :
        /\ r.action \in {"manage", "create", "read", "update", "delete"}
        /\ r.subject \in {"Task", "Attachment"}
  BY <1>1, <1>2 DEF TaskRoutes, OneTaskRoutes, RemovalRoutes
<1>4. \A r \in CommentRoutes \cup UploadRoutes \cup ExportRoutes \cup WebhookRoutes :
        r.action \in {"manage", "create", "read"} /\ r.subject \in Subjects
  BY <1>1 DEF CommentRoutes, UploadRoutes, ExportRoutes, WebhookRoutes, Subjects
<1>5. \A r \in WorkspaceRoutes \cup MemberRoutes \cup SettingsRoutes \cup InvitationRoutes :
        r.action \in {"manage", "read"} /\ r.subject \in Subjects
  BY <1>1 DEF WorkspaceRoutes, MemberRoutes, SettingsRoutes, InvitationRoutes, Subjects
<1> QED
  BY <1>3, <1>4, <1>5 DEF Routes, Subjects

\* The guard never admits a user whom it would refuse with a higher role: the four lists of
\* rules, which are kept apart in createForRole, agree on every route.
THEOREM RoleHierarchy ==
  ASSUME NEW route \in Routes, NEW exists \in BOOLEAN, NEW ties \in SUBSET Ties
  PROVE  /\ Admits(route, "VIEWER", exists, ties) => Admits(route, "MEMBER", exists, ties)
         /\ Admits(route, "MEMBER", exists, ties) => Admits(route, "ADMIN", exists, ties)
         /\ Admits(route, "ADMIN", exists, ties) => Admits(route, "OWNER", exists, ties)
<1>1. (IF route.asks THEN ties ELSE Ties) \in SUBSET Ties
  OBVIOUS
<1> QED
  BY <1>1, RouteType, Stronger DEF Admits, Roles

\* A member updates the tasks that he owns or is assigned to, and these only, and deletes none;
\* but he may change the assignees of any task of the workspace, as that policy asks about tasks
\* in general.
THEOREM MembersAndTasks ==
  ASSUME NEW exists \in BOOLEAN, NEW ties \in SUBSET Ties
  PROVE  /\ Admits(Asking("update", "update"), "MEMBER", exists, ties) <=> exists /\ ties # {}
         /\ ~ Admits(Asking("delete", "delete"), "MEMBER", exists, ties)
         /\ Admits(Loading("assign", "update", "Task"), "MEMBER", exists, ties) <=> exists
<1>1. \A t \in SUBSET Ties : Can("MEMBER", "update", "Task", t) <=> t # {}
  <2>1. ASSUME NEW t \in SUBSET Ties, NEW tie \in t
        PROVE  Can("MEMBER", "update", "Task", t)
    <3>1. TaskRule("update", tie) \in MemberRules
      BY <2>1 DEF MemberRules
    <3> QED
      BY <2>1, <3>1 DEF Can, Rules, TaskRule
  <2>2. ASSUME NEW x \in MemberRules, x.action \in {"update", "manage"}, x.subject = "Task"
        PROVE  x.on \in Ties
    BY <2>2 DEF MemberRules, Rule, TaskRule
  <2>3. "any" \notin Ties
    BY DEF Ties
  <2>4. ~ Can("MEMBER", "update", "Task", {})
    BY <2>2, <2>3 DEF Can, Rules
  <2> QED
    BY <2>1, <2>4
<1>2. ~ Can("MEMBER", "delete", "Task", ties)
  <2>1. \A x \in MemberRules : x.action \notin {"delete", "manage"}
    BY DEF MemberRules, Rule, TaskRule
  <2> QED
    BY <2>1 DEF Can, Rules
<1> QED
  BY <1>1, <1>2 DEF Admits, Asking, Loading, Route, Roles, Ties

-------------------------------------------------------------------------------
(* The inductive invariant                                                 *)

\* What is left of a creation at each of its awaits.
AtAudit == <<Step("audit", None)>>
AtInsertSettings == <<Step("insert", "settings"), Step("audit", None)>>
AtFindSettings == <<Step("find", "settings"), Step("insert", "settings"), Step("audit", None)>>
AtInsertFlags == <<Step("insert", "flags"), Step("find", "settings"), Step("insert", "settings"),
                   Step("audit", None)>>
AtFindFlags == <<Step("find", "flags"), Step("insert", "flags"), Step("find", "settings"),
                 Step("insert", "settings"), Step("audit", None)>>
AtInsertOwner == <<Step("insertOwner", None), Step("find", "flags"), Step("insert", "flags"),
                   Step("find", "settings"), Step("insert", "settings"), Step("audit", None)>>
AtInsertWorkspace ==
  <<Step("insertWorkspace", None), Step("insertOwner", None), Step("find", "flags"),
    Step("insert", "flags"), Step("find", "settings"), Step("insert", "settings"),
    Step("audit", None)>>
AtFindSlug ==
  <<Step("findSlug", None), Step("insertWorkspace", None), Step("insertOwner", None),
    Step("find", "flags"), Step("insert", "flags"), Step("find", "settings"),
    Step("insert", "settings"), Step("audit", None)>>

\* Where a creation stands that has not made the workspace yet, that has looked for the flags,
\* and so on.
Unplaced == {AtFindSlug, AtInsertWorkspace}
Placed == {AtInsertOwner, AtFindFlags, AtInsertFlags, AtFindSettings, AtInsertSettings, AtAudit}
Owned == Placed \ {AtInsertOwner}

\* What may be left of the request c.
Left(c) ==
  {<<>>} \cup
  CASE c.kind = "create" -> Unplaced \cup Placed
    [] c.kind = "update" ->
         {<<Step("guard", None), Step("find", c.doc), Step("insert", c.doc)>>,
          <<Step("find", c.doc), Step("insert", c.doc)>>,
          <<Step("insert", c.doc)>>, <<Step("update", c.doc)>>}
    [] c.kind = "get" ->
         {<<Step("guard", None), Step("find", c.doc), Step("insert", c.doc)>>,
          <<Step("guard", None), Step("find", c.doc)>>,
          <<Step("find", c.doc), Step("insert", c.doc)>>, <<Step("find", c.doc)>>,
          <<Step("insert", c.doc)>>}
    [] c.kind = "isEnabled" -> {<<Step("find", c.doc)>>}
    [] OTHER -> {}

\* Creations name no document, other requests one, and only updates have a change for it.
WellFormed(c) ==
  /\ c \in Calls
  /\ c.kind = "create" <=> c.doc = None
  /\ c.kind = "isEnabled" <=> c.user = None
  /\ c.kind # "update" => c.change = NoChange

StoreInv ==
  /\ workspace \in Origins \cup {None}
  /\ role \in [Users -> Roles \cup {None}]
  /\ doc \in [Docs -> [Fields -> BOOLEAN] \cup {None}]

RequestInv(r) ==
  IF call[r] = None
    THEN todo[r] = <<>> /\ verdict[r] = "none"
    ELSE /\ WellFormed(call[r])
         /\ todo[r] \in Left(call[r])
         /\ verdict[r] \in {"ok", "refused", "error"}
         /\ Running(r) => verdict[r] = "ok"

ShapeInv ==
  /\ call \in [Requests -> Calls \cup {None}]
  /\ todo = [r \in Requests |-> todo[r]]
  /\ verdict \in [Requests -> Verdicts]
  /\ shown \in [Requests -> Documents \cup {None}]
  /\ before \in [Requests -> SUBSET Requests]
  /\ faults \in 0 .. MaxFaults
  /\ \A r \in Requests : RequestInv(r)

\* Requests come before one another in one order at most.
OrderInv ==
  \A r \in Requests : \A q \in before[r] : Ended(q) /\ call[r] # None /\ r \notin before[q]

\* Another request, one that r does not know to have ended, may have inserted d.
Rival(r, d) ==
  /\ doc[d] # None
  /\ \E q \in Requests : /\ q # r /\ q \notin before[r] /\ call[q] # None
                         /\ call[q].kind \in {"update", "get"} /\ call[q].doc = d

Creating(r, lists) ==
  Is(r, "create") /\ (todo[r] \in lists \/ (Ended(r) /\ verdict[r] = "ok"))

CreationInv(r) ==
  /\ call[r] = None => workspace # r
  /\ Is(r, "create") /\ todo[r] \in Unplaced => workspace # r
  /\ Creating(r, Placed) => workspace = r
  /\ Creating(r, Owned) => role[call[r].user] = "OWNER"
  /\ Creating(r, {AtFindSettings, AtInsertSettings, AtAudit}) => doc["flags"] # None
  /\ Creating(r, {AtAudit}) => doc["settings"] # None
  /\ Is(r, "create") /\ todo[r] = AtInsertFlags => doc["flags"] = None \/ Rival(r, "flags")
  /\ Is(r, "create") /\ todo[r] = AtInsertSettings =>
       doc["settings"] = None \/ Rival(r, "settings")
  /\ Is(r, "create") /\ Ended(r) /\ verdict[r] = "error" /\ workspace = r /\ faults = 0 =>
       role[call[r].user] = "OWNER" /\ \E d \in Docs : Rival(r, d)

\* What an update that has succeeded promises.
Overwritten(r, f) == \E q \in Requests : Overwrites(q, r, f) /\ ~ At(q, "guard")
Keeps(r, f, x) == x[f] = call[r].change[f]
KeptField(r, f) ==
  \/ Overwritten(r, f)
  \/ /\ Keeps(r, f, doc[call[r].doc])
     /\ \A q \in Requests :
          Ended(q) /\ verdict[q] = "ok" /\ r \in before[q] /\ call[q].doc = call[r].doc
          => Keeps(r, f, shown[q])
KeptInv(r) ==
  Succeeded(r, "update") => doc[call[r].doc] # None /\ \A f \in Named(r) : KeptField(r, f)

Inv ==
  /\ StoreInv /\ ShapeInv /\ OrderInv
  /\ \A r \in Requests : CreationInv(r) /\ KeptInv(r)

-------------------------------------------------------------------------------
(* Lists of awaits                                                         *)

\* The awaits of a creation follow one another.
LEMMA CreationLists ==
  /\ Head(AtFindSlug) = Step("findSlug", None) /\ Tail(AtFindSlug) = AtInsertWorkspace
  /\ Head(AtInsertWorkspace) = Step("insertWorkspace", None)
  /\ Tail(AtInsertWorkspace) = AtInsertOwner
  /\ Head(AtInsertOwner) = Step("insertOwner", None) /\ Tail(AtInsertOwner) = AtFindFlags
  /\ Head(AtFindFlags) = Step("find", "flags") /\ Tail(AtFindFlags) = AtInsertFlags
  /\ Head(AtInsertFlags) = Step("insert", "flags") /\ Tail(AtInsertFlags) = AtFindSettings
  /\ Head(AtFindSettings) = Step("find", "settings") /\ Tail(AtFindSettings) = AtInsertSettings
  /\ Head(AtInsertSettings) = Step("insert", "settings") /\ Tail(AtInsertSettings) = AtAudit
  /\ Head(AtAudit) = Step("audit", None) /\ Tail(AtAudit) = <<>>
  /\ <<>> \notin Unplaced \cup Placed
  BY DEF AtFindSlug, AtInsertWorkspace, AtInsertOwner, AtFindFlags, AtInsertFlags,
         AtFindSettings, AtInsertSettings, AtAudit, Unplaced, Placed

\* So do those of the other requests.
LEMMA OtherLists ==
  ASSUME NEW x, NEW y, NEW z
  PROVE  /\ Head(<<x, y, z>>) = x /\ Tail(<<x, y, z>>) = <<y, z>> /\ <<x, y, z>> # <<>>
         /\ Head(<<x, y>>) = x /\ Tail(<<x, y>>) = <<y>> /\ <<x, y>> # <<>>
         /\ Head(<<x>>) = x /\ Tail(<<x>>) = <<>> /\ <<x>> # <<>>
  OBVIOUS

\* Awaits are told apart by what they do and on which document.
LEMMA AwaitFields ==
  ASSUME NEW s, NEW d
  PROVE  Step(s, d).do = s /\ Step(s, d).on = d
  BY DEF Step

\* Eight awaits in one list.
LEMMA CreationPlan ==
  ASSUME NEW c, c.kind = "create"
  PROVE  Plan(c) = AtFindSlug
<1> DEFINE start == <<Step("findSlug", None), Step("insertWorkspace", None), Step("insertOwner", None)>>
           plan == start \o FindOrInsert("flags") \o FindOrInsert("settings")
                   \o <<Step("audit", None)>>
           S == {Step(s, d) : s \in {"findSlug", "insertWorkspace", "insertOwner", "find", "insert", "audit"},
                              d \in {None, "flags", "settings"}}
<1>1. Plan(c) = plan
  BY DEF Plan
<1>2. /\ start \in Seq(S) /\ <<Step("audit", None)>> \in Seq(S)
      /\ FindOrInsert("flags") \in Seq(S) /\ FindOrInsert("settings") \in Seq(S)
  BY DEF FindOrInsert
<1>3. AtFindSlug \in Seq(S)
  BY DEF AtFindSlug
<1> HIDE DEF S
<1>4. plan \in Seq(S)
  BY <1>2
<1>5. Len(plan) = 8 /\ Len(AtFindSlug) = 8
  BY DEF FindOrInsert, AtFindSlug
<1>6. \A i \in 1 .. 8 : plan[i] = AtFindSlug[i]
  BY DEF FindOrInsert, AtFindSlug
<1>7. plan = AtFindSlug
  BY <1>3, <1>4, <1>5, <1>6, SeqEqual
<1> QED
  BY <1>1, <1>7

\* The awaits of an update, and of a request that reads.
LEMMA OtherPlans ==
  ASSUME NEW c
  PROVE  /\ c.kind = "update" =>
              Plan(c) = <<Step("guard", None), Step("find", c.doc), Step("insert", c.doc)>>
         /\ c.kind = "get" =>
              Plan(c) \in {<<Step("guard", None), Step("find", c.doc), Step("insert", c.doc)>>,
                           <<Step("guard", None), Step("find", c.doc)>>}
         /\ c.kind = "isEnabled" => Plan(c) = <<Step("find", c.doc)>>
<1>1. ASSUME NEW x, NEW y, NEW z
      PROVE  <<x>> \o <<y, z>> = <<x, y, z>> /\ <<x>> \o <<y>> = <<x, y>>
  <2> DEFINE S == {x, y, z}
  <2>1. /\ <<x>> \in Seq(S) /\ <<y>> \in Seq(S) /\ <<y, z>> \in Seq(S)
        /\ <<x>> \o <<y, z>> \in Seq(S) /\ <<x>> \o <<y>> \in Seq(S)
        /\ <<x, y, z>> \in Seq(S) /\ <<x, y>> \in Seq(S)
    OBVIOUS
  <2>2. /\ Len(<<x>> \o <<y, z>>) = 3 /\ Len(<<x, y, z>>) = 3
        /\ \A i \in 1 .. 3 : (<<x>> \o <<y, z>>)[i] = <<x, y, z>>[i]
    OBVIOUS
  <2>3. /\ Len(<<x>> \o <<y>>) = 2 /\ Len(<<x, y>>) = 2
        /\ \A i \in 1 .. 2 : (<<x>> \o <<y>>)[i] = <<x, y>>[i]
    OBVIOUS
  <2> HIDE DEF S
  <2>4. <<x>> \o <<y, z>> = <<x, y, z>>
    BY <2>1, <2>2, SeqEqual
  <2>5. <<x>> \o <<y>> = <<x, y>>
    BY <2>1, <2>3, SeqEqual
  <2> QED
    BY <2>4, <2>5
<1> QED
  BY <1>1 DEF Plan, FindOrInsert

-------------------------------------------------------------------------------
(* What an await does                                                      *)

\* An await of r concerns r alone, apart from what is stored.
Goes(r) ==
  /\ call[r] # None /\ Running(r) /\ UNCHANGED <<call, before>>
  /\ todo' = [todo EXCEPT ![r] = todo'[r]]
  /\ verdict' = [verdict EXCEPT ![r] = verdict'[r]]
  /\ shown' = [shown EXCEPT ![r] = shown'[r]] /\ shown'[r] \in Documents \cup {None}
  /\ faults' \in 0 .. MaxFaults /\ faults <= faults'
  /\ todo'[r] \in Left(call[r]) /\ verdict'[r] \in {"ok", "refused", "error"}
  /\ todo'[r] # <<>> => verdict'[r] = "ok"

\* The workspace and the documents are inserted once, and owners stay owners; only a request
\* for a document inserts it, or the creation of the workspace.
Inserts(r) ==
  /\ workspace' = workspace \/ (workspace = None /\ workspace' = r /\ todo[r] = AtInsertWorkspace)
  /\ \A u \in Users : role[u] = "OWNER" => role'[u] = "OWNER"
  /\ \A d \in Docs :
       /\ doc[d] # None => doc'[d] # None
       /\ doc[d] = None /\ doc'[d] # None =>
            \/ Is(r, "create") /\ workspace = r
            \/ call[r].kind \in {"update", "get"} /\ call[r].doc = d

\* A document changes by an update; who ends with success shows the document as it is then.
Updates(r) ==
  /\ \A d \in Docs :
       doc[d] # None =>
         \/ doc'[d] = doc[d]
         \/ Is(r, "update") /\ ~ At(r, "guard") /\ call[r].doc = d /\ doc'[d] = Changed(r, doc[d])
  /\ Is(r, "update") /\ ~ At(r, "guard") => verdict'[r] # "refused" /\ ~ At(r, "guard")'
  /\ todo'[r] = <<>> /\ verdict'[r] = "ok" /\ call[r].kind # "create" =>
       /\ doc[call[r].doc] # None => \A f \in Fields : shown'[r][f] = doc'[call[r].doc][f]
       /\ call[r].kind = "update" =>
            doc'[call[r].doc] # None /\ \A f \in Named(r) : Keeps(r, f, doc'[call[r].doc])

Effect(r) == Goes(r) /\ StoreInv' /\ Inserts(r) /\ Updates(r)

\* What is left of a request, by its next await.
LEMMA NextAwait ==
  ASSUME ShapeInv, NEW r \in Requests, Running(r)
  PROVE  /\ call[r] # None /\ WellFormed(call[r]) /\ verdict[r] = "ok"
         /\ call[r].kind \in Kinds
         /\ At(r, "findSlug") => call[r].kind = "create" /\ todo[r] = AtFindSlug
         /\ At(r, "insertWorkspace") => call[r].kind = "create" /\ todo[r] = AtInsertWorkspace
         /\ At(r, "insertOwner") => call[r].kind = "create" /\ todo[r] = AtInsertOwner
         /\ At(r, "audit") => call[r].kind = "create" /\ todo[r] = AtAudit
         /\ At(r, "guard") =>
              /\ call[r].kind \in {"update", "get"}
              /\ todo[r] \in {<<Step("guard", None), Step("find", call[r].doc), Step("insert", call[r].doc)>>,
                               <<Step("guard", None), Step("find", call[r].doc)>>}
              /\ call[r].kind = "update" =>
                   todo[r] = <<Step("guard", None), Step("find", call[r].doc), Step("insert", call[r].doc)>>
         /\ At(r, "find") =>
              /\ call[r].kind = "create" => todo[r] \in {AtFindFlags, AtFindSettings}
              /\ call[r].kind # "create" =>
                   todo[r] \in {<<Step("find", call[r].doc), Step("insert", call[r].doc)>>,
                                <<Step("find", call[r].doc)>>}
              /\ call[r].kind = "update" =>
                   todo[r] = <<Step("find", call[r].doc), Step("insert", call[r].doc)>>
              /\ call[r].kind = "isEnabled" => todo[r] = <<Step("find", call[r].doc)>>
         /\ At(r, "insert") =>
              /\ call[r].kind = "create" => todo[r] \in {AtInsertFlags, AtInsertSettings}
              /\ call[r].kind # "create" =>
                   call[r].kind \in {"update", "get"} /\ todo[r] = <<Step("insert", call[r].doc)>>
         /\ At(r, "update") => call[r].kind = "update" /\ todo[r] = <<Step("update", call[r].doc)>>
<1>1. RequestInv(r)
  BY DEF ShapeInv
<1>2. /\ call[r] # None /\ WellFormed(call[r]) /\ verdict[r] = "ok" /\ call[r].kind \in Kinds
      /\ todo[r] \in Left(call[r]) /\ todo[r] # <<>>
  BY <1>1 DEF RequestInv, Running, WellFormed, Calls
<1>3. CASE call[r].kind = "create"
  BY <1>2, <1>3, CreationLists, AwaitFields DEF Left, Unplaced, Placed, At
<1>4. CASE call[r].kind = "update"
  BY <1>2, <1>4, OtherLists, AwaitFields DEF Left, At
<1>5. CASE call[r].kind = "get"
  BY <1>2, <1>5, OtherLists, AwaitFields DEF Left, At
<1>6. CASE call[r].kind = "isEnabled"
  BY <1>2, <1>6, OtherLists, AwaitFields DEF Left, At
<1> QED
  BY <1>2, <1>3, <1>4, <1>5, <1>6 DEF Kinds

\* Documents have a value in every field, and creations no document.
LEMMA DocFacts ==
  ASSUME ShapeInv, NEW r \in Requests, call[r] # None
  PROVE  /\ call[r].kind # "create" => call[r].doc \in Docs
         /\ call[r].kind = "create" => call[r].doc = None /\ call[r].user \in Users
         /\ call[r].kind # "update" => Named(r) = {}
         /\ \A f \in Named(r) : f \in Fields /\ call[r].change[f] \in BOOLEAN
  BY DEF ShapeInv, RequestInv, WellFormed, Calls, Documents, Named, NoChange

\* None is no user, document or role.
LEMMA NoneFacts ==
  /\ None \notin Users /\ None \notin Docs /\ None \notin Requests /\ None \notin Documents
  /\ [Fields -> BOOLEAN] \subseteq Documents /\ "OWNER" \in Roles /\ "ADMIN" \in Roles
  /\ Defaults \in [Docs -> [Fields -> BOOLEAN]] /\ MaxFaults \in Nat
  /\ "flags" \in Docs /\ "settings" \in Docs
  BY WorkspacesAssumption, DocumentAssumption DEF Documents, Docs, Roles

\* What a change makes of a document.
LEMMA ChangedFacts ==
  ASSUME ShapeInv, NEW r \in Requests, call[r] # None, NEW x \in [Fields -> BOOLEAN]
  PROVE  /\ Changed(r, x) \in [Fields -> BOOLEAN]
         /\ \A f \in Named(r) : Keeps(r, f, Changed(r, x))
         /\ \A f \in Fields \ Named(r) : Changed(r, x)[f] = x[f]
         /\ call[r].kind # "update" => Changed(r, x) = x
<1>1. /\ call[r].kind # "update" => Named(r) = {}
      /\ \A f \in Named(r) : f \in Fields /\ call[r].change[f] \in BOOLEAN
  BY DocFacts
<1>2. Changed(r, x) = [f \in Fields |-> IF f \in Named(r) THEN call[r].change[f] ELSE x[f]]
  BY DEF Changed
<1> QED
  BY <1>1, <1>2 DEF Keeps

\* The lists of a creation, and those of others.
LEMMA LeftFacts ==
  ASSUME NEW c
  PROVE  /\ <<>> \in Left(c)
         /\ c.kind = "create" => Unplaced \cup Placed \subseteq Left(c)
         /\ c.kind \in {"update", "get"} =>
              /\ <<Step("guard", None), Step("find", c.doc), Step("insert", c.doc)>> \in Left(c)
              /\ <<Step("find", c.doc), Step("insert", c.doc)>> \in Left(c)
              /\ <<Step("insert", c.doc)>> \in Left(c)
         /\ c.kind = "update" => <<Step("update", c.doc)>> \in Left(c)
         /\ c.kind = "get" =>
              /\ <<Step("guard", None), Step("find", c.doc)>> \in Left(c)
              /\ <<Step("find", c.doc)>> \in Left(c)
         /\ c.kind = "isEnabled" => <<Step("find", c.doc)>> \in Left(c)
<1>1. c.kind \in {"create", "update", "get", "isEnabled"} \/ c.kind \notin Kinds
  BY DEF Kinds
<1>2. <<>> \in Left(c)
  BY DEF Left
<1>3. CASE c.kind = "create"
  BY <1>3, <1>2 DEF Left
<1>4. CASE c.kind = "update"
  BY <1>4, <1>2 DEF Left
<1>5. CASE c.kind = "get"
  BY <1>5, <1>2 DEF Left
<1>6. CASE c.kind = "isEnabled"
  BY <1>6, <1>2 DEF Left
<1> QED
  BY <1>2, <1>3, <1>4, <1>5, <1>6

\* r goes on with what is left, or ends.
LEMMA Going ==
  ASSUME ShapeInv, NEW r \in Requests, Running(r), NEW l \in Left(call[r]),
         NEW v \in {"ok", "refused", "error"}, l # <<>> => v = "ok",
         NEW x \in Documents \cup {None},
         UNCHANGED <<call, before>>,
         todo' = [todo EXCEPT ![r] = l],
         verdict' = [verdict EXCEPT ![r] = v],
         shown' = [shown EXCEPT ![r] = x],
         faults' \in 0 .. MaxFaults, faults <= faults'
  PROVE  Goes(r)
<1>1. todo'[r] = l /\ verdict'[r] = v /\ shown'[r] = x
  BY DEF ShapeInv
<1>2. call[r] # None
  BY NextAwait
<1> QED
  BY <1>1, <1>2 DEF Goes

\* A function with the value it has.
LEMMA SameValue ==
  ASSUME ShapeInv, NEW r \in Requests
  PROVE  /\ shown = [shown EXCEPT ![r] = shown[r]] /\ shown[r] \in Documents \cup {None}
         /\ verdict = [verdict EXCEPT ![r] = verdict[r]]
         /\ faults \in 0 .. MaxFaults /\ faults <= faults
<1>1. faults \in 0 .. MaxFaults /\ faults <= faults
  BY NoneFacts DEF ShapeInv
<1> QED
  BY <1>1 DEF ShapeInv

\* Proceed and Answer, of a request that shows nothing new.
LEMMA Proceeding ==
  ASSUME ShapeInv, NEW r \in Requests, Running(r), Tail(todo[r]) \in Left(call[r]),
         Proceed(r), UNCHANGED <<call, shown, before, faults>>
  PROVE  /\ Goes(r) /\ todo'[r] = Tail(todo[r]) /\ verdict'[r] = verdict[r]
         /\ shown'[r] = shown[r] /\ verdict[r] = "ok"
<1>1. verdict[r] = "ok"
  BY NextAwait
<1>2. todo'[r] = Tail(todo[r])
  BY DEF Proceed, ShapeInv
<1> QED
  BY <1>1, <1>2, SameValue, Going DEF Proceed

\* A request that ends keeps what it has shown.
LEMMA Answering ==
  ASSUME ShapeInv, NEW r \in Requests, Running(r), NEW v \in {"ok", "refused", "error"},
         Answer(r, v), UNCHANGED <<call, shown, before>>,
         faults' \in 0 .. MaxFaults, faults <= faults'
  PROVE  /\ Goes(r) /\ todo'[r] = <<>> /\ verdict'[r] = v /\ shown'[r] = shown[r]
<1>1. todo'[r] = <<>> /\ verdict'[r] = v
  BY DEF Answer, ShapeInv
<1> QED
  BY <1>1, LeftFacts, SameValue, Going DEF Answer

\* findBySlug stores nothing.
LEMMA FindSlugEffect == ASSUME NEW r \in Requests, Inv, FindSlug(r) PROVE Effect(r)
<1> USE DEF FindSlug
<1>1. ShapeInv /\ StoreInv /\ Running(r) /\ call[r].kind = "create" /\ todo[r] = AtFindSlug
      /\ call[r] # None /\ verdict[r] = "ok"
  BY NextAwait DEF Inv, At
<1>2. Goes(r)
  BY <1>1, CreationLists, LeftFacts, SameValue, Proceeding, Answering DEF Unplaced
<1>3. StoreInv' /\ Inserts(r)
  BY <1>1 DEF StoreInv, Inserts, storeVars
<1>4. Updates(r)
  BY <1>1 DEF Updates, Is, storeVars
<1> QED
  BY <1>2, <1>3, <1>4 DEF Effect

\* The workspace is created once.
LEMMA InsertWorkspaceEffect == ASSUME NEW r \in Requests, Inv, InsertWorkspace(r) PROVE Effect(r)
<1> USE DEF InsertWorkspace
<1>1. ShapeInv /\ StoreInv /\ Running(r) /\ call[r].kind = "create" /\ todo[r] = AtInsertWorkspace
      /\ call[r] # None /\ verdict[r] = "ok"
  BY NextAwait DEF Inv, At
<1>2. Goes(r)
  BY <1>1, CreationLists, LeftFacts, SameValue, Proceeding, Answering DEF Placed
<1>3. StoreInv' /\ Inserts(r)
  BY <1>1 DEF StoreInv, Inserts, Origins
<1>4. Updates(r)
  BY <1>1 DEF Updates, Is
<1> QED
  BY <1>2, <1>3, <1>4 DEF Effect

\* The membership of the owner.
LEMMA InsertOwnerEffect == ASSUME NEW r \in Requests, Inv, InsertOwner(r) PROVE Effect(r)
<1> USE DEF InsertOwner
<1>1. ShapeInv /\ StoreInv /\ Running(r) /\ call[r].kind = "create" /\ todo[r] = AtInsertOwner
      /\ call[r] # None /\ verdict[r] = "ok"
  BY NextAwait DEF Inv, At
<1>2. Goes(r)
  BY <1>1, CreationLists, LeftFacts, SameValue, Proceeding, Answering DEF Placed
<1>3. StoreInv' /\ Inserts(r)
  BY <1>1, NoneFacts DEF StoreInv, Inserts, Origins
<1>4. Updates(r)
  BY <1>1 DEF Updates, Is
<1> QED
  BY <1>2, <1>3, <1>4 DEF Effect

\* The audit record is the last await of a creation.
LEMMA AuditEffect == ASSUME NEW r \in Requests, Inv, Audit(r) PROVE Effect(r)
<1> USE DEF Audit
<1>1. ShapeInv /\ StoreInv /\ Running(r) /\ call[r].kind = "create" /\ todo[r] = AtAudit
      /\ call[r] # None /\ verdict[r] = "ok"
  BY NextAwait DEF Inv, At
<1>2. Goes(r)
  <2>1. Tail(todo[r]) \in Left(call[r])
    BY <1>1, CreationLists, LeftFacts
  <2> QED
    BY <1>1, <2>1, Proceeding
<1>3. StoreInv' /\ Inserts(r)
  BY <1>1 DEF StoreInv, Inserts, storeVars
<1>4. Updates(r)
  BY <1>1 DEF Updates, Is, storeVars
<1> QED
  BY <1>2, <1>3, <1>4 DEF Effect

\* The guard stores nothing, and what it refuses has not been written.
LEMMA GuardEffect == ASSUME NEW r \in Requests, Inv, Guard(r) PROVE Effect(r)
<1>1. /\ ShapeInv /\ StoreInv /\ Running(r) /\ call[r].kind \in {"update", "get"} /\ call[r] # None
      /\ verdict[r] = "ok" /\ At(r, "guard")
      /\ todo[r] \in {<<Step("guard", None), Step("find", call[r].doc), Step("insert", call[r].doc)>>,
                       <<Step("guard", None), Step("find", call[r].doc)>>}
      /\ call[r].kind = "update" =>
           todo[r] = <<Step("guard", None), Step("find", call[r].doc), Step("insert", call[r].doc)>>
  BY NextAwait DEF Inv, At, Guard
<1>2. /\ Proceed(r) \/ Answer(r, "refused")
      /\ UNCHANGED <<storeVars, call, shown, before, faults>>
  BY DEF Guard
<1>3. Tail(todo[r]) \in Left(call[r]) \ {<<>>}
  <2> DEFINE find == Step("find", call[r].doc)
             insert == Step("insert", call[r].doc)
  <2>1. <<find, insert>> \in Left(call[r]) /\ (call[r].kind = "get" => <<find>> \in Left(call[r]))
    BY <1>1, LeftFacts
  <2>2. CASE todo[r] = <<Step("guard", None), find, insert>>
    BY <2>1, <2>2, OtherLists
  <2>3. CASE todo[r] # <<Step("guard", None), find, insert>>
    <3>1. todo[r] = <<Step("guard", None), find>> /\ call[r].kind = "get"
      BY <1>1, <2>3
    <3> HIDE DEF find
    <3> QED
      BY <2>1, <3>1, OtherLists
  <2> QED
    BY <2>2, <2>3
<1>4. Goes(r) /\ (todo'[r] = <<>> => verdict'[r] = "refused")
  BY <1>1, <1>2, <1>3, SameValue, Proceeding, Answering
<1>5. StoreInv' /\ Inserts(r)
  BY <1>1, <1>2 DEF StoreInv, Inserts, storeVars
<1>6. Updates(r)
  BY <1>1, <1>2, <1>4 DEF Updates, Is, storeVars
<1> QED
  BY <1>4, <1>5, <1>6 DEF Effect

\* What is shown of a document that is there is the document, however flags are read.
LEMMA ShownFacts ==
  ASSUME NEW r, NEW x \in [Fields -> BOOLEAN] \cup {None}
  PROVE  /\ Shown(r, x) \in Documents \cup {None}
         /\ x # None => \A f \in Fields : Shown(r, x)[f] = x[f]
         /\ GetFlags(x) = IsEnabled(x)
<1>1. Defaults["flags"] \in [Fields -> BOOLEAN]
  BY NoneFacts
<1>2. /\ GetFlags(x) \in [Fields -> BOOLEAN] /\ IsEnabled(x) \in [Fields -> BOOLEAN]
      /\ x # None => \A f \in Fields : GetFlags(x)[f] = x[f] /\ IsEnabled(x)[f] = x[f]
      /\ x = None => GetFlags(x) = IsEnabled(x)
  <2>1. CASE x = None
    BY <1>1, <2>1 DEF GetFlags, IsEnabled
  <2>2. CASE x # None
    <3>1. x \in [Fields -> BOOLEAN]
      BY <2>2
    <3>2. \A f \in Fields : x[f] \in BOOLEAN /\ x[f] # None
      BY <3>1, WorkspacesAssumption
    <3>3. GetFlags(x) = [f \in Fields |-> x[f]] /\ IsEnabled(x) = [f \in Fields |-> x[f]]
      BY <2>2, <3>2 DEF GetFlags, IsEnabled
    <3> QED
      BY <2>2, <3>2, <3>3
  <2> QED
    BY <2>1, <2>2
<1>3. GetFlags(x) = IsEnabled(x)
  BY <1>2
<1>4. Shown(r, x) \in {IsEnabled(x), GetFlags(x), x}
  BY DEF Shown
<1>5. Shown(r, x) \in Documents \cup {None}
  BY <1>2, <1>4, NoneFacts
<1>6. x # None => \A f \in Fields : Shown(r, x)[f] = x[f]
  BY <1>2, <1>4
<1> QED
  BY <1>3, <1>5, <1>6

\* What comes after a lookup: next, or rest if the document is there and not updated.
Following(r) ==
  LET next == Tail(todo[r])
  IN IF next # <<>> /\ Head(next) = Step("insert", Doc(r)) THEN Tail(next) ELSE next

\* Both are lists that may be left of the request.
LEMMA AfterFind ==
  ASSUME ShapeInv, NEW r \in Requests, At(r, "find")
  PROVE  /\ Doc(r) \in Docs /\ Tail(todo[r]) \in Left(call[r]) /\ Following(r) \in Left(call[r])
         /\ call[r].kind # "create" => Doc(r) = call[r].doc /\ Following(r) = <<>>
         /\ call[r].kind = "update" => Tail(todo[r]) # <<>>
         /\ call[r].kind = "create" =>
              \/ /\ todo[r] = AtFindFlags /\ Doc(r) = "flags"
                 /\ Tail(todo[r]) = AtInsertFlags /\ Following(r) = AtFindSettings
              \/ /\ todo[r] = AtFindSettings /\ Doc(r) = "settings"
                 /\ Tail(todo[r]) = AtInsertSettings /\ Following(r) = AtAudit
<1>1. Running(r)
  BY DEF At
<1>2. /\ call[r] # None
      /\ call[r].kind = "create" => todo[r] \in {AtFindFlags, AtFindSettings}
      /\ call[r].kind # "create" =>
           /\ call[r].kind \in {"update", "get", "isEnabled"}
           /\ \/ /\ todo[r] = <<Step("find", call[r].doc), Step("insert", call[r].doc)>>
                 /\ call[r].kind # "isEnabled"
              \/ /\ todo[r] = <<Step("find", call[r].doc)>>
                 /\ call[r].kind # "update"
  <2>1. call[r].kind = "isEnabled" => todo[r] = <<Step("find", call[r].doc)>>
    BY <1>1, NextAwait
  <2>2. <<Step("find", call[r].doc)>> # <<Step("find", call[r].doc), Step("insert", call[r].doc)>>
    BY OtherLists
  <2> QED
    BY <1>1, <2>1, <2>2, NextAwait DEF Kinds
<1>3. CASE call[r].kind = "create" /\ todo[r] = AtFindFlags
  <2>1. Doc(r) = "flags" /\ Tail(todo[r]) = AtInsertFlags
    BY <1>3, CreationLists, AwaitFields DEF Doc
  <2>2. Following(r) = AtFindSettings
    BY <2>1, CreationLists DEF Following, Placed
  <2> QED
    BY <1>3, <2>1, <2>2, LeftFacts, NoneFacts DEF Placed
<1>4. CASE call[r].kind = "create" /\ todo[r] = AtFindSettings
  <2>1. Doc(r) = "settings" /\ Tail(todo[r]) = AtInsertSettings
    BY <1>4, CreationLists, AwaitFields DEF Doc
  <2>2. Following(r) = AtAudit
    BY <2>1, CreationLists DEF Following, Placed
  <2> QED
    BY <1>4, <2>1, <2>2, LeftFacts, NoneFacts DEF Placed
<1>5. CASE call[r].kind # "create" /\ todo[r] = <<Step("find", call[r].doc), Step("insert", call[r].doc)>>
           /\ call[r].kind # "isEnabled"
  <2>1. Doc(r) = call[r].doc /\ Tail(todo[r]) = <<Step("insert", call[r].doc)>>
    BY <1>5, OtherLists, AwaitFields DEF Doc
  <2>2. Following(r) = <<>> /\ Tail(todo[r]) # <<>>
    BY <2>1, OtherLists DEF Following
  <2>3. call[r].doc \in Docs
    BY <1>2, <1>5, DocFacts
  <2>4. Tail(todo[r]) \in Left(call[r]) /\ <<>> \in Left(call[r])
    BY <1>2, <1>5, <2>1, LeftFacts
  <2> QED
    BY <1>5, <2>1, <2>2, <2>3, <2>4
<1>6. CASE call[r].kind \notin {"create", "update"} /\ todo[r] = <<Step("find", call[r].doc)>>
  <2>1. Doc(r) = call[r].doc /\ Tail(todo[r]) = <<>>
    BY <1>6, OtherLists, AwaitFields DEF Doc
  <2>2. Following(r) = <<>>
    BY <2>1 DEF Following
  <2>3. call[r].doc \in Docs
    BY <1>2, <1>6, DocFacts
  <2> QED
    BY <1>6, <2>1, <2>2, <2>3, LeftFacts
<1> QED
  BY <1>2, <1>3, <1>4, <1>5, <1>6

\* A lookup stores nothing, and who is done shows what is there.
LEMMA FindEffect == ASSUME NEW r \in Requests, Inv, Find(r) PROVE Effect(r)
<1> DEFINE d == Doc(r)
           l == IF doc[d] = None THEN Tail(todo[r])
                ELSE IF call[r].kind = "update" THEN <<Step("update", d)>> ELSE Following(r)
<1>1. /\ ShapeInv /\ StoreInv /\ At(r, "find") /\ Running(r) /\ verdict[r] = "ok"
      /\ call[r] # None
  BY NextAwait DEF Inv, At, Find
<1>2. /\ todo' = [todo EXCEPT ![r] = l]
      /\ shown' = [shown EXCEPT ![r] = Shown(r, doc[d])]
      /\ UNCHANGED <<storeVars, call, verdict, before, faults>>
  BY <1>1 DEF Find, Following, ShapeInv
<1>3. l \in Left(call[r]) /\ d \in Docs /\ doc[d] \in [Fields -> BOOLEAN] \cup {None}
  BY <1>1, AfterFind, LeftFacts DEF StoreInv
<1>4. Shown(r, doc[d]) \in Documents \cup {None}
  BY <1>3, ShownFacts
<1>5. Goes(r)
  BY <1>1, <1>2, <1>3, <1>4, Going, SameValue
<1>6. StoreInv' /\ Inserts(r)
  BY <1>1, <1>2 DEF StoreInv, Inserts, storeVars
<1>7. todo'[r] = l /\ shown'[r] = Shown(r, doc[d]) /\ verdict'[r] = "ok"
  BY <1>1, <1>2 DEF ShapeInv
<1>8. call[r].kind = "update" => l # <<>> /\ ~ At(r, "guard")'
  <2>1. CASE call[r].kind = "update" /\ doc[d] = None
    <3>1. todo[r] = <<Step("find", call[r].doc), Step("insert", call[r].doc)>>
      BY <1>1, <2>1, NextAwait
    <3>2. Tail(todo[r]) = <<Step("insert", call[r].doc)>>
      BY <3>1, OtherLists
    <3>3. l = <<Step("insert", call[r].doc)>>
      BY <2>1, <3>2
    <3>4. todo'[r] = <<Step("insert", call[r].doc)>>
      BY <1>7, <3>3
    <3>5. Head(todo'[r]).do = "insert"
      BY <3>4, OtherLists, AwaitFields
    <3> QED
      BY <3>3, <3>5, OtherLists DEF At
  <2>2. CASE call[r].kind = "update" /\ doc[d] # None
    BY <2>2, <1>7, OtherLists, AwaitFields DEF At, Running
  <2> QED
    BY <2>1, <2>2
<1>9. Updates(r)
  <2>1. ASSUME todo'[r] = <<>>, call[r].kind # "create", doc[call[r].doc] # None
        PROVE  \A f \in Fields : shown'[r][f] = doc'[call[r].doc][f]
    BY <1>1, <1>2, <1>3, <1>7, <2>1, AfterFind, ShownFacts DEF storeVars
  <2> QED
    BY <1>2, <1>7, <1>8, <2>1 DEF Updates, Is, storeVars
<1> QED
  BY <1>5, <1>6, <1>9 DEF Effect

\* What comes after an insert.
LEMMA AfterInsert ==
  ASSUME ShapeInv, NEW r \in Requests, At(r, "insert")
  PROVE  /\ Doc(r) \in Docs /\ Tail(todo[r]) \in Left(call[r])
         /\ call[r].kind # "create" =>
              call[r].kind \in {"update", "get"} /\ Doc(r) = call[r].doc /\ Tail(todo[r]) = <<>>
         /\ call[r].kind = "create" =>
              \/ todo[r] = AtInsertFlags /\ Doc(r) = "flags" /\ Tail(todo[r]) = AtFindSettings
              \/ todo[r] = AtInsertSettings /\ Doc(r) = "settings" /\ Tail(todo[r]) = AtAudit
<1>1. Running(r)
  BY DEF At
<1>2. /\ call[r] # None
      /\ call[r].kind = "create" => todo[r] \in {AtInsertFlags, AtInsertSettings}
      /\ call[r].kind # "create" =>
           call[r].kind \in {"update", "get"} /\ todo[r] = <<Step("insert", call[r].doc)>>
  BY <1>1, NextAwait
<1>3. CASE call[r].kind = "create" /\ todo[r] = AtInsertFlags
  <2>1. Doc(r) = "flags" /\ Tail(todo[r]) = AtFindSettings
    BY <1>3, CreationLists, AwaitFields DEF Doc
  <2>2. AtFindSettings \in Left(call[r])
    BY <1>3, LeftFacts DEF Placed
  <2> QED
    BY <1>3, <2>1, <2>2, NoneFacts
<1>4. CASE call[r].kind = "create" /\ todo[r] = AtInsertSettings
  <2>1. Doc(r) = "settings" /\ Tail(todo[r]) = AtAudit
    BY <1>4, CreationLists, AwaitFields DEF Doc
  <2>2. AtAudit \in Left(call[r])
    BY <1>4, LeftFacts DEF Placed
  <2> QED
    BY <1>4, <2>1, <2>2, NoneFacts
<1>5. CASE call[r].kind # "create"
  <2>1. Doc(r) = call[r].doc /\ Tail(todo[r]) = <<>>
    <3>1. todo[r] = <<Step("insert", call[r].doc)>>
      BY <1>2, <1>5
    <3>2. Head(todo[r]) = Step("insert", call[r].doc) /\ Tail(todo[r]) = <<>>
      BY <3>1, OtherLists
    <3> QED
      BY <3>2, AwaitFields DEF Doc
  <2>2. call[r].doc \in Docs
    BY <1>2, <1>5, DocFacts
  <2> QED
    BY <1>2, <1>5, <2>1, <2>2, LeftFacts
<1> QED
  BY <1>2, <1>3, <1>4, <1>5

\* A document is inserted once, by the creation of the workspace or a request for the document.
LEMMA InsertEffect == ASSUME NEW r \in Requests, Inv, Insert(r) PROVE Effect(r)
<1> DEFINE d == Doc(r)
<1>1. /\ ShapeInv /\ StoreInv /\ At(r, "insert") /\ Running(r) /\ verdict[r] = "ok"
      /\ call[r] # None
  BY NextAwait DEF Inv, At, Insert
<1>2. /\ d \in Docs /\ Tail(todo[r]) \in Left(call[r])
      /\ call[r].kind # "create" =>
           call[r].kind \in {"update", "get"} /\ d = call[r].doc /\ Tail(todo[r]) = <<>>
      /\ call[r].kind = "create" => todo[r] \in {AtInsertFlags, AtInsertSettings}
  BY <1>1, AfterInsert
<1>3. Defaults[d] \in [Fields -> BOOLEAN] /\ New(r, d) \in [Fields -> BOOLEAN]
      /\ \A f \in Named(r) : Keeps(r, f, New(r, d))
  BY <1>1, <1>2, NoneFacts, ChangedFacts DEF New
<1>4. CASE doc[d] # None
  <2>1. /\ Answer(r, "error")
        /\ UNCHANGED <<workspace, role, doc, call, shown, before, faults>>
    BY <1>4 DEF Insert
  <2>2. Goes(r) /\ verdict'[r] = "error"
    BY <1>1, <2>1, SameValue, Answering
  <2>3. StoreInv' /\ Inserts(r)
    BY <1>1, <2>1 DEF StoreInv, Inserts
  <2>4. ~ At(r, "guard")'
    BY <1>1, <2>1, Answering, SameValue DEF At, Running
  <2>5. Updates(r)
    BY <2>1, <2>2, <2>4 DEF Updates
  <2> QED
    BY <2>2, <2>3, <2>5 DEF Effect
<1>5. CASE doc[d] = None
  <2>1. /\ doc' = [doc EXCEPT ![d] = New(r, d)] /\ shown' = [shown EXCEPT ![r] = New(r, d)]
        /\ todo' = [todo EXCEPT ![r] = Tail(todo[r])]
        /\ UNCHANGED <<workspace, role, call, verdict, before, faults>>
    BY <1>5 DEF Insert, Proceed
  <2>2. New(r, d) \in Documents \cup {None} /\ New(r, d) # None
    BY <1>3, NoneFacts
  <2>3. Goes(r)
    BY <1>1, <1>2, <2>1, <2>2, Going, SameValue
  <2>4. doc' \in [Docs -> [Fields -> BOOLEAN] \cup {None}] /\ doc'[d] = New(r, d)
        /\ \A e \in Docs : e # d => doc'[e] = doc[e]
    BY <1>1, <1>2, <1>3, <2>1 DEF StoreInv
  <2>5. StoreInv'
    BY <1>1, <2>1, <2>4 DEF StoreInv
  <2>6. call[r].kind = "create" => workspace = r
    BY <1>1, <1>2 DEF Inv, CreationInv, Creating, Is, Placed
  <2>7. Inserts(r)
    BY <1>1, <1>2, <1>5, <2>1, <2>2, <2>4, <2>6 DEF Inserts, Is
  <2>8. shown'[r] = New(r, d) /\ verdict'[r] = "ok" /\ todo'[r] = Tail(todo[r])
    BY <1>1, <2>1 DEF ShapeInv
  <2>9. Is(r, "update") => ~ At(r, "guard")'
    BY <1>2, <2>8 DEF Is, At, Running
  <2>10. Updates(r)
    BY <1>2, <1>3, <1>5, <2>2, <2>4, <2>8, <2>9 DEF Updates
  <2> QED
    BY <2>3, <2>5, <2>7, <2>10 DEF Effect
<1> QED
  BY <1>4, <1>5

\* An update changes what it finds.
LEMMA UpdateEffect == ASSUME NEW r \in Requests, Inv, Update(r) PROVE Effect(r)
<1> DEFINE d == Doc(r)
<1>1. /\ ShapeInv /\ StoreInv /\ At(r, "update") /\ Running(r) /\ verdict[r] = "ok"
      /\ call[r] # None /\ call[r].kind = "update" /\ todo[r] = <<Step("update", call[r].doc)>>
  BY NextAwait DEF Inv, At, Update
<1>2. d = call[r].doc /\ d \in Docs /\ Tail(todo[r]) = <<>> /\ <<>> \in Left(call[r])
      /\ ~ At(r, "guard")
  <2>1. Head(todo[r]) = Step("update", call[r].doc) /\ Tail(todo[r]) = <<>>
    BY <1>1, OtherLists
  <2>2. d = call[r].doc /\ ~ At(r, "guard")
    BY <2>1, AwaitFields DEF Doc, At
  <2>3. call[r].doc \in Docs
    BY <1>1, DocFacts
  <2> QED
    BY <2>1, <2>2, <2>3, LeftFacts
<1>3. CASE doc[d] = None
  <2>1. /\ Answer(r, "error")
        /\ UNCHANGED <<workspace, role, doc, call, shown, before, faults>>
    BY <1>3 DEF Update
  <2>2. Goes(r) /\ verdict'[r] = "error" /\ todo'[r] = <<>>
    BY <1>1, <2>1, SameValue, Answering
  <2>3. StoreInv' /\ Inserts(r)
    BY <1>1, <2>1 DEF StoreInv, Inserts
  <2>4. ~ At(r, "guard")'
    BY <2>2 DEF At, Running
  <2>5. Updates(r)
    BY <2>1, <2>2, <2>4 DEF Updates
  <2> QED
    BY <2>2, <2>3, <2>5 DEF Effect
<1>4. CASE doc[d] # None
  <2> DEFINE y == Changed(r, doc[d])
  <2>1. /\ doc' = [doc EXCEPT ![d] = y] /\ shown' = [shown EXCEPT ![r] = y]
        /\ todo' = [todo EXCEPT ![r] = Tail(todo[r])]
        /\ UNCHANGED <<workspace, role, call, verdict, before, faults>>
    <3>1. doc' = [doc EXCEPT ![d] = Changed(r, @)]
      BY <1>4 DEF Update
    <3>2. doc' = [doc EXCEPT ![d] = y]
      BY <3>1
    <3> QED
      BY <1>4, <3>2 DEF Update, Proceed
  <2>2. doc[d] \in [Fields -> BOOLEAN]
    BY <1>1, <1>2, <1>4 DEF StoreInv
  <2>3. /\ y \in [Fields -> BOOLEAN] /\ y \in Documents /\ y # None
        /\ \A f \in Named(r) : Keeps(r, f, y)
    BY <1>1, <2>2, ChangedFacts, NoneFacts
  <2> HIDE DEF y
  <2>4. Goes(r)
    BY <1>1, <1>2, <2>1, <2>3, Going, SameValue
  <2>5. doc' \in [Docs -> [Fields -> BOOLEAN] \cup {None}] /\ doc'[d] = y
        /\ \A e \in Docs : e # d => doc'[e] = doc[e]
    BY <1>1, <1>2, <2>1, <2>3 DEF StoreInv
  <2>6. StoreInv' /\ Inserts(r)
    BY <1>1, <1>2, <1>4, <2>1, <2>3, <2>5 DEF StoreInv, Inserts
  <2>7. shown'[r] = y /\ verdict'[r] = "ok" /\ todo'[r] = <<>>
    BY <1>1, <1>2, <2>1 DEF ShapeInv
  <2>8. ~ At(r, "guard")'
    BY <2>7 DEF At, Running
  <2>9. Updates(r)
    BY <1>1, <1>2, <2>3, <2>5, <2>7, <2>8 DEF Updates, Is, y
  <2> QED
    BY <2>4, <2>6, <2>9 DEF Effect
<1> QED
  BY <1>3, <1>4

\* A request that is stopped stores nothing more.
LEMMA StopEffect == ASSUME NEW r \in Requests, Inv, Stop(r) PROVE Effect(r)
<1>1. ShapeInv /\ StoreInv /\ Running(r) /\ call[r] # None
  BY NextAwait DEF Inv, Stop
<1>2. /\ Answer(r, "error") /\ UNCHANGED <<storeVars, call, shown, before>>
      /\ faults < MaxFaults /\ faults' = faults + 1
  BY DEF Stop
<1>3. faults' \in 0 .. MaxFaults /\ faults <= faults'
  BY <1>1, <1>2, NoneFacts DEF ShapeInv
<1>4. Goes(r) /\ verdict'[r] = "error" /\ todo'[r] = <<>>
  BY <1>1, <1>2, <1>3, Answering
<1>5. StoreInv' /\ Inserts(r)
  BY <1>1, <1>2 DEF StoreInv, Inserts, storeVars
<1>6. ~ At(r, "guard")'
  BY <1>4 DEF At, Running
<1>7. Updates(r)
  BY <1>2, <1>4, <1>6 DEF Updates, storeVars
<1> QED
  BY <1>4, <1>5, <1>7 DEF Effect

-------------------------------------------------------------------------------
(* What the other requests rely on                                         *)

\* What a step of r leaves of each request.
LEMMA Untouched ==
  ASSUME ShapeInv, NEW r \in Requests, Goes(r)
  PROVE  /\ call' = call /\ before' = before
         /\ \A q \in Requests \ {r} :
              todo'[q] = todo[q] /\ verdict'[q] = verdict[q] /\ shown'[q] = shown[q]
         /\ \A q \in Requests :
              Ended(q) => Ended(q)' /\ verdict'[q] = verdict[q] /\ shown'[q] = shown[q]
         /\ \A q \in Requests : ~ Running(q) => ~ Running(q)'
         /\ \A q \in Requests, k \in Kinds : Is(q, k)' <=> Is(q, k)
<1>1. \A q \in Requests \ {r} :
        todo'[q] = todo[q] /\ verdict'[q] = verdict[q] /\ shown'[q] = shown[q]
  BY DEF Goes, ShapeInv
<1>2. Running(r) /\ UNCHANGED <<call, before>>
  BY DEF Goes
<1> QED
  BY <1>1, <1>2 DEF Ended, Running, Is

\* The shape of what is left.
LEMMA ShapeKept == ASSUME ShapeInv, NEW r \in Requests, Goes(r) PROVE ShapeInv'
<1>1. /\ todo' = [q \in Requests |-> todo'[q]]
      /\ verdict' \in [Requests -> Verdicts]
      /\ shown' \in [Requests -> Documents \cup {None}]
  BY DEF Goes, ShapeInv, Verdicts
<1>2. \A q \in Requests : RequestInv(q)'
  <2> SUFFICES ASSUME NEW q \in Requests
               PROVE  RequestInv(q)'
    OBVIOUS
  <2>1. RequestInv(q) /\ call'[q] = call[q]
    BY Untouched DEF ShapeInv
  <2>2. CASE q # r
    BY <2>1, <2>2, Untouched DEF RequestInv, Running
  <2>3. CASE q = r
    BY <2>1, <2>3 DEF RequestInv, Running, Goes
  <2> QED
    BY <2>2, <2>3
<1> QED
  BY <1>1, <1>2 DEF ShapeInv, Goes

\* The order of arrivals.
LEMMA OrderKept == ASSUME ShapeInv, OrderInv, NEW r \in Requests, Goes(r) PROVE OrderInv'
  BY Untouched DEF OrderInv, ShapeInv

\* A rival stays one, and a document that is inserted meanwhile has one.
LEMMA Rivals ==
  ASSUME Inv, NEW r \in Requests, Effect(r), NEW q \in Requests, q # r, call[q] # None,
         NEW d \in Docs, ~ (Is(r, "create") /\ workspace = r)
  PROVE  doc[d] = None \/ Rival(q, d) => doc'[d] = None \/ Rival(q, d)'
<1>1. ShapeInv /\ Goes(r) /\ Inserts(r) /\ Running(r) /\ call[r] # None
  BY DEF Inv, Effect, Goes
<1>2. call' = call /\ before' = before
  BY <1>1, Untouched
<1>3. r \notin before[q]
  BY <1>1 DEF Inv, OrderInv, Ended
<1>4. CASE Rival(q, d)
  BY <1>1, <1>2, <1>4 DEF Rival, Inserts
<1>5. CASE doc[d] = None /\ doc'[d] # None
  <2>1. call[r].kind \in {"update", "get"} /\ call[r].doc = d
    BY <1>1, <1>5 DEF Inserts
  <2> QED
    BY <1>1, <1>2, <1>3, <1>5, <2>1 DEF Rival
<1> QED
  BY <1>4, <1>5

\* A rival stays one also of the request that goes on.
LEMMA RivalsStay ==
  ASSUME Inv, NEW r \in Requests, Effect(r), NEW q \in Requests, NEW d \in Docs, Rival(q, d)
  PROVE  Rival(q, d)'
<1>1. ShapeInv /\ Goes(r) /\ Inserts(r)
  BY DEF Inv, Effect
<1>2. call' = call /\ before' = before
  BY <1>1, Untouched
<1> QED
  BY <1>1, <1>2 DEF Rival, Inserts

\* What a creation has made stays, and no other one makes the workspace.
LEMMA OthersCreate ==
  ASSUME Inv, NEW r \in Requests, Effect(r), NEW q \in Requests, q # r
  PROVE  CreationInv(q)'
<1>1. ShapeInv /\ Goes(r) /\ Inserts(r) /\ CreationInv(q) /\ StoreInv
  BY DEF Inv, Effect
<1>2. /\ call' = call /\ todo'[q] = todo[q] /\ verdict'[q] = verdict[q]
      /\ (Ended(q)' <=> Ended(q)) /\ \A k \in Kinds : Is(q, k)' <=> Is(q, k)
  BY <1>1, Untouched DEF Ended, Running
<1>3. workspace = q => workspace' = q
  BY <1>1, NoneFacts DEF Inserts
<1>4. workspace' = q => workspace = q
  BY <1>1 DEF Inserts
<1>5. /\ \A u \in Users : role[u] = "OWNER" => role'[u] = "OWNER"
      /\ \A d \in Docs : doc[d] # None => doc'[d] # None
  BY <1>1 DEF Inserts
<1>6. CASE ~ Is(q, "create")
  <2>1. ~ Is(q, "create")'
    BY <1>2, <1>6 DEF Kinds
  <2> QED
    BY <1>1, <1>2, <1>4, <1>6, <2>1 DEF CreationInv, Creating
<1>7. CASE Is(q, "create")
  <2>1. call[q] # None /\ call[q].kind = "create" /\ call[q].user \in Users /\ Is(q, "create")'
    BY <1>1, <1>2, <1>7, DocFacts DEF Is, Kinds
  <2>2. \A lists : Creating(q, lists)' <=> Creating(q, lists)
    BY <1>2, <1>7, <2>1 DEF Creating
  <2>3. /\ Creating(q, Placed) => workspace' = q
        /\ Creating(q, Owned) => role'[call[q].user] = "OWNER"
        /\ Creating(q, {AtFindSettings, AtInsertSettings, AtAudit}) => doc'["flags"] # None
        /\ Creating(q, {AtAudit}) => doc'["settings"] # None
        /\ todo[q] \in Unplaced => workspace' # q
    BY <1>1, <1>3, <1>4, <1>5, <1>7, <2>1, NoneFacts DEF CreationInv
  <2>4. todo[q] = AtInsertFlags => doc'["flags"] = None \/ Rival(q, "flags")'
    <3> HAVE todo[q] = AtInsertFlags
    <3>1. workspace = q
      BY <1>1, <1>7 DEF CreationInv, Creating, Placed
    <3> QED
      BY <1>1, <1>7, <2>1, <3>1, Rivals, NoneFacts DEF CreationInv
  <2>5. todo[q] = AtInsertSettings => doc'["settings"] = None \/ Rival(q, "settings")'
    <3> HAVE todo[q] = AtInsertSettings
    <3>1. workspace = q
      BY <1>1, <1>7 DEF CreationInv, Creating, Placed
    <3> QED
      BY <1>1, <1>7, <2>1, <3>1, Rivals, NoneFacts DEF CreationInv
  <2>6. Ended(q) /\ verdict[q] = "error" /\ workspace' = q /\ faults' = 0 =>
          role'[call[q].user] = "OWNER" /\ \E d \in Docs : Rival(q, d)'
    <3> HAVE Ended(q) /\ verdict[q] = "error" /\ workspace' = q /\ faults' = 0
    <3>1. workspace = q /\ faults = 0
      BY <1>1, <1>4, NoneFacts DEF Goes, ShapeInv
    <3>2. role[call[q].user] = "OWNER" /\ \E d \in Docs : Rival(q, d)
      BY <1>1, <1>7, <3>1 DEF CreationInv
    <3> QED
      BY <1>5, <2>1, <3>2, RivalsStay
  <2> QED
    BY <1>2, <2>1, <2>2, <2>3, <2>4, <2>5, <2>6 DEF CreationInv
<1> QED
  BY <1>6, <1>7

\* An update that may undo that of q goes on to be one, once the guard has let it pass.
LEMMA OverwritesStay ==
  ASSUME Inv, NEW r \in Requests, Effect(r), NEW q \in Requests, NEW f,
         NEW x \in Requests, Overwrites(x, q, f), ~ At(x, "guard")
  PROVE  Overwrites(x, q, f)' /\ ~ At(x, "guard")'
<1>1. ShapeInv /\ Goes(r) /\ Updates(r)
  BY DEF Inv, Effect
<1>2. call' = call /\ before' = before /\ (Is(x, "update")' <=> Is(x, "update"))
  BY <1>1, Untouched DEF Kinds
<1>3. CASE x = r
  BY <1>1, <1>2, <1>3 DEF Overwrites, Updates, Named
<1>4. CASE x # r
  BY <1>1, <1>2, <1>4, Untouched DEF Overwrites, At, Running, Named
<1> QED
  BY <1>3, <1>4

\* A field of an update that has succeeded is kept by every step, or overwritten by r.
LEMMA FieldStays ==
  ASSUME Inv, NEW r \in Requests, Effect(r), NEW q \in Requests, Succeeded(q, "update"),
         NEW f \in Named(q)
  PROVE  KeptField(q, f)'
<1> DEFINE d == call[q].doc
<1>1. ShapeInv /\ StoreInv /\ Goes(r) /\ Inserts(r) /\ Updates(r) /\ KeptInv(q)
  BY DEF Inv, Effect
<1>2. /\ call[q] # None /\ call[q].kind = "update" /\ d \in Docs /\ f \in Fields
      /\ call' = call /\ before' = before
      /\ Running(r) /\ call[r] # None
  BY <1>1, DocFacts, Untouched DEF Succeeded, Is, Goes
<1>3. doc[d] # None /\ KeptField(q, f)
  BY <1>1 DEF KeptInv
<1>4. CASE Overwritten(q, f)
  <2>1. Overwritten(q, f)'
    BY <1>4, OverwritesStay DEF Overwritten
  <2> QED
    BY <2>1 DEF KeptField
<1>5. CASE ~ Overwritten(q, f)
  <2>1. /\ Keeps(q, f, doc[d])
        /\ \A x \in Requests :
             Ended(x) /\ verdict[x] = "ok" /\ q \in before[x] /\ call[x].doc = d
             => Keeps(q, f, shown[x])
    BY <1>3, <1>5 DEF KeptField
  <2>2. CASE Keeps(q, f, doc'[d])
    <3>1. ASSUME NEW x \in Requests, Ended(x)', verdict'[x] = "ok", q \in before[x], call[x].doc = d
          PROVE  Keeps(q, f, shown'[x])
      <4>1. CASE x # r
        BY <1>1, <2>1, <3>1, <4>1, Untouched DEF Ended, Running
      <4>2. CASE x = r
        <5>1. todo'[r] = <<>> /\ call[r].kind # "create"
          <6>1. call[r].kind = "create" => call[r].doc = None
            BY <1>1, <1>2, DocFacts
          <6> QED
            BY <1>2, <3>1, <4>2, <6>1, NoneFacts DEF Ended, Running
        <5>2. shown'[r][f] = doc'[d][f]
          BY <1>1, <1>2, <1>3, <3>1, <4>2, <5>1 DEF Updates
        <5> QED
          BY <2>2, <4>2, <5>2 DEF Keeps
      <4> QED
        BY <4>1, <4>2
    <3> QED
      BY <1>2, <2>2, <3>1 DEF KeptField, Keeps
  <2>3. CASE ~ Keeps(q, f, doc'[d])
    <3>1. /\ Is(r, "update") /\ ~ At(r, "guard") /\ call[r].doc = d
          /\ doc'[d] = Changed(r, doc[d]) /\ doc[d] \in [Fields -> BOOLEAN]
      BY <1>1, <1>2, <1>3, <2>1, <2>3 DEF Updates, StoreInv
    <3>2. f \in Named(r) /\ call[r].change[f] # call[q].change[f]
      <4>1. /\ \A g \in Named(r) : Keeps(r, g, Changed(r, doc[d]))
            /\ \A g \in Fields \ Named(r) : Changed(r, doc[d])[g] = doc[d][g]
        BY <1>1, <1>2, <3>1, ChangedFacts
      <4> QED
        BY <1>2, <2>1, <2>3, <3>1, <4>1 DEF Keeps
    <3>3. r \notin before[q] /\ verdict[r] = "ok"
      BY <1>1, <1>2, NextAwait DEF Inv, OrderInv, Ended
    <3>4. Overwrites(r, q, f)
      BY <3>1, <3>2, <3>3 DEF Overwrites
    <3> QED
      BY <1>5, <3>1, <3>4 DEF Overwritten
  <2> QED
    BY <2>2, <2>3
<1> QED
  BY <1>4, <1>5

\* So is all of it.
LEMMA UpdatesStay ==
  ASSUME Inv, NEW r \in Requests, Effect(r), NEW q \in Requests, Succeeded(q, "update")
  PROVE  KeptInv(q)'
<1>1. ShapeInv /\ Goes(r) /\ Inserts(r) /\ KeptInv(q)
  BY DEF Inv, Effect
<1>2. call' = call /\ call[q].doc \in Docs
  BY <1>1, DocFacts, Untouched DEF Succeeded, Is
<1>3. doc'[call[q].doc] # None
  BY <1>1, <1>2 DEF KeptInv, Inserts
<1>4. \A f \in Named(q) : KeptField(q, f)'
  BY FieldStays
<1> QED
  BY <1>2, <1>3, <1>4 DEF KeptInv, Named

\* What succeeds now is kept, as nobody has arrived since.
LEMMA UpdateSucceeds ==
  ASSUME Inv, NEW r \in Requests, Effect(r)
  PROVE  KeptInv(r)'
<1>1. ShapeInv /\ Goes(r) /\ Updates(r) /\ Running(r) /\ call[r] # None
  BY DEF Inv, Effect, Goes
<1>2. call' = call /\ before' = before
  BY <1>1, Untouched
<1>3. \A x \in Requests : r \notin before[x]
  BY <1>1 DEF Inv, OrderInv, Ended
<1>4. Succeeded(r, "update")' =>
        doc'[call[r].doc] # None /\ \A f \in Named(r) : Keeps(r, f, doc'[call[r].doc])
  BY <1>1, <1>2 DEF Succeeded, Ended, Running, Is, Updates
<1> QED
  BY <1>2, <1>3, <1>4 DEF KeptInv, KeptField, Keeps, Named

\* All updates are kept.
LEMMA KeptStays ==
  ASSUME Inv, NEW r \in Requests, Effect(r), NEW q \in Requests
  PROVE  KeptInv(q)'
<1>1. ShapeInv /\ Goes(r)
  BY DEF Inv, Effect
<1>2. CASE q = r
  BY <1>2, UpdateSucceeds
<1>3. CASE q # r
  <2>1. Succeeded(q, "update")' => Succeeded(q, "update")
    BY <1>1, <1>3, Untouched DEF Succeeded, Ended, Running, Is
  <2> QED
    BY <2>1, UpdatesStay DEF KeptInv
<1> QED
  BY <1>2, <1>3

-------------------------------------------------------------------------------
(* Creation                                                                *)

\* The lists of a creation differ.
LEMMA ListsApart ==
  /\ AtFindSlug \notin Placed \cup {<<>>} /\ AtInsertWorkspace \notin Placed \cup {<<>>}
  /\ AtInsertOwner \notin Owned \cup Unplaced \cup {<<>>}
  /\ AtFindFlags \notin Unplaced \cup {<<>>, AtInsertOwner, AtInsertFlags, AtFindSettings,
                                        AtInsertSettings, AtAudit}
  /\ AtInsertFlags \notin Unplaced \cup {<<>>, AtInsertOwner, AtFindSettings,
                                          AtInsertSettings, AtAudit}
  /\ AtFindSettings \notin Unplaced \cup {<<>>, AtInsertOwner, AtInsertFlags,
                                           AtInsertSettings, AtAudit}
  /\ AtInsertSettings \notin Unplaced \cup {<<>>, AtInsertOwner, AtInsertFlags, AtAudit}
  /\ AtAudit \notin Unplaced \cup {<<>>, AtInsertOwner, AtInsertFlags, AtInsertSettings}
  /\ <<>> \notin Unplaced \cup Placed
<1> DEFINE head(l, s, d) == Head(l).do = s /\ Head(l).on = d
<1>1. /\ head(AtFindSlug, "findSlug", None) /\ head(AtInsertWorkspace, "insertWorkspace", None)
      /\ head(AtInsertOwner, "insertOwner", None) /\ head(AtAudit, "audit", None)
      /\ head(AtFindFlags, "find", "flags") /\ head(AtInsertFlags, "insert", "flags")
      /\ head(AtFindSettings, "find", "settings") /\ head(AtInsertSettings, "insert", "settings")
  <2>1. \A l, s, d : Head(l) = Step(s, d) => head(l, s, d)
    BY DEF Step
  <2> HIDE DEF head
  <2> QED
    BY <2>1, CreationLists
<1>2. <<>> \notin Unplaced \cup Placed
  BY CreationLists
<1>3. \A s, t : Head(s).do # Head(t).do \/ Head(s).on # Head(t).on => s # t
  OBVIOUS
<1> QED
  BY <1>1, <1>2 DEF Unplaced, Placed, Owned

\* A request that is no creation has made no workspace.
LEMMA NoCreation ==
  ASSUME Inv, NEW r \in Requests, Effect(r), call[r].kind # "create"
  PROVE  CreationInv(r)'
<1>1. call' = call /\ call[r] # None
  BY Untouched DEF Inv, Effect, Goes
<1> QED
  BY <1>1 DEF CreationInv, Creating, Is

\* What has to be shown of a creation that goes on with l.
LEMMA CreationGoes ==
  ASSUME NEW r \in Requests, Is(r, "create"), call' = call, todo'[r] # <<>>,
         todo'[r] \in Unplaced => workspace' # r,
         todo'[r] \in Placed => workspace' = r,
         todo'[r] \in Owned => role'[call[r].user] = "OWNER",
         todo'[r] \in {AtFindSettings, AtInsertSettings, AtAudit} => doc'["flags"] # None,
         todo'[r] = AtAudit => doc'["settings"] # None,
         todo'[r] = AtInsertFlags => doc'["flags"] = None \/ Rival(r, "flags")',
         todo'[r] = AtInsertSettings => doc'["settings"] = None \/ Rival(r, "settings")'
  PROVE  CreationInv(r)'
<1>1. ~ Ended(r)' /\ call'[r] # None
  BY DEF Ended, Running, Is
<1> QED
  BY <1>1 DEF CreationInv, Creating

\* And of one that ends without success.
LEMMA CreationStops ==
  ASSUME NEW r \in Requests, Is(r, "create"), call' = call, todo'[r] = <<>>, verdict'[r] # "ok",
         verdict'[r] = "error" /\ workspace' = r /\ faults' = 0 =>
           role'[call[r].user] = "OWNER" /\ \E d \in Docs : Rival(r, d)'
  PROVE  CreationInv(r)'
<1>1. todo'[r] \notin Unplaced \cup Placed
  BY ListsApart
<1>2. call'[r] # None
  BY DEF Is
<1>3. \A lists \in SUBSET Placed : ~ Creating(r, lists)'
  BY <1>1 DEF Creating
<1>4. /\ Owned \subseteq Placed /\ {AtFindSettings, AtInsertSettings, AtAudit} \subseteq Placed
      /\ {AtAudit} \subseteq Placed /\ AtInsertFlags \in Placed /\ AtInsertSettings \in Placed
  BY DEF Placed, Owned
<1>5. /\ ~ Creating(r, Placed)' /\ ~ Creating(r, Owned)'
      /\ ~ Creating(r, {AtFindSettings, AtInsertSettings, AtAudit})' /\ ~ Creating(r, {AtAudit})'
  BY <1>3, <1>4
<1> QED
  BY <1>1, <1>2, <1>4, <1>5 DEF CreationInv

\* findBySlug goes on where there is no workspace.
LEMMA FindSlugCreation == ASSUME NEW r \in Requests, Inv, FindSlug(r) PROVE CreationInv(r)'
<1>1. /\ ShapeInv /\ Running(r) /\ Is(r, "create") /\ todo[r] = AtFindSlug /\ CreationInv(r)
      /\ call' = call /\ workspace' = workspace
  BY NextAwait DEF Inv, At, FindSlug, storeVars, Is
<1>2. workspace # r
  BY <1>1 DEF CreationInv, Unplaced
<1>3. CASE todo'[r] = AtInsertWorkspace
  BY <1>1, <1>2, <1>3, ListsApart, CreationGoes DEF Placed, Owned
<1>4. CASE todo'[r] = <<>> /\ verdict'[r] = "refused"
  BY <1>1, <1>4, CreationStops
<1>5. Proceed(r) \/ Answer(r, "refused")
  BY DEF FindSlug
<1> QED
  BY <1>1, <1>3, <1>4, <1>5, CreationLists DEF Proceed, Answer, ShapeInv

\* The workspace is that of the creation that has inserted it.
LEMMA InsertWorkspaceCreation ==
  ASSUME NEW r \in Requests, Inv, InsertWorkspace(r) PROVE CreationInv(r)'
<1>1. /\ ShapeInv /\ Running(r) /\ Is(r, "create") /\ todo[r] = AtInsertWorkspace /\ CreationInv(r)
      /\ call' = call
  BY NextAwait DEF Inv, At, InsertWorkspace, Is
<1>2. workspace # r
  BY <1>1 DEF CreationInv, Unplaced
<1>3. CASE workspace # None
  <2>1. todo'[r] = <<>> /\ verdict'[r] = "error" /\ workspace' # r
    BY <1>1, <1>2, <1>3 DEF InsertWorkspace, Answer, ShapeInv
  <2> QED
    BY <1>1, <2>1, CreationStops
<1>4. CASE workspace = None
  <2>1. todo'[r] = AtInsertOwner /\ workspace' = r
    BY <1>1, <1>4, CreationLists DEF InsertWorkspace, Proceed, ShapeInv
  <2> QED
    BY <1>1, <2>1, ListsApart, CreationGoes DEF Placed, Owned
<1> QED
  BY <1>3, <1>4

\* The owner is a member from then on.
LEMMA InsertOwnerCreation ==
  ASSUME NEW r \in Requests, Inv, InsertOwner(r) PROVE CreationInv(r)'
<1>1. /\ ShapeInv /\ Running(r) /\ Is(r, "create") /\ todo[r] = AtInsertOwner /\ CreationInv(r)
      /\ call' = call /\ workspace' = workspace /\ call[r] # None /\ call[r].kind = "create"
  BY NextAwait DEF Inv, At, InsertOwner, Is
<1>2. workspace = r
  BY <1>1 DEF CreationInv, Creating, Placed
<1>3. todo'[r] = AtFindFlags
  BY <1>1, CreationLists DEF InsertOwner, Proceed, ShapeInv
<1>4. role'[call[r].user] = "OWNER"
  BY <1>1, DocFacts DEF Inv, StoreInv, InsertOwner
<1> QED
  BY <1>1, <1>2, <1>3, <1>4, ListsApart, CreationGoes

\* A creation goes on with the insert of a document that it has not found.
LEMMA FindCreation == ASSUME NEW r \in Requests, Inv, Find(r) PROVE CreationInv(r)'
<1>1. /\ ShapeInv /\ At(r, "find") /\ Running(r) /\ CreationInv(r) /\ Effect(r)
      /\ call' = call /\ call[r] # None /\ UNCHANGED <<workspace, role, doc>>
  BY NextAwait, FindEffect DEF Inv, At, Find, storeVars
<1>2. CASE call[r].kind # "create"
  BY <1>1, <1>2, NoCreation
<1>3. CASE call[r].kind = "create"
  <2>1. todo'[r] = IF doc[Doc(r)] = None THEN Tail(todo[r]) ELSE Following(r)
    BY <1>1, <1>3 DEF Find, Following, ShapeInv
  <2>2. Is(r, "create")
    BY <1>1, <1>3 DEF Is
  <2>3. CASE todo[r] = AtFindFlags
    <3>1. workspace = r /\ role[call[r].user] = "OWNER"
      BY <1>1, <2>2, <2>3, ListsApart DEF CreationInv, Creating, Placed, Owned
    <3>2. Doc(r) = "flags" /\ Tail(todo[r]) = AtInsertFlags /\ Following(r) = AtFindSettings
      BY <1>1, <1>3, <2>3, AfterFind, ListsApart
    <3>3. CASE todo'[r] = AtInsertFlags /\ doc["flags"] = None
      BY <1>1, <2>2, <3>1, <3>3, ListsApart, CreationGoes
    <3>4. CASE todo'[r] = AtFindSettings /\ doc["flags"] # None
      BY <1>1, <2>2, <3>1, <3>4, ListsApart, CreationGoes
    <3> QED
      BY <2>1, <3>2, <3>3, <3>4
  <2>4. CASE todo[r] = AtFindSettings
    <3>1. workspace = r /\ role[call[r].user] = "OWNER" /\ doc["flags"] # None
      BY <1>1, <2>2, <2>4, ListsApart DEF CreationInv, Creating, Placed, Owned
    <3>2. Doc(r) = "settings" /\ Tail(todo[r]) = AtInsertSettings /\ Following(r) = AtAudit
      BY <1>1, <1>3, <2>4, AfterFind, ListsApart
    <3>3. CASE todo'[r] = AtInsertSettings /\ doc["settings"] = None
      BY <1>1, <2>2, <3>1, <3>3, ListsApart, CreationGoes
    <3>4. CASE todo'[r] = AtAudit /\ doc["settings"] # None
      BY <1>1, <2>2, <3>1, <3>4, ListsApart, CreationGoes
    <3> QED
      BY <2>1, <3>2, <3>3, <3>4
  <2> QED
    BY <1>1, <1>3, <2>3, <2>4, AfterFind
<1> QED
  BY <1>2, <1>3

\* A creation stops where another request has inserted what it has not found.
LEMMA InsertCreation == ASSUME NEW r \in Requests, Inv, Insert(r) PROVE CreationInv(r)'
<1>1. /\ ShapeInv /\ StoreInv /\ At(r, "insert") /\ Running(r) /\ CreationInv(r) /\ Effect(r)
      /\ call' = call /\ before' = before /\ call[r] # None /\ UNCHANGED <<workspace, role>>
  BY NextAwait, InsertEffect DEF Inv, At, Insert
<1>2. CASE call[r].kind # "create"
  BY <1>1, <1>2, NoCreation
<1>3. CASE call[r].kind = "create"
  <2>1. Is(r, "create") /\ Doc(r) \in Docs
    BY <1>1, <1>3, AfterInsert DEF Is
  <2>2. \/ todo[r] = AtInsertFlags /\ Doc(r) = "flags" /\ Tail(todo[r]) = AtFindSettings
        \/ todo[r] = AtInsertSettings /\ Doc(r) = "settings" /\ Tail(todo[r]) = AtAudit
    BY <1>1, <1>3, AfterInsert
  <2>3. workspace = r /\ role[call[r].user] = "OWNER"
    BY <1>1, <2>1, <2>2, ListsApart DEF CreationInv, Creating, Placed, Owned
  <2>4. CASE doc[Doc(r)] # None
    <3>1. Rival(r, Doc(r))
      BY <1>1, <2>1, <2>2, <2>4 DEF CreationInv
    <3>2. \E d \in Docs : Rival(r, d)
      BY <2>1, <3>1
    <3>3. todo'[r] = <<>> /\ verdict'[r] = "error"
      BY <1>1, <2>4 DEF Insert, Answer, ShapeInv
    <3>4. \E d \in Docs : Rival(r, d)'
      BY <1>1, <3>2, RivalsStay
    <3> QED
      BY <1>1, <2>1, <2>3, <3>3, <3>4, CreationStops
  <2>5. CASE doc[Doc(r)] = None
    <3>1. todo'[r] = Tail(todo[r]) /\ doc' = [doc EXCEPT ![Doc(r)] = New(r, Doc(r))]
      BY <1>1, <2>5 DEF Insert, Proceed, ShapeInv
    <3>2. Defaults[Doc(r)] \in [Fields -> BOOLEAN]
      BY <2>1, NoneFacts
    <3>3. New(r, Doc(r)) \in [Fields -> BOOLEAN]
      BY <1>1, <3>2, ChangedFacts DEF New
    <3>4. doc'[Doc(r)] # None /\ \A d \in Docs : doc[d] # None => doc'[d] # None
      BY <1>1, <2>1, <3>1, <3>3, NoneFacts DEF StoreInv
    <3>5. CASE todo[r] = AtInsertFlags /\ Doc(r) = "flags" /\ Tail(todo[r]) = AtFindSettings
      BY <1>1, <2>1, <2>3, <3>1, <3>4, <3>5, ListsApart, CreationGoes
    <3>6. CASE todo[r] = AtInsertSettings /\ Doc(r) = "settings" /\ Tail(todo[r]) = AtAudit
      <4>1. doc["flags"] # None
        BY <1>1, <2>1, <3>6, ListsApart DEF CreationInv, Creating
      <4> QED
        BY <1>1, <2>1, <2>3, <3>1, <3>4, <3>6, <4>1, ListsApart, CreationGoes, NoneFacts
    <3> QED
      BY <2>2, <3>5, <3>6
  <2> QED
    BY <2>4, <2>5
<1> QED
  BY <1>2, <1>3

\* A creation that comes to its end has made everything.
LEMMA AuditCreation == ASSUME NEW r \in Requests, Inv, Audit(r) PROVE CreationInv(r)'
<1>1. /\ ShapeInv /\ Running(r) /\ Is(r, "create") /\ todo[r] = AtAudit /\ CreationInv(r)
      /\ call' = call /\ UNCHANGED <<workspace, role, doc, verdict>> /\ verdict[r] = "ok"
  BY NextAwait DEF Inv, At, Audit, storeVars, Is, Proceed
<1>2. /\ workspace = r /\ role[call[r].user] = "OWNER" /\ doc["flags"] # None
      /\ doc["settings"] # None
  BY <1>1, ListsApart DEF CreationInv, Creating, Placed, Owned
<1>3. todo'[r] = <<>>
  BY <1>1, CreationLists DEF Audit, Proceed, ShapeInv
<1>4. todo'[r] \notin Unplaced \cup Placed /\ call'[r] # None
  BY <1>1, <1>3, ListsApart DEF Is
<1> QED
  BY <1>1, <1>2, <1>4 DEF CreationInv, Placed

\* A creation may be stopped anywhere, by a fault.
LEMMA StopCreation == ASSUME NEW r \in Requests, Inv, Stop(r) PROVE CreationInv(r)'
<1>1. /\ ShapeInv /\ Effect(r) /\ call' = call /\ call[r] # None
      /\ faults \in Nat /\ faults' = faults + 1 /\ todo'[r] = <<>> /\ verdict'[r] = "error"
  <2>1. ShapeInv /\ Running(r) /\ Effect(r) /\ faults' = faults + 1 /\ call' = call
    BY StopEffect DEF Inv, Stop
  <2>2. todo'[r] = <<>> /\ verdict'[r] = "error"
    BY <2>1 DEF Stop, Answer, ShapeInv
  <2>3. call[r] # None /\ faults \in Nat
    BY <2>1, NextAwait, NoneFacts DEF ShapeInv
  <2> QED
    BY <2>1, <2>2, <2>3
<1>2. CASE call[r].kind # "create"
  BY <1>1, <1>2, NoCreation
<1>3. CASE call[r].kind = "create"
  <2>1. Is(r, "create") /\ faults' # 0
    BY <1>1, <1>3 DEF Is
  <2> QED
    BY <1>1, <2>1, CreationStops
<1> QED
  BY <1>2, <1>3

\* Every await is accounted for.
LEMMA AwaitKeepsInv ==
  ASSUME NEW r \in Requests, Inv,
         \/ FindSlug(r) \/ InsertWorkspace(r) \/ InsertOwner(r) \/ Audit(r)
         \/ Guard(r) \/ Find(r) \/ Insert(r) \/ Update(r) \/ Stop(r)
  PROVE  Inv'
<1>1. Effect(r)
  BY FindSlugEffect, InsertWorkspaceEffect, InsertOwnerEffect, AuditEffect, GuardEffect,
     FindEffect, InsertEffect, UpdateEffect, StopEffect
<1>2. CreationInv(r)'
  <2>1. CASE Guard(r) \/ Update(r)
    <3>1. call[r].kind # "create"
      BY <2>1, NextAwait DEF Inv, Guard, Update, At
    <3> QED
      BY <1>1, <3>1, NoCreation
  <2> QED
    BY <2>1, FindSlugCreation, InsertWorkspaceCreation, InsertOwnerCreation, AuditCreation,
       FindCreation, InsertCreation, StopCreation
<1>3. ShapeInv /\ OrderInv /\ Goes(r) /\ StoreInv'
  BY <1>1 DEF Inv, Effect
<1> QED
  BY <1>1, <1>2, <1>3, ShapeKept, OrderKept, OthersCreate, KeptStays DEF Inv

-------------------------------------------------------------------------------
(* Arrivals                                                                *)

\* Nobody knows a request to have ended that has not arrived.
LEMMA ArriveKeepsInv == ASSUME NEW r \in Requests, Inv, Arrive(r) PROVE Inv'
<1>1. /\ StoreInv /\ ShapeInv /\ OrderInv /\ call[r] = None /\ CreationInv(r)
      /\ UNCHANGED <<workspace, role, doc, shown, faults>>
  BY DEF Inv, Arrive, storeVars
<1>2. PICK c \in Calls :
        /\ c.kind = "create" <=> c.doc = None
        /\ c.kind = "isEnabled" <=> c.user = None
        /\ IF c.kind = "update"
             THEN [doc |-> c.doc, change |-> c.change] \in Changes
             ELSE c.change = NoChange
        /\ call' = [call EXCEPT ![r] = c]
        /\ todo' = [todo EXCEPT ![r] = Plan(c)]
  BY DEF Arrive
<1>3. c \in Calls /\ c # None /\ c.kind \in Kinds
  BY <1>2, DocumentAssumption DEF Calls
<1>4. WellFormed(c)
  BY <1>2, <1>3 DEF WellFormed
<1>5. Plan(c) \in Left(c) /\ Plan(c) # <<>>
  <2>1. CASE c.kind = "create"
    BY <2>1, CreationPlan, LeftFacts, ListsApart DEF Unplaced
  <2>2. \A x, y, z : <<x, y, z>> # <<>> /\ <<x, y>> # <<>> /\ <<x>> # <<>>
    OBVIOUS
  <2>3. CASE c.kind \in {"update", "get", "isEnabled"}
    <3>1. Plan(c) \in Left(c)
      BY <2>3, OtherPlans, LeftFacts
    <3>2. Plan(c) # <<>>
      BY <2>2, <2>3, OtherPlans
    <3> QED
      BY <3>1, <3>2
  <2> QED
    BY <1>3, <2>1, <2>3 DEF Kinds
<1>6. /\ call'[r] = c /\ todo'[r] = Plan(c) /\ verdict'[r] = "ok"
      /\ before'[r] = {q \in Requests : Ended(q)}
      /\ \A q \in Requests \ {r} : /\ call'[q] = call[q] /\ todo'[q] = todo[q]
                                   /\ verdict'[q] = verdict[q] /\ before'[q] = before[q]
  BY <1>1, <1>2 DEF ShapeInv, Arrive
<1>7. ~ Ended(r)' /\ Running(r)' /\ call'[r] # None
  BY <1>3, <1>5, <1>6 DEF Ended, Running
<1>8. \A q \in Requests \ {r} :
        /\ (Ended(q)' <=> Ended(q)) /\ (Running(q)' <=> Running(q))
        /\ \A k \in Kinds : Is(q, k)' <=> Is(q, k)
        /\ At(q, "guard")' <=> At(q, "guard")
  BY <1>6 DEF Ended, Running, Is, At
<1>9. ShapeInv'
  <2>1. \A q \in Requests : RequestInv(q)'
    <3> TAKE q \in Requests
    <3>1. CASE q = r
      BY <1>4, <1>5, <1>6, <1>7, <3>1 DEF RequestInv, Running
    <3>2. CASE q # r
      <4>1. RequestInv(q) /\ q \in Requests \ {r}
        BY <1>1, <3>2 DEF ShapeInv
      <4> QED
        BY <1>6, <4>1 DEF RequestInv, Running
    <3> QED
      BY <3>1, <3>2
  <2>2. /\ call' \in [Requests -> Calls \cup {None}]
        /\ verdict' \in [Requests -> Verdicts]
        /\ before' \in [Requests -> SUBSET Requests]
    BY <1>1, <1>2, <1>3 DEF ShapeInv, Arrive, Verdicts
  <2>3. todo' = [q \in Requests |-> todo'[q]]
    BY <1>1, <1>2 DEF ShapeInv
  <2> QED
    BY <1>1, <2>1, <2>2, <2>3 DEF ShapeInv
<1>10. OrderInv'
  <2>1. ASSUME NEW q \in Requests, NEW x \in before'[q]
        PROVE  x \in Requests \ {r} /\ Ended(x) /\ q \notin before[x] /\ call'[q] # None
    <3>1. CASE q = r
      <4>1. x \in Requests /\ Ended(x)
        BY <1>6, <2>1, <3>1
      <4>2. x # r
        BY <1>1, <4>1 DEF Ended
      <4>3. r \notin before[x]
        BY <1>1, <4>1 DEF OrderInv, Ended
      <4> QED
        BY <1>7, <3>1, <4>1, <4>2, <4>3
    <3>2. CASE q # r
      <4>1. x \in before[q] /\ x \in Requests
        BY <1>1, <1>6, <2>1, <3>2 DEF ShapeInv
      <4>2. Ended(x) /\ call[q] # None /\ q \notin before[x]
        BY <1>1, <4>1 DEF OrderInv
      <4>3. x # r
        BY <1>1, <4>2 DEF Ended
      <4> QED
        BY <1>6, <3>2, <4>1, <4>2, <4>3
    <3> QED
      BY <3>1, <3>2
  <2> QED
    BY <1>6, <1>8, <2>1 DEF OrderInv
<1>11. \A q \in Requests : CreationInv(q)'
  <2> TAKE q \in Requests
  <2>1. CASE q = r
    <3>1. workspace' # r
      BY <1>1 DEF CreationInv
    <3>2. Is(r, "create")' => todo'[r] = AtFindSlug
      BY <1>6, CreationPlan DEF Is
    <3>3. \A lists \in SUBSET Placed : ~ Creating(r, lists)'
      BY <1>7, <3>2, ListsApart DEF Creating
    <3>4. /\ ~ Creating(r, Placed)' /\ ~ Creating(r, Owned)'
          /\ ~ Creating(r, {AtFindSettings, AtInsertSettings, AtAudit})'
          /\ ~ Creating(r, {AtAudit})'
      BY <3>3 DEF Placed, Owned
    <3>5. ~ (Is(r, "create")' /\ todo'[r] \in {AtInsertFlags, AtInsertSettings})
      BY <3>2, ListsApart DEF Placed
    <3> QED
      BY <1>7, <2>1, <3>1, <3>4, <3>5 DEF CreationInv
  <2>2. CASE q # r
    <3>1. CreationInv(q) /\ q \in Requests \ {r}
      BY <2>2 DEF Inv
    <3>2. Is(q, "create")' <=> Is(q, "create")
      BY <1>8, <3>1 DEF Kinds
    <3>3. \A lists : Creating(q, lists)' <=> Creating(q, lists)
      BY <1>6, <1>8, <3>1, <3>2 DEF Creating
    <3>4. \A d \in Docs : Rival(q, d) => Rival(q, d)'
      BY <1>1, <1>6, <3>1 DEF Rival
    <3>5. call'[q] = call[q] /\ todo'[q] = todo[q] /\ verdict'[q] = verdict[q]
          /\ (Ended(q)' <=> Ended(q))
      BY <1>6, <1>8, <3>1
    <3> QED
      BY <1>1, <3>1, <3>2, <3>3, <3>4, <3>5, NoneFacts DEF CreationInv
  <2> QED
    BY <2>1, <2>2
<1>12. \A q \in Requests : KeptInv(q)'
  <2> TAKE q \in Requests
  <2>1. CASE q = r
    BY <1>7, <2>1 DEF KeptInv, Succeeded
  <2>2. CASE q # r
    <3> SUFFICES ASSUME Succeeded(q, "update")'
                 PROVE  KeptInv(q)'
      BY DEF KeptInv
    <3>1. KeptInv(q) /\ q \in Requests \ {r}
      BY <2>2 DEF Inv
    <3>2. Succeeded(q, "update") /\ call'[q] = call[q]
      BY <1>6, <1>8, <3>1 DEF Succeeded, Kinds
    <3>3. doc[call[q].doc] # None
      BY <3>1, <3>2 DEF KeptInv
    <3>4. ASSUME NEW f \in Named(q)
          PROVE  KeptField(q, f)'
      <4>1. KeptField(q, f)
        BY <3>1, <3>2, <3>4 DEF KeptInv
      <4>2. CASE Overwritten(q, f)
        <5>1. PICK x \in Requests : Overwrites(x, q, f) /\ ~ At(x, "guard")
          BY <4>2 DEF Overwritten
        <5>2. x \in Requests \ {r}
          BY <1>1, <5>1 DEF Overwrites, Is
        <5>3. Overwrites(x, q, f)' /\ ~ At(x, "guard")'
          BY <1>6, <1>8, <3>1, <5>1, <5>2 DEF Overwrites, Kinds, Named
        <5> QED
          BY <5>3 DEF KeptField, Overwritten
      <4>3. CASE ~ Overwritten(q, f)
        <5>1. /\ Keeps(q, f, doc[call[q].doc])
              /\ \A x \in Requests :
                   Ended(x) /\ verdict[x] = "ok" /\ q \in before[x] /\ call[x].doc = call[q].doc
                   => Keeps(q, f, shown[x])
          BY <4>1, <4>3 DEF KeptField
        <5>2. Keeps(q, f, doc[call[q].doc])'
          BY <1>1, <3>2, <5>1 DEF Keeps
        <5>3. ASSUME NEW x \in Requests, Ended(x)', verdict'[x] = "ok", q \in before'[x],
                     call'[x].doc = call'[q].doc
              PROVE  Keeps(q, f, shown[x])'
          <6>1. x \in Requests \ {r}
            BY <1>7, <5>3
          <6>2. Keeps(q, f, shown[x])
            BY <1>6, <1>8, <3>2, <5>1, <5>3, <6>1
          <6> QED
            BY <1>1, <3>2, <6>2 DEF Keeps
        <5> QED
          BY <5>2, <5>3 DEF KeptField
      <4> QED
        BY <4>2, <4>3
    <3>5. Named(q)' = Named(q)
      BY <3>2 DEF Named
    <3> QED
      BY <1>1, <3>2, <3>3, <3>4, <3>5 DEF KeptInv
  <2> QED
    BY <2>1, <2>2
<1> QED
  BY <1>1, <1>9, <1>10, <1>11, <1>12 DEF Inv, StoreInv

\* At first nobody has asked for anything.
LEMMA InitInv == Init => Inv
<1> SUFFICES ASSUME Init
             PROVE  Inv
  OBVIOUS
<1>1. /\ workspace \in {None, First} /\ First \notin Requests
      /\ role \in [Users -> Roles \cup {None}]
      /\ \A r \in Requests : /\ call[r] = None /\ todo[r] = <<>> /\ verdict[r] = "none"
                             /\ shown[r] = None /\ before[r] = {}
      /\ faults = 0
  BY WorkspacesAssumption DEF Init
<1>2. StoreInv
  BY <1>1, NoneFacts DEF Init, StoreInv, Origins
<1>3. ShapeInv
  BY <1>1, NoneFacts DEF Init, ShapeInv, RequestInv, Verdicts
<1>4. OrderInv
  BY <1>1 DEF OrderInv
<1>5. \A r \in Requests : CreationInv(r) /\ KeptInv(r)
  BY <1>1, NoneFacts DEF CreationInv, Creating, KeptInv, Succeeded, Is
<1> QED
  BY <1>2, <1>3, <1>4, <1>5 DEF Inv

\* Nothing depends on what a step leaves alone.
LEMMA StutterInv == Inv /\ UNCHANGED vars => Inv'
<1> SUFFICES ASSUME Inv, UNCHANGED vars
             PROVE  Inv'
  OBVIOUS
<1> USE DEF vars, storeVars
<1>1. StoreInv' /\ ShapeInv' /\ OrderInv'
  BY DEF Inv, StoreInv, ShapeInv, RequestInv, OrderInv, Ended, Running
<1>2. \A r \in Requests : CreationInv(r)'
  BY DEF Inv, CreationInv, Creating, Rival, Is, Ended, Running
<1>3. \A r \in Requests : KeptInv(r)'
  BY DEF Inv, KeptInv, KeptField, Overwritten, Succeeded, Overwrites, Named, Keeps, Is, At,
     Ended, Running
<1> QED
  BY <1>1, <1>2, <1>3 DEF Inv

\* The invariant is inductive.
LEMMA Invariance == Spec => []Inv
<1>1. Inv /\ [Next]_vars => Inv'
  <2> SUFFICES ASSUME Inv, [Next]_vars
               PROVE  Inv'
    OBVIOUS
  <2>1. CASE UNCHANGED vars
    BY <2>1, StutterInv
  <2>2. CASE Next
    BY <2>2, ArriveKeepsInv, AwaitKeepsInv DEF Next
  <2> QED
    BY <2>1, <2>2
<1> QED
  BY <1>1, InitInv, PTL DEF Spec

\* The lists of awaits are lists of awaits.
LEMMA LeftType ==
  ASSUME NEW c, WellFormed(c)
  PROVE  Left(c) \subseteq Seq(Steps)
<1>1. c.kind \in Kinds /\ c.doc \in Docs \cup {None}
  BY DEF WellFormed, Calls
<1>2. \A s \in {"findSlug", "insertWorkspace", "insertOwner", "guard", "find", "insert",
                "update", "audit"}, d \in Docs \cup {None} : Step(s, d) \in Steps
  BY DEF Step, Steps
<1> HIDE DEF Step, Steps
<1>3. \A l \in Unplaced \cup Placed : l \in Seq(Steps)
  <2>1. "flags" \in Docs /\ "settings" \in Docs
    BY NoneFacts
  <2>2. /\ AtFindSlug \in Seq(Steps) /\ AtInsertWorkspace \in Seq(Steps)
        /\ AtInsertOwner \in Seq(Steps)
    BY <1>2, <2>1 DEF AtFindSlug, AtInsertWorkspace, AtInsertOwner
  <2>3. AtFindFlags \in Seq(Steps) /\ AtInsertFlags \in Seq(Steps) /\ AtFindSettings \in Seq(Steps)
    BY <1>2, <2>1 DEF AtFindFlags, AtInsertFlags, AtFindSettings
  <2>4. AtInsertSettings \in Seq(Steps) /\ AtAudit \in Seq(Steps)
    BY <1>2, <2>1 DEF AtInsertSettings, AtAudit
  <2> QED
    BY <2>2, <2>3, <2>4 DEF Unplaced, Placed
<1>4. <<>> \in Seq(Steps)
  OBVIOUS
<1>5. CASE c.kind = "create"
  BY <1>3, <1>4, <1>5 DEF Left
<1>6. CASE c.kind = "update"
  BY <1>1, <1>2, <1>4, <1>6 DEF Left
<1>7. CASE c.kind = "get"
  BY <1>1, <1>2, <1>4, <1>7 DEF Left
<1>8. CASE c.kind = "isEnabled"
  BY <1>1, <1>2, <1>4, <1>8 DEF Left
<1> QED
  BY <1>1, <1>5, <1>6, <1>7, <1>8 DEF Kinds

\* Every variable keeps its type: stored documents are complete, requests end in one of the
\* three ways, and only awaits of their routes are left of them.
THEOREM TypeCorrectness == Spec => []TypeOK
<1>1. Inv => TypeOK
  <2> SUFFICES ASSUME Inv
               PROVE  TypeOK
    OBVIOUS
  <2>1. ASSUME NEW r \in Requests
        PROVE  todo[r] \in Seq(Steps)
    <3>1. RequestInv(r)
      BY DEF Inv, ShapeInv
    <3>2. CASE call[r] = None
      <4>1. todo[r] = <<>>
        BY <3>1, <3>2 DEF RequestInv
      <4>2. <<>> \in Seq(Steps)
        OBVIOUS
      <4> QED
        BY <4>1, <4>2
    <3>3. CASE call[r] # None
      BY <3>1, <3>3, LeftType DEF RequestInv
    <3> QED
      BY <3>2, <3>3
  <2>2. todo \in [Requests -> Seq(Steps)]
    BY <2>1 DEF Inv, ShapeInv
  <2>3. doc \in [Docs -> Documents \cup {None}]
    BY NoneFacts DEF Inv, StoreInv
  <2> QED
    BY <2>2, <2>3 DEF TypeOK, Inv, StoreInv, ShapeInv
<1> QED
  BY <1>1, Invariance, PTL

\* A creation that is answered with success has made the workspace and all that belongs to it;
\* one that fails without a fault has had a rival for the flags or settings.
THEOREM CreationsAccounted == Spec => []CreationAccounted
<1>1. Inv => CreationAccounted
  <2> SUFFICES ASSUME Inv, NEW r \in Requests, Is(r, "create"), Ended(r)
               PROVE  /\ verdict[r] = "ok" =>
                           /\ workspace = r /\ role[call[r].user] = "OWNER"
                           /\ \A d \in Docs : doc[d] # None
                      /\ verdict[r] = "error" /\ workspace = r /\ faults = 0 =>
                           /\ role[call[r].user] = "OWNER"
                           /\ \E q \in Requests :
                                /\ q # r /\ q \notin before[r] /\ call[q] # None
                                /\ call[q].kind \in {"update", "get"} /\ doc[call[q].doc] # None
    BY DEF CreationAccounted
  <2>1. CreationInv(r)
    BY DEF Inv
  <2>2. verdict[r] = "ok" => \A lists : Creating(r, lists)
    BY DEF Creating
  <2>3. verdict[r] = "ok" =>
          /\ workspace = r /\ role[call[r].user] = "OWNER"
          /\ doc["flags"] # None /\ doc["settings"] # None
    BY <2>1, <2>2 DEF CreationInv
  <2>4. ASSUME verdict[r] = "error", workspace = r, faults = 0
        PROVE  role[call[r].user] = "OWNER" /\ \E d \in Docs : Rival(r, d)
    BY <2>1, <2>4 DEF CreationInv
  <2> QED
    BY <2>3, <2>4 DEF Docs, Rival
<1> QED
  BY <1>1, Invariance, PTL

\* Every field of an update that was answered is in the document and shown to whoever asks
\* afterwards, until another one sets the same field.
THEOREM UpdatesStayKept == Spec => []UpdatesKept
<1>1. Inv => UpdatesKept
  <2> SUFFICES ASSUME Inv, NEW r \in Requests, Succeeded(r, "update"),
                      NEW f \in Named(r), ~ \E q \in Requests : Overwrites(q, r, f)
               PROVE  /\ doc[call[r].doc][f] = call[r].change[f]
                      /\ \A q \in Requests :
                           /\ Ended(q) /\ verdict[q] = "ok" /\ r \in before[q]
                           /\ call[q].doc = call[r].doc
                           => shown[q][f] = call[r].change[f]
    BY DEF UpdatesKept
  <2>1. KeptInv(r)
    BY DEF Inv
  <2> QED
    BY <2>1 DEF KeptInv, KeptField, Overwritten, Keeps
<1> QED
  BY <1>1, Invariance, PTL

\* The two ways to read the flags agree, as every stored document has a value in every field.
THEOREM FlagsAgree == Spec => []FlagAnswersAgree
<1>1. Inv => FlagAnswersAgree
  <2> SUFFICES ASSUME Inv
               PROVE  GetFlags(doc["flags"]) = IsEnabled(doc["flags"])
    BY DEF FlagAnswersAgree
  <2>1. doc["flags"] \in [Fields -> BOOLEAN] \cup {None}
    BY NoneFacts DEF Inv, StoreInv
  <2> QED
    BY <2>1, ShownFacts
<1> QED
  BY <1>1, Invariance, PTL

-------------------------------------------------------------------------------
(* Idempotency: the interceptor in front of the endpoint that creates      *)

\* Where a request stands that got past the reservation.
Past == {"handler", "complete", "created"}

\* With any incidents: a stored or replayed response is that of a request with the
\* same body that has created its resource.
GenuineInv ==
  /\ entry.status = "COMPLETED" =>
       entry.of \in created /\ entry.of \in KeyRequests /\ Body[entry.of] = entry.body
  /\ \A r \in KeyRequests : at[r] = "complete" => r \in created
  /\ ReplayIsGenuine

\* Without incidents: the record mirrors the one request that got past the
\* reservation, and nobody has deleted it.
MirrorInv ==
  /\ \A r \in KeyRequests : at[r] \notin {"delete", "error"}
  /\ \A r \in KeyRequests : at[r] # "new" => entry # NoEntry
  /\ \A r \in KeyRequests : at[r] \in {"handler", "complete"} => entry.status = "PROCESSING"
  /\ \A r \in KeyRequests : at[r] = "created" => entry.status = "COMPLETED"
  /\ \A r, s \in KeyRequests : at[r] \in Past /\ at[s] \in Past => r = s
  /\ \A r \in created : at[r] \in {"complete", "created"}

KeyInv == KeyTypeOK /\ GenuineInv /\ (NoIncident => MirrorInv)

\* Before the first request there is no record and nothing to prove.
LEMMA KeyInitInv == KeyInit => KeyInv
  BY RequestAssumption
  DEF KeyInit, KeyInv, KeyTypeOK, GenuineInv, ReplayIsGenuine, MirrorInv,
      Entries, NoEntry, InProgress, Final, IncidentKinds, Past

\* What happened does not unhappen.
LEMMA IncidentFacts ==
  ASSUME KeyTypeOK, NEW k \in IncidentKinds, Incident(k)
  PROVE  ~ NoIncident' /\ incidents' \in [IncidentKinds -> Nat]
<1>1. incidents[k] \in Nat /\ incidents'[k] = incidents[k] + 1
  BY DEF KeyTypeOK, Incident
<1>2. incidents'[k] # 0
  BY <1>1
<1> QED
  BY <1>1, <1>2 DEF KeyTypeOK, Incident, NoIncident

\* The kinds of incident the actions name.
LEMMA IncidentNames ==
  /\ "handler" \in IncidentKinds /\ "redis" \in IncidentKinds
  /\ "expiry" \in IncidentKinds /\ "crash" \in IncidentKinds
  BY DEF IncidentKinds

\* What reserve and complete write are records, told apart by their status.
LEMMA EntryFacts ==
  ASSUME NEW r \in KeyRequests
  PROVE  /\ NoEntry \in Entries /\ NoEntry.status = "NONE"
         /\ Processing(r) \in Entries /\ Processing(r).status = "PROCESSING"
         /\ Completed(r) \in Entries /\ Completed(r).status = "COMPLETED"
         /\ Completed(r).of = r /\ Completed(r).body = Body[r]
         /\ Processing(r) # NoEntry /\ Completed(r) # NoEntry
  BY RequestAssumption DEF Entries, NoEntry, Processing, Completed

\* A record that is completed names the request that completed it.
LEMMA CompletedEntryHasRequest ==
  ASSUME entry \in Entries, entry.status = "COMPLETED"
  PROVE  entry.of \in KeyRequests
  BY DEF Entries, NoEntry

-------------------------------------------------------------------------------
(* What the steps of the interceptor keep                                  *)

\* reserve: SET NX writes only where there was no record.
LEMMA ReserveInv == ASSUME NEW r \in KeyRequests, KeyInv, Reserve(r) PROVE KeyInv'
<1> USE EntryFacts DEF InProgress, Final
<1>1. KeyTypeOK'
  BY DEF KeyInv, KeyTypeOK, Reserve, Goto
<1>2. GenuineInv'
  BY DEF KeyInv, KeyTypeOK, GenuineInv, ReplayIsGenuine, Reserve, Goto
<1>3. ASSUME NoIncident' PROVE MirrorInv'
  <2>1. NoIncident /\ MirrorInv
    BY <1>3 DEF KeyInv, NoIncident, Reserve
  <2> QED
    BY <2>1 DEF KeyInv, KeyTypeOK, MirrorInv, Reserve, Goto, Past
<1> QED
  BY <1>1, <1>2, <1>3 DEF KeyInv

\* get: a record that is gone lets a request through only after an incident.
LEMMA GetInv == ASSUME NEW r \in KeyRequests, KeyInv, Get(r) PROVE KeyInv'
<1> USE DEF InProgress, Final
<1>1. KeyTypeOK'
  BY CompletedEntryHasRequest DEF KeyInv, KeyTypeOK, Get, Goto
<1>2. GenuineInv'
  BY DEF KeyInv, KeyTypeOK, GenuineInv, ReplayIsGenuine, Get, Goto
<1>3. ASSUME NoIncident' PROVE MirrorInv'
  <2>1. NoIncident /\ MirrorInv
    BY <1>3 DEF KeyInv, NoIncident, Get
  <2>2. at[r] = "get" /\ entry # NoEntry
    BY <2>1 DEF MirrorInv, Get
  <2> QED
    BY <2>1, <2>2 DEF KeyInv, KeyTypeOK, MirrorInv, Get, Goto, Past
<1> QED
  BY <1>1, <1>2, <1>3 DEF KeyInv

\* The handler creates the resource of the one request past the reservation.
LEMMA HandleInv == ASSUME NEW r \in KeyRequests, KeyInv, Handle(r) PROVE KeyInv'
<1> USE DEF InProgress, Final
<1>1. KeyTypeOK'
  BY DEF KeyInv, KeyTypeOK, Handle, Goto
<1>2. GenuineInv'
  BY DEF KeyInv, KeyTypeOK, GenuineInv, ReplayIsGenuine, Handle, Goto
<1>3. ASSUME NoIncident' PROVE MirrorInv'
  <2>1. NoIncident /\ MirrorInv
    BY <1>3 DEF KeyInv, NoIncident, Handle
  <2> QED
    BY <2>1 DEF KeyInv, KeyTypeOK, MirrorInv, Handle, Goto, Past
<1> QED
  BY <1>1, <1>2, <1>3 DEF KeyInv

\* complete: the response that is stored is that of a request that has created.
LEMMA CompleteInv == ASSUME NEW r \in KeyRequests, KeyInv, Complete(r) PROVE KeyInv'
<1> USE EntryFacts DEF InProgress, Final
<1>1. KeyTypeOK'
  BY DEF KeyInv, KeyTypeOK, Complete, Goto
<1>2. GenuineInv'
  BY DEF KeyInv, KeyTypeOK, GenuineInv, ReplayIsGenuine, Complete, Goto
<1>3. ASSUME NoIncident' PROVE MirrorInv'
  <2>1. NoIncident /\ MirrorInv
    BY <1>3 DEF KeyInv, NoIncident, Complete
  <2> QED
    BY <2>1 DEF KeyInv, KeyTypeOK, MirrorInv, Complete, Goto, Past
<1> QED
  BY <1>1, <1>2, <1>3 DEF KeyInv

\* delete: reached only after an incident.
LEMMA DeleteInv == ASSUME NEW r \in KeyRequests, KeyInv, Delete(r) PROVE KeyInv'
<1> USE EntryFacts DEF InProgress, Final
<1>1. KeyTypeOK'
  BY DEF KeyInv, KeyTypeOK, Delete, Goto
<1>2. GenuineInv'
  BY DEF KeyInv, KeyTypeOK, GenuineInv, ReplayIsGenuine, Delete, Goto
<1>3. ~ NoIncident'
  BY DEF KeyInv, NoIncident, MirrorInv, Delete
<1> QED
  BY <1>1, <1>2, <1>3 DEF KeyInv

\* A handler that throws is an incident.
LEMMA HandleThrowsInv == ASSUME NEW r \in KeyRequests, KeyInv, HandleThrows(r) PROVE KeyInv'
<1>1. ~ NoIncident' /\ incidents' \in [IncidentKinds -> Nat]
  BY IncidentFacts, IncidentNames DEF KeyInv, HandleThrows
<1>2. KeyTypeOK'
  BY <1>1 DEF KeyInv, KeyTypeOK, HandleThrows, Goto, InProgress, Final
<1>3. GenuineInv'
  BY DEF KeyInv, KeyTypeOK, GenuineInv, ReplayIsGenuine, HandleThrows, Goto
<1> QED
  BY <1>1, <1>2, <1>3 DEF KeyInv

\* A response that could not be stored is an incident.
LEMMA CompleteRejectedInv ==
  ASSUME NEW r \in KeyRequests, KeyInv, CompleteRejected(r)
  PROVE  KeyInv'
<1> USE EntryFacts
<1>1. ~ NoIncident' /\ incidents' \in [IncidentKinds -> Nat]
  BY IncidentFacts, IncidentNames DEF KeyInv, CompleteRejected
<1>2. KeyTypeOK'
  BY <1>1 DEF KeyInv, KeyTypeOK, CompleteRejected, Goto, InProgress, Final
<1>3. GenuineInv'
  BY DEF KeyInv, KeyTypeOK, GenuineInv, ReplayIsGenuine, CompleteRejected, Goto
<1> QED
  BY <1>1, <1>2, <1>3 DEF KeyInv

\* A rejected Redis command is an incident.
LEMMA CommandRejectedInv == ASSUME NEW r \in KeyRequests, KeyInv, CommandRejected(r) PROVE KeyInv'
<1> USE EntryFacts
<1>1. ~ NoIncident' /\ incidents' \in [IncidentKinds -> Nat]
  BY IncidentFacts, IncidentNames DEF KeyInv, CommandRejected
<1>2. KeyTypeOK'
  BY <1>1 DEF KeyInv, KeyTypeOK, CommandRejected, Goto, InProgress, Final
<1>3. GenuineInv'
  BY DEF KeyInv, KeyTypeOK, GenuineInv, ReplayIsGenuine, CommandRejected, Goto
<1> QED
  BY <1>1, <1>2, <1>3 DEF KeyInv

\* A process death is an incident and leaves the record as it is.
LEMMA CrashInv == ASSUME NEW r \in KeyRequests, KeyInv, Crash(r) PROVE KeyInv'
<1>1. ~ NoIncident' /\ incidents' \in [IncidentKinds -> Nat]
  BY IncidentFacts, IncidentNames DEF KeyInv, Crash
<1>2. KeyTypeOK'
  BY <1>1 DEF KeyInv, KeyTypeOK, Crash, Goto, InProgress, Final
<1>3. GenuineInv'
  BY DEF KeyInv, KeyTypeOK, GenuineInv, ReplayIsGenuine, Crash, Goto
<1> QED
  BY <1>1, <1>2, <1>3 DEF KeyInv

\* An expiry is an incident.
LEMMA ExpireInv == ASSUME KeyInv, Expire PROVE KeyInv'
<1>1. ~ NoIncident' /\ incidents' \in [IncidentKinds -> Nat]
  BY IncidentFacts, IncidentNames DEF KeyInv, Expire
<1>2. KeyTypeOK'
  BY <1>1 DEF KeyInv, KeyTypeOK, Expire, Entries
<1>3. GenuineInv'
  BY DEF KeyInv, KeyTypeOK, GenuineInv, ReplayIsGenuine, Expire, NoEntry
<1> QED
  BY <1>1, <1>2, <1>3 DEF KeyInv

\* Every step preserves the invariant.
LEMMA KeyNextInv == KeyInv /\ [KeyNext]_keyVars => KeyInv'
<1> SUFFICES ASSUME KeyInv, [KeyNext]_keyVars PROVE KeyInv'
  OBVIOUS
<1>1. ASSUME NEW r \in KeyRequests, RequestStep(r) PROVE KeyInv'
  BY <1>1, ReserveInv, GetInv, HandleInv, CompleteInv, DeleteInv DEF RequestStep
<1>2. ASSUME NEW r \in KeyRequests,
             HandleThrows(r) \/ CompleteRejected(r) \/ CommandRejected(r) \/ Crash(r)
      PROVE  KeyInv'
  BY <1>2, HandleThrowsInv, CompleteRejectedInv, CommandRejectedInv, CrashInv
<1>3. CASE UNCHANGED keyVars
  BY <1>3 DEF keyVars, KeyInv, KeyTypeOK, GenuineInv, ReplayIsGenuine, NoIncident, MirrorInv
<1> QED
  BY <1>1, <1>2, <1>3, ExpireInv DEF KeyNext

-------------------------------------------------------------------------------
(* What the interceptor keeps                                              *)

\* The invariant holds of every request in any number, with any incidents.
THEOREM KeyInvariance == KeySpec => []KeyInv
  BY KeyInitInv, KeyNextInv, PTL DEF KeySpec

\* Type correctness of the Redis record and of every request's position.
THEOREM KeyTypeCorrectness == KeySpec => []KeyTypeOK
<1>1. KeyInv => KeyTypeOK
  BY DEF KeyInv
<1> QED
  BY KeyInvariance, <1>1, PTL

\* A replayed response is always that of a request with the same body whose handler
\* did create its resource, whatever expired, was deleted or failed.
THEOREM GenuineReplays == KeySpec => []ReplayIsGenuine
<1>1. KeyInv => ReplayIsGenuine
  BY DEF KeyInv, GenuineInv
<1> QED
  BY KeyInvariance, <1>1, PTL

\* Without a process death or a rejected Redis command, somebody works under every
\* reservation: whoever ends completes or releases the key with the same step.
THEOREM ReservationsHeld == KeySpec => []ReservationHasHolder
<1>1. KeyInit => ReservationHasHolder
  BY DEF KeyInit, ReservationHasHolder, NoEntry
<1>2. ASSUME KeyTypeOK, ReservationHasHolder, [KeyNext]_keyVars PROVE ReservationHasHolder'
  <2> SUFFICES ASSUME entry'.status = "PROCESSING",
                      incidents'["redis"] = 0, incidents'["crash"] = 0
               PROVE  \E r \in KeyRequests : at'[r] \in InProgress /\ Body[r] = entry'.body
    BY DEF ReservationHasHolder
  <2> USE DEF InProgress
  <2>1. ASSUME NEW k \in {"redis", "crash"} PROVE ~ Incident(k)
    BY <1>2, <2>1 DEF Incident, KeyTypeOK, IncidentKinds
  <2>2. incidents["redis"] = 0 /\ incidents["crash"] = 0
    BY <1>2, <2>1 DEF KeyTypeOK, KeyNext, RequestStep, Reserve, Get, Handle, Complete,
       Delete, HandleThrows, CompleteRejected, CommandRejected, Crash, Expire, Incident, IncidentKinds, keyVars
  <2>3. ASSUME NEW r \in KeyRequests, Reserve(r)
        PROVE  \E q \in KeyRequests : at'[q] \in InProgress /\ Body[q] = entry'.body
    <3>1. CASE entry = NoEntry
      BY <1>2, <2>3, <3>1 DEF KeyTypeOK, Reserve, Goto, Processing
    <3>2. CASE entry # NoEntry
      BY <1>2, <2>2, <2>3, <3>2 DEF KeyTypeOK, Reserve, Goto, ReservationHasHolder
    <3> QED
      BY <3>1, <3>2
  <2>4. ASSUME NEW r \in KeyRequests, Get(r) \/ Handle(r) \/ HandleThrows(r)
        PROVE  \E q \in KeyRequests : at'[q] \in InProgress /\ Body[q] = entry'.body
    BY <1>2, <2>2, <2>4 DEF KeyTypeOK, Get, Handle, HandleThrows, Goto, ReservationHasHolder
  <2>5. ASSUME NEW r \in KeyRequests PROVE ~ Complete(r) /\ ~ Delete(r)
    BY DEF Complete, Delete, Completed, NoEntry
  <2>6. ASSUME NEW r \in KeyRequests
        PROVE  ~ CompleteRejected(r) /\ ~ CommandRejected(r) /\ ~ Crash(r)
    BY <2>1 DEF CompleteRejected, CommandRejected, Crash
  <2>7. ~ Expire
    BY DEF Expire, NoEntry
  <2>8. CASE UNCHANGED keyVars
    BY <1>2, <2>2, <2>8 DEF keyVars, ReservationHasHolder
  <2> QED
    BY <1>2, <2>3, <2>4, <2>5, <2>6, <2>7, <2>8 DEF KeyNext, RequestStep
<1> QED
  BY <1>1, <1>2, KeyTypeCorrectness, PTL DEF KeySpec

\* A finite set all of whose members are equal has at most one.
LEMMA AtMostOne ==
  ASSUME NEW S, \A a, b \in S : a = b
  PROVE  Cardinality(S) <= 1
<1>1. CASE S = {}
  BY <1>1, FS_EmptySet
<1>2. CASE S # {}
  <2>1. PICK a : S = {a}
    BY <1>2
  <2> QED
    BY <2>1, FS_Singleton
<1> QED
  BY <1>1, <1>2

\* Without a failure or an expiry, any number of concurrent requests with one key
\* creates one resource.
THEOREM OneResource == KeySpec => []OneResourceUndisturbed
<1>1. ASSUME KeyInv PROVE OneResourceUndisturbed
  <2> SUFFICES ASSUME NoIncident PROVE Cardinality(created) <= 1
    BY DEF OneResourceUndisturbed
  <2>1. \A r, s \in created : r = s
    BY <1>1 DEF KeyInv, KeyTypeOK, MirrorInv, Past
  <2> QED
    BY <2>1, AtMostOne
<1> QED
  BY KeyInvariance, <1>1, PTL

\* Without a failure or an expiry, a stored response is never overwritten or deleted.
THEOREM ResponseKept == KeySpec => StoredResponseKept
<1>1. ASSUME KeyInv, [KeyNext]_keyVars
      PROVE  [entry.status = "COMPLETED" /\ entry' # entry => ~ NoIncident']_keyVars
  <2> SUFFICES ASSUME KeyNext, entry.status = "COMPLETED", entry' # entry, NoIncident'
               PROVE  FALSE
    BY <1>1
  <2>1. ASSUME NEW k \in IncidentKinds PROVE ~ Incident(k)
    BY <1>1, <2>1, IncidentFacts DEF KeyInv
  <2>2. PICK r \in KeyRequests : Reserve(r) \/ Complete(r) \/ Delete(r)
    BY <2>1, IncidentNames DEF KeyNext, RequestStep, Get, Handle, HandleThrows, CompleteRejected,
       CommandRejected, Crash, Expire
  <2>3. NoIncident /\ MirrorInv
    BY <1>1, <2>2 DEF KeyInv, NoIncident, Reserve, Complete, Delete
  <2> QED
    BY <2>2, <2>3 DEF MirrorInv, Reserve, Complete, Delete, NoEntry
<1> QED
  BY KeyInvariance, <1>1, PTL DEF KeySpec, StoredResponseKept
===============================================================================
