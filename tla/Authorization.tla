----------------------------- MODULE Authorization -----------------------------
(* Who may do what in a workspace: the abilities of a role (CASL rules), the    *)
(* policy of each route, and the guard that asks the one for the other.  Routes *)
(* without a policy, which only ask for a valid access token, are left out.     *)

Roles == {"OWNER", "ADMIN", "MEMBER", "VIEWER"}
Subjects == {"Workspace", "Task", "Member", "Invitation", "Comment", "Attachment",
             "Webhook", "Billing", "AuditLog", "Export"}

\* What a user may be to a task; rules may ask for it.
Ties == {"owner", "assignee"}

\* A rule permits an action on all subjects of a kind, or on the tasks with a tie.
Rule(a, s) == [action |-> a, subject |-> s, on |-> "any"]
TaskRule(a, tie) == [action |-> a, subject |-> "Task", on |-> tie]

OwnerRules ==
  {Rule("manage", s) : s \in Subjects \ {"AuditLog"}} \cup {Rule("read", "AuditLog")}
AdminRules ==
  {Rule("manage", s) : s \in {"Workspace", "Member", "Invitation", "Comment", "Attachment",
                              "Webhook"}}
  \cup {Rule(a, "Task") : a \in {"create", "read", "update", "delete"}}
  \cup {Rule("read", "Workspace"), Rule("read", "AuditLog"),
        Rule("create", "Export"), Rule("read", "Export")}
MemberRules ==
  {Rule("read", s) : s \in {"Workspace", "Task", "Member", "Comment", "Attachment", "Export"}}
  \cup {Rule("create", s) : s \in {"Task", "Comment", "Export"}}
  \cup {TaskRule("update", tie) : tie \in Ties}
ViewerRules ==
  {Rule("read", s) : s \in {"Workspace", "Member", "Task", "Comment", "Attachment", "Export"}}

\* createForRole
Rules(role) ==
  CASE role = "OWNER"  -> OwnerRules
    [] role = "ADMIN"  -> AdminRules
    [] role = "MEMBER" -> MemberRules
    [] role = "VIEWER" -> ViewerRules
    [] OTHER -> {}

\* can: manage stands for every action.
Can(role, a, s, ties) ==
  \E x \in Rules(role) :
    x.action \in {a, "manage"} /\ x.subject = s /\ x.on \in {"any"} \cup ties

\* A route asks its policy about a kind of subject, of the task that it has loaded or without
\* loading it; a rule that depends on the task is not restricted by it then.
Route(n, a, s) == [name |-> n, action |-> a, subject |-> s, loads |-> FALSE, asks |-> FALSE]
Loading(n, a, s) == [Route(n, a, s) EXCEPT !.loads = TRUE]
Asking(n, a) == [Loading(n, a, "Task") EXCEPT !.asks = TRUE]

TaskRoutes ==
  {Route("create", "create", "Task"), Loading("assign", "update", "Task"),
   Route("findAll", "read", "Task")}
OneTaskRoutes == {Loading("findOne", "read", "Task"), Asking("update", "update")}
CommentRoutes == {Route("addComment", "create", "Comment"), Route("getComments", "read", "Comment")}
UploadRoutes == {Route("upload", "manage", "Attachment"), Route("attachments", "read", "Attachment")}
RemovalRoutes ==
  {Loading("activity", "read", "Task"), Route("deleteAttachment", "manage", "Attachment"),
   Asking("delete", "delete")}
ExportRoutes ==
  {Route("export", "create", "Export"), Route("getExport", "read", "Export"),
   Route("download", "read", "Export")}
WebhookRoutes == {Route("createWebhook", "manage", "Webhook"), Route("webhooks", "manage", "Webhook")}
WorkspaceRoutes == {Route("getWorkspace", "read", "Workspace"), Route("getFlags", "read", "Workspace")}
MemberRoutes ==
  {Route("members", "read", "Member"), Route("addMember", "manage", "Member"),
   Route("auditLogs", "read", "AuditLog")}
SettingsRoutes ==
  {Route("updateFlags", "manage", "Workspace"), Route("getSettings", "read", "Workspace"),
   Route("updateSettings", "manage", "Workspace")}
InvitationRoutes == {Route("invite", "manage", "Invitation")}

Routes ==
  TaskRoutes \cup OneTaskRoutes \cup CommentRoutes \cup UploadRoutes \cup RemovalRoutes
  \cup ExportRoutes \cup WebhookRoutes \cup WorkspaceRoutes \cup MemberRoutes
  \cup SettingsRoutes \cup InvitationRoutes

\* PoliciesGuard: exists tells whether the task is there, ties what the user is to it.  A role
\* other than these four stands for no active membership.
Admits(route, role, exists, ties) ==
  /\ route.loads => exists
  /\ role \in Roles
  /\ Can(role, route.action, route.subject, IF route.asks THEN ties ELSE Ties)
===============================================================================
