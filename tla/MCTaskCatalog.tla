----------------------------- MODULE MCTaskCatalog -----------------------------
(* The task list on a small instance: an administrator and another user, pages  *)
(* of one task, a walk with cursors and one with page numbers and an order that *)
(* changes.                                                                     *)
EXTENDS TaskCatalog, TLC

CONSTANTS r1, r2, r3, p1, p2, admin, member

MCRequests == {r1, r2, r3}
MCProcesses == {p1, p2}
MCUsers == {admin, member}
MCAdmins == {admin}
MCExisting == <<member, admin>>
MCQueries == {[pagination |-> "cursor", filter |-> "none", sort |-> "createdAt"],
              [pagination |-> "cursor", filter |-> "advanced", sort |-> "priority"],
              [pagination |-> "offset", filter |-> "plain", sort |-> "priority"]}

\* Requests of these kinds.
Mix(kinds) == [x \in Kinds |-> Len(SelectSeq(kinds, LAMBDA y : y = x))]
MCMixes ==
  {Mix(<<"cursor", "cursor", "remove">>), Mix(<<"cursor", "create">>),
   Mix(<<"offset", "offset", "remove">>), Mix(<<"offset", "offset", "change">>),
   Mix(<<"offset", "create">>), Mix(<<"stats", "stats", "create">>),
   Mix(<<"stats", "create", "remove">>), Mix(<<"stats", "remove", "change">>),
   Mix(<<"create", "view", "drop">>), Mix(<<"change", "change", "drop">>),
   Mix(<<"view", "rename", "rename">>), Mix(<<"view", "rename", "drop">>),
   Mix(<<"list", "file", "drop">>)}
MCSymmetry == Permutations(MCRequests) \cup Permutations(MCProcesses)
===============================================================================
