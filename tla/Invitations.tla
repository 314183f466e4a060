------------------------------ MODULE Invitations ------------------------------
(* The members of one workspace: users are invited, accept or decline the       *)
(* invitation, are added directly, or look at the workspace, by concurrent      *)
(* requests in several processes.                                               *)
(*                                                                              *)
(* Memberships and invitations are MongoDB documents, with a unique index on    *)
(* the member of a workspace.  An acceptance writes both in a transaction.  The *)
(* repositories look results up in a shared Redis cache first; each process     *)
(* knows the keys it has set and deletes only these.  Every step between two    *)
(* awaits is an action.                                                         *)
EXTENDS Integers, FiniteSets

CONSTANTS
  Users,          \* who may become a member
  Requests,       \* each is one HTTP request
  Processes,      \* API processes
  Sent,           \* invitations that may have been sent at first
  None,           \* no request, no invitation, nothing in the cache
  MaxFaults       \* bound: aborted transactions, rejected calls and process deaths

ASSUME InvitationAssumption ==
  /\ IsFiniteSet(Requests) /\ IsFiniteSet(Sent) /\ Sent \cap Requests = {}
  /\ None \notin Requests \cup Sent \cup Processes
  /\ MaxFaults \in Nat

VARIABLES
  invitation,   \* the invitations
  origin,       \* the request that made a user a member
  mailed,       \* the invitations whose token has been mailed
  audited,      \* the requests that have written their audit record
  inserting,    \* the request whose open transaction has inserted a membership
  marked,       \* the requests whose open transaction has written its invitation
  snapshot,     \* the status of its invitation that a transaction reads
  cache,        \* what Redis holds under a key
  registry,     \* the keys a process knows, of those it has set
  call,         \* what each request asks for
  at,           \* the next step of each request, or its answer
  lookup,       \* the key a request looks up, and what its query has returned
  cleared,      \* the keys that the clearCache of a request has deleted so far
  earlier,      \* the requests of users who were members before
  faults        \* faults so far

storeVars == <<invitation, origin, mailed, audited, inserting, marked, snapshot>>
cacheVars == <<cache, registry, lookup, cleared>>
callVars == <<call, earlier>>
vars == <<storeVars, cacheVars, callVars, at, faults>>

\* An invitation is known by the request that created it, and so is a membership.
Invitations == Sent \cup Requests

Kinds == {"invite", "accept", "decline", "add", "view", "inbox"}
Calls == [kind : Kinds, process : Processes, user : Users,
          target : Invitations \cup {None}]

ASSUME CallAssumption == None \notin Calls

Answers == {"ok", "refused", "error"}
Running == {"find", "lookup", "query", "store", "register", "insert", "join", "mark",
            "commit", "clearMembers", "clearInvitations", "mail", "audit"}
Points == {"new"} \cup Running \cup Answers

Statuses == {"absent", "PENDING", "ACCEPTED", "DECLINED"}

\* membership:<workspace>:<user> and invitations:pending:email:<email>
MemberKey(u) == [of |-> "member", user |-> u]
PendingKey(u) == [of |-> "pending", user |-> u]
Keys == [of : {"member", "pending"}, user : Users]
Results == SUBSET (Users \cup Invitations)

Members == {u \in Users : origin[u] # None}
PendingFor(u) == {i \in Invitations : /\ invitation[i].status = "PENDING"
                                      /\ invitation[i].to = u}

TypeOK ==
  /\ invitation \in [Invitations -> [to : Users \cup {None}, status : Statuses,
                                     expired : BOOLEAN]]
  /\ origin \in [Users -> Requests \cup {None}]
  /\ mailed \subseteq Invitations
  /\ audited \subseteq Requests
  /\ inserting \in [Users -> Requests \cup {None}]
  /\ marked \subseteq Requests
  /\ snapshot \in [Requests -> Statuses]
  /\ cache \in [Keys -> Results \cup {None}]
  /\ registry \in [Processes -> SUBSET Keys]
  /\ call \in [Requests -> Calls \cup {None}]
  /\ at \in [Requests -> Points]
  /\ lookup \in [Requests -> [key : Keys \cup {None}, value : Results]]
  /\ cleared \in [Requests -> SUBSET Keys]
  /\ earlier \subseteq Requests
  /\ faults \in 0 .. MaxFaults

Init ==
  /\ mailed \in SUBSET Sent
  /\ \E to \in [mailed -> Users] :
       invitation = [i \in Invitations |->
                       IF i \in mailed
                         THEN [to |-> to[i], status |-> "PENDING", expired |-> FALSE]
                         ELSE [to |-> None, status |-> "absent", expired |-> FALSE]]
  /\ origin = [u \in Users |-> None]
  /\ audited = {}
  /\ inserting = [u \in Users |-> None]
  /\ marked = {}
  /\ snapshot = [r \in Requests |-> "absent"]
  /\ cache = [k \in Keys |-> None]
  /\ registry = [p \in Processes |-> {}]
  /\ call = [r \in Requests |-> None]
  /\ at = [r \in Requests |-> "new"]
  /\ lookup = [r \in Requests |-> [key |-> None, value |-> {}]]
  /\ cleared = [r \in Requests |-> {}]
  /\ earlier = {}
  /\ faults = 0

Goto(r, p) == at' = [at EXCEPT ![r] = p]

\* Another fault is within the bound.
Fault ==
  /\ faults < MaxFaults
  /\ faults' = faults + 1

\* The requests in S end without success, and what they worked on is gone.
Fail(S) ==
  /\ at' = [r \in Requests |-> IF r \in S THEN "error" ELSE at[r]]
  /\ lookup' = [r \in Requests |-> IF r \in S THEN [key |-> None, value |-> {}] ELSE lookup[r]]
  /\ cleared' = [r \in Requests |-> IF r \in S THEN {} ELSE cleared[r]]

LookUp(r, k) == lookup' = [lookup EXCEPT ![r] = [key |-> k, value |-> {}]]

-------------------------------------------------------------------------------
(* Requests and what they look up                                          *)

\* A request arrives at a process.  The token of an invitation comes from its mail.
Arrive(r) ==
  /\ at[r] = "new"
  /\ \E c \in Calls :
       /\ IF c.kind \in {"accept", "decline"} THEN c.target \in mailed ELSE c.target = None
       /\ call' = [call EXCEPT ![r] = c]
       /\ earlier' = IF c.user \in Members THEN earlier \cup {r} ELSE earlier
       /\ Goto(r, IF c.kind \in {"accept", "decline"} THEN "find" ELSE "lookup")
       /\ LookUp(r, IF c.kind = "inbox" THEN PendingKey(c.user) ELSE MemberKey(c.user))
  /\ UNCHANGED <<storeVars, cache, registry, cleared, faults>>

\* findByTokenHash and the checks on what it returned.
Find(r) ==
  /\ at[r] = "find"
  /\ LET i == invitation[call[r].target] IN
       IF i.to # call[r].user \/ i.status # "PENDING" \/ i.expired
         THEN Goto(r, "refused")
       ELSE Goto(r, IF call[r].kind = "accept" THEN "lookup" ELSE "mark")
  /\ UNCHANGED <<storeVars, cacheVars, callVars, faults>>

\* What the handler of r does with the result v of its lookup.  A user who is not a
\* member is not invited while an invitation is pending, whether it is expired or not.
Found(r, v) ==
  LET k == call[r].kind
      u == call[r].user
  IN
    IF k = "inbox"
      THEN Goto(r, "ok") /\ LookUp(r, None)
    ELSE IF k = "view"
      THEN Goto(r, IF v = {} THEN "refused" ELSE "ok") /\ LookUp(r, None)
    ELSE IF v # {}
      THEN Goto(r, "refused") /\ LookUp(r, None)
    ELSE IF k \in {"accept", "add"}
      THEN Goto(r, "join") /\ LookUp(r, None)
    ELSE IF lookup[r].key.of = "member"
      THEN Goto(r, "lookup") /\ LookUp(r, PendingKey(u))
    ELSE Goto(r, "insert") /\ LookUp(r, None)

\* cacheManager.get
GetCached(r) ==
  /\ at[r] = "lookup"
  /\ LET v == cache[lookup[r].key] IN
       IF v = None THEN Goto(r, "query") /\ UNCHANGED lookup ELSE Found(r, v)
  /\ UNCHANGED <<storeVars, cache, registry, cleared, callVars, faults>>

\* What the collections hold for a key.
Stored(k) == IF k.of = "member" THEN Members \cap {k.user} ELSE PendingFor(k.user)

\* Mutant of Cacheable: that a user is no member is cached, too.
CacheableAlways(k, v) == k \in Keys /\ v \in Results

\* Only a membership that was found is cached, but any list of invitations.
Cacheable(k, v) == k.of = "pending" \/ v # {}

\* findOne, or find
Query(r) ==
  /\ at[r] = "query"
  /\ LET v == Stored(lookup[r].key) IN
       IF Cacheable(lookup[r].key, v)
         THEN Goto(r, "store") /\ lookup' = [lookup EXCEPT ![r].value = v]
         ELSE Found(r, v)
  /\ UNCHANGED <<storeVars, cache, registry, cleared, callVars, faults>>

\* cacheManager.set
StoreCached(r) ==
  /\ at[r] = "store"
  /\ cache' = [cache EXCEPT ![lookup[r].key] = lookup[r].value]
  /\ Goto(r, "register")
  /\ UNCHANGED <<storeVars, registry, lookup, cleared, callVars, faults>>

\* The process notes the key, and the handler goes on.
RegisterKey(r) ==
  /\ at[r] = "register"
  /\ registry' = [registry EXCEPT ![call[r].process] = @ \cup {lookup[r].key}]
  /\ Found(r, lookup[r].value)
  /\ UNCHANGED <<storeVars, cache, cleared, callVars, faults>>

-------------------------------------------------------------------------------
(* clearCache                                                              *)

\* The keys of the repository that r clears, as far as its process knows them.
KnownKeys(r) ==
  {k \in registry[call[r].process] :
     k.of = IF at[r] = "clearMembers" THEN "member" ELSE "pending"}

\* cacheManager.del of a key; the loop meets the keys that are added meanwhile.
ClearKey(r) ==
  /\ at[r] \in {"clearMembers", "clearInvitations"}
  /\ \E k \in KnownKeys(r) \ cleared[r] :
       /\ cache' = [cache EXCEPT ![k] = None]
       /\ cleared' = [cleared EXCEPT ![r] = @ \cup {k}]
  /\ UNCHANGED <<storeVars, registry, lookup, callVars, at, faults>>

AfterClear(r) ==
  CASE call[r].kind = "invite" -> "mail"
    [] call[r].kind = "accept" -> IF at[r] = "clearMembers" THEN "mark" ELSE "commit"
    [] OTHER -> "audit"

\* The set of keys is emptied: also of those that have been set again since.
ForgetKeys(r) ==
  /\ at[r] \in {"clearMembers", "clearInvitations"}
  /\ KnownKeys(r) \subseteq cleared[r]
  /\ registry' = [registry EXCEPT ![call[r].process] = @ \ KnownKeys(r)]
  /\ cleared' = [cleared EXCEPT ![r] = {}]
  /\ Goto(r, AfterClear(r))
  /\ UNCHANGED <<storeVars, cache, lookup, callVars, faults>>

-------------------------------------------------------------------------------
(* Invitations and memberships                                             *)

\* invitationRepository.create: no index forbids a second invitation.
InsertInvitation(r) ==
  /\ at[r] = "insert"
  /\ invitation' = [invitation EXCEPT ![r] = [to |-> call[r].user, status |-> "PENDING",
                                              expired |-> FALSE]]
  /\ Goto(r, "clearInvitations")
  /\ UNCHANGED <<origin, mailed, audited, inserting, marked, snapshot, cacheVars,
                 callVars, faults>>

\* sendWorkspaceInvitation
Mail(r) ==
  /\ at[r] = "mail"
  /\ mailed' = mailed \cup {r}
  /\ Goto(r, "audit")
  /\ UNCHANGED <<invitation, origin, audited, inserting, marked, snapshot, cacheVars,
                 callVars, faults>>

\* auditService.log, outside of transactions, and the response.
Audit(r) ==
  /\ at[r] = "audit"
  /\ audited' = audited \cup {r}
  /\ Goto(r, "ok")
  /\ UNCHANGED <<invitation, origin, mailed, inserting, marked, snapshot, cacheVars,
                 callVars, faults>>

\* Mutant of Join: without the unique index.
JoinUnindexed(r) ==
  /\ at[r] = "join"
  /\ LET u == call[r].user IN
       IF call[r].kind = "add"
         THEN /\ origin' = [origin EXCEPT ![u] = r]
              /\ UNCHANGED <<inserting, snapshot>>
         ELSE /\ inserting' = [inserting EXCEPT ![u] = r]
              /\ snapshot' = [snapshot EXCEPT ![r] = invitation[call[r].target].status]
              /\ UNCHANGED origin
  /\ Goto(r, "clearMembers")
  /\ UNCHANGED <<invitation, mailed, audited, marked, cacheVars, callVars, faults>>

\* membershipRepository.create, for an acceptance the first write of its transaction.
\* The unique index refuses a second membership.  While another transaction has inserted
\* it, an insert waits, and a transaction is aborted and repeated until it has not.
Join(r) ==
  /\ at[r] = "join"
  /\ LET u == call[r].user IN
       IF u \in Members
         THEN Goto(r, "refused") /\ UNCHANGED <<origin, inserting, snapshot>>
       ELSE /\ inserting[u] = None
            /\ Goto(r, "clearMembers")
            /\ IF call[r].kind = "add"
                 THEN /\ origin' = [origin EXCEPT ![u] = r]
                      /\ UNCHANGED <<inserting, snapshot>>
                 ELSE /\ inserting' = [inserting EXCEPT ![u] = r]
                      /\ snapshot' = [snapshot EXCEPT
                                        ![r] = invitation[call[r].target].status]
                      /\ UNCHANGED origin
  /\ UNCHANGED <<invitation, mailed, audited, marked, cacheVars, callVars, faults>>

\* The transaction of r, if any, ends.
Release(r) ==
  /\ inserting' = [u \in Users |-> IF inserting[u] = r THEN None ELSE inserting[u]]
  /\ marked' = marked \ {r}
  /\ snapshot' = [snapshot EXCEPT ![r] = "absent"]

\* Mutant of MarkAccepted: without the session.
MarkAcceptedOutside(r) ==
  /\ at[r] = "mark" /\ call[r].kind = "accept"
  /\ invitation' = [invitation EXCEPT ![call[r].target].status =
                      IF @ = "PENDING" THEN "ACCEPTED" ELSE @]
  /\ Goto(r, "clearInvitations")
  /\ UNCHANGED <<origin, mailed, audited, inserting, marked, snapshot, cacheVars,
                 callVars, faults>>

\* markAccepted in the transaction: nothing matches if its snapshot is not PENDING.  An
\* invitation that was declined since is a write conflict, which repeats the callback.
MarkAccepted(r) ==
  /\ at[r] = "mark" /\ call[r].kind = "accept"
  /\ IF snapshot[r] = "PENDING" /\ invitation[call[r].target].status # "PENDING"
       THEN Release(r) /\ Goto(r, "join")
       ELSE /\ marked' = IF snapshot[r] = "PENDING" THEN marked \cup {r} ELSE marked
            /\ Goto(r, "clearInvitations")
            /\ UNCHANGED <<inserting, snapshot>>
  /\ UNCHANGED <<invitation, origin, mailed, audited, cacheVars, callVars, faults>>

\* A write outside of transactions waits for the transaction that has written i.
Writable(i) == \A q \in marked : call[q].target # i

\* Mutant of Decline: the filter does not ask for PENDING.
DeclineAny(r) ==
  LET i == call[r].target IN
    /\ Writable(i)
    /\ invitation' = [invitation EXCEPT ![i].status = "DECLINED"]
    /\ UNCHANGED <<origin, mailed, audited, inserting, marked, snapshot>>

\* markDeclined: nothing matches if the invitation is not PENDING.
Decline(r) ==
  LET i == call[r].target IN
    /\ Writable(i)
    /\ invitation' = [invitation EXCEPT ![i].status = IF @ = "PENDING" THEN "DECLINED" ELSE @]
    /\ UNCHANGED <<origin, mailed, audited, inserting, marked, snapshot>>

\* The handler does not look at the result of markDeclined.
MarkDeclined(r) ==
  /\ at[r] = "mark" /\ call[r].kind = "decline"
  /\ Decline(r)
  /\ Goto(r, "clearInvitations")
  /\ UNCHANGED <<cacheVars, callVars, faults>>

\* Membership, status and audit record become visible at once, and the transaction ends.
CommitTransaction(r) ==
  LET u == call[r].user
      i == call[r].target
  IN
    /\ origin' = [origin EXCEPT ![u] = r]
    /\ invitation' = IF r \in marked THEN [invitation EXCEPT ![i].status = "ACCEPTED"]
                     ELSE invitation
    /\ audited' = audited \cup {r}
    /\ Release(r)
    /\ UNCHANGED mailed

\* The audit record is inserted and the transaction is committed.
Commit(r) ==
  /\ at[r] = "commit"
  /\ CommitTransaction(r)
  /\ Goto(r, "ok")
  /\ UNCHANGED <<cacheVars, callVars, faults>>

-------------------------------------------------------------------------------
(* Time and failures                                                       *)

\* expiresAt of a pending invitation passes; its status stays PENDING.
InvitationExpires(i) ==
  /\ invitation[i].status = "PENDING" /\ ~ invitation[i].expired
  /\ invitation' = [invitation EXCEPT ![i].expired = TRUE]
  /\ UNCHANGED <<origin, mailed, audited, inserting, marked, snapshot, cacheVars,
                 callVars, at, faults>>

\* The 30 seconds of a cached result are over.
CacheExpires(k) ==
  /\ cache[k] # None
  /\ cache' = [cache EXCEPT ![k] = None]
  /\ UNCHANGED <<storeVars, registry, lookup, cleared, callVars, at, faults>>

\* A transient error at the commit: the callback is repeated.
Abort(r) ==
  /\ at[r] = "commit"
  /\ Fault
  /\ Release(r)
  /\ Goto(r, "join")
  /\ UNCHANGED <<invitation, origin, mailed, audited, cacheVars, callVars>>

\* An awaited call rejects without effect: the transaction, if any, is aborted.
CallRejected(r) ==
  /\ at[r] \in Running
  /\ Fault
  /\ Release(r)
  /\ Fail({r})
  /\ UNCHANGED <<invitation, origin, mailed, audited, cache, registry, callVars>>

\* An awaited call rejects although it was executed.
AnswerLost(r) ==
  /\ Fault
  /\ \/ at[r] = "commit" /\ CommitTransaction(r)
     \/ at[r] = "mark" /\ call[r].kind = "decline" /\ Decline(r)
     \/ /\ at[r] = "insert"
        /\ invitation' = [invitation EXCEPT ![r] =
             [to |-> call[r].user, status |-> "PENDING", expired |-> FALSE]]
        /\ UNCHANGED <<origin, mailed, audited, inserting, marked, snapshot>>
     \/ /\ at[r] = "join" /\ call[r].kind = "add"
        /\ call[r].user \notin Members /\ inserting[call[r].user] = None
        /\ origin' = [origin EXCEPT ![call[r].user] = r]
        /\ UNCHANGED <<invitation, mailed, audited, inserting, marked, snapshot>>
     \/ /\ at[r] = "mail"
        /\ mailed' = mailed \cup {r}
        /\ UNCHANGED <<invitation, origin, audited, inserting, marked, snapshot>>
  /\ Fail({r})
  /\ UNCHANGED <<cache, registry, callVars>>

\* A process dies with the requests it serves and the keys it knows; the server aborts
\* their transactions.
Crash(p) ==
  LET S == {r \in Requests : at[r] \in Running /\ call[r].process = p} IN
    /\ Fault
    /\ Fail(S)
    /\ inserting' = [u \in Users |-> IF inserting[u] \in S THEN None ELSE inserting[u]]
    /\ marked' = marked \ S
    /\ snapshot' = [r \in Requests |-> IF r \in S THEN "absent" ELSE snapshot[r]]
    /\ registry' = [registry EXCEPT ![p] = {}]
    /\ UNCHANGED <<invitation, origin, mailed, audited, cache, callVars>>

-------------------------------------------------------------------------------
\* What the handler of r does next.
Step(r) ==
  \/ Find(r) \/ GetCached(r) \/ Query(r) \/ StoreCached(r) \/ RegisterKey(r)
  \/ ClearKey(r) \/ ForgetKeys(r)
  \/ InsertInvitation(r) \/ Mail(r) \/ Audit(r)
  \/ Join(r) \/ MarkAccepted(r) \/ MarkDeclined(r) \/ Commit(r)

Next ==
  \/ \E r \in Requests : \/ Arrive(r) \/ Step(r)
                         \/ Abort(r) \/ CallRejected(r) \/ AnswerLost(r)
  \/ \E i \in Invitations : InvitationExpires(i)
  \/ \E k \in Keys : CacheExpires(k)
  \/ \E p \in Processes : Crash(p)

Spec == Init /\ [][Next]_vars

-------------------------------------------------------------------------------
(* Properties                                                              *)

Made(r) == \E u \in Users : origin[u] = r

\* docs/data-integrity.md:110: no membership was created while its invitation is still
\* pending, no invitation is accepted without membership and audit record, and no
\* acceptance is audited without its membership, which is that of the addressee.
AcceptanceAtomic ==
  /\ \A r \in Requests : call[r] # None /\ call[r].kind = "accept" =>
       /\ r \in audited <=> Made(r)
       /\ Made(r) => /\ origin[invitation[call[r].target].to] = r
                     /\ invitation[call[r].target].status # "PENDING"
  /\ \A i \in Invitations : invitation[i].status = "ACCEPTED" =>
       \E r \in Requests : call[r] # None /\ call[r].target = i /\ Made(r)

\* However many acceptances and additions of one user race, only the one that made the
\* user a member is answered with success.
OneJoin ==
  \A r \in Requests : at[r] = "ok" /\ call[r].kind \in {"accept", "add"} => Made(r)

\* An invitation that was answered stays so: a decline does not undo an acceptance that
\* came first, nor the other way round.
AnswerIsFinal ==
  [][\A i \in Invitations : invitation[i].status \in {"ACCEPTED", "DECLINED"} =>
       invitation'[i].status = invitation[i].status]_vars

\* Whoever is a member when a request arrives is not told that the workspace does not
\* exist: no cached result hides a membership.
MembersAdmitted ==
  \A r \in earlier : call[r].kind = "view" => at[r] # "refused"

\* A membership that a transaction has inserted belongs to a request that is going to
\* commit or to abort it: nobody waits for a request that has ended.
TransactionHasOwner ==
  \A u \in Users : inserting[u] # None =>
    at[inserting[u]] \in {"clearMembers", "mark", "clearInvitations", "commit"}

\* invitation.controller.ts:138 "Invitation declined successfully." is the answer when
\* the invitation has been declined.
DeclineHonest ==
  \A r \in Requests : at[r] = "ok" /\ call[r].kind = "decline" =>
    invitation[call[r].target].status = "DECLINED"
===============================================================================
