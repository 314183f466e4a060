--------------------------- MODULE InvitationsProofs ---------------------------
(* Theorems about Invitations for any number of users, invitations, requests    *)
(* and processes, and any number of failures.                                   *)
EXTENDS Invitations, TLAPS

-------------------------------------------------------------------------------
(* The invariant                                                           *)

Is(r, k) == call[r] # None /\ call[r].kind = k
Status(r) == invitation[call[r].target].status

\* From the first write of an acceptance to its commit.
InTransaction(r) ==
  Is(r, "accept") /\ at[r] \in {"clearMembers", "mark", "clearInvitations", "commit"}

\* Which command is at which step, and a token that is used has been mailed.
KindInv ==
  \A r \in Requests :
    /\ at[r] = "new" <=> call[r] = None
    /\ at[r] = "find" => Is(r, "accept") \/ Is(r, "decline")
    /\ at[r] \in {"lookup", "query", "store", "register"} => ~ Is(r, "decline")
    /\ at[r] \in {"insert", "mail"} => Is(r, "invite")
    /\ at[r] \in {"join", "clearMembers"} => Is(r, "accept") \/ Is(r, "add")
    /\ at[r] = "mark" => Is(r, "accept") \/ Is(r, "decline")
    /\ at[r] = "clearInvitations" => Is(r, "invite") \/ Is(r, "accept") \/ Is(r, "decline")
    /\ at[r] = "commit" => Is(r, "accept")
    /\ at[r] = "audit" => Is(r, "invite") \/ Is(r, "decline") \/ Is(r, "add")
    /\ Is(r, "accept") \/ Is(r, "decline") => call[r].target \in mailed

\* A request creates its invitation once, and an invitation is mailed when it exists.
InvitationInv ==
  /\ \A i \in mailed : invitation[i].status # "absent"
  /\ \A r \in Requests : invitation[r].status # "absent" =>
       at[r] \in {"clearInvitations", "mail", "audit", "ok", "error"} /\ Is(r, "invite")
  /\ \A r \in Requests : Is(r, "invite") /\ at[r] \in {"clearInvitations", "mail", "audit"} =>
       invitation[r].status # "absent"

\* An acceptance that goes on is one by the addressee.
AddresseeInv ==
  \A r \in Requests : Is(r, "accept") /\ at[r] \notin {"find", "refused", "error"} =>
    invitation[call[r].target].to = call[r].user

\* An open transaction holds the membership it has inserted, and the invitation if its
\* snapshot is the present one.
TransactionInv ==
  /\ \A u \in Users : inserting[u] # None =>
       InTransaction(inserting[u]) /\ call[inserting[u]].user = u /\ origin[u] = None
  /\ \A r \in Requests : InTransaction(r) =>
       /\ inserting[call[r].user] = r
       /\ snapshot[r] # "PENDING" => Status(r) # "PENDING"
       /\ at[r] \in {"clearInvitations", "commit"} => r \in marked \/ Status(r) # "PENDING"
  /\ \A r \in marked : /\ InTransaction(r) /\ at[r] \in {"clearInvitations", "commit"}
                       /\ Status(r) = "PENDING"

\* A membership was made by an addition or by an acceptance that has been committed.
MemberInv ==
  /\ \A u \in Users : origin[u] # None =>
       LET r == origin[u] IN
         /\ call[r] # None /\ call[r].user = u
         /\ \/ Is(r, "add") /\ at[r] \in {"clearMembers", "audit", "ok", "error"}
            \/ /\ Is(r, "accept") /\ at[r] \in {"ok", "error"}
               /\ Status(r) # "PENDING" /\ invitation[call[r].target].to = u
  /\ \A r \in Requests :
       /\ Is(r, "add") /\ at[r] \in {"clearMembers", "audit", "ok"} => origin[call[r].user] = r
       /\ Is(r, "accept") /\ at[r] = "ok" => origin[call[r].user] = r
       /\ Is(r, "accept") => (r \in audited <=> origin[call[r].user] = r)
       /\ at[r] = "new" => r \notin audited

\* Behind every accepted invitation is the acceptance that made its addressee a member.
AcceptedInv ==
  \A i \in Invitations : invitation[i].status = "ACCEPTED" =>
    \E r \in Requests : /\ Is(r, "accept") /\ call[r].target = i
                        /\ origin[call[r].user] = r

\* What is cached under the key of a membership is that membership.
CacheInv ==
  /\ \A u \in Users : cache[MemberKey(u)] # None =>
       cache[MemberKey(u)] # {} /\ u \in Members
  /\ \A r \in Requests : at[r] \in {"find", "lookup", "query", "store", "register"} =>
       /\ lookup[r].key \in Keys
       /\ Is(r, "view") => lookup[r].key = MemberKey(call[r].user)
       /\ lookup[r].key.of = "member" => lookup[r].key = MemberKey(call[r].user)
       /\ at[r] \in {"store", "register"} /\ lookup[r].key.of = "member" =>
            lookup[r].value # {} /\ lookup[r].key.user \in Members
  /\ \A r \in earlier : call[r] # None /\ call[r].user \in Members

StoreInv ==
  KindInv /\ InvitationInv /\ AddresseeInv /\ TransactionInv /\ MemberInv /\ AcceptedInv

Inv == TypeOK /\ StoreInv /\ CacheInv /\ MembersAdmitted

-------------------------------------------------------------------------------
(* The operators                                                           *)

\* What a request asks for has its type.
LEMMA CallFacts ==
  ASSUME TypeOK, NEW r \in Requests, call[r] # None
  PROVE  /\ call[r] \in Calls
         /\ call[r].kind \in Kinds /\ call[r].user \in Users
         /\ call[r].process \in Processes /\ call[r].target \in Invitations \cup {None}
         /\ MemberKey(call[r].user) \in Keys /\ PendingKey(call[r].user) \in Keys
<1>1. call[r] \in Calls
  BY DEF TypeOK
<1> QED
  BY <1>1 DEF Calls, Keys, MemberKey, PendingKey

\* A change of the status of one invitation.
LEMMA StatusFacts ==
  ASSUME TypeOK, NEW i \in Invitations, NEW s \in Statuses,
         invitation' = [invitation EXCEPT ![i].status = s]
  PROVE  /\ invitation' \in [Invitations -> [to : Users \cup {None}, status : Statuses,
                                              expired : BOOLEAN]]
         /\ invitation'[i].status = s
         /\ \A j \in Invitations : invitation'[j].to = invitation[j].to
         /\ \A j \in Invitations \ {i} : invitation'[j] = invitation[j]
<1>1. invitation \in [Invitations -> [to : Users \cup {None}, status : Statuses,
                                      expired : BOOLEAN]]
  BY DEF TypeOK
<1>2. invitation[i] \in [to : Users \cup {None}, status : Statuses, expired : BOOLEAN]
  BY <1>1
<1>3. invitation'[i] = [invitation[i] EXCEPT !.status = s]
  BY <1>1
<1>4. /\ invitation'[i] \in [to : Users \cup {None}, status : Statuses, expired : BOOLEAN]
      /\ invitation'[i].status = s /\ invitation'[i].to = invitation[i].to
  BY <1>2, <1>3
<1>5. \A j \in Invitations \ {i} : invitation'[j] = invitation[j]
  BY <1>1
<1>6. invitation' = [j \in Invitations |-> invitation'[j]]
  BY <1>1
<1> QED
  BY <1>1, <1>4, <1>5, <1>6

-------------------------------------------------------------------------------
(* What the steps do to invitations and memberships                        *)

LookingUp == {"lookup", "query", "store", "register"}

\* The steps of r that lead to p without writing to MongoDB.
Move(r, p) ==
  \/ at[r] = "find" /\ p = "refused"
  \/ /\ at[r] = "find" /\ p = "lookup" /\ Is(r, "accept")
     /\ invitation[call[r].target].to = call[r].user
  \/ at[r] = "find" /\ p = "mark" /\ Is(r, "decline")
  \/ at[r] \in LookingUp /\ p \in LookingUp \cup {"refused"}
  \/ at[r] \in LookingUp /\ p = "ok" /\ (Is(r, "inbox") \/ Is(r, "view"))
  \/ at[r] \in LookingUp /\ p = "join" /\ (Is(r, "accept") \/ Is(r, "add"))
  \/ at[r] \in LookingUp /\ p = "insert" /\ Is(r, "invite")
  \/ at[r] = "join" /\ p = "refused"
  \/ at[r] = "clearMembers" /\ p = "mark" /\ Is(r, "accept")
  \/ at[r] = "clearMembers" /\ p = "audit" /\ Is(r, "add")
  \/ at[r] = "clearInvitations" /\ p = "mail" /\ Is(r, "invite")
  \/ at[r] = "clearInvitations" /\ p = "commit" /\ Is(r, "accept")
  \/ at[r] = "clearInvitations" /\ p = "audit" /\ Is(r, "decline")

\* A step that writes nothing leaves memberships and invitations as they are.
LEMMA MoveStore ==
  ASSUME Inv, NEW r \in Requests, NEW p \in Points, Move(r, p),
         at' = [at EXCEPT ![r] = p], UNCHANGED <<storeVars, call>>
  PROVE  StoreInv'
<1>0. TypeOK /\ StoreInv
  BY DEF Inv
<1>10. KindInv'
  BY <1>0, InvitationAssumption, SMTT(30) DEF TypeOK, StoreInv, Move, LookingUp, storeVars, Invitations, Is, Status, InTransaction, KindInv
<1>11. InvitationInv' /\ AddresseeInv'
  BY <1>0, InvitationAssumption, SMTT(30) DEF TypeOK, StoreInv, Move, LookingUp, storeVars, Invitations, Is, Status, InTransaction, KindInv, InvitationInv, AddresseeInv
<1>12. TransactionInv'
  BY <1>0, InvitationAssumption, SMTT(30) DEF TypeOK, StoreInv, Move, LookingUp, storeVars, Invitations, Is, Status, InTransaction, KindInv, InvitationInv, AddresseeInv, TransactionInv, MemberInv
<1>13. MemberInv'
  BY <1>0, InvitationAssumption, SMTT(30) DEF TypeOK, StoreInv, Move, LookingUp, storeVars, Invitations, Is, Status, InTransaction, KindInv, InvitationInv, AddresseeInv, TransactionInv, MemberInv
<1>14. AcceptedInv'
  BY <1>0, InvitationAssumption, SMTT(30) DEF TypeOK, StoreInv, Move, LookingUp, storeVars, Invitations, Is, Status, InTransaction, KindInv, InvitationInv, AddresseeInv, TransactionInv, MemberInv, AcceptedInv
<1> QED
  BY <1>10, <1>11, <1>12, <1>13, <1>14 DEF StoreInv

\* A new invitation belongs to the request that inserts it.
LEMMA InsertStore ==
  ASSUME Inv, NEW r \in Requests, NEW p \in {"clearInvitations", "error"},
         at[r] = "insert", at' = [at EXCEPT ![r] = p],
         invitation' = [invitation EXCEPT ![r] = [to |-> call[r].user, status |-> "PENDING",
                                                  expired |-> FALSE]],
         UNCHANGED <<origin, mailed, audited, inserting, marked, snapshot, call>>
  PROVE  StoreInv'
<1>0. TypeOK /\ StoreInv
  BY DEF Inv
<1>1. invitation[r].status = "absent" /\ Is(r, "invite") /\ r \in Invitations
  BY <1>0 DEF StoreInv, KindInv, InvitationInv, Invitations
<1>2. /\ \A j \in Invitations \ {r} : invitation'[j] = invitation[j]
      /\ invitation'[r].status = "PENDING"
  BY <1>0, <1>1 DEF TypeOK
<1>3. \A q \in Requests : Is(q, "accept") \/ Is(q, "decline") =>
        call[q].target \in mailed /\ call[q].target # r /\ call[q].target \in Invitations
  BY <1>0, <1>1, CallFacts DEF StoreInv, KindInv, InvitationInv, TypeOK
<1>10. KindInv'
  BY <1>0, InvitationAssumption, <1>1, <1>2, <1>3, SMTT(30) DEF TypeOK, StoreInv, Invitations, Is, Status, InTransaction, KindInv
<1>11. InvitationInv' /\ AddresseeInv'
  BY <1>0, InvitationAssumption, <1>1, <1>2, <1>3, SMTT(30) DEF TypeOK, StoreInv, Invitations, Is, Status, InTransaction, KindInv, InvitationInv, AddresseeInv
<1>12. TransactionInv'
  BY <1>0, InvitationAssumption, <1>1, <1>2, <1>3, SMTT(30) DEF TypeOK, StoreInv, Invitations, Is, Status, InTransaction, KindInv, InvitationInv, AddresseeInv, TransactionInv, MemberInv
<1>13. MemberInv'
  BY <1>0, InvitationAssumption, <1>1, <1>2, <1>3, SMTT(30) DEF TypeOK, StoreInv, Invitations, Is, Status, InTransaction, KindInv, InvitationInv, AddresseeInv, TransactionInv, MemberInv
<1>14. AcceptedInv'
  BY <1>0, InvitationAssumption, <1>1, <1>2, <1>3, SMTT(30) DEF TypeOK, StoreInv, Invitations, Is, Status, InTransaction, KindInv, InvitationInv, AddresseeInv, TransactionInv, MemberInv, AcceptedInv
<1> QED
  BY <1>10, <1>11, <1>12, <1>13, <1>14 DEF StoreInv

\* A mail changes nothing else.
LEMMA MailStore ==
  ASSUME Inv, NEW r \in Requests, NEW p \in {"audit", "error"},
         at[r] = "mail", at' = [at EXCEPT ![r] = p], mailed' = mailed \cup {r},
         UNCHANGED <<invitation, origin, audited, inserting, marked, snapshot, call>>
  PROVE  StoreInv'
<1>0. TypeOK /\ StoreInv
  BY DEF Inv
<1>1. Is(r, "invite") /\ invitation[r].status # "absent"
  BY <1>0 DEF StoreInv, KindInv, InvitationInv
<1>10. KindInv'
  BY <1>0, InvitationAssumption, <1>1, SMTT(30) DEF TypeOK, StoreInv, Invitations, Is, Status, InTransaction, KindInv
<1>11. InvitationInv' /\ AddresseeInv'
  BY <1>0, InvitationAssumption, <1>1, SMTT(30) DEF TypeOK, StoreInv, Invitations, Is, Status, InTransaction, KindInv, InvitationInv, AddresseeInv
<1>12. TransactionInv'
  BY <1>0, InvitationAssumption, <1>1, SMTT(30) DEF TypeOK, StoreInv, Invitations, Is, Status, InTransaction, KindInv, InvitationInv, AddresseeInv, TransactionInv, MemberInv
<1>13. MemberInv'
  BY <1>0, InvitationAssumption, <1>1, SMTT(30) DEF TypeOK, StoreInv, Invitations, Is, Status, InTransaction, KindInv, InvitationInv, AddresseeInv, TransactionInv, MemberInv
<1>14. AcceptedInv'
  BY <1>0, InvitationAssumption, <1>1, SMTT(30) DEF TypeOK, StoreInv, Invitations, Is, Status, InTransaction, KindInv, InvitationInv, AddresseeInv, TransactionInv, MemberInv, AcceptedInv
<1> QED
  BY <1>10, <1>11, <1>12, <1>13, <1>14 DEF StoreInv

\* An audit record outside of a transaction is none of an acceptance.
LEMMA AuditStore ==
  ASSUME Inv, NEW r \in Requests, at[r] = "audit", at' = [at EXCEPT ![r] = "ok"],
         audited' = audited \cup {r},
         UNCHANGED <<invitation, origin, mailed, inserting, marked, snapshot, call>>
  PROVE  StoreInv'
<1>0. TypeOK /\ StoreInv
  BY DEF Inv
<1>1. ~ Is(r, "accept") /\ call[r] # None
  BY <1>0 DEF StoreInv, KindInv, Is
<1>10. KindInv'
  BY <1>0, InvitationAssumption, <1>1, SMTT(30) DEF TypeOK, StoreInv, Invitations, Is, Status, InTransaction, KindInv
<1>11. InvitationInv' /\ AddresseeInv'
  BY <1>0, InvitationAssumption, <1>1, SMTT(30) DEF TypeOK, StoreInv, Invitations, Is, Status, InTransaction, KindInv, InvitationInv, AddresseeInv
<1>12. TransactionInv'
  BY <1>0, InvitationAssumption, <1>1, SMTT(30) DEF TypeOK, StoreInv, Invitations, Is, Status, InTransaction, KindInv, InvitationInv, AddresseeInv, TransactionInv, MemberInv
<1>13. MemberInv'
  BY <1>0, InvitationAssumption, <1>1, SMTT(30) DEF TypeOK, StoreInv, Invitations, Is, Status, InTransaction, KindInv, InvitationInv, AddresseeInv, TransactionInv, MemberInv
<1>14. AcceptedInv'
  BY <1>0, InvitationAssumption, <1>1, SMTT(30) DEF TypeOK, StoreInv, Invitations, Is, Status, InTransaction, KindInv, InvitationInv, AddresseeInv, TransactionInv, MemberInv, AcceptedInv
<1> QED
  BY <1>10, <1>11, <1>12, <1>13, <1>14 DEF StoreInv

\* An invitation that expires keeps its status and its addressee.
LEMMA ExpireStore ==
  ASSUME Inv, NEW i \in Invitations,
         invitation' = [invitation EXCEPT ![i].expired = TRUE],
         UNCHANGED <<origin, mailed, audited, inserting, marked, snapshot, call, at>>
  PROVE  StoreInv'
<1>0. TypeOK /\ StoreInv
  BY DEF Inv
<1>1. \A j \in Invitations : /\ invitation'[j].status = invitation[j].status
                                /\ invitation'[j].to = invitation[j].to
  BY <1>0 DEF TypeOK
<1>2. \A q \in Requests : Is(q, "accept") \/ Is(q, "decline") =>
        call[q].target \in mailed /\ call[q].target \in Invitations
  BY <1>0, CallFacts DEF StoreInv, KindInv, TypeOK
<1>10. KindInv'
  BY <1>0, InvitationAssumption, <1>1, <1>2, SMTT(30) DEF TypeOK, StoreInv, Invitations, Is, Status, InTransaction, KindInv
<1>11. InvitationInv' /\ AddresseeInv'
  BY <1>0, InvitationAssumption, <1>1, <1>2, SMTT(30) DEF TypeOK, StoreInv, Invitations, Is, Status, InTransaction, KindInv, InvitationInv, AddresseeInv
<1>12. TransactionInv'
  BY <1>0, InvitationAssumption, <1>1, <1>2, SMTT(30) DEF TypeOK, StoreInv, Invitations, Is, Status, InTransaction, KindInv, InvitationInv, AddresseeInv, TransactionInv, MemberInv
<1>13. MemberInv'
  BY <1>0, InvitationAssumption, <1>1, <1>2, SMTT(30) DEF TypeOK, StoreInv, Invitations, Is, Status, InTransaction, KindInv, InvitationInv, AddresseeInv, TransactionInv, MemberInv
<1>14. AcceptedInv'
  BY <1>0, InvitationAssumption, <1>1, <1>2, SMTT(30) DEF TypeOK, StoreInv, Invitations, Is, Status, InTransaction, KindInv, InvitationInv, AddresseeInv, TransactionInv, MemberInv, AcceptedInv
<1> QED
  BY <1>10, <1>11, <1>12, <1>13, <1>14 DEF StoreInv

\* A decline changes at most the status of a pending invitation that no open transaction
\* has written.
LEMMA DeclineStore ==
  ASSUME Inv, NEW r \in Requests, NEW p \in {"clearInvitations", "error"},
         at[r] = "mark", Is(r, "decline"), at' = [at EXCEPT ![r] = p], Decline(r),
         UNCHANGED call
  PROVE  StoreInv'
<1>0. TypeOK /\ StoreInv
  BY DEF Inv
<1>1. \A q \in Requests : Is(q, "accept") \/ Is(q, "decline") =>
        call[q].target \in mailed /\ call[q].target \in Invitations
  BY <1>0, CallFacts DEF StoreInv, KindInv, TypeOK
<1>2. PICK i \in Invitations : i = call[r].target
  BY <1>1
<1>3. PICK s \in Statuses :
        s = IF invitation[i].status = "PENDING" THEN "DECLINED" ELSE invitation[i].status
  BY <1>0 DEF TypeOK, Statuses
<1>4. /\ invitation' = [invitation EXCEPT ![i].status = s]
      /\ UNCHANGED <<origin, mailed, audited, inserting, marked, snapshot>>
      /\ \A q \in marked : call[q].target # i
  BY <1>0, <1>2, <1>3 DEF Decline, Writable, TypeOK
<1>5. /\ invitation'[i].status = s
      /\ \A j \in Invitations : invitation'[j].to = invitation[j].to
      /\ \A j \in Invitations \ {i} : invitation'[j] = invitation[j]
  BY <1>0, <1>4, StatusFacts
<1>6. \A j \in Invitations :
        /\ invitation'[j].status = "PENDING" => invitation[j].status = "PENDING"
        /\ invitation[j].status = "absent" <=> invitation'[j].status = "absent"
        /\ invitation'[j].status = "ACCEPTED" => invitation[j].status = "ACCEPTED"
  BY <1>3, <1>5
<1>10. KindInv'
  BY <1>0, InvitationAssumption, <1>1, <1>2, <1>4, <1>5, <1>6, SMTT(30) DEF TypeOK, StoreInv, Writable, Invitations, Is, Status, InTransaction, KindInv
<1>11. InvitationInv' /\ AddresseeInv'
  BY <1>0, InvitationAssumption, <1>1, <1>2, <1>4, <1>5, <1>6, SMTT(30) DEF TypeOK, StoreInv, Writable, Invitations, Is, Status, InTransaction, KindInv, InvitationInv, AddresseeInv
<1>12. TransactionInv'
  BY <1>0, InvitationAssumption, <1>1, <1>2, <1>4, <1>5, <1>6, SMTT(30) DEF TypeOK, StoreInv, Writable, Invitations, Is, Status, InTransaction, KindInv, InvitationInv, AddresseeInv, TransactionInv, MemberInv
<1>13. MemberInv'
  BY <1>0, InvitationAssumption, <1>1, <1>2, <1>4, <1>5, <1>6, SMTT(30) DEF TypeOK, StoreInv, Writable, Invitations, Is, Status, InTransaction, KindInv, InvitationInv, AddresseeInv, TransactionInv, MemberInv
<1>14. AcceptedInv'
  BY <1>0, InvitationAssumption, <1>1, <1>2, <1>4, <1>5, <1>6, SMTT(30) DEF TypeOK, StoreInv, Writable, Invitations, Is, Status, InTransaction, KindInv, InvitationInv, AddresseeInv, TransactionInv, MemberInv, AcceptedInv
<1> QED
  BY <1>10, <1>11, <1>12, <1>13, <1>14 DEF StoreInv

\* An addition makes a user a member who is none and for whom no transaction is open.
LEMMA AddStore ==
  ASSUME Inv, NEW r \in Requests, NEW p \in {"clearMembers", "error"},
         at[r] = "join", Is(r, "add"), at' = [at EXCEPT ![r] = p],
         origin[call[r].user] = None, inserting[call[r].user] = None,
         origin' = [origin EXCEPT ![call[r].user] = r],
         UNCHANGED <<invitation, mailed, audited, inserting, marked, snapshot, call>>
  PROVE  StoreInv'
<1>0. TypeOK /\ StoreInv
  BY DEF Inv
<1>1. call[r].user \in Users /\ r # None
  BY <1>0, CallFacts, InvitationAssumption DEF Is
<1>2. origin'[call[r].user] = r /\ \A u \in Users \ {call[r].user} : origin'[u] = origin[u]
  BY <1>0, <1>1 DEF TypeOK
<1>3. \A q \in Requests : call[q] # None => call[q].user \in Users
  BY <1>0, CallFacts
<1>10. KindInv'
  BY <1>0, InvitationAssumption, <1>1, <1>2, <1>3, SMTT(30) DEF TypeOK, StoreInv, Invitations, Is, Status, InTransaction, KindInv
<1>11. InvitationInv' /\ AddresseeInv'
  BY <1>0, InvitationAssumption, <1>1, <1>2, <1>3, SMTT(30) DEF TypeOK, StoreInv, Invitations, Is, Status, InTransaction, KindInv, InvitationInv, AddresseeInv
<1>12. TransactionInv'
  BY <1>0, InvitationAssumption, <1>1, <1>2, <1>3, SMTT(30) DEF TypeOK, StoreInv, Invitations, Is, Status, InTransaction, KindInv, InvitationInv, AddresseeInv, TransactionInv, MemberInv
<1>13. MemberInv'
  BY <1>0, InvitationAssumption, <1>1, <1>2, <1>3, SMTT(30) DEF TypeOK, StoreInv, Invitations, Is, Status, InTransaction, KindInv, InvitationInv, AddresseeInv, TransactionInv, MemberInv
<1>14. AcceptedInv'
  BY <1>0, InvitationAssumption, <1>1, <1>2, <1>3, SMTT(30) DEF TypeOK, StoreInv, Invitations, Is, Status, InTransaction, KindInv, InvitationInv, AddresseeInv, TransactionInv, MemberInv, AcceptedInv
<1> QED
  BY <1>10, <1>11, <1>12, <1>13, <1>14 DEF StoreInv

\* A transaction starts with the membership of a user who is no member.
LEMMA BeginStore ==
  ASSUME Inv, NEW r \in Requests, at[r] = "join", Is(r, "accept"),
         at' = [at EXCEPT ![r] = "clearMembers"],
         origin[call[r].user] = None, inserting[call[r].user] = None,
         inserting' = [inserting EXCEPT ![call[r].user] = r],
         snapshot' = [snapshot EXCEPT ![r] = Status(r)],
         UNCHANGED <<invitation, origin, mailed, audited, marked, call>>
  PROVE  StoreInv'
<1>0. TypeOK /\ StoreInv
  BY DEF Inv
<1>1. call[r].user \in Users /\ r # None
  BY <1>0, CallFacts, InvitationAssumption DEF Is
<1>2. inserting'[call[r].user] = r /\ \A u \in Users \ {call[r].user} : inserting'[u] = inserting[u]
  BY <1>0, <1>1 DEF TypeOK
<1>3. \A q \in Requests : call[q] # None => call[q].user \in Users
  BY <1>0, CallFacts
<1>10. KindInv'
  BY <1>0, InvitationAssumption, <1>1, <1>2, <1>3, SMTT(30) DEF TypeOK, StoreInv, Invitations, Is, Status, InTransaction, KindInv
<1>11. InvitationInv' /\ AddresseeInv'
  BY <1>0, InvitationAssumption, <1>1, <1>2, <1>3, SMTT(30) DEF TypeOK, StoreInv, Invitations, Is, Status, InTransaction, KindInv, InvitationInv, AddresseeInv
<1>12. TransactionInv'
  BY <1>0, InvitationAssumption, <1>1, <1>2, <1>3, SMTT(30) DEF TypeOK, StoreInv, Invitations, Is, Status, InTransaction, KindInv, InvitationInv, AddresseeInv, TransactionInv, MemberInv
<1>13. MemberInv'
  BY <1>0, InvitationAssumption, <1>1, <1>2, <1>3, SMTT(30) DEF TypeOK, StoreInv, Invitations, Is, Status, InTransaction, KindInv, InvitationInv, AddresseeInv, TransactionInv, MemberInv
<1>14. AcceptedInv'
  BY <1>0, InvitationAssumption, <1>1, <1>2, <1>3, SMTT(30) DEF TypeOK, StoreInv, Invitations, Is, Status, InTransaction, KindInv, InvitationInv, AddresseeInv, TransactionInv, MemberInv, AcceptedInv
<1> QED
  BY <1>10, <1>11, <1>12, <1>13, <1>14 DEF StoreInv

\* A transaction writes its invitation if that is still what its snapshot says.
LEMMA MarkStore ==
  ASSUME Inv, NEW r \in Requests, at[r] = "mark", Is(r, "accept"),
         at' = [at EXCEPT ![r] = "clearInvitations"],
         snapshot[r] = "PENDING" => Status(r) = "PENDING",
         marked' = IF snapshot[r] = "PENDING" THEN marked \cup {r} ELSE marked,
         UNCHANGED <<invitation, origin, mailed, audited, inserting, snapshot, call>>
  PROVE  StoreInv'
<1>0. TypeOK /\ StoreInv
  BY DEF Inv
<1>10. KindInv'
  BY <1>0, InvitationAssumption, SMTT(30) DEF TypeOK, StoreInv, Invitations, Is, Status, InTransaction, KindInv
<1>11. InvitationInv' /\ AddresseeInv'
  BY <1>0, InvitationAssumption, SMTT(30) DEF TypeOK, StoreInv, Invitations, Is, Status, InTransaction, KindInv, InvitationInv, AddresseeInv
<1>12. TransactionInv'
  BY <1>0, InvitationAssumption, SMTT(30) DEF TypeOK, StoreInv, Invitations, Is, Status, InTransaction, KindInv, InvitationInv, AddresseeInv, TransactionInv, MemberInv
<1>13. MemberInv'
  BY <1>0, InvitationAssumption, SMTT(30) DEF TypeOK, StoreInv, Invitations, Is, Status, InTransaction, KindInv, InvitationInv, AddresseeInv, TransactionInv, MemberInv
<1>14. AcceptedInv'
  BY <1>0, InvitationAssumption, SMTT(30) DEF TypeOK, StoreInv, Invitations, Is, Status, InTransaction, KindInv, InvitationInv, AddresseeInv, TransactionInv, MemberInv, AcceptedInv
<1> QED
  BY <1>10, <1>11, <1>12, <1>13, <1>14 DEF StoreInv

\* Requests that end without success leave no open transaction.
LEMMA FailStore ==
  ASSUME Inv, NEW S \in SUBSET Requests, \A r \in S : at[r] \in Running,
         at' = [r \in Requests |-> IF r \in S THEN "error" ELSE at[r]],
         inserting' = [u \in Users |-> IF inserting[u] \in S THEN None ELSE inserting[u]],
         marked' = marked \ S, \A r \in Requests \ S : snapshot'[r] = snapshot[r],
         UNCHANGED <<invitation, origin, mailed, audited, call>>
  PROVE  StoreInv'
<1>0. TypeOK /\ StoreInv
  BY DEF Inv
<1>1. \A q \in Requests : call[q] # None => call[q].user \in Users
  BY <1>0, CallFacts
<1>2. \A u \in Users : inserting[u] \in Requests \cup {None} /\ None \notin Requests
  BY <1>0, InvitationAssumption DEF TypeOK
<1>10. KindInv'
  BY <1>0, InvitationAssumption, <1>1, <1>2, SMTT(30) DEF TypeOK, StoreInv, Running, Invitations, Is, Status, InTransaction, KindInv
<1>11. InvitationInv' /\ AddresseeInv'
  BY <1>0, InvitationAssumption, <1>1, <1>2, SMTT(30) DEF TypeOK, StoreInv, Running, Invitations, Is, Status, InTransaction, KindInv, InvitationInv, AddresseeInv
<1>12. TransactionInv'
  BY <1>0, InvitationAssumption, <1>1, <1>2, SMTT(30) DEF TypeOK, StoreInv, Running, Invitations, Is, Status, InTransaction, KindInv, InvitationInv, AddresseeInv, TransactionInv, MemberInv
<1>13. MemberInv'
  BY <1>0, InvitationAssumption, <1>1, <1>2, SMTT(30) DEF TypeOK, StoreInv, Running, Invitations, Is, Status, InTransaction, KindInv, InvitationInv, AddresseeInv, TransactionInv, MemberInv
<1>14. AcceptedInv'
  BY <1>0, InvitationAssumption, <1>1, <1>2, SMTT(30) DEF TypeOK, StoreInv, Running, Invitations, Is, Status, InTransaction, KindInv, InvitationInv, AddresseeInv, TransactionInv, MemberInv, AcceptedInv
<1> QED
  BY <1>10, <1>11, <1>12, <1>13, <1>14 DEF StoreInv

\* A transaction that is aborted is as if it had not begun.
LEMMA AbortStore ==
  ASSUME Inv, NEW r \in Requests, at[r] \in {"mark", "commit"}, Is(r, "accept"),
         at' = [at EXCEPT ![r] = "join"],
         inserting' = [u \in Users |-> IF inserting[u] = r THEN None ELSE inserting[u]],
         marked' = marked \ {r}, snapshot' = [snapshot EXCEPT ![r] = "absent"],
         UNCHANGED <<invitation, origin, mailed, audited, call>>
  PROVE  StoreInv'
<1>0. TypeOK /\ StoreInv
  BY DEF Inv
<1>1. \A q \in Requests : call[q] # None => call[q].user \in Users
  BY <1>0, CallFacts
<1>2. \A u \in Users : inserting[u] \in Requests \cup {None} /\ None \notin Requests
  BY <1>0, InvitationAssumption DEF TypeOK
<1>10. KindInv'
  BY <1>0, InvitationAssumption, <1>1, <1>2, SMTT(30) DEF TypeOK, StoreInv, Invitations, Is, Status, InTransaction, KindInv
<1>11. InvitationInv' /\ AddresseeInv'
  BY <1>0, InvitationAssumption, <1>1, <1>2, SMTT(30) DEF TypeOK, StoreInv, Invitations, Is, Status, InTransaction, KindInv, InvitationInv, AddresseeInv
<1>12. TransactionInv'
  BY <1>0, InvitationAssumption, <1>1, <1>2, SMTT(30) DEF TypeOK, StoreInv, Invitations, Is, Status, InTransaction, KindInv, InvitationInv, AddresseeInv, TransactionInv, MemberInv
<1>13. MemberInv'
  BY <1>0, InvitationAssumption, <1>1, <1>2, SMTT(30) DEF TypeOK, StoreInv, Invitations, Is, Status, InTransaction, KindInv, InvitationInv, AddresseeInv, TransactionInv, MemberInv
<1>14. AcceptedInv'
  BY <1>0, InvitationAssumption, <1>1, <1>2, SMTT(30) DEF TypeOK, StoreInv, Invitations, Is, Status, InTransaction, KindInv, InvitationInv, AddresseeInv, TransactionInv, MemberInv, AcceptedInv
<1> QED
  BY <1>10, <1>11, <1>12, <1>13, <1>14 DEF StoreInv

\* At the commit the addressee becomes a member, and a pending invitation accepted.
LEMMA CommitStore ==
  ASSUME Inv, NEW r \in Requests, NEW p \in {"ok", "error"},
         at[r] = "commit", Is(r, "accept"), at' = [at EXCEPT ![r] = p], CommitTransaction(r),
         UNCHANGED call
  PROVE  StoreInv'
<1>0. TypeOK /\ StoreInv
  BY DEF Inv
<1>1. PICK i \in Invitations : i = call[r].target
  BY <1>0, CallFacts DEF StoreInv, KindInv, TypeOK
<1>2. PICK s \in Statuses :
        s = IF r \in marked THEN "ACCEPTED" ELSE invitation[i].status
  BY <1>0 DEF TypeOK, Statuses
<1>3. invitation' = [invitation EXCEPT ![i].status = s]
  BY <1>0, <1>1, <1>2 DEF CommitTransaction, TypeOK
<1>4. /\ invitation'[i].status = s
      /\ \A j \in Invitations : invitation'[j].to = invitation[j].to
      /\ \A j \in Invitations \ {i} : invitation'[j] = invitation[j]
  BY <1>0, <1>3, StatusFacts
<1>5. \A q \in Requests : call[q] # None => call[q].user \in Users
  BY <1>0, CallFacts
<1>6. \A u \in Users : inserting[u] \in Requests \cup {None} /\ None \notin Requests
  BY <1>0, InvitationAssumption DEF TypeOK
<1>7. /\ origin'[call[r].user] = r
      /\ \A u \in Users \ {call[r].user} : origin'[u] = origin[u]
      /\ \A u \in Users : inserting'[u] = IF inserting[u] = r THEN None ELSE inserting[u]
      /\ marked' = marked \ {r} /\ audited' = audited \cup {r} /\ mailed' = mailed
      /\ \A q \in Requests \ {r} : snapshot'[q] = snapshot[q]
  BY <1>0, <1>5 DEF CommitTransaction, Release, TypeOK, Is
<1>8. /\ InTransaction(r) /\ inserting[call[r].user] = r /\ origin[call[r].user] = None
      /\ invitation[i].to = call[r].user
      /\ \A q \in Requests \ {r} : InTransaction(q) => call[q].user # call[r].user
      /\ invitation'[i].status # "PENDING"
  BY <1>0, <1>1, <1>2, <1>4, <1>5, <1>6
  DEF StoreInv, TransactionInv, AddresseeInv, InTransaction, Status, Is
<1>9. \A j \in Invitations :
        /\ invitation'[j].status = "PENDING" => invitation[j].status = "PENDING"
        /\ invitation[j].status = "absent" <=> invitation'[j].status = "absent"
        /\ invitation'[j].status = "ACCEPTED" => invitation[j].status = "ACCEPTED" \/ (j = i)
  BY <1>0, <1>1, <1>2, <1>4 DEF StoreInv, KindInv, InvitationInv, TransactionInv, Status
<1>15. \A q \in Requests : Is(q, "accept") \/ Is(q, "decline") =>
        call[q].target \in mailed /\ call[q].target \in Invitations
  BY <1>0, CallFacts DEF StoreInv, KindInv, TypeOK
<1>16. at'[r] = p /\ UNCHANGED call /\ \A q \in Requests \ {r} : at'[q] = at[q]
  BY <1>0 DEF TypeOK
<1>17. \A q \in marked \ {r} : call[q].target # i
  BY <1>0, <1>1, <1>8, <1>15, SMTT(30)
  DEF StoreInv, AddresseeInv, TransactionInv, InTransaction, Is, TypeOK
<1>20. KindInv'
  BY <1>0, <1>7, <1>16 DEF StoreInv, KindInv, Is
<1>21. InvitationInv'
  BY <1>0, <1>7, <1>9, <1>15, <1>16 DEF StoreInv, InvitationInv, Is, Invitations, TypeOK
<1>22. AddresseeInv'
  BY <1>0, <1>4, <1>15, <1>16 DEF StoreInv, AddresseeInv, Is
<1>23. TransactionInv'
  <2>1. ASSUME NEW u \in Users, inserting'[u] # None
        PROVE  InTransaction(inserting[u])' /\ call'[inserting'[u]].user = u /\ origin'[u] = None
    BY <1>0, <1>5, <1>6, <1>7, <1>8, <1>16, <2>1 DEF StoreInv, TransactionInv, InTransaction, Is
  <2>2. ASSUME NEW q \in Requests, InTransaction(q)'
        PROVE  /\ inserting'[call'[q].user] = q
               /\ snapshot'[q] # "PENDING" => Status(q)' # "PENDING"
               /\ at'[q] \in {"clearInvitations", "commit"} => q \in marked' \/ Status(q)' # "PENDING"
    <3>1. q # r /\ InTransaction(q) /\ at'[q] = at[q] /\ call[q].target \in Invitations
          /\ call[q].user \in Users
      BY <1>5, <1>15, <1>16, <2>2 DEF InTransaction, Is
    <3> QED
      BY <1>0, <1>7, <1>9, <1>16, <3>1 DEF StoreInv, TransactionInv, Status
  <2>3. ASSUME NEW q \in marked'
        PROVE  /\ InTransaction(q)' /\ at'[q] \in {"clearInvitations", "commit"}
               /\ Status(q)' = "PENDING"
    <3>1. q \in marked /\ q # r /\ q \in Requests
      BY <1>0, <1>7, <2>3 DEF TypeOK
    <3> QED
      BY <1>0, <1>4, <1>15, <1>16, <1>17, <3>1 DEF StoreInv, TransactionInv, InTransaction, Status, Is
  <2> QED
    BY <2>1, <2>2, <2>3 DEF TransactionInv
<1>24. MemberInv'
  <2>1. ASSUME NEW u \in Users, origin'[u] # None, NEW q \in Requests, q = origin'[u]
        PROVE  /\ call'[q] # None /\ call'[q].user = u
               /\ \/ Is(q, "add")' /\ at'[q] \in {"clearMembers", "audit", "ok", "error"}
                  \/ /\ Is(q, "accept")' /\ at'[q] \in {"ok", "error"}
                     /\ Status(q)' # "PENDING" /\ invitation'[call'[q].target].to = u
    <3>1. CASE q = r
      <4>1. u = call[r].user
        <5> SUFFICES ASSUME u # call[r].user PROVE FALSE
          OBVIOUS
        <5>1. origin[u] = r /\ origin[u] # None
          BY <1>7, <2>1, <3>1
        <5> QED
          BY <1>0, <5>1 DEF StoreInv, MemberInv, Is
      <4> QED
        BY <1>1, <1>4, <1>8, <1>16, <3>1, <4>1 DEF Status, Is
    <3>2. CASE q # r
      <4>1. origin[u] = q /\ at'[q] = at[q] /\ origin[u] # None
        BY <1>7, <1>16, <2>1, <3>2
      <4>2. Is(q, "accept") => call[q].target \in Invitations
        BY <1>15
      <4> QED
        BY <1>0, <1>4, <1>9, <1>16, <4>1, <4>2 DEF Status, Is, StoreInv, MemberInv
    <3> QED
      BY <3>1, <3>2
  <2>2. ASSUME NEW q \in Requests
        PROVE  /\ Is(q, "add")' /\ at'[q] \in {"clearMembers", "audit", "ok"} => origin'[call'[q].user] = q
               /\ Is(q, "accept")' /\ at'[q] = "ok" => origin'[call'[q].user] = q
               /\ Is(q, "accept")' => (q \in audited' <=> origin'[call'[q].user] = q)
               /\ at'[q] = "new" => q \notin audited'
    <3>1. CASE q = r
      BY <1>7, <1>16, <3>1 DEF Is
    <3>2. CASE q # r
      <4>1. (q \in audited' <=> q \in audited) /\ at'[q] = at[q]
        BY <1>7, <1>16, <3>2
      <4>2. call[q] # None => (origin'[call[q].user] = q <=> origin[call[q].user] = q)
        BY <1>0, <1>5, <1>7, <1>8, <3>2, InvitationAssumption
      <4> QED
        BY <1>0, <1>16, <4>1, <4>2 DEF Is, StoreInv, MemberInv
    <3> QED
      BY <3>1, <3>2
  <2>3. \A u \in Users : origin'[u] \in Requests \cup {None}
    BY <1>0, <1>7 DEF TypeOK
  <2> QED
    BY <2>1, <2>2, <2>3 DEF MemberInv
<1>25. AcceptedInv'
  <2>1. ASSUME NEW j \in Invitations, invitation'[j].status = "ACCEPTED"
        PROVE  \E q \in Requests : /\ Is(q, "accept")' /\ call'[q].target = j
                                   /\ origin'[call'[q].user] = q
    <3>1. CASE j = i /\ invitation[j].status # "ACCEPTED"
      BY <1>1, <1>7, <1>16, <3>1 DEF Is
    <3>2. CASE invitation[j].status = "ACCEPTED"
      <4>1. PICK q \in Requests : Is(q, "accept") /\ call[q].target = j /\ origin[call[q].user] = q
        BY <1>0, <3>2 DEF StoreInv, AcceptedInv
      <4>2. call[q].user \in Users /\ call[q].user # call[r].user
        BY <1>5, <1>8, <4>1, InvitationAssumption DEF Is
      <4> QED
        BY <1>7, <1>16, <4>1, <4>2 DEF Is
    <3> QED
      BY <1>9, <2>1, <3>1, <3>2
  <2> QED
    BY <2>1 DEF AcceptedInv
<1> QED
  BY <1>20, <1>21, <1>22, <1>23, <1>24, <1>25 DEF StoreInv

\* A request that arrives has done nothing yet.
LEMMA ArriveStore ==
  ASSUME Inv, NEW r \in Requests, Arrive(r)
  PROVE  StoreInv'
<1>0. TypeOK /\ StoreInv
  BY DEF Inv
<1>1. PICK c \in Calls :
        /\ c.kind \in {"accept", "decline"} => c.target \in mailed
        /\ call' = [call EXCEPT ![r] = c]
        /\ at' = [at EXCEPT ![r] = IF c.kind \in {"accept", "decline"} THEN "find" ELSE "lookup"]
  BY DEF Arrive, Goto
<1>2. at[r] = "new" /\ UNCHANGED storeVars /\ call[r] = None
  BY <1>0 DEF Arrive, StoreInv, KindInv
<1>3. call'[r] = c /\ c # None /\ \A q \in Requests \ {r} : call'[q] = call[q] /\ at'[q] = at[q]
  BY <1>0, <1>1, CallAssumption DEF TypeOK
<1>4. at'[r] = IF c.kind \in {"accept", "decline"} THEN "find" ELSE "lookup"
  BY <1>0, <1>1 DEF TypeOK
<1>5. /\ \A u \in Users : origin[u] \in Requests \cup {None} /\ origin[u] # r
      /\ r \notin audited /\ None \notin Requests
      /\ \A q \in Requests : Is(q, "accept") \/ Is(q, "add") => call[q].user \in Users
  BY <1>0, <1>2, CallFacts, InvitationAssumption DEF TypeOK, StoreInv, MemberInv, Is
<1>6. c.user \in Users
  BY DEF Calls
<1>10. KindInv'
  BY <1>0, InvitationAssumption, <1>1, <1>2, <1>3, <1>4, <1>5, <1>6, SMTT(30) DEF TypeOK, StoreInv, storeVars, Invitations, Is, Status, InTransaction, KindInv
<1>11. InvitationInv' /\ AddresseeInv'
  BY <1>0, InvitationAssumption, <1>1, <1>2, <1>3, <1>4, <1>5, <1>6, SMTT(30) DEF TypeOK, StoreInv, storeVars, Invitations, Is, Status, InTransaction, KindInv, InvitationInv, AddresseeInv
<1>12. TransactionInv'
  BY <1>0, InvitationAssumption, <1>1, <1>2, <1>3, <1>4, <1>5, <1>6, SMTT(30) DEF TypeOK, StoreInv, storeVars, Invitations, Is, Status, InTransaction, KindInv, InvitationInv, AddresseeInv, TransactionInv, MemberInv
<1>13. MemberInv'
  BY <1>0, InvitationAssumption, <1>1, <1>2, <1>3, <1>4, <1>5, <1>6, SMTT(30) DEF TypeOK, StoreInv, storeVars, Invitations, Is, Status, InTransaction, KindInv, InvitationInv, AddresseeInv, TransactionInv, MemberInv
<1>14. AcceptedInv'
  BY <1>0, InvitationAssumption, <1>1, <1>2, <1>3, <1>4, <1>5, <1>6, SMTT(30) DEF TypeOK, StoreInv, storeVars, Invitations, Is, Status, InTransaction, KindInv, InvitationInv, AddresseeInv, TransactionInv, MemberInv, AcceptedInv
<1> QED
  BY <1>10, <1>11, <1>12, <1>13, <1>14 DEF StoreInv

-------------------------------------------------------------------------------
(* The types                                                               *)

\* The points named by the actions are points.
LEMMA PointFacts ==
  /\ Running \subseteq Points /\ Answers \subseteq Points /\ "new" \in Points
  /\ LookingUp \subseteq Running
  BY DEF Running, Answers, Points, LookingUp

\* Where the handler goes after a lookup is a move.
LEMMA FoundFacts ==
  ASSUME Inv, NEW r \in Requests, at[r] \in LookingUp, NEW v, Found(r, v)
  PROVE  \E p \in {"ok", "refused", "join", "lookup", "insert"}, k \in Keys \cup {None} :
           /\ Move(r, p) /\ at' = [at EXCEPT ![r] = p]
           /\ lookup' = [lookup EXCEPT ![r] = [key |-> k, value |-> {}]]
           /\ p = "lookup" => k = PendingKey(call[r].user) /\ Is(r, "invite")
           /\ Is(r, "view") => p = IF v = {} THEN "refused" ELSE "ok"
<1>1. /\ call[r] # None /\ call[r].kind \in Kinds /\ call[r].kind # "decline"
      /\ PendingKey(call[r].user) \in Keys
  BY CallFacts DEF Inv, StoreInv, KindInv, LookingUp, Is
<1>2. CASE call[r].kind = "inbox"
  <2> WITNESS "ok" \in {"ok", "refused", "join", "lookup", "insert"}, None \in Keys \cup {None}
  <2> QED
    BY <1>1, <1>2 DEF Found, Move, Is, Goto, LookUp
<1>3. CASE call[r].kind = "view"
  <2> DEFINE p == IF v = {} THEN "refused" ELSE "ok"
  <2> WITNESS p \in {"ok", "refused", "join", "lookup", "insert"}, None \in Keys \cup {None}
  <2> QED
    BY <1>1, <1>3 DEF Found, Move, Is, Goto, LookUp
<1>4. CASE call[r].kind \in {"invite", "accept", "add"} /\ v # {}
  <2> WITNESS "refused" \in {"ok", "refused", "join", "lookup", "insert"}, None \in Keys \cup {None}
  <2> QED
    BY <1>1, <1>4 DEF Found, Move, Is, Goto, LookUp
<1>5. CASE call[r].kind \in {"accept", "add"} /\ v = {}
  <2> WITNESS "join" \in {"ok", "refused", "join", "lookup", "insert"}, None \in Keys \cup {None}
  <2> QED
    BY <1>1, <1>5 DEF Found, Move, Is, Goto, LookUp
<1>6. CASE call[r].kind = "invite" /\ v = {} /\ lookup[r].key.of = "member"
  <2> PendingKey(call[r].user) \in Keys \cup {None}
    BY <1>1
  <2> WITNESS "lookup" \in {"ok", "refused", "join", "lookup", "insert"},
              PendingKey(call[r].user) \in Keys \cup {None}
  <2>1. Is(r, "invite") /\ Move(r, "lookup")
    BY <1>1, <1>6 DEF Move, Is, LookingUp
  <2>2. Goto(r, "lookup") /\ LookUp(r, PendingKey(call[r].user))
    BY <1>6 DEF Found
  <2> QED
    BY <2>1, <2>2 DEF Is, Goto, LookUp
<1>7. CASE call[r].kind = "invite" /\ v = {} /\ lookup[r].key.of # "member"
  <2> WITNESS "insert" \in {"ok", "refused", "join", "lookup", "insert"}, None \in Keys \cup {None}
  <2> QED
    BY <1>1, <1>7 DEF Found, Move, Is, Goto, LookUp
<1> QED
  BY <1>1, <1>2, <1>3, <1>4, <1>5, <1>6, <1>7 DEF Kinds

\* What is under a key is a set of users or of invitations.
LEMMA StoredFacts ==
  ASSUME TypeOK, NEW k \in Keys
  PROVE  /\ Stored(k) \in Results
         /\ k.of = "member" => (Stored(k) # {} <=> k.user \in Members)
  BY DEF Stored, Results, Members, PendingFor, Keys

\* A new invitation has its type.
LEMMA InsertType ==
  ASSUME Inv, NEW r \in Requests, at[r] = "insert",
         invitation' = [invitation EXCEPT ![r] = [to |-> call[r].user, status |-> "PENDING",
                                                  expired |-> FALSE]]
  PROVE  invitation' \in [Invitations -> [to : Users \cup {None}, status : Statuses,
                                          expired : BOOLEAN]]
<1>1. call[r].user \in Users
  BY CallFacts DEF Inv, StoreInv, KindInv, Is
<1>2. [to |-> call[r].user, status |-> "PENDING", expired |-> FALSE]
        \in [to : Users \cup {None}, status : Statuses, expired : BOOLEAN]
  BY <1>1 DEF Statuses
<1> QED
  BY <1>2 DEF Inv, TypeOK

\* A decline leaves the invitations well typed.
LEMMA DeclineType ==
  ASSUME Inv, NEW r \in Requests, Is(r, "decline"), Decline(r)
  PROVE  invitation' \in [Invitations -> [to : Users \cup {None}, status : Statuses,
                                          expired : BOOLEAN]]
<1>1. PICK i \in Invitations : i = call[r].target
  BY CallFacts DEF Inv, StoreInv, KindInv, TypeOK
<1>2. PICK s \in Statuses :
        s = IF invitation[i].status = "PENDING" THEN "DECLINED" ELSE invitation[i].status
  BY DEF Inv, TypeOK, Statuses
<1>3. invitation' = [invitation EXCEPT ![i].status = s]
  BY <1>1, <1>2 DEF Decline, Inv, TypeOK
<1> QED
  BY <1>3, StatusFacts DEF Inv

\* A commit leaves everything well typed, and nobody loses a membership by it.
LEMMA CommitType ==
  ASSUME Inv, NEW r \in Requests, Is(r, "accept"), CommitTransaction(r)
  PROVE  /\ invitation' \in [Invitations -> [to : Users \cup {None}, status : Statuses,
                                             expired : BOOLEAN]]
         /\ origin' \in [Users -> Requests \cup {None}] /\ audited' \subseteq Requests
         /\ inserting' \in [Users -> Requests \cup {None}] /\ marked' \subseteq Requests
         /\ snapshot' \in [Requests -> Statuses] /\ mailed' = mailed
         /\ Members \subseteq Members'
<1>1. PICK i \in Invitations : i = call[r].target
  BY CallFacts DEF Inv, StoreInv, KindInv, TypeOK
<1>2. PICK s \in Statuses :
        s = IF r \in marked THEN "ACCEPTED" ELSE invitation[i].status
  BY DEF Inv, TypeOK, Statuses
<1>3. invitation' = [invitation EXCEPT ![i].status = s]
  BY <1>1, <1>2 DEF CommitTransaction, Inv, TypeOK
<1>4. call[r].user \in Users /\ None \notin Requests
  BY CallFacts, InvitationAssumption DEF Inv, Is
<1>5. invitation' \in [Invitations -> [to : Users \cup {None}, status : Statuses,
                                      expired : BOOLEAN]]
  BY <1>3, StatusFacts DEF Inv
<1> QED
  BY <1>4, <1>5 DEF CommitTransaction, Release, Inv, TypeOK, Members, Statuses

-------------------------------------------------------------------------------
(* What the steps do to the lookups and the cache                          *)

\* Requests that end or go on to write say nothing about a membership, and what leaves
\* the cache does not, either.
LEMMA CacheKept ==
  ASSUME Inv,
         \A q \in Requests :
           \/ at'[q] = at[q] /\ lookup'[q] = lookup[q]
           \/ at'[q] = "lookup" /\ at[q] = "find" /\ lookup'[q] = lookup[q]
           \/ /\ at'[q] \notin {"find", "lookup", "query", "store", "register"}
              /\ at'[q] = "refused" => ~ Is(q, "view"),
         \A u \in Users : cache'[MemberKey(u)] \in {None, cache[MemberKey(u)]},
         Members \subseteq Members', UNCHANGED <<call, earlier>>
  PROVE  CacheInv' /\ MembersAdmitted'
<1>1. \A u \in Users : cache'[MemberKey(u)] # None =>
        cache'[MemberKey(u)] # {} /\ u \in Members'
  BY DEF Inv, CacheInv
<1>2. \A q \in Requests : at'[q] \in {"find", "lookup", "query", "store", "register"} =>
        /\ lookup'[q].key \in Keys
        /\ Is(q, "view")' => lookup'[q].key = MemberKey(call'[q].user)
        /\ lookup'[q].key.of = "member" => lookup'[q].key = MemberKey(call'[q].user)
        /\ at'[q] \in {"store", "register"} /\ lookup'[q].key.of = "member" =>
             lookup'[q].value # {} /\ lookup'[q].key.user \in Members'
  BY DEF Inv, CacheInv, Is
<1>3. \A q \in earlier' : call'[q] # None /\ call'[q].user \in Members'
  BY DEF Inv, CacheInv
<1>4. MembersAdmitted'
  BY DEF Inv, TypeOK, CacheInv, MembersAdmitted, Is
<1>5. CacheInv'
  BY <1>1, <1>2, <1>3 DEF CacheInv, MemberKey
<1> QED
  BY <1>4, <1>5

\* What is found decides where a handler goes on, and a member is not refused a view.
LEMMA FoundInv ==
  ASSUME Inv, NEW r \in Requests, at[r] \in LookingUp, NEW v, Found(r, v),
         lookup[r].key.of = "member" /\ v = {} => call[r].user \notin Members,
         registry' \in [Processes -> SUBSET Keys],
         UNCHANGED <<storeVars, cache, cleared, callVars, faults>>
  PROVE  Inv'
<1>1. PICK p \in {"ok", "refused", "join", "lookup", "insert"}, k \in Keys \cup {None} :
        /\ Move(r, p) /\ at' = [at EXCEPT ![r] = p]
        /\ lookup' = [lookup EXCEPT ![r] = [key |-> k, value |-> {}]]
        /\ p = "lookup" => k = PendingKey(call[r].user) /\ Is(r, "invite")
        /\ Is(r, "view") => p = IF v = {} THEN "refused" ELSE "ok"
  BY FoundFacts
<1>2. p \in Points
  BY DEF Points, Running, Answers
<1>3. TypeOK'
  <2>1. [key |-> k, value |-> {}] \in [key : Keys \cup {None}, value : Results]
    BY DEF Results
  <2>2. lookup' \in [Requests -> [key : Keys \cup {None}, value : Results]]
    BY <1>1, <2>1 DEF Inv, TypeOK
  <2> QED
    BY <1>1, <1>2, <2>2 DEF Inv, TypeOK, storeVars, callVars
<1>4. StoreInv'
  BY <1>1, <1>2, MoveStore DEF callVars
<1>5. /\ at'[r] = p /\ lookup'[r] = [key |-> k, value |-> {}]
      /\ \A q \in Requests \ {r} : at'[q] = at[q] /\ lookup'[q] = lookup[q]
      /\ UNCHANGED <<call, earlier, cache>> /\ Members' = Members
  BY <1>1 DEF Inv, TypeOK, Members, storeVars, callVars
<1>6. /\ Is(r, "view") => lookup[r].key = MemberKey(call[r].user)
      /\ p = "lookup" => call[r] # None /\ PendingKey(call[r].user) \in Keys
  BY <1>1, CallFacts DEF Inv, CacheInv, LookingUp, Is
<1>7. MembersAdmitted'
  <2>1. ASSUME r \in earlier, call[r].kind = "view" PROVE p # "refused"
    <3>1. Is(r, "view") /\ call[r].user \in Members
      BY <2>1 DEF Inv, CacheInv, Is
    <3>2. lookup[r].key.of = "member"
      BY <1>6, <3>1 DEF MemberKey
    <3> QED
      BY <1>1, <3>1, <3>2
  <2> QED
    BY <1>5, <2>1 DEF Inv, TypeOK, MembersAdmitted
<1>8. CacheInv'
  <2>1. \A u \in Users : cache'[MemberKey(u)] # None =>
          cache'[MemberKey(u)] # {} /\ u \in Members'
    BY <1>5 DEF Inv, CacheInv
  <2>2. \A q \in earlier' : call'[q] # None /\ call'[q].user \in Members'
    BY <1>5 DEF Inv, CacheInv
  <2>3. ASSUME NEW q \in Requests, at'[q] \in {"find", "lookup", "query", "store", "register"}
        PROVE  /\ lookup'[q].key \in Keys
               /\ Is(q, "view")' => lookup'[q].key = MemberKey(call'[q].user)
               /\ lookup'[q].key.of = "member" => lookup'[q].key = MemberKey(call'[q].user)
               /\ at'[q] \in {"store", "register"} /\ lookup'[q].key.of = "member" =>
                    lookup'[q].value # {} /\ lookup'[q].key.user \in Members'
    <3>1. CASE q = r
      <4>1. p = "lookup" /\ lookup'[q].key = PendingKey(call[r].user) /\ Is(r, "invite")
            /\ at'[q] = "lookup"
        BY <1>1, <1>5, <2>3, <3>1
      <4> QED
        BY <1>5, <1>6, <3>1, <4>1 DEF PendingKey, Is
    <3>2. CASE q # r
      BY <1>5, <2>3, <3>2 DEF Inv, CacheInv, Is
    <3> QED
      BY <3>1, <3>2
  <2> QED
    BY <2>1, <2>2, <2>3 DEF CacheInv, MemberKey
<1> QED
  BY <1>3, <1>4, <1>7, <1>8 DEF Inv

-------------------------------------------------------------------------------
(* The steps                                                               *)

\* Who arrives as a member is one.
LEMMA ArriveInv ==
  ASSUME Inv, NEW r \in Requests, Arrive(r)
  PROVE  Inv'
<1>1. PICK c \in Calls :
        /\ call' = [call EXCEPT ![r] = c]
        /\ earlier' = IF c.user \in Members THEN earlier \cup {r} ELSE earlier
        /\ at' = [at EXCEPT ![r] = IF c.kind \in {"accept", "decline"} THEN "find" ELSE "lookup"]
        /\ lookup' = [lookup EXCEPT ![r] =
             [key |-> IF c.kind = "inbox" THEN PendingKey(c.user) ELSE MemberKey(c.user),
              value |-> {}]]
  BY DEF Arrive, Goto, LookUp
<1>2. at[r] = "new" /\ UNCHANGED <<storeVars, cache, registry, cleared, faults>> /\ call[r] = None
  BY DEF Arrive, Inv, StoreInv, KindInv
<1>3. PICK k \in Keys : /\ k = IF c.kind = "inbox" THEN PendingKey(c.user) ELSE MemberKey(c.user)
                        /\ c.kind = "view" => k = MemberKey(c.user)
                        /\ k.of = "member" => k = MemberKey(c.user)
  BY DEF Calls, Keys, PendingKey, MemberKey
<1>4. TypeOK'
  <2>1. [key |-> k, value |-> {}] \in [key : Keys \cup {None}, value : Results]
    BY DEF Results
  <2>2. lookup' \in [Requests -> [key : Keys \cup {None}, value : Results]]
    BY <1>1, <1>3, <2>1 DEF Inv, TypeOK
  <2>3. at' \in [Requests -> Points] /\ call' \in [Requests -> Calls \cup {None}]
    BY <1>1 DEF Inv, TypeOK, Points, Running
  <2> QED
    BY <1>1, <1>2, <2>2, <2>3 DEF Inv, TypeOK, storeVars
<1>5. StoreInv'
  BY ArriveStore
<1>6. /\ at'[r] \in {"find", "lookup"} /\ lookup'[r] = [key |-> k, value |-> {}]
      /\ call'[r] = c /\ c # None /\ Members' = Members /\ UNCHANGED cache
      /\ \A q \in Requests \ {r} :
           at'[q] = at[q] /\ lookup'[q] = lookup[q] /\ call'[q] = call[q]
  BY <1>1, <1>2, <1>3, CallAssumption DEF Inv, TypeOK, Members, storeVars
<1>7. MembersAdmitted'
  BY <1>1, <1>6 DEF Inv, TypeOK, MembersAdmitted
<1>8. CacheInv'
  <2>1. \A u \in Users : cache'[MemberKey(u)] # None =>
          cache'[MemberKey(u)] # {} /\ u \in Members'
    BY <1>6 DEF Inv, CacheInv
  <2>2. \A q \in earlier' : call'[q] # None /\ call'[q].user \in Members'
    BY <1>1, <1>2, <1>6 DEF Inv, TypeOK, CacheInv
  <2>3. ASSUME NEW q \in Requests, at'[q] \in {"find", "lookup", "query", "store", "register"}
        PROVE  /\ lookup'[q].key \in Keys
               /\ Is(q, "view")' => lookup'[q].key = MemberKey(call'[q].user)
               /\ lookup'[q].key.of = "member" => lookup'[q].key = MemberKey(call'[q].user)
               /\ at'[q] \in {"store", "register"} /\ lookup'[q].key.of = "member" =>
                    lookup'[q].value # {} /\ lookup'[q].key.user \in Members'
    <3>1. CASE q = r
      BY <1>3, <1>6, <3>1 DEF Is
    <3>2. CASE q # r
      BY <1>6, <2>3, <3>2 DEF Inv, CacheInv, Is
    <3> QED
      BY <3>1, <3>2
  <2> QED
    BY <2>1, <2>2, <2>3 DEF CacheInv, MemberKey
<1> QED
  BY <1>4, <1>5, <1>7, <1>8 DEF Inv

\* The addressee of a pending invitation goes on.
LEMMA FindInv ==
  ASSUME Inv, NEW r \in Requests, Find(r)
  PROVE  Inv'
<1>1. PICK p \in {"refused", "lookup", "mark"} :
        /\ at[r] = "find" /\ at' = [at EXCEPT ![r] = p]
        /\ p # "refused" => /\ invitation[call[r].target].to = call[r].user
                            /\ p = IF call[r].kind = "accept" THEN "lookup" ELSE "mark"
  BY DEF Find, Goto
<1>2. UNCHANGED <<storeVars, cacheVars, callVars, faults>>
  BY DEF Find
<1>3. p \in Points /\ Move(r, p)
  BY <1>1 DEF Points, Running, Answers, Move, Inv, StoreInv, KindInv, Is
<1>4. TypeOK'
  BY <1>1, <1>2, <1>3 DEF Inv, TypeOK, storeVars, cacheVars, callVars
<1>5. StoreInv'
  BY <1>1, <1>2, <1>3, MoveStore DEF callVars
<1>6. ~ Is(r, "view")
  BY <1>1 DEF Inv, StoreInv, KindInv, Is
<1>7. CacheInv' /\ MembersAdmitted'
  <2>1. /\ at'[r] = p /\ lookup'[r] = lookup[r] /\ Members' = Members
        /\ \A q \in Requests \ {r} : at'[q] = at[q] /\ lookup'[q] = lookup[q]
        /\ UNCHANGED <<call, earlier, cache>>
    BY <1>1, <1>2 DEF Inv, TypeOK, Members, storeVars, cacheVars, callVars
  <2>2. cache' = cache
    BY <2>1
  <2> QED
    BY <1>1, <1>6, <2>1, <2>2, CacheKept
<1> QED
  BY <1>4, <1>5, <1>7 DEF Inv

\* What the request of r looks up, while it does.
LEMMA LookupFacts ==
  ASSUME Inv, NEW r \in Requests, at[r] \in LookingUp
  PROVE  /\ lookup[r].key \in Keys /\ call[r] # None /\ call[r].user \in Users
         /\ lookup[r].value \in Results
         /\ Is(r, "view") => lookup[r].key = MemberKey(call[r].user)
         /\ lookup[r].key.of = "member" => /\ lookup[r].key = MemberKey(call[r].user)
                                           /\ lookup[r].key.user = call[r].user
<1>1. call[r] # None
  BY DEF Inv, StoreInv, KindInv, LookingUp
<1> QED
  BY <1>1, CallFacts DEF Inv, TypeOK, CacheInv, LookingUp, MemberKey

\* A step to p within a lookup.
LEMMA LookInv ==
  ASSUME Inv, NEW r \in Requests, at[r] \in LookingUp, NEW p \in {"query", "store", "register"},
         at' = [at EXCEPT ![r] = p],
         lookup' \in [Requests -> [key : Keys \cup {None}, value : Results]],
         \A q \in Requests \ {r} : lookup'[q] = lookup[q],
         lookup'[r].key = lookup[r].key,
         p \in {"store", "register"} /\ lookup[r].key.of = "member" =>
           lookup'[r].value # {} /\ call[r].user \in Members,
         cache' \in [Keys -> Results \cup {None}],
         \A u \in Users : cache'[MemberKey(u)] # None =>
           cache'[MemberKey(u)] # {} /\ u \in Members,
         UNCHANGED <<storeVars, registry, cleared, callVars, faults>>
  PROVE  Inv'
<1>1. p \in Points /\ Move(r, p)
  BY DEF Points, Running, Move, LookingUp
<1>2. TypeOK'
  BY <1>1 DEF Inv, TypeOK, storeVars, callVars
<1>3. StoreInv'
  BY <1>1, MoveStore DEF callVars
<1>4. /\ at'[r] = p /\ Members' = Members /\ UNCHANGED <<call, earlier>>
      /\ \A q \in Requests \ {r} : at'[q] = at[q]
  BY DEF Inv, TypeOK, Members, storeVars, callVars
<1>5. MembersAdmitted'
  BY <1>4 DEF Inv, TypeOK, MembersAdmitted
<1>6. CacheInv'
  <2>1. \A q \in earlier' : call'[q] # None /\ call'[q].user \in Members'
    BY <1>4 DEF Inv, CacheInv
  <2>2. ASSUME NEW q \in Requests, at'[q] \in {"find", "lookup", "query", "store", "register"}
        PROVE  /\ lookup'[q].key \in Keys
               /\ Is(q, "view")' => lookup'[q].key = MemberKey(call'[q].user)
               /\ lookup'[q].key.of = "member" => lookup'[q].key = MemberKey(call'[q].user)
               /\ at'[q] \in {"store", "register"} /\ lookup'[q].key.of = "member" =>
                    lookup'[q].value # {} /\ lookup'[q].key.user \in Members'
    <3>1. CASE q = r
      BY <1>4, <3>1, LookupFacts DEF Is
    <3>2. CASE q # r
      BY <1>4, <2>2, <3>2 DEF Inv, CacheInv, Is
    <3> QED
      BY <3>1, <3>2
  <2> QED
    BY <1>4, <2>1, <2>2 DEF CacheInv, MemberKey
<1> QED
  BY <1>2, <1>3, <1>5, <1>6 DEF Inv

\* A cached membership is one.
LEMMA GetCachedInv ==
  ASSUME Inv, NEW r \in Requests, GetCached(r)
  PROVE  Inv'
<1>1. /\ at[r] = "lookup" /\ at[r] \in LookingUp
      /\ UNCHANGED <<storeVars, cache, registry, cleared, callVars, faults>>
      /\ registry' \in [Processes -> SUBSET Keys]
  BY DEF GetCached, LookingUp, Inv, TypeOK
<1>2. CASE cache[lookup[r].key] = None
  <2>1. at' = [at EXCEPT ![r] = "query"] /\ lookup' = lookup /\ cache' = cache
    BY <1>1, <1>2 DEF GetCached, Goto
  <2>2. /\ lookup' \in [Requests -> [key : Keys \cup {None}, value : Results]]
        /\ cache' \in [Keys -> Results \cup {None}]
        /\ \A u \in Users : cache'[MemberKey(u)] # None =>
             cache'[MemberKey(u)] # {} /\ u \in Members
    BY <2>1 DEF Inv, TypeOK, CacheInv
  <2> QED
    BY <1>1, <2>1, <2>2, LookInv
<1>3. CASE cache[lookup[r].key] # None
  <2>1. Found(r, cache[lookup[r].key])
    BY <1>3 DEF GetCached
  <2>2. lookup[r].key.of = "member" => cache[lookup[r].key] # {}
    BY <1>1, <1>3, LookupFacts DEF Inv, CacheInv
  <2> QED
    BY <1>1, <2>1, <2>2, FoundInv
<1> QED
  BY <1>2, <1>3

\* A query sees the members there are.
LEMMA QueryInv ==
  ASSUME Inv, NEW r \in Requests, Query(r)
  PROVE  Inv'
<1>1. /\ at[r] \in LookingUp
      /\ UNCHANGED <<storeVars, cache, registry, cleared, callVars, faults>>
      /\ registry' \in [Processes -> SUBSET Keys]
  BY DEF Query, LookingUp, Inv, TypeOK
<1>2. /\ lookup[r].key \in Keys /\ Stored(lookup[r].key) \in Results
      /\ lookup[r].key.of = "member" => (Stored(lookup[r].key) # {} <=> call[r].user \in Members)
  BY <1>1, LookupFacts, StoredFacts DEF Inv
<1>3. CASE Cacheable(lookup[r].key, Stored(lookup[r].key))
  <2>1. /\ at' = [at EXCEPT ![r] = "store"] /\ cache' = cache
        /\ lookup' = [lookup EXCEPT ![r].value = Stored(lookup[r].key)]
    BY <1>1, <1>3 DEF Query, Goto
  <2>2. /\ lookup' \in [Requests -> [key : Keys \cup {None}, value : Results]]
        /\ \A q \in Requests \ {r} : lookup'[q] = lookup[q]
        /\ lookup'[r].key = lookup[r].key /\ lookup'[r].value = Stored(lookup[r].key)
    BY <1>2, <2>1 DEF Inv, TypeOK
  <2>3. /\ cache' \in [Keys -> Results \cup {None}]
        /\ \A u \in Users : cache'[MemberKey(u)] # None =>
             cache'[MemberKey(u)] # {} /\ u \in Members
    BY <2>1 DEF Inv, TypeOK, CacheInv
  <2>4. lookup[r].key.of = "member" => Stored(lookup[r].key) # {}
    BY <1>3 DEF Cacheable
  <2> QED
    BY <1>1, <1>2, <2>1, <2>2, <2>3, <2>4, LookInv
<1>4. CASE ~ Cacheable(lookup[r].key, Stored(lookup[r].key))
  <2>1. Found(r, Stored(lookup[r].key))
    BY <1>4 DEF Query
  <2> QED
    BY <1>1, <1>2, <2>1, FoundInv
<1> QED
  BY <1>3, <1>4

\* What is cached was found, and no membership ends.
LEMMA StoreCachedInv ==
  ASSUME Inv, NEW r \in Requests, StoreCached(r)
  PROVE  Inv'
<1>1. /\ at[r] = "store" /\ at[r] \in LookingUp /\ at' = [at EXCEPT ![r] = "register"]
      /\ cache' = [cache EXCEPT ![lookup[r].key] = lookup[r].value] /\ lookup' = lookup
      /\ UNCHANGED <<storeVars, registry, cleared, callVars, faults>>
  BY DEF StoreCached, LookingUp, Goto
<1>2. lookup[r].key.of = "member" => lookup[r].value # {} /\ call[r].user \in Members
  BY <1>1, LookupFacts DEF Inv, CacheInv
<1>3. cache' \in [Keys -> Results \cup {None}]
      /\ lookup' \in [Requests -> [key : Keys \cup {None}, value : Results]]
  BY <1>1, LookupFacts DEF Inv, TypeOK
<1>4. ASSUME NEW u \in Users, cache'[MemberKey(u)] # None
      PROVE  cache'[MemberKey(u)] # {} /\ u \in Members
  <2>1. MemberKey(u) \in Keys
    BY DEF MemberKey, Keys
  <2>2. CASE MemberKey(u) = lookup[r].key
    <3>1. cache'[MemberKey(u)] = lookup[r].value
      BY <1>1, <2>1, <2>2 DEF Inv, TypeOK
    <3>2. lookup[r].key.of = "member" /\ lookup[r].key.user = u
      BY <2>2 DEF MemberKey
    <3> QED
      BY <1>1, <1>2, <3>1, <3>2, LookupFacts
  <2>3. CASE MemberKey(u) # lookup[r].key
    <3>1. cache'[MemberKey(u)] = cache[MemberKey(u)]
      BY <1>1, <2>1, <2>3 DEF Inv, TypeOK
    <3> QED
      BY <1>4, <3>1 DEF Inv, CacheInv
  <2> QED
    BY <2>2, <2>3
<1> QED
  BY <1>1, <1>2, <1>3, <1>4, LookInv

\* A process learns a key.
LEMMA RegisterKeyInv ==
  ASSUME Inv, NEW r \in Requests, RegisterKey(r)
  PROVE  Inv'
<1>1. /\ at[r] = "register" /\ at[r] \in LookingUp /\ Found(r, lookup[r].value)
      /\ registry' = [registry EXCEPT ![call[r].process] = @ \cup {lookup[r].key}]
      /\ UNCHANGED <<storeVars, cache, cleared, callVars, faults>>
  BY DEF RegisterKey, LookingUp
<1>2. registry' \in [Processes -> SUBSET Keys]
  BY <1>1, LookupFacts DEF Inv, TypeOK
<1>3. lookup[r].key.of = "member" => lookup[r].value # {}
  BY <1>1 DEF Inv, CacheInv
<1> QED
  BY <1>1, <1>2, <1>3, FoundInv

\* A step of r that ends it, or that leads to a write, keeps what is said of the cache.
LEMMA StepCache ==
  ASSUME Inv, NEW r \in Requests, NEW p \in Points \ ({"find"} \cup LookingUp),
         at' = [at EXCEPT ![r] = p], p = "refused" => ~ Is(r, "view"),
         \A q \in Requests \ {r} : lookup'[q] = lookup[q],
         \A u \in Users : cache'[MemberKey(u)] \in {None, cache[MemberKey(u)]},
         Members \subseteq Members', UNCHANGED <<call, earlier>>
  PROVE  CacheInv' /\ MembersAdmitted'
<1>1. at'[r] = p /\ \A q \in Requests \ {r} : at'[q] = at[q] /\ lookup'[q] = lookup[q]
  BY DEF Inv, TypeOK
<1>2. at'[r] \notin {"find", "lookup", "query", "store", "register"}
  BY <1>1 DEF LookingUp
<1> QED
  BY <1>1, <1>2, CacheKept

\* A key leaves the cache.
LEMMA ForgetCached ==
  ASSUME TypeOK, NEW k \in Keys, cache' = [cache EXCEPT ![k] = None]
  PROVE  /\ cache' \in [Keys -> Results \cup {None}]
         /\ \A u \in Users : cache'[MemberKey(u)] \in {None, cache[MemberKey(u)]}
<1>1. \A u \in Users : MemberKey(u) \in Keys
  BY DEF MemberKey, Keys
<1> QED
  BY <1>1 DEF TypeOK

\* The keys that a process knows are keys.
LEMMA KnownFacts ==
  ASSUME Inv, NEW r \in Requests, at[r] \in {"clearMembers", "clearInvitations"}
  PROVE  /\ call[r] # None /\ call[r].kind \in Kinds /\ call[r].process \in Processes
         /\ KnownKeys(r) \subseteq Keys
<1>1. call[r] # None
  BY DEF Inv, StoreInv, KindInv
<1> QED
  BY <1>1, CallFacts DEF Inv, TypeOK, KnownKeys

\* Deleting a cached key.
LEMMA ClearKeyInv ==
  ASSUME Inv, NEW r \in Requests, ClearKey(r)
  PROVE  Inv'
<1>1. at[r] \in {"clearMembers", "clearInvitations"}
  BY DEF ClearKey
<1>2. PICK k \in KnownKeys(r) : /\ cache' = [cache EXCEPT ![k] = None]
                               /\ cleared' = [cleared EXCEPT ![r] = @ \cup {k}]
  BY DEF ClearKey
<1>3. k \in Keys
  BY <1>1, KnownFacts
<1>4. UNCHANGED <<storeVars, registry, lookup, callVars, at, faults>>
  BY DEF ClearKey
<1>5. TypeOK'
  <2>1. cache' \in [Keys -> Results \cup {None}] /\ cleared' \in [Requests -> SUBSET Keys]
    BY <1>2, <1>3, ForgetCached DEF Inv, TypeOK
  <2> QED
    BY <1>4, <2>1 DEF Inv, TypeOK, storeVars, callVars
<1>6. StoreInv'
  BY <1>4 DEF Inv, StoreInv, KindInv, InvitationInv, AddresseeInv, TransactionInv, MemberInv,
              AcceptedInv, InTransaction, Status, Is, storeVars, callVars
<1>7. CacheInv' /\ MembersAdmitted'
  <2>1. Members' = Members /\ UNCHANGED <<call, earlier, at, lookup>>
    BY <1>4 DEF Members, storeVars, callVars
  <2>2. \A u \in Users : cache'[MemberKey(u)] \in {None, cache[MemberKey(u)]}
    BY <1>2, <1>3, ForgetCached DEF Inv
  <2> QED
    BY <2>1, <2>2, CacheKept
<1> QED
  BY <1>5, <1>6, <1>7 DEF Inv

\* After the last key.
LEMMA ForgetKeysInv ==
  ASSUME Inv, NEW r \in Requests, ForgetKeys(r)
  PROVE  Inv'
<1>1. /\ at[r] \in {"clearMembers", "clearInvitations"}
      /\ registry' = [registry EXCEPT ![call[r].process] = @ \ KnownKeys(r)]
      /\ cleared' = [cleared EXCEPT ![r] = {}]
      /\ UNCHANGED <<storeVars, cache, lookup, callVars, faults>>
  BY DEF ForgetKeys
<1>2. PICK p \in {"mail", "mark", "commit", "audit"} :
        p = AfterClear(r) /\ at' = [at EXCEPT ![r] = p]
  BY DEF ForgetKeys, Goto, AfterClear
<1>3. p \in Points \ ({"find"} \cup LookingUp) /\ p # "refused"
  BY DEF Points, Running, LookingUp
<1>4. Move(r, p)
  BY <1>1, <1>2, KnownFacts DEF AfterClear, Move, Inv, StoreInv, KindInv, Is, Kinds
<1>5. TypeOK'
  BY <1>1, <1>2, <1>3, KnownFacts DEF Inv, TypeOK, storeVars, callVars
<1>6. StoreInv'
  BY <1>1, <1>2, <1>3, <1>4, MoveStore DEF callVars
<1>7. CacheInv' /\ MembersAdmitted'
  <2>1. /\ UNCHANGED <<call, earlier, cache, lookup>> /\ Members' = Members
    BY <1>1 DEF Members, storeVars, callVars
  <2> QED
    BY <1>2, <1>3, <2>1, StepCache
<1> QED
  BY <1>5, <1>6, <1>7 DEF Inv

\* A new invitation.
LEMMA InsertInvitationInv ==
  ASSUME Inv, NEW r \in Requests, InsertInvitation(r)
  PROVE  Inv'
<1>1. /\ at[r] = "insert" /\ at' = [at EXCEPT ![r] = "clearInvitations"]
      /\ UNCHANGED <<origin, mailed, audited, inserting, marked, snapshot, cacheVars,
                     callVars, faults>>
  BY DEF InsertInvitation, Goto
<1>2. invitation' = [invitation EXCEPT ![r] = [to |-> call[r].user, status |-> "PENDING",
                                              expired |-> FALSE]]
  BY DEF InsertInvitation
<1>3. TypeOK'
  BY <1>1, <1>2, InsertType DEF Inv, TypeOK, cacheVars, callVars, Points, Running
<1>4. StoreInv'
  BY <1>1, <1>2, InsertStore DEF callVars
<1>5. CacheInv' /\ MembersAdmitted'
  <2>1. /\ UNCHANGED <<call, earlier, cache, lookup>> /\ Members' = Members
        /\ "clearInvitations" \in Points \ ({"find"} \cup LookingUp)
    BY <1>1 DEF Members, cacheVars, callVars, Points, Running, LookingUp
  <2> QED
    BY <1>1, <2>1, StepCache
<1> QED
  BY <1>3, <1>4, <1>5 DEF Inv

\* A mail.
LEMMA MailInv ==
  ASSUME Inv, NEW r \in Requests, Mail(r)
  PROVE  Inv'
<1>1. /\ at[r] = "mail" /\ at' = [at EXCEPT ![r] = "audit"] /\ mailed' = mailed \cup {r}
      /\ UNCHANGED <<invitation, origin, audited, inserting, marked, snapshot, cacheVars,
                     callVars, faults>>
  BY DEF Mail, Goto
<1>3. TypeOK'
  BY <1>1 DEF Inv, TypeOK, cacheVars, callVars, Points, Running, Invitations
<1>4. StoreInv'
  BY <1>1, MailStore DEF callVars
<1>5. CacheInv' /\ MembersAdmitted'
  <2>1. /\ UNCHANGED <<call, earlier, cache, lookup>> /\ Members' = Members
        /\ "audit" \in Points \ ({"find"} \cup LookingUp)
    BY <1>1 DEF Members, cacheVars, callVars, Points, Running, LookingUp
  <2> QED
    BY <1>1, <2>1, StepCache
<1> QED
  BY <1>3, <1>4, <1>5 DEF Inv

\* An audit record.
LEMMA AuditInv ==
  ASSUME Inv, NEW r \in Requests, Audit(r)
  PROVE  Inv'
<1>1. /\ at[r] = "audit" /\ at' = [at EXCEPT ![r] = "ok"] /\ audited' = audited \cup {r}
      /\ UNCHANGED <<invitation, origin, mailed, inserting, marked, snapshot, cacheVars,
                     callVars, faults>>
  BY DEF Audit, Goto
<1>3. TypeOK'
  BY <1>1 DEF Inv, TypeOK, cacheVars, callVars, Points, Answers
<1>4. StoreInv'
  BY <1>1, AuditStore DEF callVars
<1>5. CacheInv' /\ MembersAdmitted'
  <2>1. /\ UNCHANGED <<call, earlier, cache, lookup>> /\ Members' = Members
        /\ "ok" \in Points \ ({"find"} \cup LookingUp)
    BY <1>1 DEF Members, cacheVars, callVars, Points, Answers, LookingUp
  <2> QED
    BY <1>1, <2>1, StepCache
<1> QED
  BY <1>3, <1>4, <1>5 DEF Inv

\* The first write of an acceptance, or an addition.
LEMMA JoinInv ==
  ASSUME Inv, NEW r \in Requests, Join(r)
  PROVE  Inv'
<1>1. /\ at[r] = "join" /\ (Is(r, "accept") \/ Is(r, "add"))
      /\ call[r].user \in Users /\ r # None
      /\ UNCHANGED <<invitation, mailed, audited, marked, cacheVars, callVars, faults>>
  BY CallFacts, InvitationAssumption DEF Join, Inv, StoreInv, KindInv, Is
<1>2. CASE call[r].user \in Members
  <2>1. at' = [at EXCEPT ![r] = "refused"] /\ UNCHANGED <<origin, inserting, snapshot>>
    BY <1>1, <1>2 DEF Join, Goto
  <2>2. TypeOK'
    BY <1>1, <2>1 DEF Inv, TypeOK, cacheVars, callVars, Points, Answers
  <2>3. StoreInv'
    BY <1>1, <2>1, MoveStore DEF Move, Points, Answers, storeVars, callVars
  <2>4. CacheInv' /\ MembersAdmitted'
    <3>1. /\ UNCHANGED <<call, earlier, cache, lookup>> /\ Members' = Members
          /\ "refused" \in Points \ ({"find"} \cup LookingUp) /\ ~ Is(r, "view")
      BY <1>1, <2>1 DEF Members, cacheVars, callVars, Points, Answers, LookingUp, Is
    <3> QED
      BY <2>1, <3>1, StepCache
  <2> QED
    BY <2>2, <2>3, <2>4 DEF Inv
<1>3. CASE call[r].user \notin Members
  <2>1. /\ at' = [at EXCEPT ![r] = "clearMembers"]
        /\ inserting[call[r].user] = None /\ origin[call[r].user] = None
    BY <1>1, <1>3 DEF Join, Goto, Members
  <2>2. CASE Is(r, "add")
    <3>1. origin' = [origin EXCEPT ![call[r].user] = r] /\ UNCHANGED <<inserting, snapshot>>
      BY <1>1, <1>3, <2>2 DEF Join, Is
    <3>2. TypeOK'
      BY <1>1, <2>1, <3>1 DEF Inv, TypeOK, cacheVars, callVars, Points, Running
    <3>3. StoreInv'
      BY <1>1, <2>1, <2>2, <3>1, AddStore DEF callVars
    <3>4. Members \subseteq Members'
      BY <1>1, <3>1 DEF Members, Inv, TypeOK
    <3>5. CacheInv' /\ MembersAdmitted'
      <4>1. /\ UNCHANGED <<call, earlier, cache, lookup>>
            /\ "clearMembers" \in Points \ ({"find"} \cup LookingUp)
        BY <1>1 DEF cacheVars, callVars, Points, Running, LookingUp
      <4> QED
        BY <2>1, <3>4, <4>1, StepCache
    <3> QED
      BY <3>2, <3>3, <3>5 DEF Inv
  <2>3. CASE Is(r, "accept")
    <3>1. /\ inserting' = [inserting EXCEPT ![call[r].user] = r] /\ UNCHANGED origin
          /\ snapshot' = [snapshot EXCEPT ![r] = Status(r)]
      BY <1>1, <1>3, <2>3 DEF Join, Is, Status
    <3>2. Status(r) \in Statuses
      <4>1. call[r].target \in Invitations
        BY <2>3, CallFacts DEF Inv, StoreInv, KindInv, TypeOK, Is
      <4> QED
        BY <4>1 DEF Status, Inv, TypeOK
    <3>3. TypeOK'
      BY <1>1, <2>1, <3>1, <3>2 DEF Inv, TypeOK, cacheVars, callVars, Points, Running
    <3>4. StoreInv'
      BY <1>1, <2>1, <2>3, <3>1, BeginStore DEF callVars
    <3>5. CacheInv' /\ MembersAdmitted'
      <4>1. /\ UNCHANGED <<call, earlier, cache, lookup>> /\ Members' = Members
            /\ "clearMembers" \in Points \ ({"find"} \cup LookingUp)
        BY <1>1, <3>1 DEF Members, cacheVars, callVars, Points, Running, LookingUp
      <4> QED
        BY <2>1, <4>1, StepCache
    <3> QED
      BY <3>3, <3>4, <3>5 DEF Inv
  <2> QED
    BY <1>1, <2>2, <2>3
<1> QED
  BY <1>2, <1>3

\* A transaction that ends or is repeated leaves what it has written well typed.
LEMMA ReleaseType ==
  ASSUME TypeOK, NEW r \in Requests, Release(r)
  PROVE  /\ inserting' \in [Users -> Requests \cup {None}] /\ marked' \subseteq Requests
         /\ snapshot' \in [Requests -> Statuses]
  BY DEF TypeOK, Release, Statuses

\* The callback of a transaction starts again.
LEMMA RepeatInv ==
  ASSUME Inv, NEW r \in Requests, at[r] \in {"mark", "commit"}, Is(r, "accept"),
         Release(r), at' = [at EXCEPT ![r] = "join"], faults' \in 0 .. MaxFaults,
         UNCHANGED <<invitation, origin, mailed, audited, cacheVars, callVars>>
  PROVE  Inv'
<1>1. TypeOK'
  BY ReleaseType DEF Inv, TypeOK, cacheVars, callVars, Points, Running
<1>2. StoreInv'
  BY AbortStore DEF Release, callVars
<1>3. CacheInv' /\ MembersAdmitted'
  <2>1. /\ UNCHANGED <<call, earlier, cache, lookup>> /\ Members' = Members
        /\ "join" \in Points \ ({"find"} \cup LookingUp)
    BY DEF Members, cacheVars, callVars, Points, Running, LookingUp
  <2> QED
    BY <2>1, StepCache
<1> QED
  BY <1>1, <1>2, <1>3 DEF Inv

\* The status is written in the transaction, or its callback is repeated.
LEMMA MarkAcceptedInv ==
  ASSUME Inv, NEW r \in Requests, MarkAccepted(r)
  PROVE  Inv'
<1>1. /\ at[r] = "mark" /\ Is(r, "accept")
      /\ UNCHANGED <<invitation, origin, mailed, audited, cacheVars, callVars, faults>>
      /\ faults' \in 0 .. MaxFaults
  BY DEF MarkAccepted, Inv, TypeOK, StoreInv, KindInv, Is
<1>2. CASE snapshot[r] = "PENDING" /\ Status(r) # "PENDING"
  <2>1. Release(r) /\ at' = [at EXCEPT ![r] = "join"]
    BY <1>2 DEF MarkAccepted, Status, Goto
  <2> QED
    BY <1>1, <2>1, RepeatInv
<1>3. CASE snapshot[r] = "PENDING" => Status(r) = "PENDING"
  <2>1. /\ marked' = IF snapshot[r] = "PENDING" THEN marked \cup {r} ELSE marked
        /\ at' = [at EXCEPT ![r] = "clearInvitations"] /\ UNCHANGED <<inserting, snapshot>>
    BY <1>3 DEF MarkAccepted, Status, Goto
  <2>2. TypeOK'
    BY <1>1, <2>1 DEF Inv, TypeOK, cacheVars, callVars, Points, Running
  <2>3. StoreInv'
    BY <1>1, <1>3, <2>1, MarkStore DEF callVars
  <2>4. CacheInv' /\ MembersAdmitted'
    <3>1. /\ UNCHANGED <<call, earlier, cache, lookup>> /\ Members' = Members
          /\ "clearInvitations" \in Points \ ({"find"} \cup LookingUp)
      BY <1>1 DEF Members, cacheVars, callVars, Points, Running, LookingUp
    <3> QED
      BY <2>1, <3>1, StepCache
  <2> QED
    BY <2>2, <2>3, <2>4 DEF Inv
<1> QED
  BY <1>2, <1>3

\* A decline.
LEMMA MarkDeclinedInv ==
  ASSUME Inv, NEW r \in Requests, MarkDeclined(r)
  PROVE  Inv'
<1>1. /\ at[r] = "mark" /\ Is(r, "decline") /\ Decline(r)
      /\ at' = [at EXCEPT ![r] = "clearInvitations"]
      /\ UNCHANGED <<origin, mailed, audited, inserting, marked, snapshot>>
      /\ UNCHANGED <<cacheVars, callVars, faults>>
  BY DEF MarkDeclined, Decline, Goto, Inv, StoreInv, KindInv, Is
<1>2. TypeOK'
  BY <1>1, DeclineType DEF Inv, TypeOK, cacheVars, callVars, Points, Running
<1>3. StoreInv'
  BY <1>1, DeclineStore DEF callVars
<1>4. CacheInv' /\ MembersAdmitted'
  <2>1. /\ UNCHANGED <<call, earlier, cache, lookup>> /\ Members' = Members
        /\ "clearInvitations" \in Points \ ({"find"} \cup LookingUp)
    BY <1>1 DEF Members, cacheVars, callVars, Points, Running, LookingUp
  <2> QED
    BY <1>1, <2>1, StepCache
<1> QED
  BY <1>2, <1>3, <1>4 DEF Inv

\* A commit.
LEMMA CommitInv ==
  ASSUME Inv, NEW r \in Requests, Commit(r)
  PROVE  Inv'
<1>1. /\ at[r] = "commit" /\ Is(r, "accept") /\ CommitTransaction(r)
      /\ at' = [at EXCEPT ![r] = "ok"]
      /\ UNCHANGED <<cacheVars, callVars, faults>>
  BY DEF Commit, Goto, Inv, StoreInv, KindInv, Is
<1>2. TypeOK'
  BY <1>1, CommitType DEF Inv, TypeOK, cacheVars, callVars, Points, Answers
<1>3. StoreInv'
  BY <1>1, CommitStore DEF callVars
<1>4. CacheInv' /\ MembersAdmitted'
  <2>1. /\ UNCHANGED <<call, earlier, cache, lookup>> /\ Members \subseteq Members'
        /\ "ok" \in Points \ ({"find"} \cup LookingUp)
    BY <1>1, CommitType DEF cacheVars, callVars, Points, Answers, LookingUp
  <2> QED
    BY <1>1, <2>1, StepCache
<1> QED
  BY <1>2, <1>3, <1>4 DEF Inv

\* An invitation expires.
LEMMA InvitationExpiresInv ==
  ASSUME Inv, NEW i \in Invitations, InvitationExpires(i)
  PROVE  Inv'
<1>1. /\ invitation' = [invitation EXCEPT ![i].expired = TRUE]
      /\ UNCHANGED <<origin, mailed, audited, inserting, marked, snapshot, cacheVars,
                     callVars, at, faults>>
  BY DEF InvitationExpires
<1>2. TypeOK'
  <2>1. [invitation[i] EXCEPT !.expired = TRUE]
          \in [to : Users \cup {None}, status : Statuses, expired : BOOLEAN]
    <3>1. invitation[i] \in [to : Users \cup {None}, status : Statuses, expired : BOOLEAN]
      BY DEF Inv, TypeOK
    <3> QED
      BY <3>1
  <2>2. invitation' \in [Invitations -> [to : Users \cup {None}, status : Statuses,
                                         expired : BOOLEAN]]
    BY <1>1, <2>1 DEF Inv, TypeOK
  <2> QED
    BY <1>1, <2>2 DEF Inv, TypeOK, cacheVars, callVars
<1>3. StoreInv'
  BY <1>1, ExpireStore DEF callVars
<1>4. CacheInv' /\ MembersAdmitted'
  <2>1. UNCHANGED <<call, earlier, cache, lookup, at>> /\ Members' = Members
    BY <1>1 DEF Members, cacheVars, callVars
  <2> QED
    BY <2>1, CacheKept
<1> QED
  BY <1>2, <1>3, <1>4 DEF Inv

\* A cached result expires.
LEMMA CacheExpiresInv ==
  ASSUME Inv, NEW k \in Keys, CacheExpires(k)
  PROVE  Inv'
<1>1. /\ cache' = [cache EXCEPT ![k] = None]
      /\ UNCHANGED <<storeVars, registry, lookup, cleared, callVars, at, faults>>
  BY DEF CacheExpires
<1>2. TypeOK'
  BY <1>1, ForgetCached DEF Inv, TypeOK, storeVars, callVars
<1>3. StoreInv'
  BY <1>1 DEF Inv, StoreInv, KindInv, InvitationInv, AddresseeInv, TransactionInv, MemberInv,
              AcceptedInv, InTransaction, Status, Is, storeVars, callVars
<1>4. CacheInv' /\ MembersAdmitted'
  <2>1. Members' = Members /\ UNCHANGED <<call, earlier, at, lookup>>
    BY <1>1 DEF Members, storeVars, callVars
  <2>2. \A u \in Users : cache'[MemberKey(u)] \in {None, cache[MemberKey(u)]}
    BY <1>1, ForgetCached DEF Inv
  <2> QED
    BY <2>1, <2>2, CacheKept
<1> QED
  BY <1>2, <1>3, <1>4 DEF Inv

-------------------------------------------------------------------------------
(* The failures                                                            *)

\* The number of faults stays within its bound.
LEMMA FaultType ==
  ASSUME TypeOK, Fault
  PROVE  faults' \in 0 .. MaxFaults
  BY InvitationAssumption DEF TypeOK, Fault

\* Requests that fail have an answer.
LEMMA FailType ==
  ASSUME TypeOK, NEW S \in SUBSET Requests, Fail(S)
  PROVE  /\ at' \in [Requests -> Points]
         /\ lookup' \in [Requests -> [key : Keys \cup {None}, value : Results]]
         /\ cleared' \in [Requests -> SUBSET Keys]
<1>1. [key |-> None, value |-> {}] \in [key : Keys \cup {None}, value : Results]
  BY DEF Results
<1>2. "error" \in Points
  BY DEF Points, Answers
<1> QED
  BY <1>1, <1>2 DEF TypeOK, Fail

\* Requests that fail are no longer refused anything.
LEMMA FailCache ==
  ASSUME Inv, NEW S \in SUBSET Requests, Fail(S), Members \subseteq Members',
         UNCHANGED <<cache, call, earlier>>
  PROVE  CacheInv' /\ MembersAdmitted'
<1>1. \A q \in Requests : \/ at'[q] = at[q] /\ lookup'[q] = lookup[q]
                         \/ at'[q] = "error"
  BY DEF Fail
<1> QED
  BY <1>1, CacheKept

\* One request that fails.
LEMMA FailOne ==
  ASSUME TypeOK, NEW r \in Requests, Fail({r})
  PROVE  at' = [at EXCEPT ![r] = "error"]
  BY DEF Fail, TypeOK

\* The commit fails.
LEMMA AbortInv ==
  ASSUME Inv, NEW r \in Requests, Abort(r)
  PROVE  Inv'
<1>1. at[r] = "commit" /\ Is(r, "accept") /\ Release(r) /\ at' = [at EXCEPT ![r] = "join"]
      /\ UNCHANGED <<invitation, origin, mailed, audited, cacheVars, callVars>>
  BY DEF Abort, Goto, Inv, StoreInv, KindInv, Is
<1>2. faults' \in 0 .. MaxFaults
  BY FaultType DEF Abort, Inv
<1> QED
  BY <1>1, <1>2, RepeatInv

\* A call rejects, and the transaction is gone.
LEMMA CallRejectedInv ==
  ASSUME Inv, NEW r \in Requests, CallRejected(r)
  PROVE  Inv'
<1>1. /\ at[r] \in Running /\ Release(r) /\ Fail({r}) /\ Fault
      /\ UNCHANGED <<invitation, origin, mailed, audited, cache, registry, callVars>>
  BY DEF CallRejected
<1>2. TypeOK'
  <2>1. faults' \in 0 .. MaxFaults
    BY <1>1, FaultType DEF Inv
  <2>2. /\ at' \in [Requests -> Points]
        /\ lookup' \in [Requests -> [key : Keys \cup {None}, value : Results]]
        /\ cleared' \in [Requests -> SUBSET Keys]
    BY <1>1, FailType DEF Inv
  <2>3. /\ inserting' \in [Users -> Requests \cup {None}] /\ marked' \subseteq Requests
        /\ snapshot' \in [Requests -> Statuses]
    BY <1>1, ReleaseType DEF Inv
  <2> QED
    BY <1>1, <2>1, <2>2, <2>3 DEF Inv, TypeOK, callVars
<1>3. StoreInv'
  <2>1. /\ inserting' = [u \in Users |-> IF inserting[u] \in {r} THEN None ELSE inserting[u]]
        /\ marked' = marked \ {r} /\ \A q \in Requests \ {r} : snapshot'[q] = snapshot[q]
        /\ at' = [q \in Requests |-> IF q \in {r} THEN "error" ELSE at[q]]
        /\ UNCHANGED <<invitation, origin, mailed, audited, call>>
    BY <1>1 DEF Release, Fail, callVars, Inv, TypeOK
  <2>2. {r} \in SUBSET Requests /\ \A q \in {r} : at[q] \in Running
    BY <1>1
  <2> QED
    BY <2>1, <2>2, FailStore
<1>4. CacheInv' /\ MembersAdmitted'
  <2>1. Members' = Members /\ UNCHANGED <<cache, call, earlier>>
    BY <1>1 DEF Members, callVars
  <2> QED
    BY <1>1, <2>1, FailCache
<1> QED
  BY <1>2, <1>3, <1>4 DEF Inv

\* A write is executed, and its answer is lost.
LEMMA AnswerLostInv ==
  ASSUME Inv, NEW r \in Requests, AnswerLost(r)
  PROVE  Inv'
<1>1. /\ Fail({r}) /\ UNCHANGED <<cache, registry, callVars>>
      /\ at' = [at EXCEPT ![r] = "error"] /\ faults' \in 0 .. MaxFaults
  BY FailOne, FaultType DEF AnswerLost, Inv
<1>2. /\ at' \in [Requests -> Points]
      /\ lookup' \in [Requests -> [key : Keys \cup {None}, value : Results]]
      /\ cleared' \in [Requests -> SUBSET Keys]
  BY <1>1, FailType DEF Inv
<1>3. CASE at[r] = "commit" /\ CommitTransaction(r)
  <2>1. Is(r, "accept")
    BY <1>3 DEF Inv, StoreInv, KindInv
  <2>2. TypeOK'
    BY <1>1, <1>2, <1>3, <2>1, CommitType DEF Inv, TypeOK, callVars
  <2>3. StoreInv'
    BY <1>1, <1>3, <2>1, CommitStore DEF callVars
  <2>4. Members \subseteq Members'
    BY <1>3, <2>1, CommitType
  <2>5. CacheInv' /\ MembersAdmitted'
    BY <1>1, <2>4, FailCache DEF callVars
  <2> QED
    BY <2>2, <2>3, <2>5 DEF Inv
<1>4. CASE at[r] = "mark" /\ call[r].kind = "decline" /\ Decline(r)
  <2>1. Is(r, "decline") /\ UNCHANGED <<origin, mailed, audited, inserting, marked, snapshot>>
    BY <1>4 DEF Inv, StoreInv, KindInv, Is, Decline
  <2>2. TypeOK'
    BY <1>1, <1>2, <1>4, <2>1, DeclineType DEF Inv, TypeOK, callVars
  <2>3. StoreInv'
    BY <1>1, <1>4, <2>1, DeclineStore DEF callVars
  <2>4. CacheInv' /\ MembersAdmitted'
    BY <1>1, <2>1, FailCache DEF callVars, Members
  <2> QED
    BY <2>2, <2>3, <2>4 DEF Inv
<1>5. CASE /\ at[r] = "insert"
           /\ invitation' = [invitation EXCEPT ![r] =
                [to |-> call[r].user, status |-> "PENDING", expired |-> FALSE]]
           /\ UNCHANGED <<origin, mailed, audited, inserting, marked, snapshot>>
  <2>2. TypeOK'
    BY <1>1, <1>2, <1>5, InsertType DEF Inv, TypeOK, callVars
  <2>3. StoreInv'
    BY <1>1, <1>5, InsertStore DEF callVars
  <2>4. CacheInv' /\ MembersAdmitted'
    BY <1>1, <1>5, FailCache DEF callVars, Members
  <2> QED
    BY <2>2, <2>3, <2>4 DEF Inv
<1>6. CASE /\ at[r] = "join" /\ call[r].kind = "add"
           /\ call[r].user \notin Members /\ inserting[call[r].user] = None
           /\ origin' = [origin EXCEPT ![call[r].user] = r]
           /\ UNCHANGED <<invitation, mailed, audited, inserting, marked, snapshot>>
  <2>1. Is(r, "add") /\ call[r].user \in Users /\ r # None /\ origin[call[r].user] = None
    BY <1>6, CallFacts, InvitationAssumption DEF Inv, StoreInv, KindInv, Is, Members
  <2>2. TypeOK'
    BY <1>1, <1>2, <1>6, <2>1 DEF Inv, TypeOK, callVars
  <2>3. StoreInv'
    BY <1>1, <1>6, <2>1, AddStore DEF callVars
  <2>4. Members \subseteq Members'
    BY <1>6, <2>1 DEF Members, Inv, TypeOK
  <2>5. CacheInv' /\ MembersAdmitted'
    BY <1>1, <2>4, FailCache DEF callVars
  <2> QED
    BY <2>2, <2>3, <2>5 DEF Inv
<1>7. CASE /\ at[r] = "mail" /\ mailed' = mailed \cup {r}
           /\ UNCHANGED <<invitation, origin, audited, inserting, marked, snapshot>>
  <2>2. TypeOK'
    BY <1>1, <1>2, <1>7 DEF Inv, TypeOK, callVars, Invitations
  <2>3. StoreInv'
    BY <1>1, <1>7, MailStore DEF callVars
  <2>4. CacheInv' /\ MembersAdmitted'
    BY <1>1, <1>7, FailCache DEF callVars, Members
  <2> QED
    BY <2>2, <2>3, <2>4 DEF Inv
<1> QED
  BY <1>3, <1>4, <1>5, <1>6, <1>7 DEF AnswerLost

\* A process dies.
LEMMA CrashInv ==
  ASSUME Inv, NEW p \in Processes, Crash(p)
  PROVE  Inv'
<1>1. PICK S \in SUBSET Requests :
        /\ S = {r \in Requests : at[r] \in Running /\ call[r].process = p}
        /\ Fault /\ Fail(S)
        /\ inserting' = [u \in Users |-> IF inserting[u] \in S THEN None ELSE inserting[u]]
        /\ marked' = marked \ S
        /\ snapshot' = [r \in Requests |-> IF r \in S THEN "absent" ELSE snapshot[r]]
        /\ registry' = [registry EXCEPT ![p] = {}]
        /\ UNCHANGED <<invitation, origin, mailed, audited, cache, callVars>>
  BY DEF Crash
<1>2. TypeOK'
  <2>1. faults' \in 0 .. MaxFaults
    BY <1>1, FaultType DEF Inv
  <2>2. /\ at' \in [Requests -> Points]
        /\ lookup' \in [Requests -> [key : Keys \cup {None}, value : Results]]
        /\ cleared' \in [Requests -> SUBSET Keys]
    BY <1>1, FailType DEF Inv
  <2> QED
    BY <1>1, <2>1, <2>2 DEF Inv, TypeOK, callVars, Statuses
<1>3. StoreInv'
  BY <1>1, FailStore DEF Fail, callVars
<1>4. CacheInv' /\ MembersAdmitted'
  <2>1. Members' = Members /\ UNCHANGED <<cache, call, earlier>>
    BY <1>1 DEF Members, callVars
  <2> QED
    BY <1>1, <2>1, FailCache
<1> QED
  BY <1>2, <1>3, <1>4 DEF Inv

-------------------------------------------------------------------------------
(* The theorems                                                            *)

\* At first invitations have been sent, and nobody is a member.
LEMMA InitInv == Init => Inv
<1> SUFFICES ASSUME Init PROVE Inv
  OBVIOUS
<1>1. PICK to \in [mailed -> Users] :
        invitation = [i \in Invitations |->
                        IF i \in mailed
                          THEN [to |-> to[i], status |-> "PENDING", expired |-> FALSE]
                          ELSE [to |-> None, status |-> "absent", expired |-> FALSE]]
  BY DEF Init
<1>2. /\ mailed \subseteq Sent /\ Sent \cap Requests = {} /\ None \notin Requests
      /\ mailed \subseteq Invitations
  BY InvitationAssumption DEF Init, Invitations
<1>3. TypeOK
  <2>1. invitation \in [Invitations -> [to : Users \cup {None}, status : Statuses,
                                        expired : BOOLEAN]]
    BY <1>1 DEF Statuses
  <2>2. faults \in 0 .. MaxFaults
    BY InvitationAssumption DEF Init
  <2>3. lookup \in [Requests -> [key : Keys \cup {None}, value : Results]]
    <3>1. [key |-> None, value |-> {}] \in [key : Keys \cup {None}, value : Results]
      BY DEF Results
    <3> QED
      BY <3>1 DEF Init
  <2> QED
    BY <1>2, <2>1, <2>2, <2>3 DEF Init, TypeOK, Points, Statuses
<1>4. StoreInv
  <2>1. \A i \in Invitations : invitation[i].status = IF i \in mailed THEN "PENDING" ELSE "absent"
    BY <1>1
  <2>2. \A r \in Requests : call[r] = None /\ at[r] = "new" /\ r \notin mailed /\ r \in Invitations
    BY <1>2 DEF Init, Invitations
  <2>3. audited = {} /\ marked = {} /\ \A u \in Users : origin[u] = None /\ inserting[u] = None
    BY DEF Init
  <2> QED
    BY <1>2, <2>1, <2>2, <2>3
    DEF StoreInv, KindInv, InvitationInv, AddresseeInv, TransactionInv, MemberInv, AcceptedInv,
        InTransaction, Is
<1>5. CacheInv /\ MembersAdmitted
  BY DEF Init, CacheInv, MembersAdmitted, MemberKey, Keys
<1> QED
  BY <1>3, <1>4, <1>5 DEF Inv

\* Every step keeps the invariant.
LEMMA NextInv == Inv /\ [Next]_vars => Inv'
<1> SUFFICES ASSUME Inv, [Next]_vars PROVE Inv'
  OBVIOUS
<1>1. ASSUME NEW r \in Requests, Step(r) PROVE Inv'
  BY <1>1, FindInv, GetCachedInv, QueryInv, StoreCachedInv, RegisterKeyInv, ClearKeyInv,
     ForgetKeysInv, InsertInvitationInv, MailInv, AuditInv, JoinInv, MarkAcceptedInv,
     MarkDeclinedInv, CommitInv DEF Step
<1>2. ASSUME NEW r \in Requests,
             Arrive(r) \/ Abort(r) \/ CallRejected(r) \/ AnswerLost(r)
      PROVE  Inv'
  BY <1>2, ArriveInv, AbortInv, CallRejectedInv, AnswerLostInv
<1>3. ASSUME NEW i \in Invitations, InvitationExpires(i) PROVE Inv'
  BY <1>3, InvitationExpiresInv
<1>4. ASSUME NEW k \in Keys, CacheExpires(k) PROVE Inv'
  BY <1>4, CacheExpiresInv
<1>5. ASSUME NEW p \in Processes, Crash(p) PROVE Inv'
  BY <1>5, CrashInv
<1>6. CASE UNCHANGED vars
  BY <1>6 DEF vars, storeVars, cacheVars, callVars, Inv, TypeOK, StoreInv, KindInv, InvitationInv,
              AddresseeInv, TransactionInv, MemberInv, AcceptedInv, CacheInv, MembersAdmitted,
              InTransaction, Status, Is, Members
<1> QED
  BY <1>1, <1>2, <1>3, <1>4, <1>5, <1>6 DEF Next

\* The invariant holds in every reachable state.
THEOREM Invariance == Spec => []Inv
BY InitInv, NextInv, PTL DEF Spec

\* Every variable keeps its type.
THEOREM TypeCorrectness == Spec => []TypeOK
<1>1. Inv => TypeOK
  BY DEF Inv
<1> QED
  BY <1>1, Invariance, PTL

\* A member who looks at the workspace is not told that it does not exist, whatever the
\* caches of the processes hold.
THEOREM NoMemberHidden == Spec => []MembersAdmitted
<1>1. Inv => MembersAdmitted
  BY DEF Inv
<1> QED
  BY <1>1, Invariance, PTL

\* An uncommitted membership, for which other requests wait, has a request that goes on.
THEOREM NoOrphanTransaction == Spec => []TransactionHasOwner
<1>1. Inv => TransactionHasOwner
  BY DEF Inv, StoreInv, TransactionInv, InTransaction, TransactionHasOwner
<1> QED
  BY <1>1, Invariance, PTL

\* Of all that race to make one user a member only one succeeds.
THEOREM SingleJoin == Spec => []OneJoin
<1>1. Inv => OneJoin
  <2> SUFFICES ASSUME Inv, NEW r \in Requests, at[r] = "ok", call[r].kind \in {"accept", "add"}
               PROVE  Made(r)
    BY DEF OneJoin
  <2>1. call[r] # None /\ call[r].user \in Users
    BY CallFacts DEF Inv, StoreInv, KindInv
  <2>2. origin[call[r].user] = r
    BY <2>1 DEF Inv, StoreInv, MemberInv, Is
  <2> QED
    BY <2>1, <2>2 DEF Made
<1> QED
  BY <1>1, Invariance, PTL

\* An acceptance happens as a whole or not at all.
THEOREM Atomicity == Spec => []AcceptanceAtomic
<1>1. Inv => AcceptanceAtomic
  <2> SUFFICES ASSUME Inv PROVE AcceptanceAtomic
    OBVIOUS
  <2>1. ASSUME NEW r \in Requests, Is(r, "accept")
        PROVE  /\ r \in audited <=> Made(r)
               /\ Made(r) => /\ origin[invitation[call[r].target].to] = r
                             /\ invitation[call[r].target].status # "PENDING"
    <3>1. call[r].user \in Users /\ r # None
      BY <2>1, CallFacts, InvitationAssumption DEF Inv, Is
    <3>2. r \in audited <=> origin[call[r].user] = r
      BY <2>1 DEF Inv, StoreInv, MemberInv
    <3>3. ASSUME NEW u \in Users, origin[u] = r
          PROVE  /\ call[r].user = u /\ invitation[call[r].target].to = u
                 /\ invitation[call[r].target].status # "PENDING"
      BY <2>1, <3>1, <3>3 DEF Inv, StoreInv, MemberInv, Status, Is
    <3> QED
      BY <3>1, <3>2, <3>3 DEF Made
  <2>2. ASSUME NEW i \in Invitations, invitation[i].status = "ACCEPTED"
        PROVE  \E r \in Requests : call[r] # None /\ call[r].target = i /\ Made(r)
    <3>1. PICK r \in Requests : Is(r, "accept") /\ call[r].target = i /\ origin[call[r].user] = r
      BY <2>2 DEF Inv, StoreInv, AcceptedInv
    <3>2. call[r] # None /\ call[r].user \in Users
      BY <3>1, CallFacts DEF Inv, Is
    <3> QED
      BY <3>1, <3>2 DEF Made
  <2> QED
    BY <2>1, <2>2 DEF AcceptanceAtomic, Is
<1> QED
  BY <1>1, Invariance, PTL

\* The status of an invitation changes once.
LEMMA StatusStep ==
  ASSUME Inv, [Next]_vars, NEW i \in Invitations,
         invitation[i].status \in {"ACCEPTED", "DECLINED"}
  PROVE  invitation'[i].status = invitation[i].status
<1>1. invitation \in [Invitations -> [to : Users \cup {None}, status : Statuses,
                                      expired : BOOLEAN]]
  BY DEF Inv, TypeOK
<1>2. ASSUME NEW r \in Requests, at[r] = "insert",
             invitation' = [invitation EXCEPT ![r] =
               [to |-> call[r].user, status |-> "PENDING", expired |-> FALSE]]
      PROVE  invitation'[i].status = invitation[i].status
  <2>1. i # r
    BY <1>2 DEF Inv, StoreInv, InvitationInv
  <2> QED
    BY <1>1, <1>2, <2>1
<1>3. ASSUME NEW r \in Requests, at[r] = "commit", CommitTransaction(r)
      PROVE  invitation'[i].status = invitation[i].status
  <2>1. r \in marked => call[r].target # i
    BY DEF Inv, StoreInv, TransactionInv, Status
  <2> QED
    BY <1>1, <1>3, <2>1 DEF CommitTransaction
<1>4. ASSUME NEW r \in Requests, Decline(r)
      PROVE  invitation'[i].status = invitation[i].status
  BY <1>1, <1>4 DEF Decline
<1>5. ASSUME NEW j \in Invitations, InvitationExpires(j)
      PROVE  invitation'[i].status = invitation[i].status
  BY <1>1, <1>5 DEF InvitationExpires
<1>6. CASE UNCHANGED invitation
  BY <1>6
<1>7. ASSUME NEW r \in Requests, Step(r)
      PROVE  invitation'[i].status = invitation[i].status
  BY <1>2, <1>3, <1>4, <1>6, <1>7
  DEF Step, Find, GetCached, Query, StoreCached, RegisterKey, ClearKey, ForgetKeys,
      InsertInvitation, Mail, Audit, Join, MarkAccepted, MarkDeclined, Commit, storeVars
<1>8. ASSUME NEW r \in Requests, Arrive(r) \/ Abort(r) \/ CallRejected(r) \/ AnswerLost(r)
      PROVE  invitation'[i].status = invitation[i].status
  BY <1>2, <1>3, <1>4, <1>6, <1>8 DEF Arrive, Abort, CallRejected, AnswerLost, storeVars
<1>9. CASE \E k \in Keys : CacheExpires(k)
  BY <1>6, <1>9 DEF CacheExpires, storeVars
<1>10. CASE \E p \in Processes : Crash(p)
  BY <1>6, <1>10 DEF Crash
<1>11. CASE UNCHANGED vars
  BY <1>6, <1>11 DEF vars, storeVars
<1> QED
  BY <1>5, <1>7, <1>8, <1>9, <1>10, <1>11 DEF Next

\* An acceptance and a decline of one invitation do not undo each other.
THEOREM AnswersStay == Spec => AnswerIsFinal
<1>1. Inv /\ [Next]_vars =>
        [\A i \in Invitations : invitation[i].status \in {"ACCEPTED", "DECLINED"} =>
           invitation'[i].status = invitation[i].status]_vars
  BY StatusStep
<1> QED
  BY <1>1, Invariance, PTL DEF Spec, AnswerIsFinal
===============================================================================
