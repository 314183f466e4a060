----------------------------- MODULE SessionsProofs -----------------------------
(***************************************************************************)
(* Proofs about Sessions for any set of requests, any limits and any bound *)
(* on the faults: tokens are used once, an ended session stays ended, the  *)
(* windows hold, a counter expires, and a deleted account is not listed.   *)
(*                                                                         *)
(* The invariant says what may be left of each request, in which order     *)
(* requests have come, and what each has already done to the account.  A   *)
(* step is proved to have an Effect, and the effects to keep the invariant.*)
(***************************************************************************)
EXTENDS Sessions, FiniteSetTheorems, SequenceTheorems, TLAPS

\* What may be left of a request of kind k that is going to be answered with v.
Ok(k) ==
  CASE k = "register" ->
         {<<"find", "create", "reread", "uncache", "deliver", "mail", "audit">>,
          <<"create", "reread", "uncache", "deliver", "mail", "audit">>,
          <<"reread", "uncache", "deliver", "mail", "audit">>,
          <<"uncache", "deliver", "mail", "audit">>, <<"deliver", "mail", "audit">>,
          <<"mail", "audit">>, <<"audit">>}
    [] k = "verify" ->
         {<<"verify", "uncache", "audit">>, <<"uncache", "audit">>, <<"audit">>}
    [] k = "login" ->
         {<<"check", "find", "forgive", "store", "uncache", "audit">>,
          <<"find", "forgive", "store", "uncache", "audit">>,
          <<"forgive", "store", "uncache", "audit">>, <<"store", "uncache", "audit">>,
          <<"uncache", "audit">>, <<"audit">>}
    [] k = "refresh" ->
         {<<"find", "store", "uncache", "audit">>, <<"store", "uncache", "audit">>,
          <<"uncache", "audit">>, <<"audit">>}
    [] k = "logout" ->
         {<<"clear", "uncache", "audit">>, <<"uncache", "audit">>, <<"audit">>}
    [] k = "forgot" ->
         {<<"find", "setReset", "uncache", "deliver", "mail", "audit">>,
          <<"setReset", "uncache", "deliver", "mail", "audit">>,
          <<"uncache", "deliver", "mail", "audit">>, <<"deliver", "mail", "audit">>,
          <<"mail", "audit">>, <<"audit">>}
    [] k = "reset" ->
         {<<"find", "setPassword", "uncache", "clearReset",
            "uncache", "clear", "uncache", "audit">>,
          <<"setPassword", "uncache", "clearReset", "uncache", "clear", "uncache", "audit">>,
          <<"uncache", "clearReset", "uncache", "clear", "uncache", "audit">>,
          <<"clearReset", "uncache", "clear", "uncache", "audit">>,
          <<"uncache", "clear", "uncache", "audit">>, <<"clear", "uncache", "audit">>,
          <<"uncache", "audit">>, <<"audit">>}
    [] k = "delete" -> {<<"delete", "uncache">>, <<"uncache">>}
    [] k = "list" -> {<<"get", "query", "set">>, <<"query", "set">>, <<"set">>}
    [] k = "use" -> {<<"enter">>, <<"limit">>}

Refused(k) ==
  CASE k = "login" -> {<<"count", "audit">>, <<"expire", "audit">>, <<"audit">>}
    [] k = "refresh" ->
         {<<"audit", "clear", "uncache">>, <<"clear", "uncache">>, <<"uncache">>, <<"audit">>}
    [] k \in {"verify", "reset"} -> {<<"audit">>}
    [] k = "delete" -> {<<"uncache">>}
    [] k = "use" -> {<<"limit">>}
    [] OTHER -> {}

Left(k, v) ==
  {<<>>} \cup (IF v = "ok" THEN Ok(k) ELSE IF v = "refused" THEN Refused(k) ELSE {})

\* A token that a login or refresh has answered with; it is not stored again.
Given(t) ==
  t \in Requests /\ Ended(t) /\ verdict[t] = "ok" /\ call[t].kind \in {"login", "refresh"}

\* What a request presents; without a token it is refused where it needs one.
TokenInv(r) ==
  /\ call[r].kind \in {"logout", "use"} => call[r].token = First \/ Given(call[r].token)
  /\ call[r].kind = "refresh" => call[r].token \in {First, None} \/ Given(call[r].token)
  /\ call[r].kind \in {"verify", "reset"} => call[r].token \in mailed \cup {None}
  /\ call[r].kind \in {"refresh", "verify", "reset"} /\ verdict[r] = "ok" => call[r].token # None

\* A session is of an account.
SessionInv(r) ==
  \/ call[r].kind = "login" /\ Len(todo[r]) <= 4
  \/ call[r].kind = "refresh" /\ Len(todo[r]) <= 3
  => (verdict[r] = "ok" => saw[r].id # None)

RequestInv(r) ==
  IF call[r] = None
    THEN todo[r] = <<>> /\ verdict[r] = "none" /\ saw[r] = NoCopy
    ELSE /\ call[r] \in Calls
         /\ todo[r] \in Left(call[r].kind, verdict[r])
         /\ verdict[r] \in {"ok", "refused", "error"}
         /\ TokenInv(r) /\ SessionInv(r)

StoreInv ==
  /\ user \in Users
  /\ expired \subseteq Requests
  /\ mailed \subseteq Requests
  /\ failed \subseteq Requests
  /\ window \in BOOLEAN
  /\ used \subseteq Requests
  /\ limited \subseteq Origins
  /\ listed \in (SUBSET Origins) \cup {None}

ShapeInv ==
  /\ call \in [Requests -> Calls \cup {None}]
  /\ todo = [r \in Requests |-> todo[r]]
  /\ verdict \in [Requests -> Verdicts]
  /\ saw \in [Requests -> Copies]
  /\ before \in [Requests -> SUBSET Requests]
  /\ faults \in 0 .. MaxFaults
  /\ \A r \in Requests : RequestInv(r)

\* Requests come before one another in one order at most.
OrderInv ==
  \A r \in Requests : \A q \in before[r] : Ended(q) /\ call[r] # None /\ r \notin before[q]

\* How far a request has got: the awaits that are left.
Rest(r) == Len(todo[r])
Going(r, k, v) == call[r] # None /\ call[r].kind = k /\ verdict[r] = v

\* Whose creation has been done, or cannot be done any more.
Known(i) == i \in Requests => call[i] # None /\ call[i].kind = "register" /\ Rest(i) <= 5

IdInv ==
  /\ Known(user.id)
  /\ \A r \in Requests : Known(saw[r].id)
  /\ listed # None => \A i \in listed : Known(i)

\* A mailed token is not mailed again.
MailInv ==
  \A t \in mailed : call[t] # None /\ call[t].kind \in {"register", "forgot"} /\ Rest(t) <= 1

-------------------------------------------------------------------------------
(* Tokens                                                                  *)

Verified(r) == Going(r, "verify", "ok") /\ Rest(r) <= 2
Refreshed(r) == Going(r, "refresh", "ok") /\ Rest(r) <= 2
HasReset(r) == Going(r, "reset", "ok") /\ Rest(r) <= 4

OnceInv(r) ==
  /\ Verified(r) => user.verification # call[r].token
  /\ Refreshed(r) => user.token # call[r].token
  /\ Going(r, "refresh", "ok") /\ Rest(r) = 3 /\ user.token = call[r].token => user.id = saw[r].id
  /\ HasReset(r) => user.reset # call[r].token
  /\ Going(r, "reset", "ok") /\ Rest(r) \in 5 .. 7 /\ user.reset = call[r].token =>
       user.id = saw[r].id

PairInv(q, r) ==
  /\ Verified(q) /\ Verified(r) /\ q # r => call[q].token # call[r].token
  /\ q \in before[r] /\ call[q].token = call[r].token =>
       /\ Refreshed(q) /\ Going(r, "refresh", "ok") => Rest(r) = 4
       /\ HasReset(q) /\ Going(r, "reset", "ok") => Rest(r) = 8

-------------------------------------------------------------------------------
(* Sessions                                                                *)

\* r has cleared the session, or has found none.
Cleared(r) ==
  \/ Going(r, "logout", "ok") /\ Rest(r) <= 2
  \/ Going(r, "reset", "ok") /\ Rest(r) <= 2
  \/ Going(r, "delete", "ok") /\ Rest(r) <= 1
  \/ Going(r, "refresh", "refused") /\ Rest(r) <= 1 /\ call[r].token # None

\* No other refresh overlaps r.
Alone(r) ==
  \A x \in Requests : x # r /\ call[x] # None /\ call[x].kind = "refresh" => Apart(x, r)

EndInv(r) ==
  /\ Going(r, "login", "ok") /\ Rest(r) <= 4 => saw[r].family = r
  /\ Going(r, "refresh", "refused") /\ Rest(r) \in 2 .. 3 /\ call[r].token # None =>
       saw[r].id = Claims(call[r].token).id
  /\ Cleared(r) /\ Alone(r) =>
       /\ user.id = AccountOf(r) => user.family \notin before[r] \cup {First}
       /\ \A x \in Requests :
            /\ r \in before[x] /\ call[x].kind = "refresh" /\ saw[x].id = AccountOf(r)
            => saw[x].family \notin before[r] \cup {First}

-------------------------------------------------------------------------------
(* Counters                                                                *)

\* r may count a failure, or has counted one.
MayCount(r) ==
  \/ r \in failed
  \/ Going(r, "login", "ok") /\ Rest(r) = 5
  \/ Going(r, "login", "refused") /\ Rest(r) = 2

Admitted(i) == {r \in Uses(i) : verdict[r] = "ok"}

CountInv ==
  /\ \A r \in failed : call[r] # None
  /\ \A r \in Requests : MayCount(r) => Cardinality(failed \cap before[r]) < MaxAttempts
  /\ \A r \in used : call[r] # None /\ call[r].kind = "use" /\ ~ At(r, "enter")
  /\ \A i \in Origins : Cardinality(Admitted(i)) <= MaxUses
  /\ CounterExpires

-------------------------------------------------------------------------------
(* The list of users                                                       *)

Gone(d) == Going(d, "delete", "ok") /\ Rest(d) <= 1

\* No list overlaps d.
Unread(d) ==
  \A x \in Requests : call[x] # None /\ call[x].kind = "list" => Apart(x, d)

ListInv(d) ==
  Gone(d) =>
    /\ saw[d].id # None /\ user.id # saw[d].id
    /\ Unread(d) =>
         /\ \A x \in Requests : d \in before[x] /\ call[x].kind = "list" => saw[x].id # saw[d].id
         /\ Ended(d) => listed = None \/ saw[d].id \notin listed

Inv ==
  /\ StoreInv /\ ShapeInv /\ OrderInv /\ IdInv /\ MailInv
  /\ user.token = None => user.family = None
  /\ \A r \in Requests : OnceInv(r) /\ EndInv(r) /\ ListInv(r)
  /\ \A q, r \in Requests : PairInv(q, r)
  /\ CountInv
-------------------------------------------------------------------------------
(* What is left of a request                                               *)

\* Going on leaves a shorter list of the same request.
Shorter(k, v, l) ==
  /\ Len(l) \in 1 .. 8 /\ Tail(l) \in Left(k, v) /\ Len(Tail(l)) = Len(l) - 1
  /\ Len(l) = 1 <=> Tail(l) = <<>>

\* Where the awaits of a request are that has not been refused.
OkAwaits(k, l) ==
  /\ Head(l) = "find" =>
       \/ k = "register" /\ Len(l) = 7
       \/ k = "login" /\ Len(l) = 5
       \/ k = "refresh" /\ Len(l) = 4
       \/ k = "forgot" /\ Len(l) = 6
       \/ k = "reset" /\ Len(l) = 8
  /\ Head(l) = "create" => k = "register" /\ Len(l) = 6
  /\ Head(l) = "reread" => k = "register" /\ Len(l) = 5
  /\ Head(l) = "deliver" => k \in {"register", "forgot"} /\ Len(l) = 3
  /\ Head(l) = "mail" => k \in {"register", "forgot"} /\ Len(l) = 2
  /\ Head(l) = "audit" => Len(l) = 1
  /\ Head(l) = "uncache" =>
       \/ k \in {"register", "forgot"} /\ Len(l) = 4
       \/ k \in {"verify", "login", "refresh", "logout"} /\ Len(l) = 2
       \/ k = "reset" /\ Len(l) \in {6, 4, 2}
       \/ k = "delete" /\ Len(l) = 1
  /\ Head(l) = "check" => k = "login" /\ Len(l) = 6
  /\ Head(l) = "forgive" => k = "login" /\ Len(l) = 4
  /\ Head(l) = "store" => k \in {"login", "refresh"} /\ Len(l) = 3
  /\ Head(l) = "clear" => k \in {"logout", "reset"} /\ Len(l) = 3
  /\ Head(l) = "setReset" => k = "forgot" /\ Len(l) = 5
  /\ Head(l) = "setPassword" => k = "reset" /\ Len(l) = 7
  /\ Head(l) = "clearReset" => k = "reset" /\ Len(l) = 5
  /\ Head(l) = "verify" => k = "verify" /\ Len(l) = 3
  /\ Head(l) = "delete" => k = "delete" /\ Len(l) = 2
  /\ Head(l) = "get" => k = "list" /\ Len(l) = 3
  /\ Head(l) = "query" => k = "list" /\ Len(l) = 2
  /\ Head(l) = "set" => k = "list" /\ Len(l) = 1
  /\ Head(l) \in {"enter", "limit"} => k = "use" /\ Len(l) = 1
  /\ Head(l) \notin {"count", "expire"}
  /\ k = "verify" /\ Len(l) = 3 => Head(l) = "verify"
  /\ k = "login" /\ Len(l) = 6 => Head(l) = "check"
  /\ k = "login" /\ Len(l) = 5 => Head(l) = "find"
  /\ k = "refresh" /\ Len(l) = 4 => Head(l) = "find"
  /\ k = "refresh" /\ Len(l) = 3 => Head(l) = "store"
  /\ k \in {"logout", "reset"} /\ Len(l) = 3 => Head(l) = "clear"
  /\ k = "reset" /\ Len(l) = 8 => Head(l) = "find"
  /\ k = "reset" /\ Len(l) = 5 => Head(l) = "clearReset"
  /\ k = "delete" /\ Len(l) = 2 => Head(l) = "delete"
  /\ k = "delete" /\ Len(l) = 1 => Head(l) = "uncache"
  /\ k = "list" /\ Len(l) = 1 => Head(l) = "set"
  /\ k = "use" => Head(l) \in {"enter", "limit"}

\* And of one that has been refused.
RefusedAwaits(k, l) ==
  /\ Head(l) \in {"audit", "clear", "uncache", "count", "expire", "limit"}
  /\ Head(l) = "audit" =>
       \/ k \in {"verify", "login", "refresh", "reset"} /\ Len(l) = 1
       \/ k = "refresh" /\ Len(l) = 3
  /\ Head(l) = "clear" => k = "refresh" /\ Len(l) = 2
  /\ Head(l) = "uncache" => k \in {"refresh", "delete"} /\ Len(l) = 1
  /\ Head(l) \in {"count", "expire"} => k = "login" /\ Len(l) = 2
  /\ Head(l) = "limit" => k = "use" /\ Len(l) = 1
  /\ k = "refresh" /\ Len(l) = 2 => Head(l) = "clear"
  /\ k = "use" => Head(l) = "limit"
  /\ k = "login" => Len(l) <= 2
  /\ k = "refresh" => Len(l) <= 3

\* A list of S goes on with one of S, or ends.
LEMMA ShorterList ==
  ASSUME NEW k, NEW v, NEW S, NEW l, Left(k, v) = {<<>>} \cup S,
         Tail(l) \in {<<>>} \cup S, Len(l) \in 1 .. 8, Len(Tail(l)) = Len(l) - 1,
         \A m \in S : Len(m) >= 1
  PROVE  Shorter(k, v, l)
<1>0. Tail(l) \in Left(k, v)
  OBVIOUS
<1>1. Len(<<>>) = 0
  OBVIOUS
<1>2. \A t : Len(t) = Len(l) - 1 /\ t = <<>> => Len(l) = 1
  BY <1>1
<1>3. \A t \in {<<>>} \cup S : Len(t) = Len(l) - 1 /\ Len(l) = 1 => t = <<>>
  OBVIOUS
<1>4. Len(l) = 1 <=> Tail(l) = <<>>
  BY <1>2, <1>3
<1> QED
  BY <1>0, <1>4, Zenon DEF Shorter

\* The lists of a request that has not been refused.
LEMMA OkLists ==
  ASSUME NEW k \in Kinds, NEW l \in Ok(k)
  PROVE  Shorter(k, "ok", l) /\ OkAwaits(k, l)
<1>0. Left(k, "ok") = {<<>>} \cup Ok(k)
  BY DEF Left
<1>1. CASE k = "register"
  <2>1. /\ Tail(<<"find", "create", "reread", "uncache", "deliver", "mail", "audit">>)
             = <<"create", "reread", "uncache", "deliver", "mail", "audit">>
        /\ Tail(<<"create", "reread", "uncache", "deliver", "mail", "audit">>)
             = <<"reread", "uncache", "deliver", "mail", "audit">>
        /\ Tail(<<"reread", "uncache", "deliver", "mail", "audit">>)
             = <<"uncache", "deliver", "mail", "audit">>
        /\ Tail(<<"uncache", "deliver", "mail", "audit">>) = <<"deliver", "mail", "audit">>
        /\ Tail(<<"deliver", "mail", "audit">>) = <<"mail", "audit">>
        /\ Tail(<<"mail", "audit">>) = <<"audit">>
        /\ Tail(<<"audit">>) = <<>>
    OBVIOUS
  <2>2. Tail(l) \in {<<>>} \cup Ok(k)
    BY <1>1, <2>1 DEF Ok
  <2>3. Len(l) \in 1 .. 8 /\ Len(Tail(l)) = Len(l) - 1
    <3>1. \A m \in Ok("register") : Len(m) \in 1 .. 8
      BY DEF Ok
    <3>2. \A m \in Ok("register") : Len(Tail(m)) = Len(m) - 1
      BY DEF Ok
    <3> QED
      BY <1>1, <3>1, <3>2
  <2>4. OkAwaits(k, l)
    BY <1>1 DEF Ok, OkAwaits
  <2>5. \A m \in Ok(k) : Len(m) >= 1
    <3>1. \A m \in Ok("register") : Len(m) >= 1
      BY DEF Ok
    <3> QED
      BY <1>1, <3>1
  <2> QED
    BY <1>0, <2>2, <2>3, <2>4, <2>5, ShorterList
<1>2. CASE k = "verify"
  <2>1. /\ Tail(<<"verify", "uncache", "audit">>) = <<"uncache", "audit">>
        /\ Tail(<<"uncache", "audit">>) = <<"audit">>
        /\ Tail(<<"audit">>) = <<>>
    OBVIOUS
  <2>2. Tail(l) \in {<<>>} \cup Ok(k)
    BY <1>2, <2>1 DEF Ok
  <2>3. Len(l) \in 1 .. 8 /\ Len(Tail(l)) = Len(l) - 1
    BY <1>2 DEF Ok
  <2>4. OkAwaits(k, l)
    BY <1>2 DEF Ok, OkAwaits
  <2>5. \A m \in Ok(k) : Len(m) >= 1
    BY <1>2 DEF Ok
  <2> QED
    BY <1>0, <2>2, <2>3, <2>4, <2>5, ShorterList
<1>3. CASE k = "login"
  <2>1. /\ Tail(<<"check", "find", "forgive", "store", "uncache", "audit">>)
             = <<"find", "forgive", "store", "uncache", "audit">>
        /\ Tail(<<"find", "forgive", "store", "uncache", "audit">>)
             = <<"forgive", "store", "uncache", "audit">>
        /\ Tail(<<"forgive", "store", "uncache", "audit">>) = <<"store", "uncache", "audit">>
        /\ Tail(<<"store", "uncache", "audit">>) = <<"uncache", "audit">>
        /\ Tail(<<"uncache", "audit">>) = <<"audit">>
        /\ Tail(<<"audit">>) = <<>>
    OBVIOUS
  <2>2. Tail(l) \in {<<>>} \cup Ok(k)
    BY <1>3, <2>1 DEF Ok
  <2>3. Len(l) \in 1 .. 8 /\ Len(Tail(l)) = Len(l) - 1
    BY <1>3 DEF Ok
  <2>4. OkAwaits(k, l)
    BY <1>3 DEF Ok, OkAwaits
  <2>5. \A m \in Ok(k) : Len(m) >= 1
    BY <1>3 DEF Ok
  <2> QED
    BY <1>0, <2>2, <2>3, <2>4, <2>5, ShorterList
<1>4. CASE k = "refresh"
  <2>1. /\ Tail(<<"find", "store", "uncache", "audit">>) = <<"store", "uncache", "audit">>
        /\ Tail(<<"store", "uncache", "audit">>) = <<"uncache", "audit">>
        /\ Tail(<<"uncache", "audit">>) = <<"audit">>
        /\ Tail(<<"audit">>) = <<>>
    OBVIOUS
  <2>2. Tail(l) \in {<<>>} \cup Ok(k)
    BY <1>4, <2>1 DEF Ok
  <2>3. Len(l) \in 1 .. 8 /\ Len(Tail(l)) = Len(l) - 1
    BY <1>4 DEF Ok
  <2>4. OkAwaits(k, l)
    BY <1>4 DEF Ok, OkAwaits
  <2>5. \A m \in Ok(k) : Len(m) >= 1
    BY <1>4 DEF Ok
  <2> QED
    BY <1>0, <2>2, <2>3, <2>4, <2>5, ShorterList
<1>5. CASE k = "logout"
  <2>1. /\ Tail(<<"clear", "uncache", "audit">>) = <<"uncache", "audit">>
        /\ Tail(<<"uncache", "audit">>) = <<"audit">>
        /\ Tail(<<"audit">>) = <<>>
    OBVIOUS
  <2>2. Tail(l) \in {<<>>} \cup Ok(k)
    BY <1>5, <2>1 DEF Ok
  <2>3. Len(l) \in 1 .. 8 /\ Len(Tail(l)) = Len(l) - 1
    BY <1>5 DEF Ok
  <2>4. OkAwaits(k, l)
    BY <1>5 DEF Ok, OkAwaits
  <2>5. \A m \in Ok(k) : Len(m) >= 1
    BY <1>5 DEF Ok
  <2> QED
    BY <1>0, <2>2, <2>3, <2>4, <2>5, ShorterList
<1>6. CASE k = "forgot"
  <2>1. /\ Tail(<<"find", "setReset", "uncache", "deliver", "mail", "audit">>)
             = <<"setReset", "uncache", "deliver", "mail", "audit">>
        /\ Tail(<<"setReset", "uncache", "deliver", "mail", "audit">>)
             = <<"uncache", "deliver", "mail", "audit">>
        /\ Tail(<<"uncache", "deliver", "mail", "audit">>) = <<"deliver", "mail", "audit">>
        /\ Tail(<<"deliver", "mail", "audit">>) = <<"mail", "audit">>
        /\ Tail(<<"mail", "audit">>) = <<"audit">>
        /\ Tail(<<"audit">>) = <<>>
    OBVIOUS
  <2>2. Tail(l) \in {<<>>} \cup Ok(k)
    BY <1>6, <2>1 DEF Ok
  <2>3. Len(l) \in 1 .. 8 /\ Len(Tail(l)) = Len(l) - 1
    BY <1>6 DEF Ok
  <2>4. OkAwaits(k, l)
    BY <1>6 DEF Ok, OkAwaits
  <2>5. \A m \in Ok(k) : Len(m) >= 1
    BY <1>6 DEF Ok
  <2> QED
    BY <1>0, <2>2, <2>3, <2>4, <2>5, ShorterList
<1>7. CASE k = "reset"
  <2>1. /\ Tail(<<"find", "setPassword", "uncache", "clearReset",
                  "uncache", "clear", "uncache", "audit">>)
             = <<"setPassword", "uncache", "clearReset", "uncache", "clear", "uncache", "audit">>
        /\ Tail(<<"setPassword", "uncache", "clearReset", "uncache", "clear", "uncache", "audit">>)
             = <<"uncache", "clearReset", "uncache", "clear", "uncache", "audit">>
        /\ Tail(<<"uncache", "clearReset", "uncache", "clear", "uncache", "audit">>)
             = <<"clearReset", "uncache", "clear", "uncache", "audit">>
        /\ Tail(<<"clearReset", "uncache", "clear", "uncache", "audit">>)
             = <<"uncache", "clear", "uncache", "audit">>
        /\ Tail(<<"uncache", "clear", "uncache", "audit">>) = <<"clear", "uncache", "audit">>
        /\ Tail(<<"clear", "uncache", "audit">>) = <<"uncache", "audit">>
        /\ Tail(<<"uncache", "audit">>) = <<"audit">>
        /\ Tail(<<"audit">>) = <<>>
    OBVIOUS
  <2>2. Tail(l) \in {<<>>} \cup Ok(k)
    BY <1>7, <2>1 DEF Ok
  <2>3. Len(l) \in 1 .. 8 /\ Len(Tail(l)) = Len(l) - 1
    BY <1>7 DEF Ok
  <2>4. OkAwaits(k, l)
    BY <1>7 DEF Ok, OkAwaits
  <2>5. \A m \in Ok(k) : Len(m) >= 1
    BY <1>7 DEF Ok
  <2> QED
    BY <1>0, <2>2, <2>3, <2>4, <2>5, ShorterList
<1>8. CASE k = "delete"
  <2>1. /\ Tail(<<"delete", "uncache">>) = <<"uncache">>
        /\ Tail(<<"uncache">>) = <<>>
    OBVIOUS
  <2>2. Tail(l) \in {<<>>} \cup Ok(k)
    BY <1>8, <2>1 DEF Ok
  <2>3. Len(l) \in 1 .. 8 /\ Len(Tail(l)) = Len(l) - 1
    BY <1>8 DEF Ok
  <2>4. OkAwaits(k, l)
    BY <1>8 DEF Ok, OkAwaits
  <2>5. \A m \in Ok(k) : Len(m) >= 1
    BY <1>8 DEF Ok
  <2> QED
    BY <1>0, <2>2, <2>3, <2>4, <2>5, ShorterList
<1>9. CASE k = "list"
  <2>1. /\ Tail(<<"get", "query", "set">>) = <<"query", "set">>
        /\ Tail(<<"query", "set">>) = <<"set">>
        /\ Tail(<<"set">>) = <<>>
    OBVIOUS
  <2>2. Tail(l) \in {<<>>} \cup Ok(k)
    BY <1>9, <2>1 DEF Ok
  <2>3. Len(l) \in 1 .. 8 /\ Len(Tail(l)) = Len(l) - 1
    BY <1>9 DEF Ok
  <2>4. OkAwaits(k, l)
    BY <1>9 DEF Ok, OkAwaits
  <2>5. \A m \in Ok(k) : Len(m) >= 1
    BY <1>9 DEF Ok
  <2> QED
    BY <1>0, <2>2, <2>3, <2>4, <2>5, ShorterList
<1>10. CASE k = "use"
  <2>1. /\ Tail(<<"enter">>) = <<>>
        /\ Tail(<<"limit">>) = <<>>
    OBVIOUS
  <2>2. Tail(l) \in {<<>>} \cup Ok(k)
    BY <1>10, <2>1 DEF Ok
  <2>3. Len(l) \in 1 .. 8 /\ Len(Tail(l)) = Len(l) - 1
    BY <1>10 DEF Ok
  <2>4. OkAwaits(k, l)
    BY <1>10 DEF Ok, OkAwaits
  <2>5. \A m \in Ok(k) : Len(m) >= 1
    BY <1>10 DEF Ok
  <2> QED
    BY <1>0, <2>2, <2>3, <2>4, <2>5, ShorterList
<1> QED
  BY <1>1, <1>2, <1>3, <1>4, <1>5, <1>6, <1>7, <1>8, <1>9, <1>10 DEF Kinds

\* Those of one that has been refused.
LEMMA RefusedLists ==
  ASSUME NEW k \in Kinds, NEW l \in Refused(k)
  PROVE  Shorter(k, "refused", l) /\ RefusedAwaits(k, l)
<1>0. Left(k, "refused") = {<<>>} \cup Refused(k)
  BY DEF Left
<1>1. CASE k = "login"
  <2>1. /\ Tail(<<"count", "audit">>) = <<"audit">>
        /\ Tail(<<"expire", "audit">>) = <<"audit">>
        /\ Tail(<<"audit">>) = <<>>
    OBVIOUS
  <2>2. Tail(l) \in {<<>>} \cup Refused(k)
    BY <1>1, <2>1 DEF Refused
  <2>3. Len(l) \in 1 .. 8 /\ Len(Tail(l)) = Len(l) - 1
    BY <1>1 DEF Refused
  <2>4. RefusedAwaits(k, l)
    <3>1. l \in {<<"count", "audit">>, <<"expire", "audit">>, <<"audit">>}
      BY <1>1 DEF Refused
    <3>2. CASE l = <<"count", "audit">>
      BY <1>1, <3>2 DEF RefusedAwaits
    <3>3. CASE l = <<"expire", "audit">>
      BY <1>1, <3>3 DEF RefusedAwaits
    <3>4. CASE l = <<"audit">>
      BY <1>1, <3>4 DEF RefusedAwaits
    <3> QED
      BY <3>1, <3>2, <3>3, <3>4
  <2>5. \A m \in Refused(k) : Len(m) >= 1
    BY <1>1 DEF Refused
  <2> QED
    BY <1>0, <2>2, <2>3, <2>4, <2>5, ShorterList
<1>2. CASE k = "refresh"
  <2>1. /\ Tail(<<"audit", "clear", "uncache">>) = <<"clear", "uncache">>
        /\ Tail(<<"clear", "uncache">>) = <<"uncache">>
        /\ Tail(<<"uncache">>) = <<>>
        /\ Tail(<<"audit">>) = <<>>
    OBVIOUS
  <2>2. Tail(l) \in {<<>>} \cup Refused(k)
    BY <1>2, <2>1 DEF Refused
  <2>3. Len(l) \in 1 .. 8 /\ Len(Tail(l)) = Len(l) - 1
    BY <1>2 DEF Refused
  <2>4. RefusedAwaits(k, l)
    <3>1. l \in {<<"audit", "clear", "uncache">>, <<"clear", "uncache">>, <<"uncache">>,
            <<"audit">>}
      BY <1>2 DEF Refused
    <3>2. CASE l = <<"audit", "clear", "uncache">>
      BY <1>2, <3>2 DEF RefusedAwaits
    <3>3. CASE l = <<"clear", "uncache">>
      BY <1>2, <3>3 DEF RefusedAwaits
    <3>4. CASE l = <<"uncache">>
      BY <1>2, <3>4 DEF RefusedAwaits
    <3>5. CASE l = <<"audit">>
      BY <1>2, <3>5 DEF RefusedAwaits
    <3> QED
      BY <3>1, <3>2, <3>3, <3>4, <3>5
  <2>5. \A m \in Refused(k) : Len(m) >= 1
    BY <1>2 DEF Refused
  <2> QED
    BY <1>0, <2>2, <2>3, <2>4, <2>5, ShorterList
<1>3. CASE k \in {"verify", "reset", "delete", "use"}
  <2>1. /\ Tail(<<"audit">>) = <<>>
        /\ Tail(<<"uncache">>) = <<>>
        /\ Tail(<<"limit">>) = <<>>
    OBVIOUS
  <2>2. Tail(l) \in {<<>>} \cup Refused(k)
    BY <1>3, <2>1 DEF Refused
  <2>3. Len(l) \in 1 .. 8 /\ Len(Tail(l)) = Len(l) - 1
    BY <1>3 DEF Refused
  <2>4. RefusedAwaits(k, l)
    BY <1>3 DEF Refused, RefusedAwaits
  <2>5. \A m \in Refused(k) : Len(m) >= 1
    BY <1>3 DEF Refused
  <2> QED
    BY <1>0, <2>2, <2>3, <2>4, <2>5, ShorterList
<1>4. CASE k \in {"register", "logout", "forgot", "list"}
  BY <1>4 DEF Refused
<1> QED
  BY <1>1, <1>2, <1>3, <1>4 DEF Kinds

\* What is left of a request that runs.
LEMMA Awaits ==
  ASSUME ShapeInv, NEW r \in Requests, Running(r)
  PROVE  /\ call[r] # None /\ call[r] \in Calls /\ call[r].kind \in Kinds
         /\ verdict[r] \in {"ok", "refused"} /\ TokenInv(r)
         /\ Shorter(call[r].kind, verdict[r], todo[r])
         /\ verdict[r] = "ok" => todo[r] \in Ok(call[r].kind) /\ OkAwaits(call[r].kind, todo[r])
         /\ verdict[r] = "refused" => RefusedAwaits(call[r].kind, todo[r])
<1>1. RequestInv(r)
  BY DEF ShapeInv
<1>2. /\ call[r] # None /\ call[r] \in Calls /\ call[r].kind \in Kinds /\ TokenInv(r)
      /\ todo[r] \in Left(call[r].kind, verdict[r]) /\ todo[r] # <<>>
      /\ verdict[r] \in {"ok", "refused", "error"}
  BY <1>1 DEF RequestInv, Running, Calls
<1>3. CASE verdict[r] = "ok"
  BY <1>2, <1>3, OkLists DEF Left
<1>4. CASE verdict[r] = "refused"
  BY <1>2, <1>4, RefusedLists DEF Left
<1>5. verdict[r] # "error"
  BY <1>2 DEF Left
<1> QED
  BY <1>2, <1>3, <1>4, <1>5
-------------------------------------------------------------------------------
(* What an await does                                                      *)

\* An await of r concerns r alone, apart from what is stored.
Goes(r) ==
  /\ call[r] # None /\ Running(r) /\ UNCHANGED <<call, before>>
  /\ todo' = [todo EXCEPT ![r] = todo'[r]]
  /\ verdict' = [verdict EXCEPT ![r] = verdict'[r]]
  /\ saw' = [saw EXCEPT ![r] = saw'[r]] /\ saw'[r] \in Copies
  /\ faults' \in 0 .. MaxFaults /\ faults <= faults'
  /\ todo'[r] \in Left(call[r].kind, verdict'[r]) /\ verdict'[r] \in {"ok", "refused", "error"}
  /\ verdict'[r] = "ok" => verdict[r] = "ok"
  /\ Rest(r)' <= Rest(r)

\* How much is left of r.
RestEffect(r) ==
  /\ /\ verdict'[r] = "ok" /\ call[r].kind \notin {"list", "use"}
     /\ call[r].kind = "forgot" => ~ At(r, "find")
     => Rest(r)' = Rest(r) - 1
  /\ verdict'[r] = "refused" /\ call[r].kind = "refresh" =>
       IF verdict[r] = "refused" THEN Rest(r)' = Rest(r) - 1
       ELSE At(r, "find") /\ Rest(r)' \in {1, 3}
  /\ verdict'[r] = "refused" /\ call[r].kind = "login" /\ Rest(r)' = 2 =>
       At(r, "find") \/ verdict[r] = "refused"

\* What r does to the account.
AccountEffect(r) ==
  /\ mailed' = mailed \/ (At(r, "mail") /\ verdict'[r] = "ok" /\ mailed' = mailed \cup {r})
  /\ user'.token \in {user.token, None} \/ (At(r, "store") /\ user'.token = r)
  /\ user'.verification \in {user.verification, None} \/ (At(r, "create") /\ user'.verification = r)
  /\ user'.reset \in {user.reset, None} \/ (At(r, "setReset") /\ user'.reset = r)
  /\ \/ user'.id = user.id
     \/ /\ user'.id = None \/ (At(r, "create") /\ verdict'[r] = "ok" /\ user'.id = r)
        /\ user'.token = None /\ user'.family = None /\ user'.reset = None
  /\ \/ user'.family \in {user.family, None}
     \/ At(r, "store") /\ user.id = saw[r].id /\ user'.family = saw[r].family
  /\ user'.token = None => user'.family = None \/ (user.token = None /\ user'.family = user.family)
  /\ At(r, "verify") /\ verdict'[r] = "ok" =>
       user.verification = call[r].token /\ user'.verification = None
  /\ At(r, "store") /\ verdict'[r] = "ok" /\ user.id = saw[r].id => user'.token = r
  /\ At(r, "clearReset") /\ verdict'[r] = "ok" /\ user.id = saw[r].id => user'.reset = None
  /\ At(r, "clear") /\ verdict'[r] # "error" /\ user.id = Subject(r) => user'.family = None
  /\ At(r, "delete") /\ verdict'[r] = "ok" =>
       user.id # None /\ user'.id = None /\ saw'[r].id = user.id

\* What r keeps of what it reads.
ReadEffect(r) ==
  /\ \/ saw'[r].id \in {saw[r].id, None, user.id}
     \/ At(r, "create") /\ verdict'[r] = "ok" /\ saw'[r].id = r
     \/ call[r].kind = "list" /\ listed # None /\ saw'[r].id \in listed
  /\ \/ saw'[r] = saw[r] \/ verdict'[r] = "error"
     \/ \E s \in {"find", "create", "delete", "get", "query"} : At(r, s)
  /\ call[r].kind = "refresh" =>
       saw'[r] \in {saw[r], NoCopy, [id |-> user.id, family |-> user.family]}
  /\ At(r, "find") => user' = user
  /\ At(r, "find") /\ call[r].kind = "login" /\ verdict'[r] = "ok" =>
       saw'[r].id # None /\ saw'[r].family = r
  /\ At(r, "find") /\ call[r].kind = "reset" /\ verdict'[r] = "ok" =>
       user.reset = call[r].token /\ saw'[r].id = user.id
  /\ At(r, "find") /\ call[r].kind = "refresh" =>
       /\ verdict'[r] = "ok" =>
            /\ user.id = Claims(call[r].token).id /\ user.token = call[r].token
            /\ saw'[r] = [id |-> user.id, family |-> user.family]
       /\ verdict'[r] = "refused" =>
            IF Rest(r)' = 3 THEN saw'[r].id = Claims(call[r].token).id
            ELSE user.id # Claims(call[r].token).id \/ user.token = None

\* What r does to the cached list.
CacheEffect(r) ==
  /\ listed' \in {listed, None} \/ (call[r].kind = "list" /\ listed' = {saw[r].id} \ {None})
  /\ At(r, "uncache") /\ verdict'[r] # "error" => listed' = None

\* What r does to the counters.
CountEffect(r) ==
  /\ failed' \in {failed, {}} \/ (At(r, "count") /\ failed' = failed \cup {r})
  /\ At(r, "check") /\ verdict'[r] = "ok" => failed' = failed /\ Cardinality(failed) < MaxAttempts
  /\ faults' = 0 /\ failed' # {} /\ ~ window' =>
       At(r, "expire")' \/ (failed # {} /\ ~ window /\ ~ At(r, "expire"))
  /\ ~ At(r, "enter")'
  /\ Enter(r) \/ SetLimitExpiry(r)
     \/ (UNCHANGED <<used, limited>> /\ (faults' = 0 => ~ At(r, "limit")))

Effect(r) ==
  /\ Goes(r) /\ RestEffect(r) /\ StoreInv'
  /\ AccountEffect(r) /\ ReadEffect(r) /\ CacheEffect(r) /\ CountEffect(r)

\* What r has seen is a copy, and it keeps it.
LEMMA SameCopy ==
  ASSUME ShapeInv, NEW r \in Requests
  PROVE  saw = [saw EXCEPT ![r] = saw[r]] /\ saw[r] \in Copies
  BY DEF ShapeInv

\* Proceed.
LEMMA Proceeding ==
  ASSUME ShapeInv, NEW r \in Requests, Running(r), Proceed(r), UNCHANGED <<call, before, faults>>,
         NEW c \in Copies, saw' = [saw EXCEPT ![r] = c]
  PROVE  /\ Goes(r) /\ RestEffect(r) /\ todo'[r] = Tail(todo[r]) /\ verdict'[r] = verdict[r]
         /\ saw'[r] = c
<1>1. todo'[r] = Tail(todo[r]) /\ saw'[r] = c /\ verdict'[r] = verdict[r]
  BY DEF Proceed, ShapeInv
<1>2. /\ Shorter(call[r].kind, verdict[r], todo[r]) /\ call[r] # None
      /\ verdict[r] \in {"ok", "refused"}
  BY Awaits
<1>3. Rest(r)' = Rest(r) - 1 /\ Rest(r) \in 1 .. 8
  BY <1>1, <1>2 DEF Rest, Shorter
<1>4. faults' \in 0 .. MaxFaults /\ faults <= faults'
  BY SessionsAssumption DEF ShapeInv
<1>5. Goes(r)
  BY <1>1, <1>2, <1>3, <1>4 DEF Goes, Proceed, Shorter, ShapeInv
<1>6. verdict[r] = "refused" /\ call[r].kind = "login" => Rest(r) <= 2
  BY Awaits DEF RefusedAwaits, Rest
<1>7. RestEffect(r)
  BY <1>1, <1>2, <1>3, <1>6 DEF RestEffect
<1> QED
  BY <1>1, <1>5, <1>7

\* Turn.
LEMMA Turning ==
  ASSUME ShapeInv, NEW r \in Requests, Running(r), NEW l, NEW v \in {"ok", "refused", "error"},
         Turn(r, l, v), l \in Left(call[r].kind, v), v = "ok" => verdict[r] = "ok",
         Len(l) \in Nat, Len(l) <= Len(todo[r]), UNCHANGED <<call, before>>,
         faults' \in 0 .. MaxFaults, faults <= faults',
         NEW c \in Copies, saw' = [saw EXCEPT ![r] = c]
  PROVE  Goes(r) /\ todo'[r] = l /\ verdict'[r] = v /\ saw'[r] = c /\ Rest(r)' = Len(l)
<1>1. todo'[r] = l /\ saw'[r] = c /\ verdict'[r] = v
  BY DEF Turn, ShapeInv
<1>2. call[r] # None
  BY Awaits
<1>3. Rest(r)' = Len(l)
  BY <1>1 DEF Rest
<1> QED
  BY <1>1, <1>2, <1>3 DEF Goes, Turn, ShapeInv, Rest

\* Turn, without a fault.
LEMMA TurningAside ==
  ASSUME ShapeInv, NEW r \in Requests, Running(r), NEW l, NEW v \in {"ok", "refused", "error"},
         Turn(r, l, v), l \in Left(call[r].kind, v), v = "ok" => verdict[r] = "ok",
         Len(l) \in Nat, Len(l) <= Len(todo[r]), UNCHANGED <<call, before, faults>>,
         NEW c \in Copies, saw' = [saw EXCEPT ![r] = c]
  PROVE  Goes(r) /\ todo'[r] = l /\ verdict'[r] = v /\ saw'[r] = c /\ Rest(r)' = Len(l)
<1>1. faults' \in 0 .. MaxFaults /\ faults <= faults'
  BY SessionsAssumption DEF ShapeInv
<1> QED
  BY <1>1, Turning

\* No step leads to the check of the limit.
LEMMA NoEnter ==
  ASSUME ShapeInv, NEW r \in Requests, Goes(r), call[r].kind # "use"
  PROVE  ~ At(r, "enter")'
<1>1. call[r].kind \in Kinds
  BY Awaits DEF Goes
<1>2. /\ todo'[r] \in {<<>>} \cup Ok(call[r].kind) \cup Refused(call[r].kind)
      /\ todo'[r] \in Ok(call[r].kind) => Head(todo'[r]) # "enter"
      /\ todo'[r] \in Refused(call[r].kind) => Head(todo'[r]) # "enter"
  BY <1>1, OkLists, RefusedLists DEF Goes, Left, OkAwaits, RefusedAwaits
<1> QED
  BY <1>2 DEF At, Running
\* A request is at one await.
LEMMA OneAwait == ASSUME NEW r, NEW s, NEW t, At(r, s), At(r, t) PROVE s = t
  BY DEF At

\* An await that does not write the account.
LEMMA QuietAccount ==
  ASSUME NEW r \in Requests, NEW s, At(r, s), UNCHANGED <<user, mailed>>,
         s \notin {"verify", "store", "clearReset", "clear", "delete"}
  PROVE  AccountEffect(r)
  BY OneAwait DEF AccountEffect

\* One that reads nothing.
LEMMA QuietRead ==
  ASSUME NEW r \in Requests, NEW s, At(r, s), saw'[r] = saw[r], s # "find"
  PROVE  ReadEffect(r)
  BY DEF ReadEffect, At

\* One that leaves the cached list alone.
LEMMA QuietCache ==
  ASSUME NEW r \in Requests, NEW s, At(r, s), UNCHANGED listed, s # "uncache"
  PROVE  CacheEffect(r)
  BY OneAwait DEF CacheEffect

\* One that counts nothing.
LEMMA QuietCount ==
  ASSUME ShapeInv, NEW r \in Requests, Goes(r), NEW s, At(r, s),
         UNCHANGED <<failed, window, used, limited>>,
         s \notin {"check", "count", "expire", "enter", "limit"}, call[r].kind # "use"
  PROVE  CountEffect(r)
<1>1. ~ At(r, "enter")'
  BY NoEnter
<1> QED
  BY <1>1, OneAwait DEF CountEffect

\* Nothing is stored anywhere.
LEMMA QuietStore == ASSUME StoreInv, UNCHANGED <<storeVars, redisVars>> PROVE StoreInv'
  BY DEF StoreInv, storeVars, redisVars

\* The lists that requests turn to.
LEMMA TurnLists ==
  /\ \A k, v : <<>> \in Left(k, v)
  /\ \A k \in {"login", "refresh", "verify", "reset"} : <<"audit">> \in Left(k, "refused")
  /\ <<"count", "audit">> \in Left("login", "refused")
  /\ <<"expire", "audit">> \in Left("login", "refused")
  /\ <<"audit", "clear", "uncache">> \in Left("refresh", "refused")
  /\ <<"uncache">> \in Left("delete", "refused")
  /\ <<"limit">> \in Left("use", "ok") /\ <<"limit">> \in Left("use", "refused")
  /\ Len(<<>>) = 0 /\ Len(<<"audit">>) = 1 /\ Len(<<"count", "audit">>) = 2
  /\ Len(<<"expire", "audit">>) = 2 /\ Len(<<"audit", "clear", "uncache">>) = 3
  /\ Len(<<"limit">>) = 1
  BY DEF Left, Ok, Refused

\* A search that ends in a refusal.
LEMMA Refusing ==
  ASSUME ShapeInv, NEW r \in Requests, Running(r), NEW l,
         Turn(r, l, "refused"), l \in Left(call[r].kind, "refused"), Len(l) \in 1 .. 3,
         Len(l) <= Len(todo[r]), UNCHANGED <<call, before, faults>>,
         NEW c \in Copies, saw' = [saw EXCEPT ![r] = c],
         At(r, "find"), call[r].kind = "refresh" => verdict[r] = "ok" /\ Len(l) \in {1, 3}
  PROVE  /\ Goes(r) /\ RestEffect(r) /\ verdict'[r] = "refused" /\ saw'[r] = c
         /\ Rest(r)' = Len(l)
<1>1. Len(l) \in Nat /\ "refused" \in {"ok", "refused", "error"}
  OBVIOUS
<1>2. "refused" = "ok" => verdict[r] = "ok"
  OBVIOUS
<1>3. Goes(r) /\ verdict'[r] = "refused" /\ saw'[r] = c /\ Rest(r)' = Len(l)
  BY <1>1, <1>2, TurningAside, Zenon
<1>4. RestEffect(r)
  BY <1>3 DEF RestEffect
<1> QED
  BY <1>3, <1>4

\* findByEmail of a registration.
LEMMA FindForRegisterEffect ==
  ASSUME StoreInv, ShapeInv, NEW r \in Requests, FindForRegister(r) PROVE Effect(r)
<1>1. /\ At(r, "find") /\ Running(r)
      /\ UNCHANGED <<storeVars, redisVars, call, saw, before, faults>>
      /\ UNCHANGED <<user, mailed, listed, failed, window, used, limited>>
      /\ call[r].kind = "register"
  BY DEF FindForRegister, At, storeVars, redisVars
<1>2. verdict[r] = "ok" /\ Len(todo[r]) = 7
  BY <1>1, Awaits DEF OkAwaits, RefusedAwaits, At
<1>3. Goes(r) /\ RestEffect(r) /\ saw'[r] = saw[r]
  <2>1. CASE Proceed(r)
    BY <1>1, <2>1, SameCopy, Proceeding
  <2>2. CASE Turn(r, <<>>, "refused")
    BY <1>1, <1>2, <2>2, SameCopy, TurnLists, TurningAside DEF RestEffect
  <2> QED
    BY <2>1, <2>2 DEF FindForRegister, Refuse
<1>4. StoreInv' /\ AccountEffect(r) /\ CacheEffect(r) /\ CountEffect(r)
  BY <1>1, <1>3, QuietStore, QuietAccount, QuietCache, QuietCount
<1>5. ReadEffect(r)
  BY <1>1, <1>3 DEF ReadEffect
<1> QED
  BY <1>3, <1>4, <1>5 DEF Effect

\* findByEmail of a login.
LEMMA FindForLoginEffect ==
  ASSUME StoreInv, ShapeInv, NEW r \in Requests, FindForLogin(r) PROVE Effect(r)
<1> DEFINE c == [id |-> user.id, family |-> r]
<1>1. /\ At(r, "find") /\ Running(r) /\ UNCHANGED <<storeVars, redisVars, call, before, faults>>
      /\ UNCHANGED <<user, mailed, listed, failed, window, used, limited>>
      /\ call[r].kind = "login" /\ saw' = [saw EXCEPT ![r] = c]
  BY DEF FindForLogin, At, storeVars, redisVars, See
<1>2. verdict[r] = "ok" /\ Len(todo[r]) = 5
  BY <1>1, Awaits DEF OkAwaits, RefusedAwaits, At
<1>3. c \in Copies
  BY DEF StoreInv, Users, Copies, OriginOrNone, Origins
<1> HIDE DEF c
<1>4. /\ Goes(r) /\ RestEffect(r) /\ saw'[r] = c
      /\ verdict'[r] = "ok" => user.id # None
  <2>1. CASE Proceed(r) /\ user.id # None
    BY <1>1, <1>3, <2>1, Proceeding
  <2>2. CASE Turn(r, <<"count", "audit">>, "refused")
    <3>1. /\ <<"count", "audit">> \in Left(call[r].kind, "refused")
          /\ Len(<<"count", "audit">>) \in 1 .. 3 /\ Len(<<"count", "audit">>) <= Len(todo[r])
          /\ Len(<<"count", "audit">>) = 2
          /\ call[r].kind = "refresh" => verdict[r] = "ok" /\ Len(<<"count", "audit">>) \in {1, 3}
      BY <1>1, <1>2, TurnLists
    <3>2. Goes(r) /\ RestEffect(r) /\ saw'[r] = c /\ verdict'[r] = "refused"
      BY <1>1, <1>2, <1>3, <2>2, <3>1, Refusing, Zenon
    <3> QED
      BY <3>2
  <2>3. CASE Turn(r, <<"audit">>, "refused")
    <3>1. /\ <<"audit">> \in Left(call[r].kind, "refused")
          /\ Len(<<"audit">>) \in 1 .. 3 /\ Len(<<"audit">>) <= Len(todo[r])
          /\ Len(<<"audit">>) = 1
          /\ call[r].kind = "refresh" => verdict[r] = "ok" /\ Len(<<"audit">>) \in {1, 3}
      BY <1>1, <1>2, TurnLists
    <3>2. Goes(r) /\ RestEffect(r) /\ saw'[r] = c /\ verdict'[r] = "refused"
      BY <1>1, <1>2, <1>3, <2>3, <3>1, Refusing, Zenon
    <3> QED
      BY <3>2
  <2> QED
    BY <2>1, <2>2, <2>3 DEF FindForLogin, Refuse
<1>5. StoreInv' /\ AccountEffect(r) /\ CacheEffect(r) /\ CountEffect(r)
  BY <1>1, <1>4, QuietStore, QuietAccount, QuietCache, QuietCount
<1>6. ReadEffect(r)
  BY <1>1, <1>4 DEF ReadEffect, c
<1> QED
  BY <1>4, <1>5, <1>6 DEF Effect

\* findByIdWithRefreshToken.
LEMMA FindForRefreshEffect ==
  ASSUME StoreInv, ShapeInv, NEW r \in Requests, FindForRefresh(r) PROVE Effect(r)
<1> DEFINE c == [id |-> user.id, family |-> user.family]
           t == Claims(call[r].token)
<1>1. /\ At(r, "find") /\ Running(r) /\ UNCHANGED <<storeVars, redisVars, call, before, faults>>
      /\ UNCHANGED <<user, mailed, listed, failed, window, used, limited>>
      /\ call[r].kind = "refresh" /\ saw' = [saw EXCEPT ![r] = c]
  BY DEF FindForRefresh, At, storeVars, redisVars, See
<1>2. verdict[r] = "ok" /\ Len(todo[r]) = 4
  BY <1>1, Awaits DEF OkAwaits, RefusedAwaits, At
<1>3. c \in Copies
  BY DEF StoreInv, Users, Copies, OriginOrNone, Origins
<1>4. /\ Goes(r) /\ RestEffect(r) /\ saw'[r] = c
      /\ verdict'[r] = "ok" => user.id = t.id /\ user.token = call[r].token
      /\ verdict'[r] = "refused" =>
           IF Rest(r)' = 3 THEN user.id = t.id ELSE user.id # t.id \/ user.token = None
  <2> HIDE DEF c, t
  <2>1. CASE Proceed(r) /\ user.id = t.id /\ user.token = call[r].token
    BY <1>1, <1>2, <1>3, <2>1, Proceeding
  <2>2. CASE Turn(r, <<"audit">>, "refused") /\ (user.id # t.id \/ user.token = None)
    <3>1. /\ <<"audit">> \in Left(call[r].kind, "refused")
          /\ Len(<<"audit">>) \in 1 .. 3 /\ Len(<<"audit">>) <= Len(todo[r])
          /\ Len(<<"audit">>) = 1
          /\ call[r].kind = "refresh" => verdict[r] = "ok" /\ Len(<<"audit">>) \in {1, 3}
      BY <1>1, <1>2, TurnLists
    <3>2. Goes(r) /\ RestEffect(r) /\ verdict'[r] = "refused" /\ saw'[r] = c /\ Rest(r)' = 1
      BY <1>1, <1>2, <1>3, <2>2, <3>1, Refusing, Zenon
    <3> QED
      BY <2>2, <3>2
  <2>3. CASE Turn(r, <<"audit", "clear", "uncache">>, "refused") /\ user.id = t.id
    <3>1. /\ <<"audit", "clear", "uncache">> \in Left(call[r].kind, "refused")
          /\ Len(<<"audit", "clear", "uncache">>) \in 1 .. 3
          /\ Len(<<"audit", "clear", "uncache">>) <= Len(todo[r])
          /\ Len(<<"audit", "clear", "uncache">>) = 3
          /\ call[r].kind = "refresh" =>
               verdict[r] = "ok" /\ Len(<<"audit", "clear", "uncache">>) \in {1, 3}
      BY <1>1, <1>2, TurnLists
    <3>2. Goes(r) /\ RestEffect(r) /\ verdict'[r] = "refused" /\ saw'[r] = c /\ Rest(r)' = 3
      BY <1>1, <1>2, <1>3, <2>3, <3>1, Refusing, Zenon
    <3> QED
      BY <2>3, <3>2
  <2> QED
    BY <2>1, <2>2, <2>3 DEF FindForRefresh, Refuse, t
<1>5. StoreInv' /\ AccountEffect(r) /\ CacheEffect(r) /\ CountEffect(r)
  BY <1>1, <1>4, QuietStore, QuietAccount, QuietCache, QuietCount
<1>6. ReadEffect(r)
  BY <1>1, <1>4 DEF ReadEffect
<1> QED
  BY <1>4, <1>5, <1>6 DEF Effect

\* findByEmailWithoutPassword.
LEMMA FindForForgotEffect ==
  ASSUME StoreInv, ShapeInv, NEW r \in Requests, FindForForgot(r) PROVE Effect(r)
<1> DEFINE c == [id |-> user.id, family |-> None]
<1>1. /\ At(r, "find") /\ Running(r) /\ UNCHANGED <<storeVars, redisVars, call, before, faults>>
      /\ UNCHANGED <<user, mailed, listed, failed, window, used, limited>>
      /\ call[r].kind = "forgot" /\ saw' = [saw EXCEPT ![r] = c]
  BY DEF FindForForgot, At, storeVars, redisVars, See
<1>2. verdict[r] = "ok" /\ Len(todo[r]) = 6
  BY <1>1, Awaits DEF OkAwaits, RefusedAwaits, At
<1>3. c \in Copies
  BY DEF StoreInv, Users, Copies, OriginOrNone, Origins
<1> HIDE DEF c
<1>4. Goes(r) /\ RestEffect(r) /\ saw'[r] = c
  <2>1. CASE Proceed(r)
    BY <1>1, <1>3, <2>1, Proceeding
  <2>2. CASE Turn(r, <<>>, "ok")
    <3>1. /\ <<>> \in Left(call[r].kind, "ok") /\ Len(<<>>) \in Nat /\ Len(<<>>) <= Len(todo[r])
          /\ "ok" \in {"ok", "refused", "error"}
      BY <1>2, TurnLists
    <3>2. Goes(r) /\ verdict'[r] = "ok" /\ saw'[r] = c
      BY <1>1, <1>2, <1>3, <2>2, <3>1, TurningAside, Zenon
    <3> QED
      BY <1>1, <3>2 DEF RestEffect
  <2> QED
    BY <2>1, <2>2 DEF FindForForgot
<1>5. StoreInv' /\ AccountEffect(r) /\ CacheEffect(r) /\ CountEffect(r)
  BY <1>1, <1>4, QuietStore, QuietAccount, QuietCache, QuietCount
<1>6. ReadEffect(r)
  BY <1>1, <1>4 DEF ReadEffect, c
<1> QED
  BY <1>4, <1>5, <1>6 DEF Effect

\* findByPasswordResetToken.
LEMMA FindForResetEffect ==
  ASSUME StoreInv, ShapeInv, NEW r \in Requests, FindForReset(r) PROVE Effect(r)
<1> DEFINE c == [id |-> user.id, family |-> None]
<1>1. /\ At(r, "find") /\ Running(r) /\ UNCHANGED <<storeVars, redisVars, call, before, faults>>
      /\ UNCHANGED <<user, mailed, listed, failed, window, used, limited>>
      /\ call[r].kind = "reset"
  BY DEF FindForReset, At, storeVars, redisVars
<1>2. verdict[r] = "ok" /\ Len(todo[r]) = 8
  BY <1>1, Awaits DEF OkAwaits, RefusedAwaits, At
<1>3. c \in Copies
  BY DEF StoreInv, Users, Copies, OriginOrNone, Origins
<1>4. CASE Turn(r, <<"audit">>, "refused") /\ UNCHANGED saw
  <2>0. /\ <<"audit">> \in Left(call[r].kind, "refused")
        /\ Len(<<"audit">>) \in 1 .. 3 /\ Len(<<"audit">>) <= Len(todo[r])
        /\ Len(<<"audit">>) = 1
        /\ call[r].kind = "refresh" => verdict[r] = "ok" /\ Len(<<"audit">>) \in {1, 3}
    BY <1>1, <1>2, TurnLists
  <2>1. Goes(r) /\ RestEffect(r) /\ saw'[r] = saw[r] /\ verdict'[r] = "refused"
    BY <1>1, <1>2, <1>4, <2>0, SameCopy, Refusing, Zenon
  <2>2. StoreInv' /\ AccountEffect(r) /\ CacheEffect(r) /\ CountEffect(r)
    BY <1>1, <2>1, QuietStore, QuietAccount, QuietCache, QuietCount
  <2>3. ReadEffect(r)
    BY <1>1, <2>1 DEF ReadEffect
  <2> QED
    BY <2>1, <2>2, <2>3 DEF Effect
<1>5. CASE Proceed(r) /\ saw' = [saw EXCEPT ![r] = c] /\ user.reset = call[r].token
  <2>1. Goes(r) /\ RestEffect(r) /\ saw'[r] = c
    BY <1>1, <1>3, <1>5, Proceeding
  <2>2. StoreInv' /\ AccountEffect(r) /\ CacheEffect(r) /\ CountEffect(r)
    BY <1>1, <2>1, QuietStore, QuietAccount, QuietCache, QuietCount
  <2>3. ReadEffect(r)
    BY <1>1, <1>5, <2>1 DEF ReadEffect
  <2> QED
    BY <2>1, <2>2, <2>3 DEF Effect
<1> QED
  BY <1>4, <1>5 DEF FindForReset, Refuse, See

\* createUser reads the account again.
LEMMA RereadEffect ==
  ASSUME StoreInv, ShapeInv, NEW r \in Requests, Reread(r) PROVE Effect(r)
<1>1. /\ At(r, "reread") /\ Running(r)
      /\ UNCHANGED <<storeVars, redisVars, call, saw, before, faults>>
      /\ UNCHANGED <<user, mailed, listed, failed, window, used, limited>>
  BY DEF Reread, At, storeVars, redisVars
<1>2. verdict[r] = "ok" /\ Len(todo[r]) = 5 /\ call[r].kind = "register"
  BY <1>1, Awaits DEF OkAwaits, RefusedAwaits, At
<1>3. Goes(r) /\ RestEffect(r) /\ saw'[r] = saw[r]
  <2>1. CASE Proceed(r)
    BY <1>1, <2>1, SameCopy, Proceeding
  <2>2. CASE Turn(r, <<>>, "error")
    BY <1>1, <1>2, <2>2, SameCopy, TurnLists, TurningAside DEF RestEffect
  <2> QED
    BY <2>1, <2>2 DEF Reread
<1>4. StoreInv' /\ AccountEffect(r) /\ ReadEffect(r) /\ CacheEffect(r) /\ CountEffect(r)
  BY <1>1, <1>2, <1>3, QuietStore, QuietAccount, QuietRead, QuietCache, QuietCount
<1> QED
  BY <1>3, <1>4 DEF Effect

\* An await that writes the account and goes on.
LEMMA Writing ==
  ASSUME StoreInv, ShapeInv, NEW r \in Requests, NEW s, At(r, s), Proceed(r),
         s \notin {"find", "uncache", "check", "count", "expire", "enter", "limit"},
         UNCHANGED <<expired, redisVars, call, saw, before, faults>>,
         user' \in Users, mailed' \subseteq Requests, AccountEffect(r)
  PROVE  Effect(r)
<1>1. UNCHANGED <<failed, window, used, limited, listed>>
  BY DEF redisVars
<1>2. Goes(r) /\ RestEffect(r) /\ saw'[r] = saw[r]
  BY SameCopy, Proceeding DEF At
<1>3. call[r].kind # "use"
  BY Awaits DEF OkAwaits, RefusedAwaits, At
<1>4. StoreInv'
  BY <1>1 DEF StoreInv
<1>5. ReadEffect(r) /\ CacheEffect(r) /\ CountEffect(r)
  BY <1>1, <1>2, <1>3, QuietRead, QuietCache, QuietCount
<1> QED
  BY <1>2, <1>4, <1>5 DEF Effect

\* findByIdAndUpdate writes a document.
LEMMA UpdatedUser ==
  ASSUME StoreInv
  PROVE  \A i :
           /\ \A f, t \in OriginOrNone :
                Updated(i, [user EXCEPT !.family = f, !.token = t]) \in Users
           /\ \A p \in Passwords \cup {None} : Updated(i, [user EXCEPT !.password = p]) \in Users
           /\ \A t \in OriginOrNone : Updated(i, [user EXCEPT !.reset = t]) \in Users
  BY DEF StoreInv, Users, Updated

\* updateRefreshToken.
LEMMA StoreTokenEffect ==
  ASSUME StoreInv, ShapeInv, NEW r \in Requests, StoreToken(r) PROVE Effect(r)
<1>1. saw[r].family \in OriginOrNone /\ r \in OriginOrNone /\ r # None
  BY SessionsAssumption DEF ShapeInv, Copies, OriginOrNone, Origins
<1>2. user' = Updated(saw[r].id, [user EXCEPT !.family = saw[r].family, !.token = r])
  BY DEF StoreToken
<1>3. user' \in Users /\ mailed' \subseteq Requests
  <2>1. user' \in Users
    BY <1>1, <1>2, UpdatedUser
  <2>2. mailed' = mailed /\ mailed \subseteq Requests
    BY DEF StoreToken, StoreInv
  <2> QED
    BY <2>1, <2>2
<1>4. AccountEffect(r)
  BY <1>1, <1>2, OneAwait DEF StoreToken, AccountEffect, Updated, StoreInv, Users
<1> QED
  BY <1>3, <1>4, Writing DEF StoreToken

\* clearRefreshToken.
LEMMA ClearTokenEffect ==
  ASSUME StoreInv, ShapeInv, NEW r \in Requests, ClearToken(r) PROVE Effect(r)
<1>1. None \in OriginOrNone
  BY DEF OriginOrNone
<1>2. user' = Updated(Subject(r), [user EXCEPT !.family = None, !.token = None])
  BY DEF ClearToken
<1>3. user' \in Users /\ mailed' \subseteq Requests
  <2>1. Updated(Subject(r), [user EXCEPT !.family = None, !.token = None]) \in Users
    BY <1>1, UpdatedUser, Zenon
  <2> QED
    BY <1>2, <2>1 DEF ClearToken, StoreInv
<1>4. AccountEffect(r)
  BY <1>2, OneAwait DEF ClearToken, AccountEffect, Updated, StoreInv, Users
<1> QED
  BY <1>3, <1>4, Writing DEF ClearToken

\* setPasswordResetToken.
LEMMA SetResetEffect ==
  ASSUME StoreInv, ShapeInv, NEW r \in Requests, SetReset(r) PROVE Effect(r)
<1>1. r \in OriginOrNone
  BY DEF OriginOrNone, Origins
<1>2. user' = Updated(saw[r].id, [user EXCEPT !.reset = r])
  BY DEF SetReset
<1>3. user' \in Users /\ mailed' \subseteq Requests
  BY <1>1, <1>2, UpdatedUser DEF SetReset, StoreInv
<1>4. AccountEffect(r)
  BY <1>2, OneAwait DEF SetReset, AccountEffect, Updated, StoreInv, Users
<1> QED
  BY <1>3, <1>4, Writing DEF SetReset

\* updatePassword.
LEMMA SetPasswordEffect ==
  ASSUME StoreInv, ShapeInv, NEW r \in Requests, SetPassword(r) PROVE Effect(r)
<1>1. call[r].password \in Passwords \cup {None}
  BY Awaits DEF SetPassword, At, Calls
<1>2. user' = Updated(saw[r].id, [user EXCEPT !.password = call[r].password])
  BY DEF SetPassword
<1>3. user' \in Users /\ mailed' \subseteq Requests
  BY <1>1, <1>2, UpdatedUser DEF SetPassword, StoreInv
<1>4. AccountEffect(r)
  BY <1>2, OneAwait DEF SetPassword, AccountEffect, Updated, StoreInv, Users
<1> QED
  BY <1>3, <1>4, Writing DEF SetPassword

\* clearPasswordResetToken.
LEMMA ClearResetEffect ==
  ASSUME StoreInv, ShapeInv, NEW r \in Requests, ClearReset(r) PROVE Effect(r)
<1>1. None \in OriginOrNone
  BY DEF OriginOrNone
<1>2. user' = Updated(saw[r].id, [user EXCEPT !.reset = None])
  BY DEF ClearReset
<1>3. user' \in Users /\ mailed' \subseteq Requests
  BY <1>1, <1>2, UpdatedUser DEF ClearReset, StoreInv
<1>4. AccountEffect(r)
  BY <1>2, OneAwait DEF ClearReset, AccountEffect, Updated, StoreInv, Users
<1> QED
  BY <1>3, <1>4, Writing DEF ClearReset

\* The record of a delivery, or of the audit log.
LEMMA RecordEffect ==
  ASSUME StoreInv, ShapeInv, NEW r \in Requests, Record(r) PROVE Effect(r)
<1>1. UNCHANGED <<user, expired, mailed>> /\ Proceed(r)
  BY DEF Record, storeVars
<1>2. user' \in Users /\ mailed' \subseteq Requests
  BY <1>1 DEF StoreInv
<1>3. PICK s \in {"deliver", "audit"} : At(r, s)
  BY DEF Record
<1>4. AccountEffect(r)
  BY <1>1, <1>3, QuietAccount
<1> QED
  BY <1>1, <1>2, <1>3, <1>4, Writing DEF Record

\* The request of an e-mail.
LEMMA MailEffect ==
  ASSUME StoreInv, ShapeInv, NEW r \in Requests, Mail(r) PROVE Effect(r)
<1>1. user' \in Users /\ mailed' \subseteq Requests
  BY DEF Mail, StoreInv
<1>2. AccountEffect(r)
  <2>1. verdict[r] = "ok"
    BY Awaits DEF RefusedAwaits, Mail, At
  <2> QED
    BY <2>1, OneAwait DEF Mail, Proceed, AccountEffect
<1> QED
  BY <1>1, <1>2, Writing DEF Mail

\* create, behind the unique index.
LEMMA CreateEffect ==
  ASSUME StoreInv, ShapeInv, NEW r \in Requests, Create(r) PROVE Effect(r)
<1> DEFINE c == [id |-> r, family |-> None]
<1>1. /\ At(r, "create") /\ Running(r)
      /\ UNCHANGED <<expired, mailed, redisVars, call, before, faults>>
      /\ UNCHANGED <<mailed, listed, failed, window, used, limited>>
  BY DEF Create, At, redisVars
<1>2. verdict[r] = "ok" /\ Len(todo[r]) = 6 /\ call[r].kind = "register" /\ call[r] \in Calls
  BY <1>1, Awaits DEF OkAwaits, RefusedAwaits, At
<1>3. c \in Copies /\ r \in OriginOrNone /\ None \in OriginOrNone
  BY DEF Copies, OriginOrNone, Origins
<1>4. CASE Turn(r, <<>>, "error") /\ UNCHANGED <<user, saw>>
  <2>0. /\ <<>> \in Left(call[r].kind, "error") /\ Len(<<>>) \in Nat /\ Len(<<>>) <= Len(todo[r])
        /\ "error" \in {"ok", "refused", "error"} /\ "error" # "ok"
    BY <1>2, TurnLists
  <2>1. Goes(r) /\ saw'[r] = saw[r] /\ verdict'[r] = "error"
    <3>1. saw' = [saw EXCEPT ![r] = saw[r]] /\ saw[r] \in Copies
      BY <1>4, SameCopy
    <3>2. UNCHANGED <<call, before, faults>>
      BY <1>1
    <3> QED
      BY <1>1, <1>4, <2>0, <3>1, <3>2, TurningAside, Zenon
  <2>2. RestEffect(r)
    BY <2>1 DEF RestEffect
  <2>3. StoreInv' /\ AccountEffect(r) /\ ReadEffect(r) /\ CacheEffect(r) /\ CountEffect(r)
    BY <1>1, <1>2, <1>4, <2>1, QuietStore, QuietAccount, QuietRead, QuietCache, QuietCount
       DEF storeVars
  <2> QED
    BY <2>1, <2>2, <2>3 DEF Effect
<1>5. CASE /\ user' = [NoUser EXCEPT !.id = r, !.password = call[r].password, !.verification = r]
           /\ user.id = None /\ Proceed(r) /\ saw' = [saw EXCEPT ![r] = c]
  <2>1. Goes(r) /\ RestEffect(r) /\ saw'[r] = c /\ verdict'[r] = "ok"
    BY <1>1, <1>2, <1>3, <1>5, Proceeding
  <2>2. user' \in Users
    BY <1>2, <1>3, <1>5 DEF NoUser, Users, Calls
  <2>3. StoreInv'
    BY <1>1, <2>2 DEF StoreInv, Create
  <2>4. CacheEffect(r) /\ CountEffect(r)
    BY <1>1, <1>2, <2>1, QuietCache, QuietCount
  <2>5. AccountEffect(r)
    BY <1>1, <1>5, <2>1, OneAwait DEF AccountEffect, NoUser
  <2>6. ReadEffect(r)
    BY <1>1, <1>2, <2>1, OneAwait DEF ReadEffect
  <2> QED
    BY <2>1, <2>3, <2>4, <2>5, <2>6 DEF Effect
<1> QED
  BY <1>4, <1>5 DEF Create, See

\* verifyEmail.
LEMMA VerifyEmailEffect ==
  ASSUME StoreInv, ShapeInv, NEW r \in Requests, VerifyEmail(r) PROVE Effect(r)
<1>1. /\ At(r, "verify") /\ Running(r)
      /\ UNCHANGED <<expired, mailed, redisVars, call, saw, before, faults>>
      /\ UNCHANGED <<mailed, listed, failed, window, used, limited>>
  BY DEF VerifyEmail, At, redisVars
<1>2. verdict[r] = "ok" /\ Len(todo[r]) = 3 /\ call[r].kind = "verify"
  BY <1>1, Awaits DEF OkAwaits, RefusedAwaits, At
<1>3. CASE Turn(r, <<"audit">>, "refused") /\ UNCHANGED user
  <2>0. /\ <<"audit">> \in Left(call[r].kind, "refused") /\ Len(<<"audit">>) \in Nat
        /\ Len(<<"audit">>) <= Len(todo[r])
        /\ "refused" \in {"ok", "refused", "error"} /\ "refused" # "ok"
    BY <1>2, TurnLists
  <2>1. Goes(r) /\ saw'[r] = saw[r] /\ verdict'[r] = "refused"
    <3>1. saw' = [saw EXCEPT ![r] = saw[r]] /\ saw[r] \in Copies
      BY <1>1, SameCopy
    <3> QED
      BY <1>1, <1>2, <1>3, <2>0, <3>1, TurningAside, Zenon
  <2>2. RestEffect(r)
    BY <1>2, <2>1 DEF RestEffect
  <2>3. AccountEffect(r)
    BY <1>1, <1>3, <2>1, OneAwait DEF AccountEffect
  <2>4. StoreInv' /\ ReadEffect(r) /\ CacheEffect(r) /\ CountEffect(r)
    BY <1>1, <1>2, <1>3, <2>1, QuietStore, QuietRead, QuietCache, QuietCount DEF storeVars
  <2> QED
    BY <2>1, <2>2, <2>3, <2>4 DEF Effect
<1>4. CASE /\ user' = [user EXCEPT !.verified = TRUE, !.verification = None] /\ Proceed(r)
           /\ user.verification = call[r].token
  <2>1. user' \in Users /\ mailed' \subseteq Requests
    BY <1>1, <1>4 DEF StoreInv, Users, OriginOrNone
  <2>2. AccountEffect(r)
    BY <1>1, <1>2, <1>4, OneAwait DEF AccountEffect, StoreInv, Users
  <2> QED
    BY <1>1, <1>4, <2>1, <2>2, Writing
<1> QED
  BY <1>3, <1>4 DEF VerifyEmail, Refuse

\* deleteUser.
LEMMA DeleteEffect ==
  ASSUME StoreInv, ShapeInv, NEW r \in Requests, Delete(r) PROVE Effect(r)
<1> DEFINE c == [id |-> user.id, family |-> None]
<1>1. /\ At(r, "delete") /\ Running(r)
      /\ UNCHANGED <<expired, mailed, redisVars, call, before, faults>>
      /\ UNCHANGED <<expired, mailed, listed, failed, window, used, limited>>
      /\ saw' = [saw EXCEPT ![r] = c] /\ user' = NoUser
  BY DEF Delete, At, redisVars, See
<1>2. /\ verdict[r] = "ok" /\ Len(todo[r]) = 2 /\ call[r].kind = "delete"
      /\ Shorter(call[r].kind, verdict[r], todo[r]) /\ todo[r] \in Ok(call[r].kind)
  BY <1>1, Awaits DEF OkAwaits, RefusedAwaits, At
<1>3. c \in Copies /\ NoUser \in Users
  BY DEF StoreInv, Users, Copies, OriginOrNone, Origins, NoUser
<1>4. /\ Goes(r) /\ RestEffect(r) /\ saw'[r] = c
      /\ verdict'[r] = "ok" => user.id # None
  <2> HIDE DEF c
  <2>1. CASE user.id = None /\ Turn(r, Tail(todo[r]), "refused")
    <3>1. todo[r] = <<"delete", "uncache">>
      BY <1>2 DEF Ok
    <3>2. Tail(todo[r]) = <<"uncache">>
      BY <3>1
    <3>3. /\ Tail(todo[r]) \in Left(call[r].kind, "refused")
          /\ Len(Tail(todo[r])) \in Nat /\ Len(Tail(todo[r])) <= Len(todo[r])
          /\ "refused" \in {"ok", "refused", "error"} /\ "refused" # "ok"
      <4>1. Len(Tail(todo[r])) = 1
        BY <1>2 DEF Shorter
      <4>2. <<"uncache">> \in Left(call[r].kind, "refused")
        BY <1>2, TurnLists
      <4>3. Len(Tail(todo[r])) \in Nat /\ Len(Tail(todo[r])) <= Len(todo[r])
        <5>1. \A m, n : m = 1 /\ n = 2 => m \in Nat /\ m <= n
          OBVIOUS
        <5> QED
          BY <1>2, <4>1, <5>1, Zenon
      <4> QED
        BY <3>2, <4>2, <4>3
    <3>4. Goes(r) /\ saw'[r] = c /\ verdict'[r] = "refused"
      BY <1>1, <1>2, <1>3, <2>1, <3>3, TurningAside, Zenon
    <3> QED
      BY <1>2, <3>4 DEF RestEffect
  <2>2. CASE user.id # None /\ Proceed(r)
    BY <1>1, <1>3, <2>2, Proceeding
  <2> QED
    BY <2>1, <2>2 DEF Delete, Refuse
<1>5. StoreInv'
  BY <1>1, <1>3 DEF StoreInv
<1>6. AccountEffect(r)
  BY <1>1, <1>4, OneAwait DEF AccountEffect, NoUser
<1>7. ReadEffect(r)
  BY <1>1, <1>2, <1>4, OneAwait DEF ReadEffect
<1>8. CacheEffect(r) /\ CountEffect(r)
  BY <1>1, <1>2, <1>4, QuietCache, QuietCount
<1> QED
  BY <1>4, <1>5, <1>6, <1>7, <1>8 DEF Effect

\* isBlocked.
LEMMA CheckBlockedEffect ==
  ASSUME StoreInv, ShapeInv, NEW r \in Requests, CheckBlocked(r) PROVE Effect(r)
<1>1. /\ At(r, "check") /\ Running(r)
      /\ UNCHANGED <<storeVars, redisVars, call, saw, before, faults>>
      /\ UNCHANGED <<user, mailed, listed, failed, window, used, limited>>
  BY DEF CheckBlocked, At, storeVars, redisVars
<1>2. verdict[r] = "ok" /\ Len(todo[r]) = 6 /\ call[r].kind = "login"
  BY <1>1, Awaits DEF OkAwaits, RefusedAwaits, At
<1>3. /\ Goes(r) /\ RestEffect(r) /\ saw'[r] = saw[r] /\ faults' = faults
      /\ verdict'[r] = "ok" => ~ Blocked
  <2>1. CASE Blocked /\ Turn(r, <<"audit">>, "refused")
    <3>1. /\ <<"audit">> \in Left(call[r].kind, "refused") /\ Len(<<"audit">>) \in Nat
          /\ Len(<<"audit">>) <= Len(todo[r]) /\ Len(<<"audit">>) = 1
          /\ "refused" \in {"ok", "refused", "error"} /\ "refused" # "ok"
      BY <1>2, TurnLists
    <3>2. Goes(r) /\ saw'[r] = saw[r] /\ verdict'[r] = "refused" /\ Rest(r)' = 1
      <4>1. /\ saw' = [saw EXCEPT ![r] = saw[r]] /\ saw[r] \in Copies
            /\ UNCHANGED <<call, before, faults>> /\ Running(r)
        BY <1>1, SameCopy
      <4>2. Goes(r) /\ saw'[r] = saw[r] /\ verdict'[r] = "refused" /\ Rest(r)' = Len(<<"audit">>)
        BY <2>1, <3>1, <4>1, TurningAside, Zenon
      <4> QED
        BY <3>1, <4>2
    <3> QED
      BY <1>1, <1>2, <3>2 DEF RestEffect
  <2>2. CASE ~ Blocked /\ Proceed(r)
    BY <1>1, <2>2, SameCopy, Proceeding
  <2> QED
    BY <2>1, <2>2 DEF CheckBlocked, Refuse
<1>4. Cardinality(failed) \in Nat
  BY SessionsAssumption, FS_Subset, FS_CardinalityType DEF StoreInv
<1>5. CountEffect(r)
  <2>1. ~ At(r, "enter")'
    BY <1>2, <1>3, NoEnter
  <2>2. Cardinality(failed) < MaxAttempts \/ Blocked
    BY <1>4, SessionsAssumption DEF Blocked
  <2> QED
    BY <1>1, <1>3, <2>1, <2>2, OneAwait DEF CountEffect
<1>6. StoreInv' /\ AccountEffect(r) /\ ReadEffect(r) /\ CacheEffect(r)
  BY <1>1, <1>3, QuietStore, QuietAccount, QuietRead, QuietCache
<1> QED
  BY <1>3, <1>5, <1>6 DEF Effect

\* Two lists of one step each.
LEMMA Joined == ASSUME NEW x, NEW y PROVE <<x>> \o <<y>> = <<x, y>>
<1> DEFINE S == {x, y}
<1>1. <<x>> \o <<y>> \in Seq(S) /\ <<x, y>> \in Seq(S)
  OBVIOUS
<1>2. /\ Len(<<x>> \o <<y>>) = 2 /\ Len(<<x, y>>) = 2
      /\ \A i \in 1 .. 2 : (<<x>> \o <<y>>)[i] = <<x, y>>[i]
  OBVIOUS
<1> HIDE DEF S
<1> QED
  BY <1>1, <1>2, SeqEqual

\* INCR of the failures.
LEMMA CountFailureEffect ==
  ASSUME StoreInv, ShapeInv, NEW r \in Requests, CountFailure(r) PROVE Effect(r)
<1>1. /\ At(r, "count") /\ Running(r) /\ UNCHANGED <<storeVars, call, verdict, saw, before, faults>>
      /\ UNCHANGED <<user, expired, mailed, listed, window, used, limited>>
      /\ failed' = failed \cup {r}
      /\ todo' = [todo EXCEPT ![r] = IF failed = {} THEN <<"expire">> \o Tail(@) ELSE Tail(@)]
  BY DEF CountFailure, At, storeVars
<1>2. /\ verdict[r] = "refused" /\ Len(todo[r]) = 2 /\ call[r].kind = "login"
      /\ call[r] # None /\ Shorter(call[r].kind, verdict[r], todo[r])
  BY <1>1, Awaits DEF OkAwaits, RefusedAwaits, At
<1>3. todo[r] \in Refused("login")
  BY <1>1, <1>2 DEF ShapeInv, RequestInv, Left, Running
<1>4. todo[r] = <<"count", "audit">>
  BY <1>1, <1>3 DEF Refused, At
<1>5. <<"expire">> \o Tail(todo[r]) = <<"expire", "audit">>
  <2>1. Tail(<<"count", "audit">>) = <<"audit">>
    OBVIOUS
  <2> QED
    BY <1>4, <2>1, Joined
<1>6. /\ <<"expire", "audit">> \in Left("login", "refused") /\ Len(<<"expire", "audit">>) = 2
      /\ <<"expire", "audit">> # <<>> /\ Head(<<"expire", "audit">>) = "expire"
  BY TurnLists
<1>7. todo'[r] = (IF failed = {} THEN <<"expire", "audit">> ELSE Tail(todo[r]))
  BY <1>1, <1>5 DEF ShapeInv
<1>8. todo'[r] \in Left(call[r].kind, "refused") /\ Rest(r)' \in {1, 2}
  <2>1. Tail(todo[r]) \in Left(call[r].kind, "refused") /\ Len(Tail(todo[r])) = 1
    BY <1>2 DEF Shorter
  <2> QED
    BY <1>2, <1>6, <1>7, <2>1 DEF Rest
<1>9. saw' = [saw EXCEPT ![r] = saw'[r]] /\ saw'[r] = saw[r] /\ saw'[r] \in Copies
  BY <1>1, SameCopy
<1>10. Goes(r)
  <2>1. faults' \in 0 .. MaxFaults /\ faults <= faults'
    BY <1>1, SessionsAssumption DEF ShapeInv
  <2>2. todo' = [todo EXCEPT ![r] = todo'[r]]
    BY <1>1 DEF ShapeInv
  <2>3. /\ verdict' = [verdict EXCEPT ![r] = verdict'[r]] /\ verdict'[r] = "refused"
        /\ "refused" # "ok" /\ "refused" \in {"ok", "refused", "error"}
    BY <1>1, <1>2 DEF ShapeInv
  <2>4. UNCHANGED <<call, before>> /\ Rest(r)' <= Rest(r)
    <3>1. Rest(r) = 2
      BY <1>2 DEF Rest
    <3> QED
      BY <1>1, <1>8, <3>1
  <2> QED
    BY <1>1, <1>2, <1>8, <1>9, <2>1, <2>2, <2>3, <2>4, Zenon DEF Goes
<1>11. RestEffect(r)
  BY <1>1, <1>2 DEF RestEffect
<1>12. CountEffect(r)
  <2>1. ~ At(r, "enter")'
    BY <1>2, <1>10, NoEnter
  <2>2. failed = {} => At(r, "expire")'
    BY <1>6, <1>7 DEF At, Running
  <2> QED
    BY <1>1, <2>1, <2>2, OneAwait DEF CountEffect
<1>13. StoreInv'
  BY <1>1 DEF StoreInv
<1>14. AccountEffect(r) /\ ReadEffect(r) /\ CacheEffect(r)
  BY <1>1, <1>9, QuietAccount, QuietRead, QuietCache
<1> QED
  BY <1>10, <1>11, <1>12, <1>13, <1>14 DEF Effect

\* EXPIRE of the failures.
LEMMA SetExpiryEffect ==
  ASSUME StoreInv, ShapeInv, NEW r \in Requests, SetExpiry(r) PROVE Effect(r)
<1>1. /\ At(r, "expire") /\ Running(r) /\ UNCHANGED <<storeVars, call, saw, before, faults>>
      /\ UNCHANGED <<user, expired, mailed, listed, failed, used, limited>>
      /\ window' = (failed # {}) /\ Proceed(r)
  BY DEF SetExpiry, At, storeVars
<1>2. call[r].kind = "login"
  BY <1>1, Awaits DEF OkAwaits, RefusedAwaits, At
<1>3. Goes(r) /\ RestEffect(r) /\ saw'[r] = saw[r]
  BY <1>1, SameCopy, Proceeding
<1>4. StoreInv'
  BY <1>1 DEF StoreInv
<1>5. CountEffect(r)
  <2>1. ~ At(r, "enter")'
    BY <1>2, <1>3, NoEnter
  <2> QED
    BY <1>1, <2>1, OneAwait DEF CountEffect
<1>6. AccountEffect(r) /\ ReadEffect(r) /\ CacheEffect(r)
  BY <1>1, <1>3, QuietAccount, QuietRead, QuietCache
<1> QED
  BY <1>3, <1>4, <1>5, <1>6 DEF Effect

\* DEL of the failures.
LEMMA ForgiveEffect ==
  ASSUME StoreInv, ShapeInv, NEW r \in Requests, Forgive(r) PROVE Effect(r)
<1>1. /\ At(r, "forgive") /\ Running(r) /\ UNCHANGED <<storeVars, call, saw, before, faults>>
      /\ UNCHANGED <<user, expired, mailed, listed, used, limited>>
      /\ failed' = {} /\ window' = FALSE /\ Proceed(r)
  BY DEF Forgive, At, storeVars
<1>2. call[r].kind = "login"
  BY <1>1, Awaits DEF OkAwaits, RefusedAwaits, At
<1>3. Goes(r) /\ RestEffect(r) /\ saw'[r] = saw[r]
  BY <1>1, SameCopy, Proceeding
<1>4. StoreInv'
  BY <1>1 DEF StoreInv
<1>5. CountEffect(r)
  <2>1. ~ At(r, "enter")'
    BY <1>2, <1>3, NoEnter
  <2> QED
    BY <1>1, <2>1, OneAwait DEF CountEffect
<1>6. AccountEffect(r) /\ ReadEffect(r) /\ CacheEffect(r)
  BY <1>1, <1>3, QuietAccount, QuietRead, QuietCache
<1> QED
  BY <1>3, <1>4, <1>5, <1>6 DEF Effect

\* INCR of the requests of a user.
LEMMA EnterEffect ==
  ASSUME StoreInv, ShapeInv, NEW r \in Requests, Enter(r) PROVE Effect(r)
<1> DEFINE n == Cardinality(Uses(UserOf(r)) \cup {r})
<1>1. /\ At(r, "enter") /\ Running(r) /\ UNCHANGED <<storeVars, call, saw, before, faults>>
      /\ UNCHANGED <<user, expired, mailed, listed, failed, window, limited>>
      /\ used' = used \cup {r}
  BY DEF Enter, At, storeVars
<1>2. verdict[r] = "ok" /\ Len(todo[r]) = 1 /\ call[r].kind = "use"
  BY <1>1, Awaits DEF OkAwaits, RefusedAwaits, At
<1>3. PICK l, v : l \in {<<"limit">>, <<>>} /\ v \in {"ok", "refused"} /\ Turn(r, l, v)
  <2>1. Turn(r, IF n = 1 THEN <<"limit">> ELSE <<>>, IF n <= MaxUses THEN "ok" ELSE "refused")
    BY DEF Enter
  <2> QED
    BY <2>1
<1>4. /\ l \in Left(call[r].kind, v) /\ Len(l) \in Nat /\ Len(l) <= Len(todo[r])
      /\ v \in {"ok", "refused", "error"} /\ (v = "ok" => verdict[r] = "ok")
      /\ l # <<>> => Head(l) = "limit"
  <2>1. CASE l = <<"limit">>
    <3>1. l \in Left(call[r].kind, v) /\ Len(l) = 1
      BY <1>2, <1>3, <2>1, TurnLists
    <3> QED
      BY <1>2, <1>3, <2>1, <3>1
  <2>2. CASE l = <<>>
    <3>1. l \in Left(call[r].kind, v) /\ Len(l) = 0
      BY <1>3, <2>2, TurnLists
    <3> QED
      BY <1>2, <1>3, <2>2, <3>1
  <2> QED
    BY <1>3, <2>1, <2>2
<1>5. saw' = [saw EXCEPT ![r] = saw[r]] /\ saw[r] \in Copies
  BY <1>1, SameCopy
<1>6. Goes(r) /\ saw'[r] = saw[r] /\ verdict'[r] = v /\ todo'[r] = l
  <2>1. UNCHANGED <<call, before, faults>> /\ Running(r)
    BY <1>1
  <2>2. (v = "ok" => verdict[r] = "ok") /\ v \in {"ok", "refused", "error"} /\ Turn(r, l, v)
    BY <1>3, <1>4
  <2>3. l \in Left(call[r].kind, v) /\ Len(l) \in Nat /\ Len(l) <= Len(todo[r])
    BY <1>4
  <2> QED
    BY <1>5, <2>1, <2>2, <2>3, TurningAside, Zenon
<1>7. RestEffect(r)
  BY <1>2 DEF RestEffect
<1>8. StoreInv'
  BY <1>1 DEF StoreInv
<1>9. CountEffect(r)
  <2>1. ~ At(r, "enter")'
    BY <1>4, <1>6 DEF At, Running
  <2> QED
    BY <1>1, <2>1, OneAwait DEF CountEffect
<1>10. AccountEffect(r) /\ ReadEffect(r) /\ CacheEffect(r)
  BY <1>1, <1>6, QuietAccount, QuietRead, QuietCache
<1> QED
  BY <1>6, <1>7, <1>8, <1>9, <1>10 DEF Effect

\* An answered token names an account.
LEMMA NamedByToken ==
  ASSUME ShapeInv, NEW t, t = First \/ Given(t)
  PROVE  Claims(t).id \in Origins
<1>1. CASE t = First
  BY <1>1 DEF Claims, Origins
<1>2. CASE t # First /\ Given(t)
  <2>1. /\ t \in Requests /\ call[t] # None /\ todo[t] = <<>> /\ verdict[t] = "ok"
        /\ call[t].kind \in {"login", "refresh"} /\ SessionInv(t) /\ saw[t] \in Copies
    BY <1>2 DEF Given, Ended, Running, ShapeInv, RequestInv
  <2>2. Len(<<>>) = 0
    OBVIOUS
  <2>3. saw[t].id # None
    BY <2>1, <2>2 DEF SessionInv
  <2> QED
    BY <1>2, <2>1, <2>3 DEF Claims, Copies, OriginOrNone
<1> QED
  BY <1>1, <1>2

\* EXPIRE of the requests of a user.
LEMMA SetLimitExpiryEffect ==
  ASSUME StoreInv, ShapeInv, NEW r \in Requests, SetLimitExpiry(r) PROVE Effect(r)
<1>1. /\ At(r, "limit") /\ Running(r) /\ UNCHANGED <<storeVars, call, saw, before, faults>>
      /\ UNCHANGED <<user, expired, mailed, listed, failed, window, used>>
      /\ limited' \in {limited, limited \cup {UserOf(r)}} /\ Proceed(r)
  BY DEF SetLimitExpiry, At, storeVars
<1>2. /\ call[r].kind = "use" /\ Len(todo[r]) = 1 /\ TokenInv(r)
      /\ Shorter(call[r].kind, verdict[r], todo[r])
  BY <1>1, Awaits DEF OkAwaits, RefusedAwaits, At
<1>3. Goes(r) /\ RestEffect(r) /\ saw'[r] = saw[r] /\ todo'[r] = Tail(todo[r])
  BY <1>1, SameCopy, Proceeding
<1>4. UserOf(r) \in Origins
  BY <1>2, NamedByToken DEF TokenInv, UserOf
<1>5. StoreInv'
  BY <1>1, <1>4 DEF StoreInv
<1>6. CountEffect(r)
  <2>1. ~ At(r, "enter")'
    BY <1>2, <1>3 DEF At, Running, Shorter
  <2> QED
    BY <1>1, <2>1, OneAwait DEF CountEffect
<1>7. AccountEffect(r) /\ ReadEffect(r) /\ CacheEffect(r)
  BY <1>1, <1>3, QuietAccount, QuietRead, QuietCache
<1> QED
  BY <1>3, <1>5, <1>6, <1>7 DEF Effect

\* cacheManager.get.
LEMMA GetListEffect ==
  ASSUME StoreInv, ShapeInv, NEW r \in Requests, GetList(r) PROVE Effect(r)
<1> DEFINE c == [id |-> IF listed = {} THEN None ELSE CHOOSE i \in listed : TRUE,
                 family |-> None]
<1>1. /\ At(r, "get") /\ Running(r) /\ UNCHANGED <<storeVars, redisVars, call, before, faults>>
      /\ UNCHANGED <<user, mailed, listed, failed, window, used, limited>>
  BY DEF GetList, At, storeVars, redisVars
<1>2. verdict[r] = "ok" /\ Len(todo[r]) = 3 /\ call[r].kind = "list"
  BY <1>1, Awaits DEF OkAwaits, RefusedAwaits, At
<1>3. CASE Proceed(r) /\ UNCHANGED saw
  <2>1. Goes(r) /\ RestEffect(r) /\ saw'[r] = saw[r]
    BY <1>1, <1>3, SameCopy, Proceeding
  <2>2. StoreInv' /\ AccountEffect(r) /\ ReadEffect(r) /\ CacheEffect(r) /\ CountEffect(r)
    BY <1>1, <1>2, <2>1, QuietStore, QuietAccount, QuietRead, QuietCache, QuietCount
  <2> QED
    BY <2>1, <2>2 DEF Effect
<1>4. CASE listed # None /\ Turn(r, <<>>, "ok") /\ saw' = [saw EXCEPT ![r] = c]
  <2>1. listed \in SUBSET Origins
    BY <1>4 DEF StoreInv
  <2>2. c.id = None \/ c.id \in listed
    <3>1. CASE listed = {}
      BY <3>1
    <3>2. CASE listed # {}
      <4>1. (CHOOSE i \in listed : TRUE) \in listed
        BY <3>2
      <4> QED
        BY <3>2, <4>1
    <3> QED
      BY <3>1, <3>2
  <2>3. c \in Copies
    <3>1. c = [id |-> c.id, family |-> None]
      OBVIOUS
    <3>2. c.id \in OriginOrNone
      BY <2>1, <2>2 DEF OriginOrNone
    <3> HIDE DEF c
    <3> QED
      BY <3>1, <3>2 DEF Copies, OriginOrNone
  <2> HIDE DEF c
  <2>4. /\ <<>> \in Left(call[r].kind, "ok") /\ Len(<<>>) \in Nat /\ Len(<<>>) <= Len(todo[r])
        /\ "ok" \in {"ok", "refused", "error"}
    BY <1>2, TurnLists
  <2>5. Goes(r) /\ verdict'[r] = "ok" /\ saw'[r] = c
    BY <1>1, <1>2, <1>4, <2>3, <2>4, TurningAside, Zenon
  <2>6. RestEffect(r)
    BY <1>2, <2>5 DEF RestEffect
  <2>7. ReadEffect(r)
    BY <1>1, <1>2, <1>4, <2>2, <2>5, OneAwait DEF ReadEffect
  <2>8. StoreInv' /\ AccountEffect(r) /\ CacheEffect(r) /\ CountEffect(r)
    BY <1>1, <1>2, <2>5, QuietStore, QuietAccount, QuietCache, QuietCount
  <2> QED
    BY <2>5, <2>6, <2>7, <2>8 DEF Effect
<1> QED
  BY <1>3, <1>4 DEF GetList, See

\* The query of the list.
LEMMA QueryListEffect ==
  ASSUME StoreInv, ShapeInv, NEW r \in Requests, QueryList(r) PROVE Effect(r)
<1> DEFINE c == [id |-> user.id, family |-> None]
<1>1. /\ At(r, "query") /\ Running(r) /\ UNCHANGED <<storeVars, redisVars, call, before, faults>>
      /\ UNCHANGED <<user, mailed, listed, failed, window, used, limited>>
      /\ saw' = [saw EXCEPT ![r] = c] /\ Proceed(r)
  BY DEF QueryList, At, storeVars, redisVars, See
<1>2. call[r].kind = "list"
  BY <1>1, Awaits DEF OkAwaits, RefusedAwaits, At
<1>3. c \in Copies
  BY DEF StoreInv, Users, Copies, OriginOrNone, Origins
<1>4. Goes(r) /\ RestEffect(r) /\ saw'[r] = c
  <2> HIDE DEF c
  <2> QED
    BY <1>1, <1>3, Proceeding
<1>5. ReadEffect(r)
  BY <1>1, <1>2, <1>4, OneAwait DEF ReadEffect
<1>6. StoreInv' /\ AccountEffect(r) /\ CacheEffect(r) /\ CountEffect(r)
  BY <1>1, <1>2, <1>4, QuietStore, QuietAccount, QuietCache, QuietCount
<1> QED
  BY <1>4, <1>5, <1>6 DEF Effect

\* cacheManager.set.
LEMMA SetListEffect ==
  ASSUME StoreInv, ShapeInv, NEW r \in Requests, SetList(r) PROVE Effect(r)
<1>1. /\ At(r, "set") /\ Running(r) /\ UNCHANGED <<storeVars, call, saw, before, faults>>
      /\ UNCHANGED <<user, expired, mailed, failed, window, used, limited>>
      /\ listed' = {saw[r].id} \ {None} /\ Proceed(r)
  BY DEF SetList, At, storeVars
<1>2. call[r].kind = "list"
  BY <1>1, Awaits DEF OkAwaits, RefusedAwaits, At
<1>3. Goes(r) /\ RestEffect(r) /\ saw'[r] = saw[r]
  BY <1>1, SameCopy, Proceeding
<1>4. saw[r].id \in OriginOrNone
  BY SameCopy DEF Copies
<1>5. StoreInv'
  BY <1>1, <1>4 DEF StoreInv, OriginOrNone
<1>6. CacheEffect(r)
  BY <1>1, <1>2, OneAwait DEF CacheEffect
<1>7. AccountEffect(r) /\ ReadEffect(r) /\ CountEffect(r)
  BY <1>1, <1>2, <1>3, QuietAccount, QuietRead, QuietCount
<1> QED
  BY <1>3, <1>5, <1>6, <1>7 DEF Effect

\* invalidateUserCache.
LEMMA UncacheEffect ==
  ASSUME StoreInv, ShapeInv, NEW r \in Requests, Uncache(r) PROVE Effect(r)
<1>1. /\ At(r, "uncache") /\ Running(r) /\ UNCHANGED <<storeVars, call, saw, before, faults>>
      /\ UNCHANGED <<user, expired, mailed, failed, window, used, limited>>
      /\ listed' = None /\ Proceed(r)
  BY DEF Uncache, At, storeVars
<1>2. call[r].kind # "use"
  BY <1>1, Awaits DEF OkAwaits, RefusedAwaits, At
<1>3. Goes(r) /\ RestEffect(r) /\ saw'[r] = saw[r]
  BY <1>1, SameCopy, Proceeding
<1>4. StoreInv' /\ CacheEffect(r)
  BY <1>1 DEF StoreInv, CacheEffect
<1>5. AccountEffect(r) /\ ReadEffect(r) /\ CountEffect(r)
  BY <1>1, <1>2, <1>3, QuietAccount, QuietRead, QuietCount
<1> QED
  BY <1>3, <1>4, <1>5 DEF Effect

\* A rejection or the death of the process.
LEMMA StopEffect ==
  ASSUME StoreInv, ShapeInv, NEW r \in Requests, Stop(r) PROVE Effect(r)
<1>1. /\ Running(r) /\ UNCHANGED <<storeVars, redisVars, call, before>>
      /\ UNCHANGED <<user, mailed, listed, failed, window, used, limited>>
      /\ faults < MaxFaults /\ faults' = faults + 1
      /\ Turn(r, <<>>, "error") /\ saw' = [saw EXCEPT ![r] = NoCopy]
  BY DEF Stop, storeVars, redisVars, See
<1>2. Len(todo[r]) \in Nat
  BY <1>1, Awaits DEF Shorter
<1>3. /\ <<>> \in Left(call[r].kind, "error") /\ Len(<<>>) \in Nat /\ Len(<<>>) <= Len(todo[r])
      /\ "error" \in {"ok", "refused", "error"} /\ "error" # "ok"
  BY <1>2, TurnLists
<1>4. faults' \in 0 .. MaxFaults /\ faults <= faults' /\ faults' # 0
  BY <1>1, SessionsAssumption DEF ShapeInv
<1>5. NoCopy \in Copies
  BY DEF NoCopy, Copies, OriginOrNone
<1>6. Goes(r) /\ todo'[r] = <<>> /\ verdict'[r] = "error" /\ saw'[r] = NoCopy
  BY <1>1, <1>3, <1>4, <1>5, Turning, Zenon
<1>7. RestEffect(r) /\ StoreInv'
  BY <1>1, <1>6, QuietStore DEF RestEffect
<1>8. AccountEffect(r) /\ CacheEffect(r)
  BY <1>1, <1>6 DEF AccountEffect, CacheEffect
<1>9. ReadEffect(r)
  BY <1>1, <1>6 DEF ReadEffect, NoCopy
<1>10. CountEffect(r)
  BY <1>1, <1>4, <1>6 DEF CountEffect, At, Running
<1> QED
  BY <1>6, <1>7, <1>8, <1>9, <1>10 DEF Effect

\* Every await of a request.
LEMMA Effects ==
  ASSUME StoreInv, ShapeInv, NEW r \in Requests, Read(r) \/ Write(r) \/ UseRedis(r) \/ Stop(r)
  PROVE  Effect(r)
<1>1. CASE Read(r)
  BY <1>1, FindForRegisterEffect, FindForLoginEffect, FindForRefreshEffect, FindForForgotEffect,
     FindForResetEffect, RereadEffect DEF Read
<1>2. CASE Write(r)
  BY <1>2, CreateEffect, StoreTokenEffect, ClearTokenEffect, SetResetEffect, SetPasswordEffect,
     ClearResetEffect, VerifyEmailEffect, DeleteEffect, RecordEffect, MailEffect DEF Write
<1>3. CASE UseRedis(r)
  BY <1>3, CheckBlockedEffect, CountFailureEffect, SetExpiryEffect, ForgiveEffect, EnterEffect,
     SetLimitExpiryEffect, GetListEffect, QueryListEffect, SetListEffect, UncacheEffect
     DEF UseRedis
<1> QED
  BY <1>1, <1>2, <1>3, StopEffect
-------------------------------------------------------------------------------
(* What an await leaves as it was                                          *)

\* The length of what is left.
LEMMA LeftLength ==
  ASSUME NEW k \in Kinds, NEW v, NEW l \in Left(k, v)
  PROVE  Len(l) \in 0 .. 8 /\ (Len(l) = 0 <=> l = <<>>)
<1>1. CASE l = <<>>
  BY <1>1
<1>2. CASE l \in Ok(k)
  <2>1. Len(l) \in 1 .. 8
    BY <1>2, OkLists DEF Shorter
  <2>2. Len(<<>>) = 0
    OBVIOUS
  <2> QED
    BY <2>1, <2>2
<1>3. CASE l \in Refused(k)
  <2>1. Len(l) \in 1 .. 8
    BY <1>3, RefusedLists DEF Shorter
  <2>2. Len(<<>>) = 0
    OBVIOUS
  <2> QED
    BY <2>1, <2>2
<1> QED
  BY <1>1, <1>2, <1>3 DEF Left

\* How much is left of a request.
LEMMA RestOf ==
  ASSUME ShapeInv, NEW x \in Requests
  PROVE  Rest(x) \in 0 .. 8 /\ (Rest(x) = 0 <=> ~ Running(x))
<1>1. RequestInv(x)
  BY DEF ShapeInv
<1>2. CASE call[x] = None
  <2>1. todo[x] = <<>>
    BY <1>1, <1>2 DEF RequestInv
  <2> QED
    BY <2>1 DEF Rest, Running
<1>3. CASE call[x] # None
  <2>1. call[x].kind \in Kinds /\ todo[x] \in Left(call[x].kind, verdict[x])
    BY <1>1, <1>3 DEF RequestInv, Calls
  <2> QED
    BY <2>1, LeftLength DEF Rest, Running
<1> QED
  BY <1>2, <1>3

\* The other requests.
LEMMA Others ==
  ASSUME ShapeInv, NEW r \in Requests, Goes(r), NEW x \in Requests, x # r
  PROVE  /\ todo'[x] = todo[x] /\ verdict'[x] = verdict[x] /\ saw'[x] = saw[x]
         /\ Rest(x)' = Rest(x) /\ Running(x)' = Running(x) /\ Ended(x)' = Ended(x)
         /\ \A k, v : Going(x, k, v)' = Going(x, k, v)
         /\ \A t : At(x, t)' = At(x, t)
<1>1. todo'[x] = todo[x] /\ verdict'[x] = verdict[x] /\ saw'[x] = saw[x] /\ call' = call
  BY DEF Goes, ShapeInv
<1> QED
  BY <1>1 DEF Rest, Running, Ended, Going, At

\* The request itself.
LEMMA Itself ==
  ASSUME ShapeInv, NEW r \in Requests, Goes(r)
  PROVE  /\ call' = call /\ before' = before /\ call[r] # None /\ call[r].kind \in Kinds
         /\ Running(r) /\ ~ Ended(r) /\ verdict[r] \in {"ok", "refused"}
         /\ verdict'[r] \in {"ok", "refused", "error"} /\ (verdict'[r] = "ok" => verdict[r] = "ok")
         /\ Rest(r) \in 1 .. 8 /\ Rest(r)' \in 0 .. 8 /\ Rest(r)' <= Rest(r)
         /\ (Rest(r)' = 0 <=> ~ Running(r)')
<1>1. call[r].kind \in Kinds /\ verdict[r] \in {"ok", "refused"}
  BY Awaits DEF Goes
<1>2. Rest(r) \in 1 .. 8
  BY RestOf DEF Goes
<1>3. Rest(r)' \in 0 .. 8 /\ (Rest(r)' = 0 <=> ~ Running(r)')
  <2>1. todo'[r] \in Left(call[r].kind, verdict'[r])
    BY DEF Goes
  <2> QED
    BY <1>1, <2>1, LeftLength DEF Rest, Running
<1> QED
  BY <1>1, <1>2, <1>3 DEF Goes, Ended

\* A token that has been given stays what it is.
LEMMA GivenStays ==
  ASSUME ShapeInv, NEW r \in Requests, Goes(r), NEW t, t = First \/ Given(t)
  PROVE  /\ t # r /\ Claims(t)' = Claims(t) /\ (Given(t) => Given(t)')
<1>1. t # r
  BY SessionsAssumption, Itself DEF Given
<1>2. CASE t = First
  <2>1. t \notin Requests
    BY <1>2, SessionsAssumption
  <2> QED
    BY <1>1, <1>2, <2>1 DEF Given, Claims
<1>3. CASE t # First
  <2>1. Given(t) /\ t \in Requests
    BY <1>3 DEF Given
  <2>2. saw'[t] = saw[t] /\ Ended(t)' = Ended(t) /\ verdict'[t] = verdict[t] /\ call' = call
    BY <1>1, <2>1, Others, Itself
  <2> QED
    BY <1>1, <2>1, <2>2 DEF Given, Claims
<1> QED
  BY <1>2, <1>3

\* What a request sees it sees where it searches.
LEMMA KeepsSight ==
  ASSUME ShapeInv, NEW r \in Requests, Goes(r), ReadEffect(r), verdict'[r] # "error",
         \A s \in {"find", "create", "delete", "get", "query"} : ~ At(r, s)
  PROVE  saw'[r] = saw[r]
  BY DEF ReadEffect

\* The shape of the requests is kept.
LEMMA ShapeKept ==
  ASSUME StoreInv, ShapeInv, NEW r \in Requests, Effect(r)
  PROVE  ShapeInv'
<1>1. /\ Goes(r) /\ RestEffect(r) /\ ReadEffect(r) /\ mailed \subseteq mailed'
  BY DEF Effect, AccountEffect
<1>2. /\ call' \in [Requests -> Calls \cup {None}] /\ todo' = [q \in Requests |-> todo'[q]]
      /\ verdict' \in [Requests -> Verdicts] /\ saw' \in [Requests -> Copies]
      /\ before' \in [Requests -> SUBSET Requests] /\ faults' \in 0 .. MaxFaults
  BY <1>1 DEF Goes, ShapeInv, Verdicts
<1>3. ASSUME NEW x \in Requests, call[x] # None PROVE TokenInv(x)'
  <2>1. TokenInv(x) /\ call' = call
    BY <1>1, <1>3, Itself DEF ShapeInv, RequestInv
  <2>2. ASSUME NEW t, t = call[x].token, Given(t)
        PROVE  /\ t \in Requests /\ call'[t] # None /\ todo'[t] = <<>> /\ verdict'[t] = "ok"
               /\ call'[t].kind \in {"login", "refresh"}
    <3>1. Given(t)'
      BY <1>1, <2>2, GivenStays
    <3> QED
      BY <3>1 DEF Given, Ended, Running
  <2>3. verdict'[x] = "ok" => verdict[x] = "ok"
    BY <1>1, Others, Itself
  <2> QED
    BY <1>1, <2>1, <2>2, <2>3, SessionsAssumption DEF TokenInv, Given, Ended, Running
<1>4. SessionInv(r)'
  <2>1. /\ SessionInv(r) /\ TokenInv(r) /\ call' = call
        /\ verdict'[r] = "ok" => OkAwaits(call[r].kind, todo[r])
    BY <1>1, Itself, Awaits DEF ShapeInv, RequestInv
  <2>2. CASE call[r].kind = "login" /\ verdict'[r] = "ok" /\ Rest(r)' <= 4
    <3>1. Rest(r)' = Rest(r) - 1 /\ Rest(r) \in 1 .. 8 /\ verdict[r] = "ok"
      BY <1>1, <2>2, Itself DEF RestEffect
    <3>2. CASE Rest(r) = 5
      BY <1>1, <2>1, <2>2, <3>2, Itself DEF OkAwaits, ReadEffect, At, Rest, SessionInv
    <3>3. CASE Rest(r) <= 4
      <4>1. \A s \in {"find", "create", "delete", "get", "query"} : ~ At(r, s)
        <5>1. Rest(r) # 5
          BY <2>2, <3>1, <3>3
        <5>2. OkAwaits("login", todo[r]) /\ Len(todo[r]) # 5
          BY <2>1, <2>2, <3>1, <5>1 DEF Rest
        <5> QED
          BY <5>2 DEF OkAwaits, At
      <4>2. saw'[r] = saw[r]
        BY <1>1, <2>2, <4>1, KeepsSight
      <4> QED
        BY <2>1, <2>2, <3>1, <3>3, <4>2 DEF SessionInv, Rest
    <3> QED
      BY <2>2, <3>1, <3>2, <3>3
  <2>3. CASE call[r].kind = "refresh" /\ verdict'[r] = "ok" /\ Rest(r)' <= 3
    <3>1. Rest(r)' = Rest(r) - 1 /\ Rest(r) \in 1 .. 8 /\ verdict[r] = "ok"
      BY <1>1, <2>3, Itself DEF RestEffect
    <3>2. CASE Rest(r) = 4
      <4>1. At(r, "find")
        BY <1>1, <2>1, <2>3, <3>2, Itself DEF OkAwaits, At, Rest
      <4>2. saw'[r].id = Claims(call[r].token).id
        BY <1>1, <2>3, <4>1 DEF ReadEffect
      <4>3. call[r].token = First \/ Given(call[r].token)
        BY <2>1, <2>3, <3>1 DEF TokenInv
      <4>4. saw'[r].id # None
        BY <4>2, <4>3, NamedByToken, SessionsAssumption DEF Origins
      <4> QED
        BY <4>4 DEF SessionInv
    <3>3. CASE Rest(r) <= 3
      <4>0. OkAwaits("refresh", todo[r]) /\ Len(todo[r]) # 4
        <5>1. Rest(r) # 4
          BY <3>1, <3>3
        <5>2. OkAwaits("refresh", todo[r])
          BY <2>1, <2>3, <3>1
        <5> QED
          BY <5>1, <5>2 DEF Rest
      <4>1. \A s \in {"find", "create", "delete", "get", "query"} : ~ At(r, s)
        BY <4>0 DEF OkAwaits, At
      <4>2. saw'[r] = saw[r]
        BY <1>1, <2>3, <4>1, KeepsSight
      <4> QED
        BY <2>1, <2>3, <3>1, <3>3, <4>2 DEF SessionInv, Rest
    <3> QED
      BY <2>3, <3>1, <3>2, <3>3
  <2> QED
    BY <2>1, <2>2, <2>3 DEF SessionInv, Rest
<1>5. ASSUME NEW x \in Requests PROVE RequestInv(x)'
  <2>1. RequestInv(x) /\ call' = call
    BY <1>1, Itself DEF ShapeInv
  <2>2. CASE x # r
    <3>1. todo'[x] = todo[x] /\ verdict'[x] = verdict[x] /\ saw'[x] = saw[x]
      BY <1>1, <2>2, Others
    <3>2. call[x] # None => TokenInv(x)'
      BY <1>3
    <3>3. SessionInv(x) => SessionInv(x)'
      BY <2>1, <3>1 DEF SessionInv
    <3> QED
      BY <2>1, <3>1, <3>2, <3>3 DEF RequestInv
  <2>3. CASE x = r
    <3>1. /\ call[r] # None /\ todo'[r] \in Left(call[r].kind, verdict'[r])
          /\ verdict'[r] \in {"ok", "refused", "error"}
      BY <1>1 DEF Goes
    <3>2. TokenInv(r)'
      BY <1>3, <3>1
    <3> QED
      BY <1>4, <2>1, <2>3, <3>1, <3>2 DEF RequestInv
  <2> QED
    BY <2>2, <2>3
<1> QED
  BY <1>2, <1>5 DEF ShapeInv

\* The order of arrival is kept.
LEMMA OrderKept ==
  ASSUME ShapeInv, OrderInv, NEW r \in Requests, Goes(r)
  PROVE  OrderInv'
<1>1. call' = call /\ before' = before /\ ~ Ended(r)
  BY Itself
<1>2. ASSUME NEW x \in Requests, NEW q \in before[x] PROVE Ended(q)' /\ x \notin before[q]
  <2>1. Ended(q) /\ q \in Requests /\ x \notin before[q]
    BY DEF OrderInv, ShapeInv
  <2>2. Ended(q)' = Ended(q)
    BY <1>1, <2>1, Others
  <2> QED
    BY <2>1, <2>2
<1> QED
  BY <1>1, <1>2 DEF OrderInv

\* Whose creation is past stays so.
LEMMA KnownStays ==
  ASSUME ShapeInv, NEW r \in Requests, Goes(r), NEW i, Known(i)
  PROVE  Known(i)'
<1>1. CASE i \notin Requests
  BY <1>1 DEF Known
<1>2. CASE i \in Requests
  <2>1. call' = call /\ Rest(i)' <= Rest(i) /\ Rest(i) \in 0 .. 8 /\ Rest(i)' \in 0 .. 8
    BY <1>2, Itself, Others, RestOf
  <2> QED
    BY <2>1 DEF Known
<1> QED
  BY <1>1, <1>2

\* A creation that succeeds is known.
LEMMA CreatedKnown ==
  ASSUME ShapeInv, NEW r \in Requests, Goes(r), RestEffect(r), At(r, "create"), verdict'[r] = "ok"
  PROVE  Known(r)' /\ ~ Known(r)
<1>1. /\ call[r].kind = "register" /\ Rest(r) = 6
  BY Awaits, Itself DEF OkAwaits, At, Rest
<1>2. Rest(r)' = 5 /\ call' = call /\ call[r] # None
  BY <1>1, Itself DEF RestEffect
<1> QED
  BY <1>1, <1>2 DEF Known

\* Only accounts that have been created are known.
LEMMA IdKept ==
  ASSUME StoreInv, ShapeInv, IdInv, NEW r \in Requests, Effect(r)
  PROVE  IdInv'
<1>1. Goes(r) /\ RestEffect(r) /\ AccountEffect(r) /\ ReadEffect(r) /\ CacheEffect(r)
  BY DEF Effect
<1>2. \A i : Known(i) => Known(i)'
  BY <1>1, KnownStays
<1>3. Known(None)
  BY SessionsAssumption DEF Known
<1>4. At(r, "create") /\ verdict'[r] = "ok" => Known(r)'
  BY <1>1, CreatedKnown
<1>5. ASSUME NEW i, i = user'.id PROVE Known(i)'
  BY <1>1, <1>2, <1>3, <1>4, <1>5 DEF AccountEffect, IdInv
<1>6. ASSUME NEW x \in Requests, NEW i, i = saw'[x].id PROVE Known(i)'
  <2>1. CASE x # r
    BY <1>1, <1>2, <1>6, <2>1, Others DEF IdInv
  <2>2. CASE x = r
    BY <1>1, <1>2, <1>3, <1>4, <1>6, <2>2 DEF ReadEffect, IdInv
  <2> QED
    BY <2>1, <2>2
<1>7. ASSUME listed' # None, NEW i \in listed' PROVE Known(i)'
  BY <1>1, <1>2, <1>7 DEF CacheEffect, IdInv
<1> QED
  BY <1>5, <1>6, <1>7 DEF IdInv, Known
-------------------------------------------------------------------------------
(* Tokens are used once                                                    *)

\* An e-mail is requested near the end.
LEMMA MailKept ==
  ASSUME StoreInv, ShapeInv, MailInv, NEW r \in Requests, Effect(r)
  PROVE  MailInv'
<1>1. Goes(r) /\ RestEffect(r) /\ AccountEffect(r) /\ call' = call
  BY Itself DEF Effect
<1>2. ASSUME NEW t \in mailed
      PROVE  call'[t] # None /\ call'[t].kind \in {"register", "forgot"} /\ Rest(t)' <= 1
  <2>1. t \in Requests /\ call[t] # None /\ call[t].kind \in {"register", "forgot"} /\ Rest(t) <= 1
    BY DEF MailInv, StoreInv
  <2>2. Rest(t)' <= Rest(t) /\ Rest(t) \in 0 .. 8 /\ Rest(t)' \in 0 .. 8
    BY <1>1, <2>1, Itself, Others, RestOf
  <2> QED
    BY <1>1, <2>1, <2>2
<1>3. ASSUME At(r, "mail"), verdict'[r] = "ok"
      PROVE  call[r] # None /\ call[r].kind \in {"register", "forgot"} /\ Rest(r)' <= 1
  <2>1. verdict[r] = "ok" /\ Running(r)
    BY <1>1, <1>3, Itself
  <2>2. call[r].kind \in {"register", "forgot"} /\ Rest(r) = 2 /\ ~ At(r, "find")
    BY <1>3, <2>1, Awaits, OneAwait DEF OkAwaits, At, Rest
  <2>3. Rest(r)' = 1
    BY <1>1, <1>3, <2>2 DEF RestEffect
  <2> QED
    BY <1>1, <2>2, <2>3, Itself
<1> QED
  BY <1>1, <1>2, <1>3 DEF AccountEffect, MailInv

\* What a request presents that has not been refused.
LEMMA Presented ==
  ASSUME StoreInv, ShapeInv, NEW x \in Requests, call[x] # None, verdict[x] = "ok"
  PROVE  /\ call[x].kind = "refresh" =>
              call[x].token # None /\ (call[x].token = First \/ Given(call[x].token))
         /\ call[x].kind \in {"verify", "reset"} => call[x].token # None /\ call[x].token \in mailed
  BY DEF ShapeInv, RequestInv, TokenInv

\* A verification or reset token that is mailed is not stored any more.
LEMMA NotStored ==
  ASSUME StoreInv, ShapeInv, MailInv, NEW r \in Requests, Effect(r), NEW t \in mailed
  PROVE  /\ user'.verification = t => user.verification = t
         /\ user'.reset = t => user.reset = t /\ user'.id = user.id
<1>1. Goes(r) /\ AccountEffect(r)
  BY DEF Effect
<1>2. t \in Requests /\ t # None /\ call[t] # None /\ Rest(t) <= 1
  BY SessionsAssumption DEF MailInv, StoreInv
<1>3. At(r, "create") \/ At(r, "setReset") => Rest(r) \in 5 .. 6
  BY <1>1, Itself, Awaits DEF OkAwaits, RefusedAwaits, At, Rest
<1>4. At(r, "create") \/ At(r, "setReset") => t # r
  BY <1>2, <1>3
<1> QED
  BY <1>1, <1>2, <1>4 DEF AccountEffect

\* Nor is a session token that has been given.
LEMMA NotIssued ==
  ASSUME StoreInv, ShapeInv, NEW r \in Requests, Effect(r), NEW t, t = First \/ Given(t)
  PROVE  user'.token = t => user.token = t /\ user'.id = user.id
<1>1. Goes(r) /\ AccountEffect(r)
  BY DEF Effect
<1>2. t # r /\ t # None
  BY <1>1, GivenStays, SessionsAssumption DEF Given
<1> QED
  BY <1>1, <1>2 DEF AccountEffect

\* A verification token.
LEMMA VerifiedKept ==
  ASSUME StoreInv, ShapeInv, MailInv, NEW r \in Requests, Effect(r), NEW x \in Requests,
         OnceInv(x), Verified(x)'
  PROVE  /\ user'.verification # call[x].token
         /\ Verified(x) \/ (x = r /\ user.verification = call[x].token)
<1>1. Goes(r) /\ RestEffect(r) /\ AccountEffect(r) /\ call' = call
  BY Itself DEF Effect
<1>2. /\ call[x] # None /\ call[x].kind = "verify" /\ verdict'[x] = "ok" /\ verdict[x] = "ok"
      /\ Rest(x)' <= 2
  BY <1>1, Itself, Others DEF Verified, Going
<1>3. call[x].token # None /\ call[x].token \in mailed
  BY <1>2, Presented
<1>4. CASE Verified(x)
  BY <1>3, <1>4, NotStored DEF OnceInv
<1>5. CASE ~ Verified(x)
  <2>1. x = r
    BY <1>1, <1>5, Others DEF Verified
  <2>2. Rest(r) = 3
    <3>1. Rest(r)' = Rest(r) - 1 /\ Rest(r) \in 1 .. 8
      BY <1>1, <1>2, <2>1, Itself DEF RestEffect
    <3> QED
      BY <1>2, <1>5, <2>1, <3>1 DEF Verified, Going
  <2>3. At(r, "verify")
    BY <1>1, <1>2, <2>1, <2>2, Itself, Awaits DEF OkAwaits, At, Rest
  <2> QED
    BY <1>1, <1>2, <1>3, <2>1, <2>3 DEF AccountEffect
<1> QED
  BY <1>4, <1>5

\* A refresh token.
LEMMA RefreshedKept ==
  ASSUME StoreInv, ShapeInv, NEW r \in Requests, Effect(r), NEW x \in Requests, OnceInv(x)
  PROVE  /\ Refreshed(x)' => user'.token # call[x].token
         /\ Going(x, "refresh", "ok")' /\ Rest(x)' = 3 /\ user'.token = call[x].token =>
              user'.id = saw'[x].id
<1>1. Goes(r) /\ RestEffect(r) /\ AccountEffect(r) /\ ReadEffect(r) /\ call' = call
  BY Itself DEF Effect
<1> SUFFICES ASSUME Going(x, "refresh", "ok")' PROVE
      /\ Rest(x)' <= 2 => user'.token # call[x].token
      /\ Rest(x)' = 3 /\ user'.token = call[x].token => user'.id = saw'[x].id
  BY DEF Refreshed
<1>2. /\ call[x] # None /\ call[x].kind = "refresh" /\ verdict'[x] = "ok" /\ verdict[x] = "ok"
  BY <1>1, Itself, Others DEF Going
<1>3. call[x].token # None /\ (call[x].token = First \/ Given(call[x].token))
  BY <1>2, Presented
<1>4. user'.token = call[x].token => user.token = call[x].token /\ user'.id = user.id
  BY <1>3, NotIssued
<1>5. Going(x, "refresh", "ok")
  BY <1>2 DEF Going
<1>6. CASE x # r
  <2>1. Rest(x)' = Rest(x) /\ saw'[x] = saw[x]
    BY <1>1, <1>6, Others
  <2> QED
    BY <1>4, <1>5, <2>1 DEF OnceInv, Refreshed
<1>7. CASE x = r
  <2>1. Rest(r)' = Rest(r) - 1 /\ Rest(r) \in 1 .. 8
    BY <1>1, <1>2, <1>7, Itself DEF RestEffect
  <2>2. CASE Rest(r) = 4
    <3>1. At(r, "find")
      BY <1>1, <1>2, <1>7, <2>2, Itself, Awaits DEF OkAwaits, At, Rest
    <3>2. user' = user /\ saw'[r].id = user.id
      BY <1>1, <1>2, <1>7, <3>1 DEF ReadEffect
    <3> QED
      BY <1>7, <2>1, <2>2, <3>2
  <2>3. CASE Rest(r) = 3
    <3>1. At(r, "store")
      BY <1>1, <1>2, <1>7, <2>3, Itself, Awaits DEF OkAwaits, At, Rest
    <3>2. r # call[r].token
      BY <1>1, <1>3, <1>7, GivenStays
    <3>3. user.id = saw[r].id => user'.token = r
      BY <1>1, <1>2, <1>7, <3>1 DEF AccountEffect
    <3> QED
      BY <1>4, <1>5, <1>7, <2>1, <2>3, <3>2, <3>3 DEF OnceInv
  <2>4. CASE Rest(r) <= 2
    BY <1>4, <1>5, <1>7, <2>1, <2>4 DEF OnceInv, Refreshed
  <2>5. CASE Rest(r) > 4
    BY <1>7, <2>1, <2>5
  <2> QED
    BY <2>1, <2>2, <2>3, <2>4, <2>5
<1> QED
  BY <1>6, <1>7

\* A reset token.
LEMMA ResetKept ==
  ASSUME StoreInv, ShapeInv, MailInv, NEW r \in Requests, Effect(r), NEW x \in Requests, OnceInv(x)
  PROVE  /\ HasReset(x)' => user'.reset # call[x].token
         /\ Going(x, "reset", "ok")' /\ Rest(x)' \in 5 .. 7 /\ user'.reset = call[x].token =>
              user'.id = saw'[x].id
<1>1. Goes(r) /\ RestEffect(r) /\ AccountEffect(r) /\ ReadEffect(r) /\ call' = call
  BY Itself DEF Effect
<1> SUFFICES ASSUME Going(x, "reset", "ok")' PROVE
      /\ Rest(x)' <= 4 => user'.reset # call[x].token
      /\ Rest(x)' \in 5 .. 7 /\ user'.reset = call[x].token => user'.id = saw'[x].id
  BY DEF HasReset
<1>2. /\ call[x] # None /\ call[x].kind = "reset" /\ verdict'[x] = "ok" /\ verdict[x] = "ok"
  BY <1>1, Itself, Others DEF Going
<1>3. call[x].token # None /\ call[x].token \in mailed
  BY <1>2, Presented
<1>4. user'.reset = call[x].token => user.reset = call[x].token /\ user'.id = user.id
  BY <1>3, NotStored
<1>5. Going(x, "reset", "ok")
  BY <1>2 DEF Going
<1>6. CASE x # r
  <2>1. Rest(x)' = Rest(x) /\ saw'[x] = saw[x]
    BY <1>1, <1>6, Others
  <2> QED
    BY <1>4, <1>5, <2>1 DEF OnceInv, HasReset
<1>7. CASE x = r
  <2>1. Rest(r)' = Rest(r) - 1 /\ Rest(r) \in 1 .. 8
    BY <1>1, <1>2, <1>7, Itself DEF RestEffect
  <2>2. CASE Rest(r) = 8
    <3>1. At(r, "find")
      BY <1>1, <1>2, <1>7, <2>2, Itself, Awaits DEF OkAwaits, At, Rest
    <3>2. user' = user /\ saw'[r].id = user.id
      BY <1>1, <1>2, <1>7, <3>1 DEF ReadEffect
    <3> QED
      BY <1>7, <2>1, <2>2, <3>2
  <2>3. CASE Rest(r) \in 6 .. 7
    <3>1. OkAwaits("reset", todo[r]) /\ Len(todo[r]) \in 6 .. 7
      BY <1>1, <1>2, <1>7, <2>3, Itself, Awaits DEF Rest
    <3>2. \A s \in {"find", "create", "delete", "get", "query"} : ~ At(r, s)
      BY <3>1 DEF OkAwaits, At
    <3>3. saw'[r] = saw[r]
      BY <1>1, <1>2, <1>7, <3>2, KeepsSight
    <3> QED
      BY <1>4, <1>5, <1>7, <2>1, <2>3, <3>3 DEF OnceInv
  <2>4. CASE Rest(r) = 5
    <3>1. At(r, "clearReset")
      BY <1>1, <1>2, <1>7, <2>4, Itself, Awaits DEF OkAwaits, At, Rest
    <3>2. user.id = saw[r].id => user'.reset = None
      BY <1>1, <1>2, <1>7, <3>1 DEF AccountEffect
    <3> QED
      BY <1>3, <1>4, <1>5, <1>7, <2>1, <2>4, <3>2 DEF OnceInv
  <2>5. CASE Rest(r) <= 4
    BY <1>4, <1>5, <1>7, <2>1, <2>5 DEF OnceInv, HasReset
  <2> QED
    BY <2>1, <2>2, <2>3, <2>4, <2>5
<1> QED
  BY <1>6, <1>7

\* All of this together.
LEMMA OnceKept ==
  ASSUME StoreInv, ShapeInv, MailInv, NEW r \in Requests, Effect(r), NEW x \in Requests, OnceInv(x)
  PROVE  OnceInv(x)'
<1>1. call' = call
  BY Itself DEF Effect
<1>2. Verified(x)' => user'.verification # call[x].token
  BY VerifiedKept
<1> QED
  BY <1>1, <1>2, RefreshedKept, ResetKept DEF OnceInv

\* Two requests do not use the same token one after the other.
LEMMA PairKept ==
  ASSUME StoreInv, ShapeInv, OrderInv, MailInv, NEW r \in Requests, Effect(r),
         NEW q \in Requests, NEW x \in Requests, OnceInv(q), OnceInv(x), PairInv(q, x)
  PROVE  PairInv(q, x)'
<1>1. Goes(r) /\ RestEffect(r) /\ ReadEffect(r) /\ call' = call /\ before' = before
  BY Itself DEF Effect
<1>2. Verified(q)' /\ Verified(x)' /\ q # x => call[q].token # call[x].token
  BY VerifiedKept DEF OnceInv, PairInv
<1>3. ASSUME q \in before[x], call[q].token = call[x].token
      PROVE  /\ Refreshed(q)' /\ Going(x, "refresh", "ok")' => Rest(x)' = 4
             /\ HasReset(q)' /\ Going(x, "reset", "ok")' => Rest(x)' = 8
  <2>1. Ended(q) /\ q # r
    BY <1>1, <1>3, Itself DEF OrderInv
  <2>2. Refreshed(q)' = Refreshed(q) /\ HasReset(q)' = HasReset(q)
    BY <1>1, <2>1, Others DEF Refreshed, HasReset
  <2>3. CASE x # r
    BY <1>1, <1>3, <2>2, <2>3, Others DEF PairInv
  <2>4. CASE x = r
    <3>1. ASSUME Refreshed(q), Going(r, "refresh", "ok")' PROVE FALSE
      <4>1. Going(r, "refresh", "ok") /\ verdict'[r] = "ok" /\ verdict[r] = "ok"
        BY <1>1, <3>1, Itself DEF Going
      <4>2. Rest(r) = 4
        BY <1>3, <2>4, <3>1, <4>1 DEF PairInv
      <4>3. At(r, "find") /\ call[r].kind = "refresh"
        BY <1>1, <4>1, <4>2, Itself, Awaits DEF OkAwaits, At, Rest, Going
      <4>4. user.token = call[r].token
        BY <1>1, <4>1, <4>3 DEF ReadEffect
      <4> QED
        BY <1>3, <2>4, <3>1, <4>4 DEF OnceInv
    <3>2. ASSUME HasReset(q), Going(r, "reset", "ok")' PROVE FALSE
      <4>1. Going(r, "reset", "ok") /\ verdict'[r] = "ok" /\ verdict[r] = "ok"
        BY <1>1, <3>2, Itself DEF Going
      <4>2. Rest(r) = 8
        BY <1>3, <2>4, <3>2, <4>1 DEF PairInv
      <4>3. At(r, "find") /\ call[r].kind = "reset"
        BY <1>1, <4>1, <4>2, Itself, Awaits DEF OkAwaits, At, Rest, Going
      <4>4. user.reset = call[r].token
        BY <1>1, <4>1, <4>3 DEF ReadEffect
      <4> QED
        BY <1>3, <2>4, <3>2, <4>4 DEF OnceInv
    <3> QED
      BY <2>2, <2>4, <3>1, <3>2
  <2> QED
    BY <2>3, <2>4
<1> QED
  BY <1>1, <1>2, <1>3 DEF PairInv
-------------------------------------------------------------------------------
(* Sessions stay ended                                                     *)

\* The session that an account has without a token.
LEMMA FamilyKept ==
  ASSUME user.token = None => user.family = None, NEW r \in Requests, Effect(r)
  PROVE  user'.token = None => user'.family = None
  BY DEF Effect, AccountEffect

\* What a login or a refused refresh has seen.
LEMMA SightKept ==
  ASSUME StoreInv, ShapeInv, NEW r \in Requests, Effect(r), NEW x \in Requests, EndInv(x)
  PROVE  /\ Going(x, "login", "ok")' /\ Rest(x)' <= 4 => saw'[x].family = x
         /\ Going(x, "refresh", "refused")' /\ Rest(x)' \in 2 .. 3 /\ call[x].token # None =>
              saw'[x].id = Claims(call[x].token).id
<1>1. Goes(r) /\ RestEffect(r) /\ ReadEffect(r) /\ call' = call
  BY Itself DEF Effect
<1>2. CASE x # r
  <2>1. /\ Rest(x)' = Rest(x) /\ saw'[x] = saw[x]
        /\ \A k, v : Going(x, k, v)' = Going(x, k, v)
    BY <1>1, <1>2, Others
  <2> QED
    BY <2>1 DEF EndInv
<1>3. CASE x = r
  <2>1. ASSUME Going(r, "login", "ok")', Rest(r)' <= 4 PROVE saw'[r].family = r
    <3>1. /\ call[r].kind = "login" /\ verdict'[r] = "ok" /\ verdict[r] = "ok"
          /\ Rest(r)' = Rest(r) - 1 /\ Rest(r) \in 1 .. 8 /\ Going(r, "login", "ok")
          /\ OkAwaits("login", todo[r])
      BY <1>1, <2>1, Itself, Awaits DEF RestEffect, Going
    <3>2. CASE Rest(r) = 5
      <4>1. At(r, "find")
        BY <1>1, <3>1, <3>2, Itself DEF OkAwaits, At, Rest
      <4> QED
        BY <1>1, <3>1, <4>1 DEF ReadEffect
    <3>3. CASE Rest(r) <= 4
      <4>0. OkAwaits("login", todo[r]) /\ Len(todo[r]) # 5
        <5>1. Rest(r) # 5
          BY <3>1, <3>3
        <5> QED
          BY <3>1, <5>1 DEF Rest
      <4>1. \A s \in {"find", "create", "delete", "get", "query"} : ~ At(r, s)
        BY <4>0 DEF OkAwaits, At
      <4>2. saw'[r] = saw[r]
        BY <1>1, <3>1, <4>1, KeepsSight
      <4> QED
        BY <1>3, <3>1, <3>3, <4>2 DEF EndInv
    <3> QED
      BY <2>1, <3>1, <3>2, <3>3
  <2>2. ASSUME Going(r, "refresh", "refused")', Rest(r)' \in 2 .. 3, call[r].token # None
        PROVE  saw'[r].id = Claims(call[r].token).id
    <3>1. call[r].kind = "refresh" /\ verdict'[r] = "refused" /\ Rest(r) \in 1 .. 8
      BY <1>1, <2>2, Itself DEF Going
    <3>2. CASE verdict[r] = "refused"
      <4>1. Rest(r)' = Rest(r) - 1 /\ RefusedAwaits("refresh", todo[r])
        BY <1>1, <3>1, <3>2, Itself, Awaits DEF RestEffect
      <4>2. Rest(r) = 3 /\ Going(r, "refresh", "refused")
        <5>1. Rest(r) <= 3
          BY <4>1 DEF RefusedAwaits, Rest
        <5>2. Rest(r) = 3
          BY <2>2, <3>1, <4>1, <5>1
        <5> QED
          BY <1>1, <3>1, <3>2, <5>2, Itself DEF Going
      <4>3. \A s \in {"find", "create", "delete", "get", "query"} : ~ At(r, s)
        BY <4>1 DEF RefusedAwaits, At
      <4>4. saw'[r] = saw[r]
        BY <1>1, <3>1, <4>3, KeepsSight
      <4> QED
        BY <1>3, <2>2, <4>2, <4>4 DEF EndInv
    <3>3. CASE verdict[r] # "refused"
      <4>1. At(r, "find") /\ Rest(r)' \in {1, 3}
        BY <1>1, <3>1, <3>3 DEF RestEffect
      <4> QED
        BY <1>1, <2>2, <3>1, <4>1 DEF ReadEffect
    <3> QED
      BY <3>2, <3>3
  <2> QED
    BY <1>3, <2>1, <2>2
<1> QED
  BY <1>2, <1>3

\* A request that has cleared the session keeps its account.
LEMMA AccountStays ==
  ASSUME ShapeInv, NEW r \in Requests, Effect(r), NEW x \in Requests, Cleared(x), Cleared(x)'
  PROVE  AccountOf(x)' = AccountOf(x)
<1>1. Goes(r) /\ RestEffect(r) /\ ReadEffect(r) /\ call' = call
  BY Itself DEF Effect
<1>2. CASE call[x].kind \in {"logout", "refresh"}
  <2>1. call[x].token = First \/ Given(call[x].token)
    BY <1>2 DEF Cleared, Going, ShapeInv, RequestInv, TokenInv
  <2>2. \A t : t = call[x].token => Claims(t)' = Claims(t)
    BY <1>1, <2>1, GivenStays
  <2>3. Claims(call[x].token).id' = Claims(call[x].token).id
    BY <1>1, <2>2 DEF Claims
  <2> QED
    BY <1>1, <1>2, <2>3 DEF AccountOf
<1>3. CASE call[x].kind \notin {"logout", "refresh"}
  <2>1. saw'[x] = saw[x]
    <3>1. CASE x # r
      BY <1>1, <3>1, Others
    <3>2. CASE x = r
      <4>1. verdict'[r] = "ok" /\ verdict[r] = "ok" /\ call[r].kind \in {"reset", "delete"}
        BY <1>1, <1>3, <3>2 DEF Cleared, Going
      <4>2. call[r].kind = "delete" => Rest(r) <= 1
        BY <3>2 DEF Cleared, Going
      <4>3. call[r].kind = "reset" => Rest(r) <= 2
        BY <3>2 DEF Cleared, Going
      <4>4. \A s \in {"find", "create", "delete", "get", "query"} : ~ At(r, s)
        <5>1. OkAwaits(call[r].kind, todo[r])
          BY <1>1, <4>1, Itself, Awaits
        <5>2. CASE call[r].kind = "delete"
          <6>1. OkAwaits("delete", todo[r]) /\ Len(todo[r]) # 2
            BY <1>1, <4>2, <5>1, <5>2, Itself DEF Rest
          <6> QED
            BY <6>1 DEF OkAwaits, At
        <5>3. CASE call[r].kind = "reset"
          <6>0. Rest(r) \in 1 .. 8 /\ Rest(r) <= 2
            BY <1>1, <4>3, <5>3, Itself
          <6>1. OkAwaits("reset", todo[r])
            BY <5>1, <5>3
          <6>2. Len(todo[r]) # 8
            BY <6>0 DEF Rest
          <6> QED
            BY <6>1, <6>2 DEF OkAwaits, At
        <5> QED
          BY <4>1, <5>2, <5>3
      <4> QED
        BY <1>1, <3>2, <4>1, <4>4, KeepsSight
    <3> QED
      BY <3>1, <3>2
  <2> QED
    BY <1>1, <1>3, <2>1 DEF AccountOf
<1> QED
  BY <1>2, <1>3

\* Where a session is ended.
LEMMA Clearing ==
  ASSUME StoreInv, ShapeInv, user.token = None => user.family = None,
         NEW r \in Requests, Effect(r), EndInv(r), ~ Cleared(r), Cleared(r)'
  PROVE  user'.id = AccountOf(r)' => user'.family = None
<1>1. Goes(r) /\ RestEffect(r) /\ AccountEffect(r) /\ ReadEffect(r) /\ call' = call
  BY Itself DEF Effect
<1>2. user'.id # user.id => user'.family = None
  BY <1>1 DEF AccountEffect
<1>3. ASSUME NEW k \in {"logout", "reset"}, Going(r, k, "ok")', Rest(r)' <= 2
      PROVE  user'.id = AccountOf(r)' => user'.family = None
  <2>1. /\ call[r].kind = k /\ verdict'[r] = "ok" /\ verdict[r] = "ok"
        /\ Rest(r)' = Rest(r) - 1 /\ Rest(r) \in 1 .. 8
    BY <1>1, <1>3, Itself DEF RestEffect, Going
  <2>2. Rest(r) = 3
    BY <1>1, <1>3, <2>1, Itself DEF Cleared, Going
  <2>3. At(r, "clear")
    BY <1>1, <2>1, <2>2, Itself, Awaits DEF OkAwaits, At, Rest
  <2>4. user.id = Subject(r) => user'.family = None
    BY <1>1, <2>1, <2>3 DEF AccountEffect
  <2>5. AccountOf(r)' = Subject(r)
    <3>1. CASE k = "logout"
      <4>1. call[r].token = First \/ Given(call[r].token)
        BY <1>1, <2>1, <3>1, Itself, Awaits DEF TokenInv
      <4>2. \A t : t = call[r].token => Claims(t)' = Claims(t)
        BY <1>1, <4>1, GivenStays
      <4>3. Claims(call[r].token).id' = Claims(call[r].token).id
        BY <1>1, <4>2 DEF Claims
      <4> QED
        BY <1>1, <2>1, <3>1, <4>3 DEF AccountOf, Subject
    <3>2. CASE k = "reset"
      <4>1. \A s \in {"find", "create", "delete", "get", "query"} : ~ At(r, s)
        BY <2>3, OneAwait
      <4>2. saw'[r] = saw[r]
        BY <1>1, <2>1, <4>1, KeepsSight
      <4> QED
        BY <1>1, <2>1, <3>2, <4>2 DEF AccountOf, Subject
    <3> QED
      BY <3>1, <3>2
  <2> QED
    BY <1>2, <2>4, <2>5
<1>4. ASSUME Going(r, "delete", "ok")', Rest(r)' <= 1
      PROVE  user'.id = AccountOf(r)' => user'.family = None
  <2>1. /\ call[r].kind = "delete" /\ verdict'[r] = "ok" /\ verdict[r] = "ok"
        /\ Rest(r)' = Rest(r) - 1 /\ Rest(r) \in 1 .. 8
    BY <1>1, <1>4, Itself DEF RestEffect, Going
  <2>2. Rest(r) = 2
    BY <1>1, <1>4, <2>1, Itself DEF Cleared, Going
  <2>3. At(r, "delete")
    BY <1>1, <2>1, <2>2, Itself, Awaits DEF OkAwaits, At, Rest
  <2> QED
    BY <1>1, <2>1, <2>3 DEF AccountEffect
<1>5. ASSUME Going(r, "refresh", "refused")', Rest(r)' <= 1, call[r].token # None
      PROVE  user'.id = AccountOf(r)' => user'.family = None
  <2>1. call[r].kind = "refresh" /\ verdict'[r] = "refused" /\ Rest(r) \in 1 .. 8
    BY <1>1, <1>5, Itself DEF Going
  <2>2. AccountOf(r)' = Claims(call[r].token).id
    <3>1. call[r].token = First \/ Given(call[r].token)
      BY <1>1, <1>5, <2>1, Itself, Awaits DEF TokenInv
    <3>2. \A t : t = call[r].token => Claims(t)' = Claims(t)
      BY <1>1, <3>1, GivenStays
    <3>3. Claims(call[r].token).id' = Claims(call[r].token).id
      BY <1>1, <3>2 DEF Claims
    <3> QED
      BY <1>1, <2>1, <3>3 DEF AccountOf
  <2>3. CASE verdict[r] = "refused"
    <3>1. Rest(r)' = Rest(r) - 1 /\ RefusedAwaits("refresh", todo[r])
      BY <1>1, <2>1, <2>3, Itself, Awaits DEF RestEffect
    <3>2. Rest(r) = 2 /\ Going(r, "refresh", "refused")
      BY <1>1, <1>5, <2>1, <2>3, <3>1, Itself DEF Cleared, Going
    <3>3. At(r, "clear")
      BY <1>1, <3>1, <3>2, Itself DEF RefusedAwaits, At, Rest
    <3>4. user.id = saw[r].id => user'.family = None
      BY <1>1, <2>1, <3>3 DEF AccountEffect, Subject
    <3>5. saw[r].id = Claims(call[r].token).id
      BY <1>5, <3>2 DEF EndInv
    <3> QED
      BY <1>2, <2>2, <3>4, <3>5
  <2>4. CASE verdict[r] # "refused"
    <3>1. At(r, "find") /\ Rest(r)' \in {1, 3}
      BY <1>1, <2>1, <2>4 DEF RestEffect
    <3>2. user' = user /\ (user.id # Claims(call[r].token).id \/ user.token = None)
      BY <1>1, <1>5, <2>1, <3>1 DEF ReadEffect
    <3> QED
      BY <2>2, <3>2
  <2> QED
    BY <2>3, <2>4
<1> QED
  BY <1>1, <1>3, <1>4, <1>5 DEF Cleared

\* A session that has been ended is not there again.
LEMMA EndKept ==
  ASSUME StoreInv, ShapeInv, OrderInv, user.token = None => user.family = None,
         NEW r \in Requests, Effect(r), NEW x \in Requests, EndInv(x), EndInv(r)
  PROVE  EndInv(x)'
<1>1. /\ Goes(r) /\ AccountEffect(r) /\ ReadEffect(r) /\ call' = call /\ before' = before
      /\ ~ Ended(r)
  BY Itself DEF Effect
<1>2. Alone(x)' = Alone(x)
  BY <1>1 DEF Alone, Apart
<1>3. None \notin before[x] \cup {First} /\ r \notin before[x] \cup {First}
  BY <1>1, SessionsAssumption DEF OrderInv, ShapeInv
<1>4. \A y \in Requests : r \notin before[y]
  BY <1>1 DEF OrderInv
<1>5. ASSUME Cleared(x), Cleared(x)', Alone(x)
      PROVE  /\ user'.id = AccountOf(x) => user'.family \notin before[x] \cup {First}
             /\ \A y \in Requests :
                  /\ x \in before[y] /\ call[y].kind = "refresh" /\ saw'[y].id = AccountOf(x)
                  => saw'[y].family \notin before[x] \cup {First}
  <2> DEFINE a == AccountOf(x)
             S == before[x] \cup {First}
  <2>1. /\ user.id = a => user.family \notin S
        /\ \A y \in Requests :
             x \in before[y] /\ call[y].kind = "refresh" /\ saw[y].id = a => saw[y].family \notin S
    BY <1>5 DEF EndInv
  <2> HIDE DEF a, S
  <2>2. None \notin S /\ r \notin S
    BY <1>3 DEF S
  <2>3. user'.id = a => user'.family \notin S
    <3>1. CASE user'.family \in {user.family, None}
      BY <1>1, <2>1, <2>2, <3>1 DEF AccountEffect
    <3>2. CASE At(r, "store") /\ user.id = saw[r].id /\ user'.family = saw[r].family
      <4>1. /\ verdict[r] = "ok" /\ call[r].kind \in {"login", "refresh"} /\ Rest(r) = 3
            /\ call[r] # None
        BY <1>1, <3>2, Itself, Awaits DEF OkAwaits, RefusedAwaits, At, Rest
      <4>2. CASE call[r].kind = "login"
        <5>1. saw[r].family = r
          BY <4>1, <4>2 DEF EndInv, Going
        <5> QED
          BY <2>2, <3>2, <5>1
      <4>3. CASE call[r].kind = "refresh"
        <5>1. x # r
          BY <1>5, <4>1, <4>3 DEF Cleared, Going
        <5>2. x \in before[r]
          BY <1>4, <1>5, <4>1, <4>3, <5>1 DEF Alone, Apart
        <5>3. user'.id # user.id => user'.family = None
          BY <1>1 DEF AccountEffect
        <5> QED
          BY <2>1, <2>2, <3>2, <4>3, <5>2, <5>3
      <4> QED
        BY <4>1, <4>2, <4>3
    <3> QED
      BY <1>1, <3>1, <3>2 DEF AccountEffect
  <2>4. ASSUME NEW y \in Requests, x \in before[y], call[y].kind = "refresh", saw'[y].id = a
        PROVE  saw'[y].family \notin S
    <3>1. CASE y # r
      BY <1>1, <2>1, <2>4, <3>1, Others
    <3>2. CASE y = r
      <4>1. saw'[r] \in {saw[r], NoCopy, [id |-> user.id, family |-> user.family]}
        BY <1>1, <2>4, <3>2 DEF ReadEffect
      <4>2. CASE saw'[r] = saw[r]
        BY <2>1, <2>4, <3>2, <4>2
      <4>3. CASE saw'[r] = NoCopy
        BY <2>2, <3>2, <4>3 DEF NoCopy
      <4>4. CASE saw'[r] = [id |-> user.id, family |-> user.family]
        BY <2>1, <2>4, <3>2, <4>4
      <4> QED
        BY <4>1, <4>2, <4>3, <4>4
    <3> QED
      BY <3>1, <3>2
  <2> QED
    BY <2>3, <2>4 DEF a, S
<1>6. ASSUME Cleared(x)', Alone(x)
      PROVE  /\ user'.id = AccountOf(x)' => user'.family \notin before[x] \cup {First}
             /\ \A y \in Requests :
                  /\ x \in before[y] /\ call[y].kind = "refresh" /\ saw'[y].id = AccountOf(x)'
                  => saw'[y].family \notin before[x] \cup {First}
  <2>1. CASE Cleared(x)
    <3>1. AccountOf(x)' = AccountOf(x)
      BY <1>6, <2>1, AccountStays
    <3> QED
      BY <1>5, <1>6, <2>1, <3>1
  <2>2. CASE ~ Cleared(x)
    <3>1. x = r
      <4>1. x # r => /\ Rest(x)' = Rest(x)
                     /\ \A k, v : Going(x, k, v)' = Going(x, k, v)
        BY <1>1, Others
      <4> QED
        BY <1>1, <1>6, <2>2, <4>1 DEF Cleared
    <3>2. user'.id = AccountOf(x)' => user'.family = None
      BY <1>6, <2>2, <3>1, Clearing
    <3> QED
      BY <1>3, <1>4, <3>1, <3>2
  <2> QED
    BY <2>1, <2>2
<1>7. /\ Going(x, "login", "ok")' /\ Rest(x)' <= 4 => saw'[x].family = x
      /\ Going(x, "refresh", "refused")' /\ Rest(x)' \in 2 .. 3 /\ call[x].token # None =>
           saw'[x].id = Claims(call[x].token).id
  BY SightKept
<1>8. Going(x, "refresh", "refused")' /\ Rest(x)' \in 2 .. 3 /\ call[x].token # None =>
        saw'[x].id = Claims(call[x].token).id'
  <2>1. Going(x, "refresh", "refused")' /\ call[x].token # None =>
          call[x].token = First \/ Given(call[x].token)
    BY <1>1 DEF Going, ShapeInv, RequestInv, TokenInv
  <2>2. \A t : t = call[x].token /\ (t = First \/ Given(t)) => Claims(t)' = Claims(t)
    BY <1>1, GivenStays
  <2>3. call[x].token = First \/ Given(call[x].token) =>
          Claims(call[x].token).id' = Claims(call[x].token).id
    BY <1>1, <2>2 DEF Claims
  <2> QED
    BY <1>7, <2>1, <2>3
<1> QED
  BY <1>1, <1>2, <1>6, <1>7, <1>8 DEF EndInv
-------------------------------------------------------------------------------
(* The list does not show what is gone                                     *)

\* A list does not show the account that had been deleted when it arrived.
LEMMA ListKept ==
  ASSUME StoreInv, ShapeInv, OrderInv, IdInv, NEW r \in Requests, Effect(r),
         NEW d \in Requests, ListInv(d)
  PROVE  ListInv(d)'
<1>1. /\ Goes(r) /\ RestEffect(r) /\ AccountEffect(r) /\ ReadEffect(r) /\ CacheEffect(r)
      /\ call' = call /\ before' = before /\ ~ Ended(r)
  BY Itself DEF Effect
<1>2. Unread(d)' = Unread(d)
  BY <1>1 DEF Unread, Apart
<1>3. \A y \in Requests : r \notin before[y]
  BY <1>1 DEF OrderInv
<1>4. At(r, "create") => call[r].kind = "register" /\ ~ Known(r)
  <2>1. At(r, "create") => call[r].kind = "register" /\ Rest(r) = 6
    BY <1>1, Itself, Awaits DEF OkAwaits, RefusedAwaits, At, Rest
  <2> QED
    BY <2>1 DEF Known
<1>5. ASSUME Gone(d), Gone(d)'
      PROVE  /\ saw'[d] = saw[d] /\ saw[d].id # None /\ user'.id # saw[d].id
             /\ Unread(d) =>
                  /\ \A y \in Requests : d \in before[y] /\ call[y].kind = "list" =>
                       saw'[y].id # saw[d].id
                  /\ Ended(d)' => listed' = None \/ saw[d].id \notin listed'
  <2> DEFINE a == saw[d].id
  <2>1. /\ a # None /\ user.id # a /\ Known(a)
        /\ Unread(d) =>
             /\ \A y \in Requests : d \in before[y] /\ call[y].kind = "list" => saw[y].id # a
             /\ Ended(d) => listed = None \/ a \notin listed
    BY <1>5 DEF ListInv, IdInv
  <2>2. d = r => At(r, "uncache") /\ verdict'[r] = "ok"
    <3>1. d = r => /\ call[r].kind = "delete" /\ verdict[r] = "ok" /\ verdict'[r] = "ok"
                   /\ Rest(r) = 1 /\ Running(r)
      BY <1>1, <1>5, Itself DEF Gone, Going
    <3>2. d = r => OkAwaits("delete", todo[r])
      BY <3>1, Awaits
    <3> QED
      BY <3>1, <3>2 DEF OkAwaits, At, Rest
  <2>3. saw'[d] = saw[d]
    <3>1. d = r => \A s \in {"find", "create", "delete", "get", "query"} : ~ At(r, s)
      BY <2>2, OneAwait
    <3> QED
      BY <1>1, <2>2, <3>1, KeepsSight, Others
  <2>4. a # r \/ ~ At(r, "create")
    BY <1>4, <2>1
  <2> HIDE DEF a
  <2>5. user'.id # a
    BY <1>1, <2>1, <2>4 DEF AccountEffect
  <2>6. ASSUME Unread(d), NEW y \in Requests, d \in before[y], call[y].kind = "list"
        PROVE  saw'[y].id # a
    <3>1. CASE y # r
      BY <1>1, <2>1, <2>6, <3>1, Others
    <3>2. CASE y = r
      <4>1. Ended(d)
        BY <2>6 DEF OrderInv
      <4> QED
        BY <1>1, <1>4, <2>1, <2>6, <3>2, <4>1 DEF ReadEffect
    <3> QED
      BY <3>1, <3>2
  <2>7. ASSUME Unread(d), Ended(d)' PROVE listed' = None \/ a \notin listed'
    <3>1. CASE d = r
      BY <1>1, <2>2, <3>1 DEF CacheEffect
    <3>2. CASE d # r
      <4>1. Ended(d)
        BY <1>1, <2>7, <3>2, Others
      <4>2. CASE listed' \in {listed, None}
        BY <2>1, <2>7, <4>1, <4>2
      <4>3. CASE call[r].kind = "list" /\ listed' = {saw[r].id} \ {None}
        <5>1. d \in before[r]
          BY <1>1, <1>3, <2>7, <4>3, Itself DEF Unread, Apart
        <5> QED
          BY <2>1, <2>7, <4>3, <5>1
      <4> QED
        BY <1>1, <4>2, <4>3 DEF CacheEffect
    <3> QED
      BY <3>1, <3>2
  <2> QED
    BY <2>1, <2>3, <2>5, <2>6, <2>7 DEF a
<1>6. ASSUME ~ Gone(d), Gone(d)'
      PROVE  /\ d = r /\ saw'[d].id # None /\ user'.id # saw'[d].id /\ ~ Ended(d)'
  <2>1. d = r
    <3>1. d # r => /\ Rest(d)' = Rest(d)
                   /\ \A k, v : Going(d, k, v)' = Going(d, k, v)
      BY <1>1, Others
    <3> QED
      BY <1>6, <3>1 DEF Gone
  <2>2. /\ call[r].kind = "delete" /\ verdict'[r] = "ok" /\ verdict[r] = "ok"
        /\ Rest(r)' = Rest(r) - 1 /\ Rest(r) \in 1 .. 8 /\ Rest(r)' <= 1
    BY <1>1, <1>6, <2>1, Itself DEF RestEffect, Gone, Going
  <2>3. Rest(r) = 2
    BY <1>1, <1>6, <2>1, <2>2, Itself DEF Gone, Going
  <2>4. At(r, "delete")
    BY <1>1, <2>2, <2>3, Itself, Awaits DEF OkAwaits, At, Rest
  <2>5. ~ Ended(r)'
    BY <1>1, <2>2, <2>3, Itself DEF Ended
  <2> QED
    BY <1>1, <2>1, <2>2, <2>4, <2>5 DEF AccountEffect
<1> QED
  BY <1>1, <1>2, <1>3, <1>5, <1>6 DEF ListInv
-------------------------------------------------------------------------------
(* Counters                                                                *)

\* Sets of requests are finite.
LEMMA Counted ==
  ASSUME NEW S, S \subseteq Requests
  PROVE  IsFiniteSet(S) /\ Cardinality(S) \in Nat
  BY SessionsAssumption, FS_Subset, FS_CardinalityType

\* The failures that logins find.
LEMMA FailuresKept ==
  ASSUME StoreInv, ShapeInv, OrderInv, CountInv, NEW r \in Requests, Effect(r)
  PROVE  /\ \A x \in failed' : call'[x] # None
         /\ \A x \in Requests : MayCount(x)' => Cardinality(failed' \cap before'[x]) < MaxAttempts
<1>1. /\ Goes(r) /\ RestEffect(r) /\ CountEffect(r) /\ call' = call /\ before' = before
      /\ ~ Ended(r) /\ call[r] # None
  BY Itself DEF Effect
<1>2. \A x \in failed' : call'[x] # None
  BY <1>1 DEF CountEffect, CountInv
<1>3. ASSUME NEW x \in Requests, MayCount(x)'
      PROVE  Cardinality(failed' \cap before[x]) < MaxAttempts
  <2>1. failed' \cap before[x] \subseteq failed \cap before[x] /\ failed \subseteq Requests
    BY <1>1 DEF CountEffect, OrderInv, StoreInv
  <2>2. /\ Cardinality(failed' \cap before[x]) <= Cardinality(failed \cap before[x])
        /\ Cardinality(failed \cap before[x]) <= Cardinality(failed)
        /\ Cardinality(failed' \cap before[x]) \in Nat /\ Cardinality(failed \cap before[x]) \in Nat
        /\ Cardinality(failed) \in Nat
    <3>1. IsFiniteSet(failed) /\ IsFiniteSet(failed \cap before[x])
      BY <2>1, Counted
    <3>2. /\ Cardinality(failed' \cap before[x]) <= Cardinality(failed \cap before[x])
          /\ Cardinality(failed \cap before[x]) <= Cardinality(failed)
      BY <2>1, <3>1, FS_Subset
    <3> QED
      BY <2>1, <3>2, Counted
  <2>3. MaxAttempts \in Nat
    BY SessionsAssumption
  <2>4. CASE MayCount(x)
    BY <2>2, <2>3, <2>4 DEF CountInv
  <2>5. CASE ~ MayCount(x)
    <3>1. x = r
      <4>1. x # r => /\ Rest(x)' = Rest(x) /\ (x \in failed' => x \in failed)
                     /\ \A k, v : Going(x, k, v)' = Going(x, k, v)
        BY <1>1, Others DEF CountEffect
      <4> QED
        BY <1>3, <2>5, <4>1 DEF MayCount
    <3>2. ASSUME r \in failed', r \notin failed PROVE MayCount(r)
      <4>1. At(r, "count")
        BY <1>1, <3>2 DEF CountEffect
      <4>2. verdict[r] = "refused" /\ call[r].kind = "login" /\ Rest(r) = 2
        BY <1>1, <4>1, Itself, Awaits DEF OkAwaits, RefusedAwaits, At, Rest
      <4> QED
        BY <1>1, <4>2 DEF MayCount, Going
    <3>3. ASSUME Going(r, "login", "refused")', Rest(r)' = 2 PROVE MayCount(r)
      <4>1. call[r].kind = "login" /\ verdict'[r] = "refused"
        BY <1>1, <3>3 DEF Going
      <4>2. CASE verdict[r] = "refused"
        <5>1. RefusedAwaits("login", todo[r])
          BY <1>1, <4>1, <4>2, Itself, Awaits
        <5>2. Rest(r) <= 2
          BY <5>1 DEF RefusedAwaits, Rest
        <5>3. Rest(r) = 2
          BY <1>1, <3>3, <5>2, Itself
        <5> QED
          BY <1>1, <4>1, <4>2, <5>3 DEF MayCount, Going
      <4>3. CASE verdict[r] # "refused"
        <5>1. At(r, "find") /\ verdict[r] = "ok"
          BY <1>1, <3>3, <4>1, <4>3, Itself DEF RestEffect
        <5>2. OkAwaits("login", todo[r])
          BY <1>1, <4>1, <5>1, Itself, Awaits
        <5>3. Rest(r) = 5
          BY <5>1, <5>2 DEF OkAwaits, At, Rest
        <5> QED
          BY <1>1, <4>1, <5>1, <5>3 DEF MayCount, Going
      <4> QED
        BY <4>2, <4>3
    <3>4. ASSUME Going(r, "login", "ok")', Rest(r)' = 5 PROVE Cardinality(failed) < MaxAttempts
      <4>1. /\ call[r].kind = "login" /\ verdict'[r] = "ok" /\ verdict[r] = "ok"
            /\ Rest(r)' = Rest(r) - 1 /\ Rest(r) \in 1 .. 8
        BY <1>1, <3>4, Itself DEF Going, RestEffect
      <4>2. Rest(r) = 6
        BY <3>4, <4>1
      <4>3. At(r, "check")
        BY <1>1, <4>1, <4>2, Itself, Awaits DEF OkAwaits, At, Rest
      <4> QED
        BY <1>1, <4>1, <4>3 DEF CountEffect
    <3> QED
      BY <1>3, <2>2, <2>3, <2>5, <3>1, <3>2, <3>3, <3>4 DEF MayCount
  <2> QED
    BY <2>4, <2>5
<1> QED
  BY <1>1, <1>2, <1>3

\* The user of a request that is counted stays the same.
LEMMA UserStays ==
  ASSUME ShapeInv, NEW r \in Requests, Goes(r), NEW x \in Requests, call[x] # None,
         call[x].kind = "use"
  PROVE  UserOf(x)' = UserOf(x)
<1>1. call[x].token = First \/ Given(call[x].token)
  BY DEF ShapeInv, RequestInv, TokenInv
<1>2. \A t : t = call[x].token => Claims(t)' = Claims(t)
  BY <1>1, GivenStays
<1>3. call' = call
  BY Itself
<1> QED
  BY <1>2, <1>3 DEF Claims, UserOf

\* The key of a user grows only by Enter.
LEMMA UsesAfter ==
  ASSUME StoreInv, ShapeInv, CountInv, NEW r \in Requests, Effect(r), NEW i
  PROVE  /\ used' = used => Uses(i)' = Uses(i)
         /\ At(r, "enter") => r \notin used
         /\ used' = used \cup {r} /\ call[r].kind = "use" =>
              Uses(i)' = IF UserOf(r) = i THEN Uses(i) \cup {r} ELSE Uses(i)
<1>1. \A x \in used : x \in Requests /\ call[x] # None /\ call[x].kind = "use" /\ ~ At(x, "enter")
  BY DEF CountInv, StoreInv
<1>2. \A x \in used : UserOf(x)' = UserOf(x)
  BY <1>1, UserStays DEF Effect
<1>3. used' = used => Uses(i)' = Uses(i)
  BY <1>2 DEF Uses
<1>4. call[r].kind = "use" => UserOf(r)' = UserOf(r)
  BY UserStays, Itself DEF Effect
<1>5. used' = used \cup {r} /\ call[r].kind = "use" =>
        Uses(i)' = IF UserOf(r) = i THEN Uses(i) \cup {r} ELSE Uses(i)
  BY <1>2, <1>4 DEF Uses
<1> QED
  BY <1>1, <1>3, <1>5

\* The rate limit of a user.
LEMMA AdmittedKept ==
  ASSUME StoreInv, ShapeInv, CountInv, NEW r \in Requests, Effect(r), NEW i \in Origins
  PROVE  Cardinality(Admitted(i)') <= MaxUses
<1>1. Goes(r) /\ CountEffect(r) /\ call' = call /\ MaxUses \in Nat
  BY Itself, SessionsAssumption DEF Effect
<1>2. \A x \in Requests : verdict'[x] = "ok" => verdict[x] = "ok"
  BY <1>1, Others, Itself
<1>3. /\ Uses(i) \subseteq Requests /\ Admitted(i) \subseteq Requests
      /\ Cardinality(Admitted(i)) <= MaxUses
  BY DEF Uses, Admitted, CountInv, StoreInv
<1>4. ASSUME Admitted(i)' \subseteq Admitted(i) PROVE Cardinality(Admitted(i)') <= MaxUses
  <2>1. IsFiniteSet(Admitted(i)) /\ Cardinality(Admitted(i)) \in Nat
    BY <1>3, Counted
  <2>2. Admitted(i)' \subseteq Requests
    BY <1>3, <1>4
  <2>3. Cardinality(Admitted(i)') \in Nat
    BY <2>2, Counted
  <2>4. Cardinality(Admitted(i)') <= Cardinality(Admitted(i))
    BY <1>4, <2>1, FS_Subset
  <2> QED
    BY <1>1, <1>3, <2>1, <2>3, <2>4
<1>5. CASE used' = used
  <2>1. Uses(i)' = Uses(i) /\ Uses(i) \subseteq Requests
    BY <1>3, <1>5, UsesAfter
  <2>2. Admitted(i)' \subseteq Admitted(i)
    BY <1>2, <2>1 DEF Admitted
  <2> QED
    BY <1>4, <2>2
<1>6. CASE Enter(r)
  <2> DEFINE n == Cardinality(Uses(UserOf(r)) \cup {r})
  <2>1. /\ At(r, "enter") /\ used' = used \cup {r}
        /\ verdict' = [verdict EXCEPT ![r] = IF n <= MaxUses THEN "ok" ELSE "refused"]
    BY <1>6 DEF Enter, Turn
  <2>2. call[r].kind = "use"
    BY <1>1, <2>1, Itself, Awaits DEF OkAwaits, RefusedAwaits, At
  <2>3. Uses(i)' = IF UserOf(r) = i THEN Uses(i) \cup {r} ELSE Uses(i)
    BY <2>1, <2>2, UsesAfter
  <2>4. CASE UserOf(r) = i /\ n <= MaxUses
    <3>1. Admitted(i)' \subseteq Uses(i) \cup {r} /\ Uses(i) \cup {r} \subseteq Requests
      BY <1>3, <2>3, <2>4 DEF Admitted
    <3>2. IsFiniteSet(Uses(i) \cup {r}) /\ n \in Nat /\ Cardinality(Admitted(i)') \in Nat
      BY <2>4, <3>1, Counted
    <3>3. Cardinality(Admitted(i)') <= n
      BY <2>4, <3>1, <3>2, FS_Subset
    <3> QED
      BY <1>1, <2>4, <3>2, <3>3
  <2>5. CASE ~ (UserOf(r) = i /\ n <= MaxUses)
    <3>1. UserOf(r) = i => verdict'[r] = "refused"
      BY <2>1, <2>5 DEF ShapeInv
    <3>2. Admitted(i)' \subseteq Admitted(i)
      BY <1>2, <1>3, <2>3, <3>1 DEF Admitted
    <3> QED
      BY <1>4, <3>2
  <2> QED
    BY <2>4, <2>5
<1>7. SetLimitExpiry(r) => used' = used
  BY DEF SetLimitExpiry
<1> QED
  BY <1>1, <1>5, <1>6, <1>7 DEF CountEffect

\* A counter without expiry is about to get one.
LEMMA ExpiryKept ==
  ASSUME StoreInv, ShapeInv, CountInv, NEW r \in Requests, Effect(r)
  PROVE  CounterExpires'
<1>1. Goes(r) /\ CountEffect(r) /\ call' = call
  BY Itself DEF Effect
<1> SUFFICES ASSUME faults' = 0 PROVE
      /\ failed' # {} /\ ~ window' => \E x \in Requests : At(x, "expire")'
      /\ \A i \in Origins \ limited' :
           Uses(i)' # {} => \E x \in Uses(i)' : At(x, "limit")'
  BY DEF CounterExpires
<1>2. faults = 0
  <2>1. faults' \in 0 .. MaxFaults /\ faults <= faults' /\ faults \in 0 .. MaxFaults
    BY <1>1 DEF Goes, ShapeInv
  <2> QED
    BY <2>1, SessionsAssumption
<1>3. ASSUME failed' # {}, ~ window' PROVE \E x \in Requests : At(x, "expire")'
  <2>1. CASE At(r, "expire")'
    BY <2>1
  <2>2. CASE failed # {} /\ ~ window /\ ~ At(r, "expire")
    <3>1. PICK x \in Requests : At(x, "expire")
      BY <1>2, <2>2 DEF CountInv, CounterExpires
    <3>2. At(x, "expire")'
      BY <1>1, <2>2, <3>1, Others
    <3> QED
      BY <3>2
  <2> QED
    BY <1>1, <1>3, <2>1, <2>2 DEF CountEffect
<1>4. ASSUME NEW i \in Origins \ limited', Uses(i)' # {}
      PROVE  \E x \in Uses(i)' : At(x, "limit")'
  <2>0. Uses(i) \subseteq Requests
    BY DEF Uses, StoreInv
  <2>1. ASSUME Uses(i) # {}, i \notin limited, Uses(i) \subseteq Uses(i)',
               At(r, "limit") => r \notin Uses(i)
        PROVE  \E x \in Uses(i)' : At(x, "limit")'
    <3>1. PICK x \in Uses(i) : At(x, "limit")
      BY <1>2, <2>1 DEF CountInv, CounterExpires
    <3>2. At(x, "limit")' /\ x \in Uses(i)'
      BY <1>1, <2>0, <2>1, <3>1, Others
    <3> QED
      BY <3>2
  <2>2. CASE UNCHANGED <<used, limited>> /\ ~ At(r, "limit")
    <3>1. Uses(i)' = Uses(i)
      BY <2>2, UsesAfter
    <3> QED
      BY <1>4, <2>1, <2>2, <3>1
  <2>3. CASE Enter(r)
    <3> DEFINE n == Cardinality(Uses(UserOf(r)) \cup {r})
    <3>1. /\ At(r, "enter") /\ used' = used \cup {r} /\ limited' = limited
          /\ todo' = [todo EXCEPT ![r] = IF n = 1 THEN <<"limit">> ELSE <<>>]
      BY <2>3 DEF Enter, Turn
    <3>2. call[r].kind = "use"
      BY <1>1, <3>1, Itself, Awaits DEF OkAwaits, RefusedAwaits, At
    <3>3. Uses(i)' = IF UserOf(r) = i THEN Uses(i) \cup {r} ELSE Uses(i)
      BY <3>1, <3>2, UsesAfter
    <3>4. CASE Uses(i) # {}
      <4>1. Uses(i) \subseteq Uses(i)' /\ (At(r, "limit") => r \notin Uses(i)) /\ i \notin limited
        BY <3>1, <3>3, OneAwait
      <4> QED
        BY <2>1, <3>4, <4>1
    <3>5. CASE Uses(i) = {}
      <4>1. UserOf(r) = i /\ Uses(i)' = {r}
        BY <1>4, <3>3, <3>5
      <4>2. n = 1
        <5>1. Uses(UserOf(r)) \cup {r} = {r}
          BY <3>5, <4>1
        <5> QED
          BY <5>1, FS_Singleton
      <4>3. todo'[r] = <<"limit">>
        BY <3>1, <4>2 DEF ShapeInv
      <4>4. <<"limit">> # <<>> /\ Head(<<"limit">>) = "limit"
        OBVIOUS
      <4>5. At(r, "limit")'
        BY <4>3, <4>4 DEF At, Running
      <4> QED
        BY <4>1, <4>5
    <3> QED
      BY <3>4, <3>5
  <2>4. CASE SetLimitExpiry(r)
    <3>1. /\ At(r, "limit") /\ used' = used
          /\ limited' = IF Uses(UserOf(r)) = {} THEN limited ELSE limited \cup {UserOf(r)}
      BY <2>4 DEF SetLimitExpiry
    <3>2. Uses(i)' = Uses(i)
      BY <3>1, UsesAfter
    <3>3. i \notin limited /\ i # UserOf(r)
      BY <1>4, <3>1, <3>2
    <3>4. r \notin Uses(i)
      BY <3>3 DEF Uses
    <3> QED
      BY <1>4, <2>1, <3>2, <3>3, <3>4
  <2> QED
    BY <1>1, <2>2, <2>3, <2>4 DEF CountEffect
<1> QED
  BY <1>3, <1>4

\* The counters together.
LEMMA CountKept ==
  ASSUME StoreInv, ShapeInv, OrderInv, CountInv, NEW r \in Requests, Effect(r)
  PROVE  CountInv'
<1>1. Goes(r) /\ CountEffect(r) /\ call' = call /\ before' = before
  BY Itself DEF Effect
<1>2. ASSUME NEW x \in used'
      PROVE  call'[x] # None /\ call'[x].kind = "use" /\ ~ At(x, "enter")'
  <2>1. CASE x # r
    <3>1. x \in used /\ x \in Requests
      BY <1>1, <1>2, <2>1 DEF CountEffect, Enter, SetLimitExpiry, StoreInv
    <3> QED
      BY <1>1, <2>1, <3>1, Others DEF CountInv
  <2>2. CASE x = r
    <3>1. r \in used \/ At(r, "enter")
      BY <1>1, <1>2, <2>2 DEF CountEffect, Enter, SetLimitExpiry
    <3>2. call[r] # None /\ call[r].kind = "use"
      BY <1>1, <3>1, Itself, Awaits DEF CountInv, OkAwaits, RefusedAwaits, At
    <3> QED
      BY <1>1, <2>2, <3>2 DEF CountEffect
  <2> QED
    BY <2>1, <2>2
<1> QED
  BY <1>1, <1>2, FailuresKept, AdmittedKept, ExpiryKept DEF CountInv
-------------------------------------------------------------------------------
(* Arrivals, expiries and the first state                                  *)

\* What a request is to do when it arrives.
LEMMA PlanLists ==
  ASSUME NEW k \in Kinds
  PROVE  /\ Plan(k) \in Ok(k) /\ Plan(k) # <<>>
         /\ Len(Plan(k)) =
              CASE k = "register" -> 7 [] k = "verify" -> 3 [] k = "login" -> 6
                [] k = "refresh" -> 4 [] k = "logout" -> 3 [] k = "forgot" -> 6
                [] k = "reset" -> 8 [] k = "delete" -> 2 [] k = "list" -> 3 [] k = "use" -> 1
<1>1. CASE k = "register"
  BY <1>1 DEF Plan, Ok, Register
<1>2. CASE k = "verify"
  BY <1>2 DEF Plan, Ok, Verify
<1>3. CASE k = "login"
  BY <1>3 DEF Plan, Ok, Login
<1>4. CASE k = "refresh"
  BY <1>4 DEF Plan, Ok, Refresh
<1>5. CASE k = "logout"
  BY <1>5 DEF Plan, Ok, Logout
<1>6. CASE k = "forgot"
  BY <1>6 DEF Plan, Ok, Forgot
<1>7. CASE k = "reset"
  BY <1>7 DEF Plan, Ok, Reset
<1>8. CASE k = "delete"
  BY <1>8 DEF Plan, Ok, DeleteUser
<1>9. CASE k = "list"
  BY <1>9 DEF Plan, Ok, ListUsers
<1>10. CASE k = "use"
  BY <1>10 DEF Plan, Ok, UseToken
<1> QED
  BY <1>1, <1>2, <1>3, <1>4, <1>5, <1>6, <1>7, <1>8, <1>9, <1>10 DEF Kinds

\* What the arrival of r with the request c changes.
Arrived(r, c) ==
  /\ call[r] = None /\ c \in Calls /\ c # None
  /\ call' = [call EXCEPT ![r] = c]
  /\ todo' = [todo EXCEPT ![r] = todo'[r]] /\ verdict' = [verdict EXCEPT ![r] = verdict'[r]]
  /\ before' = [before EXCEPT ![r] = {q \in Requests : Ended(q)}]
  /\ UNCHANGED <<storeVars, redisVars, saw, faults>>
  /\ todo'[r] # <<>> /\ todo'[r] \in Left(c.kind, verdict'[r])
  /\ \/ /\ verdict'[r] = "ok" /\ todo'[r] = Plan(c.kind)
        /\ c.kind \in {"refresh", "verify", "reset"} => c.token # None
     \/ /\ verdict'[r] = "refused" /\ Rest(r)' = 1
        /\ c.token = None /\ c.kind \in {"refresh", "verify", "reset"}
  /\ c.kind \in {"logout", "use"} => c.token = First \/ Given(c.token)
  /\ c.kind = "refresh" => c.token \in {First, None} \/ Given(c.token)
  /\ c.kind \in {"verify", "reset"} => c.token \in mailed \cup {None}

\* A request arrives.
LEMMA Arrival ==
  ASSUME ShapeInv, NEW r \in Requests, Arrive(r)
  PROVE  \E c : Arrived(r, c)
<1>1. PICK c \in Calls :
        /\ c.token \in Presentable(c.kind)
               \cup (IF c.kind \in {"logout", "use"} THEN {} ELSE {None})
        /\ call' = [call EXCEPT ![r] = c]
        /\ IF c.token = None /\ c.kind \in {"refresh", "verify", "reset"}
             THEN Refuse(r, <<"audit">>)
             ELSE Turn(r, Plan(c.kind), "ok")
  BY DEF Arrive
<1>2. c # None /\ c.kind \in Kinds
  BY CallAssumption DEF Calls
<1>3. /\ call[r] = None /\ before' = [before EXCEPT ![r] = {q \in Requests : Ended(q)}]
      /\ UNCHANGED <<storeVars, redisVars, saw, faults>>
  BY DEF Arrive
<1>4. /\ c.kind \in {"logout", "use"} => c.token = First \/ Given(c.token)
      /\ c.kind = "refresh" => c.token \in {First, None} \/ Given(c.token)
      /\ c.kind \in {"verify", "reset"} => c.token \in mailed \cup {None}
  BY <1>1 DEF Presentable, Given
<1>5. CASE /\ c.token = None /\ c.kind \in {"refresh", "verify", "reset"}
           /\ Refuse(r, <<"audit">>)
  <2>1. todo'[r] = <<"audit">> /\ verdict'[r] = "refused"
    BY <1>5 DEF Refuse, Turn, ShapeInv
  <2>2. <<"audit">> # <<>> /\ Len(<<"audit">>) = 1 /\ <<"audit">> \in Left(c.kind, "refused")
    BY <1>5, TurnLists
  <2>3. todo' = [todo EXCEPT ![r] = todo'[r]] /\ verdict' = [verdict EXCEPT ![r] = verdict'[r]]
    BY <1>5, <2>1 DEF Refuse, Turn
  <2>4. todo'[r] # <<>> /\ Rest(r)' = 1 /\ todo'[r] \in Left(c.kind, verdict'[r])
    BY <2>1, <2>2 DEF Rest
  <2>5. Arrived(r, c)
    BY <1>1, <1>2, <1>3, <1>4, <1>5, <2>1, <2>3, <2>4, Zenon DEF Arrived
  <2> QED
    BY <2>5
<1>6. CASE /\ ~ (c.token = None /\ c.kind \in {"refresh", "verify", "reset"})
           /\ Turn(r, Plan(c.kind), "ok")
  <2>1. todo'[r] = Plan(c.kind) /\ verdict'[r] = "ok"
    BY <1>6 DEF Turn, ShapeInv
  <2>2. Plan(c.kind) # <<>> /\ Plan(c.kind) \in Left(c.kind, "ok")
    BY <1>2, PlanLists DEF Left
  <2>3. todo' = [todo EXCEPT ![r] = todo'[r]] /\ verdict' = [verdict EXCEPT ![r] = verdict'[r]]
    BY <1>6, <2>1 DEF Turn
  <2>4. todo'[r] # <<>> /\ todo'[r] \in Left(c.kind, verdict'[r])
    BY <2>1, <2>2
  <2>5. Arrived(r, c)
    BY <1>1, <1>2, <1>3, <1>4, <1>6, <2>1, <2>3, <2>4, Zenon DEF Arrived
  <2> QED
    BY <2>5
<1> QED
  BY <1>1, <1>5, <1>6

\* A request that arrives is known to nobody.
LEMMA Fresh ==
  ASSUME Inv, NEW r \in Requests, NEW c, Arrived(r, c)
  PROVE  /\ call[r] = None /\ saw[r] = NoCopy /\ ~ Ended(r) /\ ~ Running(r) /\ ~ Given(r)
         /\ ~ Known(r)
         /\ r \notin mailed /\ r \notin used /\ r \notin failed
         /\ \A x \in Requests : r \notin before[x]
<1>1. call[r] = None
  BY DEF Arrived
<1>2. saw[r] = NoCopy /\ ~ Running(r)
  BY <1>1 DEF Inv, ShapeInv, RequestInv, Running
<1>3. ~ Ended(r) /\ ~ Given(r) /\ ~ Known(r)
  BY <1>1 DEF Ended, Given, Known
<1>4. r \notin mailed /\ r \notin used /\ r \notin failed
  BY <1>1 DEF Inv, MailInv, CountInv
<1>5. \A x \in Requests : r \notin before[x]
  BY <1>3 DEF Inv, OrderInv
<1> QED
  BY <1>1, <1>2, <1>3, <1>4, <1>5

\* The others stay as they were.
LEMMA ArrivalOthers ==
  ASSUME ShapeInv, NEW r \in Requests, NEW c, Arrived(r, c), NEW x \in Requests, x # r
  PROVE  /\ call'[x] = call[x] /\ todo'[x] = todo[x] /\ verdict'[x] = verdict[x]
         /\ saw'[x] = saw[x] /\ before'[x] = before[x]
         /\ Rest(x)' = Rest(x) /\ Running(x)' = Running(x) /\ Ended(x)' = Ended(x)
         /\ \A k, v : Going(x, k, v)' = Going(x, k, v)
         /\ \A t : At(x, t)' = At(x, t)
<1>1. /\ call'[x] = call[x] /\ todo'[x] = todo[x] /\ verdict'[x] = verdict[x]
      /\ saw'[x] = saw[x] /\ before'[x] = before[x]
  BY DEF Arrived, ShapeInv
<1> QED
  BY <1>1 DEF Rest, Running, Ended, Going, At

\* What the new request is going to do.
LEMMA ArrivalItself ==
  ASSUME ShapeInv, NEW r \in Requests, NEW c, Arrived(r, c)
  PROVE  /\ call'[r] = c /\ c # None /\ c \in Calls /\ c.kind \in Kinds
         /\ before'[r] = {q \in Requests : Ended(q)} /\ Running(r)' /\ saw' = saw
         /\ verdict'[r] \in {"ok", "refused"}
         /\ verdict'[r] = "refused" =>
              Rest(r)' = 1 /\ c.token = None /\ c.kind \in {"refresh", "verify", "reset"}
         /\ verdict'[r] = "ok" =>
              /\ c.kind \in {"verify", "logout"} => Rest(r)' = 3
              /\ c.kind = "login" => Rest(r)' = 6
              /\ c.kind = "refresh" => Rest(r)' = 4
              /\ c.kind = "reset" => Rest(r)' = 8
              /\ c.kind = "delete" => Rest(r)' = 2
<1>1. /\ call'[r] = c /\ c # None /\ c \in Calls /\ c.kind \in Kinds
      /\ before'[r] = {q \in Requests : Ended(q)} /\ todo'[r] # <<>> /\ saw' = saw
      /\ verdict'[r] \in {"ok", "refused"}
  BY DEF Arrived, ShapeInv, Calls
<1>2. verdict'[r] = "refused" =>
        Rest(r)' = 1 /\ c.token = None /\ c.kind \in {"refresh", "verify", "reset"}
  BY DEF Arrived
<1>3. verdict'[r] = "ok" => Rest(r)' = Len(Plan(c.kind))
  BY DEF Arrived, Rest
<1>4. verdict'[r] = "ok" =>
        /\ c.kind \in {"verify", "logout"} => Rest(r)' = 3
        /\ c.kind = "login" => Rest(r)' = 6
        /\ c.kind = "refresh" => Rest(r)' = 4
        /\ c.kind = "reset" => Rest(r)' = 8
        /\ c.kind = "delete" => Rest(r)' = 2
  BY <1>1, <1>3, PlanLists
<1> QED
  BY <1>1, <1>2, <1>4 DEF Running

\* The shape of the requests after an arrival.
LEMMA ArrivalShape ==
  ASSUME Inv, NEW r \in Requests, NEW c, Arrived(r, c)
  PROVE  StoreInv' /\ ShapeInv' /\ OrderInv'
<1>1. StoreInv /\ ShapeInv /\ OrderInv
  BY DEF Inv
<1>2. StoreInv' /\ mailed' = mailed
  BY <1>1, QuietStore DEF Arrived, storeVars
<1>3. /\ call' \in [Requests -> Calls \cup {None}] /\ todo' = [q \in Requests |-> todo'[q]]
      /\ verdict' \in [Requests -> Verdicts] /\ saw' \in [Requests -> Copies]
      /\ before' \in [Requests -> SUBSET Requests] /\ faults' \in 0 .. MaxFaults
  <2>1. verdict'[r] \in Verdicts
    BY <1>1, ArrivalItself DEF Verdicts
  <2> QED
    BY <1>1, <2>1 DEF Arrived, ShapeInv
<1>4. ASSUME NEW t, Given(t)
      PROVE  /\ t \in Requests /\ call'[t] # None /\ todo'[t] = <<>> /\ verdict'[t] = "ok"
             /\ call'[t].kind \in {"login", "refresh"}
  BY <1>1, <1>4, Fresh, ArrivalOthers DEF Given, Ended, Running
<1>5. ASSUME NEW x \in Requests PROVE RequestInv(x)'
  <2>1. CASE x # r
    <3>1. /\ call'[x] = call[x] /\ todo'[x] = todo[x] /\ verdict'[x] = verdict[x]
          /\ saw'[x] = saw[x] /\ RequestInv(x)
      BY <1>1, <2>1, ArrivalOthers DEF ShapeInv
    <3>2. TokenInv(x) => TokenInv(x)'
      BY <1>2, <1>4, <3>1 DEF TokenInv, Given, Ended, Running
    <3>3. SessionInv(x) => SessionInv(x)'
      BY <3>1 DEF SessionInv
    <3> QED
      BY <3>1, <3>2, <3>3 DEF RequestInv
  <2>2. CASE x = r
    <3>1. /\ call'[r] = c /\ c # None /\ c \in Calls /\ todo'[r] \in Left(c.kind, verdict'[r])
          /\ verdict'[r] \in {"ok", "refused"}
      BY <1>1, ArrivalItself DEF Arrived
    <3>2. TokenInv(r)'
      BY <1>2, <1>4, <3>1 DEF Arrived, TokenInv, Given, Ended, Running
    <3>3. SessionInv(r)'
      <4>1. Rest(r)' = Len(todo'[r])
        BY DEF Rest
      <4>2. verdict'[r] = "ok" => /\ c.kind = "login" => Len(todo'[r]) = 6
                                  /\ c.kind = "refresh" => Len(todo'[r]) = 4
        BY <1>1, <4>1, ArrivalItself
      <4>3. \A n : n = 6 \/ n = 4 => ~ (n <= 3)
        OBVIOUS
      <4>4. ~ (6 <= 4)
        OBVIOUS
      <4> QED
        BY <3>1, <4>2, <4>3, <4>4, Zenon DEF SessionInv
    <3> QED
      BY <2>2, <3>1, <3>2, <3>3 DEF RequestInv
  <2> QED
    BY <2>1, <2>2
<1>6. OrderInv'
  <2>1. ASSUME NEW x \in Requests, NEW q \in before'[x]
        PROVE  Ended(q)' /\ call'[x] # None /\ x \notin before'[q]
    <3>1. CASE x # r
      <4>1. q \in before[x] /\ Ended(q) /\ q \in Requests /\ q # r
        BY <1>1, <2>1, <3>1, ArrivalOthers, Fresh DEF OrderInv, ShapeInv
      <4> QED
        BY <1>1, <3>1, <4>1, ArrivalOthers DEF OrderInv
    <3>2. CASE x = r
      <4>1. Ended(q) /\ q \in Requests /\ q # r
        BY <1>1, <2>1, <3>2, ArrivalItself, Fresh
      <4> QED
        BY <1>1, <3>2, <4>1, ArrivalOthers, ArrivalItself, Fresh
    <3> QED
      BY <3>1, <3>2
  <2> QED
    BY <2>1 DEF OrderInv
<1> QED
  BY <1>2, <1>3, <1>5, <1>6 DEF ShapeInv

\* The tokens and the accounts after an arrival.
LEMMA ArrivalTokens ==
  ASSUME Inv, NEW r \in Requests, NEW c, Arrived(r, c)
  PROVE  /\ IdInv' /\ MailInv' /\ (user'.token = None => user'.family = None)
         /\ \A x \in Requests : OnceInv(x)'
         /\ \A q, x \in Requests : PairInv(q, x)'
<1>1. StoreInv /\ ShapeInv
  BY DEF Inv
<1>2. UNCHANGED <<user, expired, mailed, failed, window, used, limited, listed, saw>>
  BY DEF Arrived, storeVars, redisVars
<1>3. user'.token = None => user'.family = None
  BY <1>2 DEF Inv
<1>4. \A i : Known(i) => Known(i)'
  BY <1>1, Fresh, ArrivalOthers DEF Known
<1>5. IdInv'
  <2>1. IdInv
    BY DEF Inv
  <2>2. Known(user.id)'
    <3>1. \A i : i = user.id => Known(i)'
      BY <1>4, <2>1 DEF IdInv
    <3> QED
      BY <1>2, <3>1 DEF Known
  <2>3. \A x \in Requests : Known(saw[x].id)'
    <3>1. \A x \in Requests : \A i : i = saw[x].id => Known(i)'
      BY <1>4, <2>1 DEF IdInv
    <3> QED
      BY <1>2, <3>1 DEF Known
  <2>4. listed' # None => \A i \in listed' : Known(i)'
    BY <1>2, <1>4, <2>1 DEF IdInv
  <2> QED
    BY <2>2, <2>3, <2>4 DEF IdInv
<1>6. MailInv'
  BY <1>1, <1>2, Fresh, ArrivalOthers DEF Inv, MailInv, StoreInv
<1>7. ASSUME NEW x \in Requests PROVE OnceInv(x)'
  <2>1. CASE x # r
    <3>1. OnceInv(x)
      BY DEF Inv
    <3>2. /\ call'[x] = call[x] /\ Rest(x)' = Rest(x)
          /\ \A k, v : Going(x, k, v)' = Going(x, k, v)
      BY <1>1, <2>1, ArrivalOthers
    <3> QED
      BY <1>2, <3>1, <3>2 DEF OnceInv, Verified, Refreshed, HasReset
  <2>2. CASE x = r
    BY <1>1, <2>2, ArrivalItself DEF OnceInv, Verified, Refreshed, HasReset, Going
  <2> QED
    BY <2>1, <2>2
<1>8. ASSUME NEW q \in Requests, NEW x \in Requests PROVE PairInv(q, x)'
  <2>1. CASE q # r /\ x # r
    <3>1. PairInv(q, x)
      BY DEF Inv
    <3>2. /\ call'[x] = call[x] /\ Rest(x)' = Rest(x) /\ before'[x] = before[x]
          /\ \A k, v : Going(x, k, v)' = Going(x, k, v)
      BY <1>1, <2>1, ArrivalOthers
    <3>3. /\ call'[q] = call[q] /\ Rest(q)' = Rest(q)
          /\ \A k, v : Going(q, k, v)' = Going(q, k, v)
      BY <1>1, <2>1, ArrivalOthers
    <3> QED
      BY <3>1, <3>2, <3>3 DEF PairInv, Verified, Refreshed, HasReset
  <2>2. CASE q = r
    <3>1. r \notin before'[x]
      BY <1>1, Fresh, ArrivalOthers, ArrivalItself
    <3>2. ~ Verified(r)'
      BY <1>1, ArrivalItself DEF Verified, Going
    <3> QED
      BY <2>2, <3>1, <3>2 DEF PairInv
  <2>3. CASE x = r
    <3>1. /\ ~ Verified(r)'
          /\ Going(r, "refresh", "ok")' => Rest(r)' = 4
          /\ Going(r, "reset", "ok")' => Rest(r)' = 8
      BY <1>1, ArrivalItself DEF Verified, Going
    <3> QED
      BY <2>3, <3>1 DEF PairInv
  <2> QED
    BY <2>1, <2>2, <2>3
<1> QED
  BY <1>3, <1>5, <1>6, <1>7, <1>8

\* The sessions, the list and the counters after an arrival.
LEMMA ArrivalSessions ==
  ASSUME Inv, NEW r \in Requests, NEW c, Arrived(r, c)
  PROVE  \A x \in Requests : EndInv(x)' /\ ListInv(x)'
<1>1. StoreInv /\ ShapeInv
  BY DEF Inv
<1>2. UNCHANGED <<user, expired, mailed, failed, window, used, limited, listed, saw>>
  BY DEF Arrived, storeVars, redisVars
<1>3. saw[r] = NoCopy
  BY Fresh
<1>4. ASSUME NEW x \in Requests, x = r PROVE EndInv(x)' /\ ListInv(x)'
  <2>1. ~ Cleared(r)' /\ ~ Gone(r)'
    BY <1>1, ArrivalItself DEF Cleared, Gone, Going
  <2>2. /\ ~ (Going(r, "login", "ok")' /\ Rest(r)' <= 4)
        /\ ~ (Going(r, "refresh", "refused")' /\ Rest(r)' \in 2 .. 3)
    BY <1>1, ArrivalItself DEF Going
  <2> QED
    BY <1>4, <2>1, <2>2 DEF EndInv, ListInv
<1>5. ASSUME NEW x \in Requests, x # r PROVE EndInv(x)' /\ ListInv(x)'
  <2>1. EndInv(x) /\ ListInv(x)
    BY DEF Inv
  <2>2. /\ call'[x] = call[x] /\ Rest(x)' = Rest(x) /\ before'[x] = before[x]
        /\ \A k, v : Going(x, k, v)' = Going(x, k, v)
        /\ Ended(x)' = Ended(x)
    BY <1>1, <1>5, ArrivalOthers
  <2>3. /\ \A y \in Requests : y # r => call'[y] = call[y] /\ before'[y] = before[y]
        /\ call[r] = None
    BY <1>1, ArrivalOthers, Fresh
  <2>4. AccountOf(x)' = AccountOf(x) /\ (Cleared(x)' <=> Cleared(x)) /\ (Gone(x)' <=> Gone(x))
    BY <1>2, <2>2 DEF AccountOf, Claims, Cleared, Gone
  <2>5. Alone(x)' => Alone(x)
    BY <1>5, <2>3 DEF Alone, Apart
  <2>6. Unread(x)' => Unread(x)
    BY <1>5, <2>3 DEF Unread, Apart
  <2>7. EndInv(x)'
    <3>1. /\ Going(x, "login", "ok")' /\ Rest(x)' <= 4 => saw'[x].family = x
          /\ Going(x, "refresh", "refused")' /\ Rest(x)' \in 2 .. 3 /\ call'[x].token # None =>
               saw'[x].id = Claims(call[x].token).id'
      BY <1>2, <2>1, <2>2 DEF EndInv, Claims
    <3>2. ASSUME Cleared(x)', Alone(x)'
          PROVE  /\ user'.id = AccountOf(x)' => user'.family \notin before'[x] \cup {First}
                 /\ \A y \in Requests :
                      /\ x \in before'[y] /\ call'[y].kind = "refresh" /\ saw'[y].id = AccountOf(x)'
                      => saw'[y].family \notin before'[x] \cup {First}
      <4>1. /\ user.id = AccountOf(x) => user.family \notin before[x] \cup {First}
            /\ \A y \in Requests :
                 /\ x \in before[y] /\ call[y].kind = "refresh" /\ saw[y].id = AccountOf(x)
                 => saw[y].family \notin before[x] \cup {First}
        BY <2>1, <2>4, <2>5, <3>2 DEF EndInv
      <4>2. saw'[r].family = None /\ None \notin before[x] \cup {First}
        BY <1>1, <1>2, <1>3, SessionsAssumption DEF NoCopy, ShapeInv
      <4> QED
        BY <1>2, <2>2, <2>3, <2>4, <4>1, <4>2
    <3> QED
      BY <2>2, <3>1, <3>2 DEF EndInv
  <2>8. ListInv(x)'
    <3> SUFFICES ASSUME Gone(x)' PROVE
          /\ saw'[x].id # None /\ user'.id # saw'[x].id
          /\ Unread(x)' =>
               /\ \A y \in Requests : x \in before'[y] /\ call'[y].kind = "list" =>
                    saw'[y].id # saw'[x].id
               /\ Ended(x)' => listed' = None \/ saw'[x].id \notin listed'
      BY DEF ListInv
    <3>1. /\ saw[x].id # None /\ user.id # saw[x].id
          /\ Unread(x) =>
               /\ \A y \in Requests : x \in before[y] /\ call[y].kind = "list" =>
                    saw[y].id # saw[x].id
               /\ Ended(x) => listed = None \/ saw[x].id \notin listed
      BY <2>1, <2>4 DEF ListInv
    <3>2. saw'[r].id = None
      BY <1>2, <1>3 DEF NoCopy
    <3> QED
      BY <1>2, <2>2, <2>3, <2>6, <3>1, <3>2
  <2> QED
    BY <2>7, <2>8
<1> QED
  BY <1>4, <1>5

\* The counters after an arrival.
LEMMA ArrivalCounts ==
  ASSUME Inv, NEW r \in Requests, NEW c, Arrived(r, c)
  PROVE  CountInv'
<1>1. StoreInv /\ ShapeInv /\ OrderInv /\ CountInv
  BY DEF Inv
<1>2. UNCHANGED <<user, expired, mailed, failed, window, used, limited, listed, saw, faults>>
  BY DEF Arrived, storeVars, redisVars
<1>3. r \notin used /\ r \notin failed /\ call[r] = None
  BY Fresh
<1>4. failed \subseteq Requests /\ used \subseteq Requests
  BY <1>1 DEF StoreInv
<1>5. \A x \in failed : call'[x] # None
  BY <1>1, <1>3, <1>4, ArrivalOthers DEF CountInv
<1>6. \A x \in used : call'[x] # None /\ call'[x].kind = "use" /\ ~ At(x, "enter")'
  BY <1>1, <1>3, <1>4, ArrivalOthers DEF CountInv
<1>7. ASSUME NEW x \in Requests, MayCount(x)'
      PROVE  Cardinality(failed \cap before'[x]) < MaxAttempts
  <2>1. CASE x # r
    <3>1. MayCount(x) /\ before'[x] = before[x]
      BY <1>1, <1>2, <1>7, <2>1, ArrivalOthers DEF MayCount
    <3> QED
      BY <1>1, <3>1 DEF CountInv
  <2>2. CASE x = r
    BY <1>1, <1>2, <1>3, <1>7, <2>2, ArrivalItself DEF MayCount, Going
  <2> QED
    BY <2>1, <2>2
<1>8. \A i : Uses(i)' = Uses(i)
  <2>1. \A x \in used : UserOf(x)' = UserOf(x)
    BY <1>1, <1>2, <1>3, <1>4, ArrivalOthers DEF UserOf, Claims
  <2> QED
    BY <1>2, <2>1 DEF Uses
<1>9. ASSUME NEW i \in Origins PROVE Cardinality(Admitted(i)') <= MaxUses
  <2>1. Admitted(i)' = Admitted(i)
    BY <1>1, <1>3, <1>4, <1>8, ArrivalOthers DEF Admitted, Uses
  <2> QED
    BY <1>1, <2>1 DEF CountInv
<1>10. CounterExpires'
  <2>1. \A x \in Requests : \A s : At(x, s) => At(x, s)'
    BY <1>1, Fresh, ArrivalOthers DEF At
  <2>2. ASSUME faults = 0, failed # {}, ~ window PROVE \E x \in Requests : At(x, "expire")'
    BY <1>1, <2>1, <2>2 DEF CountInv, CounterExpires
  <2>3. ASSUME faults = 0, NEW i \in Origins \ limited, Uses(i) # {}
        PROVE  \E x \in Uses(i) : At(x, "limit")'
    <3>1. PICK x \in Uses(i) : At(x, "limit")
      BY <1>1, <2>3 DEF CountInv, CounterExpires
    <3> QED
      BY <1>4, <2>1, <3>1 DEF Uses
  <2> QED
    BY <1>2, <1>8, <2>2, <2>3 DEF CounterExpires
<1> QED
  BY <1>2, <1>5, <1>6, <1>7, <1>9, <1>10 DEF CountInv

\* Nothing of the requests changes.
Idle == UNCHANGED <<user, mailed, requestVars, faults>>

\* An hour, a window, a rate limit or the cached list expires.
LEMMA Expiries ==
  ASSUME Inv, Idle, StoreInv', listed' \in {listed, None}, CountInv'
  PROVE  Inv'
<1>1. UNCHANGED <<user, mailed, call, todo, verdict, saw, before, faults>>
  BY DEF Idle, requestVars
<1>2. ShapeInv' /\ OrderInv'
  <2>1. \A x \in Requests : RequestInv(x)' = RequestInv(x)
    BY <1>1 DEF RequestInv, TokenInv, SessionInv, Given, Ended, Running
  <2>2. ShapeInv'
    BY <1>1, <2>1 DEF Inv, ShapeInv
  <2>3. OrderInv'
    BY <1>1 DEF Inv, OrderInv, Ended, Running
  <2> QED
    BY <2>2, <2>3
<1>3. IdInv'
  <2>1. \A i : Known(i)' = Known(i)
    BY <1>1 DEF Known, Rest
  <2>2. Known(user.id)' = Known(user.id) /\ \A x \in Requests : Known(saw[x].id)' = Known(saw[x].id)
    BY <1>1 DEF Known, Rest
  <2> QED
    BY <2>1, <2>2 DEF Inv, IdInv
<1>4. MailInv' /\ (user'.token = None => user'.family = None)
  BY <1>1 DEF Inv, MailInv, Rest
<1>5. ASSUME NEW x \in Requests PROVE OnceInv(x)' /\ EndInv(x)' /\ ListInv(x)'
  <2>1. OnceInv(x) /\ EndInv(x) /\ ListInv(x)
    BY DEF Inv
  <2>2. OnceInv(x)'
    BY <1>1, <2>1 DEF OnceInv, Verified, Refreshed, HasReset, Going, Rest
  <2>3. EndInv(x)'
    BY <1>1, <2>1 DEF EndInv, Cleared, Alone, Apart, AccountOf, Claims, Going, Rest
  <2>4. ListInv(x)'
    BY <1>1, <2>1 DEF ListInv, Gone, Unread, Apart, Ended, Running, Going, Rest
  <2> QED
    BY <2>2, <2>3, <2>4
<1>6. ASSUME NEW q \in Requests, NEW x \in Requests PROVE PairInv(q, x)'
  BY <1>1 DEF Inv, PairInv, Verified, Refreshed, HasReset, Going, Rest
<1> QED
  BY <1>2, <1>3, <1>4, <1>5, <1>6 DEF Inv

\* The counters when one of them expires.
LEMMA IdleCounts ==
  ASSUME Inv, Idle, failed' \in {failed, {}},
         failed' # {} => window' = window, used' \subseteq used,
         \A i : Uses(i)' \subseteq Uses(i),
         \A i \in Origins \ limited' :
           Uses(i)' # {} => i \notin limited /\ Uses(i)' = Uses(i)
  PROVE  CountInv'
<1>1. UNCHANGED <<call, todo, verdict, saw, before, faults>> /\ CountInv
  BY DEF Idle, requestVars, Inv
<1>2. failed \subseteq Requests /\ used \subseteq Requests
  BY DEF Inv, StoreInv
<1>3. \A x \in failed' : call'[x] # None
  BY <1>1 DEF CountInv
<1>4. \A x \in used' : call'[x] # None /\ call'[x].kind = "use" /\ ~ At(x, "enter")'
  BY <1>1 DEF CountInv, At, Running
<1>5. ASSUME NEW x \in Requests, MayCount(x)'
      PROVE  Cardinality(failed' \cap before'[x]) < MaxAttempts
  <2>1. MayCount(x)
    BY <1>1, <1>5 DEF MayCount, Going, Rest
  <2>2. CASE failed' = failed
    BY <1>1, <2>1, <2>2 DEF CountInv
  <2>3. CASE failed' = {}
    <3>1. failed' \cap before'[x] = {}
      BY <2>3
    <3> QED
      BY <3>1, FS_EmptySet, SessionsAssumption
  <2> QED
    BY <2>2, <2>3
<1>6. ASSUME NEW i \in Origins PROVE Cardinality(Admitted(i)') <= MaxUses
  <2>1. Admitted(i)' \subseteq Admitted(i) /\ Admitted(i) \subseteq Requests
    BY <1>1, <1>2 DEF Admitted, Uses
  <2>2. IsFiniteSet(Admitted(i)) /\ Cardinality(Admitted(i)) \in Nat
    BY <2>1, Counted
  <2>3. Admitted(i)' \subseteq Requests
    BY <2>1
  <2>4. Cardinality(Admitted(i)') \in Nat
    BY <2>3, Counted
  <2>5. Cardinality(Admitted(i)') <= Cardinality(Admitted(i))
    BY <2>1, <2>2, FS_Subset
  <2>6. Cardinality(Admitted(i)) <= MaxUses
    BY <1>1 DEF CountInv
  <2> QED
    BY <2>2, <2>4, <2>5, <2>6, SessionsAssumption
<1>7. CounterExpires'
  <2>1. \A x : \A s : At(x, s)' = At(x, s)
    BY <1>1 DEF At, Running
  <2>2. ASSUME faults' = 0, failed' # {}, ~ window' PROVE \E x \in Requests : At(x, "expire")'
    BY <1>1, <2>1, <2>2 DEF CountInv, CounterExpires
  <2>3. ASSUME faults' = 0, NEW i \in Origins \ limited', Uses(i)' # {}
        PROVE  \E x \in Uses(i)' : At(x, "limit")'
    <3>1. i \notin limited /\ Uses(i)' = Uses(i)
      BY <2>3
    <3>2. PICK x \in Uses(i) : At(x, "limit")
      BY <1>1, <2>3, <3>1 DEF CountInv, CounterExpires
    <3> QED
      BY <2>1, <3>1, <3>2
  <2> QED
    BY <2>2, <2>3 DEF CounterExpires
<1> QED
  BY <1>3, <1>4, <1>5, <1>6, <1>7 DEF CountInv

\* The hour of a token, a window, a rate limit or the cached list expires.
LEMMA ExpirySteps ==
  ASSUME Inv,
         \/ \E t \in Requests : TokenExpires(t)
         \/ \E i \in Origins : LimitExpires(i)
         \/ WindowExpires
         \/ ListExpires
  PROVE  Inv'
<1>1. StoreInv
  BY DEF Inv
<1>2. ASSUME NEW t \in Requests, TokenExpires(t) PROVE Inv'
  <2>1. /\ UNCHANGED <<user, mailed, failed, window, used, limited, listed, requestVars, faults>>
        /\ expired' = expired \cup {t}
    BY <1>2 DEF TokenExpires, redisVars
  <2>2. Idle /\ StoreInv'
    BY <1>1, <2>1 DEF Idle, StoreInv
  <2>3. \A i : Uses(i)' = Uses(i)
    BY <2>1 DEF Uses, UserOf, Claims, requestVars
  <2>4. CountInv'
    BY <2>1, <2>2, <2>3, IdleCounts
  <2> QED
    BY <2>1, <2>2, <2>4, Expiries
<1>3. ASSUME NEW i \in Origins, LimitExpires(i) PROVE Inv'
  <2>1. /\ UNCHANGED <<user, expired, mailed, failed, window, listed, requestVars, faults>>
        /\ used' = used \ Uses(i) /\ limited' = limited \ {i}
    BY <1>3 DEF LimitExpires, storeVars
  <2>2. Idle /\ StoreInv'
    BY <1>1, <2>1 DEF Idle, StoreInv
  <2>3. \A x : UserOf(x)' = UserOf(x)
    BY <2>1 DEF UserOf, Claims, requestVars
  <2>4. \A j : Uses(j)' = IF j = i THEN {} ELSE Uses(j)
    BY <2>1, <2>3 DEF Uses
  <2>5. CountInv'
    BY <2>1, <2>2, <2>4, IdleCounts
  <2> QED
    BY <2>1, <2>2, <2>5, Expiries
<1>4. CASE WindowExpires
  <2>1. /\ UNCHANGED <<user, expired, mailed, used, limited, listed, requestVars, faults>>
        /\ failed' = {} /\ window' = FALSE
    BY <1>4 DEF WindowExpires, storeVars
  <2>2. Idle /\ StoreInv'
    BY <1>1, <2>1 DEF Idle, StoreInv
  <2>3. \A i : Uses(i)' = Uses(i)
    BY <2>1 DEF Uses, UserOf, Claims, requestVars
  <2>4. CountInv'
    BY <2>1, <2>2, <2>3, IdleCounts
  <2> QED
    BY <2>1, <2>2, <2>4, Expiries
<1>5. CASE ListExpires
  <2>1. /\ UNCHANGED <<user, expired, mailed, failed, window, used, limited, requestVars, faults>>
        /\ listed' = None
    BY <1>5 DEF ListExpires, storeVars
  <2>2. Idle /\ StoreInv'
    BY <1>1, <2>1 DEF Idle, StoreInv
  <2>3. \A i : Uses(i)' = Uses(i)
    BY <2>1 DEF Uses, UserOf, Claims, requestVars
  <2>4. CountInv'
    BY <2>1, <2>2, <2>3, IdleCounts
  <2> QED
    BY <2>1, <2>2, <2>4, Expiries
<1> QED
  BY <1>2, <1>3, <1>4, <1>5

\* The invariant holds at first.
LEMMA Initially == ASSUME Init PROVE Inv
<1>1. /\ \A r \in Requests : /\ call[r] = None /\ todo[r] = <<>> /\ verdict[r] = "none"
                             /\ saw[r] = NoCopy /\ before[r] = {}
      /\ expired = {} /\ mailed = {} /\ failed = {} /\ window = FALSE /\ used = {} /\ limited = {}
      /\ listed = None /\ faults = 0
  BY DEF Init
<1>2. PICK p \in Passwords :
        user \in {NoUser, [id |-> First, password |-> p, verified |-> TRUE, family |-> First,
                           token |-> First, verification |-> None, reset |-> None]}
  BY DEF Init
<1>3. StoreInv
  <2>1. /\ First \in OriginOrNone /\ None \in OriginOrNone
        /\ p \in Passwords \cup {None} /\ None \in Passwords \cup {None}
    BY DEF OriginOrNone, Origins
  <2>2. NoUser \in Users
    BY <2>1 DEF Users, NoUser
  <2>3. [id |-> First, password |-> p, verified |-> TRUE, family |-> First,
         token |-> First, verification |-> None, reset |-> None] \in Users
    BY <2>1 DEF Users
  <2>4. user \in Users
    BY <1>2, <2>2, <2>3
  <2> QED
    BY <1>1, <2>4 DEF StoreInv
<1>4. ShapeInv /\ OrderInv
  <2>1. NoCopy \in Copies /\ "none" \in Verdicts
    BY DEF NoCopy, Copies, OriginOrNone, Verdicts
  <2>2. 0 \in 0 .. MaxFaults
    BY SessionsAssumption
  <2>3. ShapeInv
    BY <1>1, <2>1, <2>2 DEF Init, ShapeInv, RequestInv
  <2>4. OrderInv
    BY <1>1 DEF OrderInv
  <2> QED
    BY <2>3, <2>4
<1>5. IdInv /\ MailInv /\ (user.token = None => user.family = None)
  BY <1>1, <1>2, SessionsAssumption DEF IdInv, Known, MailInv, NoUser, NoCopy
<1>6. ASSUME NEW r \in Requests PROVE OnceInv(r) /\ EndInv(r) /\ ListInv(r)
  <2>1. \A k, v : ~ Going(r, k, v)
    BY <1>1 DEF Going
  <2> QED
    BY <2>1 DEF OnceInv, EndInv, ListInv, Verified, Refreshed, HasReset, Cleared, Gone
<1>7. ASSUME NEW q \in Requests, NEW r \in Requests PROVE PairInv(q, r)
  BY <1>1 DEF PairInv, Verified, Going
<1>8. CountInv
  <2>1. \A i : Uses(i) = {} /\ Admitted(i) = {}
    BY <1>1 DEF Uses, Admitted
  <2>2. \A r \in Requests : ~ MayCount(r)
    BY <1>1 DEF MayCount, Going
  <2>3. Cardinality({}) = 0 /\ 0 <= MaxUses
    BY FS_EmptySet, SessionsAssumption
  <2> QED
    BY <1>1, <2>1, <2>2, <2>3 DEF CountInv, CounterExpires
<1> QED
  BY <1>3, <1>4, <1>5, <1>6, <1>7, <1>8 DEF Inv

\* Every step keeps the invariant.
LEMMA Steadily == ASSUME Inv, [Next]_vars PROVE Inv'
<1>1. StoreInv /\ ShapeInv /\ OrderInv /\ IdInv /\ MailInv /\ CountInv
  BY DEF Inv
<1>2. ASSUME NEW r \in Requests, Arrive(r) PROVE Inv'
  <2>1. PICK c : Arrived(r, c)
    BY <1>1, <1>2, Arrival
  <2> QED
    BY <2>1, ArrivalShape, ArrivalTokens, ArrivalSessions, ArrivalCounts DEF Inv
<1>3. ASSUME NEW r \in Requests, Read(r) \/ Write(r) \/ UseRedis(r) \/ Stop(r) PROVE Inv'
  <2>1. Effect(r) /\ Goes(r)
    BY <1>1, <1>3, Effects DEF Effect
  <2>2. StoreInv' /\ ShapeInv' /\ OrderInv' /\ IdInv' /\ MailInv' /\ CountInv'
    BY <1>1, <2>1, ShapeKept, OrderKept, IdKept, MailKept, CountKept DEF Effect
  <2>3. user'.token = None => user'.family = None
    BY <2>1, FamilyKept DEF Inv
  <2>4. \A x \in Requests : OnceInv(x)' /\ EndInv(x)' /\ ListInv(x)'
    BY <1>1, <2>1, OnceKept, EndKept, ListKept DEF Inv
  <2>5. \A q, x \in Requests : PairInv(q, x)'
    BY <1>1, <2>1, PairKept DEF Inv
  <2> QED
    BY <2>2, <2>3, <2>4, <2>5 DEF Inv
<1>4. CASE UNCHANGED vars
  <2>1. UNCHANGED <<user, expired, mailed, failed, window, used, limited, listed, requestVars,
          faults>>
    BY <1>4 DEF vars, storeVars, redisVars
  <2>2. Idle /\ StoreInv'
    BY <1>1, <2>1 DEF Idle, StoreInv
  <2>3. \A i : Uses(i)' = Uses(i)
    BY <2>1 DEF Uses, UserOf, Claims, requestVars
  <2>4. CountInv'
    BY <2>1, <2>2, <2>3, IdleCounts
  <2> QED
    BY <2>1, <2>2, <2>4, Expiries
<1> QED
  BY <1>2, <1>3, <1>4, ExpirySteps DEF Next

\* The invariant holds.
THEOREM Invariance == Spec => []Inv
<1>1. Init => Inv
  BY Initially
<1>2. Inv /\ [Next]_vars => Inv'
  BY Steadily
<1> QED
  BY <1>1, <1>2, PTL DEF Spec

\* What is left of a request is a list of awaits.
LEMMA LeftSteps ==
  ASSUME NEW k \in Kinds, NEW v, NEW l \in Left(k, v)
  PROVE  l \in Seq(Steps)
<1>1. CASE l = <<>>
  BY <1>1
<1>2. CASE l \in Ok(k)
  <2>1. CASE k = "register"
    <3>1. /\ <<"find", "create", "reread", "uncache", "deliver", "mail", "audit">> \in Seq(Steps)
          /\ <<"create", "reread", "uncache", "deliver", "mail", "audit">> \in Seq(Steps)
          /\ <<"reread", "uncache", "deliver", "mail", "audit">> \in Seq(Steps)
          /\ <<"uncache", "deliver", "mail", "audit">> \in Seq(Steps)
          /\ <<"deliver", "mail", "audit">> \in Seq(Steps)
          /\ <<"mail", "audit">> \in Seq(Steps)
          /\ <<"audit">> \in Seq(Steps)
      BY DEF Steps
    <3>2. l \in {<<"find", "create", "reread", "uncache", "deliver", "mail", "audit">>,
                <<"create", "reread", "uncache", "deliver", "mail", "audit">>,
                <<"reread", "uncache", "deliver", "mail", "audit">>,
                <<"uncache", "deliver", "mail", "audit">>,
                <<"deliver", "mail", "audit">>,
                <<"mail", "audit">>,
                <<"audit">>}
      BY <1>2, <2>1 DEF Ok
    <3> QED
      BY <3>1, <3>2
  <2>2. CASE k = "verify"
    <3>1. /\ <<"verify", "uncache", "audit">> \in Seq(Steps)
          /\ <<"uncache", "audit">> \in Seq(Steps)
          /\ <<"audit">> \in Seq(Steps)
      BY DEF Steps
    <3>2. l \in {<<"verify", "uncache", "audit">>,
                <<"uncache", "audit">>,
                <<"audit">>}
      BY <1>2, <2>2 DEF Ok
    <3> QED
      BY <3>1, <3>2
  <2>3. CASE k = "login"
    <3>1. /\ <<"check", "find", "forgive", "store", "uncache", "audit">> \in Seq(Steps)
          /\ <<"find", "forgive", "store", "uncache", "audit">> \in Seq(Steps)
          /\ <<"forgive", "store", "uncache", "audit">> \in Seq(Steps)
          /\ <<"store", "uncache", "audit">> \in Seq(Steps)
          /\ <<"uncache", "audit">> \in Seq(Steps)
          /\ <<"audit">> \in Seq(Steps)
      BY DEF Steps
    <3>2. l \in {<<"check", "find", "forgive", "store", "uncache", "audit">>,
                <<"find", "forgive", "store", "uncache", "audit">>,
                <<"forgive", "store", "uncache", "audit">>,
                <<"store", "uncache", "audit">>,
                <<"uncache", "audit">>,
                <<"audit">>}
      BY <1>2, <2>3 DEF Ok
    <3> QED
      BY <3>1, <3>2
  <2>4. CASE k = "refresh"
    <3>1. /\ <<"find", "store", "uncache", "audit">> \in Seq(Steps)
          /\ <<"store", "uncache", "audit">> \in Seq(Steps)
          /\ <<"uncache", "audit">> \in Seq(Steps)
          /\ <<"audit">> \in Seq(Steps)
      BY DEF Steps
    <3>2. l \in {<<"find", "store", "uncache", "audit">>,
                <<"store", "uncache", "audit">>,
                <<"uncache", "audit">>,
                <<"audit">>}
      BY <1>2, <2>4 DEF Ok
    <3> QED
      BY <3>1, <3>2
  <2>5. CASE k = "logout"
    <3>1. /\ <<"clear", "uncache", "audit">> \in Seq(Steps)
          /\ <<"uncache", "audit">> \in Seq(Steps)
          /\ <<"audit">> \in Seq(Steps)
      BY DEF Steps
    <3>2. l \in {<<"clear", "uncache", "audit">>,
                <<"uncache", "audit">>,
                <<"audit">>}
      BY <1>2, <2>5 DEF Ok
    <3> QED
      BY <3>1, <3>2
  <2>6. CASE k = "forgot"
    <3>1. /\ <<"find", "setReset", "uncache", "deliver", "mail", "audit">> \in Seq(Steps)
          /\ <<"setReset", "uncache", "deliver", "mail", "audit">> \in Seq(Steps)
          /\ <<"uncache", "deliver", "mail", "audit">> \in Seq(Steps)
          /\ <<"deliver", "mail", "audit">> \in Seq(Steps)
          /\ <<"mail", "audit">> \in Seq(Steps)
          /\ <<"audit">> \in Seq(Steps)
      BY DEF Steps
    <3>2. l \in {<<"find", "setReset", "uncache", "deliver", "mail", "audit">>,
                <<"setReset", "uncache", "deliver", "mail", "audit">>,
                <<"uncache", "deliver", "mail", "audit">>,
                <<"deliver", "mail", "audit">>,
                <<"mail", "audit">>,
                <<"audit">>}
      BY <1>2, <2>6 DEF Ok
    <3> QED
      BY <3>1, <3>2
  <2>7. CASE k = "reset"
    <3>1. /\ <<"find", "setPassword", "uncache", "clearReset",
               "uncache", "clear", "uncache", "audit">> \in Seq(Steps)
          /\ <<"setPassword", "uncache", "clearReset", "uncache", "clear", "uncache",
               "audit">> \in Seq(Steps)
          /\ <<"uncache", "clearReset", "uncache", "clear", "uncache", "audit">> \in Seq(Steps)
          /\ <<"clearReset", "uncache", "clear", "uncache", "audit">> \in Seq(Steps)
          /\ <<"uncache", "clear", "uncache", "audit">> \in Seq(Steps)
          /\ <<"clear", "uncache", "audit">> \in Seq(Steps)
          /\ <<"uncache", "audit">> \in Seq(Steps)
          /\ <<"audit">> \in Seq(Steps)
      BY DEF Steps
    <3>2. l \in {<<"find", "setPassword", "uncache", "clearReset",
                   "uncache", "clear", "uncache", "audit">>,
                <<"setPassword", "uncache", "clearReset", "uncache", "clear", "uncache", "audit">>,
                <<"uncache", "clearReset", "uncache", "clear", "uncache", "audit">>,
                <<"clearReset", "uncache", "clear", "uncache", "audit">>,
                <<"uncache", "clear", "uncache", "audit">>,
                <<"clear", "uncache", "audit">>,
                <<"uncache", "audit">>,
                <<"audit">>}
      BY <1>2, <2>7 DEF Ok
    <3> QED
      BY <3>1, <3>2
  <2>8. CASE k = "delete"
    <3>1. /\ <<"delete", "uncache">> \in Seq(Steps)
          /\ <<"uncache">> \in Seq(Steps)
      BY DEF Steps
    <3>2. l \in {<<"delete", "uncache">>,
                <<"uncache">>}
      BY <1>2, <2>8 DEF Ok
    <3> QED
      BY <3>1, <3>2
  <2>9. CASE k = "list"
    <3>1. /\ <<"get", "query", "set">> \in Seq(Steps)
          /\ <<"query", "set">> \in Seq(Steps)
          /\ <<"set">> \in Seq(Steps)
      BY DEF Steps
    <3>2. l \in {<<"get", "query", "set">>,
                <<"query", "set">>,
                <<"set">>}
      BY <1>2, <2>9 DEF Ok
    <3> QED
      BY <3>1, <3>2
  <2>10. CASE k = "use"
    <3>1. /\ <<"enter">> \in Seq(Steps)
          /\ <<"limit">> \in Seq(Steps)
      BY DEF Steps
    <3>2. l \in {<<"enter">>,
                <<"limit">>}
      BY <1>2, <2>10 DEF Ok
    <3> QED
      BY <3>1, <3>2
  <2> QED
    BY <2>1, <2>2, <2>3, <2>4, <2>5, <2>6, <2>7, <2>8, <2>9, <2>10 DEF Kinds
<1>3. CASE l \in Refused(k)
  <2>1. /\ <<"count", "audit">> \in Seq(Steps)
        /\ <<"expire", "audit">> \in Seq(Steps)
        /\ <<"audit">> \in Seq(Steps)
        /\ <<"audit", "clear", "uncache">> \in Seq(Steps)
        /\ <<"clear", "uncache">> \in Seq(Steps)
        /\ <<"uncache">> \in Seq(Steps)
        /\ <<"limit">> \in Seq(Steps)
    BY DEF Steps
  <2>2. l \in {<<"count", "audit">>,
               <<"expire", "audit">>,
               <<"audit">>,
               <<"audit", "clear", "uncache">>,
               <<"clear", "uncache">>,
               <<"uncache">>,
               <<"limit">>}
    BY <1>3 DEF Refused, Kinds
  <2> QED
    BY <2>1, <2>2
<1> QED
  BY <1>1, <1>2, <1>3 DEF Left

\* Types are kept: a request has nothing left to do but the awaits of its handler.
THEOREM TypeCorrectness == Spec => []TypeOK
<1>1. Inv => TypeOK
  <2> SUFFICES ASSUME Inv PROVE TypeOK
    OBVIOUS
  <2>1. StoreInv /\ ShapeInv
    BY DEF Inv
  <2>2. \A r \in Requests : todo[r] \in Seq(Steps)
    <3>1. ASSUME NEW r \in Requests PROVE todo[r] \in Seq(Steps)
      <4>1. RequestInv(r)
        BY <2>1 DEF ShapeInv
      <4>2. CASE call[r] = None
        <5>1. todo[r] = <<>>
          BY <4>1, <4>2 DEF RequestInv
        <5>2. <<>> \in Seq(Steps)
          OBVIOUS
        <5> QED
          BY <5>1, <5>2
      <4>3. CASE call[r] # None
        BY <4>1, <4>3, LeftSteps DEF RequestInv, Calls
      <4> QED
        BY <4>2, <4>3
    <3> QED
      BY <3>1
  <2>3. todo \in [Requests -> Seq(Steps)]
    BY <2>1, <2>2 DEF ShapeInv
  <2> QED
    BY <2>1, <2>3 DEF StoreInv, ShapeInv, TypeOK
<1> QED
  BY <1>1, Invariance, PTL

\* A request that has succeeded.
LEMMA Success ==
  ASSUME Inv, NEW r \in Requests, NEW k, Succeeded(r, k)
  PROVE  Going(r, k, "ok") /\ Rest(r) = 0
  BY RestOf DEF Inv, Succeeded, Ended, Going

\* Two requests that do not overlap do not both succeed with the same refresh, reset or
\* verification token (the filters of the updates, and the order in which they run).
THEOREM TokensUsedOnce == Spec => []TokenUsedOnce
<1>1. Inv => TokenUsedOnce
  <2> SUFFICES ASSUME Inv, NEW q \in Requests, NEW r \in Requests, q # r,
                      NEW k \in {"refresh", "reset", "verify"},
                      Succeeded(q, k), Succeeded(r, k), call[q].token = call[r].token
               PROVE  ~ Apart(q, r) /\ k # "verify"
    BY DEF TokenUsedOnce
  <2>1. Going(q, k, "ok") /\ Rest(q) = 0 /\ Going(r, k, "ok") /\ Rest(r) = 0
    BY Success
  <2>2. PairInv(q, r) /\ PairInv(r, q)
    BY DEF Inv
  <2> QED
    BY <2>1, <2>2 DEF PairInv, Verified, Refreshed, HasReset, Apart
<1> QED
  BY <1>1, Invariance, PTL

\* A session that was there before a logout, a reset, a deletion or the reuse of a token ended
\* it gives no tokens afterwards (clearRefreshToken, unless a refresh ran at the same time).
THEOREM SessionsStayEnded == Spec => []EndedSessionStaysEnded
<1>1. Inv => EndedSessionStaysEnded
  <2> SUFFICES ASSUME Inv, NEW r \in Requests, NEW q \in Requests, EndsSession(r),
                      Succeeded(q, "refresh"), r \in before[q], saw[q].id = AccountOf(r),
                      saw[q].family \in before[r] \cup {First}
               PROVE  \E x \in Requests : /\ x # r /\ ~ Apart(x, r)
                                          /\ call[x] # None /\ call[x].kind = "refresh"
    BY DEF EndedSessionStaysEnded
  <2>1. Cleared(r)
    <3>1. CASE Succeeded(r, "logout") \/ Succeeded(r, "reset") \/ Succeeded(r, "delete")
      BY <3>1, Success DEF Cleared
    <3>2. CASE /\ Ended(r) /\ call[r].kind = "refresh" /\ verdict[r] = "refused"
               /\ \E p \in before[r] : Succeeded(p, "refresh") /\ call[p].token = call[r].token
      <4>1. PICK p \in before[r] : Succeeded(p, "refresh") /\ call[p].token = call[r].token
        BY <3>2
      <4>2. p \in Requests
        BY DEF Inv, ShapeInv
      <4>3. call[p].token # None
        BY <4>1, <4>2 DEF Inv, ShapeInv, RequestInv, TokenInv, Succeeded, Ended
      <4>4. Rest(r) = 0
        BY <3>2, RestOf DEF Inv, Ended
      <4> QED
        BY <3>2, <4>1, <4>3, <4>4 DEF Cleared, Going, Ended
    <3> QED
      BY <3>1, <3>2 DEF EndsSession
  <2>2. EndInv(r) /\ call[q].kind = "refresh"
    BY DEF Inv, Succeeded
  <2>3. ~ Alone(r)
    BY <2>1, <2>2 DEF EndInv
  <2> QED
    BY <2>3 DEF Alone
<1> QED
  BY <1>1, Invariance, PTL

\* No window takes more failed logins, or admits more requests of a user, than it may
\* (LoginThrottleService and checkLimit of the rate limit interceptor).
THEOREM WindowsHold == Spec => []LimitsHold
<1>1. Inv => LimitsHold
  BY DEF Inv, CountInv, StoreInv, MayCount, LimitsHold, Admitted
<1> QED
  BY <1>1, Invariance, PTL

\* Unless a process dies between INCR and EXPIRE, a counter expires: nobody is locked out
\* for good.
THEOREM CountersExpire == Spec => []CounterExpires
<1>1. Inv => CounterExpires
  BY DEF Inv, CountInv
<1> QED
  BY <1>1, Invariance, PTL

\* A list that is requested after a deletion does not show the deleted account, unless a list
\* was being read while it was deleted (invalidateUserCache after deleteUser).
THEOREM DeletedGone == Spec => []DeletedNotListed
<1>1. Inv => DeletedNotListed
  <2> SUFFICES ASSUME Inv, NEW d \in Requests, NEW r \in Requests, Succeeded(d, "delete"),
                      Succeeded(r, "list"), d \in before[r], saw[r].id = saw[d].id
               PROVE  \E x \in Requests : /\ ~ Apart(x, d)
                                          /\ call[x] # None /\ call[x].kind = "list"
    BY DEF DeletedNotListed
  <2>1. Gone(d) /\ ListInv(d)
    BY Success DEF Gone, Inv
  <2>2. ~ Unread(d)
    BY <2>1 DEF ListInv, Succeeded
  <2> QED
    BY <2>2 DEF Unread
<1> QED
  BY <1>1, Invariance, PTL
===============================================================================
