-------------------------------- MODULE Sessions --------------------------------
(* One account and its sessions: registration, e-mail verification, login with  *)
(* its throttle, rotation of refresh tokens, logout, password reset, deletion,   *)
(* and the requests that an access token admits.                                *)
(*                                                                              *)
(* The account is one MongoDB document, written by separate updates that do not *)
(* look at its old value; failed logins are counted under a Redis key, and the  *)
(* list of users is cached in Redis.  Handlers work on the copy they have read. *)
(* A request is the list of the awaits it has still to do; each is an action.   *)
EXTENDS Integers, FiniteSets, Sequences

CONSTANTS
  Requests,       \* each is one HTTP request; it names the tokens it issues
  First,          \* the account and the session that may exist at first
  Passwords,
  None,           \* no account, token, password or request
  MaxAttempts,    \* 5 in the code: failed logins before the account is blocked
  MaxUses,        \* 100 in the code: requests of a user in one window
  MaxFaults       \* bound: requests that are stopped by a rejection or a process death

ASSUME SessionsAssumption ==
  /\ IsFiniteSet(Requests) /\ First \notin Requests
  /\ None \notin Requests \cup {First} \cup Passwords
  /\ MaxAttempts \in Nat \ {0} /\ MaxUses \in Nat \ {0}
  /\ MaxFaults \in Nat

VARIABLES
  user,      \* the document of the account
  expired,   \* the mailed tokens whose hour has passed
  mailed,    \* the requests whose e-mail has been requested in the outbox
  failed,    \* the failed logins that the key of the account counts
  window,    \* that key has an expiry
  used,      \* the requests that the rate limit keys of their users count
  limited,   \* the users whose key has an expiry
  listed,    \* the cached list of users, or None
  call,      \* what each request asks for
  todo,      \* the awaits that each request has still to do
  verdict,   \* how each request is going to be answered, or was
  saw,       \* what each request has read of the account
  before,    \* the requests that had ended when each one arrived
  faults     \* faults so far

storeVars == <<user, expired, mailed>>
redisVars == <<failed, window, used, limited, listed>>
requestVars == <<call, todo, verdict, saw, before>>
vars == <<storeVars, redisVars, requestVars, faults>>

\* Accounts and sessions are known by the request that created them.
Origins == Requests \cup {First}
OriginOrNone == Origins \cup {None}

Users == [id : OriginOrNone, password : Passwords \cup {None}, verified : BOOLEAN,
          family : OriginOrNone, token : OriginOrNone,
          verification : OriginOrNone, reset : OriginOrNone]
NoUser == [id |-> None, password |-> None, verified |-> FALSE, family |-> None,
           token |-> None, verification |-> None, reset |-> None]
Copies == [id : OriginOrNone, family : OriginOrNone]
NoCopy == [id |-> None, family |-> None]

Kinds == {"register", "verify", "login", "refresh", "logout", "forgot", "reset",
          "delete", "list", "use"}
Calls == [kind : Kinds, token : OriginOrNone, password : Passwords \cup {None}]

ASSUME CallAssumption == None \notin Calls /\ \A S \in SUBSET Origins : S # None

Steps == {"find", "create", "reread", "uncache", "deliver", "mail", "audit", "check",
          "count", "expire", "forgive", "store", "clear", "setReset", "setPassword",
          "clearReset", "verify", "delete", "get", "query", "set", "enter", "limit"}
Verdicts == {"none", "ok", "refused", "error"}

TypeOK ==
  /\ user \in Users
  /\ expired \subseteq Requests
  /\ mailed \subseteq Requests
  /\ failed \subseteq Requests
  /\ window \in BOOLEAN
  /\ used \subseteq Requests
  /\ limited \subseteq Origins
  /\ listed \in (SUBSET Origins) \cup {None}
  /\ call \in [Requests -> Calls \cup {None}]
  /\ todo \in [Requests -> Seq(Steps)]
  /\ verdict \in [Requests -> Verdicts]
  /\ saw \in [Requests -> Copies]
  /\ before \in [Requests -> SUBSET Requests]
  /\ faults \in 0 .. MaxFaults

\* There is no account, or one that has been verified and has a session.
Init ==
  /\ \E p \in Passwords :
       user \in {NoUser, [id |-> First, password |-> p, verified |-> TRUE, family |-> First,
                          token |-> First, verification |-> None, reset |-> None]}
  /\ expired = {}
  /\ mailed = {}
  /\ failed = {}
  /\ window = FALSE
  /\ used = {}
  /\ limited = {}
  /\ listed = None
  /\ call = [r \in Requests |-> None]
  /\ todo = [r \in Requests |-> <<>>]
  /\ verdict = [r \in Requests |-> "none"]
  /\ saw = [r \in Requests |-> NoCopy]
  /\ before = [r \in Requests |-> {}]
  /\ faults = 0

Running(r) == todo[r] # <<>>
Ended(r) == call[r] # None /\ ~ Running(r)
At(r, s) == Running(r) /\ Head(todo[r]) = s

\* r goes on with its next await.
Proceed(r) ==
  /\ todo' = [todo EXCEPT ![r] = Tail(@)]
  /\ UNCHANGED verdict

\* r does not do what it was asked for: it does what is in s, and answers v.
Turn(r, s, v) ==
  /\ todo' = [todo EXCEPT ![r] = s]
  /\ verdict' = [verdict EXCEPT ![r] = v]

Refuse(r, s) == Turn(r, s, "refused")

\* r keeps c of what it has read.
See(r, c) == saw' = [saw EXCEPT ![r] = c]

-------------------------------------------------------------------------------
(* Requests                                                                *)

\* The awaits of a request that is not refused, for each handler.
Register == <<"find", "create", "reread", "uncache", "deliver", "mail", "audit">>
Verify == <<"verify", "uncache", "audit">>
Login == <<"check", "find", "forgive", "store", "uncache", "audit">>
Refresh == <<"find", "store", "uncache", "audit">>
Logout == <<"clear", "uncache", "audit">>
Forgot == <<"find", "setReset", "uncache", "deliver", "mail", "audit">>
Reset == <<"find", "setPassword", "uncache", "clearReset", "uncache", "clear", "uncache",
           "audit">>
DeleteUser == <<"delete", "uncache">>
ListUsers == <<"get", "query", "set">>
UseToken == <<"enter">>

\* Which handler a route executes.
Plan(k) ==
  CASE k = "register" -> Register
    [] k = "verify"   -> Verify
    [] k = "login"    -> Login
    [] k = "refresh"  -> Refresh
    [] k = "logout"   -> Logout
    [] k = "forgot"   -> Forgot
    [] k = "reset"    -> Reset
    [] k = "delete"   -> DeleteUser
    [] k = "list"     -> ListUsers
    [] k = "use"      -> UseToken

\* The claims of a refresh token, and of the access token that was issued with it.
Claims(t) == IF t = First THEN [id |-> First, family |-> First] ELSE saw[t]

\* The tokens that a client may present: a missing or a forged one is None.
Presentable(k) ==
  CASE k \in {"refresh", "logout", "use"} ->
         {First} \cup {t \in Requests : /\ Ended(t) /\ verdict[t] = "ok"
                                        /\ call[t].kind \in {"login", "refresh"}}
    [] k = "verify" -> {t \in mailed : call[t].kind = "register"}
    [] k = "reset"  -> {t \in mailed : call[t].kind = "forgot"}
    [] OTHER -> {}

\* A request arrives.  Without a token, or with a forged one, it is only audited.
Arrive(r) ==
  /\ call[r] = None
  /\ \E c \in Calls :
       /\ c.token \in Presentable(c.kind) \cup (IF c.kind \in {"logout", "use"} THEN {} ELSE {None})
       /\ c.password = None <=> c.kind \notin {"register", "login", "reset"}
       /\ call' = [call EXCEPT ![r] = c]
       /\ IF c.token = None /\ c.kind \in {"refresh", "verify", "reset"}
            THEN Refuse(r, <<"audit">>)
            ELSE Turn(r, Plan(c.kind), "ok")
  /\ before' = [before EXCEPT ![r] = {q \in Requests : Ended(q)}]
  /\ UNCHANGED <<storeVars, redisVars, saw, faults>>

-------------------------------------------------------------------------------
(* Reading the account                                                     *)

\* RegisterUserHandler: findByEmail
FindForRegister(r) ==
  /\ At(r, "find") /\ call[r].kind = "register"
  /\ IF user.id # None THEN Refuse(r, <<>>) ELSE Proceed(r)
  /\ UNCHANGED <<storeVars, redisVars, call, saw, before, faults>>

\* LoginHandler: findByEmail and bcrypt.compare.  A wrong password, or e-mail, is counted.
FindForLogin(r) ==
  /\ At(r, "find") /\ call[r].kind = "login"
  /\ IF user.id = None \/ user.password # call[r].password
       THEN Refuse(r, <<"count", "audit">>)
     ELSE IF ~ user.verified
       THEN Refuse(r, <<"audit">>)
     ELSE Proceed(r)
  /\ See(r, [id |-> user.id, family |-> r])
  /\ UNCHANGED <<storeVars, redisVars, call, before, faults>>

\* Mutant of FindForRefresh: the token id is not compared.
FindForRefreshAny(r) ==
  /\ At(r, "find") /\ call[r].kind = "refresh"
  /\ LET c == Claims(call[r].token) IN
       IF user.id # c.id \/ user.token = None
         THEN Refuse(r, <<"audit">>)
       ELSE IF user.family # c.family
         THEN Refuse(r, <<"audit", "clear", "uncache">>)
       ELSE Proceed(r)
  /\ See(r, [id |-> user.id, family |-> user.family])
  /\ UNCHANGED <<storeVars, redisVars, call, before, faults>>

\* RefreshTokenHandler: findByIdWithRefreshToken.  Another family or token id than that of
\* the stored token is a token that was used before: the session is cleared.  (bcrypt then
\* compares the first 72 bytes, which hold no more than the account.)
FindForRefresh(r) ==
  /\ At(r, "find") /\ call[r].kind = "refresh"
  /\ LET c == Claims(call[r].token) IN
       IF user.id # c.id \/ user.token = None
         THEN Refuse(r, <<"audit">>)
       ELSE IF user.family # c.family \/ user.token # call[r].token
         THEN Refuse(r, <<"audit", "clear", "uncache">>)
       ELSE Proceed(r)
  /\ See(r, [id |-> user.id, family |-> user.family])
  /\ UNCHANGED <<storeVars, redisVars, call, before, faults>>

\* ForgotPasswordHandler: findByEmailWithoutPassword.  An unknown e-mail gets the same answer.
FindForForgot(r) ==
  /\ At(r, "find") /\ call[r].kind = "forgot"
  /\ IF user.id = None THEN Turn(r, <<>>, "ok") ELSE Proceed(r)
  /\ See(r, [id |-> user.id, family |-> None])
  /\ UNCHANGED <<storeVars, redisVars, call, before, faults>>

\* ResetPasswordHandler: findByPasswordResetToken
FindForReset(r) ==
  /\ At(r, "find") /\ call[r].kind = "reset"
  /\ IF user.reset # call[r].token \/ call[r].token \in expired
       THEN Refuse(r, <<"audit">>) /\ UNCHANGED saw
       ELSE Proceed(r) /\ See(r, [id |-> user.id, family |-> None])
  /\ UNCHANGED <<storeVars, redisVars, call, before, faults>>

-------------------------------------------------------------------------------
(* Writing the account                                                     *)

\* create: the unique index on the e-mail refuses a second account.
Create(r) ==
  /\ At(r, "create")
  /\ IF user.id # None
       THEN Turn(r, <<>>, "error") /\ UNCHANGED <<user, saw>>
       ELSE /\ user' = [NoUser EXCEPT !.id = r, !.password = call[r].password,
                                      !.verification = r]
            /\ See(r, [id |-> r, family |-> None])
            /\ Proceed(r)
  /\ UNCHANGED <<expired, mailed, redisVars, call, before, faults>>

\* createUser reads the account again.
Reread(r) ==
  /\ At(r, "reread")
  /\ IF user.id # r THEN Turn(r, <<>>, "error") ELSE Proceed(r)
  /\ UNCHANGED <<storeVars, redisVars, call, saw, before, faults>>

\* findByIdAndUpdate does nothing if the account i is gone.
Updated(i, u) == IF user.id = i THEN u ELSE user

\* updateRefreshToken: the token of r replaces whichever is stored.
StoreToken(r) ==
  /\ At(r, "store")
  /\ user' = Updated(saw[r].id, [user EXCEPT !.family = saw[r].family, !.token = r])
  /\ Proceed(r)
  /\ UNCHANGED <<expired, mailed, redisVars, call, saw, before, faults>>

\* The account that r clears the session of.
Subject(r) == IF call[r].kind = "logout" THEN Claims(call[r].token).id ELSE saw[r].id

\* Mutant of ClearToken: only the token id is cleared when a reuse was detected.
ClearTokenUnlessReuse(r) ==
  /\ At(r, "clear")
  /\ user' = IF verdict[r] = "refused" THEN user
             ELSE Updated(Subject(r), [user EXCEPT !.family = None, !.token = None])
  /\ Proceed(r)
  /\ UNCHANGED <<expired, mailed, redisVars, call, saw, before, faults>>

\* clearRefreshToken
ClearToken(r) ==
  /\ At(r, "clear")
  /\ user' = Updated(Subject(r), [user EXCEPT !.family = None, !.token = None])
  /\ Proceed(r)
  /\ UNCHANGED <<expired, mailed, redisVars, call, saw, before, faults>>

\* setPasswordResetToken
SetReset(r) ==
  /\ At(r, "setReset")
  /\ user' = Updated(saw[r].id, [user EXCEPT !.reset = r])
  /\ Proceed(r)
  /\ UNCHANGED <<expired, mailed, redisVars, call, saw, before, faults>>

\* updatePassword
SetPassword(r) ==
  /\ At(r, "setPassword")
  /\ user' = Updated(saw[r].id, [user EXCEPT !.password = call[r].password])
  /\ Proceed(r)
  /\ UNCHANGED <<expired, mailed, redisVars, call, saw, before, faults>>

\* clearPasswordResetToken: also a token that was set since.
ClearReset(r) ==
  /\ At(r, "clearReset")
  /\ user' = Updated(saw[r].id, [user EXCEPT !.reset = None])
  /\ Proceed(r)
  /\ UNCHANGED <<expired, mailed, redisVars, call, saw, before, faults>>

\* verifyEmail: findOneAndUpdate with the token and its expiry in the filter.
VerifyEmail(r) ==
  /\ At(r, "verify")
  /\ IF user.verification = call[r].token /\ call[r].token \notin expired /\ ~ user.verified
       THEN /\ user' = [user EXCEPT !.verified = TRUE, !.verification = None]
            /\ Proceed(r)
       ELSE UNCHANGED user /\ Refuse(r, <<"audit">>)
  /\ UNCHANGED <<expired, mailed, redisVars, call, saw, before, faults>>

\* deleteUser: a user who is not found is a 404, after the cache has been cleared.
Delete(r) ==
  /\ At(r, "delete")
  /\ user' = NoUser
  /\ See(r, [id |-> user.id, family |-> None])
  /\ IF user.id = None THEN Refuse(r, Tail(todo[r])) ELSE Proceed(r)
  /\ UNCHANGED <<expired, mailed, redisVars, call, before, faults>>

-------------------------------------------------------------------------------
(* E-mail and audit                                                        *)

\* The record of the delivery, or of the audit log, is created.
Record(r) ==
  /\ At(r, "deliver") \/ At(r, "audit")
  /\ Proceed(r)
  /\ UNCHANGED <<storeVars, redisVars, call, saw, before, faults>>

\* outboxService.create of EMAIL_REQUESTED: the token is in its payload.
Mail(r) ==
  /\ At(r, "mail")
  /\ mailed' = mailed \cup {r}
  /\ Proceed(r)
  /\ UNCHANGED <<user, expired, redisVars, call, saw, before, faults>>

-------------------------------------------------------------------------------
(* The throttle                                                            *)

\* Mutant of Blocked: one attempt too many.
BlockedLate == Cardinality(failed) > MaxAttempts

\* The counter has reached its limit.
Blocked == Cardinality(failed) >= MaxAttempts

\* isBlocked
CheckBlocked(r) ==
  /\ At(r, "check")
  /\ IF Blocked THEN Refuse(r, <<"audit">>) ELSE Proceed(r)
  /\ UNCHANGED <<storeVars, redisVars, call, saw, before, faults>>

\* Mutant of CountFailure: the expiry is set when the limit is reached.
CountFailureLate(r) ==
  /\ At(r, "count")
  /\ failed' = failed \cup {r}
  /\ todo' = [todo EXCEPT ![r] = IF Cardinality(failed') = MaxAttempts
                                   THEN <<"expire">> \o Tail(@) ELSE Tail(@)]
  /\ UNCHANGED <<storeVars, window, used, limited, listed, call, verdict, saw, before, faults>>

\* recordFailure: INCR
CountFailure(r) ==
  /\ At(r, "count")
  /\ failed' = failed \cup {r}
  /\ todo' = [todo EXCEPT ![r] = IF failed = {} THEN <<"expire">> \o Tail(@) ELSE Tail(@)]
  /\ UNCHANGED <<storeVars, window, used, limited, listed, call, verdict, saw, before, faults>>

\* EXPIRE does nothing if the key is gone.
SetExpiry(r) ==
  /\ At(r, "expire")
  /\ window' = (failed # {})
  /\ Proceed(r)
  /\ UNCHANGED <<storeVars, failed, used, limited, listed, call, saw, before, faults>>

\* reset: DEL
Forgive(r) ==
  /\ At(r, "forgive")
  /\ failed' = {} /\ window' = FALSE
  /\ Proceed(r)
  /\ UNCHANGED <<storeVars, used, limited, listed, call, saw, before, faults>>

\* The user whom the access token of r names, whether there is such an account or not.
UserOf(r) == Claims(call[r].token).id

\* The requests that the key of the user i counts.
Uses(i) == {q \in used : UserOf(q) = i}

\* checkLimit of the interceptor on the task routes: INCR, which also counts a request
\* that it refuses.
Enter(r) ==
  /\ At(r, "enter")
  /\ used' = used \cup {r}
  /\ LET n == Cardinality(Uses(UserOf(r)) \cup {r})
         rest == IF n = 1 THEN <<"limit">> ELSE <<>>
     IN Turn(r, rest, IF n <= MaxUses THEN "ok" ELSE "refused")
  /\ UNCHANGED <<storeVars, failed, window, limited, listed, call, saw, before, faults>>

\* checkLimit: EXPIRE does nothing if the key is gone.
SetLimitExpiry(r) ==
  /\ At(r, "limit")
  /\ limited' = IF Uses(UserOf(r)) = {} THEN limited ELSE limited \cup {UserOf(r)}
  /\ Proceed(r)
  /\ UNCHANGED <<storeVars, failed, window, used, listed, call, saw, before, faults>>

-------------------------------------------------------------------------------
(* The list of users                                                       *)

\* findAll: cacheManager.get
GetList(r) ==
  /\ At(r, "get")
  /\ IF listed = None
       THEN Proceed(r) /\ UNCHANGED saw
       ELSE /\ Turn(r, <<>>, "ok")
            /\ See(r, [id |-> IF listed = {} THEN None ELSE CHOOSE i \in listed : TRUE,
                       family |-> None])
  /\ UNCHANGED <<storeVars, redisVars, call, before, faults>>

\* findAll: find
QueryList(r) ==
  /\ At(r, "query")
  /\ See(r, [id |-> user.id, family |-> None])
  /\ Proceed(r)
  /\ UNCHANGED <<storeVars, redisVars, call, before, faults>>

\* findAll: cacheManager.set
SetList(r) ==
  /\ At(r, "set")
  /\ listed' = {saw[r].id} \ {None}
  /\ Proceed(r)
  /\ UNCHANGED <<storeVars, failed, window, used, limited, call, saw, before, faults>>

\* Mutant of Uncache: an account that was deleted stays in the cache.
UncacheUnlessDeleted(r) ==
  /\ At(r, "uncache")
  /\ listed' = IF call[r].kind = "delete" THEN listed ELSE None
  /\ Proceed(r)
  /\ UNCHANGED <<storeVars, failed, window, used, limited, call, saw, before, faults>>

\* invalidateUserCache
Uncache(r) ==
  /\ At(r, "uncache")
  /\ listed' = None
  /\ Proceed(r)
  /\ UNCHANGED <<storeVars, failed, window, used, limited, call, saw, before, faults>>

-------------------------------------------------------------------------------
(* Time and failures                                                       *)

\* The hour of a mailed token passes.
TokenExpires(t) ==
  /\ t \in {user.verification, user.reset} \ expired
  /\ expired' = expired \cup {t}
  /\ UNCHANGED <<user, mailed, redisVars, requestVars, faults>>

\* The 15 minutes of the counter pass.
WindowExpires ==
  /\ window
  /\ failed' = {} /\ window' = FALSE
  /\ UNCHANGED <<storeVars, used, limited, listed, requestVars, faults>>

\* The 15 minutes of the rate limit of the user i pass.
LimitExpires(i) ==
  /\ i \in limited
  /\ used' = used \ Uses(i) /\ limited' = limited \ {i}
  /\ UNCHANGED <<storeVars, failed, window, listed, requestVars, faults>>

\* The 60 seconds of the cached list pass.
ListExpires ==
  /\ listed # None
  /\ listed' = None
  /\ UNCHANGED <<storeVars, failed, window, used, limited, requestVars, faults>>

\* An await of r rejects, or its process dies, before or after the call has taken effect
\* (an effect without an answer is the step followed by this action).
Stop(r) ==
  /\ Running(r)
  /\ faults < MaxFaults
  /\ faults' = faults + 1
  /\ Turn(r, <<>>, "error")
  /\ See(r, NoCopy)
  /\ UNCHANGED <<storeVars, redisVars, call, before>>

-------------------------------------------------------------------------------
Read(r) ==
  \/ FindForRegister(r) \/ FindForLogin(r) \/ FindForRefresh(r)
  \/ FindForForgot(r) \/ FindForReset(r) \/ Reread(r)

Write(r) ==
  \/ Create(r) \/ StoreToken(r) \/ ClearToken(r) \/ SetReset(r) \/ SetPassword(r)
  \/ ClearReset(r) \/ VerifyEmail(r) \/ Delete(r) \/ Record(r) \/ Mail(r)

UseRedis(r) ==
  \/ CheckBlocked(r) \/ CountFailure(r) \/ SetExpiry(r) \/ Forgive(r)
  \/ Enter(r) \/ SetLimitExpiry(r)
  \/ GetList(r) \/ QueryList(r) \/ SetList(r) \/ Uncache(r)

Next ==
  \/ \E r \in Requests : Arrive(r) \/ Read(r) \/ Write(r) \/ UseRedis(r) \/ Stop(r)
  \/ \E t \in Requests : TokenExpires(t)
  \/ \E i \in Origins : LimitExpires(i)
  \/ WindowExpires
  \/ ListExpires

Spec == Init /\ [][Next]_vars

-------------------------------------------------------------------------------
(* Properties                                                              *)

Succeeded(r, k) == Ended(r) /\ verdict[r] = "ok" /\ call[r].kind = k

\* q ended before r arrived, or the other way round.
Apart(q, r) == q \in before[r] \/ r \in before[q]

\* A refresh token, a reset token or a verification token gives two successes only to
\* requests that overlap, and a verification token not even to these.
TokenUsedOnce ==
  \A q, r \in Requests : q # r /\ Ended(q) /\ Ended(r) =>
    \A k \in {"refresh", "reset", "verify"} :
      Succeeded(q, k) /\ Succeeded(r, k) /\ call[q].token = call[r].token =>
        ~ Apart(q, r) /\ k # "verify"

\* The requests that end the session of the account: a logout, a reset, a deletion, and a
\* refresh with a token that a request before it has used.
EndsSession(r) ==
  \/ Succeeded(r, "logout") \/ Succeeded(r, "reset") \/ Succeeded(r, "delete")
  \/ /\ Ended(r) /\ call[r].kind = "refresh" /\ verdict[r] = "refused"
     /\ \E q \in before[r] : Succeeded(q, "refresh") /\ call[q].token = call[r].token

\* The account whose session r ends: a token that is presented names it, even if it is gone.
AccountOf(r) ==
  IF call[r].kind \in {"logout", "refresh"} THEN Claims(call[r].token).id ELSE saw[r].id

\* A session that was there before a request ended it gives no more tokens afterwards,
\* unless a refresh overlapped that request.
EndedSessionStaysEnded ==
  \A r, q \in Requests :
    EndsSession(r) /\ Succeeded(q, "refresh") /\ r \in before[q] /\ saw[q].id = AccountOf(r) =>
      LET f == saw[q].family IN
        f \in before[r] \cup {First} =>
          \E x \in Requests : /\ x # r /\ ~ Apart(x, r)
                              /\ call[x] # None /\ call[x].kind = "refresh"

\* No window takes more than it may: of the failures that it counts, the last ones belong to
\* logins that overlapped (none arrived when the limit had been reached by logins that had
\* ended), and it admits at most the allowed number of requests of a user.
LimitsHold ==
  /\ \A r \in failed : Cardinality(failed \cap before[r]) < MaxAttempts
  /\ \A i \in Origins : Cardinality({r \in Uses(i) : verdict[r] = "ok"}) <= MaxUses

\* Without a failure, a counter without expiry is about to get one: nobody is locked out
\* for good.  (A process that dies between INCR and EXPIRE leaves such a counter.)
CounterExpires ==
  faults = 0 =>
    /\ failed # {} /\ ~ window => \E r \in Requests : At(r, "expire")
    /\ \A i \in Origins \ limited :
         Uses(i) # {} => \E r \in Uses(i) : At(r, "limit")

\* A list of users that is requested after a deletion does not show the deleted account,
\* unless another list was being read while it was deleted.
DeletedNotListed ==
  \A d, r \in Requests :
    /\ Succeeded(d, "delete") /\ Succeeded(r, "list")
    /\ d \in before[r] /\ saw[r].id = saw[d].id
    => \E x \in Requests : /\ ~ Apart(x, d)
                           /\ call[x] # None /\ call[x].kind = "list"
===============================================================================
