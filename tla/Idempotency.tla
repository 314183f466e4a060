----------------------------- MODULE Idempotency ------------------------------
(***************************************************************************)
(* IdempotencyInterceptor and IdempotencyService around a creating         *)
(* endpoint, for all requests that carry one Idempotency-Key in one scope: *)
(* idempotency.interceptor.ts, idempotency.service.ts.                     *)
(*                                                                         *)
(* The record in Redis is reserved with SET NX, read when the reservation  *)
(* fails, overwritten with the response when the handler returned, and     *)
(* deleted when anything after the reservation threw.  Each Redis command  *)
(* is a step.  The handler creates a resource; like create-task.handler.ts *)
(* it may still throw after its transaction committed.                     *)
(*                                                                         *)
(* The names that other specifications have too begin with Key, so that a  *)
(* module can extend this one and that of a creating endpoint.             *)
(*                                                                         *)
(* Abstracted: the header checks, and the scope and fingerprint            *)
(* computations (requests with the same body have the same fingerprint).   *)
(***************************************************************************)
EXTENDS Naturals, FiniteSets

CONSTANTS KeyRequests,     \* bound: requests sent with the key
          Bodies,          \* fingerprints
          Body,            \* the fingerprint of each request
          NoRequest,
          MaxIncidents     \* bound: failures and expiries

ASSUME RequestAssumption ==
  Body \in [KeyRequests -> Bodies] /\ NoRequest \notin KeyRequests /\ MaxIncidents \in Nat

VARIABLES entry,      \* the Redis record under the key
          at,         \* where the interceptor stands with each request
          answer,     \* the request whose response was sent back
          created,    \* requests whose handler created a resource
          incidents   \* failures and expiries that occurred, by kind

keyVars == <<entry, at, answer, created, incidents>>

NoEntry == [status |-> "NONE"]
Processing(r) == [status |-> "PROCESSING", body |-> Body[r]]
\* of: the request whose response is stored.
Completed(r) == [status |-> "COMPLETED", body |-> Body[r], of |-> r]

Entries == {NoEntry} \cup [status : {"PROCESSING"}, body : Bodies]
             \cup [status : {"COMPLETED"}, body : Bodies, of : KeyRequests]

InProgress == {"handler", "complete", "delete"}
Final == {"created", "replayed", "conflict", "error"}
IncidentKinds == {"handler", "redis", "expiry", "crash"}

KeyTypeOK ==
  /\ entry \in Entries
  /\ at \in [KeyRequests -> InProgress \cup Final \cup {"new", "get"}]
  /\ answer \in [KeyRequests -> KeyRequests \cup {NoRequest}]
  /\ created \subseteq KeyRequests
  /\ incidents \in [IncidentKinds -> Nat]

KeyInit ==
  /\ entry = NoEntry
  /\ at = [r \in KeyRequests |-> "new"]
  /\ answer = [r \in KeyRequests |-> NoRequest]
  /\ created = {}
  /\ incidents = [k \in IncidentKinds |-> 0]

NoIncident == \A k \in IncidentKinds : incidents[k] = 0
\* The bound is on every kind, so that one kind cannot use up the others'.
Incident(k) ==
  /\ incidents[k] < MaxIncidents
  /\ incidents' = [incidents EXCEPT ![k] = @ + 1]

Goto(r, p) == at' = [at EXCEPT ![r] = p]

-------------------------------------------------------------------------------
(* One request                                                             *)

\* Mutant of Reserve: SET without NX.
ReserveOverwrites(r) ==
  /\ at[r] = "new"
  /\ Goto(r, "handler") /\ entry' = Processing(r)
  /\ UNCHANGED <<answer, created, incidents>>

\* reserve: SET NX.
Reserve(r) ==
  /\ at[r] = "new"
  /\ IF entry = NoEntry
       THEN Goto(r, "handler") /\ entry' = Processing(r)
       ELSE Goto(r, "get") /\ UNCHANGED entry
  /\ UNCHANGED <<answer, created, incidents>>

\* Mutant of Get: a request in progress is not told apart from none.
GetIgnoresProcessing(r) ==
  /\ at[r] = "get"
  /\ IF \/ entry = NoEntry
        \/ entry.body = Body[r] /\ entry.status = "PROCESSING"
       THEN Goto(r, "handler") /\ UNCHANGED answer
     ELSE IF entry.status = "COMPLETED" /\ entry.body = Body[r]
       THEN Goto(r, "replayed") /\ answer' = [answer EXCEPT ![r] = entry.of]
     ELSE Goto(r, "conflict") /\ UNCHANGED answer
  /\ UNCHANGED <<entry, created, incidents>>

\* Mutant of Get: the fingerprint is not compared.
GetAnyBody(r) ==
  /\ at[r] = "get"
  /\ IF entry = NoEntry
       THEN Goto(r, "handler") /\ UNCHANGED answer
     ELSE IF entry.status = "COMPLETED"
       THEN Goto(r, "replayed") /\ answer' = [answer EXCEPT ![r] = entry.of]
     ELSE Goto(r, "conflict") /\ UNCHANGED answer
  /\ UNCHANGED <<entry, created, incidents>>

\* The reservation failed and its holder's record is read.  A record that has gone
\* in between lets the request through, without a reservation.
Get(r) ==
  /\ at[r] = "get"
  /\ IF entry = NoEntry
       THEN Goto(r, "handler") /\ UNCHANGED answer
     ELSE IF entry.status = "COMPLETED" /\ entry.body = Body[r]
       THEN Goto(r, "replayed") /\ answer' = [answer EXCEPT ![r] = entry.of]
     ELSE Goto(r, "conflict") /\ UNCHANGED answer
  /\ UNCHANGED <<entry, created, incidents>>

\* next.handle(): the handler creates its resource and returns.
Handle(r) ==
  /\ at[r] = "handler"
  /\ created' = created \cup {r}
  /\ Goto(r, "complete")
  /\ UNCHANGED <<entry, answer, incidents>>

\* Mutant of HandleThrows: the key is not released.
HandleThrowsKeepsKey(r) ==
  /\ at[r] = "handler"
  /\ Incident("handler")
  /\ created' \in {created, created \cup {r}}
  /\ Goto(r, "error")
  /\ UNCHANGED <<entry, answer>>

\* The handler throws, before or after its transaction committed.
HandleThrows(r) ==
  /\ at[r] = "handler"
  /\ Incident("handler")
  /\ created' \in {created, created \cup {r}}
  /\ Goto(r, "delete")
  /\ UNCHANGED <<entry, answer>>

\* complete: an unconditional SET.
Complete(r) ==
  /\ at[r] = "complete"
  /\ entry' = Completed(r)
  /\ answer' = [answer EXCEPT ![r] = r]
  /\ Goto(r, "created")
  /\ UNCHANGED <<created, incidents>>

\* complete rejects, applied or not: catchError covers it too.
CompleteRejected(r) ==
  /\ at[r] = "complete"
  /\ Incident("redis")
  /\ entry' \in {entry, Completed(r)}
  /\ Goto(r, "delete")
  /\ UNCHANGED <<answer, created>>

\* delete: DEL of the key, whoever wrote the record.
Delete(r) ==
  /\ at[r] = "delete"
  /\ entry' = NoEntry
  /\ Goto(r, "error")
  /\ UNCHANGED <<answer, created, incidents>>

\* Any other Redis command rejects: the request ends with an error.
CommandRejected(r) ==
  /\ at[r] \in {"new", "get", "delete"}
  /\ Incident("redis")
  /\ \/ UNCHANGED entry
     \/ at[r] = "new" /\ entry = NoEntry /\ entry' = Processing(r)
     \/ at[r] = "delete" /\ entry' = NoEntry
  /\ Goto(r, "error")
  /\ UNCHANGED <<answer, created>>

-------------------------------------------------------------------------------
(* The surroundings                                                        *)

\* IDEMPOTENCY_TTL_SECONDS pass.
Expire ==
  /\ entry # NoEntry
  /\ Incident("expiry")
  /\ entry' = NoEntry
  /\ UNCHANGED <<at, answer, created>>

\* The process that serves r dies.
Crash(r) ==
  /\ at[r] \in InProgress \cup {"get"}
  /\ Incident("crash")
  /\ Goto(r, "error")
  /\ UNCHANGED <<entry, answer, created>>

RequestStep(r) == Reserve(r) \/ Get(r) \/ Handle(r) \/ Complete(r) \/ Delete(r)

KeyNext ==
  \/ \E r \in KeyRequests : \/ RequestStep(r) \/ HandleThrows(r)
                            \/ CompleteRejected(r) \/ CommandRejected(r) \/ Crash(r)
  \/ Expire

KeySpec == KeyInit /\ [][KeyNext]_keyVars

-------------------------------------------------------------------------------
(* Properties                                                              *)

\* Without a failure or an expiry, any number of concurrent retries create one
\* resource: the reservation keeps every other request out of the handler.
OneResourceUndisturbed == NoIncident => Cardinality(created) <= 1

\* A replayed response is that of a request with the same body whose handler did
\* create its resource, even if keys expired and reservations were deleted.
ReplayIsGenuine ==
  \A r \in KeyRequests :
    at[r] = "replayed" => answer[r] \in created /\ Body[answer[r]] = Body[r]

\* A reservation that nobody works under comes from a crash or a rejected Redis
\* command: in every other case the key is completed or released.
ReservationHasHolder ==
  entry.status = "PROCESSING" /\ incidents["redis"] = 0 /\ incidents["crash"] = 0
    => \E r \in KeyRequests : at[r] \in InProgress /\ Body[r] = entry.body

\* A stored response changes only when the key expired, or when a request that got
\* past the reservation because of an earlier failure finishes.
StoredResponseKept ==
  [][entry.status = "COMPLETED" /\ entry' # entry => ~ NoIncident']_keyVars

===============================================================================
