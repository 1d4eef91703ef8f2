------------------------------ MODULE Requests ------------------------------
(***************************************************************************)
(* The requests of one API process, from the middleware to the end of      *)
(* their session: the Entra token is verified, an audited endpoint records *)
(* the attempt, the permission is checked, the handler runs and answers,   *)
(* and the session is closed after the answer (FastAPI's dependencies with *)
(* yield).  What a handler reads and writes is a matter of other modules;  *)
(* this one has what all of them share and can run out of: the event loop, *)
(* which an async handler occupies while it works, the threads that the    *)
(* other handlers and the streams run on, and the connections.  A session  *)
(* takes a connection with its first statement and gives it back when it   *)
(* commits or is closed; whoever waits for one waits 30 seconds.           *)
(*                                                                         *)
(* Abstractions.  Verifying a token needs a thread only for that step;     *)
(* get_session and the permission check, short dependencies that run on    *)
(* threads too, need none.                                                 *)
(* What a handler checks before its first statement it checks after it.    *)
(* A handler with several commits (create_claim) stands as its first one.  *)
(* Bodies and parameters are valid; the notification callback and the      *)
(* health checks, which have neither session nor user, are left out.       *)
(***************************************************************************)
EXTENDS Integers, FiniteSets

CONSTANTS
  Requests,
  Tokens,           \* [user, named, roles, scopes]; named: it has preferred_username,
                    \* scopes: what its scp and roles claims have
  Nobody,           \* the user context that is not set
  AllowedScopes,    \* ENTRA_ALLOWED_SCOPES
  RolePermissions,  \* ROLE_PERMISSIONS_MAP
  Endpoint,         \* the endpoints of the routers, by the name of their handler
  OperationsOf,     \* the endpoints a request may be for
  PoolSize,         \* connections of the engine's pool, overflow included
  Threads           \* tokens of anyio's thread limiter

Effects == {"NONE", "READ", "ROWS", "EVENT"}
(* What a use case may refuse: 400, 404, 409, 415, 422, and a provider's 403. *)
Refusals ==
  {"BAD_REQUEST", "FORBIDDEN", "NOT_FOUND", "CONFLICT", "UNSUPPORTED_MEDIA_TYPE",
   "UNPROCESSABLE"}

ASSUME EndpointAssumption ==
  /\ OperationsOf \in [Requests -> SUBSET DOMAIN Endpoint]
  /\ \A op \in DOMAIN Endpoint :
       /\ Endpoint[op].runs \in {"LOOP", "THREAD", "STREAM"}
       /\ Endpoint[op].effect \in Effects
       /\ Endpoint[op].refusals \subseteq Refusals
       /\ Endpoint[op].provider \in BOOLEAN
       /\ Endpoint[op].audited \in BOOLEAN
       /\ Endpoint[op].reloads \in {"NO", "ANSWER", "NOTIFY"}
ASSUME CapacityAssumption == PoolSize \in Nat \ {0} /\ Threads \in Nat \ {0}

VARIABLES
  req,       \* how far each request is
  expired,   \* tokens that have expired
  audits,    \* committed audit events: [req, user]
  events,    \* committed rows of handlers: [req, actor]
  conns,     \* requests whose session has a connection
  loop       \* the request whose handler occupies the event loop

vars == <<req, expired, audits, events, conns, loop>>
database == <<audits, events>>

ToBeAnswered == {"ARRIVED", "VERIFIED", "AUDITING", "AUDITED", "HANDLING", "READ",
                 "COMMITTED", "RESPONDING", "CLOSING"}
Statuses ==
  {"NONE", "OK", "UNAUTHORIZED", "TOO_MANY_REQUESTS", "ERROR"} \cup Refusals
Faults == {"NONE", "TOKEN", "POOL", "DATABASE", "UNACKNOWLEDGED"}

(* The states in which a handler runs. *)
Handled == {"HANDLING", "READ", "COMMITTED"}

NewRequest ==
  [pc |-> "NEW", op |-> Nobody, token |-> Nobody, user |-> Nobody,
   status |-> "NONE", touched |-> FALSE, fault |-> "NONE"]

EndpointOf(r) == Endpoint[req[r].op]
Scopes(r) == req[r].token.scopes
Valid(r) == req[r].token \notin expired

(* get_current_user_permissions *)
PermissionsOf(r) == UNION {RolePermissions[role] : role \in req[r].token.roles}

(* PermissionChecker: one of the possible permissions is enough. *)
Permitted(r) == EndpointOf(r).needs \cap PermissionsOf(r) # {}

(* _validate_scopes_or_roles: any scope will do if none is configured. *)
ScopeAccepted(scopes) == AllowedScopes = {} \/ scopes \cap AllowedScopes # {}

(* Mutant: a request that will be denied is not audited. *)
AuditsPermitted(r) == EndpointOf(r).audited /\ Permitted(r)

AuditsAttempt(r) == EndpointOf(r).audited

OnThread(r) ==
  \/ req[r].pc = "AUDITING"
  \/ req[r].pc \in Handled /\ EndpointOf(r).runs # "LOOP"

ThreadFree == Cardinality({r \in Requests : OnThread(r)}) < Threads
LoopFree == loop = Nobody
ConnectionFree == Cardinality(conns) < PoolSize

Set(r, p) == req' = [req EXCEPT ![r] = p]

(***************************************************************************)
(* The middleware, the token and the permission                            *)
(***************************************************************************)
Arrive(r) ==
  /\ req[r].pc = "NEW"
  /\ \E op \in OperationsOf[r], t \in Tokens :
       Set(r, [NewRequest EXCEPT !.pc = "ARRIVED", !.op = op, !.token = t])
  /\ UNCHANGED <<expired, database, conns, loop>>

(* The limiter refuses the request. *)
Limit(r) ==
  /\ req[r].pc = "ARRIVED"
  /\ LoopFree
  /\ Set(r, [req[r] EXCEPT !.pc = "DONE", !.status = "TOO_MANY_REQUESTS"])
  /\ UNCHANGED <<expired, database, conns, loop>>

(* verify_entra_token: the user context is set once the token is accepted. *)
Verify(r) ==
  /\ req[r].pc = "ARRIVED"
  /\ LoopFree /\ ThreadFree
  /\ Set(r, CASE ~Valid(r) -> [req[r] EXCEPT !.pc = "DONE", !.status = "UNAUTHORIZED"]
              [] Valid(r) /\ ~ScopeAccepted(Scopes(r)) ->
                   [req[r] EXCEPT !.pc = "DONE", !.status = "FORBIDDEN"]
              [] OTHER -> [req[r] EXCEPT !.pc = "VERIFIED", !.user = req[r].token.user])
  /\ UNCHANGED <<expired, database, conns, loop>>

(* Mutant: a failed audit is logged and the request goes on. *)
AuditIgnored(r, fault) == Set(r, [req[r] EXCEPT !.pc = "AUDITED", !.fault = fault])

(* AuditFailureHandler: 500, or 403 to a user without permission. *)
AuditFailed(r, fault) ==
  Set(r, [req[r] EXCEPT !.pc = "RESPONDING", !.fault = fault,
                        !.status = IF Permitted(r) THEN "ERROR" ELSE "FORBIDDEN"])

(* The token is decoded again for the email address the event must have. *)
BeginAudit(r) ==
  /\ req[r].pc = "VERIFIED"
  /\ AuditsAttempt(r)
  /\ LoopFree /\ ThreadFree
  /\ IF Valid(r) /\ req[r].token.named
       THEN Set(r, [req[r] EXCEPT !.pc = "AUDITING"])
       ELSE AuditFailed(r, "TOKEN")
  /\ UNCHANGED <<expired, database, conns, loop>>

AuditRow(r) == [req |-> r, user |-> req[r].user]

(* RecordAuditEventUseCase, with a connection of its own for the moment. *)
CommitAudit(r) ==
  /\ req[r].pc = "AUDITING"
  /\ ConnectionFree
  /\ audits' = audits \cup {AuditRow(r)}
  /\ Set(r, [req[r] EXCEPT !.pc = "AUDITED"])
  /\ UNCHANGED <<expired, events, conns, loop>>

(* The database fails, before the commit or before it has answered it. *)
FailAudit(r) ==
  /\ req[r].pc = "AUDITING"
  /\ ConnectionFree
  /\ \/ AuditFailed(r, "DATABASE") /\ UNCHANGED audits
     \/ AuditFailed(r, "UNACKNOWLEDGED") /\ audits' = audits \cup {AuditRow(r)}
  /\ UNCHANGED <<expired, events, conns, loop>>

(* The permission after the audit; a provider's token is verified again,   *)
(* for the scope that only providers have.  The handler starts.            *)
Authorise(r) ==
  /\ \/ req[r].pc = "VERIFIED" /\ ~AuditsAttempt(r)
     \/ req[r].pc = "AUDITED"
  /\ LoopFree
  /\ LET deny(status) == Set(r, [req[r] EXCEPT !.pc = "RESPONDING", !.status = status])
         provider == EndpointOf(r).provider
     IN  \/ ~Permitted(r) /\ deny("FORBIDDEN") /\ UNCHANGED loop
         \/ Permitted(r) /\ provider /\ ~Valid(r) /\ deny("UNAUTHORIZED") /\ UNCHANGED loop
         \/ /\ Permitted(r) /\ provider /\ Valid(r) /\ "User.Provider" \notin Scopes(r)
            /\ deny("FORBIDDEN") /\ UNCHANGED loop
         \/ /\ Permitted(r)
            /\ provider => Valid(r) /\ "User.Provider" \in Scopes(r)
            /\ Set(r, [req[r] EXCEPT !.pc = "HANDLING"])
            /\ \/ EndpointOf(r).runs = "LOOP" /\ loop' = r
               \/ EndpointOf(r).runs # "LOOP" /\ ThreadFree /\ UNCHANGED loop
  /\ UNCHANGED <<expired, database, conns>>

(***************************************************************************)
(* The handler                                                             *)
(***************************************************************************)
(* The handler is left with a status: its thread or the loop is free again. *)
Leave(r, status, fault) ==
  /\ Set(r, [req[r] EXCEPT !.pc = "RESPONDING", !.status = status, !.fault = fault])
  /\ loop' = IF loop = r THEN Nobody ELSE loop

(* The first statement: the session has a connection. *)
Read(r) ==
  /\ req[r].pc = "HANDLING"
  /\ EndpointOf(r).effect # "NONE"
  /\ ConnectionFree
  /\ conns' = conns \cup {r}
  /\ Set(r, [req[r] EXCEPT !.pc = "READ", !.touched = TRUE])
  /\ UNCHANGED <<expired, database, loop>>

(* list_provider_offices asks another service. *)
AskElsewhere(r) ==
  /\ req[r].pc = "HANDLING"
  /\ EndpointOf(r).effect = "NONE"
  /\ \E status \in {"OK", "ERROR"} : Leave(r, status, "NONE")
  /\ UNCHANGED <<expired, database, conns>>

(* Not found, in conflict, invalid: the error the use case raised. *)
Refuse(r) ==
  /\ req[r].pc = "READ"
  /\ \E status \in EndpointOf(r).refusals : Leave(r, status, "NONE")
  /\ UNCHANGED <<expired, database, conns>>

FinishRead(r) ==
  /\ req[r].pc = "READ"
  /\ EndpointOf(r).effect = "READ"
  /\ Leave(r, "OK", "NONE")
  /\ UNCHANGED <<expired, database, conns>>

(* An exception; a use case that writes rolls back, and the connection is  *)
(* given back.                                                             *)
FailHandler(r) ==
  /\ req[r].pc = "READ"
  /\ Leave(r, "ERROR", "DATABASE")
  /\ conns' = IF EndpointOf(r).effect = "READ" THEN conns ELSE conns \ {r}
  /\ UNCHANGED <<expired, database>>

Row(r) ==
  [req |-> r, actor |-> IF EndpointOf(r).effect = "EVENT" THEN req[r].user ELSE Nobody]

(* Mutant: a duplicate is rolled back and the session, empty now, is       *)
(* committed again.                                                        *)
CommitEmptied(r) ==
  /\ req[r].pc = "READ"
  /\ EndpointOf(r).effect \in {"ROWS", "EVENT"}
  /\ conns' = conns \ {r}
  /\ Set(r, [req[r] EXCEPT !.pc = "COMMITTED"])
  /\ UNCHANGED <<expired, database, loop>>

(* The rows and the history event of the user in the context, in one commit. *)
Commit(r) ==
  /\ req[r].pc = "READ"
  /\ EndpointOf(r).effect \in {"ROWS", "EVENT"}
  /\ events' = events \cup {Row(r)}
  /\ conns' = conns \ {r}
  /\ Set(r, [req[r] EXCEPT !.pc = "COMMITTED"])
  /\ UNCHANGED <<expired, audits, loop>>

(* The connection breaks after the server has committed. *)
CommitUnacknowledged(r) ==
  /\ req[r].pc = "READ"
  /\ EndpointOf(r).effect \in {"ROWS", "EVENT"}
  /\ events' = events \cup {Row(r)}
  /\ conns' = conns \ {r}
  /\ Leave(r, "ERROR", "UNACKNOWLEDGED")
  /\ UNCHANGED <<expired, audits>>

FinishWrite(r) ==
  /\ req[r].pc = "COMMITTED"
  /\ EndpointOf(r).reloads = "NO"
  /\ Leave(r, "OK", "NONE")
  /\ UNCHANGED <<expired, database, conns>>

(* An email that cannot be written is logged and forgotten; without what it *)
(* needs for its answer a request fails.                                    *)
AfterFailedReload(r) == IF EndpointOf(r).reloads = "ANSWER" THEN "ERROR" ELSE "OK"

(* The commit has expired what the session holds: to log, answer or send it *)
(* takes a statement, and a connection, again.                              *)
Reload(r) ==
  /\ req[r].pc = "COMMITTED"
  /\ EndpointOf(r).reloads # "NO"
  /\ ConnectionFree
  /\ \/ Leave(r, "OK", "NONE") /\ conns' = conns \cup {r}
     \/ Leave(r, AfterFailedReload(r), "DATABASE") /\ UNCHANGED conns
  /\ UNCHANGED <<expired, database>>

NeedsConnection(r) ==
  \/ req[r].pc = "AUDITING"
  \/ req[r].pc = "HANDLING" /\ EndpointOf(r).effect # "NONE"
  \/ req[r].pc = "COMMITTED" /\ EndpointOf(r).reloads # "NO"

(* Mutant: the pool is waited for without a timeout. *)
WaitForPool(r) == FALSE

(* QueuePool's timeout: the exception of a failed statement. *)
PoolTimeout(r) ==
  /\ NeedsConnection(r)
  /\ ~ConnectionFree
  /\ \/ req[r].pc = "AUDITING" /\ AuditFailed(r, "POOL") /\ UNCHANGED loop
     \/ req[r].pc = "HANDLING" /\ Leave(r, "ERROR", "POOL")
     \/ req[r].pc = "COMMITTED" /\ Leave(r, AfterFailedReload(r), "POOL")
  /\ UNCHANGED <<expired, database, conns>>

(***************************************************************************)
(* The answer and the end of the session                                   *)
(***************************************************************************)
(* A stream is read on a thread, chunk by chunk. *)
Respond(r) ==
  /\ req[r].pc = "RESPONDING"
  /\ LoopFree
  /\ EndpointOf(r).runs = "STREAM" /\ req[r].status = "OK" => ThreadFree
  /\ Set(r, [req[r] EXCEPT !.pc = "CLOSING"])
  /\ UNCHANGED <<expired, database, conns, loop>>

(* Mutant: a session that is left open. *)
CloseKeepingConnection(r) ==
  /\ req[r].pc = "CLOSING"
  /\ LoopFree
  /\ Set(r, [req[r] EXCEPT !.pc = "DONE"])
  /\ UNCHANGED <<expired, database, conns, loop>>

(* get_session is left, on a thread that is not counted. *)
CloseSession(r) ==
  /\ req[r].pc = "CLOSING"
  /\ LoopFree
  /\ conns' = conns \ {r}
  /\ Set(r, [req[r] EXCEPT !.pc = "DONE"])
  /\ UNCHANGED <<expired, database, loop>>

(* Said only of a token that matters still: a request may arrive with one   *)
(* that expires before it is looked at.                                    *)
Expire(t) ==
  /\ \E r \in Requests : req[r].token = t /\ req[r].pc # "DONE"
  /\ expired' = expired \cup {t}
  /\ UNCHANGED <<req, database, conns, loop>>

Init ==
  /\ req = [r \in Requests |-> NewRequest]
  /\ expired = {}
  /\ audits = {} /\ events = {}
  /\ conns = {}
  /\ loop = Nobody

Advance(r) ==
  \/ Verify(r) \/ BeginAudit(r) \/ CommitAudit(r) \/ Authorise(r)
  \/ Read(r) \/ AskElsewhere(r) \/ Refuse(r) \/ FinishRead(r)
  \/ Commit(r) \/ FinishWrite(r) \/ Reload(r)
  \/ PoolTimeout(r) \/ Respond(r) \/ CloseSession(r)

Fail(r) == FailAudit(r) \/ FailHandler(r) \/ CommitUnacknowledged(r)

Next ==
  \/ \E r \in Requests : Arrive(r) \/ Limit(r) \/ Advance(r) \/ Fail(r)
  \/ \E t \in Tokens : Expire(t)

Spec == Init /\ [][Next]_vars

(* A request that has arrived is worked on, and a wait for the pool times  *)
(* out; that anything fails is not assumed.                                *)
Fairness == \A r \in Requests : WF_vars(Advance(r))
FairSpec == Spec /\ Fairness

(***************************************************************************)
(* Properties                                                              *)
(***************************************************************************)
(* The variables hold what requests and sessions can hold: no more         *)
(* connections than the pool has, none with a request that has ended, and  *)
(* the loop with a handler that runs on it.                                *)
TypeOK ==
  /\ req \in [Requests ->
       [pc : {"NEW", "DONE"} \cup ToBeAnswered,
        op : DOMAIN Endpoint \cup {Nobody}, token : Tokens \cup {Nobody},
        user : {t.user : t \in Tokens} \cup {Nobody},
        status : Statuses, touched : BOOLEAN, fault : Faults]]
  /\ \A r \in Requests :
       req[r].pc # "NEW" => req[r].op \in DOMAIN Endpoint /\ req[r].token \in Tokens
  /\ expired \subseteq Tokens
  /\ \A x \in audits \cup events : x.req \in Requests
  /\ conns \subseteq {r \in Requests : req[r].pc \in {"READ", "RESPONDING", "CLOSING"}}
  /\ Cardinality(conns) <= PoolSize
  /\ loop # Nobody =>
       loop \in Requests /\ req[loop].pc \in Handled /\ EndpointOf(loop).runs = "LOOP"

(* No handler reads or writes for a request unless its token carries an      *)
(* accepted scope and a role with one of the permissions of the endpoint, a  *)
(* provider's scope where that is asked for, and, at an audited endpoint,    *)
(* the attempt is in the database under the user's name.                     *)
DataNeedsAuthority ==
  \A r \in Requests :
    req[r].touched =>
      LET token == req[r].token
          e == Endpoint[req[r].op]
      IN  /\ \E role \in token.roles, p \in e.needs : p \in RolePermissions[role]
          /\ ScopeAccepted(token.scopes)
          /\ e.provider => "User.Provider" \in token.scopes
          /\ e.audited => [req |-> r, user |-> token.user] \in audits

(* Whoever is known and asks an audited endpoint is in the audit once it has *)
(* answered, denied or not, unless recording it met a failure, which the     *)
(* answer then shows; and nobody is there for a request that was not made.   *)
AttemptsAreAudited ==
  /\ \A r \in Requests :
       LET answered == req[r].pc = "DONE" /\ req[r].user # Nobody /\ Endpoint[req[r].op].audited
       IN  answered /\ (\A x \in audits : x.req # r) =>
             /\ req[r].fault \in {"TOKEN", "POOL", "DATABASE"}
             /\ req[r].status \in {"FORBIDDEN", "ERROR"}
  /\ \A x \in audits :
       x.user = req[x.req].token.user /\ Endpoint[req[x.req].op].audited

(* A success is answered only for rows that are committed, with an event that *)
(* names the user of the request.  Rows that are committed are answered with  *)
(* a success unless the acknowledgement of the commit was lost, or what was   *)
(* committed had to be read again for the answer, more than for an email, and *)
(* could not be: the caller who tries again then does it twice.               *)
AnswersTellWhatIsStored ==
  \A r \in Requests :
    LET e == Endpoint[req[r].op]
        rows == {x \in events : x.req = r}
    IN  req[r].pc = "DONE" /\ req[r].touched =>
          /\ req[r].status = "OK" /\ e.effect \in {"ROWS", "EVENT"} => rows # {}
          /\ rows # {} =>
               \/ req[r].status = "OK"
               \/ req[r].fault = "UNACKNOWLEDGED"
               \/ e.reloads = "ANSWER" /\ req[r].fault \in {"DATABASE", "POOL"}
          /\ \A x \in rows : e.effect = "EVENT" => x.actor = req[r].token.user

(* Every request that has arrived is answered and gives back its connection, *)
(* whoever occupies the loop, the threads and the pool.                      *)
EveryRequestAnswered == \A r \in Requests : req[r].pc = "ARRIVED" ~> req[r].pc = "DONE"
=============================================================================
