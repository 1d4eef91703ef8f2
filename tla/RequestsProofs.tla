---------------------------- MODULE RequestsProofs ----------------------------
(***************************************************************************)
(* Theorems about Requests, for every set of requests, tokens, roles and   *)
(* endpoints and every number of connections and threads.                  *)
(***************************************************************************)
EXTENDS Requests, FiniteSetTheorems, TLAPS

(***************************************************************************)
(* What a step of one request may do                                       *)
(***************************************************************************)
Stages == {"NEW", "DONE"} \cup ToBeAnswered
Operations == DOMAIN Endpoint \cup {Nobody}
Held == Tokens \cup {Nobody}
Users == {t.user : t \in Tokens} \cup {Nobody}
Records ==
  [pc : Stages, op : Operations, token : Held, user : Users, status : Statuses,
   touched : BOOLEAN, fault : Faults]

Holding == {"READ", "RESPONDING", "CLOSING"}
AuditsOf(q) == {x \in audits : x.req = q}
RowsOf(q) == {x \in events : x.req = q}

(* The request alone moves on, to a record of a known endpoint and token.  *)
MovesOn(r) ==
  /\ req' = [q \in Requests |-> IF q = r THEN req'[r] ELSE req[q]]
  /\ req'[r] \in Records
  /\ req'[r].op \in DOMAIN Endpoint /\ req'[r].token \in Tokens
  /\ expired' = expired

(* It writes nothing in the name of another. *)
WritesItsOwn(r) ==
  /\ audits' \in {audits, audits \cup {AuditRow(r)}}
  /\ events' \in {events, events \cup {Row(r)}}

(* It takes a connection that is free, and holds one only where it may. *)
TakesConnection(r) ==
  \/ conns' = conns /\ (r \in conns => req'[r].pc \in Holding)
  \/ conns' = conns \ {r}
  \/ conns' = conns \cup {r} /\ ConnectionFree /\ req'[r].pc \in Holding

(* It occupies the loop only while its handler runs on it. *)
TakesLoop(r) ==
  \/ loop' = loop /\ (loop = r => req'[r].pc \in Handled /\ req'[r].op = req[r].op)
  \/ loop' = Nobody
  \/ loop' = r /\ req'[r].pc \in Handled /\ Endpoint[req'[r].op].runs = "LOOP"

Action(r) == Arrive(r) \/ Limit(r) \/ Advance(r) \/ Fail(r)

LEMMA Values ==
  /\ "NEW" \in Stages /\ "ARRIVED" \in Stages /\ "VERIFIED" \in Stages /\ "AUDITING" \in Stages
  /\ "AUDITED" \in Stages /\ "HANDLING" \in Stages /\ "READ" \in Stages
  /\ "COMMITTED" \in Stages /\ "RESPONDING" \in Stages /\ "CLOSING" \in Stages
  /\ "DONE" \in Stages
  /\ "NONE" \in Statuses /\ "OK" \in Statuses /\ "ERROR" \in Statuses
  /\ "UNAUTHORIZED" \in Statuses /\ "FORBIDDEN" \in Statuses
  /\ "TOO_MANY_REQUESTS" \in Statuses /\ Refusals \subseteq Statuses
  /\ "NONE" \in Faults /\ "TOKEN" \in Faults /\ "POOL" \in Faults
  /\ "DATABASE" \in Faults /\ "UNACKNOWLEDGED" \in Faults
  BY DEF Stages, ToBeAnswered, Statuses, Refusals, Faults

LEMMA RequestMovesOn ==
  ASSUME TypeOK, NEW r \in Requests, Action(r) PROVE MovesOn(r)
<1>1. req \in [Requests -> Records] /\ req[r] \in Records
  BY DEF TypeOK, Records, Stages, Operations, Held, Users
<1>2. req[r].pc # "NEW" => req[r].op \in DOMAIN Endpoint /\ req[r].token \in Tokens
  BY DEF TypeOK
<1>3. CASE Arrive(r)
  <2>1. PICK op \in DOMAIN Endpoint, t \in Tokens :
          Set(r, [NewRequest EXCEPT !.pc = "ARRIVED", !.op = op, !.token = t])
    BY <1>3, EndpointAssumption DEF Arrive
  <2>2. "ARRIVED" \in Stages /\ "NONE" \in Statuses /\ "NONE" \in Faults
    BY Values
  <2>3. [NewRequest EXCEPT !.pc = "ARRIVED", !.op = op, !.token = t] \in Records
    BY <2>2 DEF NewRequest, Records, Operations, Held, Users
  <2> QED
    BY <1>1, <1>3, <2>1, <2>3 DEF Arrive, Set, MovesOn, NewRequest
<1>4. CASE Limit(r)
  <2>1. "DONE" \in Stages /\ "TOO_MANY_REQUESTS" \in Statuses
    BY Values
  <2>2. req'[r] = [req[r] EXCEPT !.pc = "DONE", !.status = "TOO_MANY_REQUESTS"]
    BY <1>1, <1>4 DEF Limit, Set
  <2>3. req'[r] \in Records
    BY <1>1, <2>1, <2>2 DEF Records
  <2>4. req'[r].op = req[r].op /\ req'[r].token = req[r].token
    BY <1>1, <2>2 DEF Records
  <2>5. req[r].pc # "NEW"
    BY <1>4 DEF Limit
  <2> QED
    BY <1>1, <1>2, <1>4, <2>3, <2>4, <2>5 DEF Limit, Set, MovesOn
<1>5. CASE Verify(r)
  <2>1. /\ "DONE" \in Stages /\ "VERIFIED" \in Stages /\ "UNAUTHORIZED" \in Statuses
        /\ "FORBIDDEN" \in Statuses
    BY Values
  <2>2. \/ req'[r] = [req[r] EXCEPT !.pc = "DONE", !.status = "UNAUTHORIZED"]
        \/ req'[r] = [req[r] EXCEPT !.pc = "DONE", !.status = "FORBIDDEN"]
        \/ req'[r] = [req[r] EXCEPT !.pc = "VERIFIED", !.user = req[r].token.user]
    BY <1>1, <1>5 DEF Verify, Valid, Scopes, Set
  <2>3. req[r].token.user \in Users
    BY <1>2, <1>5 DEF Verify, Users
  <2>4. req'[r] \in Records
    BY <1>1, <2>1, <2>2, <2>3 DEF Records
  <2>5. req'[r].op = req[r].op /\ req'[r].token = req[r].token
    BY <1>1, <2>2 DEF Records
  <2>6. req[r].pc # "NEW"
    BY <1>5 DEF Verify, Valid, Scopes
  <2> QED
    BY <1>1, <1>2, <1>5, <2>4, <2>5, <2>6 DEF Verify, Valid, Scopes, Set, MovesOn
<1>6. CASE BeginAudit(r)
  <2>1. /\ "AUDITING" \in Stages /\ "RESPONDING" \in Stages /\ "FORBIDDEN" \in Statuses
        /\ "ERROR" \in Statuses /\ "TOKEN" \in Faults
    BY Values
  <2>2. \/ req'[r] = [req[r] EXCEPT !.pc = "AUDITING"]
        \/ req'[r] = [req[r] EXCEPT !.pc = "RESPONDING", !.fault = "TOKEN", !.status = "ERROR"]
        \/ req'[r] = [req[r] EXCEPT !.pc = "RESPONDING", !.fault = "TOKEN", !.status = "FORBIDDEN"]
    BY <1>1, <1>6 DEF BeginAudit, AuditFailed, Set
  <2>3. req'[r] \in Records
    BY <1>1, <2>1, <2>2 DEF Records
  <2>4. req'[r].op = req[r].op /\ req'[r].token = req[r].token
    BY <1>1, <2>2 DEF Records
  <2>5. req[r].pc # "NEW"
    BY <1>6 DEF BeginAudit, AuditFailed
  <2> QED
    BY <1>1, <1>2, <1>6, <2>3, <2>4, <2>5 DEF BeginAudit, AuditFailed, Set, MovesOn
<1>7. CASE CommitAudit(r)
  <2>1. "AUDITED" \in Stages
    BY Values
  <2>2. req'[r] = [req[r] EXCEPT !.pc = "AUDITED"]
    BY <1>1, <1>7 DEF CommitAudit, Set
  <2>3. req'[r] \in Records
    BY <1>1, <2>1, <2>2 DEF Records
  <2>4. req'[r].op = req[r].op /\ req'[r].token = req[r].token
    BY <1>1, <2>2 DEF Records
  <2>5. req[r].pc # "NEW"
    BY <1>7 DEF CommitAudit
  <2> QED
    BY <1>1, <1>2, <1>7, <2>3, <2>4, <2>5 DEF CommitAudit, Set, MovesOn
<1>8. CASE FailAudit(r)
  <2>1. /\ "RESPONDING" \in Stages /\ "FORBIDDEN" \in Statuses /\ "ERROR" \in Statuses
        /\ "DATABASE" \in Faults /\ "UNACKNOWLEDGED" \in Faults
    BY Values
  <2>2. \/ req'[r] = [req[r] EXCEPT !.pc = "RESPONDING", !.fault = "DATABASE", !.status = "ERROR"]
        \/ req'[r] = [req[r] EXCEPT !.pc = "RESPONDING", !.fault = "DATABASE", !.status = "FORBIDDEN"]
        \/ req'[r] = [req[r] EXCEPT !.pc = "RESPONDING", !.fault = "UNACKNOWLEDGED", !.status = "ERROR"]
        \/ req'[r] = [req[r] EXCEPT !.pc = "RESPONDING", !.fault = "UNACKNOWLEDGED", !.status = "FORBIDDEN"]
    BY <1>1, <1>8 DEF FailAudit, AuditFailed, Set
  <2>3. req'[r] \in Records
    BY <1>1, <2>1, <2>2 DEF Records
  <2>4. req'[r].op = req[r].op /\ req'[r].token = req[r].token
    BY <1>1, <2>2 DEF Records
  <2>5. req[r].pc # "NEW"
    BY <1>8 DEF FailAudit, AuditFailed
  <2> QED
    BY <1>1, <1>2, <1>8, <2>3, <2>4, <2>5 DEF FailAudit, AuditFailed, Set, MovesOn
<1>9. CASE Authorise(r)
  <2>1. /\ "HANDLING" \in Stages /\ "RESPONDING" \in Stages /\ "UNAUTHORIZED" \in Statuses
        /\ "FORBIDDEN" \in Statuses
    BY Values
  <2>2. \/ req'[r] = [req[r] EXCEPT !.pc = "HANDLING"]
        \/ req'[r] = [req[r] EXCEPT !.pc = "RESPONDING", !.status = "UNAUTHORIZED"]
        \/ req'[r] = [req[r] EXCEPT !.pc = "RESPONDING", !.status = "FORBIDDEN"]
    BY <1>1, <1>9 DEF Authorise, Set
  <2>3. req'[r] \in Records
    BY <1>1, <2>1, <2>2 DEF Records
  <2>4. req'[r].op = req[r].op /\ req'[r].token = req[r].token
    BY <1>1, <2>2 DEF Records
  <2>5. req[r].pc # "NEW"
    BY <1>9 DEF Authorise
  <2> QED
    BY <1>1, <1>2, <1>9, <2>3, <2>4, <2>5 DEF Authorise, Set, MovesOn
<1>10. CASE Read(r)
  <2>1. "READ" \in Stages
    BY Values
  <2>2. req'[r] = [req[r] EXCEPT !.pc = "READ", !.touched = TRUE]
    BY <1>1, <1>10 DEF Read, Set
  <2>3. req'[r] \in Records
    BY <1>1, <2>1, <2>2 DEF Records
  <2>4. req'[r].op = req[r].op /\ req'[r].token = req[r].token
    BY <1>1, <2>2 DEF Records
  <2>5. req[r].pc # "NEW"
    BY <1>10 DEF Read
  <2> QED
    BY <1>1, <1>2, <1>10, <2>3, <2>4, <2>5 DEF Read, Set, MovesOn
<1>11. CASE AskElsewhere(r)
  <2>1. /\ "RESPONDING" \in Stages /\ "OK" \in Statuses /\ "ERROR" \in Statuses
        /\ "NONE" \in Faults
    BY Values
  <2>2. \/ req'[r] = [req[r] EXCEPT !.pc = "RESPONDING", !.status = "OK", !.fault = "NONE"]
        \/ req'[r] = [req[r] EXCEPT !.pc = "RESPONDING", !.status = "ERROR", !.fault = "NONE"]
    BY <1>1, <1>11 DEF AskElsewhere, Leave, Set
  <2>3. req'[r] \in Records
    BY <1>1, <2>1, <2>2 DEF Records
  <2>4. req'[r].op = req[r].op /\ req'[r].token = req[r].token
    BY <1>1, <2>2 DEF Records
  <2>5. req[r].pc # "NEW"
    BY <1>11 DEF AskElsewhere, Leave
  <2> QED
    BY <1>1, <1>2, <1>11, <2>3, <2>4, <2>5 DEF AskElsewhere, Leave, Set, MovesOn
<1>12. CASE Refuse(r)
  <2>1. "RESPONDING" \in Stages /\ Refusals \subseteq Statuses /\ "NONE" \in Faults
    BY Values
  <2>2. PICK status \in Refusals :
          req'[r] = [req[r] EXCEPT !.pc = "RESPONDING", !.status = status, !.fault = "NONE"]
    BY <1>1, <1>2, <1>12, EndpointAssumption DEF Refuse, Leave, Set, EndpointOf
  <2>3. req'[r] \in Records
    BY <1>1, <2>1, <2>2 DEF Records
  <2>4. req'[r].op = req[r].op /\ req'[r].token = req[r].token
    BY <1>1, <2>2 DEF Records
  <2>5. req[r].pc # "NEW"
    BY <1>12 DEF Refuse, Leave
  <2> QED
    BY <1>1, <1>2, <1>12, <2>3, <2>4, <2>5 DEF Refuse, Leave, Set, MovesOn
<1>13. CASE FinishRead(r)
  <2>1. "RESPONDING" \in Stages /\ "OK" \in Statuses /\ "NONE" \in Faults
    BY Values
  <2>2. req'[r] = [req[r] EXCEPT !.pc = "RESPONDING", !.status = "OK", !.fault = "NONE"]
    BY <1>1, <1>13 DEF FinishRead, Leave, Set
  <2>3. req'[r] \in Records
    BY <1>1, <2>1, <2>2 DEF Records
  <2>4. req'[r].op = req[r].op /\ req'[r].token = req[r].token
    BY <1>1, <2>2 DEF Records
  <2>5. req[r].pc # "NEW"
    BY <1>13 DEF FinishRead, Leave
  <2> QED
    BY <1>1, <1>2, <1>13, <2>3, <2>4, <2>5 DEF FinishRead, Leave, Set, MovesOn
<1>14. CASE FailHandler(r)
  <2>1. "RESPONDING" \in Stages /\ "ERROR" \in Statuses /\ "DATABASE" \in Faults
    BY Values
  <2>2. req'[r] = [req[r] EXCEPT !.pc = "RESPONDING", !.status = "ERROR", !.fault = "DATABASE"]
    BY <1>1, <1>14 DEF FailHandler, Leave, Set
  <2>3. req'[r] \in Records
    BY <1>1, <2>1, <2>2 DEF Records
  <2>4. req'[r].op = req[r].op /\ req'[r].token = req[r].token
    BY <1>1, <2>2 DEF Records
  <2>5. req[r].pc # "NEW"
    BY <1>14 DEF FailHandler, Leave
  <2> QED
    BY <1>1, <1>2, <1>14, <2>3, <2>4, <2>5 DEF FailHandler, Leave, Set, MovesOn
<1>15. CASE Commit(r)
  <2>1. "COMMITTED" \in Stages
    BY Values
  <2>2. req'[r] = [req[r] EXCEPT !.pc = "COMMITTED"]
    BY <1>1, <1>15 DEF Commit, Set
  <2>3. req'[r] \in Records
    BY <1>1, <2>1, <2>2 DEF Records
  <2>4. req'[r].op = req[r].op /\ req'[r].token = req[r].token
    BY <1>1, <2>2 DEF Records
  <2>5. req[r].pc # "NEW"
    BY <1>15 DEF Commit
  <2> QED
    BY <1>1, <1>2, <1>15, <2>3, <2>4, <2>5 DEF Commit, Set, MovesOn
<1>16. CASE CommitUnacknowledged(r)
  <2>1. "RESPONDING" \in Stages /\ "ERROR" \in Statuses /\ "UNACKNOWLEDGED" \in Faults
    BY Values
  <2>2. req'[r] = [req[r] EXCEPT !.pc = "RESPONDING", !.status = "ERROR", !.fault = "UNACKNOWLEDGED"]
    BY <1>1, <1>16 DEF CommitUnacknowledged, Leave, Set
  <2>3. req'[r] \in Records
    BY <1>1, <2>1, <2>2 DEF Records
  <2>4. req'[r].op = req[r].op /\ req'[r].token = req[r].token
    BY <1>1, <2>2 DEF Records
  <2>5. req[r].pc # "NEW"
    BY <1>16 DEF CommitUnacknowledged, Leave
  <2> QED
    BY <1>1, <1>2, <1>16, <2>3, <2>4, <2>5 DEF CommitUnacknowledged, Leave, Set, MovesOn
<1>17. CASE FinishWrite(r)
  <2>1. "RESPONDING" \in Stages /\ "OK" \in Statuses /\ "NONE" \in Faults
    BY Values
  <2>2. req'[r] = [req[r] EXCEPT !.pc = "RESPONDING", !.status = "OK", !.fault = "NONE"]
    BY <1>1, <1>17 DEF FinishWrite, Leave, Set
  <2>3. req'[r] \in Records
    BY <1>1, <2>1, <2>2 DEF Records
  <2>4. req'[r].op = req[r].op /\ req'[r].token = req[r].token
    BY <1>1, <2>2 DEF Records
  <2>5. req[r].pc # "NEW"
    BY <1>17 DEF FinishWrite, Leave
  <2> QED
    BY <1>1, <1>2, <1>17, <2>3, <2>4, <2>5 DEF FinishWrite, Leave, Set, MovesOn
<1>18. CASE Reload(r)
  <2>1. /\ "RESPONDING" \in Stages /\ "OK" \in Statuses /\ "ERROR" \in Statuses
        /\ "NONE" \in Faults /\ "DATABASE" \in Faults
    BY Values
  <2>2. \/ req'[r] = [req[r] EXCEPT !.pc = "RESPONDING", !.status = "OK", !.fault = "NONE"]
        \/ req'[r] = [req[r] EXCEPT !.pc = "RESPONDING", !.status = "ERROR", !.fault = "DATABASE"]
        \/ req'[r] = [req[r] EXCEPT !.pc = "RESPONDING", !.status = "OK", !.fault = "DATABASE"]
    BY <1>1, <1>18 DEF Reload, AfterFailedReload, Leave, Set
  <2>3. req'[r] \in Records
    BY <1>1, <2>1, <2>2 DEF Records
  <2>4. req'[r].op = req[r].op /\ req'[r].token = req[r].token
    BY <1>1, <2>2 DEF Records
  <2>5. req[r].pc # "NEW"
    BY <1>18 DEF Reload, Leave
  <2> QED
    BY <1>1, <1>2, <1>18, <2>3, <2>4, <2>5 DEF Reload, Leave, Set, MovesOn
<1>19. CASE PoolTimeout(r)
  <2>1. /\ "RESPONDING" \in Stages /\ "FORBIDDEN" \in Statuses /\ "ERROR" \in Statuses
        /\ "OK" \in Statuses /\ "POOL" \in Faults
    BY Values
  <2>2. \/ req'[r] = [req[r] EXCEPT !.pc = "RESPONDING", !.fault = "POOL", !.status = "ERROR"]
        \/ req'[r] = [req[r] EXCEPT !.pc = "RESPONDING", !.fault = "POOL", !.status = "FORBIDDEN"]
        \/ req'[r] = [req[r] EXCEPT !.pc = "RESPONDING", !.status = "ERROR", !.fault = "POOL"]
        \/ req'[r] = [req[r] EXCEPT !.pc = "RESPONDING", !.status = "OK", !.fault = "POOL"]
    BY <1>1, <1>19 DEF PoolTimeout, NeedsConnection, AfterFailedReload, AuditFailed, Leave, Set
  <2>3. req'[r] \in Records
    BY <1>1, <2>1, <2>2 DEF Records
  <2>4. req'[r].op = req[r].op /\ req'[r].token = req[r].token
    BY <1>1, <2>2 DEF Records
  <2>5. req[r].pc # "NEW"
    BY <1>19 DEF PoolTimeout, NeedsConnection, AuditFailed, Leave, Handled
  <2> QED
    BY <1>1, <1>2, <1>19, <2>3, <2>4, <2>5 DEF PoolTimeout, NeedsConnection, AuditFailed, Leave,
      Set, MovesOn
<1>20. CASE Respond(r)
  <2>1. "CLOSING" \in Stages
    BY Values
  <2>2. req'[r] = [req[r] EXCEPT !.pc = "CLOSING"]
    BY <1>1, <1>20 DEF Respond, Set
  <2>3. req'[r] \in Records
    BY <1>1, <2>1, <2>2 DEF Records
  <2>4. req'[r].op = req[r].op /\ req'[r].token = req[r].token
    BY <1>1, <2>2 DEF Records
  <2>5. req[r].pc # "NEW"
    BY <1>20 DEF Respond
  <2> QED
    BY <1>1, <1>2, <1>20, <2>3, <2>4, <2>5 DEF Respond, Set, MovesOn
<1>21. CASE CloseSession(r)
  <2>1. "DONE" \in Stages
    BY Values
  <2>2. req'[r] = [req[r] EXCEPT !.pc = "DONE"]
    BY <1>1, <1>21 DEF CloseSession, Set
  <2>3. req'[r] \in Records
    BY <1>1, <2>1, <2>2 DEF Records
  <2>4. req'[r].op = req[r].op /\ req'[r].token = req[r].token
    BY <1>1, <2>2 DEF Records
  <2>5. req[r].pc # "NEW"
    BY <1>21 DEF CloseSession
  <2> QED
    BY <1>1, <1>2, <1>21, <2>3, <2>4, <2>5 DEF CloseSession, Set, MovesOn
<1> QED
  BY <1>3, <1>4, <1>5, <1>6, <1>7, <1>8, <1>9, <1>10, <1>11, <1>12, <1>13, <1>14, <1>15, <1>16,
      <1>17, <1>18, <1>19, <1>20, <1>21
     DEF Action, Advance, Fail

LEMMA RequestWritesItsOwn ==
  ASSUME NEW r \in Requests, Action(r) PROVE WritesItsOwn(r)
<1>1. CASE Arrive(r)
  BY <1>1 DEF Arrive, NewRequest, WritesItsOwn, database
<1>2. CASE Limit(r)
  BY <1>2 DEF Limit, WritesItsOwn, database
<1>3. CASE Verify(r)
  BY <1>3 DEF Verify, Valid, Scopes, WritesItsOwn, database
<1>4. CASE BeginAudit(r)
  BY <1>4 DEF BeginAudit, AuditFailed, WritesItsOwn, database
<1>5. CASE CommitAudit(r)
  BY <1>5 DEF CommitAudit, WritesItsOwn, database
<1>6. CASE FailAudit(r)
  BY <1>6 DEF FailAudit, AuditFailed, WritesItsOwn, database
<1>7. CASE Authorise(r)
  BY <1>7 DEF Authorise, WritesItsOwn, database
<1>8. CASE Read(r)
  BY <1>8 DEF Read, WritesItsOwn, database
<1>9. CASE AskElsewhere(r)
  BY <1>9 DEF AskElsewhere, Leave, WritesItsOwn, database
<1>10. CASE Refuse(r)
  BY <1>10 DEF Refuse, Leave, WritesItsOwn, database
<1>11. CASE FinishRead(r)
  BY <1>11 DEF FinishRead, Leave, WritesItsOwn, database
<1>12. CASE FailHandler(r)
  BY <1>12 DEF FailHandler, Leave, WritesItsOwn, database
<1>13. CASE Commit(r)
  BY <1>13 DEF Commit, WritesItsOwn, database
<1>14. CASE CommitUnacknowledged(r)
  BY <1>14 DEF CommitUnacknowledged, Leave, WritesItsOwn, database
<1>15. CASE FinishWrite(r)
  BY <1>15 DEF FinishWrite, Leave, WritesItsOwn, database
<1>16. CASE Reload(r)
  BY <1>16 DEF Reload, Leave, WritesItsOwn, database
<1>17. CASE PoolTimeout(r)
  BY <1>17 DEF PoolTimeout, NeedsConnection, AuditFailed, Leave, WritesItsOwn, database
<1>18. CASE Respond(r)
  BY <1>18 DEF Respond, WritesItsOwn, database
<1>19. CASE CloseSession(r)
  BY <1>19 DEF CloseSession, WritesItsOwn, database
<1> QED
  BY <1>1, <1>2, <1>3, <1>4, <1>5, <1>6, <1>7, <1>8, <1>9, <1>10, <1>11, <1>12, <1>13, <1>14,
      <1>15, <1>16, <1>17, <1>18, <1>19
     DEF Action, Advance, Fail

LEMMA RequestTakesConnection ==
  ASSUME TypeOK, NEW r \in Requests, Action(r) PROVE TakesConnection(r)
<1>1. req \in [Requests -> Records] /\ (r \in conns => req[r].pc \in Holding)
  BY DEF TypeOK, Records, Stages, Operations, Held, Users, Holding
<1>2. CASE Arrive(r)
  BY <1>1, <1>2 DEF Arrive, NewRequest, Set, Records, TakesConnection, Holding
<1>3. CASE Limit(r)
  BY <1>1, <1>3 DEF Limit, Set, Records, TakesConnection, Holding
<1>4. CASE Verify(r)
  BY <1>1, <1>4 DEF Verify, Valid, Scopes, Set, Records, TakesConnection, Holding
<1>5. CASE BeginAudit(r)
  BY <1>1, <1>5 DEF BeginAudit, AuditFailed, Set, Records, TakesConnection, Holding
<1>6. CASE CommitAudit(r)
  BY <1>1, <1>6 DEF CommitAudit, Set, Records, TakesConnection, Holding
<1>7. CASE FailAudit(r)
  BY <1>1, <1>7 DEF FailAudit, AuditFailed, Set, Records, TakesConnection, Holding
<1>8. CASE Authorise(r)
  BY <1>1, <1>8 DEF Authorise, Set, Records, TakesConnection, Holding
<1>9. CASE Read(r)
  BY <1>1, <1>9 DEF Read, Set, Records, TakesConnection, Holding
<1>10. CASE AskElsewhere(r)
  BY <1>1, <1>10 DEF AskElsewhere, Leave, Set, Records, TakesConnection, Holding
<1>11. CASE Refuse(r)
  BY <1>1, <1>11 DEF Refuse, Leave, Set, Records, TakesConnection, Holding
<1>12. CASE FinishRead(r)
  BY <1>1, <1>12 DEF FinishRead, Leave, Set, Records, TakesConnection, Holding
<1>13. CASE FailHandler(r)
  BY <1>1, <1>13 DEF FailHandler, Leave, Set, Records, TakesConnection, Holding
<1>14. CASE Commit(r)
  BY <1>1, <1>14 DEF Commit, Set, Records, TakesConnection, Holding
<1>15. CASE CommitUnacknowledged(r)
  BY <1>1, <1>15 DEF CommitUnacknowledged, Leave, Set, Records, TakesConnection, Holding
<1>16. CASE FinishWrite(r)
  BY <1>1, <1>16 DEF FinishWrite, Leave, Set, Records, TakesConnection, Holding
<1>17. CASE Reload(r)
  <2>1. \/ req'[r] = [req[r] EXCEPT !.pc = "RESPONDING", !.status = "OK", !.fault = "NONE"]
        \/ req'[r] = [req[r] EXCEPT !.pc = "RESPONDING", !.status = "ERROR", !.fault = "DATABASE"]
        \/ req'[r] = [req[r] EXCEPT !.pc = "RESPONDING", !.status = "OK", !.fault = "DATABASE"]
    BY <1>1, <1>17 DEF Reload, AfterFailedReload, Leave, Set
  <2>2. req'[r].pc = "RESPONDING"
    BY <1>1, <2>1 DEF Records
  <2> QED
    BY <1>17, <2>2 DEF Reload, TakesConnection, Holding
<1>18. CASE PoolTimeout(r)
  BY <1>1, <1>18 DEF PoolTimeout, NeedsConnection, AuditFailed, Leave, Set, Records,
      TakesConnection, Holding
<1>19. CASE Respond(r)
  BY <1>1, <1>19 DEF Respond, Set, Records, TakesConnection, Holding
<1>20. CASE CloseSession(r)
  BY <1>1, <1>20 DEF CloseSession, Set, Records, TakesConnection, Holding
<1> QED
  BY <1>2, <1>3, <1>4, <1>5, <1>6, <1>7, <1>8, <1>9, <1>10, <1>11, <1>12, <1>13, <1>14, <1>15,
      <1>16, <1>17, <1>18, <1>19, <1>20
     DEF Action, Advance, Fail

LEMMA RequestTakesLoop ==
  ASSUME TypeOK, NEW r \in Requests, Action(r) PROVE TakesLoop(r)
<1>1. req \in [Requests -> Records] /\ (loop = r /\ r # Nobody => req[r].pc \in Handled)
  BY DEF TypeOK, Records, Stages, Operations, Held, Users
<1>2. CASE Arrive(r)
  BY <1>1, <1>2 DEF Arrive, NewRequest, Set, Records, TakesLoop, Handled, EndpointOf, LoopFree
<1>3. CASE Limit(r)
  BY <1>1, <1>3 DEF Limit, Set, Records, TakesLoop, Handled, EndpointOf, LoopFree
<1>4. CASE Verify(r)
  BY <1>1, <1>4 DEF Verify, Valid, Scopes, Set, Records, TakesLoop, Handled, EndpointOf,
      LoopFree
<1>5. CASE BeginAudit(r)
  BY <1>1, <1>5 DEF BeginAudit, AuditFailed, Set, Records, TakesLoop, Handled, EndpointOf,
      LoopFree
<1>6. CASE CommitAudit(r)
  BY <1>1, <1>6 DEF CommitAudit, Set, Records, TakesLoop, Handled, EndpointOf, LoopFree
<1>7. CASE FailAudit(r)
  BY <1>1, <1>7 DEF FailAudit, AuditFailed, Set, Records, TakesLoop, Handled, EndpointOf,
      LoopFree
<1>8. CASE Authorise(r)
  BY <1>1, <1>8 DEF Authorise, Set, Records, TakesLoop, Handled, EndpointOf, LoopFree
<1>9. CASE Read(r)
  BY <1>1, <1>9 DEF Read, Set, Records, TakesLoop, Handled, EndpointOf, LoopFree
<1>10. CASE AskElsewhere(r)
  BY <1>1, <1>10 DEF AskElsewhere, Leave, Set, Records, TakesLoop, Handled, EndpointOf, LoopFree
<1>11. CASE Refuse(r)
  BY <1>1, <1>11 DEF Refuse, Leave, Set, Records, TakesLoop, Handled, EndpointOf, LoopFree
<1>12. CASE FinishRead(r)
  BY <1>1, <1>12 DEF FinishRead, Leave, Set, Records, TakesLoop, Handled, EndpointOf, LoopFree
<1>13. CASE FailHandler(r)
  BY <1>1, <1>13 DEF FailHandler, Leave, Set, Records, TakesLoop, Handled, EndpointOf, LoopFree
<1>14. CASE Commit(r)
  BY <1>1, <1>14 DEF Commit, Set, Records, TakesLoop, Handled, EndpointOf, LoopFree
<1>15. CASE CommitUnacknowledged(r)
  BY <1>1, <1>15 DEF CommitUnacknowledged, Leave, Set, Records, TakesLoop, Handled, EndpointOf,
      LoopFree
<1>16. CASE FinishWrite(r)
  BY <1>1, <1>16 DEF FinishWrite, Leave, Set, Records, TakesLoop, Handled, EndpointOf, LoopFree
<1>17. CASE Reload(r)
  BY <1>1, <1>17 DEF Reload, Leave, Set, Records, TakesLoop, Handled, EndpointOf, LoopFree
<1>18. CASE PoolTimeout(r)
  BY <1>1, <1>18 DEF PoolTimeout, NeedsConnection, AuditFailed, Leave, Set, Records, TakesLoop,
      Handled, EndpointOf, LoopFree
<1>19. CASE Respond(r)
  BY <1>1, <1>19 DEF Respond, Set, Records, TakesLoop, Handled, EndpointOf, LoopFree
<1>20. CASE CloseSession(r)
  BY <1>1, <1>20 DEF CloseSession, Set, Records, TakesLoop, Handled, EndpointOf, LoopFree
<1> QED
  BY <1>2, <1>3, <1>4, <1>5, <1>6, <1>7, <1>8, <1>9, <1>10, <1>11, <1>12, <1>13, <1>14, <1>15,
      <1>16, <1>17, <1>18, <1>19, <1>20
     DEF Action, Advance, Fail

LEMMA ActionKeepsTypes ==
  ASSUME TypeOK, IsFiniteSet(conns), NEW r \in Requests, Action(r)
  PROVE  TypeOK' /\ IsFiniteSet(conns)'
<1>1. MovesOn(r) /\ WritesItsOwn(r) /\ TakesConnection(r) /\ TakesLoop(r)
  BY RequestMovesOn, RequestWritesItsOwn, RequestTakesConnection, RequestTakesLoop
<1>2. req \in [Requests -> Records]
  BY DEF TypeOK, Records, Stages, Operations, Held, Users
<1>3. req' \in [Requests -> Records]
  BY <1>1, <1>2 DEF MovesOn
<1>4. \A q \in Requests :
        req'[q].pc # "NEW" => req'[q].op \in DOMAIN Endpoint /\ req'[q].token \in Tokens
  BY <1>1 DEF MovesOn, TypeOK
<1>5. expired' \subseteq Tokens
  BY <1>1 DEF MovesOn, TypeOK
<1>6. \A x \in audits' \cup events' : x.req \in Requests
  BY <1>1 DEF WritesItsOwn, TypeOK, AuditRow, Row
<1>7. conns' \subseteq {q \in Requests : req'[q].pc \in Holding}
  BY <1>1 DEF MovesOn, TakesConnection, TypeOK, Holding
<1>8. IsFiniteSet(conns') /\ Cardinality(conns') <= PoolSize
  <2>1. Cardinality(conns) \in Nat /\ Cardinality(conns) <= PoolSize /\ PoolSize \in Nat
    BY FS_CardinalityType, CapacityAssumption DEF TypeOK
  <2>2. CASE conns' = conns
    BY <2>1, <2>2
  <2>3. CASE conns' = conns \ {r}
    <3>1. IsFiniteSet(conns')
      BY <2>3, FS_RemoveElement
    <3>2. Cardinality(conns') = IF r \in conns THEN Cardinality(conns) - 1 ELSE Cardinality(conns)
      BY <2>3, FS_RemoveElement
    <3> QED
      BY <2>1, <3>1, <3>2
  <2>4. CASE conns' = conns \cup {r} /\ ConnectionFree
    <3>1. IsFiniteSet(conns')
      BY <2>4, FS_AddElement
    <3>2. Cardinality(conns') = IF r \in conns THEN Cardinality(conns) ELSE Cardinality(conns) + 1
      BY <2>4, FS_AddElement
    <3> QED
      BY <2>1, <2>4, <3>1, <3>2 DEF ConnectionFree
  <2> QED
    BY <1>1, <2>2, <2>3, <2>4 DEF TakesConnection
<1>9. loop' # Nobody =>
        loop' \in Requests /\ req'[loop'].pc \in Handled /\ Endpoint[req'[loop'].op].runs = "LOOP"
  BY <1>1 DEF MovesOn, TakesLoop, TypeOK, EndpointOf
<1> QED
  BY <1>3, <1>4, <1>5, <1>6, <1>7, <1>8, <1>9
     DEF TypeOK, Records, Stages, Operations, Held, Users, Holding, EndpointOf

(***************************************************************************)
(* What a request has shown, and what is stored of it                      *)
(***************************************************************************)
After == {"RESPONDING", "CLOSING", "DONE"}

IsAudited(q) == [req |-> q, user |-> req[q].token.user] \in audits

(* DataNeedsAuthority, of one request *)
Authorised(q) ==
  /\ \E role \in req[q].token.roles, p \in EndpointOf(q).needs : p \in RolePermissions[role]
  /\ ScopeAccepted(req[q].token.scopes)
  /\ EndpointOf(q).provider => "User.Provider" \in req[q].token.scopes
  /\ EndpointOf(q).audited => IsAudited(q)

(* What has been checked where the request is, and what its audit has.     *)
Authority(q) ==
  /\ req[q].pc \in {"NEW", "ARRIVED"} => req[q].user = Nobody
  /\ req[q].pc \in ToBeAnswered \ {"ARRIVED"} =>
       req[q].user = req[q].token.user /\ ScopeAccepted(req[q].token.scopes)
  /\ req[q].pc = "AUDITING" => EndpointOf(q).audited
  /\ req[q].pc = "AUDITED" => EndpointOf(q).audited /\ IsAudited(q)
  /\ req[q].pc \in Handled \/ req[q].touched => Authorised(q)
  /\ req[q].pc \in After /\ req[q].user # Nobody /\ EndpointOf(q).audited =>
       \/ IsAudited(q)
       \/ /\ req[q].fault \in {"TOKEN", "POOL", "DATABASE"}
          /\ req[q].status \in {"FORBIDDEN", "ERROR"}
  /\ \A x \in audits : x.req = q =>
       req[q].pc # "NEW" /\ x.user = req[q].token.user /\ EndpointOf(q).audited

HasRows(q) == \E x \in events : x.req = q
Writes(q) == EndpointOf(q).effect \in {"ROWS", "EVENT"}

(* AnswersTellWhatIsStored, of one request *)
Told(q) ==
  /\ req[q].status = "OK" /\ Writes(q) => HasRows(q)
  /\ HasRows(q) =>
       \/ req[q].status = "OK"
       \/ req[q].fault = "UNACKNOWLEDGED"
       \/ EndpointOf(q).reloads = "ANSWER" /\ req[q].fault \in {"DATABASE", "POOL"}

(* Where the request is when it has rows. *)
Stored(q) ==
  /\ req[q].pc \notin {"COMMITTED"} \cup After => ~HasRows(q)
  /\ req[q].pc = "COMMITTED" => Writes(q) /\ HasRows(q)
  /\ req[q].pc \in After /\ req[q].touched => Told(q)
  /\ \A x \in events : x.req = q =>
       req[q].pc # "NEW" /\ (EndpointOf(q).effect = "EVENT" => x.actor = req[q].token.user)

SameCall(r) == req'[r].op = req[r].op /\ req'[r].token = req[r].token

(* Of the other requests nothing changes. *)
LEMMA OthersKeepAuthority ==
  ASSUME TypeOK, NEW r \in Requests, MovesOn(r), WritesItsOwn(r),
         NEW q \in Requests, q # r, Authority(q), Stored(q)
  PROVE  Authority(q)' /\ Stored(q)'
<1>1. req'[q] = req[q]
  BY DEF MovesOn
<1>2. \A x : x.req = q => (x \in audits' <=> x \in audits) /\ (x \in events' <=> x \in events)
  BY DEF WritesItsOwn, AuditRow, Row
<1>3. IsAudited(q)' <=> IsAudited(q)
  BY <1>1, <1>2 DEF IsAudited
<1>4. HasRows(q)' <=> HasRows(q)
  BY <1>2 DEF HasRows
<1>5. /\ EndpointOf(q)' = EndpointOf(q)
      /\ Writes(q)' <=> Writes(q)
  BY <1>1 DEF EndpointOf, Writes
<1>6. Authority(q)'
  BY <1>1, <1>2, <1>3, <1>5 DEF Authority, Authorised
<1>7. Stored(q)'
  BY <1>1, <1>2, <1>4, <1>5 DEF Stored, Told
<1> QED
  BY <1>6, <1>7

LEMMA ActionKeepsAuthority ==
  ASSUME TypeOK, NEW r \in Requests, Authority(r), Stored(r), Action(r)
  PROVE  Authority(r)' /\ Stored(r)'
<1>1. req \in [Requests -> Records] /\ req[r] \in Records
  BY DEF TypeOK, Records, Stages, Operations, Held, Users
<1>2. CASE Arrive(r)
  <2>1. PICK op \in OperationsOf[r], t \in Tokens :
          req'[r] = [NewRequest EXCEPT !.pc = "ARRIVED", !.op = op, !.token = t]
    BY <1>1, <1>2 DEF Arrive, Set
  <2>2. req'[r].pc = "ARRIVED" /\ req'[r].user = Nobody /\ ~req'[r].touched
    BY <2>1 DEF NewRequest
  <2>3. req[r].pc = "NEW" /\ audits' = audits /\ events' = events
    BY <1>2 DEF Arrive, database
  <2>4. Authority(r)'
    BY <2>2, <2>3 DEF Authority, After, Handled, ToBeAnswered
  <2>5. Stored(r)'
    BY <2>2, <2>3 DEF Stored, After, HasRows
  <2> QED
    BY <2>4, <2>5
<1>3. CASE Limit(r)
  <2>1. req'[r] = [req[r] EXCEPT !.pc = "DONE", !.status = "TOO_MANY_REQUESTS"]
    BY <1>1, <1>3 DEF Limit, Set
  <2>2. SameCall(r)
    BY <1>1, <2>1 DEF Records, SameCall
  <2>3. req'[r].pc = "DONE" /\ req'[r].status = "TOO_MANY_REQUESTS"
    BY <1>1, <2>1 DEF Records
  <2>4. req'[r].user = req[r].user /\ req'[r].touched = req[r].touched
    BY <1>1, <2>1 DEF Records
  <2>5. Authority(r)'
    BY <1>3, <2>2, <2>3, <2>4 DEF Limit, Authority, Authorised, IsAudited, EndpointOf, SameCall,
      After, Handled, ToBeAnswered, database
  <2>6. Stored(r)'
    BY <1>3, <2>2, <2>3, <2>4 DEF Limit, Stored, Told, HasRows, Writes, EndpointOf, SameCall,
      After, Handled, database
  <2> QED
    BY <2>5, <2>6
<1>4. CASE Verify(r)
  <2>1. /\ req[r].pc = "ARRIVED" /\ UNCHANGED <<audits, events>>
        /\ \/ req'[r] = [req[r] EXCEPT !.pc = "DONE", !.status = "UNAUTHORIZED"]
           \/ req'[r] = [req[r] EXCEPT !.pc = "DONE", !.status = "FORBIDDEN"]
           \/ /\ req'[r] = [req[r] EXCEPT !.pc = "VERIFIED", !.user = req[r].token.user]
              /\ ScopeAccepted(req[r].token.scopes)
    BY <1>1, <1>4 DEF Verify, Scopes, Set, database
  <2>2. SameCall(r)
    BY <1>1, <2>1 DEF Records, SameCall
  <2>3. \/ /\ req'[r].pc = "DONE" /\ req'[r].user = req[r].user
           /\ req'[r].status \in {"UNAUTHORIZED", "FORBIDDEN"}
        \/ /\ req'[r].pc = "VERIFIED" /\ req'[r].user = req[r].token.user
           /\ ScopeAccepted(req[r].token.scopes)
    BY <1>1, <2>1 DEF Records
  <2>4. req'[r].touched = req[r].touched
    BY <1>1, <2>1 DEF Records
  <2>5. Authority(r)'
    BY <2>1, <2>2, <2>3, <2>4 DEF Authority, Authorised, IsAudited, EndpointOf, SameCall, After,
      Handled, ToBeAnswered
  <2>6. Stored(r)'
    BY <2>1, <2>2, <2>3, <2>4 DEF Stored, Told, HasRows, Writes, EndpointOf, SameCall, After
  <2> QED
    BY <2>5, <2>6
<1>5. CASE BeginAudit(r)
  <2>1. \/ req'[r] = [req[r] EXCEPT !.pc = "AUDITING"]
        \/ req'[r] = [req[r] EXCEPT !.pc = "RESPONDING", !.fault = "TOKEN", !.status = "ERROR"]
        \/ req'[r] = [req[r] EXCEPT !.pc = "RESPONDING", !.fault = "TOKEN", !.status = "FORBIDDEN"]
    BY <1>1, <1>5 DEF BeginAudit, AuditFailed, Set
  <2>2. SameCall(r)
    BY <1>1, <2>1 DEF Records, SameCall
  <2>3. \/ req'[r].pc = "AUDITING"
        \/ /\ req'[r].pc = "RESPONDING" /\ req'[r].fault = "TOKEN"
           /\ req'[r].status \in {"FORBIDDEN", "ERROR"}
    BY <1>1, <2>1 DEF Records
  <2>4. req'[r].user = req[r].user /\ req'[r].touched = req[r].touched
    BY <1>1, <2>1 DEF Records
  <2>5. Authority(r)'
    BY <1>5, <2>2, <2>3, <2>4 DEF BeginAudit, AuditsAttempt, Authority, Authorised, IsAudited,
      EndpointOf, SameCall, After, Handled, ToBeAnswered, database
  <2>6. Stored(r)'
    BY <1>5, <2>2, <2>3, <2>4 DEF BeginAudit, Stored, Told, HasRows, Writes, EndpointOf,
      SameCall, After, Handled, database
  <2> QED
    BY <2>5, <2>6
<1>6. CASE CommitAudit(r)
  <2>1. req'[r] = [req[r] EXCEPT !.pc = "AUDITED"]
    BY <1>1, <1>6 DEF CommitAudit, Set
  <2>2. SameCall(r)
    BY <1>1, <2>1 DEF Records, SameCall
  <2>3. req'[r].pc = "AUDITED"
    BY <1>1, <2>1 DEF Records
  <2>4. req'[r].user = req[r].user /\ req'[r].touched = req[r].touched
    BY <1>1, <2>1 DEF Records
  <2>5. Authority(r)'
    BY <1>6, <2>2, <2>3, <2>4 DEF CommitAudit, AuditRow, Authority, Authorised, IsAudited,
      EndpointOf, SameCall, After, Handled, ToBeAnswered, database
  <2>6. Stored(r)'
    BY <1>6, <2>2, <2>3, <2>4 DEF CommitAudit, Stored, Told, HasRows, Writes, EndpointOf,
      SameCall, After, Handled, database
  <2> QED
    BY <2>5, <2>6
<1>7. CASE FailAudit(r)
  <2>1. /\ req[r].pc = "AUDITING" /\ UNCHANGED events
        /\ \E fault \in {"DATABASE", "UNACKNOWLEDGED"}, status \in {"ERROR", "FORBIDDEN"} :
             /\ req'[r] = [req[r] EXCEPT !.pc = "RESPONDING", !.fault = fault, !.status = status]
             /\ audits' = IF fault = "DATABASE" THEN audits ELSE audits \cup {AuditRow(r)}
    BY <1>1, <1>7 DEF FailAudit, AuditFailed, Set
  <2>2. SameCall(r)
    BY <1>1, <2>1 DEF Records, SameCall
  <2>3. /\ req'[r].pc = "RESPONDING" /\ req'[r].status \in {"FORBIDDEN", "ERROR"}
        /\ \/ req'[r].fault = "DATABASE" /\ audits' = audits
           \/ audits' = audits \cup {AuditRow(r)}
    BY <1>1, <2>1 DEF Records
  <2>4. req'[r].user = req[r].user /\ req'[r].touched = req[r].touched
    BY <1>1, <2>1 DEF Records
  <2>5. AuditRow(r) = [req |-> r, user |-> req[r].token.user] /\ EndpointOf(r).audited
    BY <2>1 DEF AuditRow, Authority, ToBeAnswered
  <2>6. Authority(r)'
    BY <2>1, <2>2, <2>3, <2>4, <2>5 DEF Authority, Authorised, IsAudited, EndpointOf, SameCall,
      After, Handled, ToBeAnswered
  <2>7. Stored(r)'
    BY <2>1, <2>2, <2>3, <2>4 DEF Stored, Told, HasRows, Writes, EndpointOf, SameCall, After
  <2> QED
    BY <2>6, <2>7
<1>8. CASE Authorise(r)
  <2>1. \/ /\ req'[r] = [req[r] EXCEPT !.pc = "HANDLING"] /\ Permitted(r)
           /\ EndpointOf(r).provider => "User.Provider" \in req[r].token.scopes
        \/ req'[r] = [req[r] EXCEPT !.pc = "RESPONDING", !.status = "UNAUTHORIZED"]
        \/ req'[r] = [req[r] EXCEPT !.pc = "RESPONDING", !.status = "FORBIDDEN"]
    BY <1>1, <1>8 DEF Authorise, Scopes, Set
  <2>2. SameCall(r)
    BY <1>1, <2>1 DEF Records, SameCall
  <2>3. \/ /\ req'[r].pc = "HANDLING" /\ Permitted(r)
           /\ EndpointOf(r).provider => "User.Provider" \in req[r].token.scopes
        \/ req'[r].pc = "RESPONDING" /\ req'[r].status \in {"FORBIDDEN", "UNAUTHORIZED"}
    BY <1>1, <2>1 DEF Records
  <2>4. req'[r].user = req[r].user /\ req'[r].touched = req[r].touched
    BY <1>1, <2>1 DEF Records
  <2>5. Permitted(r) => \E role \in req[r].token.roles, p \in EndpointOf(r).needs :
                          p \in RolePermissions[role]
    BY DEF Permitted, PermissionsOf
  <2>6. /\ req[r].pc \in {"VERIFIED", "AUDITED"} /\ UNCHANGED <<audits, events>>
        /\ EndpointOf(r).audited => req[r].pc = "AUDITED"
    BY <1>8 DEF Authorise, AuditsAttempt, database
  <2>7. Authority(r)'
    BY <2>2, <2>3, <2>4, <2>5, <2>6 DEF Authority, Authorised, IsAudited, EndpointOf, SameCall,
      After, Handled, ToBeAnswered
  <2>8. Stored(r)'
    BY <2>2, <2>3, <2>4, <2>6 DEF Stored, Told, HasRows, Writes, EndpointOf, SameCall, After
  <2> QED
    BY <2>7, <2>8
<1>9. CASE Read(r)
  <2>1. req'[r] = [req[r] EXCEPT !.pc = "READ", !.touched = TRUE]
    BY <1>1, <1>9 DEF Read, Set
  <2>2. SameCall(r)
    BY <1>1, <2>1 DEF Records, SameCall
  <2>3. req'[r].pc = "READ"
    BY <1>1, <2>1 DEF Records
  <2>4. req'[r].user = req[r].user /\ req'[r].touched
    BY <1>1, <2>1 DEF Records
  <2>5. Authority(r)'
    BY <1>9, <2>2, <2>3, <2>4 DEF Read, Authority, Authorised, IsAudited, EndpointOf, SameCall,
      After, Handled, ToBeAnswered, database
  <2>6. Stored(r)'
    BY <1>9, <2>2, <2>3, <2>4 DEF Read, Stored, Told, HasRows, Writes, EndpointOf, SameCall,
      After, Handled, database
  <2> QED
    BY <2>5, <2>6
<1>10. CASE AskElsewhere(r)
  <2>1. \/ req'[r] = [req[r] EXCEPT !.pc = "RESPONDING", !.status = "OK", !.fault = "NONE"]
        \/ req'[r] = [req[r] EXCEPT !.pc = "RESPONDING", !.status = "ERROR", !.fault = "NONE"]
    BY <1>1, <1>10 DEF AskElsewhere, Leave, Set
  <2>2. SameCall(r)
    BY <1>1, <2>1 DEF Records, SameCall
  <2>3. req'[r].pc = "RESPONDING"
    BY <1>1, <2>1 DEF Records
  <2>4. req'[r].user = req[r].user /\ req'[r].touched = req[r].touched
    BY <1>1, <2>1 DEF Records
  <2>5. Authority(r)'
    BY <1>10, <2>2, <2>3, <2>4 DEF AskElsewhere, Authority, Authorised, IsAudited, EndpointOf,
      SameCall, After, Handled, ToBeAnswered, database
  <2>6. Stored(r)'
    BY <1>10, <2>2, <2>3, <2>4 DEF AskElsewhere, Stored, Told, HasRows, Writes, EndpointOf,
      SameCall, After, Handled, database
  <2> QED
    BY <2>5, <2>6
<1>11. CASE Refuse(r)
  <2>1. PICK status \in Refusals :
          req'[r] = [req[r] EXCEPT !.pc = "RESPONDING", !.status = status, !.fault = "NONE"]
    <3>1. req[r].op \in DOMAIN Endpoint
      BY <1>11 DEF Refuse, TypeOK
    <3>2. EndpointOf(r).refusals \subseteq Refusals
      BY <3>1, EndpointAssumption DEF EndpointOf
    <3> QED
      BY <1>1, <1>11, <3>2 DEF Refuse, Leave, Set
  <2>2. SameCall(r)
    BY <1>1, <2>1 DEF Records, SameCall
  <2>3. req'[r].pc = "RESPONDING" /\ req'[r].status # "OK"
    BY <1>1, <2>1 DEF Records, Refusals
  <2>4. req'[r].user = req[r].user /\ req'[r].touched = req[r].touched
    BY <1>1, <2>1 DEF Records
  <2>5. Authority(r)'
    BY <1>11, <2>2, <2>3, <2>4 DEF Refuse, Authority, Authorised, IsAudited, EndpointOf,
      SameCall, After, Handled, ToBeAnswered, database
  <2>6. Stored(r)'
    BY <1>11, <2>2, <2>3, <2>4 DEF Refuse, Stored, Told, HasRows, Writes, EndpointOf, SameCall,
      After, Handled, database
  <2> QED
    BY <2>5, <2>6
<1>12. CASE FinishRead(r)
  <2>1. req'[r] = [req[r] EXCEPT !.pc = "RESPONDING", !.status = "OK", !.fault = "NONE"]
    BY <1>1, <1>12 DEF FinishRead, Leave, Set
  <2>2. SameCall(r)
    BY <1>1, <2>1 DEF Records, SameCall
  <2>3. req'[r].pc = "RESPONDING"
    BY <1>1, <2>1 DEF Records
  <2>4. req'[r].user = req[r].user /\ req'[r].touched = req[r].touched
    BY <1>1, <2>1 DEF Records
  <2>5. Authority(r)'
    BY <1>12, <2>2, <2>3, <2>4 DEF FinishRead, Authority, Authorised, IsAudited, EndpointOf,
      SameCall, After, Handled, ToBeAnswered, database
  <2>6. Stored(r)'
    BY <1>12, <2>2, <2>3, <2>4 DEF FinishRead, Stored, Told, HasRows, Writes, EndpointOf,
      SameCall, After, Handled, database
  <2> QED
    BY <2>5, <2>6
<1>13. CASE FailHandler(r)
  <2>1. req'[r] = [req[r] EXCEPT !.pc = "RESPONDING", !.status = "ERROR", !.fault = "DATABASE"]
    BY <1>1, <1>13 DEF FailHandler, Leave, Set
  <2>2. SameCall(r)
    BY <1>1, <2>1 DEF Records, SameCall
  <2>3. req'[r].pc = "RESPONDING" /\ req'[r].status = "ERROR"
    BY <1>1, <2>1 DEF Records
  <2>4. req'[r].user = req[r].user /\ req'[r].touched = req[r].touched
    BY <1>1, <2>1 DEF Records
  <2>5. Authority(r)'
    BY <1>13, <2>2, <2>3, <2>4 DEF FailHandler, Authority, Authorised, IsAudited, EndpointOf,
      SameCall, After, Handled, ToBeAnswered, database
  <2>6. Stored(r)'
    BY <1>13, <2>2, <2>3, <2>4 DEF FailHandler, Stored, Told, HasRows, Writes, EndpointOf,
      SameCall, After, Handled, database
  <2> QED
    BY <2>5, <2>6
<1>14. CASE Commit(r)
  <2>1. req'[r] = [req[r] EXCEPT !.pc = "COMMITTED"]
    BY <1>1, <1>14 DEF Commit, Set
  <2>2. SameCall(r)
    BY <1>1, <2>1 DEF Records, SameCall
  <2>3. req'[r].pc = "COMMITTED"
    BY <1>1, <2>1 DEF Records
  <2>4. req'[r].user = req[r].user /\ req'[r].touched = req[r].touched
    BY <1>1, <2>1 DEF Records
  <2>5. Authority(r)'
    BY <1>14, <2>2, <2>3, <2>4 DEF Commit, Authority, Authorised, IsAudited, EndpointOf,
      SameCall, After, Handled, ToBeAnswered, database
  <2>6. events' = events \cup {Row(r)} /\ req[r].pc = "READ" /\ Writes(r)
    BY <1>14 DEF Commit, Writes
  <2>7. /\ Row(r).req = r
        /\ EndpointOf(r).effect = "EVENT" => Row(r).actor = req[r].token.user
    BY <2>6 DEF Row, Authority, ToBeAnswered
  <2>8. Stored(r)'
    BY <2>2, <2>3, <2>4, <2>6, <2>7
       DEF Stored, Told, HasRows, Writes, EndpointOf, SameCall, After
  <2> QED
    BY <2>5, <2>8
<1>15. CASE CommitUnacknowledged(r)
  <2>1. req'[r] = [req[r] EXCEPT !.pc = "RESPONDING", !.status = "ERROR", !.fault = "UNACKNOWLEDGED"]
    BY <1>1, <1>15 DEF CommitUnacknowledged, Leave, Set
  <2>2. SameCall(r)
    BY <1>1, <2>1 DEF Records, SameCall
  <2>3. /\ req'[r].pc = "RESPONDING" /\ req'[r].status = "ERROR"
        /\ req'[r].fault = "UNACKNOWLEDGED"
    BY <1>1, <2>1 DEF Records
  <2>4. req'[r].user = req[r].user /\ req'[r].touched = req[r].touched
    BY <1>1, <2>1 DEF Records
  <2>5. Authority(r)'
    BY <1>15, <2>2, <2>3, <2>4 DEF CommitUnacknowledged, Authority, Authorised, IsAudited,
      EndpointOf, SameCall, After, Handled, ToBeAnswered, database
  <2>6. Stored(r)'
    BY <1>15, <2>2, <2>3, <2>4 DEF CommitUnacknowledged, Row, Authority, ToBeAnswered, Stored,
      Told, HasRows, Writes, EndpointOf, SameCall, After, Handled, database
  <2> QED
    BY <2>5, <2>6
<1>16. CASE FinishWrite(r)
  <2>1. req'[r] = [req[r] EXCEPT !.pc = "RESPONDING", !.status = "OK", !.fault = "NONE"]
    BY <1>1, <1>16 DEF FinishWrite, Leave, Set
  <2>2. SameCall(r)
    BY <1>1, <2>1 DEF Records, SameCall
  <2>3. req'[r].pc = "RESPONDING" /\ req'[r].status = "OK"
    BY <1>1, <2>1 DEF Records
  <2>4. req'[r].user = req[r].user /\ req'[r].touched = req[r].touched
    BY <1>1, <2>1 DEF Records
  <2>5. Authority(r)'
    BY <1>16, <2>2, <2>3, <2>4 DEF FinishWrite, Authority, Authorised, IsAudited, EndpointOf,
      SameCall, After, Handled, ToBeAnswered, database
  <2>6. Stored(r)'
    BY <1>16, <2>2, <2>3, <2>4 DEF FinishWrite, Stored, Told, HasRows, Writes, EndpointOf,
      SameCall, After, Handled, database
  <2> QED
    BY <2>5, <2>6
<1>17. CASE Reload(r)
  <2>1. \/ req'[r] = [req[r] EXCEPT !.pc = "RESPONDING", !.status = "OK", !.fault = "NONE"]
        \/ req'[r] = [req[r] EXCEPT !.pc = "RESPONDING", !.status = "ERROR", !.fault = "DATABASE"]
        \/ req'[r] = [req[r] EXCEPT !.pc = "RESPONDING", !.status = "OK", !.fault = "DATABASE"]
    BY <1>1, <1>17 DEF Reload, AfterFailedReload, Leave, Set
  <2>2. SameCall(r)
    BY <1>1, <2>1 DEF Records, SameCall
  <2>3. \/ req'[r].pc = "RESPONDING" /\ req'[r].status = "OK"
        \/ /\ req'[r].pc = "RESPONDING" /\ req'[r].status = "ERROR"
           /\ req'[r].fault = "DATABASE"
    BY <1>1, <2>1 DEF Records
  <2>4. req'[r].status = "OK" \/ EndpointOf(r).reloads = "ANSWER"
    <3>1. CASE EndpointOf(r).reloads = "ANSWER"
      BY <3>1
    <3>2. CASE EndpointOf(r).reloads # "ANSWER"
      <4>1. \/ req'[r] = [req[r] EXCEPT !.pc = "RESPONDING", !.status = "OK", !.fault = "NONE"]
            \/ req'[r] = [req[r] EXCEPT !.pc = "RESPONDING", !.status = "OK", !.fault = "DATABASE"]
        BY <1>1, <1>17, <3>2 DEF Reload, AfterFailedReload, Leave, Set
      <4> QED
        BY <1>1, <4>1 DEF Records
    <3> QED
      BY <3>1, <3>2
  <2>5. req'[r].user = req[r].user /\ req'[r].touched = req[r].touched
    BY <1>1, <2>1 DEF Records
  <2>6. Authority(r)'
    BY <1>17, <2>2, <2>3, <2>5 DEF Reload, Authority, Authorised, IsAudited, EndpointOf,
      SameCall, After, Handled, ToBeAnswered, database
  <2>7. Stored(r)'
    BY <1>17, <2>2, <2>3, <2>4, <2>5 DEF Reload, Stored, Told, HasRows, Writes, EndpointOf, SameCall,
      After, Handled, database
  <2> QED
    BY <2>6, <2>7
<1>18. CASE PoolTimeout(r)
  <2>1. \/ req'[r] = [req[r] EXCEPT !.pc = "RESPONDING", !.fault = "POOL", !.status = "ERROR"]
        \/ req'[r] = [req[r] EXCEPT !.pc = "RESPONDING", !.fault = "POOL", !.status = "FORBIDDEN"]
        \/ req'[r] = [req[r] EXCEPT !.pc = "RESPONDING", !.status = "ERROR", !.fault = "POOL"]
        \/ req'[r] = [req[r] EXCEPT !.pc = "RESPONDING", !.status = "OK", !.fault = "POOL"]
    BY <1>1, <1>18 DEF PoolTimeout, NeedsConnection, AfterFailedReload, AuditFailed, Leave, Set
  <2>2. SameCall(r)
    BY <1>1, <2>1 DEF Records, SameCall
  <2>3. req'[r].pc = "RESPONDING" /\ req'[r].fault = "POOL"
    BY <1>1, <2>1 DEF Records
  <2>4. req'[r].user = req[r].user /\ req'[r].touched = req[r].touched
    BY <1>1, <2>1 DEF Records
  <2>5. req[r].pc # "COMMITTED" => req'[r].status \in {"FORBIDDEN", "ERROR"}
    <3> SUFFICES ASSUME req[r].pc # "COMMITTED"
                 PROVE  req'[r].status \in {"FORBIDDEN", "ERROR"}
      OBVIOUS
    <3>1. \/ req'[r] = [req[r] EXCEPT !.pc = "RESPONDING", !.fault = "POOL", !.status = "ERROR"]
          \/ req'[r] = [req[r] EXCEPT !.pc = "RESPONDING", !.fault = "POOL", !.status = "FORBIDDEN"]
          \/ req'[r] = [req[r] EXCEPT !.pc = "RESPONDING", !.status = "ERROR", !.fault = "POOL"]
      BY <1>1, <1>18 DEF PoolTimeout, AuditFailed, Leave, Set
    <3> QED
      BY <1>1, <3>1 DEF Records
  <2>6. req[r].pc = "COMMITTED" =>
          req'[r].status = "OK" \/ EndpointOf(r).reloads = "ANSWER"
    <3> SUFFICES ASSUME req[r].pc = "COMMITTED", EndpointOf(r).reloads # "ANSWER"
                 PROVE  req'[r].status = "OK"
      OBVIOUS
    <3>1. req'[r] = [req[r] EXCEPT !.pc = "RESPONDING", !.status = "OK", !.fault = "POOL"]
      BY <1>1, <1>18 DEF PoolTimeout, AfterFailedReload, Leave, Set
    <3> QED
      BY <1>1, <3>1 DEF Records
  <2>7. Authority(r)'
    BY <1>18, <2>2, <2>3, <2>4, <2>5 DEF PoolTimeout, NeedsConnection, Authority, Authorised,
      IsAudited, EndpointOf, SameCall, After, Handled, ToBeAnswered, database
  <2>8. Stored(r)'
    BY <1>18, <2>2, <2>3, <2>4, <2>5, <2>6 DEF PoolTimeout, NeedsConnection, Stored, Told, HasRows,
      Writes, EndpointOf, SameCall, After, Handled, database
  <2> QED
    BY <2>7, <2>8
<1>19. CASE Respond(r)
  <2>1. req'[r] = [req[r] EXCEPT !.pc = "CLOSING"]
    BY <1>1, <1>19 DEF Respond, Set
  <2>2. SameCall(r)
    BY <1>1, <2>1 DEF Records, SameCall
  <2>3. req'[r].pc = "CLOSING" /\ req'[r].status = req[r].status /\ req'[r].fault = req[r].fault
    BY <1>1, <2>1 DEF Records
  <2>4. req'[r].user = req[r].user /\ req'[r].touched = req[r].touched
    BY <1>1, <2>1 DEF Records
  <2>5. Authority(r)'
    BY <1>19, <2>2, <2>3, <2>4 DEF Respond, Authority, Authorised, IsAudited, EndpointOf,
      SameCall, After, Handled, ToBeAnswered, database
  <2>6. Stored(r)'
    BY <1>19, <2>2, <2>3, <2>4 DEF Respond, Stored, Told, HasRows, Writes, EndpointOf, SameCall,
      After, Handled, database
  <2> QED
    BY <2>5, <2>6
<1>20. CASE CloseSession(r)
  <2>1. req'[r] = [req[r] EXCEPT !.pc = "DONE"]
    BY <1>1, <1>20 DEF CloseSession, Set
  <2>2. SameCall(r)
    BY <1>1, <2>1 DEF Records, SameCall
  <2>3. req'[r].pc = "DONE" /\ req'[r].status = req[r].status /\ req'[r].fault = req[r].fault
    BY <1>1, <2>1 DEF Records
  <2>4. req'[r].user = req[r].user /\ req'[r].touched = req[r].touched
    BY <1>1, <2>1 DEF Records
  <2>5. Authority(r)'
    BY <1>20, <2>2, <2>3, <2>4 DEF CloseSession, Authority, Authorised, IsAudited, EndpointOf,
      SameCall, After, Handled, ToBeAnswered, database
  <2>6. Stored(r)'
    BY <1>20, <2>2, <2>3, <2>4 DEF CloseSession, Stored, Told, HasRows, Writes, EndpointOf,
      SameCall, After, Handled, database
  <2> QED
    BY <2>5, <2>6
<1> QED
  BY <1>2, <1>3, <1>4, <1>5, <1>6, <1>7, <1>8, <1>9, <1>10, <1>11, <1>12, <1>13, <1>14, <1>15,
      <1>16, <1>17, <1>18, <1>19, <1>20
     DEF Action, Advance, Fail

(***************************************************************************)
(* The invariant and the theorems                                          *)
(***************************************************************************)
RequestsOK == TypeOK /\ IsFiniteSet(conns) /\ \A q \in Requests : Authority(q) /\ Stored(q)

LEMMA InitRequestsOK == Init => RequestsOK
<1> SUFFICES ASSUME Init PROVE RequestsOK
  OBVIOUS
<1>1. /\ \A q \in Requests : req[q] = NewRequest
      /\ audits = {} /\ events = {} /\ conns = {} /\ expired = {} /\ loop = Nobody
  BY DEF Init
<1>2. req \in [Requests -> Records]
  <2>1. "NEW" \in Stages /\ "NONE" \in Statuses /\ "NONE" \in Faults
    BY Values
  <2>2. NewRequest \in Records
    BY <2>1 DEF NewRequest, Records, Operations, Held, Users
  <2> QED
    BY <2>2 DEF Init
<1>3. IsFiniteSet(conns) /\ Cardinality(conns) <= PoolSize
  BY <1>1, FS_EmptySet, CapacityAssumption
<1>4. \A q \in Requests : req[q].pc = "NEW" /\ req[q].user = Nobody /\ ~req[q].touched
  BY <1>1 DEF NewRequest
<1>5. TypeOK
  BY <1>1, <1>2, <1>3, <1>4 DEF TypeOK, Records, Stages, Operations, Held, Users
<1>6. \A q \in Requests : Authority(q) /\ Stored(q)
  BY <1>1, <1>4 DEF Authority, Stored, HasRows, Handled, After, ToBeAnswered
<1> QED
  BY <1>3, <1>5, <1>6 DEF RequestsOK

LEMMA NextRequestsOK == RequestsOK /\ [Next]_vars => RequestsOK'
<1> SUFFICES ASSUME RequestsOK, [Next]_vars PROVE RequestsOK'
  OBVIOUS
<1>1. ASSUME NEW r \in Requests, Action(r) PROVE RequestsOK'
  <2>1. TypeOK /\ IsFiniteSet(conns) /\ \A q \in Requests : Authority(q) /\ Stored(q)
    BY DEF RequestsOK
  <2>2. TypeOK' /\ IsFiniteSet(conns)'
    BY <1>1, <2>1, ActionKeepsTypes
  <2>3. Authority(r)' /\ Stored(r)'
    BY <1>1, <2>1, ActionKeepsAuthority
  <2>4. MovesOn(r) /\ WritesItsOwn(r)
    BY <1>1, <2>1, RequestMovesOn, RequestWritesItsOwn
  <2>5. ASSUME NEW q \in Requests, q # r PROVE Authority(q)' /\ Stored(q)'
    BY <1>1, <2>1, <2>4, <2>5, OthersKeepAuthority
  <2> QED
    BY <2>2, <2>3, <2>5 DEF RequestsOK
<1>2. ASSUME NEW t \in Tokens, Expire(t) PROVE RequestsOK'
  <2>1. expired' \subseteq Tokens /\ UNCHANGED <<req, audits, events, conns, loop>>
    BY <1>2 DEF Expire, RequestsOK, TypeOK, database
  <2>2. TypeOK'
    BY <2>1 DEF RequestsOK, TypeOK, EndpointOf
  <2>3. \A q \in Requests : Authority(q)' /\ Stored(q)'
    BY <2>1 DEF RequestsOK, Authority, Authorised, IsAudited, Stored, Told, HasRows, Writes,
      EndpointOf
  <2> QED
    BY <2>1, <2>2, <2>3 DEF RequestsOK
<1>3. CASE UNCHANGED vars
  <2>1. TypeOK'
    BY <1>3 DEF vars, RequestsOK, TypeOK, EndpointOf
  <2>2. \A q \in Requests : Authority(q)' /\ Stored(q)'
    BY <1>3 DEF vars, RequestsOK, Authority, Authorised, IsAudited, Stored, Told, HasRows,
      Writes, EndpointOf
  <2> QED
    BY <1>3, <2>1, <2>2 DEF vars, RequestsOK
<1> QED
  BY <1>1, <1>2, <1>3 DEF Next, Action

LEMMA RequestsInvariant == Spec => []RequestsOK
  BY InitRequestsOK, NextRequestsOK, PTL DEF Spec

(* Whatever the requests, the pool is not overdrawn, no request that has   *)
(* ended keeps a connection, and the loop is with a handler that runs on   *)
(* it (TypeOK).                                                            *)
THEOREM TypeCorrect == Spec => []TypeOK
<1>1. RequestsOK => TypeOK
  BY DEF RequestsOK
<1> QED
  BY <1>1, RequestsInvariant, PTL

(* No handler touches data for a request without an accepted scope and a   *)
(* permission, nor, where it is audited, without its audit event: whatever *)
(* the tokens, the roles and the table of endpoints, and whenever the      *)
(* token expires and recording the event fails.                            *)
THEOREM AuthorityCorrect == Spec => []DataNeedsAuthority
<1>1. RequestsOK => DataNeedsAuthority
  BY DEF RequestsOK, Authority, Authorised, IsAudited, EndpointOf, DataNeedsAuthority
<1> QED
  BY <1>1, RequestsInvariant, PTL

(* An attempt at an audited endpoint that was answered is in the audit     *)
(* trail or met a failure that its answer shows.                           *)
THEOREM AuditCorrect == Spec => []AttemptsAreAudited
<1>1. RequestsOK => AttemptsAreAudited
  <2> SUFFICES ASSUME RequestsOK PROVE AttemptsAreAudited
    OBVIOUS
  <2>1. ASSUME NEW r \in Requests, req[r].pc = "DONE", req[r].user # Nobody,
               Endpoint[req[r].op].audited, \A x \in audits : x.req # r
        PROVE  /\ req[r].fault \in {"TOKEN", "POOL", "DATABASE"}
               /\ req[r].status \in {"FORBIDDEN", "ERROR"}
    <3>1. ~IsAudited(r)
      BY <2>1 DEF IsAudited
    <3> QED
      BY <2>1, <3>1 DEF RequestsOK, Authority, After, EndpointOf
  <2>2. ASSUME NEW x \in audits
        PROVE  x.user = req[x.req].token.user /\ Endpoint[req[x.req].op].audited
    BY DEF RequestsOK, TypeOK, Authority, EndpointOf
  <2> QED
    BY <2>1, <2>2 DEF AttemptsAreAudited
<1> QED
  BY <1>1, RequestsInvariant, PTL

(* A success is answered for committed rows alone, and committed rows are  *)
(* answered with a success, the lost acknowledgement and the rows that     *)
(* could not be read again apart.                                          *)
THEOREM AnswersCorrect == Spec => []AnswersTellWhatIsStored
<1>1. RequestsOK => AnswersTellWhatIsStored
  <2> SUFFICES ASSUME RequestsOK, NEW r \in Requests, req[r].pc = "DONE", req[r].touched
      PROVE  LET e == Endpoint[req[r].op]
                 rows == {x \in events : x.req = r}
             IN  /\ req[r].status = "OK" /\ e.effect \in {"ROWS", "EVENT"} => rows # {}
                 /\ rows # {} =>
                      \/ req[r].status = "OK"
                      \/ req[r].fault = "UNACKNOWLEDGED"
                      \/ e.reloads = "ANSWER" /\ req[r].fault \in {"DATABASE", "POOL"}
                 /\ \A x \in rows : e.effect = "EVENT" => x.actor = req[r].token.user
    BY DEF AnswersTellWhatIsStored
  <2>1. Told(r)
    BY DEF RequestsOK, Stored, After
  <2>2. HasRows(r) <=> {x \in events : x.req = r} # {}
    BY DEF HasRows
  <2>3. \A x \in events : x.req = r =>
          (EndpointOf(r).effect = "EVENT" => x.actor = req[r].token.user)
    BY DEF RequestsOK, Stored
  <2> QED
    BY <2>1, <2>2, <2>3 DEF Told, Writes, EndpointOf
<1> QED
  BY <1>1, RequestsInvariant, PTL
=============================================================================
