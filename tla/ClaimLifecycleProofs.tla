------------------------ MODULE ClaimLifecycleProofs ------------------------
(***************************************************************************)
(* Theorems about ClaimLifecycle, for every set of claims, caseworkers and *)
(* forms and every limit.                                                  *)
(***************************************************************************)
EXTENDS ClaimLifecycle, FiniteSetTheorems, TLAPS

USE FormsAssumption, NoClaimAssumption, LimitsAssumption

(***************************************************************************)
(* Types                                                                   *)
(***************************************************************************)
(* An automatic decision gives its reasons from the list in Reasons. *)
LEMMA RejectionReasonsType ==
  ASSUME NEW c \in Claims
  PROVE  RejectionReasons(c, seen[c]) \in SUBSET Reasons
  BY DEF RejectionReasons

LEMMA FreshIdsType == ASSUME NEW c PROVE FreshIds(c) \subseteq 1..MaxDecisionIds
  BY DEF FreshIds

(* The lines a decision writes are rows claim_payment_extract can hold. *)
ExtractRows == [kind : {"PAYMENT", "RECOUPMENT"}, of : Claims, claim : Claims]

LEMMA LinesType ==
  ASSUME NEW c \in Claims
  PROVE  /\ \A lines \in AutoPaymentLines(c) : lines \subseteq ExtractRows
         /\ \A sources \in SUBSET Claims :
              \A lines \in AssessmentLines(c, sources) : lines \subseteq ExtractRows
  BY DEF AutoPaymentLines, AssessmentLines, PaymentLine, RecoupmentLine, ExtractRows

DecisionRows == [claim : Claims, id : 1..MaxDecisionIds, decision : Verdicts,
                 event : Events, reasons : SUBSET Reasons]

(* Decide keeps the tables well typed. *)
LEMMA DecideType ==
  ASSUME TypeOK, NEW c \in Claims, NEW id \in 1..MaxDecisionIds, NEW v \in Verdicts,
         NEW event \in Events, NEW reasons \in SUBSET Reasons,
         NEW lines \in SUBSET ExtractRows,
         Decide(c, id, v, event, reasons, lines)
  PROVE  /\ decisions' \subseteq DecisionRows
         /\ status' \in [Claims -> Statuses]
         /\ extracts' \subseteq ExtractRows
         /\ form' \in [Claims -> Forms]
         /\ aged' \subseteq Claims
         /\ DOMAIN funds' = Claims
  BY DEF Decide, TypeOK, DecisionRows, ExtractRows, Verdicts, Statuses

(***************************************************************************)
(* What the steps of a request and of an assessment know of the claim.     *)
(***************************************************************************)
(* A request that has not stored its claim has nothing decided; one that is *)
(* deciding has a verdict and an id, and has not decided before.            *)
RequestOK ==
  \A c \in Claims :
    /\ req[c].pc \in {"NEW", "GRANTED", "READ"} => status[c] = "NONE"
    /\ req[c].pc \in {"SUBMITTED", "DECIDING"} => status[c] # "NONE"
    /\ req[c].pc # "DONE" => \A d \in DecisionsOf(c) : IsCaseworkers(d)
    /\ req[c].pc = "DECIDING" => req[c].verdict \in Verdicts /\ req[c].id \in 1..MaxDecisionIds

(* A caseworker at work holds a claim, a verdict and an id. *)
WorkOK ==
  \A w \in Caseworkers :
    work[w] # IdleWork => /\ work[w].claim \in Claims
                          /\ work[w].verdict \in Verdicts
                          /\ work[w].id \in 1..MaxDecisionIds

(* The row lock is exclusive. *)
LockExclusive ==
  \A v, w \in Caseworkers :
    v # w /\ work[v] # IdleWork => work[v].claim # work[w].claim

IInv == TypeOK /\ RequestOK /\ WorkOK /\ LockExclusive
          /\ LockedClaimAwaitsAssessment /\ StatusFollowsDecisions

(***************************************************************************)
(* IInv holds initially                                                    *)
(***************************************************************************)
LEMMA InitEstablishes == Init => IInv
<1> SUFFICES ASSUME Init PROVE IInv
  OBVIOUS
<1>1. TypeOK
  <2>1. (CHOOSE f \in Forms : TRUE) \in Forms
    OBVIOUS
  <2>2. form \in [Claims -> Forms]
    BY <2>1 DEF Init
  <2>3. req \in [Claims -> [pc : {"NEW", "GRANTED", "READ", "SUBMITTED", "DECIDING", "DONE"},
                            id : 0..MaxDecisionIds, verdict : Verdicts \cup {"NONE"},
                            reasons : SUBSET Reasons]]
    BY DEF Init, RequestAt
  <2>4. work \in [Caseworkers -> [claim : Claims \cup {NoClaim},
                                  verdict : Verdicts \cup {"NONE"},
                                  id : 0..MaxDecisionIds, sources : SUBSET Claims]]
    BY DEF Init, IdleWork
  <2> QED
    BY <2>2, <2>3, <2>4 DEF Init, TypeOK, Statuses
<1>2. RequestOK
  BY DEF Init, RequestOK, RequestAt, DecisionsOf
<1>3. WorkOK /\ LockExclusive /\ LockedClaimAwaitsAssessment
  BY DEF Init, WorkOK, LockExclusive, LockedClaimAwaitsAssessment, IdleWork
<1>4. StatusFollowsDecisions
  BY DEF Init, StatusFollowsDecisions, DecisionsOf, Verdicts
<1> QED
  BY <1>1, <1>2, <1>3, <1>4 DEF IInv

(***************************************************************************)
(* Steps that leave the rows of claims and decisions and the assessments   *)
(* alone: only the request moves on, or the application changes.           *)
(***************************************************************************)
(* A request that moves between two steps before or after its decision.    *)
LEMMA RequestMoves ==
  ASSUME IInv, NEW c \in Claims,
         UNCHANGED <<status, decisions, extracts, aged, funds, work, merits, early>>,
         form' \in [Claims -> Forms],
         seen' \in [Claims -> [Claims -> Statuses]],
         NEW r \in [pc : {"GRANTED", "READ", "SUBMITTED", "DECIDING", "DONE"},
                    id : 0..MaxDecisionIds, verdict : Verdicts \cup {"NONE"},
                    reasons : SUBSET Reasons],
         req' = [req EXCEPT ![c] = r],
         r.pc \in {"GRANTED", "READ"} => status[c] = "NONE",
         r.pc \in {"SUBMITTED", "DECIDING"} => status[c] # "NONE" /\ req[c].pc # "DONE",
         r.pc # "DONE" => req[c].pc # "DONE",
         r.pc = "DECIDING" => r.verdict \in Verdicts /\ r.id \in 1..MaxDecisionIds
  PROVE  IInv'
<1>1. TypeOK'
  BY DEF IInv, TypeOK
<1>2. RequestOK'
  BY DEF IInv, TypeOK, RequestOK, DecisionsOf
<1>3. WorkOK' /\ LockExclusive'
  BY DEF IInv, WorkOK, LockExclusive
<1>4. LockedClaimAwaitsAssessment' /\ StatusFollowsDecisions'
  BY DEF IInv, LockedClaimAwaitsAssessment, StatusFollowsDecisions, DecisionsOf
<1> QED
  BY <1>1, <1>2, <1>3, <1>4 DEF IInv

LEMMA StartCreateKeeps ==
  ASSUME IInv, NEW c \in Claims, StartCreate(c) PROVE IInv'
<1> DEFINE r == RequestAt("GRANTED")
<1>1. req' = [req EXCEPT ![c] = r] /\ req[c].pc = "NEW"
  BY DEF StartCreate, IInv, TypeOK
<1>2. form' \in [Claims -> Forms] /\ seen' \in [Claims -> [Claims -> Statuses]]
  BY DEF StartCreate, IInv, TypeOK
<1>3. r \in [pc : {"GRANTED", "READ", "SUBMITTED", "DECIDING", "DONE"},
             id : 0..MaxDecisionIds, verdict : Verdicts \cup {"NONE"},
             reasons : SUBSET Reasons]
  BY DEF RequestAt
<1>4. r.pc = "GRANTED" /\ status[c] = "NONE"
  BY <1>1 DEF IInv, RequestOK, RequestAt
<1>5. UNCHANGED <<status, decisions, extracts, aged, funds, work, merits, early>>
  BY DEF StartCreate, applicationVars
<1> HIDE DEF r
<1> QED
  BY <1>1, <1>2, <1>3, <1>4, <1>5, RequestMoves

LEMMA ReadClaimsKeeps ==
  ASSUME IInv, NEW c \in Claims, ReadClaims(c) PROVE IInv'
<1> DEFINE r == RequestAt("READ")
<1>1. req' = [req EXCEPT ![c] = r] /\ req[c].pc = "GRANTED"
  BY DEF ReadClaims, IInv, TypeOK
<1>2. form' \in [Claims -> Forms] /\ seen' \in [Claims -> [Claims -> Statuses]]
  BY DEF ReadClaims, claimVars, IInv, TypeOK
<1>3. r \in [pc : {"GRANTED", "READ", "SUBMITTED", "DECIDING", "DONE"},
             id : 0..MaxDecisionIds, verdict : Verdicts \cup {"NONE"},
             reasons : SUBSET Reasons]
  BY DEF RequestAt
<1>4. r.pc = "READ" /\ status[c] = "NONE"
  BY <1>1 DEF IInv, RequestOK, RequestAt
<1>5. UNCHANGED <<status, decisions, extracts, aged, funds, work, merits, early>>
  BY DEF ReadClaims, applicationVars, claimVars
<1> HIDE DEF r
<1> QED
  BY <1>1, <1>2, <1>3, <1>4, <1>5, RequestMoves

(* A request that ends without a decision: refused, held, rolled back, failed. *)
LEMMA RequestEnds ==
  ASSUME IInv, NEW c \in Claims, req' = [req EXCEPT ![c] = RequestAt("DONE")],
         UNCHANGED <<applicationVars, claimVars, seen, work>>
  PROVE  IInv'
<1>1. RequestAt("DONE") \in [pc : {"GRANTED", "READ", "SUBMITTED", "DECIDING", "DONE"},
                        id : 0..MaxDecisionIds, verdict : Verdicts \cup {"NONE"},
                        reasons : SUBSET Reasons]
  BY DEF RequestAt
<1>2. RequestAt("DONE").pc = "DONE"
  BY DEF RequestAt
<1>3. form' \in [Claims -> Forms] /\ seen' \in [Claims -> [Claims -> Statuses]]
  BY DEF claimVars, IInv, TypeOK
<1>4. UNCHANGED <<status, decisions, extracts, aged, funds, work, merits, early>>
  BY DEF applicationVars, claimVars
<1> QED
  BY <1>1, <1>2, <1>3, <1>4, RequestMoves

LEMMA BeginAutoDecisionKeeps ==
  ASSUME IInv, NEW c \in Claims, BeginAutoDecision(c) PROVE IInv'
<1>1. req[c].pc = "SUBMITTED" /\ status[c] # "NONE"
  BY DEF BeginAutoDecision, IInv, RequestOK
<1>2. ASSUME NEW v \in Verdicts, NEW n \in FreshIds(c),
             req' = [req EXCEPT ![c] = [pc |-> "DECIDING", id |-> n, verdict |-> v,
                                        reasons |-> RejectionReasons(c, seen[c])]]
      PROVE  IInv'
  <2> DEFINE r == [pc |-> "DECIDING", id |-> n, verdict |-> v,
                   reasons |-> RejectionReasons(c, seen[c])]
  <2>1. n \in 1..MaxDecisionIds
    BY FreshIdsType
  <2>2. r \in [pc : {"GRANTED", "READ", "SUBMITTED", "DECIDING", "DONE"},
               id : 0..MaxDecisionIds, verdict : Verdicts \cup {"NONE"},
               reasons : SUBSET Reasons]
    BY <2>1, RejectionReasonsType
  <2>3. r.pc = "DECIDING" /\ r.verdict \in Verdicts /\ r.id \in 1..MaxDecisionIds
    BY <2>1
  <2>4. form' \in [Claims -> Forms] /\ seen' \in [Claims -> [Claims -> Statuses]]
    BY DEF BeginAutoDecision, claimVars, IInv, TypeOK
  <2>5. UNCHANGED <<status, decisions, extracts, aged, funds, work, merits, early>>
    BY DEF BeginAutoDecision, applicationVars, claimVars
  <2>6. req' = [req EXCEPT ![c] = r]
    BY <1>2
  <2> HIDE DEF r
  <2> QED
    BY <1>1, <2>2, <2>3, <2>4, <2>5, <2>6, RequestMoves
<1>3. CASE req' = [req EXCEPT ![c] = RequestAt("DONE")]
  BY <1>3, RequestEnds DEF BeginAutoDecision
<1> QED
  BY <1>2, <1>3 DEF BeginAutoDecision, Verdicts

(* The application and the calendar touch no row that IInv relates. *)
LEMMA ApplicationStepKeeps ==
  ASSUME IInv, GrantApplication \/ RefuseApplication \/ ThreeMonthsPass \/ YearPasses
  PROVE  IInv'
<1>1. UNCHANGED <<form, status, decisions, extracts, funds, seen, req, work>>
  BY DEF GrantApplication, RefuseApplication, ThreeMonthsPass, YearPasses, claimVars
<1>2. TypeOK'
  BY <1>1 DEF IInv, TypeOK, GrantApplication, RefuseApplication, ThreeMonthsPass,
              YearPasses, claimVars
<1>3. RequestOK' /\ WorkOK' /\ LockExclusive'
  BY <1>1 DEF IInv, RequestOK, WorkOK, LockExclusive, DecisionsOf
<1>4. LockedClaimAwaitsAssessment' /\ StatusFollowsDecisions'
  BY <1>1 DEF IInv, LockedClaimAwaitsAssessment, StatusFollowsDecisions, DecisionsOf
<1> QED
  BY <1>2, <1>3, <1>4 DEF IInv

(***************************************************************************)
(* Steps that write rows                                                   *)
(***************************************************************************)
(* A claim stored as SUBMITTED had no row, so no caseworker holds it. *)
LEMMA SubmitClaimKeeps ==
  ASSUME IInv, NEW c \in Claims, SubmitClaim(c) PROVE IInv'
<1>1. status[c] = "NONE" /\ DecisionsOf(c) = {}
  BY DEF SubmitClaim, IInv, RequestOK, StatusFollowsDecisions, Verdicts
<1>2. \A w \in Caseworkers : work[w] # IdleWork => work[w].claim # c
  BY <1>1 DEF IInv, LockedClaimAwaitsAssessment
<1>3. TypeOK'
  BY DEF SubmitClaim, IInv, TypeOK, Statuses, RequestAt, applicationVars
<1>4. RequestOK'
  BY <1>1 DEF SubmitClaim, IInv, TypeOK, RequestOK, RequestAt, DecisionsOf
<1>5. WorkOK' /\ LockExclusive'
  BY DEF SubmitClaim, IInv, WorkOK, LockExclusive
<1>6. LockedClaimAwaitsAssessment'
  BY <1>2 DEF SubmitClaim, IInv, TypeOK, WorkOK, LockedClaimAwaitsAssessment, DecisionsOf
<1>7. StatusFollowsDecisions'
  BY <1>1 DEF SubmitClaim, IInv, TypeOK, StatusFollowsDecisions, DecisionsOf, Verdicts
<1> QED
  BY <1>3, <1>4, <1>5, <1>6, <1>7 DEF IInv

(* The automatic decision waits for the row, so it disturbs no assessment; *)
(* every decision it finds is a caseworker's, and the status follows it.   *)
LEMMA CommitAutoDecisionKeeps ==
  ASSUME IInv, NEW c \in Claims, CommitAutoDecision(c) PROVE IInv'
<1> DEFINE v == req[c].verdict
           event == IF v = "PAY_IN_FULL" THEN "POA_AUTO_APPROVED" ELSE "POA_AUTO_REJECTED"
           new == [claim |-> c, id |-> req[c].id, decision |-> v, event |-> event,
                   reasons |-> req[c].reasons]
<1>0. PICK lines \in IF v = "PAY_IN_FULL" THEN AutoPaymentLines(c) ELSE {{}} :
        Decide(c, req[c].id, v, event, req[c].reasons, lines)
  BY DEF CommitAutoDecision
<1>1. /\ v \in Verdicts /\ req[c].id \in 1..MaxDecisionIds
      /\ req[c].reasons \in SUBSET Reasons
      /\ event \in Events /\ event # "CLAIM_ASSESSMENT_COMPLETED"
      /\ lines \in SUBSET ExtractRows
  BY <1>0, LinesType DEF CommitAutoDecision, IInv, RequestOK, TypeOK, Events
<1>2. Decide(c, req[c].id, v, event, req[c].reasons, lines)
  BY <1>0
<1>3. /\ decisions' = decisions \cup {new}
      /\ status' = [status EXCEPT ![c] = v]
      /\ req' = [req EXCEPT ![c] = RequestAt("DONE")]
      /\ UNCHANGED <<merits, early, seen, work>>
  BY <1>2 DEF CommitAutoDecision, Decide, applicationVars
<1>4. /\ \A w \in Caseworkers : work[w] # IdleWork => work[w].claim # c
      /\ \A d \in DecisionsOf(c) : IsCaseworkers(d)
  BY DEF CommitAutoDecision, RowLocked, IInv, RequestOK
<1> HIDE DEF v, event
<1>5. TypeOK'
  <2>1. /\ decisions' \subseteq DecisionRows
        /\ status' \in [Claims -> Statuses]
        /\ extracts' \subseteq ExtractRows
        /\ form' \in [Claims -> Forms]
        /\ aged' \subseteq Claims
        /\ DOMAIN funds' = Claims
    BY <1>1, <1>2, DecideType DEF IInv
  <2> QED
    BY <2>1, <1>3 DEF IInv, TypeOK, RequestAt, DecisionRows, ExtractRows
<1>6. RequestOK'
  BY <1>1, <1>3 DEF IInv, TypeOK, RequestOK, RequestAt, DecisionsOf, Verdicts
<1>7. WorkOK' /\ LockExclusive'
  BY <1>3 DEF IInv, WorkOK, LockExclusive
<1>8. LockedClaimAwaitsAssessment'
  BY <1>3, <1>4 DEF IInv, TypeOK, WorkOK, LockedClaimAwaitsAssessment, DecisionsOf
<1>9. StatusFollowsDecisions'
  <2>1. \A e \in Claims : status'[e] \in Verdicts <=> DecisionsOf(e)' # {}
    <3>1. status'[c] = v /\ new \in DecisionsOf(c)'
      BY <1>3 DEF IInv, TypeOK, DecisionsOf
    <3>2. \A e \in Claims \ {c} : status'[e] = status[e] /\ DecisionsOf(e)' = DecisionsOf(e)
      BY <1>3 DEF IInv, TypeOK, DecisionsOf
    <3> QED
      BY <1>1, <3>1, <3>2 DEF IInv, StatusFollowsDecisions
  <2>2. ASSUME NEW d \in decisions'
        PROVE  \/ status'[d.claim] = d.decision
               \/ IsCaseworkers(d) /\ \E e \in DecisionsOf(d.claim)' : ~IsCaseworkers(e)
    <3>1. CASE d = new
      BY <3>1, <1>3 DEF IInv, TypeOK
    <3>2. CASE d \in decisions /\ d.claim = c
      <4>1. IsCaseworkers(d) /\ ~IsCaseworkers(new) /\ new \in DecisionsOf(c)'
        BY <3>2, <1>1, <1>3, <1>4 DEF DecisionsOf, IsCaseworkers
      <4> QED
        BY <4>1, <3>2
    <3>3. CASE d \in decisions /\ d.claim # c
      <4>1. status'[d.claim] = status[d.claim] /\ DecisionsOf(d.claim)' = DecisionsOf(d.claim)
        BY <3>3, <1>3 DEF IInv, TypeOK, DecisionsOf
      <4> QED
        BY <4>1, <3>3 DEF IInv, StatusFollowsDecisions
    <3> QED
      BY <3>1, <3>2, <3>3, <1>3
  <2> QED
    BY <2>1, <2>2 DEF StatusFollowsDecisions
<1> QED
  BY <1>5, <1>6, <1>7, <1>8, <1>9 DEF IInv

(* The lock is taken only on a free row whose claim awaits assessment. *)
LEMMA LockForAssessmentKeeps ==
  ASSUME IInv, NEW w \in Caseworkers, NEW c \in Claims, LockForAssessment(w, c) PROVE IInv'
<1>1. PICK v \in Verdicts, n \in FreshIds(c) :
        work' = [work EXCEPT ![w] =
          [claim |-> c, verdict |-> v, id |-> n,
           sources |-> IF v = "PAY_IN_FULL" /\ c \in FinalBills
                         THEN RecoupableSources(c) ELSE {}]]
  BY DEF LockForAssessment
<1>2. n \in 1..MaxDecisionIds
  BY FreshIdsType
<1>3. RecoupableSources(c) \in SUBSET Claims
  BY DEF RecoupableSources, Poas
<1>4. UNCHANGED <<merits, early, form, status, aged, decisions, extracts, funds, seen, req>>
  BY DEF LockForAssessment, applicationVars, claimVars
<1>5. TypeOK'
  BY <1>1, <1>2, <1>3, <1>4 DEF IInv, TypeOK
<1>6. RequestOK'
  BY <1>4 DEF IInv, RequestOK, DecisionsOf
<1>7. WorkOK'
  BY <1>1, <1>2 DEF IInv, TypeOK, WorkOK
<1>8. LockExclusive'
  <2>1. \A x \in Caseworkers : work[x].claim # c
    BY DEF LockForAssessment, RowLocked
  <2> QED
    BY <2>1, <1>1 DEF IInv, TypeOK, LockExclusive
<1>9. status[c] = "SUBMITTED" /\ DecisionsOf(c) = {}
  BY DEF LockForAssessment, AwaitsAssessment, IInv, StatusFollowsDecisions, Verdicts
<1>10. LockedClaimAwaitsAssessment'
  BY <1>1, <1>4, <1>9 DEF IInv, TypeOK, LockedClaimAwaitsAssessment, DecisionsOf
<1>11. StatusFollowsDecisions'
  BY <1>4 DEF IInv, StatusFollowsDecisions, DecisionsOf
<1> QED
  BY <1>5, <1>6, <1>7, <1>8, <1>10, <1>11 DEF IInv

LEMMA RollbackAssessmentKeeps ==
  ASSUME IInv, NEW w \in Caseworkers, RollbackAssessment(w) PROVE IInv'
<1>1. UNCHANGED <<merits, early, form, status, aged, decisions, extracts, funds, seen, req>>
  BY DEF RollbackAssessment, applicationVars, claimVars
<1>2. TypeOK'
  BY <1>1 DEF RollbackAssessment, IInv, TypeOK, IdleWork
<1>3. RequestOK'
  BY <1>1 DEF IInv, RequestOK, DecisionsOf
<1>4. WorkOK' /\ LockedClaimAwaitsAssessment'
  BY <1>1 DEF RollbackAssessment, IInv, TypeOK, WorkOK, LockedClaimAwaitsAssessment,
              DecisionsOf
<1>5. LockExclusive'
  BY DEF RollbackAssessment, IInv, TypeOK, WorkOK, LockExclusive, IdleWork
<1>6. StatusFollowsDecisions'
  BY <1>1 DEF IInv, StatusFollowsDecisions, DecisionsOf
<1> QED
  BY <1>2, <1>3, <1>4, <1>5, <1>6 DEF IInv

(* The claim a caseworker decides has no decision yet, so the status follows *)
(* the new one; no other caseworker holds it.                                *)
LEMMA CommitAssessmentKeeps ==
  ASSUME IInv, NEW w \in Caseworkers, CommitPayInFull(w) \/ CommitReject(w) PROVE IInv'
<1>0. PICK c \in Claims, v \in Verdicts, id \in 1..MaxDecisionIds :
        work[w].claim = c /\ work[w].verdict = v /\ work[w].id = id
  BY DEF CommitPayInFull, CommitReject, AssessmentBy, IInv, WorkOK
<1> DEFINE new == [claim |-> c, id |-> id, decision |-> v,
                   event |-> "CLAIM_ASSESSMENT_COMPLETED", reasons |-> {}]
<1>1. /\ work[w] # IdleWork
      /\ work[w].sources \in SUBSET Claims
      /\ status[c] = "SUBMITTED" /\ DecisionsOf(c) = {}
  BY <1>0 DEF CommitPayInFull, CommitReject, AssessmentBy, IInv, TypeOK,
              LockedClaimAwaitsAssessment
<1>2. PICK lines \in AssessmentLines(c, work[w].sources) \cup {{}} :
        Decide(c, id, v, "CLAIM_ASSESSMENT_COMPLETED", {}, lines)
  BY <1>0 DEF CommitPayInFull, CommitReject, AssessmentBy
<1>3. lines \in SUBSET ExtractRows
  BY <1>1, <1>2, LinesType
<1>4. /\ decisions' = decisions \cup {new}
      /\ status' = [status EXCEPT ![c] = v]
      /\ work' = [work EXCEPT ![w] = IdleWork]
      /\ UNCHANGED <<merits, early, seen, req>>
  BY <1>2 DEF CommitPayInFull, CommitReject, AssessmentBy, Decide, applicationVars
<1>5. \A x \in Caseworkers : x # w => work[x].claim # c
  BY <1>0, <1>1 DEF IInv, LockExclusive
<1>6. TypeOK'
  <2>1. "CLAIM_ASSESSMENT_COMPLETED" \in Events
    BY DEF Events
  <2>2. /\ decisions' \subseteq DecisionRows
        /\ status' \in [Claims -> Statuses]
        /\ extracts' \subseteq ExtractRows
        /\ form' \in [Claims -> Forms]
        /\ aged' \subseteq Claims
        /\ DOMAIN funds' = Claims
    BY <1>1, <1>2, <1>3, <2>1, DecideType DEF IInv
  <2> QED
    BY <2>2, <1>4 DEF IInv, TypeOK, IdleWork, DecisionRows, ExtractRows
<1>7. RequestOK'
  BY <1>1, <1>4 DEF IInv, TypeOK, RequestOK, DecisionsOf, IsCaseworkers, Verdicts
<1>8. WorkOK'
  BY <1>4 DEF IInv, TypeOK, WorkOK
<1>9. LockExclusive'
  BY <1>4 DEF IInv, TypeOK, WorkOK, LockExclusive, IdleWork
<1>10. LockedClaimAwaitsAssessment'
  BY <1>4, <1>5 DEF IInv, TypeOK, WorkOK, LockedClaimAwaitsAssessment, DecisionsOf
<1>11. StatusFollowsDecisions'
  <2>1. status'[c] = v /\ DecisionsOf(c)' = {new}
    BY <1>1, <1>4 DEF IInv, TypeOK, DecisionsOf
  <2>2. \A e \in Claims \ {c} : status'[e] = status[e] /\ DecisionsOf(e)' = DecisionsOf(e)
    BY <1>4 DEF IInv, TypeOK, DecisionsOf
  <2>3. \A e \in Claims : status'[e] \in Verdicts <=> DecisionsOf(e)' # {}
    BY <1>1, <2>1, <2>2 DEF IInv, StatusFollowsDecisions
  <2>4. ASSUME NEW d \in decisions'
        PROVE  \/ status'[d.claim] = d.decision
               \/ IsCaseworkers(d) /\ \E e \in DecisionsOf(d.claim)' : ~IsCaseworkers(e)
    <3>1. CASE d = new
      BY <3>1, <2>1
    <3>2. CASE d \in decisions
      <4>1. d.claim \in Claims \ {c}
        BY <3>2, <1>1 DEF IInv, TypeOK, DecisionsOf
      <4> QED
        BY <4>1, <2>2, <3>2 DEF IInv, StatusFollowsDecisions
    <3> QED
      BY <3>1, <3>2, <1>4
  <2> QED
    BY <2>3, <2>4 DEF StatusFollowsDecisions
<1> QED
  BY <1>6, <1>7, <1>8, <1>9, <1>10, <1>11 DEF IInv

(***************************************************************************)
(* IInv is inductive                                                       *)
(***************************************************************************)
LEMMA StepKeeps == IInv /\ [Next]_vars => IInv'
<1> SUFFICES ASSUME IInv, [Next]_vars PROVE IInv'
  OBVIOUS
<1>1. CASE UNCHANGED vars
  <2>1. TypeOK'
    BY <1>1 DEF IInv, TypeOK, vars
  <2>2. RequestOK' /\ WorkOK' /\ LockExclusive'
    BY <1>1 DEF IInv, RequestOK, WorkOK, LockExclusive, DecisionsOf, vars
  <2>3. LockedClaimAwaitsAssessment' /\ StatusFollowsDecisions'
    BY <1>1 DEF IInv, LockedClaimAwaitsAssessment, StatusFollowsDecisions, DecisionsOf, vars
  <2> QED
    BY <2>1, <2>2, <2>3 DEF IInv
<1>2. ASSUME NEW c \in Claims, CreateStep(c) PROVE IInv'
  <2>1. CASE RefuseForFinalBill(c) \/ RollbackOnDuplicateInvoice(c) \/ FailRequest(c)
    BY <2>1, RequestEnds DEF RefuseForFinalBill, RollbackOnDuplicateInvoice, FailRequest
  <2> QED
    BY <1>2, <2>1, StartCreateKeeps, ReadClaimsKeeps, SubmitClaimKeeps,
       BeginAutoDecisionKeeps, CommitAutoDecisionKeeps DEF CreateStep
<1>3. ASSUME NEW w \in Caseworkers, AssessStep(w) PROVE IInv'
  BY <1>3, LockForAssessmentKeeps, CommitAssessmentKeeps, RollbackAssessmentKeeps
     DEF AssessStep
<1> QED
  BY <1>1, <1>2, <1>3, ApplicationStepKeeps DEF Next

THEOREM InductiveInvariant == Spec => []IInv
<1>1. Init => IInv
  BY InitEstablishes
<1>2. IInv /\ [Next]_vars => IInv'
  BY StepKeeps
<1> QED
  BY <1>1, <1>2, PTL DEF Spec

(* Every variable keeps to its type, whatever the order of the requests. *)
THEOREM TypeCorrect == Spec => []TypeOK
<1>1. IInv => TypeOK
  BY DEF IInv
<1> QED
  BY <1>1, InductiveInvariant, PTL

(* The status check a caseworker's transaction makes under the row lock holds *)
(* until its commit: no other transaction decides the claim in between.      *)
THEOREM LockProtectsAssessment == Spec => []LockedClaimAwaitsAssessment
<1>1. IInv => LockedClaimAwaitsAssessment
  BY DEF IInv
<1> QED
  BY <1>1, InductiveInvariant, PTL

(* Status and decisions agree, but for a decision the automatic one overrode. *)
THEOREM StatusAgreesWithDecisions == Spec => []StatusFollowsDecisions
<1>1. IInv => StatusFollowsDecisions
  BY DEF IInv
<1> QED
  BY <1>1, InductiveInvariant, PTL

(***************************************************************************)
(* ClaimLifecycle implements ClaimAssessment                               *)
(***************************************************************************)
Deciders == [c \in Claims |-> DecidersOf(c)]

LEMMA InitMaps == Init => Assessment!Init
  BY DEF Init, Assessment!Init, DecidersOf, DecisionsOf

(* Steps that write no status and no decision are invisible. *)
LEMMA StutterMaps ==
  ASSUME UNCHANGED <<status, decisions>> PROVE UNCHANGED Assessment!vars
  BY DEF Assessment!vars, DecidersOf, DecisionsOf

LEMMA SubmitClaimMaps ==
  ASSUME IInv, NEW c \in Claims, SubmitClaim(c) PROVE Assessment!Submit(c)
<1>1. status[c] = "NONE"
  BY DEF SubmitClaim, IInv, RequestOK
<1>2. Deciders' = Deciders
  BY DEF SubmitClaim, Deciders, DecidersOf, DecisionsOf
<1> QED
  BY <1>1, <1>2 DEF SubmitClaim, Assessment!Submit, Deciders

(* A decision adds its decider to those of its claim and to no other. *)
LEMMA DecisionAddsDecider ==
  ASSUME NEW c \in Claims, NEW new,
         new.claim = c, decisions' = decisions \cup {new},
         NEW who, who = IF IsCaseworkers(new) THEN "CASEWORKER" ELSE "SYSTEM"
  PROVE  Deciders' = [Deciders EXCEPT ![c] = @ \cup {who}]
<1>1. DecidersOf(c)' = DecidersOf(c) \cup {who}
  BY DEF DecidersOf, DecisionsOf, IsCaseworkers
<1>2. \A e \in Claims \ {c} : DecidersOf(e)' = DecidersOf(e)
  BY DEF DecidersOf, DecisionsOf, IsCaseworkers
<1> QED
  BY <1>1, <1>2 DEF Deciders

LEMMA CommitAutoDecisionMaps ==
  ASSUME IInv, NEW c \in Claims, CommitAutoDecision(c)
  PROVE  \E v \in Assessment!Verdicts : Assessment!SystemDecides(c, v)
<1>1. PICK v \in Verdicts : v = req[c].verdict
  BY DEF CommitAutoDecision, IInv, RequestOK
<1>2. PICK new : /\ new.claim = c /\ ~IsCaseworkers(new)
                 /\ decisions' = decisions \cup {new}
                 /\ status' = [status EXCEPT ![c] = v]
  BY <1>1 DEF CommitAutoDecision, Decide, IsCaseworkers
<1>3. status[c] # "NONE" /\ "SYSTEM" \notin DecidersOf(c)
  BY DEF CommitAutoDecision, IInv, RequestOK, DecidersOf
<1>4. Deciders' = [Deciders EXCEPT ![c] = @ \cup {"SYSTEM"}]
  BY <1>2, DecisionAddsDecider
<1> QED
  BY <1>1, <1>2, <1>3, <1>4
     DEF Assessment!SystemDecides, Assessment!Verdicts, Verdicts, Deciders

LEMMA CommitAssessmentMaps ==
  ASSUME IInv, NEW w \in Caseworkers, CommitPayInFull(w) \/ CommitReject(w)
  PROVE  \E c \in Claims, v \in Assessment!Verdicts : Assessment!CaseworkerDecides(c, v)
<1>1. PICK c \in Claims, v \in Verdicts : work[w].claim = c /\ work[w].verdict = v
  BY DEF CommitPayInFull, CommitReject, AssessmentBy, IInv, WorkOK
<1>2. PICK new : /\ new.claim = c /\ IsCaseworkers(new)
                 /\ decisions' = decisions \cup {new}
                 /\ status' = [status EXCEPT ![c] = v]
  BY <1>1 DEF CommitPayInFull, CommitReject, AssessmentBy, Decide, IsCaseworkers
<1>3. status[c] = "SUBMITTED" /\ DecidersOf(c) = {}
  BY <1>1 DEF CommitPayInFull, CommitReject, AssessmentBy, IInv,
              LockedClaimAwaitsAssessment, DecidersOf
<1>4. Deciders' = [Deciders EXCEPT ![c] = @ \cup {"CASEWORKER"}]
  BY <1>2, DecisionAddsDecider
<1>5. Deciders' = [Deciders EXCEPT ![c] = {"CASEWORKER"}]
  BY <1>3, <1>4 DEF Deciders
<1> QED
  BY <1>1, <1>2, <1>3, <1>5
     DEF Assessment!CaseworkerDecides, Assessment!Verdicts, Verdicts, Deciders

LEMMA StepMaps ==
  ASSUME IInv, [Next]_vars PROVE [Assessment!Next]_(Assessment!vars)
<1>1. CASE UNCHANGED vars
  BY <1>1, StutterMaps DEF vars
<1>2. ASSUME NEW c \in Claims, CreateStep(c) PROVE [Assessment!Next]_(Assessment!vars)
  <2>1. CASE SubmitClaim(c)
    BY <2>1, SubmitClaimMaps DEF Assessment!Next
  <2>2. CASE CommitAutoDecision(c)
    BY <2>2, CommitAutoDecisionMaps DEF Assessment!Next
  <2>3. CASE \/ StartCreate(c) \/ ReadClaims(c) \/ RefuseForFinalBill(c)
             \/ BeginAutoDecision(c) \/ RollbackOnDuplicateInvoice(c) \/ FailRequest(c)
    BY <2>3, StutterMaps
       DEF StartCreate, ReadClaims, RefuseForFinalBill, BeginAutoDecision,
           RollbackOnDuplicateInvoice, FailRequest, claimVars
  <2> QED
    BY <1>2, <2>1, <2>2, <2>3 DEF CreateStep
<1>3. ASSUME NEW w \in Caseworkers, AssessStep(w) PROVE [Assessment!Next]_(Assessment!vars)
  <2>1. CASE CommitPayInFull(w) \/ CommitReject(w)
    BY <2>1, CommitAssessmentMaps DEF Assessment!Next
  <2>2. CASE RollbackAssessment(w) \/ \E c \in Claims : LockForAssessment(w, c)
    BY <2>2, StutterMaps DEF RollbackAssessment, LockForAssessment, claimVars
  <2> QED
    BY <1>3, <2>1, <2>2 DEF AssessStep
<1>4. CASE GrantApplication \/ RefuseApplication \/ ThreeMonthsPass \/ YearPasses
  BY <1>4, StutterMaps
     DEF GrantApplication, RefuseApplication, ThreeMonthsPass, YearPasses, claimVars
<1> QED
  BY <1>1, <1>2, <1>3, <1>4 DEF Next

(* The transactions of the two assessment endpoints and of the automatic     *)
(* decision assess claims as ClaimAssessment states: a caseworker decides    *)
(* only an undecided claim, the system at most once, and nobody after it.    *)
THEOREM RefinesAssessment == Spec => ImplementsAssessment
<1>1. Init => Assessment!Init
  BY InitMaps
<1>2. IInv /\ [Next]_vars => [Assessment!Next]_(Assessment!vars)
  BY StepMaps
<1> QED
  BY <1>1, <1>2, InductiveInvariant, PTL DEF Spec, ImplementsAssessment, Assessment!Spec

(***************************************************************************)
(* Final bills: two are active only when the requests that stored them     *)
(* overlapped.                                                             *)
(***************************************************************************)
(* Only payments on account are decided automatically. *)
DecidingArePoas == \A c \in Claims : req[c].pc = "DECIDING" => c \in Poas

(* A request read only claims that are stored. *)
ReadClaimsAreStored ==
  \A b, e \in Claims : seen[b][e] # "NONE" => status[e] # "NONE"

(* A final bill that a request went past was rejected, and remains so: no    *)
(* caseworker assesses it again and no automatic decision is made on a bill. *)
PassedBillsAreRejected ==
  \A b, e \in Claims :
    seen[b][e] # "NONE" /\ e \in FinalBills
      => seen[b][e] = "REJECTED" /\ status[e] = "REJECTED"

BillsOK == DecidingArePoas /\ ReadClaimsAreStored /\ PassedBillsAreRejected

BillsInv == IInv /\ BillsOK

LEMMA InitBills == Init => BillsOK
  BY DEF Init, BillsOK, DecidingArePoas, ReadClaimsAreStored, PassedBillsAreRejected,
         RequestAt

(* A claim that has been submitted, or is being, keeps its form. *)
LEMMA FormIsKept ==
  ASSUME IInv, [Next]_vars, NEW c \in Claims, status[c] # "NONE" \/ req[c].pc # "NEW"
  PROVE  form'[c] = form[c] /\ (c \in Poas)' = (c \in Poas)
         /\ (c \in FinalBills)' = (c \in FinalBills)
<1>1. req[c].pc # "NEW"
  BY DEF IInv, RequestOK
<1>2. form'[c] = form[c]
  <2>1. ASSUME NEW d \in Claims, StartCreate(d) PROVE form'[c] = form[c]
    BY <1>1, <2>1 DEF StartCreate, IInv, TypeOK
  <2>2. ASSUME NEW d \in Claims, CreateStep(d), ~StartCreate(d) PROVE form'[c] = form[c]
    BY <2>2 DEF CreateStep, ReadClaims, RefuseForFinalBill, SubmitClaim, BeginAutoDecision,
         CommitAutoDecision, RollbackOnDuplicateInvoice, FailRequest, Decide, claimVars
  <2>3. ASSUME NEW w \in Caseworkers, AssessStep(w) PROVE form'[c] = form[c]
    BY <2>3 DEF AssessStep, LockForAssessment, CommitPayInFull, CommitReject, AssessmentBy,
         RollbackAssessment, Decide, claimVars
  <2>4. CASE GrantApplication \/ RefuseApplication \/ ThreeMonthsPass \/ YearPasses
    BY <2>4 DEF GrantApplication, RefuseApplication, ThreeMonthsPass, YearPasses, claimVars
  <2> QED
    BY <2>1, <2>2, <2>3, <2>4 DEF Next, vars
<1> QED
  BY <1>2 DEF Poas, FinalBills

(* A step that keeps what requests read, and gives a new status only to a   *)
(* claim that is not a rejected bill.                                       *)
LEMMA StatusStepKeepsBills ==
  ASSUME BillsInv, [Next]_vars, seen' = seen,
         \A c \in Claims : req'[c].pc = "DECIDING" => req[c].pc = "DECIDING",
         \A e \in Claims :
           \/ status'[e] = status[e]
           \/ status'[e] # "NONE" /\ (status[e] \in {"NONE", "SUBMITTED"} \/ e \in Poas)
  PROVE  BillsOK'
<1> USE DEF BillsInv, BillsOK
<1>1. DecidingArePoas'
  BY FormIsKept DEF DecidingArePoas
<1>2. ReadClaimsAreStored'
  BY DEF ReadClaimsAreStored
<1>3. PassedBillsAreRejected'
  <2> SUFFICES ASSUME NEW b \in Claims, NEW e \in Claims,
                      seen[b][e] # "NONE", (e \in FinalBills)'
               PROVE  seen[b][e] = "REJECTED" /\ status'[e] = "REJECTED"
    BY DEF PassedBillsAreRejected
  <2>1. e \in FinalBills
    BY FormIsKept DEF ReadClaimsAreStored
  <2>2. seen[b][e] = "REJECTED" /\ status[e] = "REJECTED"
    BY <2>1 DEF PassedBillsAreRejected
  <2>3. e \notin Poas
    BY <2>1 DEF Poas, FinalBills, PoaTypes, FinalBillClaimTypes
  <2> QED
    BY <2>2, <2>3
<1> QED
  BY <1>1, <1>2, <1>3

(* What a request reads passes no bill but a rejected one. *)
LEMMA ReadClaimsKeepsBills ==
  ASSUME BillsInv, NEW c \in Claims, ReadClaims(c)
  PROVE  BillsOK'
<1> USE DEF BillsInv, BillsOK
<1>1. seen' = [seen EXCEPT ![c] = status] /\ UNCHANGED <<form, status>>
  BY DEF ReadClaims, claimVars
<1>2. \A b, e \in Claims : seen'[b][e] = IF b = c THEN status[e] ELSE seen[b][e]
  BY <1>1 DEF IInv, TypeOK
<1>3. UNCHANGED <<Poas, FinalBills>>
  BY <1>1 DEF Poas, FinalBills
<1>4. \A e \in FinalBills : status[e] \in {"NONE", "REJECTED"}
  BY DEF ReadClaims, ActiveFinalBills, ActiveFinalBillStatuses, FinalBills, IInv, TypeOK,
         Statuses
<1>5. DecidingArePoas'
  BY <1>3 DEF ReadClaims, RequestAt, DecidingArePoas, IInv, TypeOK
<1>6. ReadClaimsAreStored'
  BY <1>1, <1>2 DEF ReadClaimsAreStored
<1>7. PassedBillsAreRejected'
  BY <1>1, <1>2, <1>3, <1>4 DEF PassedBillsAreRejected
<1> QED
  BY <1>5, <1>6, <1>7

(* Only a payment on account has a reason to be rejected, or is eligible. *)
LEMMA BeginAutoDecisionKeepsBills ==
  ASSUME BillsInv, NEW c \in Claims, BeginAutoDecision(c)
  PROVE  BillsOK'
<1> USE DEF BillsInv, BillsOK
<1>1. UNCHANGED <<form, status, seen>>
  BY DEF BeginAutoDecision, claimVars
<1>2. req'[c].pc = "DECIDING" => c \in Poas
  <2>1. RejectionReasons(c, seen[c]) # {} => c \in Poas
    BY DEF RejectionReasons, ProfitCostPoas, Poas, PoaTypes
  <2>2. EligibleForAutoApproval(c) => c \in Poas
    BY DEF EligibleForAutoApproval
  <2>3. RequestAt("DONE").pc = "DONE"
    BY DEF RequestAt
  <2> QED
    BY <2>1, <2>2, <2>3 DEF BeginAutoDecision, IInv, TypeOK
<1>3. \A d \in Claims \ {c} : req'[d] = req[d]
  BY DEF BeginAutoDecision, IInv, TypeOK
<1>4. UNCHANGED <<Poas, FinalBills>>
  BY <1>1 DEF Poas, FinalBills
<1>5. DecidingArePoas'
  BY <1>2, <1>3, <1>4 DEF DecidingArePoas
<1>6. ReadClaimsAreStored' /\ PassedBillsAreRejected'
  BY <1>1, <1>4 DEF ReadClaimsAreStored, PassedBillsAreRejected
<1> QED
  BY <1>5, <1>6

(* Every other step of a request: only a claim that is not stored yet, or a *)
(* payment on account, gets a new status.                                   *)
LEMMA RequestStepKeepsBills ==
  ASSUME BillsInv, NEW c \in Claims, CreateStep(c), ~ReadClaims(c), ~BeginAutoDecision(c)
  PROVE  BillsOK'
<1> USE DEF BillsInv, BillsOK
<1>1. [Next]_vars
  BY DEF Next
<1>2. seen' = seen
  BY DEF CreateStep, StartCreate, RefuseForFinalBill, SubmitClaim, CommitAutoDecision,
         RollbackOnDuplicateInvoice, FailRequest
<1>3. /\ \A d \in Claims \ {c} : req'[d] = req[d]
      /\ req'[c].pc # "DECIDING"
  BY DEF CreateStep, StartCreate, RefuseForFinalBill, SubmitClaim, CommitAutoDecision,
         RollbackOnDuplicateInvoice, FailRequest, RequestAt, IInv, TypeOK
<1>4. ASSUME NEW e \in Claims
      PROVE  \/ status'[e] = status[e]
             \/ status'[e] # "NONE" /\ (status[e] \in {"NONE", "SUBMITTED"} \/ e \in Poas)
  <2>1. CASE SubmitClaim(c)
    <3>1. status[c] = "NONE" /\ status' = [status EXCEPT ![c] = "SUBMITTED"]
      BY <2>1 DEF SubmitClaim, IInv, RequestOK
    <3> QED
      BY <3>1 DEF IInv, TypeOK
  <2>2. CASE CommitAutoDecision(c)
    <3>1. /\ status' = [status EXCEPT ![c] = req[c].verdict]
          /\ req[c].verdict \in Verdicts
          /\ c \in Poas
      BY <2>2 DEF CommitAutoDecision, Decide, IInv, RequestOK, DecidingArePoas
    <3> QED
      BY <3>1 DEF IInv, TypeOK, Verdicts
  <2>3. CASE \/ StartCreate(c) \/ RefuseForFinalBill(c) \/ RollbackOnDuplicateInvoice(c)
             \/ FailRequest(c)
    BY <2>3 DEF StartCreate, RefuseForFinalBill, RollbackOnDuplicateInvoice, FailRequest,
                claimVars
  <2> QED
    BY <2>1, <2>2, <2>3 DEF CreateStep
<1> QED
  BY <1>1, <1>2, <1>3, <1>4, StatusStepKeepsBills

(* A caseworker decides only a claim that is SUBMITTED. *)
LEMMA AssessStepKeepsBills ==
  ASSUME BillsInv, NEW w \in Caseworkers, AssessStep(w)
  PROVE  BillsOK'
<1> USE DEF BillsInv, BillsOK
<1>1. [Next]_vars
  BY DEF Next
<1>2. UNCHANGED <<seen, req>>
  BY DEF AssessStep, LockForAssessment, CommitPayInFull, CommitReject, AssessmentBy,
         RollbackAssessment
<1>3. ASSUME NEW e \in Claims
      PROVE  \/ status'[e] = status[e]
             \/ status'[e] # "NONE" /\ (status[e] \in {"NONE", "SUBMITTED"} \/ e \in Poas)
  <2>1. CASE CommitPayInFull(w) \/ CommitReject(w)
    <3>1. PICK c \in Claims, v \in Verdicts :
            status[c] = "SUBMITTED" /\ status' = [status EXCEPT ![c] = v]
      BY <2>1 DEF CommitPayInFull, CommitReject, AssessmentBy, Decide, IInv, WorkOK,
                  LockedClaimAwaitsAssessment
    <3> QED
      BY <3>1 DEF IInv, TypeOK, Verdicts
  <2>2. CASE RollbackAssessment(w) \/ \E c \in Claims : LockForAssessment(w, c)
    BY <2>2 DEF RollbackAssessment, LockForAssessment, claimVars
  <2> QED
    BY <2>1, <2>2 DEF AssessStep
<1> QED
  BY <1>1, <1>2, <1>3, StatusStepKeepsBills

LEMMA BillsStepKeeps == BillsInv /\ [Next]_vars => BillsInv'
<1> SUFFICES ASSUME BillsInv, [Next]_vars PROVE BillsOK'
  BY StepKeeps DEF BillsInv
<1>1. ASSUME NEW c \in Claims, CreateStep(c) PROVE BillsOK'
  BY <1>1, ReadClaimsKeepsBills, BeginAutoDecisionKeepsBills, RequestStepKeepsBills
<1>2. ASSUME NEW w \in Caseworkers, AssessStep(w) PROVE BillsOK'
  BY <1>2, AssessStepKeepsBills
<1>3. CASE \/ GrantApplication \/ RefuseApplication \/ ThreeMonthsPass \/ YearPasses
           \/ UNCHANGED vars
  <2>1. UNCHANGED <<status, seen, req>>
    BY <1>3 DEF GrantApplication, RefuseApplication, ThreeMonthsPass, YearPasses,
                claimVars, vars
  <2> QED
    BY <2>1, StatusStepKeepsBills
<1> QED
  BY <1>1, <1>2, <1>3 DEF Next

THEOREM BillsInvariant == Spec => []BillsInv
<1>1. Init => BillsInv
  BY InitEstablishes, InitBills DEF BillsInv
<1>2. BillsInv /\ [Next]_vars => BillsInv'
  BY BillsStepKeeps
<1> QED
  BY <1>1, <1>2, PTL DEF Spec

(* Two final bills are active on one application only when the requests that *)
(* created them overlapped: each had read the claims before the other stored *)
(* its bill, whatever rejections and automatic decisions come in between.    *)
THEOREM BillsOverlapped == Spec => []ActiveFinalBillsOverlapped
<1>1. BillsInv => ActiveFinalBillsOverlapped
  BY DEF BillsInv, BillsOK, PassedBillsAreRejected, ActiveFinalBillsOverlapped, FinalBills
<1> QED
  BY <1>1, BillsInvariant, PTL

(***************************************************************************)
(* Payments: money moves on decisions and comes back once, and only a      *)
(* disbursement is paid twice.                                             *)
(***************************************************************************)
(* What a caseworker is about to recoup has been paid, for a final bill. *)
RecoupablesArePaid ==
  \A w \in Caseworkers :
    /\ \A p \in work[w].sources : p \in Poas /\ PaymentLine(p) \in extracts
    /\ work[w].sources # {} => work[w].claim \in FinalBills

PaidOnce ==
  \A c \in Claims :
    form[c].type # "DISBURSEMENT" => \A d, e \in PayDecisionsOf(c) : d = e

PaymentsOK == RecoupablesArePaid /\ PaymentsFollowDecisions /\ PaidOnce

PaymentsInv == BillsInv /\ PaymentsOK

LEMMA InitPayments == Init => PaymentsOK
  BY DEF Init, PaymentsOK, RecoupablesArePaid, PaymentsFollowDecisions, PaidOnce,
         PayDecisionsOf, DecisionsOf, IdleWork

(* Only a stored claim has decisions, and only a stored claim has lines. *)
LEMMA RowsAreOfStoredClaims ==
  ASSUME PaymentsInv
  PROVE  /\ \A d \in decisions : d.claim \in Claims /\ status[d.claim] # "NONE"
         /\ \A x \in extracts : /\ x.claim \in Claims /\ status[x.claim] # "NONE"
                                /\ x.of \in Claims /\ status[x.of] # "NONE"
<1> USE DEF PaymentsInv, BillsInv
<1>1. ASSUME NEW d \in decisions PROVE d.claim \in Claims /\ status[d.claim] # "NONE"
  <2>1. d.claim \in Claims
    BY DEF IInv, TypeOK
  <2>2. d \in DecisionsOf(d.claim)
    BY DEF DecisionsOf
  <2>3. status[d.claim] \in Verdicts
    BY <2>1, <2>2 DEF IInv, StatusFollowsDecisions
  <2> QED
    BY <2>1, <2>3 DEF Verdicts
<1>2. ASSUME NEW x \in extracts PROVE x.claim \in Claims /\ status[x.claim] # "NONE"
  <2>1. PayDecisionsOf(x.claim) # {}
    BY DEF PaymentsOK, PaymentsFollowDecisions
  <2>2. PICK d \in decisions : d.claim = x.claim
    BY <2>1 DEF PayDecisionsOf, DecisionsOf
  <2> QED
    BY <2>2, <1>1
<1>3. ASSUME NEW x \in extracts PROVE x.of \in Claims /\ status[x.of] # "NONE"
  <2>1. PaymentLine(x.of) \in extracts
    BY DEF PaymentsOK, PaymentsFollowDecisions
  <2> QED
    BY <2>1, <1>2 DEF PaymentLine
<1> QED
  BY <1>1, <1>2, <1>3

(* What the claims with rows claim does not change. *)
LEMMA RowFormsAreKept ==
  ASSUME PaymentsInv, [Next]_vars
  PROVE  /\ \A d \in decisions : form'[d.claim] = form[d.claim]
         /\ \A x \in extracts : /\ x.claim \in FinalBills => (x.claim \in FinalBills)'
                                /\ x.of \in Poas => (x.of \in Poas)'
  BY RowsAreOfStoredClaims, FormIsKept DEF PaymentsInv, BillsInv

(* A step that writes neither a decision nor a line. *)
LEMMA NoRowsKeepsPayments ==
  ASSUME PaymentsInv, [Next]_vars, UNCHANGED <<decisions, extracts>>, RecoupablesArePaid'
  PROVE  PaymentsOK'
<1> USE DEF PaymentsInv, PaymentsOK
<1>1. \A c \in Claims : PayDecisionsOf(c)' = PayDecisionsOf(c)
  BY DEF PayDecisionsOf, DecisionsOf
<1>2. \A c \in Claims : PayDecisionsOf(c) # {} => form'[c] = form[c]
  BY RowFormsAreKept DEF PayDecisionsOf, DecisionsOf
<1>3. PaymentsFollowDecisions'
  <2>1. \A x \in extracts : (x.claim \in Claims) /\ PaymentLine(x.of)' = PaymentLine(x.of)
    BY RowsAreOfStoredClaims DEF PaymentLine
  <2>2. \A c \in Claims :
          PayDecisionsOf(c) # {} /\ AlwaysHasLine(c)' => PaymentLine(c)' \in extracts
    BY <1>2 DEF PaymentsFollowDecisions, PaymentLine, AlwaysHasLine
  <2>3. ASSUME NEW x \in extracts
        PROVE  /\ PayDecisionsOf(x.claim)' # {}
               /\ PaymentLine(x.of)' \in extracts
               /\ x.kind = "RECOUPMENT" => (x.claim \in FinalBills)' /\ (x.of \in Poas)'
               /\ \A y \in extracts : <<x.kind, x.of>> = <<y.kind, y.of>> => x = y
    BY <1>1, <2>1, RowFormsAreKept DEF PaymentsFollowDecisions
  <2> QED
    BY <1>1, <2>2, <2>3 DEF PaymentsFollowDecisions
<1>4. PaidOnce'
  BY <1>1, <1>2 DEF PaidOnce
<1> QED
  BY <1>3, <1>4

(* Assessments that go on or end keep what they recoup. *)
LEMMA RecoupablesKept ==
  ASSUME PaymentsInv, [Next]_vars, extracts \subseteq extracts',
         \A w \in Caseworkers : work'[w] = work[w] \/ work'[w] = IdleWork
  PROVE  RecoupablesArePaid'
<1> SUFFICES ASSUME NEW w \in Caseworkers, work'[w] = work[w], work[w].sources # {}
             PROVE  /\ \A p \in work[w].sources :
                         (p \in Poas)' /\ PaymentLine(p)' \in extracts'
                    /\ (work[w].claim \in FinalBills)'
  BY DEF RecoupablesArePaid, IdleWork
<1>1. work[w].claim \in FinalBills
  BY DEF PaymentsInv, PaymentsOK, RecoupablesArePaid
<1>2. work[w].claim \in Claims /\ status[work[w].claim] = "SUBMITTED"
  BY <1>1 DEF PaymentsInv, BillsInv, IInv, LockedClaimAwaitsAssessment, FinalBills, IdleWork
<1>3. (work[w].claim \in FinalBills)'
  BY <1>1, <1>2, FormIsKept DEF PaymentsInv, BillsInv
<1>4. ASSUME NEW p \in work[w].sources PROVE (p \in Poas)' /\ PaymentLine(p)' \in extracts'
  <2>1. p \in Poas /\ PaymentLine(p) \in extracts
    BY DEF PaymentsInv, PaymentsOK, RecoupablesArePaid
  <2>2. PaymentLine(p).of = p /\ PaymentLine(p)' = PaymentLine(p)
    BY DEF PaymentLine
  <2> QED
    BY <2>1, <2>2, RowFormsAreKept
<1> QED
  BY <1>3, <1>4

(***************************************************************************)
(* A decision of claim c with the lines it writes                          *)
(***************************************************************************)
LEMMA DecisionKeepsPayments ==
  ASSUME PaymentsInv, [Next]_vars, NEW c \in Claims, status[c] # "NONE",
         NEW new, new.claim = c, decisions' = decisions \cup {new},
         NEW lines, extracts' = extracts \cup lines, InvoicesFree(lines),
         new.decision # "PAY_IN_FULL" => lines = {},
         \A x \in lines :
           \/ x = PaymentLine(c)
           \/ /\ c \in FinalBills
              /\ \E p \in Poas : PaymentLine(p) \in extracts /\ x = RecoupmentLine(c, p),
         new.decision = "PAY_IN_FULL" /\ AlwaysHasLine(c) => PaymentLine(c) \in lines,
         c \in FinalBills => DecisionsOf(c) = {},
         \A w \in Caseworkers : work'[w] = work[w] \/ work'[w] = IdleWork
  PROVE  PaymentsOK'
<1> USE DEF PaymentsInv, PaymentsOK
<1>1. form'[c] = form[c] /\ (c \in FinalBills)' = (c \in FinalBills)
  BY FormIsKept DEF BillsInv
<1>2. \A e \in Claims \ {c} : PayDecisionsOf(e)' = PayDecisionsOf(e)
  BY DEF PayDecisionsOf, DecisionsOf
<1>3. PayDecisionsOf(c)' = IF new.decision = "PAY_IN_FULL" THEN PayDecisionsOf(c) \cup {new}
                           ELSE PayDecisionsOf(c)
  BY DEF PayDecisionsOf, DecisionsOf
<1>4. \A e \in Claims : PayDecisionsOf(e) # {} => form'[e] = form[e]
  BY RowFormsAreKept DEF PayDecisionsOf, DecisionsOf
<1>5. RecoupablesArePaid'
  BY RecoupablesKept
<1>6. \A e : PaymentLine(e)' = PaymentLine(e) /\ PaymentLine(e).kind = "PAYMENT"
             /\ PaymentLine(e).of = e /\ PaymentLine(e).claim = e
  BY DEF PaymentLine
<1>7. \A p : RecoupmentLine(c, p).kind = "RECOUPMENT" /\ RecoupmentLine(c, p).of = p
             /\ RecoupmentLine(c, p).claim = c
  BY DEF RecoupmentLine
<1>8. \A e \in Claims :
        PayDecisionsOf(e)' # {} /\ AlwaysHasLine(e)' => PaymentLine(e) \in extracts'
  BY <1>1, <1>2, <1>3, <1>4 DEF PaymentsFollowDecisions, AlwaysHasLine
<1>9. ASSUME NEW x \in extracts'
      PROVE  /\ PayDecisionsOf(x.claim)' # {}
             /\ PaymentLine(x.of) \in extracts'
             /\ x.kind = "RECOUPMENT" => (x.claim \in FinalBills)' /\ (x.of \in Poas)'
  <2>1. CASE x \in extracts
    <3>1. x.claim \in Claims
      BY <2>1, RowsAreOfStoredClaims
    <3>2. PayDecisionsOf(x.claim) # {} /\ PaymentLine(x.of) \in extracts
      BY <2>1 DEF PaymentsFollowDecisions
    <3>3. x.kind = "RECOUPMENT" => (x.claim \in FinalBills)' /\ (x.of \in Poas)'
      BY <2>1, RowFormsAreKept DEF PaymentsFollowDecisions
    <3> QED
      BY <3>1, <3>2, <3>3, <1>2, <1>3
  <2>2. CASE x \in lines /\ x = PaymentLine(c)
    BY <2>2, <1>3, <1>6
  <2>3. CASE x \in lines /\ x # PaymentLine(c)
    <3>1. PICK p \in Poas : PaymentLine(p) \in extracts /\ x = RecoupmentLine(c, p)
      BY <2>3
    <3>2. c \in FinalBills /\ new.decision = "PAY_IN_FULL"
      BY <2>3
    <3>3. (p \in Poas)'
      BY <3>1, <1>6, RowFormsAreKept
    <3> QED
      BY <3>1, <3>2, <3>3, <1>1, <1>3, <1>7
  <2> QED
    BY <2>1, <2>2, <2>3
<1>10. ASSUME NEW x \in extracts', NEW y \in extracts', <<x.kind, x.of>> = <<y.kind, y.of>>
       PROVE  x = y
  <2>1. CASE x \in extracts /\ y \in extracts
    BY <1>10, <2>1 DEF PaymentsFollowDecisions
  <2>2. CASE x \in lines /\ y \in lines
    BY <1>6, <1>7, <1>10, <2>2
  <2>3. ~(x \in lines /\ y \in extracts) /\ ~(y \in lines /\ x \in extracts)
    BY <1>10 DEF InvoicesFree
  <2> QED
    BY <2>1, <2>2, <2>3
<1>11. PaymentsFollowDecisions'
  BY <1>6, <1>8, <1>9, <1>10 DEF PaymentsFollowDecisions
<1>12. PaidOnce'
  <2> SUFFICES ASSUME NEW e \in Claims, form'[e].type # "DISBURSEMENT",
                      NEW d1 \in PayDecisionsOf(e)', NEW d2 \in PayDecisionsOf(e)'
               PROVE  d1 = d2
    BY DEF PaidOnce
  <2>1. CASE PayDecisionsOf(e)' = PayDecisionsOf(e)
    BY <2>1, <1>4 DEF PaidOnce
  <2>2. CASE e = c /\ new.decision = "PAY_IN_FULL"
    <3>1. CASE AlwaysHasLine(c)
      <4>1. PaymentLine(c) \in lines
        BY <2>2, <3>1
      <4>2. PaymentLine(c) \notin extracts
        BY <4>1 DEF InvoicesFree
      <4>3. PayDecisionsOf(c) = {}
        BY <3>1, <4>2 DEF PaymentsFollowDecisions
      <4> QED
        BY <4>3, <2>2, <1>3
    <3>2. CASE ~AlwaysHasLine(c)
      <4>1. form[c].type \in ClaimTypes
        BY DEF BillsInv, IInv, TypeOK
      <4>2. c \in FinalBills
        BY <2>2, <3>2, <4>1, <1>1
           DEF AlwaysHasLine, FinalBills, ClaimTypes, PoaTypes, FinalBillClaimTypes
      <4>3. PayDecisionsOf(c) = {}
        BY <4>2 DEF PayDecisionsOf
      <4> QED
        BY <4>3, <2>2, <1>3
    <3> QED
      BY <3>1, <3>2
  <2> QED
    BY <2>1, <2>2, <1>2, <1>3
<1> QED
  BY <1>5, <1>11, <1>12

(* The lines of an automatic approval: the payment, unless there is none;    *)
(* only payments on account are decided automatically.                       *)
LEMMA CommitAutoDecisionKeepsPayments ==
  ASSUME PaymentsInv, NEW c \in Claims, CommitAutoDecision(c)
  PROVE  PaymentsOK'
<1> DEFINE v == req[c].verdict
           event == IF v = "PAY_IN_FULL" THEN "POA_AUTO_APPROVED" ELSE "POA_AUTO_REJECTED"
           new == [claim |-> c, id |-> req[c].id, decision |-> v, event |-> event,
                   reasons |-> req[c].reasons]
<1>1. status[c] # "NONE" /\ c \in Poas
  BY DEF CommitAutoDecision, PaymentsInv, BillsInv, BillsOK, DecidingArePoas, IInv, RequestOK
<1>2. PICK lines \in IF v = "PAY_IN_FULL" THEN AutoPaymentLines(c) ELSE {{}} :
        /\ InvoicesFree(lines)
        /\ Decide(c, req[c].id, v, event, req[c].reasons, lines)
        /\ work' = work
  BY DEF CommitAutoDecision
<1>3. decisions' = decisions \cup {new} /\ extracts' = extracts \cup lines
  BY <1>2 DEF Decide
<1>4. new.claim = c /\ new.decision = v
  OBVIOUS
<1>5. v # "PAY_IN_FULL" => lines = {}
  BY <1>2
<1>6. \A x \in lines : x = PaymentLine(c)
  BY <1>2 DEF AutoPaymentLines
<1>7. v = "PAY_IN_FULL" /\ AlwaysHasLine(c) => PaymentLine(c) \in lines
  BY <1>2 DEF AutoPaymentLines
<1>9. c \notin FinalBills
  BY <1>1 DEF Poas, FinalBills, PoaTypes, FinalBillClaimTypes
<1>8. [Next]_vars
  BY DEF Next, CreateStep
<1> HIDE DEF v, event, new
<1> QED
  BY <1>1, <1>2, <1>3, <1>4, <1>5, <1>6, <1>7, <1>8, <1>9, DecisionKeepsPayments

(* A caseworker pays with the payment's line, unless there is none, recoups  *)
(* what it read to be paid, and is the first to decide the claim.            *)
LEMMA CommitAssessmentKeepsPayments ==
  ASSUME PaymentsInv, NEW w \in Caseworkers, CommitPayInFull(w) \/ CommitReject(w)
  PROVE  PaymentsOK'
<1>1. PICK c \in Claims, v \in Verdicts :
        /\ work[w].claim = c /\ work[w].verdict = v /\ work[w] # IdleWork
        /\ status[c] = "SUBMITTED" /\ DecisionsOf(c) = {}
  BY DEF CommitPayInFull, CommitReject, AssessmentBy, PaymentsInv, BillsInv, IInv, WorkOK,
         LockedClaimAwaitsAssessment
<1>2. PICK lines :
        /\ lines \in IF v = "PAY_IN_FULL" THEN AssessmentLines(c, work[w].sources) ELSE {{}}
        /\ InvoicesFree(lines)
        /\ Decide(c, work[w].id, v, "CLAIM_ASSESSMENT_COMPLETED", {}, lines)
        /\ work' = [work EXCEPT ![w] = IdleWork]
  BY <1>1 DEF CommitPayInFull, CommitReject, AssessmentBy
<1> DEFINE new == [claim |-> c, id |-> work[w].id, decision |-> v,
                   event |-> "CLAIM_ASSESSMENT_COMPLETED", reasons |-> {}]
<1>3. decisions' = decisions \cup {new} /\ extracts' = extracts \cup lines
  BY <1>2 DEF Decide
<1>4. new.claim = c /\ new.decision = v
  OBVIOUS
<1>5. /\ \A p \in work[w].sources : p \in Poas /\ PaymentLine(p) \in extracts
      /\ work[w].sources # {} => c \in FinalBills
  BY <1>1 DEF PaymentsInv, PaymentsOK, RecoupablesArePaid
<1>6. \A x \in lines :
        \/ x = PaymentLine(c)
        \/ /\ c \in FinalBills
           /\ \E p \in Poas : PaymentLine(p) \in extracts /\ x = RecoupmentLine(c, p)
  <2> SUFFICES ASSUME NEW x \in lines, x # PaymentLine(c)
               PROVE  /\ c \in FinalBills
                      /\ \E p \in Poas : PaymentLine(p) \in extracts /\ x = RecoupmentLine(c, p)
    OBVIOUS
  <2>1. PICK p \in work[w].sources : x = RecoupmentLine(c, p)
    BY <1>2 DEF AssessmentLines
  <2> QED
    BY <2>1, <1>5
<1>7. v = "PAY_IN_FULL" /\ AlwaysHasLine(c) => PaymentLine(c) \in lines
  BY <1>2 DEF AssessmentLines
<1>8. \A x \in Caseworkers : work'[x] = work[x] \/ work'[x] = IdleWork
  BY <1>2 DEF PaymentsInv, BillsInv, IInv, TypeOK
<1>9. [Next]_vars
  BY DEF Next, AssessStep
<1> HIDE DEF new
<1> QED
  BY <1>1, <1>2, <1>3, <1>4, <1>6, <1>7, <1>8, <1>9, DecisionKeepsPayments

(* A caseworker reads as recoupable what has been paid, for a final bill. *)
LEMMA LockForAssessmentKeepsPayments ==
  ASSUME PaymentsInv, NEW w \in Caseworkers, NEW c \in Claims, LockForAssessment(w, c)
  PROVE  PaymentsOK'
<1>1. UNCHANGED <<form, decisions, extracts>>
  BY DEF LockForAssessment, claimVars
<1>2. /\ \A x \in Caseworkers \ {w} : work'[x] = work[x]
      /\ work'[w].claim = c
      /\ work'[w].sources # {} => c \in FinalBills /\ work'[w].sources = RecoupableSources(c)
  BY DEF LockForAssessment, PaymentsInv, BillsInv, IInv, TypeOK
<1>3. UNCHANGED <<Poas, FinalBills>> /\ \A p : PaymentLine(p)' = PaymentLine(p)
  BY <1>1 DEF Poas, FinalBills, PaymentLine
<1>4. \A p \in RecoupableSources(c) : p \in Poas /\ PaymentLine(p) \in extracts
  BY DEF RecoupableSources
<1>5. RecoupablesArePaid'
  BY <1>1, <1>2, <1>3, <1>4 DEF PaymentsInv, PaymentsOK, RecoupablesArePaid
<1>6. [Next]_vars
  BY DEF Next, AssessStep
<1> QED
  BY <1>1, <1>5, <1>6, NoRowsKeepsPayments

LEMMA PaymentsStepKeeps == PaymentsInv /\ [Next]_vars => PaymentsInv'
<1> SUFFICES ASSUME PaymentsInv, [Next]_vars PROVE PaymentsOK'
  BY BillsStepKeeps DEF PaymentsInv
<1>1. ASSUME UNCHANGED <<decisions, extracts>>,
             \A w \in Caseworkers : work'[w] = work[w] \/ work'[w] = IdleWork
      PROVE  PaymentsOK'
  BY <1>1, RecoupablesKept, NoRowsKeepsPayments
<1>2. ASSUME NEW c \in Claims, CreateStep(c), ~CommitAutoDecision(c)
      PROVE  UNCHANGED <<decisions, extracts, work>>
  BY <1>2 DEF CreateStep, StartCreate, ReadClaims, RefuseForFinalBill, SubmitClaim,
              BeginAutoDecision, RollbackOnDuplicateInvoice, FailRequest, claimVars
<1>3. ASSUME NEW w \in Caseworkers, RollbackAssessment(w) PROVE PaymentsOK'
  BY <1>1, <1>3 DEF RollbackAssessment, claimVars, PaymentsInv, BillsInv, IInv, TypeOK
<1>4. CASE \/ GrantApplication \/ RefuseApplication \/ ThreeMonthsPass \/ YearPasses
           \/ UNCHANGED vars
  BY <1>1, <1>4 DEF GrantApplication, RefuseApplication, ThreeMonthsPass, YearPasses,
                    claimVars, vars
<1>5. ASSUME NEW w \in Caseworkers, AssessStep(w) PROVE PaymentsOK'
  BY <1>3, <1>5, LockForAssessmentKeepsPayments, CommitAssessmentKeepsPayments DEF AssessStep
<1>6. ASSUME NEW c \in Claims, CreateStep(c) PROVE PaymentsOK'
  BY <1>1, <1>2, <1>6, CommitAutoDecisionKeepsPayments
<1> QED
  BY <1>4, <1>5, <1>6 DEF Next

THEOREM PaymentsInvariant == Spec => []PaymentsInv
<1>1. Init => PaymentsInv
  BY InitEstablishes, InitBills, InitPayments DEF PaymentsInv, BillsInv
<1>2. PaymentsInv /\ [Next]_vars => PaymentsInv'
  BY PaymentsStepKeeps
<1> QED
  BY <1>1, <1>2, PTL DEF Spec

(* Every line of payment has its claim's PAY_IN_FULL decision, and every     *)
(* profit cost POA and nil bill that is paid has its line; a payment on      *)
(* account comes back from a final bill only, at most once, and only when it *)
(* was paid.                                                                 *)
THEOREM PaymentsHaveDecisions == Spec => []PaymentsFollowDecisions
<1>1. PaymentsInv => PaymentsFollowDecisions
  BY DEF PaymentsInv, PaymentsOK
<1> QED
  BY <1>1, PaymentsInvariant, PTL

(* Only a disbursement is ever decided PAY_IN_FULL twice: the invoice number  *)
(* stops the second payment of a profit cost POA, and a bill has decisions of *)
(* caseworkers alone, who find it undecided under the lock.                   *)
THEOREM TwicePaidIsEmpty == Spec => []TwicePaidHasAnEmptyPayment
<1>1. PaymentsInv => TwicePaidHasAnEmptyPayment
  <2> SUFFICES ASSUME PaymentsInv, NEW c \in Claims, form[c].type # "DISBURSEMENT"
               PROVE  ~(Cardinality(PayDecisionsOf(c)) > 1)
    BY DEF TwicePaidHasAnEmptyPayment
  <2>1. \A d, e \in PayDecisionsOf(c) : d = e
    BY DEF PaymentsInv, PaymentsOK, PaidOnce
  <2>2. CASE PayDecisionsOf(c) = {}
    BY <2>2, FS_EmptySet
  <2>3. CASE PayDecisionsOf(c) # {}
    <3>1. PICK d : d \in PayDecisionsOf(c)
      BY <2>3
    <3>2. PayDecisionsOf(c) = {d}
      BY <2>1, <3>1
    <3>3. Cardinality(PayDecisionsOf(c)) = 1
      BY <3>2, FS_Singleton
    <3> QED
      BY <3>3
  <2> QED
    BY <2>2, <2>3
<1> QED
  BY <1>1, PaymentsInvariant, PTL
=============================================================================
