--------------------------- MODULE ClaimLifecycle ---------------------------
(***************************************************************************)
(* The claims of one granted application: provider requests that create    *)
(* them (use_cases/create_claim.py), caseworkers that pay or reject them   *)
(* (use_cases/pay_in_full_claim.py, use_cases/reject_claim.py), and the    *)
(* decisions on the application they depend on.  The actors run            *)
(* concurrently over one PostgreSQL database at READ COMMITTED: a          *)
(* transaction is an action, except where another actor can come between   *)
(* its read and its write; those are actions of their own.                 *)
(*                                                                         *)
(* Abstractions.  An amount is a claim's total (resolve_claim_total); from *)
(* what parts it is made, and so which lines it is paid with, is a matter  *)
(* of ClaimAmounts.  The payment lines of a claim stand as one, and so do  *)
(* the lines that recoup a payment on account: a payment that has lines    *)
(* has a first one, and it is the one that collides.  claim_decision_id is *)
(* compared only between the decisions of one claim, so the serial is kept *)
(* per claim and numbers that were given back leave no gap.  The history   *)
(* event a decision is committed with is a field of the decision.          *)
(***************************************************************************)
EXTENDS Integers, FiniteSets, FiniteSetsExt

CONSTANTS
  Claims,              \* claims that may be submitted for the application
  Caseworkers,         \* concurrent assessment requests
  NoClaim,             \* what an idle caseworker holds
  Forms,               \* what a provider may claim: [type, amount]
  CaseLimit,           \* proceeding.substantive_cost_limitation
  HardLimit,           \* AUTO_APPROVAL_MAX_TOTAL
  MaxProfitCostPoas,   \* MAX_PROFIT_COST_POA_CLAIM_COUNT
  MaxDecisionIds       \* decision ids per claim; three are ever in use at once

PoaTypes == {"PROFIT_COST", "DISBURSEMENT"}
FinalBillClaimTypes == {"FINAL_BILL", "NIL_BILL"}
ClaimTypes == PoaTypes \cup FinalBillClaimTypes

ASSUME ClaimsAssumption == IsFiniteSet(Claims)
(* A payment on account may claim less than nothing, a bill may not. *)
ASSUME FormsAssumption == Forms # {} /\ Forms \subseteq [type : ClaimTypes, amount : Int]
ASSUME BillTotalsAssumption ==
  \A f \in Forms : /\ f.type = "FINAL_BILL" => f.amount > 0
                   /\ f.type = "NIL_BILL" => f.amount = 0
ASSUME NoClaimAssumption == NoClaim \notin Claims
ASSUME LimitsAssumption ==
  /\ CaseLimit \in Nat
  /\ HardLimit \in Nat
  /\ MaxProfitCostPoas \in Nat
  /\ MaxDecisionIds \in Nat

VARIABLES
  merits,      \* application_proceeding.merits_decision
  early,       \* the certificate started less than three months ago
  form,        \* what each claim claims
  status,      \* claim.status_id; "NONE" before the row is committed
  aged,        \* claims submitted more than 365 days ago
  decisions,   \* committed rows of claim_decision
  extracts,    \* committed rows of claim_payment_extract
  seen,        \* existing_summaries: the statuses a request read
  funds,       \* claim.total_funds_remaining_after_claim
  req,         \* the request that creates each claim
  work         \* the assessment each caseworker is making

vars == <<merits, early, form, status, aged, decisions, extracts, seen, funds,
          req, work>>
applicationVars == <<merits, early>>
claimVars == <<form, status, aged, decisions, extracts, funds>>

Statuses == {"NONE", "SUBMITTED", "REJECTED", "PAY_IN_FULL"}
Verdicts == {"REJECTED", "PAY_IN_FULL"}
Events == {"POA_AUTO_APPROVED", "POA_AUTO_REJECTED", "CLAIM_ASSESSMENT_COMPLETED"}
Reasons == {"MAX_POA_CLAIMS_EXCEEDED", "CLAIM_EXCEEDS_SUBSTANTIVE_COST_LIMIT",
            "PROFIT_COST_POA_CLAIM_SUBMITTED_TOO_EARLY"}

Poas == {c \in Claims : form[c].type \in PoaTypes}
FinalBills == {c \in Claims : form[c].type \in FinalBillClaimTypes}
ProfitCostPoas == {c \in Claims : form[c].type = "PROFIT_COST"}

(***************************************************************************)
(* The rules of domain/claim.py, over the statuses s a request has read.   *)
(***************************************************************************)
(* Mutant: a paid bill no longer counts as active. *)
OnlySubmittedBills == {"SUBMITTED"}

ActiveFinalBillStatuses == {"SUBMITTED", "PAY_IN_FULL"}

ActiveFinalBills(s) == {c \in FinalBills : s[c] \in ActiveFinalBillStatuses}

(* Every claim that is paid counts, a final bill as well, at what it claimed. *)
PaidTotal(s) ==
  MapThenSumSet(LAMBDA c : form[c].amount, {c \in Claims : s[c] = "PAY_IN_FULL"})

SubstantiveCostLimit == IF merits = "GRANTED" THEN CaseLimit ELSE 0

(* Mutant: a POA that has been paid no longer counts. *)
UndecidedProfitCostPoas(s) ==
  {c \in ProfitCostPoas \ aged : s[c] = "SUBMITTED"}

ActiveProfitCostPoas(s) ==
  {c \in ProfitCostPoas \ aged : s[c] \in {"SUBMITTED", "PAY_IN_FULL"}}

(* Mutant: the aggregate rule rejects, with the reason code kept for it. *)
RejectedOnAggregate(c, s) ==
  IF c \in Poas /\ PaidTotal(s) + form[c].amount > SubstantiveCostLimit
    THEN {"APPLICATION_CLAIMS_EXCEED_COST_LIMIT"} ELSE {}

RejectionReasons(c, s) ==
  {r \in Reasons :
     \/ /\ r = "MAX_POA_CLAIMS_EXCEEDED"
        /\ c \in ProfitCostPoas
        /\ Cardinality(ActiveProfitCostPoas(s)) >= MaxProfitCostPoas
     \/ /\ r = "CLAIM_EXCEEDS_SUBSTANTIVE_COST_LIMIT"
        /\ c \in Poas
        /\ form[c].amount > SubstantiveCostLimit
     \/ /\ r = "PROFIT_COST_POA_CLAIM_SUBMITTED_TOO_EARLY"
        /\ c \in ProfitCostPoas
        /\ early}

(* Mutant: the new claim alone is compared with the limit. *)
ExceedsLimitAlone(c, s) == form[c].amount > SubstantiveCostLimit

ExceedsAggregateCostLimit(c, s) ==
  PaidTotal(s) + form[c].amount > SubstantiveCostLimit

RequiresManualReview(c, s) ==
  /\ c \in Poas
  /\ \/ form[c].amount > HardLimit
     \/ ExceedsAggregateCostLimit(c, s)

(* Nothing in the code withdraws an application: its status is not a guard. *)
EligibleForAutoApproval(c) ==
  /\ c \in Poas
  /\ form[c].amount <= HardLimit
  /\ merits = "GRANTED"

(* is_claim_awaiting_assessment *)
AwaitsAssessment(c) == status[c] = "SUBMITTED"

(***************************************************************************)
(* The rows a request reads and writes                                     *)
(***************************************************************************)
DecisionsOf(c) == {d \in decisions : d.claim = c}

(* get_claim_decision_by_claim_id: the decision with the highest id. *)
IsLatestDecision(d) ==
  d \in decisions /\ \A e \in DecisionsOf(d.claim) : e.id <= d.id

LatestDecisionApproves(c) ==
  \E d \in DecisionsOf(c) : IsLatestDecision(d) /\ d.decision = "PAY_IN_FULL"

(* Mutant: the new claim is left out of the figure. *)
FundsBeforeClaim(c) ==
  LET approved == {e \in Claims : seen[c][e] # "NONE" /\ LatestDecisionApproves(e)}
  IN  CaseLimit - MapThenSumSet(LAMBDA e : form[e].amount, approved)

(* What is left of the limit when claim c is stored: the claims the request *)
(* read count when their latest decision, read one by one later, approves. *)
FundsRemainingAfter(c) ==
  LET approved == {e \in Claims : seen[c][e] # "NONE" /\ LatestDecisionApproves(e)}
  IN  CaseLimit - MapThenSumSet(LAMBDA e : form[e].amount, approved) - form[c].amount

(* nextval: an id above every id taken for claim c, committed or not. *)
TakenIds(c) ==
  {d.id : d \in DecisionsOf(c)} \cup {req[c].id}
    \cup {work[w].id : w \in {v \in Caseworkers : work[v].claim = c}}

FreshIds(c) ==
  {n \in 1..MaxDecisionIds :
     /\ \A m \in TakenIds(c) : m < n
     /\ n = 1 \/ n - 1 \in TakenIds(c)}

PaymentLine(c) == [kind |-> "PAYMENT", of |-> c, claim |-> c]
RecoupmentLine(c, poa) == [kind |-> "RECOUPMENT", of |-> poa, claim |-> c]

(* Mutant: no unique constraint. *)
InvoicesUnchecked(lines) == TRUE

(* unique(invoice_number): the number names the payment or its recoupment. *)
InvoicesFree(lines) ==
  \A x \in lines, y \in extracts : <<x.kind, x.of>> # <<y.kind, y.of>>

(* The other paid POAs of the application that have payment lines. *)
RecoupableSources(c) ==
  {p \in Poas \ {c} : status[p] = "PAY_IN_FULL" /\ PaymentLine(p) \in extracts}

(* A profit cost POA and a nil bill are paid with a line even of nothing, or *)
(* of less; the other claims only with the parts of theirs that are positive. *)
AlwaysHasLine(c) == form[c].type \in {"PROFIT_COST", "NIL_BILL"}

(* The lines a POA may be paid with at what it claimed: a disbursement of    *)
(* less than nothing may still have a part above it.                         *)
AutoPaymentLines(c) ==
  {lines \in {{}, {PaymentLine(c)}} :
     /\ AlwaysHasLine(c) \/ form[c].amount > 0 => lines # {}
     /\ ~AlwaysHasLine(c) /\ form[c].amount = 0 => lines = {}}

(* The caseworker may enter amounts of which none is positive. *)
AssessmentLines(c, sources) ==
  {payment \cup {RecoupmentLine(c, p) : p \in sources} :
     payment \in {{PaymentLine(c)}} \cup IF AlwaysHasLine(c) THEN {} ELSE {{}}}

(* Mutant: the claim is read without FOR UPDATE. *)
NoRowLock(c) == FALSE

(* SELECT ... FOR UPDATE of claim c is held by a caseworker's transaction. *)
RowLocked(c) == \E w \in Caseworkers : work[w].claim = c

(* A request that has not begun its automatic decision, or is past it. *)
RequestAt(pc) == [pc |-> pc, id |-> 0, verdict |-> "NONE", reasons |-> {}]
IdleWork == [claim |-> NoClaim, verdict |-> "NONE", id |-> 0, sources |-> {}]

Quiet == \A c \in Claims : req[c].pc \in {"NEW", "DONE"}

(* Mutant: update_claim_status is left out. *)
DecideWithoutStatus(c, id, verdict, event, reasons, lines) ==
  /\ decisions' = decisions \cup {[claim |-> c, id |-> id, decision |-> verdict,
                                   event |-> event, reasons |-> reasons]}
  /\ extracts' = extracts \cup lines
  /\ UNCHANGED <<form, status, aged, funds>>

(* The rows a decision writes before its commit. *)
Decide(c, id, verdict, event, reasons, lines) ==
  /\ decisions' = decisions \cup {[claim |-> c, id |-> id, decision |-> verdict,
                                   event |-> event, reasons |-> reasons]}
  /\ status' = [status EXCEPT ![c] = verdict]
  /\ extracts' = extracts \cup lines
  /\ UNCHANGED <<form, aged, funds>>

(***************************************************************************)
(* A provider's request: CreateClaimUseCase.execute                        *)
(***************************************************************************)
(* The application is read once and must be granted. *)
StartCreate(c) ==
  /\ req[c].pc = "NEW"
  /\ merits = "GRANTED"
  /\ \E f \in Forms : form' = [form EXCEPT ![c] = f]
  /\ req' = [req EXCEPT ![c] = RequestAt("GRANTED")]
  /\ UNCHANGED <<applicationVars, status, aged, decisions, extracts, seen, funds, work>>

(* The existing claims are read with no lock; no active final bill among them. *)
ReadClaims(c) ==
  /\ req[c].pc = "GRANTED"
  /\ ActiveFinalBills(status) = {}
  /\ seen' = [seen EXCEPT ![c] = status]
  /\ req' = [req EXCEPT ![c] = RequestAt("READ")]
  /\ UNCHANGED <<applicationVars, claimVars, work>>

RefuseForFinalBill(c) ==
  /\ req[c].pc = "GRANTED"
  /\ ActiveFinalBills(status) # {}
  /\ req' = [req EXCEPT ![c] = RequestAt("DONE")]
  /\ UNCHANGED <<applicationVars, claimVars, seen, work>>

(* The claim is inserted with its funds figure and committed. *)
SubmitClaim(c) ==
  /\ req[c].pc = "READ"
  /\ status' = [status EXCEPT ![c] = "SUBMITTED"]
  /\ funds' = [funds EXCEPT ![c] = FundsRemainingAfter(c)]
  /\ req' = [req EXCEPT ![c] = RequestAt("SUBMITTED")]
  /\ UNCHANGED <<applicationVars, form, aged, decisions, extracts, seen, work>>

(* The commit expired the application: it is read again, the summaries are *)
(* the ones from before the insert.  The INSERT of a decision takes its id *)
(* and then waits for the claim's row.                                     *)
BeginAutoDecision(c) ==
  /\ req[c].pc = "SUBMITTED"
  /\ LET reasons == RejectionReasons(c, seen[c])
         begin(v) == \E n \in FreshIds(c) :
                       req' = [req EXCEPT ![c] = [pc |-> "DECIDING", id |-> n,
                                                  verdict |-> v, reasons |-> reasons]]
     IN  \/ /\ reasons # {}
            /\ begin("REJECTED")
         \/ /\ reasons = {}
            /\ ~RequiresManualReview(c, seen[c])
            /\ EligibleForAutoApproval(c)
            /\ begin("PAY_IN_FULL")
         \/ /\ reasons = {}
            /\ RequiresManualReview(c, seen[c]) \/ ~EligibleForAutoApproval(c)
            /\ req' = [req EXCEPT ![c] = RequestAt("DONE")]
  /\ UNCHANGED <<applicationVars, claimVars, seen, work>>

(* Once no caseworker holds the row the decision is written, whatever the  *)
(* claim's status has become.                                              *)
CommitAutoDecision(c) ==
  LET v == req[c].verdict
      event == IF v = "PAY_IN_FULL" THEN "POA_AUTO_APPROVED" ELSE "POA_AUTO_REJECTED"
  IN  /\ req[c].pc = "DECIDING"
      /\ ~RowLocked(c)
      /\ \E lines \in IF v = "PAY_IN_FULL" THEN AutoPaymentLines(c) ELSE {{}} :
           /\ InvoicesFree(lines)
           /\ Decide(c, req[c].id, v, event, req[c].reasons, lines)
      /\ req' = [req EXCEPT ![c] = RequestAt("DONE")]
      /\ UNCHANGED <<applicationVars, seen, work>>

(* Mutant: the collision is not handled. *)
CollisionUnhandled(c) == FALSE

(* A caseworker has paid the claim: the payment line collides and the      *)
(* automatic approval is rolled back and logged.                           *)
RollbackOnDuplicateInvoice(c) ==
  /\ req[c].pc = "DECIDING"
  /\ ~RowLocked(c)
  /\ req[c].verdict = "PAY_IN_FULL"
  /\ \E lines \in AutoPaymentLines(c) : ~InvoicesFree(lines)
  /\ req' = [req EXCEPT ![c] = RequestAt("DONE")]
  /\ UNCHANGED <<applicationVars, claimVars, seen, work>>

(* An exception, or the end of the process: what was not committed is gone. *)
FailRequest(c) ==
  /\ req[c].pc \notin {"NEW", "DONE"}
  /\ req' = [req EXCEPT ![c] = RequestAt("DONE")]
  /\ UNCHANGED <<applicationVars, claimVars, seen, work>>

(***************************************************************************)
(* A caseworker's request: PayInFullClaimUseCase, RejectClaimUseCase       *)
(***************************************************************************)
(* The row is locked and must be SUBMITTED (else 409, and nothing changes); *)
(* the decision takes its id; a paid bill reads the POAs it will recoup.   *)
LockForAssessment(w, c) ==
  /\ work[w] = IdleWork
  /\ ~RowLocked(c)
  /\ AwaitsAssessment(c)
  /\ \E v \in Verdicts, n \in FreshIds(c) :
       work' = [work EXCEPT ![w] =
         [claim |-> c, verdict |-> v, id |-> n,
          sources |-> IF v = "PAY_IN_FULL" /\ c \in FinalBills
                        THEN RecoupableSources(c) ELSE {}]]
  /\ UNCHANGED <<applicationVars, claimVars, seen, req>>

AssessmentBy(w, verdict, lines) ==
  LET a == work[w] IN
  /\ a.verdict = verdict
  /\ InvoicesFree(lines)
  /\ Decide(a.claim, a.id, verdict, "CLAIM_ASSESSMENT_COMPLETED", {}, lines)
  /\ work' = [work EXCEPT ![w] = IdleWork]
  /\ UNCHANGED <<applicationVars, seen, req>>

CommitPayInFull(w) ==
  /\ work[w] # IdleWork
  /\ \E lines \in AssessmentLines(work[w].claim, work[w].sources) :
       AssessmentBy(w, "PAY_IN_FULL", lines)

CommitReject(w) == work[w] # IdleWork /\ AssessmentBy(w, "REJECTED", {})

(* Invalid amounts, a failed email, a colliding recoupment, a crash. *)
RollbackAssessment(w) ==
  /\ work[w] # IdleWork
  /\ work' = [work EXCEPT ![w] = IdleWork]
  /\ UNCHANGED <<applicationVars, claimVars, seen, req>>

(***************************************************************************)
(* The application the claims depend on, and the calendar                  *)
(***************************************************************************)
(* GrantDecisionUseCase: the caseworker chooses the certificate's start. *)
GrantApplication ==
  /\ merits' = "GRANTED"
  /\ early' \in BOOLEAN
  /\ UNCHANGED <<claimVars, seen, req, work>>

(* RefuseDecisionUseCase: nothing looks at the claims, or at a grant. *)
RefuseApplication ==
  /\ merits' = "REFUSED"
  /\ UNCHANGED <<early, claimVars, seen, req, work>>

(* No request is open for months. *)
ThreeMonthsPass ==
  /\ Quiet
  /\ early
  /\ early' = FALSE
  /\ UNCHANGED <<merits, claimVars, seen, req, work>>

YearPasses ==
  /\ Quiet
  /\ aged # {c \in Claims : status[c] # "NONE"}
  /\ aged' = {c \in Claims : status[c] # "NONE"}
  /\ early' = FALSE
  /\ UNCHANGED <<merits, form, status, decisions, extracts, funds, seen, req, work>>

Init ==
  /\ merits = "SUBMITTED"
  /\ early = FALSE
  /\ form = [c \in Claims |-> CHOOSE f \in Forms : TRUE]
  /\ status = [c \in Claims |-> "NONE"]
  /\ aged = {}
  /\ decisions = {}
  /\ extracts = {}
  /\ seen = [c \in Claims |-> [d \in Claims |-> "NONE"]]
  /\ funds = [c \in Claims |-> 0]
  /\ req = [c \in Claims |-> RequestAt("NEW")]
  /\ work = [w \in Caseworkers |-> IdleWork]

CreateStep(c) ==
  \/ StartCreate(c) \/ ReadClaims(c) \/ RefuseForFinalBill(c) \/ SubmitClaim(c)
  \/ BeginAutoDecision(c) \/ CommitAutoDecision(c) \/ RollbackOnDuplicateInvoice(c)
  \/ FailRequest(c)

AssessStep(w) ==
  \/ \E c \in Claims : LockForAssessment(w, c)
  \/ CommitPayInFull(w) \/ CommitReject(w) \/ RollbackAssessment(w)

Next ==
  \/ \E c \in Claims : CreateStep(c)
  \/ \E w \in Caseworkers : AssessStep(w)
  \/ GrantApplication \/ RefuseApplication
  \/ ThreeMonthsPass \/ YearPasses

Spec == Init /\ [][Next]_vars

(***************************************************************************)
(* Fairness.  A request that has started runs on, and so does an           *)
(* assessment; that it fails is never assumed.  PostgreSQL queues the      *)
(* transactions that wait for a row, so an automatic decision cannot be    *)
(* overtaken for ever: strong fairness.                                    *)
(***************************************************************************)
RequestAdvances(c) ==
  ReadClaims(c) \/ RefuseForFinalBill(c) \/ SubmitClaim(c) \/ BeginAutoDecision(c)
AutoDecisionEnds(c) == CommitAutoDecision(c) \/ RollbackOnDuplicateInvoice(c)
AssessmentEnds(w) == CommitPayInFull(w) \/ CommitReject(w) \/ RollbackAssessment(w)

Fairness ==
  /\ \A c \in Claims : WF_vars(RequestAdvances(c)) /\ SF_vars(AutoDecisionEnds(c))
  /\ \A w \in Caseworkers : WF_vars(AssessmentEnds(w))

(***************************************************************************)
(* Properties                                                              *)
(***************************************************************************)
(* The variables hold what the rows and requests they stand for can hold. *)
TypeOK ==
  /\ merits \in {"SUBMITTED", "GRANTED", "REFUSED"}
  /\ early \in BOOLEAN
  /\ form \in [Claims -> Forms]
  /\ status \in [Claims -> Statuses]
  /\ aged \subseteq Claims
  /\ decisions \subseteq [claim : Claims, id : 1..MaxDecisionIds, decision : Verdicts,
                          event : Events, reasons : SUBSET Reasons]
  /\ extracts \subseteq [kind : {"PAYMENT", "RECOUPMENT"}, of : Claims, claim : Claims]
  /\ seen \in [Claims -> [Claims -> Statuses]]
  /\ DOMAIN funds = Claims
  /\ req \in [Claims -> [pc : {"NEW", "GRANTED", "READ", "SUBMITTED", "DECIDING", "DONE"},
                         id : 0..MaxDecisionIds, verdict : Verdicts \cup {"NONE"},
                         reasons : SUBSET Reasons]]
  /\ work \in [Caseworkers -> [claim : Claims \cup {NoClaim},
                               verdict : Verdicts \cup {"NONE"},
                               id : 0..MaxDecisionIds, sources : SUBSET Claims]]

IsCaseworkers(d) == d.event = "CLAIM_ASSESSMENT_COMPLETED"
PayDecisionsOf(c) == {d \in DecisionsOf(c) : d.decision = "PAY_IN_FULL"}

(* A claim that a caseworker's transaction holds still awaits assessment, so *)
(* what is_claim_awaiting_assessment found under the lock is true at commit. *)
LockedClaimAwaitsAssessment ==
  \A w \in Caseworkers :
    work[w] # IdleWork => /\ status[work[w].claim] = "SUBMITTED"
                          /\ DecisionsOf(work[w].claim) = {}

(* claim.status_id agrees with every committed decision of the claim, except *)
(* with a caseworker's that the automatic decision overrode.                 *)
StatusFollowsDecisions ==
  /\ \A c \in Claims : status[c] \in Verdicts <=> DecisionsOf(c) # {}
  /\ \A d \in decisions :
       \/ status[d.claim] = d.decision
       \/ IsCaseworkers(d) /\ \E e \in DecisionsOf(d.claim) : ~IsCaseworkers(e)

(* Only a disbursement is ever decided PAY_IN_FULL twice, when a payment of  *)
(* it had no line: the unique invoice number stops the second payment of a   *)
(* profit cost POA, though no status check does, and a bill is decided by    *)
(* caseworkers alone, one after the other under the lock.                    *)
TwicePaidHasAnEmptyPayment ==
  \A c \in Claims :
    Cardinality(PayDecisionsOf(c)) > 1 => form[c].type = "DISBURSEMENT"

(* Money moves on decisions: a payment line has its claim's PAY_IN_FULL      *)
(* decision; a profit cost POA or a nil bill that is paid has its line, even *)
(* of nothing; a recoupment belongs to a paid bill, takes back a payment     *)
(* that was made, and does so once.                                          *)
PaymentsFollowDecisions ==
  /\ \A x \in extracts :
       /\ PayDecisionsOf(x.claim) # {}
       /\ PaymentLine(x.of) \in extracts
       /\ x.kind = "RECOUPMENT" => x.claim \in FinalBills /\ x.of \in Poas
       /\ \A y \in extracts : <<x.kind, x.of>> = <<y.kind, y.of>> => x = y
  /\ \A c \in Claims :
       PayDecisionsOf(c) # {} /\ AlwaysHasLine(c) => PaymentLine(c) \in extracts

(* Two final bills stand, submitted or paid, only when their requests        *)
(* overlapped: neither was stored when the other read the claims.            *)
ActiveFinalBillsOverlapped ==
  LET standing == {b \in FinalBills : status[b] \notin {"NONE", "REJECTED"}}
  IN  \A b1, b2 \in standing :
        b1 # b2 => seen[b1][b2] = "NONE" /\ seen[b2][b1] = "NONE"

AutoApproved == {d.claim : d \in {e \in decisions : e.event = "POA_AUTO_APPROVED"}}

(* The paid claims of less than nothing that an approval was set off against. *)
CountedLosses ==
  {c \in Claims : form[c].amount < 0 /\ \E d \in AutoApproved : seen[d][c] = "PAY_IN_FULL"}

(* The automatic approvals of a case exceed its cost limit, and what it had  *)
(* of paid claims below nothing besides, only when two of the requests did   *)
(* not see each other's claim paid.                                          *)
LimitOverrunIsConcurrent ==
  MapThenSumSet(LAMBDA c : form[c].amount, AutoApproved \cup CountedLosses) > CaseLimit =>
    \E c, d \in AutoApproved :
      c # d /\ seen[c][d] # "PAY_IN_FULL" /\ seen[d][c] # "PAY_IN_FULL"

(* More than the permitted number of profit cost POAs are approved within a  *)
(* year only when two of the requests did not count each other's claim: not  *)
(* stored yet, or rejected by a caseworker before its own approval came.     *)
PoaCountOverrunIsConcurrent ==
  LET recent == (AutoApproved \cap ProfitCostPoas) \ aged
      uncounted == {"NONE", "REJECTED"}
  IN  Cardinality(recent) > MaxProfitCostPoas =>
        \E c, d \in recent : c # d /\ seen[c][d] \in uncounted /\ seen[d][c] \in uncounted

(* The funds figure stored with a claim counts decisions, the limit rules    *)
(* count statuses.  The two agree unless a claim was stored and paid since   *)
(* the request read the claims, or an automatic decision overrode another.   *)
FundsAgreeWithStatuses ==
  [][\A c \in Claims :
       status[c] = "NONE" /\ status'[c] # "NONE" =>
         \/ funds'[c] = CaseLimit - PaidTotal(status) - form[c].amount
         \/ \E e \in Claims : seen[c][e] = "NONE" /\ status[e] = "PAY_IN_FULL"
         \/ \E e \in Claims : Cardinality({d.decision : d \in DecisionsOf(e)}) > 1]_vars

(* Every create-claim request ends, however often caseworkers take its row. *)
EveryRequestEnds == \A c \in Claims : req[c].pc # "NEW" ~> req[c].pc = "DONE"

(* Who has decided a claim, as ClaimAssessment has it. *)
DecidersOf(c) ==
  {IF IsCaseworkers(d) THEN "CASEWORKER" ELSE "SYSTEM" : d \in DecisionsOf(c)}

Assessment == INSTANCE ClaimAssessment WITH deciders <- [c \in Claims |-> DecidersOf(c)]

(* Assessment by these transactions is the assessment ClaimAssessment states. *)
ImplementsAssessment == Assessment!Spec

(***************************************************************************)
(* What the repository says that overlapping requests break                *)
(***************************************************************************)
(* claim_messages.py: no further claim once a final or nil bill is there. *)
NoClaimBesideFinalBill ==
  [][\A c \in Claims :
       status[c] = "NONE" /\ status'[c] # "NONE" => ActiveFinalBills(status) = {}]_vars
=============================================================================
