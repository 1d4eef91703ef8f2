---------------------------- MODULE ClaimAmounts ----------------------------
(***************************************************************************)
(* The amounts of one claim, in pence, from the form to its payment lines: *)
(* what the rules accept, how the totals are normalised, which total the   *)
(* limits are compared with, the amounts of a decision, automatic, as      *)
(* submitted or entered by a caseworker, and the lines that are paid.      *)
(* Requests do not overlap here and the application stays granted:         *)
(* ClaimLifecycle has the interleavings, and amounts as plain numbers.     *)
(* The columns keep two decimals, so pence are stored as they are.         *)
(***************************************************************************)
EXTENDS Integers, Sequences, SequencesExt

CONSTANTS
  None,       \* an amount that is not given
  Values,     \* the amounts that may be given; the schema has no lower bound
  Approved,   \* totals of what the case has been paid already; a loss counts
  CaseLimit,  \* substantive_cost_limitation
  HardLimit   \* AUTO_APPROVAL_MAX_TOTAL

ASSUME AmountsAssumption ==
  /\ Values \subseteq Int /\ Approved \subseteq Int
  /\ CaseLimit \in Nat /\ HardLimit \in Nat

(* What is not given is no amount, and no kind of payment on account. *)
ASSUME NoneAssumption ==
  None \notin Values \cup {0} /\ None \notin {"PROFIT_COST", "EXPERT_COST"}

VARIABLES
  claim,     \* None, or the claim with its status
  decision,  \* None, or who decided and the amounts of the decision
  lines      \* the payment lines

vars == <<claim, decision, lines>>

Amounts == [net : Values \cup {None}, gross : Values \cup {None}, zero : Values \cup {None}]
NoAmounts == [net |-> None, gross |-> None, zero |-> None]
Given(x) == x # None
OrZero(x) == IF Given(x) THEN x ELSE 0

(* The details a claim has besides its amounts: it has those of its type   *)
(* and no others, but half a cost template does not count as one.          *)
Details == {"INQUEST_OUTCOMES", "COST_TEMPLATE", "RECOVERY", "COUNSEL"}
DetailsOf(type) ==
  CASE type = "FINAL_BILL" -> Details
    [] type = "NIL_BILL" -> {"INQUEST_OUTCOMES", "RECOVERY"}
    [] type = "PAYMENT_ON_ACCOUNT" -> {}

(* A NON_EXPERT_DISBURSEMENT has the rules of an EXPERT_COST.              *)
Forms ==
  [type : {"PAYMENT_ON_ACCOUNT", "FINAL_BILL", "NIL_BILL"},
   poa : {None, "PROFIT_COST", "EXPERT_COST"}, amounts : Amounts,
   details : {DetailsOf(t) : t \in {"PAYMENT_ON_ACCOUNT", "FINAL_BILL", "NIL_BILL"}},
   halfGiven : {{}, {"COST_TEMPLATE"}, {"RECOVERY"}}]

(***************************************************************************)
(* What the rules accept                                                   *)
(***************************************************************************)
TypeHasPoa(f) == f.type = "PAYMENT_ON_ACCOUNT" <=> Given(f.poa)
DetailsComplete(f) ==
  f.details = DetailsOf(f.type) /\ f.halfGiven \cap {"RECOVERY", "COUNSEL"} = {}

TotalsConsistent(a) ==
  /\ Given(a.net) => a.net >= 0
  /\ Given(a.net) /\ Given(a.gross) => a.net <= a.gross

BillTotals(type, a) ==
  /\ ~Given(a.net) /\ ~Given(a.zero) /\ Given(a.gross)
  /\ IF type = "NIL_BILL" THEN a.gross = 0 ELSE a.gross > 0

ProfitCostTotals(a) ==
  IF Given(a.zero) THEN ~Given(a.net) /\ ~Given(a.gross)
                   ELSE Given(a.net) /\ Given(a.gross)

DisbursementTotals(a) == a # NoAmounts /\ (Given(a.net) => Given(a.gross))

(* __post_init__ and validate_total_claim_cost *)
Accepted(f) ==
  /\ TypeHasPoa(f)
  /\ DetailsComplete(f)
  /\ IF f.type # "PAYMENT_ON_ACCOUNT"
       THEN BillTotals(f.type, f.amounts)
       ELSE /\ TotalsConsistent(f.amounts)
            /\ IF f.poa = "PROFIT_COST" THEN ProfitCostTotals(f.amounts)
                                        ELSE DisbursementTotals(f.amounts)

(* resolve_claim_total *)
Total(a) == IF Given(a.gross) /\ ~(a.gross = 0 /\ Given(a.zero)) THEN a.gross ELSE a.zero

(* _normalize_non_profit_cost_totals *)
Normalised(f) ==
  IF f.poa = "EXPERT_COST"
    THEN [net |-> OrZero(f.amounts.net), gross |-> OrZero(Total(f.amounts)),
          zero |-> OrZero(f.amounts.zero)]
    ELSE f.amounts

(***************************************************************************)
(* The amounts of a decision                                               *)
(***************************************************************************)
(* pay_in_full_claim_from_submitted_poa_claim *)
AsSubmitted(c) ==
  [fees |-> IF c.poa = "PROFIT_COST" THEN c.amounts ELSE NoAmounts,
   disbursement |-> IF c.poa = "PROFIT_COST" THEN NoAmounts ELSE c.amounts]

(* Fees and disbursements apply to a final bill, to a payment on account   *)
(* one of the two, to a nil bill neither.                                  *)
Applies(part, c) ==
  \/ c.type = "FINAL_BILL"
  \/ c.type = "PAYMENT_ON_ACCOUNT" /\ (part = "FEES" <=> c.poa = "PROFIT_COST")

ValidFees(a) ==
  /\ ProfitCostTotals(a)
  /\ Given(a.net) => a.net <= a.gross

ValidDisbursement(a) ==
  /\ a # NoAmounts
  /\ Given(a.net) <=> Given(a.gross)
  /\ Given(a.net) =>
       \/ a.net = 0 /\ a.gross \in {0, OrZero(a.zero)}
       \/ a.gross > OrZero(a.zero) + a.net

(* PayInFullClaim.validate *)
Valid(c, d) ==
  /\ IF Applies("FEES", c) THEN ValidFees(d.fees) ELSE d.fees = NoAmounts
  /\ IF Applies("DISBURSEMENT", c) THEN ValidDisbursement(d.disbursement)
                                   ELSE d.disbursement = NoAmounts

IsNilBill(d) ==
  \A a \in {d.fees, d.disbursement} : \A x \in {a.net, a.gross, a.zero} : OrZero(x) = 0

(***************************************************************************)
(* The payment lines; the place of a line is its sequence number           *)
(***************************************************************************)
Line(amount, tax) == [amount |-> amount, tax |-> tax]

(* bankers_round of n / d *)
BankersRound(n, d) ==
  LET q == n \div d
      twice == 2 * (n % d)
  IN  IF twice > d \/ (twice = d /\ q % 2 = 1) THEN q + 1 ELSE q

(* PROFIT_COST_PAYMENT_RATE is 0.8 and VAT_MULTIPLIER 1.2. *)
PoaProfitCostLines(a) ==
  IF Given(a.zero) THEN <<Line(BankersRound(8 * a.zero, 10), "ZERO_VAT")>>
                   ELSE <<Line(BankersRound(96 * a.net, 100), "GB_VAT_20")>>

LineIfPositive(amount, tax) == IF amount > 0 THEN <<Line(amount, tax)>> ELSE <<>>

(* Mutant: the 0% VAT part is paid twice. *)
DisbursementLinesTwice(a) ==
  LineIfPositive(OrZero(a.gross), "GB_VAT_20") \o LineIfPositive(OrZero(a.zero), "ZERO_VAT")

(* build_poa_disbursement_extract and build_final_bill_disbursement_extract *)
DisbursementLines(a) ==
  LineIfPositive(OrZero(a.gross) - OrZero(a.zero), "GB_VAT_20")
    \o LineIfPositive(OrZero(a.zero), "ZERO_VAT")

(* Mutant: fees without VAT have no line. *)
StandardRatedFeesLines(a) == LineIfPositive(OrZero(a.gross), "GB_VAT_20")

(* build_final_bill_fees_extract *)
FeesLines(a) ==
  IF OrZero(a.zero) > 0 THEN <<Line(a.zero, "ZERO_VAT")>>
                        ELSE LineIfPositive(OrZero(a.gross), "GB_VAT_20")

(* poa_claim_payment_extract_lines, _final_or_nil_bill_payment_extract_lines *)
LinesOf(c, d) ==
  CASE c.poa = "PROFIT_COST" -> PoaProfitCostLines(d.fees)
    [] c.poa = "EXPERT_COST" -> DisbursementLines(d.disbursement)
    [] c.poa = None /\ IsNilBill(d) -> <<Line(0, "ZERO_VAT")>>
    [] OTHER -> FeesLines(d.fees) \o DisbursementLines(d.disbursement)

(***************************************************************************)
(* The requests                                                            *)
(***************************************************************************)
Pay(c, by, d) ==
  /\ claim' = [c EXCEPT !.status = "PAY_IN_FULL"]
  /\ decision' = [by |-> by, fees |-> d.fees, disbursement |-> d.disbursement]
  /\ lines' = LinesOf(c, d)

(* requires_manual_review *)
HeldForReview(a, approved) == Total(a) > HardLimit \/ approved + Total(a) > CaseLimit

(* CreateClaimUseCase: a claim that is not decided automatically, or whose *)
(* decision fails, waits for a caseworker.                                 *)
Submit(f, approved) ==
  /\ claim = None
  /\ Accepted(f)
  /\ LET c == [type |-> f.type, poa |-> f.poa, amounts |-> Normalised(f), status |-> "SUBMITTED"]
         poa == f.type = "PAYMENT_ON_ACCOUNT"
     IN  \/ claim' = c /\ UNCHANGED <<decision, lines>>
         \/ /\ poa
            \* a profit cost claim may also be too early or one too many
            /\ Total(c.amounts) > CaseLimit \/ c.poa = "PROFIT_COST"
            /\ claim' = [c EXCEPT !.status = "REJECTED"]
            /\ UNCHANGED <<decision, lines>>
         \/ /\ poa
            /\ Total(c.amounts) <= CaseLimit /\ ~HeldForReview(c.amounts, approved)
            /\ Pay(c, "SYSTEM", AsSubmitted(c))

AwaitsAssessment == claim # None /\ claim.status = "SUBMITTED"

(* PayInFullClaimUseCase without amounts; an invalid claim is refused. *)
PayAsSubmitted ==
  /\ AwaitsAssessment
  /\ claim.type = "PAYMENT_ON_ACCOUNT"
  /\ Valid(claim, AsSubmitted(claim))
  /\ Pay(claim, "AS_SUBMITTED", AsSubmitted(claim))

PayEntered(d) ==
  /\ AwaitsAssessment
  /\ claim.type = "PAYMENT_ON_ACCOUNT" => d.fees # NoAmounts \/ d.disbursement # NoAmounts
  /\ Valid(claim, d)
  /\ Pay(claim, "ENTERED", d)

Reject ==
  /\ AwaitsAssessment
  /\ claim' = [claim EXCEPT !.status = "REJECTED"]
  /\ UNCHANGED <<decision, lines>>

Init == claim = None /\ decision = None /\ lines = <<>>

(* The amounts that are entered are looked at only where they apply. *)
EnteredAmounts(part) ==
  IF claim # None /\ Applies(part, claim) THEN Amounts ELSE {NoAmounts}

Next ==
  \/ \E f \in Forms, approved \in Approved : Submit(f, approved)
  \/ PayAsSubmitted
  \/ \E fees \in EnteredAmounts("FEES"), disbursement \in EnteredAmounts("DISBURSEMENT") :
       PayEntered([fees |-> fees, disbursement |-> disbursement])
  \/ Reject

Spec == Init /\ [][Next]_vars

(***************************************************************************)
(* Properties                                                              *)
(***************************************************************************)
Money == Values \cup {0}
StoredAmounts == [net : Money \cup {None}, gross : Money \cup {None}, zero : Money \cup {None}]
ClaimTypes == {"PAYMENT_ON_ACCOUNT", "FINAL_BILL", "NIL_BILL"}
PoaTypes == {None, "PROFIT_COST", "EXPERT_COST"}
Decisions == [by : {"SYSTEM", "AS_SUBMITTED", "ENTERED"},
              fees : StoredAmounts, disbursement : StoredAmounts]
Lines == [amount : Int, tax : {"ZERO_VAT", "GB_VAT_20"}]

(* The variables hold what the columns can; a disbursement has all its amounts. *)
TypeOK ==
  /\ claim # None =>
       /\ claim \in [type : ClaimTypes, poa : PoaTypes, amounts : StoredAmounts,
                     status : {"SUBMITTED", "REJECTED", "PAY_IN_FULL"}]
       /\ claim.poa = "EXPERT_COST" =>
            claim.amounts \in [net : Money, gross : Money, zero : Money]
  /\ decision # None => decision \in Decisions
  /\ lines \in Seq(Lines)

Paid == claim # None /\ claim.status = "PAY_IN_FULL"
Sum == FoldSeq(LAMBDA l, n : l.amount + n, 0, lines)

(* What is paid for a payment on account as it was submitted is no more than *)
(* the total that the limits were compared with and that the funds figure    *)
(* subtracts, unless the 0% VAT part of a disbursement is less than nothing, *)
(* or more than the whole, which submission accepts and only a caseworker's  *)
(* assessment refuses.                                                       *)
PaidWithinTotal ==
  Paid /\ decision.by \in {"SYSTEM", "AS_SUBMITTED"} =>
    LET a == claim.amounts
    IN  \/ Sum <= (IF Total(a) > 0 THEN Total(a) ELSE 0)
        \/ /\ claim.poa = "EXPERT_COST"
           /\ a.zero < 0 \/ (decision.by = "SYSTEM" /\ a.zero > a.gross)

(* What is approved automatically is within both limits, with the same       *)
(* exceptions: the limits look at the total, the lines add the 0% VAT part.  *)
AutomaticPaymentWithinLimits ==
  Paid /\ decision.by = "SYSTEM" =>
    \/ Sum <= HardLimit /\ Sum <= CaseLimit
    \/ /\ claim.poa = "EXPERT_COST"
       /\ claim.amounts.zero < 0 \/ claim.amounts.zero > claim.amounts.gross

(* What a payment on account is paid without a caseworker's figures is      *)
(* bounded by what was submitted and, without a caseworker, by the limits:  *)
(* but for the 0% VAT parts that submission should not accept.              *)
PaidWithinBounds == PaidWithinTotal /\ AutomaticPaymentWithinLimits

(* A payment has a line, whose invoice number is what stops a second one,    *)
(* unless there was nothing positive to pay in a disbursement or in a bill   *)
(* with negative amounts: the payments that ClaimLifecycle allows no line.   *)
EmptyPaymentIsOfNothing ==
  Paid /\ lines = <<>> =>
    /\ claim.poa # "PROFIT_COST" /\ claim.type # "NIL_BILL"
    /\ \A a \in {decision.fees, decision.disbursement} :
         OrZero(a.gross) <= 0 /\ OrZero(a.zero) <= 0
=============================================================================
