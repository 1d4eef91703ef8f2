------------------------- MODULE ClaimAmountsProofs -------------------------
(***************************************************************************)
(* Theorems about ClaimAmounts, for every set of amounts and all limits.   *)
(***************************************************************************)
EXTENDS ClaimAmounts, TLAPS

(***************************************************************************)
(* Rounding                                                                *)
(***************************************************************************)
LEMMA Division ==
  ASSUME NEW n \in Int, NEW d \in Nat \ {0}
  PROVE  /\ n \div d \in Int /\ n % d \in 0..(d - 1)
         /\ n = d * (n \div d) + (n % d)
  OBVIOUS

(* bankers_round gives a whole penny, none is nearer to n / d, and of two     *)
(* that are as near it gives the even one: ROUND_HALF_EVEN.                  *)
THEOREM BankersRoundIsNearest ==
  ASSUME NEW n \in Int, NEW d \in Nat \ {0}
  PROVE  /\ BankersRound(n, d) \in Int
         /\ 2 * (d * BankersRound(n, d) - n) \in (-d)..d
         /\ 2 * (d * BankersRound(n, d) - n) \in {-d, d} => BankersRound(n, d) % 2 = 0
<1> DEFINE q == n \div d
           r == n % d
           b == BankersRound(n, d)
<1>1. q \in Int /\ r \in 0..(d - 1) /\ n = d * q + r
  BY Division
<1>2. b = IF 2 * r > d \/ (2 * r = d /\ q % 2 = 1) THEN q + 1 ELSE q
  BY DEF BankersRound
<1> HIDE DEF q, r, b
<1>3. d * q \in Int /\ d * (q + 1) = d * q + d
  BY <1>1
<1>4. d * b - n = IF b = q THEN -r ELSE d - r
  <2>1. CASE b = q
    BY <1>1, <1>3, <2>1
  <2>2. CASE b = q + 1
    BY <1>1, <1>3, <2>2
  <2> QED
    BY <1>2, <2>1, <2>2
<1>5. CASE 2 * r > d
  BY <1>1, <1>2, <1>4, <1>5 DEF b
<1>6. CASE 2 * r = d
  <2>1. q % 2 \in {0, 1} /\ (q % 2 = 1 => (q + 1) % 2 = 0)
    BY <1>1
  <2> QED
    BY <1>1, <1>2, <1>4, <1>6, <2>1 DEF b
<1>7. CASE 2 * r < d
  BY <1>1, <1>2, <1>4, <1>7 DEF b
<1> QED
  BY <1>1, <1>5, <1>6, <1>7

(* An amount of at most k pence is rounded to at most k pence. *)
LEMMA RoundsWithin ==
  ASSUME NEW n \in Int, NEW d \in Nat \ {0}, NEW k \in Int, n <= d * k
  PROVE  BankersRound(n, d) \in Int /\ BankersRound(n, d) <= k
<1> DEFINE q == n \div d
           r == n % d
<1>1. q \in Int /\ r \in 0..(d - 1) /\ n = d * q + r
  BY Division
<1>2. BankersRound(n, d) = IF 2 * r > d \/ (2 * r = d /\ q % 2 = 1) THEN q + 1 ELSE q
  BY DEF BankersRound
<1> HIDE DEF q, r
<1>3. q <= k
  <2> SUFFICES ASSUME q >= k + 1 PROVE FALSE
    BY <1>1
  <2>1. d * q >= d * (k + 1) /\ d * (k + 1) = d * k + d
    BY <1>1
  <2>2. d * k \in Int /\ d * q \in Int
    BY <1>1
  <2> QED
    BY <1>1, <2>1, <2>2
<1>4. q = k => r = 0
  BY <1>1
<1> QED
  BY <1>1, <1>2, <1>3, <1>4

(***************************************************************************)
(* The sum of at most two lines                                            *)
(***************************************************************************)
SumOf(s) == FoldSeq(LAMBDA l, n : l.amount + n, 0, s)

First(s) == CHOOSE i \in s : TRUE

Adds(g, f, D) ==
  g = [s \in SUBSET D |-> IF s = {} THEN 0 ELSE f[First(s)].amount + g[s \ {First(s)}]]

LEMMA SumIsOfAdder == \A f : SumOf(f) = (CHOOSE g : Adds(g, f, DOMAIN f))[DOMAIN f]
  BY DEF SumOf, FoldSeq, FoldFunction, FoldFunctionOnSet, MapThenFoldSet, Adds, First

(* The fold takes the lines in any order. *)
LEMMA SumOfTwo ==
  ASSUME NEW f, DOMAIN f \subseteq {1, 2}, \A i \in DOMAIN f : f[i].amount \in Int
  PROVE  SumOf(f) = (IF 1 \in DOMAIN f THEN f[1].amount ELSE 0)
                      + (IF 2 \in DOMAIN f THEN f[2].amount ELSE 0)
<1> DEFINE D == DOMAIN f
           Part(i, s) == IF i \in s THEN f[i].amount ELSE 0
           h == [s \in SUBSET D |-> Part(1, s) + Part(2, s)]
<1>1. \A s \in SUBSET D : s # {} => First(s) \in s
  BY DEF First
<1>2. Adds(h, f, D)
  <2>1. ASSUME NEW s \in SUBSET D
        PROVE  h[s] = IF s = {} THEN 0 ELSE f[First(s)].amount + h[s \ {First(s)}]
    <3>1. s = {} => h[s] = 0
      OBVIOUS
    <3>2. ASSUME 1 \in s, First(s) = 1
          PROVE  h[s] = f[1].amount + h[s \ {1}]
      BY <3>2
    <3>3. ASSUME 2 \in s, First(s) = 2
          PROVE  h[s] = f[2].amount + h[s \ {2}]
      BY <3>3
    <3>4. s # {} => First(s) \in s /\ First(s) \in {1, 2}
      BY <1>1
    <3> HIDE DEF h
    <3> QED
      BY <3>1, <3>2, <3>3, <3>4
  <2> QED
    BY <2>1 DEF Adds
<1> DEFINE g == CHOOSE k : Adds(k, f, D)
<1>3. Adds(g, f, D)
  BY <1>2
<1>4. SumOf(f) = g[D]
  BY SumIsOfAdder
<1> HIDE DEF g, h
<1>5. \A s \in SUBSET D : g[s] = IF s = {} THEN 0 ELSE f[First(s)].amount + g[s \ {First(s)}]
  BY <1>3 DEF Adds
<1>6. g[{}] = 0
  BY <1>5
<1>7. ASSUME NEW i \in D PROVE g[{i}] = f[i].amount
  <2>1. First({i}) = i /\ {i} \ {i} = {} /\ {i} # {} /\ {i} \in SUBSET D
    BY DEF First
  <2>2. g[{i}] = f[i].amount + g[{}]
    BY <1>5, <2>1
  <2> QED
    BY <1>6, <2>2
<1>8. CASE D = {1, 2}
  <2>1. First(D) \in {1, 2}
    BY <1>1, <1>8
  <2>2. g[D] = f[First(D)].amount + g[D \ {First(D)}]
    BY <1>5, <1>8
  <2>3. First(D) = 1 => g[D] = f[1].amount + f[2].amount
    BY <1>7, <1>8, <2>2, {1, 2} \ {1} = {2}
  <2>4. First(D) = 2 => g[D] = f[2].amount + f[1].amount
    BY <1>7, <1>8, <2>2, {1, 2} \ {2} = {1}
  <2> QED
    BY <1>4, <1>8, <2>1, <2>3, <2>4
<1>9. ASSUME NEW i \in {1, 2}, D = {i} PROVE g[D] = f[i].amount
  BY <1>7, <1>9
<1>10. D = {} => g[D] = 0
  BY <1>6
<1>11. D = {1, 2} \/ D = {1} \/ D = {2} \/ D = {}
  OBVIOUS
<1> QED
  BY <1>4, <1>8, <1>9, <1>10, <1>11

(***************************************************************************)
(* The inductive invariant                                                 *)
(***************************************************************************)
(* A claim keeps what the rules accepted: a profit cost has one way to be   *)
(* paid, a disbursement all three amounts.                                  *)
Kept(c) ==
  /\ c \in [type : ClaimTypes, poa : PoaTypes, amounts : StoredAmounts,
            status : {"SUBMITTED", "REJECTED", "PAY_IN_FULL"}]
  /\ TypeHasPoa(c)
  /\ c.poa = "PROFIT_COST" => TotalsConsistent(c.amounts) /\ ProfitCostTotals(c.amounts)
  /\ c.poa = "EXPERT_COST" =>
       c.amounts \in [net : Money, gross : Money, zero : Money] /\ c.amounts.net >= 0

ClaimOK == claim # None => Kept(claim)

(* The lines are those of the decision, and the decision is valid, but for  *)
(* the automatic one, which pays what was submitted unvalidated.            *)
PaymentOK ==
  Paid =>
    /\ decision \in Decisions
    /\ lines = LinesOf(claim, decision)
    /\ decision.by \in {"SYSTEM", "AS_SUBMITTED"} =>
         /\ claim.type = "PAYMENT_ON_ACCOUNT"
         /\ decision.fees = AsSubmitted(claim).fees
         /\ decision.disbursement = AsSubmitted(claim).disbursement
    /\ decision.by # "SYSTEM" => Valid(claim, decision)
    /\ decision.by = "SYSTEM" =>
         ~(Total(claim.amounts) > HardLimit) /\ Total(claim.amounts) <= CaseLimit

AmountsInv == TypeOK /\ ClaimOK /\ PaymentOK

LEMMA InitAmounts == Init => AmountsInv
  BY DEF Init, AmountsInv, TypeOK, ClaimOK, PaymentOK, Paid

LEMMA ValuesAreInts == Money \subseteq Int /\ None \notin Money
  BY AmountsAssumption, NoneAssumption DEF Money

LEMMA OrZeroType ==
  ASSUME NEW a \in StoredAmounts
  PROVE  OrZero(a.net) \in Int /\ OrZero(a.gross) \in Int /\ OrZero(a.zero) \in Int
<1>1. \A x \in Money \cup {None} : OrZero(x) \in Int
  BY ValuesAreInts DEF OrZero, Given
<1> QED
  BY <1>1 DEF StoredAmounts

(* Fees and disbursements have lines of whole pence. *)
LEMMA LineTypes ==
  ASSUME NEW a \in StoredAmounts
  PROVE  /\ ProfitCostTotals(a) => PoaProfitCostLines(a) \in Seq(Lines)
         /\ DisbursementLines(a) \in Seq(Lines) /\ FeesLines(a) \in Seq(Lines)
<1>1. ASSUME NEW x \in Int, NEW tax \in {"ZERO_VAT", "GB_VAT_20"}
      PROVE  <<Line(x, tax)>> \in Seq(Lines) /\ LineIfPositive(x, tax) \in Seq(Lines)
  <2>1. Line(x, tax) \in Lines
    BY DEF Line, Lines
  <2> QED
    BY <2>1 DEF LineIfPositive
<1>2. ProfitCostTotals(a) => PoaProfitCostLines(a) \in Seq(Lines)
  <2> SUFFICES ASSUME ProfitCostTotals(a) PROVE PoaProfitCostLines(a) \in Seq(Lines)
    OBVIOUS
  <2>1. Given(a.zero) => a.zero \in Int
    BY ValuesAreInts DEF StoredAmounts, Given
  <2>2. ~Given(a.zero) => a.net \in Int
    BY ValuesAreInts DEF StoredAmounts, Given, ProfitCostTotals
  <2>3. \A x \in Int : BankersRound(8 * x, 10) \in Int /\ BankersRound(96 * x, 100) \in Int
    BY BankersRoundIsNearest
  <2> QED
    BY <1>1, <2>1, <2>2, <2>3 DEF PoaProfitCostLines
<1>3. DisbursementLines(a) \in Seq(Lines)
  <2>1. OrZero(a.gross) - OrZero(a.zero) \in Int /\ OrZero(a.zero) \in Int
    BY OrZeroType
  <2>2. /\ LineIfPositive(OrZero(a.gross) - OrZero(a.zero), "GB_VAT_20") \in Seq(Lines)
        /\ LineIfPositive(OrZero(a.zero), "ZERO_VAT") \in Seq(Lines)
    BY <1>1, <2>1
  <2> QED
    BY <2>2 DEF DisbursementLines
<1>4. FeesLines(a) \in Seq(Lines)
  <2>1. OrZero(a.zero) > 0 => a.zero \in Int
    BY OrZeroType DEF OrZero
  <2> QED
    BY <1>1, <2>1, OrZeroType DEF FeesLines
<1> QED
  BY <1>2, <1>3, <1>4

(* What is submitted becomes a claim the lines can be made of. *)
LEMMA SubmittedIsKept ==
  ASSUME NEW f \in Forms, Accepted(f), NEW st \in {"SUBMITTED", "REJECTED", "PAY_IN_FULL"}
  PROVE  Kept([type |-> f.type, poa |-> f.poa, amounts |-> Normalised(f), status |-> st])
<1> DEFINE a == f.amounts
<1>1. f.type \in ClaimTypes /\ f.poa \in PoaTypes /\ a \in Amounts
  BY DEF Forms, ClaimTypes, PoaTypes
<1>2. a.net \in Values \cup {None} /\ a.gross \in Values \cup {None} /\ a.zero \in Values \cup {None}
  BY <1>1 DEF Amounts
<1>3. CASE f.poa = "EXPERT_COST"
  <2>1. OrZero(a.net) \in Money /\ OrZero(Total(a)) \in Money /\ OrZero(a.zero) \in Money
    BY <1>2 DEF OrZero, Given, Total, Money
  <2>2. Normalised(f) \in [net : Money, gross : Money, zero : Money] /\ Normalised(f).net >= 0
    <3>1. TotalsConsistent(a)
      BY <1>3, NoneAssumption DEF Accepted, TypeHasPoa, Given
    <3> QED
      BY <1>3, <2>1, <3>1 DEF Normalised, TotalsConsistent, OrZero
  <2> QED
    BY <1>1, <1>3, <2>2 DEF Kept, Accepted, TypeHasPoa, StoredAmounts
<1>4. CASE f.poa # "EXPERT_COST"
  <2>1. Normalised(f) = a /\ a \in StoredAmounts
    BY <1>1, <1>4 DEF Normalised, Amounts, StoredAmounts, Money
  <2>2. TypeHasPoa(f)
    BY DEF Accepted
  <2>3. f.poa = "PROFIT_COST" => TotalsConsistent(a) /\ ProfitCostTotals(a)
    BY <2>2, NoneAssumption DEF Accepted, TypeHasPoa, Given
  <2> QED
    BY <1>1, <1>4, <2>1, <2>2, <2>3 DEF Kept, TypeHasPoa
<1> QED
  BY <1>3, <1>4

LEMMA AsSubmittedType ==
  ASSUME NEW c, Kept(c)
  PROVE  AsSubmitted(c).fees \in StoredAmounts /\ AsSubmitted(c).disbursement \in StoredAmounts
<1>1. c.amounts \in StoredAmounts /\ NoAmounts \in StoredAmounts
  BY DEF Kept, StoredAmounts, NoAmounts
<1> QED
  BY <1>1 DEF AsSubmitted

(* Every decision to pay is written as it was made. *)
LEMMA PayKeeps ==
  ASSUME NEW c, Kept(c), NEW by \in {"SYSTEM", "AS_SUBMITTED", "ENTERED"}, NEW d, Pay(c, by, d),
         d.fees \in StoredAmounts, d.disbursement \in StoredAmounts,
         by \in {"SYSTEM", "AS_SUBMITTED"} => c.type = "PAYMENT_ON_ACCOUNT" /\ d = AsSubmitted(c),
         by # "SYSTEM" => Valid(c, d),
         by = "SYSTEM" => ~(Total(c.amounts) > HardLimit) /\ Total(c.amounts) <= CaseLimit
  PROVE  AmountsInv'
<1>1. /\ claim'.type = c.type /\ claim'.poa = c.poa /\ claim'.amounts = c.amounts
      /\ Kept(claim')
  BY DEF Pay, Kept, TypeHasPoa
<1>2. /\ decision'.by = by /\ decision'.fees = d.fees /\ decision'.disbursement = d.disbursement
      /\ decision' \in Decisions
  BY DEF Pay, Decisions
<1>3. lines' = LinesOf(claim', decision')
  BY <1>1, <1>2 DEF Pay, LinesOf, IsNilBill
<1>4. AsSubmitted(claim') = AsSubmitted(c)
  BY <1>1 DEF AsSubmitted
<1>5. Valid(c, d) => Valid(claim', decision')
  BY <1>1, <1>2 DEF Valid, Applies
<1>6. lines' \in Seq(Lines)
  <2>1. c.poa = "PROFIT_COST" => ProfitCostTotals(d.fees)
    <3>1. CASE by = "ENTERED"
      BY <3>1, NoneAssumption DEF Kept, TypeHasPoa, Given, Valid, Applies, ValidFees
    <3>2. CASE by # "ENTERED"
      BY <3>2 DEF Kept, AsSubmitted
    <3> QED
      BY <3>1, <3>2
  <2>2. <<Line(0, "ZERO_VAT")>> \in Seq(Lines)
    BY DEF Line, Lines
  <2>3. c.poa \in PoaTypes
    BY DEF Kept
  <2>4. lines' = LinesOf(c, d)
    BY DEF Pay
  <2> QED
    BY <2>1, <2>2, <2>3, <2>4, LineTypes, NoneAssumption DEF LinesOf, PoaTypes
<1>7. TypeOK'
  BY <1>1, <1>2, <1>6 DEF TypeOK, Kept
<1> QED
  BY <1>1, <1>2, <1>3, <1>4, <1>5, <1>7 DEF AmountsInv, ClaimOK, PaymentOK

LEMMA SubmitKeeps ==
  ASSUME AmountsInv, NEW f \in Forms, NEW approved \in Approved, Submit(f, approved)
  PROVE  AmountsInv'
<1> DEFINE c == [type |-> f.type, poa |-> f.poa, amounts |-> Normalised(f),
                 status |-> "SUBMITTED"]
<1>1. Kept(c) /\ Kept([c EXCEPT !.status = "REJECTED"])
  <2>1. Accepted(f)
    BY DEF Submit
  <2>2. [c EXCEPT !.status = "REJECTED"] =
          [type |-> f.type, poa |-> f.poa, amounts |-> Normalised(f), status |-> "REJECTED"]
    OBVIOUS
  <2> QED
    BY <2>1, <2>2, SubmittedIsKept
<1>2. CASE /\ claim' = c \/ claim' = [c EXCEPT !.status = "REJECTED"]
           /\ UNCHANGED <<decision, lines>>
  <2>1. ~Paid'
    BY <1>2 DEF Paid
  <2> QED
    BY <1>1, <1>2, <2>1 DEF AmountsInv, TypeOK, Kept, ClaimOK, PaymentOK
<1>3. CASE /\ f.type = "PAYMENT_ON_ACCOUNT" /\ Pay(c, "SYSTEM", AsSubmitted(c))
           /\ Total(c.amounts) <= CaseLimit /\ ~HeldForReview(c.amounts, approved)
  <2>1. c.type = "PAYMENT_ON_ACCOUNT" /\ ~(Total(c.amounts) > HardLimit)
    BY <1>3 DEF HeldForReview
  <2> HIDE DEF c
  <2> QED
    BY <1>1, <1>3, <2>1, AsSubmittedType, PayKeeps
<1> QED
  BY <1>2, <1>3 DEF Submit

LEMMA AssessmentKeeps ==
  ASSUME AmountsInv,
         \/ PayAsSubmitted \/ Reject
         \/ \E fees \in EnteredAmounts("FEES"), disbursement \in EnteredAmounts("DISBURSEMENT") :
              PayEntered([fees |-> fees, disbursement |-> disbursement])
  PROVE  AmountsInv'
<1>1. Kept(claim)
  BY DEF AmountsInv, ClaimOK, PayAsSubmitted, PayEntered, Reject, AwaitsAssessment
<1>2. CASE PayAsSubmitted
  BY <1>1, <1>2, AsSubmittedType, PayKeeps DEF PayAsSubmitted
<1>3. ASSUME NEW fees \in EnteredAmounts("FEES"),
             NEW disbursement \in EnteredAmounts("DISBURSEMENT"),
             PayEntered([fees |-> fees, disbursement |-> disbursement])
      PROVE  AmountsInv'
  <2> DEFINE d == [fees |-> fees, disbursement |-> disbursement]
  <2>1. fees \in StoredAmounts /\ disbursement \in StoredAmounts
    BY DEF EnteredAmounts, Amounts, NoAmounts, StoredAmounts, Money
  <2>2. d.fees \in StoredAmounts /\ d.disbursement \in StoredAmounts
    BY <2>1
  <2>3. Valid(claim, d) /\ Pay(claim, "ENTERED", d)
    BY <1>3 DEF PayEntered
  <2> HIDE DEF d
  <2> QED
    BY <1>1, <2>2, <2>3, PayKeeps
<1>4. CASE Reject
  <2>1. Kept(claim') /\ claim'.status = "REJECTED"
    BY <1>1, <1>4 DEF Reject, Kept, TypeHasPoa
  <2> QED
    BY <1>4, <2>1 DEF Reject, AmountsInv, TypeOK, Kept, ClaimOK, PaymentOK, Paid
<1> QED
  BY <1>2, <1>3, <1>4

LEMMA StepKeepsAmounts == AmountsInv /\ [Next]_vars => AmountsInv'
<1> SUFFICES ASSUME AmountsInv, [Next]_vars PROVE AmountsInv'
  OBVIOUS
<1>1. CASE UNCHANGED vars
  BY <1>1 DEF vars, AmountsInv, TypeOK, ClaimOK, PaymentOK, Paid
<1> QED
  BY <1>1, SubmitKeeps, AssessmentKeeps DEF Next

(* A paid claim has the lines its decision asks for, and a decision that was *)
(* validated or that pays what the rules accepted.                           *)
THEOREM AmountsInvariant == Spec => []AmountsInv
<1>1. Init => AmountsInv
  BY InitAmounts
<1>2. AmountsInv /\ [Next]_vars => AmountsInv'
  BY StepKeepsAmounts
<1> QED
  BY <1>1, <1>2, PTL DEF Spec

(* Claims, decisions and lines hold what their columns can, and a paid      *)
(* disbursement has all three amounts.                                      *)
THEOREM TypeCorrect == Spec => []TypeOK
<1>1. AmountsInv => TypeOK
  BY DEF AmountsInv
<1> QED
  BY <1>1, AmountsInvariant, PTL

(***************************************************************************)
(* What the lines add up to                                                *)
(***************************************************************************)
(* A payment on account of profit costs pays at most the total claimed. *)
LEMMA ProfitCostWithinTotal ==
  ASSUME NEW a \in StoredAmounts, TotalsConsistent(a), ProfitCostTotals(a)
  PROVE  /\ SumOf(PoaProfitCostLines(a)) \in Int
         /\ SumOf(PoaProfitCostLines(a)) <= (IF Total(a) > 0 THEN Total(a) ELSE 0)
<1>1. a.net \in Money \cup {None} /\ a.gross \in Money \cup {None} /\ a.zero \in Money \cup {None}
  BY DEF StoredAmounts
<1>2. ASSUME NEW x \in Int, NEW tax PROVE SumOf(<<Line(x, tax)>>) = x
  <2> DEFINE s == <<Line(x, tax)>>
  <2>1. DOMAIN s = {1} /\ s[1].amount = x
    BY DEF Line
  <2> HIDE DEF s
  <2>2. SumOf(s) = (IF 1 \in DOMAIN s THEN s[1].amount ELSE 0)
                     + (IF 2 \in DOMAIN s THEN s[2].amount ELSE 0)
    BY <1>2, <2>1, SumOfTwo
  <2> QED
    BY <1>2, <2>1, <2>2 DEF s
<1>3. CASE Given(a.zero)
  <2> DEFINE z == a.zero
             paid == BankersRound(8 * z, 10)
             most == IF z > 0 THEN z ELSE 0
  <2>1. z \in Int /\ Total(a) = z
    BY <1>1, <1>3, ValuesAreInts DEF Given, ProfitCostTotals, Total
  <2> HIDE DEF z
  <2>2. paid \in Int /\ paid <= most
    BY <2>1, RoundsWithin
  <2>3. PoaProfitCostLines(a) = <<Line(paid, "ZERO_VAT")>>
    BY <1>3 DEF PoaProfitCostLines, z
  <2> QED
    BY <1>2, <2>1, <2>2, <2>3
<1>4. CASE ~Given(a.zero)
  <2> DEFINE n == a.net
             paid == BankersRound(96 * n, 100)
  <2>1. n \in Int /\ a.gross \in Int /\ Total(a) = a.gross /\ 0 <= n /\ n <= a.gross
    BY <1>1, <1>4, ValuesAreInts DEF Given, ProfitCostTotals, TotalsConsistent, Total
  <2> HIDE DEF n
  <2>2. paid \in Int /\ paid <= n
    BY <2>1, RoundsWithin
  <2>3. PoaProfitCostLines(a) = <<Line(paid, "GB_VAT_20")>>
    BY <1>4 DEF PoaProfitCostLines, n
  <2> QED
    BY <1>2, <2>1, <2>2, <2>3
<1> QED
  BY <1>3, <1>4

AtLeastZero(x) == IF x > 0 THEN x ELSE 0

(* A disbursement pays what is left of the whole, and the 0% VAT part. *)
LEMMA DisbursementSum ==
  ASSUME NEW a, a.gross \in Money, a.zero \in Money
  PROVE  SumOf(DisbursementLines(a)) = AtLeastZero(a.gross - a.zero) + AtLeastZero(a.zero)
<1> DEFINE p == a.gross - a.zero
           z == a.zero
           s == DisbursementLines(a)
<1>1. p \in Int /\ z \in Int /\ OrZero(a.gross) - OrZero(a.zero) = p /\ OrZero(a.zero) = z
  <2>1. Given(a.gross) /\ Given(a.zero)
    BY ValuesAreInts DEF Given
  <2>2. a.gross \in Int /\ a.zero \in Int
    BY ValuesAreInts
  <2> QED
    BY <2>1, <2>2 DEF OrZero
<1>2. s = LineIfPositive(p, "GB_VAT_20") \o LineIfPositive(z, "ZERO_VAT")
  BY <1>1 DEF DisbursementLines
<1> HIDE DEF p, z, s
<1>3. CASE p > 0 /\ z > 0
  <2>1. DOMAIN s = {1, 2} /\ s[1].amount = p /\ s[2].amount = z
    BY <1>2, <1>3 DEF LineIfPositive, Line
  <2> QED
    BY <1>1, <1>3, <2>1, SumOfTwo DEF AtLeastZero, p, z, s
<1>4. CASE p > 0 /\ ~(z > 0)
  <2>1. DOMAIN s = {1} /\ s[1].amount = p
    BY <1>2, <1>4 DEF LineIfPositive, Line
  <2> QED
    BY <1>1, <1>4, <2>1, SumOfTwo DEF AtLeastZero, p, z, s
<1>5. CASE ~(p > 0) /\ z > 0
  <2>1. DOMAIN s = {1} /\ s[1].amount = z
    BY <1>2, <1>5 DEF LineIfPositive, Line
  <2> QED
    BY <1>1, <1>5, <2>1, SumOfTwo DEF AtLeastZero, p, z, s
<1>6. CASE ~(p > 0) /\ ~(z > 0)
  <2>1. DOMAIN s = {}
    BY <1>2, <1>6 DEF LineIfPositive
  <2> QED
    BY <1>1, <1>6, <2>1, SumOfTwo DEF AtLeastZero, p, z, s
<1> QED
  BY <1>3, <1>4, <1>5, <1>6

LEMMA WithinTotal == AmountsInv => PaidWithinTotal
<1> DEFINE a == claim.amounts
<1> SUFFICES ASSUME AmountsInv, Paid, decision.by \in {"SYSTEM", "AS_SUBMITTED"}
             PROVE  \/ SumOf(lines) <= AtLeastZero(Total(a))
                    \/ /\ claim.poa = "EXPERT_COST"
                       /\ a.zero < 0 \/ (decision.by = "SYSTEM" /\ a.zero > a.gross)
  BY DEF PaidWithinTotal, Sum, SumOf, AtLeastZero
<1>1. /\ Kept(claim) /\ claim.type = "PAYMENT_ON_ACCOUNT" /\ lines = LinesOf(claim, decision)
      /\ decision.fees = AsSubmitted(claim).fees
      /\ decision.disbursement = AsSubmitted(claim).disbursement
      /\ decision.by # "SYSTEM" => Valid(claim, decision)
  BY DEF AmountsInv, ClaimOK, PaymentOK, Paid
<1>2. claim.poa \in {"PROFIT_COST", "EXPERT_COST"}
  BY <1>1 DEF Kept, PoaTypes, TypeHasPoa, Given
<1>3. CASE claim.poa = "PROFIT_COST"
  <2>1. lines = PoaProfitCostLines(decision.fees)
    BY <1>1, <1>3, NoneAssumption DEF LinesOf
  <2>2. decision.fees = a
    BY <1>1, <1>3 DEF AsSubmitted
  <2>3. a \in StoredAmounts /\ TotalsConsistent(a) /\ ProfitCostTotals(a)
    BY <1>1, <1>3 DEF Kept
  <2> QED
    BY <2>1, <2>2, <2>3, ProfitCostWithinTotal DEF AtLeastZero
<1>4. CASE claim.poa = "EXPERT_COST"
  <2>1. decision.disbursement = a /\ lines = DisbursementLines(a)
    <3>1. lines = DisbursementLines(decision.disbursement)
      BY <1>1, <1>4, NoneAssumption DEF LinesOf
    <3>2. decision.disbursement = a
      BY <1>1, <1>4 DEF AsSubmitted
    <3> QED
      BY <3>1, <3>2
  <2>2. a.net \in Money /\ a.gross \in Money /\ a.zero \in Money /\ a.net >= 0
    BY <1>1, <1>4 DEF Kept
  <2>3. /\ a.net \in Int /\ a.gross \in Int /\ a.zero \in Int
        /\ Given(a.net) /\ Given(a.gross) /\ Given(a.zero)
        /\ Total(a) = IF a.gross = 0 THEN a.zero ELSE a.gross
    BY <2>2, ValuesAreInts DEF Given, Total
  <2>4. SumOf(lines) = AtLeastZero(a.gross - a.zero) + AtLeastZero(a.zero)
    BY <2>1, <2>2, DisbursementSum
  <2>5. CASE a.zero \in 0..a.gross
    BY <2>3, <2>4, <2>5 DEF AtLeastZero
  <2>6. CASE a.zero > a.gross /\ a.zero >= 0 /\ decision.by # "SYSTEM"
    <3>1. ValidDisbursement(a)
      BY <1>1, <1>4, <2>1, <2>6 DEF Valid, Applies
    <3>2. \/ a.net = 0 /\ a.gross \in {0, a.zero}
          \/ a.gross > a.zero + a.net
      BY <2>3, <3>1 DEF ValidDisbursement, OrZero
    <3> QED
      BY <2>2, <2>3, <2>4, <2>6, <3>2 DEF AtLeastZero
  <2> QED
    BY <1>4, <2>3, <2>5, <2>6
<1> QED
  BY <1>2, <1>3, <1>4

(* For all amounts and both ways to pay a claim as it was submitted. *)
THEOREM PaidAsSubmittedWithinTotal == Spec => []PaidWithinTotal
  BY WithinTotal, AmountsInvariant, PTL

(* For all limits: an automatic approval never pays more than either. *)
THEOREM AutomaticWithinLimits == Spec => []AutomaticPaymentWithinLimits
<1>1. AmountsInv => AutomaticPaymentWithinLimits
  <2> DEFINE a == claim.amounts
  <2> SUFFICES ASSUME AmountsInv, Paid, decision.by = "SYSTEM",
                      ~(claim.poa = "EXPERT_COST" /\ (a.zero < 0 \/ a.zero > a.gross))
               PROVE  Sum <= HardLimit /\ Sum <= CaseLimit
    BY DEF AutomaticPaymentWithinLimits
  <2>1. /\ Kept(claim) /\ claim.type = "PAYMENT_ON_ACCOUNT"
        /\ lines = LinesOf(claim, decision) /\ decision.fees = AsSubmitted(claim).fees
        /\ decision.disbursement = AsSubmitted(claim).disbursement
        /\ ~(Total(a) > HardLimit) /\ Total(a) <= CaseLimit
    BY DEF AmountsInv, ClaimOK, PaymentOK, Paid
  <2>2. Sum <= AtLeastZero(Total(a))
    BY WithinTotal DEF PaidWithinTotal, AtLeastZero
  <2>3. Total(a) \in Int
    BY <2>1, ValuesAreInts DEF Kept, StoredAmounts, PoaTypes, TypeHasPoa, Given, Total,
       ProfitCostTotals
  <2>4. Sum \in Int
    <3>1. claim.poa \in {"PROFIT_COST", "EXPERT_COST"}
      BY <2>1 DEF Kept, PoaTypes, TypeHasPoa, Given
    <3>2. CASE claim.poa = "PROFIT_COST"
      <4>1. decision.fees = a /\ lines = PoaProfitCostLines(decision.fees)
        BY <2>1, <3>2, NoneAssumption DEF LinesOf, AsSubmitted
      <4>2. a \in StoredAmounts /\ TotalsConsistent(a) /\ ProfitCostTotals(a)
        BY <2>1, <3>2 DEF Kept
      <4> QED
        BY <4>1, <4>2, ProfitCostWithinTotal DEF Sum, SumOf
    <3>3. CASE claim.poa = "EXPERT_COST"
      <4>1. decision.disbursement = a
        BY <2>1, <3>3 DEF AsSubmitted
      <4>2. lines = DisbursementLines(a)
        BY <2>1, <3>3, <4>1, NoneAssumption DEF LinesOf
      <4>3. a.gross \in Money /\ a.zero \in Money
        BY <2>1, <3>3 DEF Kept
      <4>4. SumOf(lines) \in Int
        <5>1. a.gross \in Int /\ a.zero \in Int
          BY <4>3, ValuesAreInts
        <5>2. SumOf(lines) = AtLeastZero(a.gross - a.zero) + AtLeastZero(a.zero)
          BY <4>2, <4>3, DisbursementSum
        <5> QED
          BY <5>1, <5>2 DEF AtLeastZero
      <4> QED
        BY <4>4 DEF Sum, SumOf
    <3> QED
      BY <3>1, <3>2, <3>3
  <2> QED
    BY <2>1, <2>2, <2>3, <2>4, AmountsAssumption DEF AtLeastZero
<1> QED
  BY <1>1, AmountsInvariant, PTL

(* What is paid without a caseworker's figures is bounded by the submitted   *)
(* total and, without a caseworker, by the limits.                           *)
THEOREM WithinBounds == Spec => []PaidWithinBounds
<1>1. PaidWithinTotal /\ AutomaticPaymentWithinLimits => PaidWithinBounds
  BY DEF PaidWithinBounds
<1> QED
  BY <1>1, PaidAsSubmittedWithinTotal, AutomaticWithinLimits, PTL

LEMMA NoAmountIsPositive == OrZero(NoAmounts.gross) = 0 /\ OrZero(NoAmounts.zero) = 0
  BY DEF NoAmounts, OrZero, Given

LEMMA EmptyDisbursement ==
  ASSUME NEW a \in StoredAmounts, DisbursementLines(a) = <<>>
  PROVE  OrZero(a.gross) <= 0 /\ OrZero(a.zero) <= 0
<1> DEFINE g == OrZero(a.gross)
           z == OrZero(a.zero)
<1>1. g \in Int /\ z \in Int
  <2>1. g \in Money /\ z \in Money
    BY DEF StoredAmounts, OrZero, Given, Money
  <2> QED
    BY <2>1, ValuesAreInts
<1>2. DisbursementLines(a) =
        LineIfPositive(g - z, "GB_VAT_20") \o LineIfPositive(z, "ZERO_VAT")
  BY DEF DisbursementLines
<1> HIDE DEF g, z
<1>3. ~(z > 0) /\ ~(g - z > 0)
  BY <1>2 DEF LineIfPositive
<1> QED
  BY <1>1, <1>3 DEF g, z

LEMMA EmptyFees ==
  ASSUME NEW a \in StoredAmounts, FeesLines(a) = <<>>
  PROVE  OrZero(a.gross) <= 0 /\ OrZero(a.zero) <= 0
<1> DEFINE g == OrZero(a.gross)
           z == OrZero(a.zero)
<1>1. g \in Int /\ z \in Int
  <2>1. g \in Money /\ z \in Money
    BY DEF StoredAmounts, OrZero, Given, Money
  <2> QED
    BY <2>1, ValuesAreInts
<1>2. FeesLines(a) = IF z > 0 THEN <<Line(a.zero, "ZERO_VAT")>> ELSE LineIfPositive(g, "GB_VAT_20")
  BY DEF FeesLines
<1> HIDE DEF g, z
<1>3. ~(z > 0) /\ ~(g > 0)
  BY <1>2 DEF LineIfPositive
<1> QED
  BY <1>1, <1>3 DEF g, z

(* Whatever a caseworker enters and whatever was submitted: a payment with  *)
(* no line, and so with no invoice number, is one of nothing.               *)
THEOREM PaymentsWithoutLines == Spec => []EmptyPaymentIsOfNothing
<1>1. AmountsInv => EmptyPaymentIsOfNothing
  <2> DEFINE fees == decision.fees
             disbursement == decision.disbursement
             Nothing(a) == OrZero(a.gross) <= 0 /\ OrZero(a.zero) <= 0
  <2> SUFFICES ASSUME AmountsInv, Paid, lines = <<>>
               PROVE  /\ claim.poa # "PROFIT_COST" /\ claim.type # "NIL_BILL"
                      /\ Nothing(fees) /\ Nothing(disbursement)
    BY DEF EmptyPaymentIsOfNothing
  <2>1. /\ Kept(claim) /\ LinesOf(claim, decision) = <<>>
        /\ fees \in StoredAmounts /\ disbursement \in StoredAmounts
        /\ decision.by # "SYSTEM" => Valid(claim, decision)
        /\ decision.by = "SYSTEM" =>
             /\ claim.type = "PAYMENT_ON_ACCOUNT"
             /\ decision.fees = AsSubmitted(claim).fees
    BY DEF AmountsInv, ClaimOK, PaymentOK, Paid, Decisions
  <2>2. /\ claim.type \in ClaimTypes /\ claim.poa \in PoaTypes
        /\ claim.type = "PAYMENT_ON_ACCOUNT" <=> claim.poa # None
    BY <2>1 DEF Kept, TypeHasPoa, Given
  <2>3. Nothing(NoAmounts)
    BY NoAmountIsPositive
  <2>4. claim.poa # "PROFIT_COST"
    BY <2>1, NoneAssumption DEF LinesOf, PoaProfitCostLines
  <2>5. CASE claim.poa = "EXPERT_COST"
    <3>1. DisbursementLines(disbursement) = <<>>
      BY <2>1, <2>5, NoneAssumption DEF LinesOf
    <3>2. claim.type = "PAYMENT_ON_ACCOUNT"
      BY <2>2, <2>5, NoneAssumption
    <3>3. fees = NoAmounts
      BY <2>1, <2>5, <3>2 DEF Valid, Applies, AsSubmitted
    <3> HIDE DEF fees, disbursement
    <3> QED
      BY <2>1, <2>3, <2>4, <3>1, <3>2, <3>3, EmptyDisbursement
  <2>6. CASE claim.poa = None
    <3>1. ~IsNilBill(decision) /\ FeesLines(fees) \o DisbursementLines(disbursement) = <<>>
      BY <2>1, <2>6, NoneAssumption DEF LinesOf
    <3>2. claim.type # "NIL_BILL"
      <4> SUFFICES ASSUME claim.type = "NIL_BILL" PROVE FALSE
        OBVIOUS
      <4>1. fees = NoAmounts /\ disbursement = NoAmounts
        BY <2>1 DEF Valid, Applies
      <4> QED
        BY <3>1, <4>1 DEF IsNilBill, NoAmounts, OrZero, Given
    <3>3. FeesLines(fees) = <<>> /\ DisbursementLines(disbursement) = <<>>
      BY <3>1 DEF FeesLines, DisbursementLines, LineIfPositive
    <3> HIDE DEF fees, disbursement
    <3> QED
      BY <2>1, <2>4, <3>2, <3>3, EmptyDisbursement, EmptyFees
  <2> QED
    BY <2>2, <2>4, <2>5, <2>6 DEF PoaTypes
<1> QED
  BY <1>1, AmountsInvariant, PTL
=============================================================================
