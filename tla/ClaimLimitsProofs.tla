-------------------------- MODULE ClaimLimitsProofs --------------------------
(***************************************************************************)
(* Theorems about the limits of ClaimLifecycle: automatic approvals exceed *)
(* the cost limit of the case, or the number of profit cost POAs, only     *)
(* when requests overlapped, and the funds figure agrees with the rules.   *)
(*                                                                         *)
(* The prover cannot instantiate the library's induction theorems, which   *)
(* take a predicate.  Where a fact needs induction over a finite set, the  *)
(* set of its counterexamples has a least member (LeastSubset), and that   *)
(* one is refuted.                                                         *)
(***************************************************************************)
EXTENDS ClaimLifecycleProofs, WellFoundedInduction

Total(F, T) == MapThenSumSet(LAMBDA x : F[x].amount, T)

First(s) == CHOOSE x \in s : TRUE

Adds(g, F, T) ==
  g = [s \in SUBSET T |-> IF s = {} THEN 0 ELSE F[First(s)].amount + g[s \ {First(s)}]]

LEMMA TotalIsOfAdder == \A F, T : Total(F, T) = (CHOOSE g : Adds(g, F, T))[T]
  BY DEF Total, MapThenSumSet, MapThenFoldSet, Adds, First

(* A family of subsets of a finite set has a least one. *)
LEMMA LeastSubset ==
  ASSUME NEW S, IsFiniteSet(S), NEW M, M \subseteq SUBSET S, M # {}
  PROVE  \E T \in M : \A U \in M : U \subseteq T => U = T
<1>1. IsWellFoundedOn(StrictSubsetOrdering(S), SUBSET S)
  BY FS_StrictSubsetOrderingWellFounded, FS_FiniteSubsetsOfFinite
<1>2. PICK T \in M : \A U \in M : ~(<<U, T>> \in StrictSubsetOrdering(S))
  BY <1>1, WFMin
<1> QED
  BY <1>2 DEF StrictSubsetOrdering

(* So has a set of natural numbers: the shortest interval 0..m with m among them. *)
LEMMA LeastNatural ==
  ASSUME NEW M, M \subseteq Nat, M # {}
  PROVE  \E m \in M : \A k \in M : m <= k
<1>1. PICK n \in M : TRUE
  OBVIOUS
<1> DEFINE Intervals == {s \in SUBSET (0..n) : \E k \in M : s = 0..k}
<1>2. IsFiniteSet(0..n)
  BY <1>1, FS_Interval
<1>3. 0..n \in Intervals
  BY <1>1
<1>4. PICK s \in Intervals : \A r \in Intervals : r \subseteq s => r = s
  <2> DEFINE S == 0..n
  <2>1. IsFiniteSet(S) /\ Intervals \subseteq SUBSET S /\ Intervals # {}
    BY <1>2, <1>3
  <2> HIDE DEF S, Intervals
  <2> QED
    BY <2>1, LeastSubset
<1>5. PICK m \in M : s = 0..m /\ 0..m \subseteq 0..n
  BY <1>4
<1>6. m <= n
  BY <1>1, <1>5
<1>7. ASSUME NEW k \in M, k < m PROVE FALSE
  <2>1. 0..k \in Intervals /\ 0..k \subseteq 0..m
    BY <1>1, <1>6, <1>7
  <2>2. 0..k = 0..m
    BY <1>4, <1>5, <2>1
  <2>3. m \in 0..m /\ m \notin 0..k
    BY <1>7
  <2> QED
    BY <2>2, <2>3
<1> QED
  BY <1>7

LEMMA FirstIsMember == ASSUME NEW s, s # {} PROVE First(s) \in s
  BY DEF First

(* Subsets of at most n elements *)
Upto(n, T) == {s \in SUBSET T : Cardinality(s) <= n}
Layer(g, n, F, T) ==
  g = [s \in Upto(n, T) |-> IF s = {} THEN 0 ELSE F[First(s)].amount + g[s \ {First(s)}]]

LEMMA AdderExists ==
  ASSUME NEW F, NEW T, IsFiniteSet(T)
  PROVE  Adds(CHOOSE g : Adds(g, F, T), F, T)
<1> DEFINE N == {n \in Nat : \E g : Layer(g, n, F, T)}
<1>1. 0 \in N
  <2>1. \A s \in Upto(0, T) : s = {}
    BY FS_Subset, FS_EmptySet, FS_CardinalityType DEF Upto
  <2>2. Layer([s \in Upto(0, T) |-> 0], 0, F, T)
    BY <2>1 DEF Layer
  <2> QED
    BY <2>2
<1>2. ASSUME NEW n \in N PROVE n + 1 \in N
  <2>1. PICK g : Layer(g, n, F, T)
    OBVIOUS
  <2> DEFINE h == [s \in Upto(n + 1, T) |->
                     IF s = {} THEN 0 ELSE F[First(s)].amount + g[s \ {First(s)}]]
  <2>2. ASSUME NEW s \in Upto(n + 1, T), s # {}
        PROVE  s \ {First(s)} \in Upto(n, T) \cap Upto(n + 1, T)
    <3>1. IsFiniteSet(s) /\ First(s) \in s
      BY <2>2, FS_Subset, FirstIsMember DEF Upto
    <3>2. Cardinality(s \ {First(s)}) = Cardinality(s) - 1 /\ Cardinality(s) \in Nat
      BY <3>1, FS_RemoveElement, FS_CardinalityType
    <3> QED
      BY <3>2 DEF Upto
  <2>3. ASSUME NEW s \in Upto(n, T) PROVE s \in Upto(n + 1, T) /\ g[s] = h[s]
    <3>1. Cardinality(s) \in Nat
      BY FS_Subset, FS_CardinalityType DEF Upto
    <3>2. s \in Upto(n + 1, T)
      BY <3>1 DEF Upto
    <3> QED
      BY <2>1, <3>2 DEF Layer
  <2>4. Layer(h, n + 1, F, T)
    BY <2>2, <2>3 DEF Layer
  <2> QED
    BY <2>4
<1>3. Cardinality(T) \in N
  <2> SUFFICES ASSUME Nat \ N # {} PROVE FALSE
    BY FS_CardinalityType
  <2>1. PICK m \in Nat \ N : \A k \in Nat \ N : m <= k
    BY LeastNatural
  <2>2. m - 1 \in N
    BY <1>1, <2>1
  <2> QED
    BY <1>2, <2>1, <2>2
<1>4. PICK g : Layer(g, Cardinality(T), F, T)
  BY <1>3
<1>5. Upto(Cardinality(T), T) = SUBSET T
  BY FS_Subset DEF Upto
<1>6. Adds(g, F, T)
  BY <1>4, <1>5 DEF Layer, Adds
<1> QED
  BY <1>6

(* The sum is its first element's amount and the sum of the others. *)
LEMMA TotalSteps ==
  ASSUME NEW F, NEW T, IsFiniteSet(T)
  PROVE  Total(F, T) = IF T = {} THEN 0 ELSE F[First(T)].amount + Total(F, T \ {First(T)})
<1> DEFINE g == CHOOSE h : Adds(h, F, T)
           U == T \ {First(T)}
           k == CHOOSE h : Adds(h, F, U)
<1>1. Adds(g, F, T) /\ Adds(k, F, U)
  BY AdderExists, FS_RemoveElement
<1>2. Total(F, T) = g[T] /\ Total(F, U) = k[U]
  BY TotalIsOfAdder
<1> HIDE DEF g, k
<1>3. g[U] = k[U]
  <2> DEFINE M == {s \in SUBSET U : g[s] # k[s]}
  <2> SUFFICES ASSUME M # {} PROVE FALSE
    OBVIOUS
  <2>1. IsFiniteSet(U)
    BY FS_RemoveElement
  <2>2. PICK s \in M : \A r \in M : r \subseteq s => r = s
    <3>1. M \subseteq SUBSET U
      OBVIOUS
    <3> HIDE DEF M
    <3> QED
      BY <2>1, <3>1, LeastSubset
  <2>3. s # {} => s \ {First(s)} \notin M
    BY <2>2, FirstIsMember
  <2> QED
    BY <1>1, <2>2, <2>3 DEF Adds
<1>4. g[T] = IF T = {} THEN 0 ELSE F[First(T)].amount + g[U]
  BY <1>1 DEF Adds
<1> QED
  BY <1>2, <1>3, <1>4

Amounts(F, T) == \A x \in T : F[x].amount \in Int

LEMMA TotalType ==
  ASSUME NEW F, NEW T, IsFiniteSet(T), Amounts(F, T)
  PROVE  Total(F, T) \in Int
<1> DEFINE M == {s \in SUBSET T : Total(F, s) \notin Int}
<1> SUFFICES ASSUME M # {} PROVE FALSE
  OBVIOUS
<1>1. PICK s \in M : \A r \in M : r \subseteq s => r = s
  <2>1. M \subseteq SUBSET T
    OBVIOUS
  <2> HIDE DEF M
  <2> QED
    BY <2>1, LeastSubset
<1>2. IsFiniteSet(s)
  BY FS_Subset
<1>3. s # {}
  <2>1. Total(F, {}) = 0
    BY FS_EmptySet, TotalSteps
  <2> QED
    BY <2>1
<1>4. First(s) \in s /\ s \ {First(s)} \notin M
  BY <1>1, <1>3, FirstIsMember
<1> QED
  BY <1>1, <1>2, <1>3, <1>4, TotalSteps DEF Amounts

(* The order in which the elements are taken does not matter. *)
LEMMA TotalRemoves ==
  ASSUME NEW F, NEW T, IsFiniteSet(T), Amounts(F, T), NEW x \in T
  PROVE  Total(F, T) = F[x].amount + Total(F, T \ {x})
<1> DEFINE Splits(s) == \A y \in s : Total(F, s) = F[y].amount + Total(F, s \ {y})
           M == {s \in SUBSET T : ~Splits(s)}
<1> SUFFICES ASSUME M # {} PROVE FALSE
  OBVIOUS
<1>1. PICK s \in M : \A r \in M : r \subseteq s => r = s
  <2>1. M \subseteq SUBSET T
    OBVIOUS
  <2> HIDE DEF M
  <2> QED
    BY <2>1, LeastSubset
<1>2. PICK y \in s : Total(F, s) # F[y].amount + Total(F, s \ {y})
  BY <1>1
<1> DEFINE f == First(s)
<1>3. IsFiniteSet(s) /\ IsFiniteSet(s \ {y}) /\ IsFiniteSet(s \ {f}) /\ f \in s
  BY FS_Subset, <1>2, FirstIsMember
<1> HIDE DEF f
<1>4. Total(F, s) = F[f].amount + Total(F, s \ {f})
  BY <1>2, <1>3, TotalSteps DEF f
<1>5. f # y
  BY <1>2, <1>4
<1>6. s \ {y} \notin M /\ s \ {f} \notin M
  BY <1>1, <1>2, <1>3
<1> DEFINE u == s \ {f, y}
<1>7. u = (s \ {f}) \ {y} /\ u = (s \ {y}) \ {f}
  OBVIOUS
<1>8. IsFiniteSet(u) /\ Amounts(F, u)
  BY <1>3, FS_Subset DEF Amounts
<1>9. /\ Total(F, s \ {f}) = F[y].amount + Total(F, u)
      /\ Total(F, s \ {y}) = F[f].amount + Total(F, u)
  BY <1>2, <1>3, <1>5, <1>6, <1>7
<1> HIDE DEF u
<1>10. Total(F, u) \in Int /\ F[y].amount \in Int /\ F[f].amount \in Int
  BY <1>2, <1>3, <1>8, TotalType DEF Amounts
<1>11. Total(F, s) = F[y].amount + (F[f].amount + Total(F, u))
  BY <1>4, <1>9, <1>10
<1> QED
  BY <1>2, <1>9, <1>11

(* More elements sum to no less when their amounts are not negative, and to  *)
(* no more when they are not positive: k is the sign.                        *)
LEMMA TotalMoves ==
  ASSUME NEW F, NEW T, IsFiniteSet(T), Amounts(F, T), NEW U \in SUBSET T,
         NEW k \in {1, -1}, \A x \in T \ U : k * F[x].amount >= 0
  PROVE  k * Total(F, U) <= k * Total(F, T)
<1> DEFINE M == {s \in SUBSET T : U \subseteq s /\ ~(k * Total(F, U) <= k * Total(F, s))}
<1> SUFFICES ASSUME M # {} PROVE FALSE
  OBVIOUS
<1>1. PICK s \in M : \A r \in M : r \subseteq s => r = s
  <2>1. M \subseteq SUBSET T
    OBVIOUS
  <2> HIDE DEF M
  <2> QED
    BY <2>1, LeastSubset
<1>2. IsFiniteSet(s) /\ IsFiniteSet(U) /\ Amounts(F, s) /\ Amounts(F, U)
  BY FS_Subset DEF Amounts
<1>3. Total(F, s) \in Int /\ Total(F, U) \in Int
  BY <1>2, TotalType
<1>4. PICK x : x \in s /\ x \notin U
  <2>1. s # U
    BY <1>1, <1>3
  <2> QED
    BY <1>1, <2>1
<1>5. s \ {x} \notin M /\ s \ {x} \in SUBSET T /\ U \subseteq s \ {x}
  BY <1>1, <1>4
<1>6. IsFiniteSet(s \ {x}) /\ Amounts(F, s \ {x})
  BY <1>2, FS_Subset DEF Amounts
<1>7. Total(F, s \ {x}) \in Int
  BY <1>6, TotalType
<1>8. Total(F, s) = F[x].amount + Total(F, s \ {x})
  BY <1>2, <1>4, TotalRemoves
<1>9. F[x].amount \in Int /\ k * F[x].amount >= 0
  BY <1>1, <1>4 DEF Amounts
<1>10. /\ k * Total(F, U) <= k * Total(F, s \ {x})
       /\ ~(k * Total(F, U) <= k * Total(F, s))
  BY <1>1, <1>5
<1> HIDE DEF M
<1>11. CASE k = 1
  BY <1>3, <1>7, <1>8, <1>9, <1>10, <1>11
<1>12. CASE k = -1
  BY <1>3, <1>7, <1>8, <1>9, <1>10, <1>12
<1> QED
  BY <1>11, <1>12

(* What only the one set has is not positive, what only the other has is not *)
(* negative: the first sums to no more.                                      *)
LEMMA TotalCompares ==
  ASSUME NEW F, NEW U, NEW T, IsFiniteSet(U), IsFiniteSet(T), Amounts(F, U), Amounts(F, T),
         \A x \in U \ T : F[x].amount <= 0, \A x \in T \ U : F[x].amount >= 0
  PROVE  Total(F, U) <= Total(F, T)
<1> DEFINE I == U \cap T
<1>1. I \in SUBSET U /\ I \in SUBSET T /\ IsFiniteSet(I) /\ Amounts(F, I)
  BY FS_Subset DEF Amounts
<1>2. \A x \in T \ I : 1 * F[x].amount >= 0
  BY DEF Amounts
<1>3. \A x \in U \ I : (-1) * F[x].amount >= 0
  BY DEF Amounts
<1> HIDE DEF I
<1>4. 1 * Total(F, I) <= 1 * Total(F, T)
  BY <1>1, <1>2, TotalMoves
<1>5. (-1) * Total(F, I) <= (-1) * Total(F, U)
  BY <1>1, <1>3, TotalMoves
<1>6. Total(F, I) \in Int /\ Total(F, U) \in Int /\ Total(F, T) \in Int
  BY <1>1, TotalType
<1> QED
  BY <1>4, <1>5, <1>6

(* Only the amounts of the members count. *)
LEMMA TotalAgrees ==
  ASSUME NEW F, NEW G, NEW T, IsFiniteSet(T), \A x \in T : F[x].amount = G[x].amount
  PROVE  Total(F, T) = Total(G, T)
<1> DEFINE M == {s \in SUBSET T : Total(F, s) # Total(G, s)}
<1> SUFFICES ASSUME M # {} PROVE FALSE
  OBVIOUS
<1>1. PICK s \in M : \A r \in M : r \subseteq s => r = s
  <2>1. M \subseteq SUBSET T
    OBVIOUS
  <2> HIDE DEF M
  <2> QED
    BY <2>1, LeastSubset
<1>2. IsFiniteSet(s)
  BY FS_Subset
<1>3. s # {} => First(s) \in s /\ s \ {First(s)} \notin M
  BY <1>1, FirstIsMember
<1> QED
  BY <1>1, <1>2, <1>3, TotalSteps

USE ClaimsAssumption, FormsAssumption, LimitsAssumption

(***************************************************************************)
(* What the automatic approvals of ClaimLifecycle know                     *)
(***************************************************************************)
Approving(c) ==
  c \in AutoApproved \/ (req[c].pc = "DECIDING" /\ req[c].verdict = "PAY_IN_FULL")

SeenPaid(r) == {c \in Claims : seen[r][c] = "PAY_IN_FULL"}
SeenActive(r) == {c \in ProfitCostPoas \ aged : seen[r][c] \in {"SUBMITTED", "PAY_IN_FULL"}}

(* Of any requests that pairwise saw one the other's claim in such a status, *)
(* one saw it of all the others: the one that read last.                     *)
LastReader(counted) ==
  \A A \in SUBSET Claims :
    /\ A # {}
    /\ \A c, d \in A : c # d => seen[c][d] \in counted \/ seen[d][c] \in counted
    => \E r \in A : \A d \in A \ {r} : seen[r][d] \in counted

WithinLimit ==
  \A r \in Claims : Approving(r) => Total(form, SeenPaid(r)) + form[r].amount <= CaseLimit

WithinCount ==
  \A r \in ProfitCostPoas : Approving(r) => Cardinality(SeenActive(r)) < MaxProfitCostPoas

(* A request reads before its own claim is stored. *)
OwnClaimUnread == \A c \in Claims : seen[c][c] = "NONE"

LimitsOK ==
  /\ OwnClaimUnread
  /\ LastReader({"PAY_IN_FULL"}) /\ LastReader({"SUBMITTED", "PAY_IN_FULL"})
  /\ WithinLimit /\ WithinCount

LimitsInv == BillsInv /\ LimitsOK

LEMMA InitLimits == Init => LimitsOK
<1> SUFFICES ASSUME Init PROVE LimitsOK
  OBVIOUS
<1>1. \A c \in Claims : ~Approving(c)
  BY DEF Init, Approving, AutoApproved, RequestAt
<1>2. \A c, d \in Claims : seen[c][d] = "NONE"
  BY DEF Init
<1>3. ASSUME NEW counted, "NONE" \notin counted PROVE LastReader(counted)
  <2> SUFFICES ASSUME NEW A \in SUBSET Claims, A # {},
                      \A c, d \in A : c # d => seen[c][d] \in counted \/ seen[d][c] \in counted
               PROVE  \E r \in A : \A d \in A \ {r} : seen[r][d] \in counted
    BY DEF LastReader
  <2>1. PICK r \in A : TRUE
    OBVIOUS
  <2> QED
    BY <1>2, <1>3, <2>1
<1> QED
  BY <1>1, <1>2, <1>3 DEF LimitsOK, OwnClaimUnread, WithinLimit, WithinCount, ProfitCostPoas

(* Only its own reading of the claims changes what a request has seen. *)
LEMMA SeenSteps ==
  ASSUME [Next]_vars
  PROVE  seen' = seen \/ \E c \in Claims : ReadClaims(c)
<1>1. ASSUME NEW c \in Claims, CreateStep(c) PROVE seen' = seen \/ ReadClaims(c)
  BY <1>1 DEF CreateStep, StartCreate, RefuseForFinalBill, SubmitClaim, BeginAutoDecision,
              CommitAutoDecision, RollbackOnDuplicateInvoice, FailRequest
<1>2. ASSUME NEW w \in Caseworkers, AssessStep(w) PROVE seen' = seen
  BY <1>2 DEF AssessStep, LockForAssessment, CommitPayInFull, CommitReject, AssessmentBy,
              RollbackAssessment
<1> QED
  BY <1>1, <1>2 DEF Next, GrantApplication, RefuseApplication, ThreeMonthsPass, YearPasses,
                    vars

(* A request that reads sees every claim that another request has seen at   *)
(* all, and no other request has seen its own: it becomes the last reader.  *)
LEMMA LastReaderKept ==
  ASSUME BillsInv, [Next]_vars, NEW counted, "NONE" \notin counted, LastReader(counted)
  PROVE  LastReader(counted)'
<1>1. CASE seen' = seen
  BY <1>1 DEF LastReader
<1>2. ASSUME NEW c \in Claims, ReadClaims(c) PROVE LastReader(counted)'
  <2>1. \A d, e \in Claims : seen'[d][e] = IF d = c THEN status[e] ELSE seen[d][e]
    BY <1>2 DEF ReadClaims, BillsInv, IInv, TypeOK
  <2>2. status[c] = "NONE"
    BY <1>2 DEF ReadClaims, BillsInv, IInv, RequestOK
  <2>3. \A d \in Claims : seen[d][c] = "NONE"
    BY <2>2 DEF BillsInv, BillsOK, ReadClaimsAreStored
  <2> SUFFICES ASSUME NEW A \in SUBSET Claims, A # {},
                      \A d, e \in A :
                        d # e => seen'[d][e] \in counted \/ seen'[e][d] \in counted
               PROVE  \E r \in A : \A d \in A \ {r} : seen'[r][d] \in counted
    BY DEF LastReader
  <2>4. CASE c \in A
    BY <2>1, <2>3, <2>4
  <2>5. CASE c \notin A
    <3>1. \A d, e \in A : seen'[d][e] = seen[d][e]
      BY <2>1, <2>5
    <3>2. \A d, e \in A : d # e => seen[d][e] \in counted \/ seen[e][d] \in counted
      BY <3>1
    <3>3. \E r \in A : \A d \in A \ {r} : seen[r][d] \in counted
      BY <3>2 DEF LastReader
    <3> QED
      BY <3>1, <3>3
  <2> QED
    BY <2>4, <2>5
<1> QED
  BY <1>1, <1>2, SeenSteps

(***************************************************************************)
(* An approval rests on what its request read                              *)
(***************************************************************************)
(* When the decision to approve begins the limits hold for what was read. *)
LEMMA ApprovalIsChecked ==
  ASSUME BillsInv, NEW r \in Claims, BeginAutoDecision(r), Approving(r)', ~Approving(r)
  PROVE  /\ Total(form, SeenPaid(r)) + form[r].amount <= CaseLimit
         /\ r \in ProfitCostPoas => Cardinality(SeenActive(r)) < MaxProfitCostPoas
<1>1. req'[r].pc = "DECIDING" /\ req'[r].verdict = "PAY_IN_FULL"
  BY DEF BeginAutoDecision, claimVars, Approving, AutoApproved
<1>2. /\ RejectionReasons(r, seen[r]) = {}
      /\ ~RequiresManualReview(r, seen[r])
      /\ EligibleForAutoApproval(r)
  BY <1>1 DEF BeginAutoDecision, RequestAt, BillsInv, IInv, TypeOK
<1>3. Total(form, SeenPaid(r)) = PaidTotal(seen[r])
  BY DEF Total, PaidTotal, SeenPaid, MapThenSumSet, MapThenFoldSet
<1>4. form \in [Claims -> Forms] /\ form[r].amount \in Int
  BY DEF BillsInv, IInv, TypeOK
<1>5. Total(form, SeenPaid(r)) \in Int
  <2>1. IsFiniteSet(SeenPaid(r))
    BY FS_Subset DEF SeenPaid
  <2>2. Amounts(form, SeenPaid(r))
    BY <1>4 DEF Amounts, SeenPaid
  <2> QED
    BY <2>1, <2>2, TotalType
<1>6. PaidTotal(seen[r]) + form[r].amount <= CaseLimit
  BY <1>2, <1>3, <1>4, <1>5 DEF RequiresManualReview, EligibleForAutoApproval,
     ExceedsAggregateCostLimit, SubstantiveCostLimit
<1>7. ASSUME r \in ProfitCostPoas PROVE Cardinality(SeenActive(r)) < MaxProfitCostPoas
  <2>1. SeenActive(r) = ActiveProfitCostPoas(seen[r])
    BY DEF SeenActive, ActiveProfitCostPoas, ProfitCostPoas
  <2>2. IsFiniteSet(SeenActive(r))
    BY FS_Subset DEF SeenActive, ProfitCostPoas
  <2>3. ~(Cardinality(SeenActive(r)) >= MaxProfitCostPoas)
    BY <1>2, <1>7, <2>1 DEF RejectionReasons, Reasons
  <2> QED
    BY <2>2, <2>3, FS_CardinalityType
<1> QED
  BY <1>3, <1>6, <1>7

(* A request that approves has approved before or begins to, and keeps what *)
(* it read.                                                                 *)
LEMMA ApprovingSteps ==
  ASSUME BillsInv, [Next]_vars, NEW r \in Claims, Approving(r)'
  PROVE  /\ Approving(r) \/ BeginAutoDecision(r)
         /\ seen'[r] = seen[r]
         /\ form'[r] = form[r]
<1> DEFINE started == req[r].pc \notin {"NEW", "GRANTED"}
<1>1. Approving(r) => req[r].pc = "DONE" \/ req[r].pc = "DECIDING"
  <2>1. ASSUME r \in AutoApproved PROVE req[r].pc = "DONE"
    BY <2>1 DEF AutoApproved, BillsInv, IInv, RequestOK, DecisionsOf, IsCaseworkers
  <2> QED
    BY <2>1 DEF Approving
<1>2. Approving(r) \/ BeginAutoDecision(r)
  <2>1. ASSUME NEW c \in Claims, CreateStep(c), ~CommitAutoDecision(c)
        PROVE  Approving(r) \/ BeginAutoDecision(r)
    <3>1. decisions' = decisions
      BY <2>1 DEF CreateStep, StartCreate, ReadClaims, RefuseForFinalBill, SubmitClaim,
         BeginAutoDecision, RollbackOnDuplicateInvoice, FailRequest, claimVars
    <3>2. CASE BeginAutoDecision(c)
      BY <3>1, <3>2 DEF BeginAutoDecision, Approving, AutoApproved, BillsInv, IInv, TypeOK
    <3>3. CASE ~BeginAutoDecision(c)
      <4>1. \E pc \in {"GRANTED", "READ", "SUBMITTED", "DONE"} :
              req' = [req EXCEPT ![c] = RequestAt(pc)]
        BY <2>1, <3>3 DEF CreateStep, StartCreate, ReadClaims, RefuseForFinalBill,
           SubmitClaim, RollbackOnDuplicateInvoice, FailRequest
      <4>2. req'[r] = req[r] \/ req'[r].pc # "DECIDING"
        BY <4>1 DEF RequestAt, BillsInv, IInv, TypeOK
      <4> QED
        BY <3>1, <4>2 DEF Approving, AutoApproved
    <3> QED
      BY <3>2, <3>3
  <2>2. ASSUME NEW c \in Claims, CommitAutoDecision(c) PROVE Approving(r)
    <3> DEFINE event == IF req[c].verdict = "PAY_IN_FULL" THEN "POA_AUTO_APPROVED"
                                                          ELSE "POA_AUTO_REJECTED"
               e == [claim |-> c, id |-> req[c].id, decision |-> req[c].verdict,
                     event |-> event, reasons |-> req[c].reasons]
    <3>1. /\ decisions' = decisions \cup {e}
          /\ e.claim = c
          /\ e.event = "POA_AUTO_APPROVED" => req[c].verdict = "PAY_IN_FULL"
      BY <2>2 DEF CommitAutoDecision, Decide
    <3> HIDE DEF e
    <3>2. req[c].pc = "DECIDING" /\ req' = [req EXCEPT ![c] = RequestAt("DONE")]
      BY <2>2 DEF CommitAutoDecision
    <3>3. req'[r] = req[r] \/ req'[r].pc = "DONE"
      BY <3>2 DEF RequestAt, BillsInv, IInv, TypeOK
    <3>4. r \in AutoApproved' => r \in AutoApproved \/ (r = c /\ req[c].verdict = "PAY_IN_FULL")
      BY <3>1 DEF AutoApproved
    <3> QED
      BY <3>2, <3>3, <3>4 DEF Approving
  <2>3. ASSUME NEW w \in Caseworkers, AssessStep(w) PROVE Approving(r)
    <3>1. req' = req /\ \A e \in decisions' \ decisions : e.event = "CLAIM_ASSESSMENT_COMPLETED"
      BY <2>3 DEF AssessStep, LockForAssessment, CommitPayInFull, CommitReject, AssessmentBy,
         RollbackAssessment, Decide, claimVars
    <3> QED
      BY <3>1 DEF Approving, AutoApproved
  <2>4. CASE \/ GrantApplication \/ RefuseApplication \/ ThreeMonthsPass \/ YearPasses
             \/ UNCHANGED vars
    BY <2>4 DEF GrantApplication, RefuseApplication, ThreeMonthsPass, YearPasses, claimVars,
                vars, Approving, AutoApproved
  <2> QED
    BY <2>1, <2>2, <2>3, <2>4 DEF Next
<1>3. started
  BY <1>1, <1>2 DEF BeginAutoDecision
<1>4. seen'[r] = seen[r]
  BY <1>3, SeenSteps DEF ReadClaims, BillsInv, IInv, TypeOK
<1>5. form'[r] = form[r]
  BY <1>3, FormIsKept DEF BillsInv
<1> QED
  BY <1>2, <1>4, <1>5

(* The claims that aged before have aged, and no claim that is stored grows *)
(* younger.                                                                 *)
LEMMA AgedSteps ==
  ASSUME [Next]_vars, NEW c \in aged, c \in Claims, status[c] # "NONE"
  PROVE  c \in aged'
<1>1. ASSUME NEW d \in Claims, CreateStep(d) PROVE aged' = aged
  BY <1>1 DEF CreateStep, StartCreate, ReadClaims, RefuseForFinalBill, SubmitClaim,
     BeginAutoDecision, CommitAutoDecision, RollbackOnDuplicateInvoice, FailRequest, Decide,
     claimVars
<1>2. ASSUME NEW w \in Caseworkers, AssessStep(w) PROVE aged' = aged
  BY <1>2 DEF AssessStep, LockForAssessment, CommitPayInFull, CommitReject, AssessmentBy,
     RollbackAssessment, Decide, claimVars
<1> QED
  BY <1>1, <1>2 DEF Next, GrantApplication, RefuseApplication, ThreeMonthsPass, YearPasses,
                    claimVars, vars

(* The claims that limited an approval are stored, so they keep their form:  *)
(* the sum is the same, and the count only loses the ones that have aged.    *)
LEMMA ApprovalKeepsLimits ==
  ASSUME BillsInv, [Next]_vars, NEW r \in Claims, Approving(r)'
  PROVE  /\ Total(form, SeenPaid(r)) + form[r].amount <= CaseLimit
              => (Total(form, SeenPaid(r)) + form[r].amount <= CaseLimit)'
         /\ Cardinality(SeenActive(r)) < MaxProfitCostPoas
              => (Cardinality(SeenActive(r)) < MaxProfitCostPoas)'
<1>1. seen'[r] = seen[r] /\ form'[r] = form[r]
  BY ApprovingSteps
<1>2. ASSUME NEW c \in Claims, seen[r][c] # "NONE"
      PROVE  status[c] # "NONE" /\ form'[c] = form[c]
  BY <1>2, FormIsKept DEF BillsInv, BillsOK, ReadClaimsAreStored
<1>3. SeenPaid(r)' = SeenPaid(r)
  BY <1>1 DEF SeenPaid
<1>4. Total(form', SeenPaid(r)) = Total(form, SeenPaid(r))
  <2>1. IsFiniteSet(SeenPaid(r))
    BY FS_Subset DEF SeenPaid
  <2>2. \A c \in SeenPaid(r) : form'[c].amount = form[c].amount
    BY <1>2 DEF SeenPaid
  <2> QED
    BY <2>1, <2>2, TotalAgrees
<1>5. (Total(form, SeenPaid(r)))' = Total(form', SeenPaid(r)')
  OBVIOUS
<1>6. SeenActive(r)' \subseteq SeenActive(r)
  BY <1>1, <1>2, AgedSteps DEF SeenActive, ProfitCostPoas
<1>7. /\ Cardinality(SeenActive(r)') <= Cardinality(SeenActive(r))
      /\ Cardinality(SeenActive(r)') \in Nat /\ Cardinality(SeenActive(r)) \in Nat
  <2>1. IsFiniteSet(SeenActive(r))
    BY FS_Subset DEF SeenActive, ProfitCostPoas
  <2> QED
    BY <1>6, <2>1, FS_Subset, FS_CardinalityType
<1>8. (Cardinality(SeenActive(r)))' = Cardinality(SeenActive(r)')
  OBVIOUS
<1> QED
  BY <1>1, <1>3, <1>4, <1>5, <1>7, <1>8

LEMMA LimitsStepKeeps == LimitsInv /\ [Next]_vars => LimitsInv'
<1> SUFFICES ASSUME LimitsInv, [Next]_vars PROVE LimitsOK'
  BY BillsStepKeeps DEF LimitsInv
<1>1. LastReader({"PAY_IN_FULL"})' /\ LastReader({"SUBMITTED", "PAY_IN_FULL"})'
  BY LastReaderKept DEF LimitsInv, LimitsOK
<1>2. ASSUME NEW r \in Claims, Approving(r)'
      PROVE  /\ Total(form, SeenPaid(r)) + form[r].amount <= CaseLimit
             /\ r \in ProfitCostPoas => Cardinality(SeenActive(r)) < MaxProfitCostPoas
  BY <1>2, ApprovingSteps, ApprovalIsChecked DEF LimitsInv, LimitsOK, WithinLimit, WithinCount
<1>5. OwnClaimUnread'
  <2>1. ASSUME NEW c \in Claims, ReadClaims(c) PROVE OwnClaimUnread'
    BY <2>1 DEF ReadClaims, OwnClaimUnread, LimitsInv, LimitsOK, BillsInv, IInv, TypeOK, RequestOK
  <2> QED
    BY <2>1, SeenSteps DEF OwnClaimUnread, LimitsInv, LimitsOK
<1>3. WithinLimit'
  BY <1>2, ApprovalKeepsLimits DEF WithinLimit, LimitsInv
<1>4. WithinCount'
  <2> SUFFICES ASSUME NEW r \in ProfitCostPoas', Approving(r)'
               PROVE  (Cardinality(SeenActive(r)) < MaxProfitCostPoas)'
    BY DEF WithinCount
  <2>1. r \in Claims /\ r \in ProfitCostPoas
    BY ApprovingSteps DEF ProfitCostPoas, LimitsInv
  <2> QED
    BY <1>2, <2>1, ApprovalKeepsLimits DEF LimitsInv
<1> QED
  BY <1>1, <1>3, <1>4, <1>5 DEF LimitsOK

THEOREM LimitsInvariant == Spec => []LimitsInv
<1>1. Init => LimitsInv
  BY InitEstablishes, InitBills, InitLimits DEF LimitsInv, BillsInv
<1>2. LimitsInv /\ [Next]_vars => LimitsInv'
  BY LimitsStepKeeps
<1> QED
  BY <1>1, <1>2, PTL DEF Spec

(* The automatic approvals of a case add up to more than its cost limit, and *)
(* what the paid claims below nothing left of it besides, only when two of   *)
(* their requests overlapped, each deciding without the other's claim among  *)
(* the paid ones it had read: otherwise the request that read last counted   *)
(* all the others, and of what else it counted only losses could help it.    *)
THEOREM LimitOverrunsOverlap == Spec => []LimitOverrunIsConcurrent
<1>1. LimitsInv => LimitOverrunIsConcurrent
  <2> DEFINE counted == AutoApproved \cup CountedLosses
  <2> SUFFICES ASSUME LimitsInv, Total(form, counted) > CaseLimit,
                      \A c, d \in AutoApproved :
                        c # d => seen[c][d] = "PAY_IN_FULL" \/ seen[d][c] = "PAY_IN_FULL"
               PROVE  FALSE
    BY DEF LimitOverrunIsConcurrent, Total, MapThenSumSet, MapThenFoldSet
  <2>1. AutoApproved \subseteq Claims /\ counted \subseteq Claims /\ IsFiniteSet(counted)
    BY FS_Subset DEF AutoApproved, CountedLosses, LimitsInv, BillsInv, IInv, TypeOK
  <2>2. \A c \in Claims : form[c].amount \in Int
    BY DEF LimitsInv, BillsInv, IInv, TypeOK
  <2>3. CASE AutoApproved = {}
    <3>1. counted = {}
      BY <2>3 DEF CountedLosses
    <3>2. Total(form, {}) = 0
      BY FS_EmptySet, TotalSteps
    <3> QED
      BY <3>1, <3>2
  <2>4. CASE AutoApproved # {}
    <3>1. PICK r \in AutoApproved : \A d \in AutoApproved \ {r} : seen[r][d] = "PAY_IN_FULL"
      BY <2>1, <2>4 DEF LimitsInv, LimitsOK, LastReader
    <3> DEFINE others == counted \ {r}
    <3>2. r \in counted /\ r \in Claims /\ r \notin SeenPaid(r)
      BY <2>1, <3>1 DEF SeenPaid, LimitsInv, LimitsOK, OwnClaimUnread
    <3>3. IsFiniteSet(SeenPaid(r)) /\ IsFiniteSet(others)
      BY <2>1, FS_Subset DEF SeenPaid
    <3>4. Amounts(form, counted) /\ Amounts(form, others) /\ Amounts(form, SeenPaid(r))
      BY <2>1, <2>2 DEF Amounts, SeenPaid
    <3>5. Total(form, others) \in Int /\ Total(form, SeenPaid(r)) \in Int
      BY <3>3, <3>4, TotalType
    <3>6. Total(form, counted) = form[r].amount + Total(form, others)
      BY <2>1, <3>2, <3>4, TotalRemoves
    <3>7. \A x \in others \ SeenPaid(r) : form[x].amount <= 0
      BY <2>1, <2>2, <3>1 DEF CountedLosses, SeenPaid
    <3>8. \A x \in SeenPaid(r) \ others : form[x].amount >= 0
      BY <2>2, <3>1, <3>2 DEF CountedLosses, SeenPaid
    <3>9. Total(form, SeenPaid(r)) + form[r].amount <= CaseLimit
      BY <3>1, <3>2 DEF Approving, LimitsInv, LimitsOK, WithinLimit
    <3> HIDE DEF others
    <3>10. Total(form, others) <= Total(form, SeenPaid(r))
      BY <3>3, <3>4, <3>7, <3>8, TotalCompares
    <3> HIDE DEF counted
    <3> QED
      BY <2>2, <3>2, <3>5, <3>6, <3>9, <3>10
  <2> QED
    BY <2>3, <2>4
<1> QED
  BY <1>1, LimitsInvariant, PTL

(* More profit cost POAs than permitted are approved within a year only when *)
(* two of their requests overlapped, each without the other's claim among    *)
(* those it counted.                                                         *)
THEOREM CountOverrunsOverlap == Spec => []PoaCountOverrunIsConcurrent
<1>1. LimitsInv => PoaCountOverrunIsConcurrent
  <2> DEFINE recent == (AutoApproved \cap ProfitCostPoas) \ aged
             counted == {"SUBMITTED", "PAY_IN_FULL"}
  <2> SUFFICES ASSUME LimitsInv,
                      \A c, d \in recent : c # d =>
                        seen[c][d] \notin {"NONE", "REJECTED"}
                          \/ seen[d][c] \notin {"NONE", "REJECTED"}
               PROVE  ~(Cardinality(recent) > MaxProfitCostPoas)
    BY DEF PoaCountOverrunIsConcurrent
  <2>1. recent \subseteq Claims /\ IsFiniteSet(recent)
    BY FS_Subset DEF ProfitCostPoas
  <2>2. \A c, d \in recent : c # d => seen[c][d] \in counted \/ seen[d][c] \in counted
    BY <2>1 DEF LimitsInv, BillsInv, IInv, TypeOK, Statuses
  <2>3. CASE recent = {}
    BY <2>3, FS_EmptySet
  <2>4. CASE recent # {}
    <3>1. PICK r \in recent : \A d \in recent \ {r} : seen[r][d] \in counted
      <4> HIDE DEF recent
      <4> QED
        BY <2>1, <2>2, <2>4 DEF LimitsInv, LimitsOK, LastReader
    <3>2. recent \ {r} \subseteq SeenActive(r)
      BY <2>1, <3>1 DEF SeenActive
    <3>3. IsFiniteSet(SeenActive(r))
      BY FS_Subset DEF SeenActive, ProfitCostPoas
    <3>4. Cardinality(SeenActive(r)) < MaxProfitCostPoas
      BY <3>1 DEF Approving, LimitsInv, LimitsOK, WithinCount
    <3>5. Cardinality(recent \ {r}) <= Cardinality(SeenActive(r))
      BY <3>2, <3>3, FS_Subset
    <3>6. Cardinality(recent \ {r}) = Cardinality(recent) - 1
      BY <2>1, <3>1, FS_RemoveElement
    <3>7. Cardinality(recent) \in Nat /\ Cardinality(SeenActive(r)) \in Nat
      BY <2>1, <3>3, FS_CardinalityType
    <3> HIDE DEF recent
    <3> QED
      BY <3>4, <3>5, <3>6, <3>7
  <2> QED
    BY <2>3, <2>4
<1> QED
  BY <1>1, LimitsInvariant, PTL

(***************************************************************************)
(* The funds figure                                                        *)
(***************************************************************************)
(* Only the step that submits it stores a claim. *)
LEMMA OnlySubmitStores ==
  ASSUME BillsInv, [Next]_vars, NEW c \in Claims, status[c] = "NONE", status'[c] # "NONE"
  PROVE  SubmitClaim(c)
<1> USE DEF BillsInv
<1>1. ASSUME NEW d \in Claims, CreateStep(d) PROVE SubmitClaim(c)
  <2>1. ASSUME SubmitClaim(d) PROVE d = c
    BY <2>1 DEF SubmitClaim, IInv, TypeOK
  <2>2. ASSUME CommitAutoDecision(d) PROVE FALSE
    <3>1. status[d] # "NONE"
      BY <2>2 DEF CommitAutoDecision, IInv, RequestOK
    <3>2. status' = [status EXCEPT ![d] = req[d].verdict]
      BY <2>2 DEF CommitAutoDecision, Decide
    <3> QED
      BY <3>1, <3>2 DEF IInv, TypeOK
  <2>3. ASSUME ~SubmitClaim(d), ~CommitAutoDecision(d) PROVE status' = status
    BY <1>1, <2>3 DEF CreateStep, StartCreate, ReadClaims, RefuseForFinalBill,
       BeginAutoDecision, RollbackOnDuplicateInvoice, FailRequest, claimVars
  <2> QED
    BY <2>1, <2>2, <2>3
<1>2. ASSUME NEW w \in Caseworkers, CommitPayInFull(w) \/ CommitReject(w) PROVE FALSE
  <2>1. work[w] # IdleWork /\ \E v \in Verdicts : status' = [status EXCEPT ![work[w].claim] = v]
    BY <1>2 DEF CommitPayInFull, CommitReject, AssessmentBy, Decide, Verdicts
  <2>2. status[work[w].claim] = "SUBMITTED" /\ work[w].claim \in Claims
    BY <2>1 DEF IInv, LockedClaimAwaitsAssessment, WorkOK
  <2> QED
    BY <2>1, <2>2 DEF IInv, TypeOK
<1>3. ASSUME NEW w \in Caseworkers, AssessStep(w) PROVE FALSE
  BY <1>2, <1>3 DEF AssessStep, LockForAssessment, RollbackAssessment, claimVars
<1> QED
  BY <1>1, <1>3 DEF Next, GrantApplication, RefuseApplication, ThreeMonthsPass, YearPasses,
                    claimVars, vars

(* Among the decisions of a claim one has the highest id. *)
LEMMA LatestDecisionExists ==
  ASSUME TypeOK, NEW c \in Claims, DecisionsOf(c) # {}
  PROVE  \E d \in DecisionsOf(c) : IsLatestDecision(d)
<1> DEFINE gaps == {n \in Nat : \E d \in DecisionsOf(c) : n = MaxDecisionIds - d.id}
<1>1. \A d \in DecisionsOf(c) : d \in decisions /\ d.claim = c /\ d.id \in 1..MaxDecisionIds
  BY DEF TypeOK, DecisionsOf
<1>2. \A d \in DecisionsOf(c) : MaxDecisionIds - d.id \in gaps
  BY <1>1
<1>3. PICK m \in gaps : \A n \in gaps : m <= n
  <2>1. gaps \subseteq Nat /\ gaps # {}
    BY <1>2
  <2> HIDE DEF gaps
  <2> QED
    BY <2>1, LeastNatural
<1>4. PICK d \in DecisionsOf(c) : m = MaxDecisionIds - d.id
  OBVIOUS
<1>5. ASSUME NEW e \in DecisionsOf(c) PROVE e.id <= d.id
  BY <1>1, <1>2, <1>3, <1>4, <1>5
<1> QED
  BY <1>1, <1>4, <1>5 DEF IsLatestDecision

(* A claim whose decisions all say the same has the status they say, and so *)
(* does the latest of them.                                                 *)
LEMMA AgreedDecisionIsStatus ==
  ASSUME IInv, NEW c \in Claims, ~(Cardinality({d.decision : d \in DecisionsOf(c)}) > 1)
  PROVE  LatestDecisionApproves(c) <=> status[c] = "PAY_IN_FULL"
<1> DEFINE says == {d.decision : d \in DecisionsOf(c)}
<1>1. \A d \in DecisionsOf(c) : d \in decisions /\ d.claim = c /\ d.decision \in Verdicts
  BY DEF IInv, TypeOK, DecisionsOf
<1>2. ASSUME NEW d \in DecisionsOf(c), NEW e \in DecisionsOf(c) PROVE d.decision = e.decision
  <2> SUFFICES ASSUME d.decision # e.decision PROVE FALSE
    OBVIOUS
  <2> DEFINE one == {d.decision}
             both == one \cup {e.decision}
  <2>1. both \subseteq says /\ says \subseteq Verdicts
    BY <1>1
  <2>2. IsFiniteSet(one) /\ Cardinality(one) = 1
    BY FS_Singleton
  <2>3. Cardinality(both) = 2
    <3> DEFINE other == e.decision
    <3>1. other \notin one
      OBVIOUS
    <3> HIDE DEF one, other
    <3>2. Cardinality(one \cup {other}) = Cardinality(one) + 1
      BY <2>2, <3>1, FS_AddElement, Zenon
    <3> QED
      BY <2>2, <3>2 DEF other
  <2>4. IsFiniteSet(Verdicts)
    <3>1. IsFiniteSet({"REJECTED"} \cup {"PAY_IN_FULL"})
      BY FS_Singleton, FS_AddElement
    <3> QED
      BY <3>1 DEF Verdicts
  <2> HIDE DEF says, both
  <2>5. IsFiniteSet(says)
    BY <2>1, <2>4, FS_Subset
  <2>6. 2 <= Cardinality(says) /\ Cardinality(says) \in Nat
    BY <2>1, <2>3, <2>5, FS_Subset, FS_CardinalityType
  <2> QED
    BY <2>6 DEF says
<1>3. ASSUME NEW d \in DecisionsOf(c) PROVE status[c] = d.decision
  BY <1>1, <1>2 DEF IInv, StatusFollowsDecisions
<1>4. status[c] = "PAY_IN_FULL" => DecisionsOf(c) # {}
  BY DEF IInv, StatusFollowsDecisions, Verdicts
<1> QED
  BY <1>3, <1>4, LatestDecisionExists DEF LatestDecisionApproves, IInv

(* The funds figure that is stored with a claim is the limit less what the   *)
(* rules count, unless another claim was stored and paid since the request   *)
(* read the claims, or an automatic decision overrode a caseworker's.        *)
THEOREM FundsAgree == Spec => FundsAgreeWithStatuses
<1>1. BillsInv /\ [Next]_vars =>
        \A c \in Claims :
          status[c] = "NONE" /\ status'[c] # "NONE" =>
            \/ funds'[c] = CaseLimit - PaidTotal(status) - form[c].amount
            \/ \E e \in Claims : seen[c][e] = "NONE" /\ status[e] = "PAY_IN_FULL"
            \/ \E e \in Claims : Cardinality({d.decision : d \in DecisionsOf(e)}) > 1
  <2> SUFFICES ASSUME BillsInv, [Next]_vars, NEW c \in Claims,
                      status[c] = "NONE", status'[c] # "NONE",
                      \A e \in Claims : status[e] = "PAY_IN_FULL" => seen[c][e] # "NONE",
                      \A e \in Claims : ~(Cardinality({d.decision : d \in DecisionsOf(e)}) > 1)
               PROVE  funds'[c] = CaseLimit - PaidTotal(status) - form[c].amount
    OBVIOUS
  <2> DEFINE approved == {e \in Claims : seen[c][e] # "NONE" /\ LatestDecisionApproves(e)}
             paid == {e \in Claims : status[e] = "PAY_IN_FULL"}
  <2>1. approved = paid
    BY AgreedDecisionIsStatus DEF BillsInv
  <2>2. funds'[c] = FundsRemainingAfter(c)
    BY OnlySubmitStores DEF SubmitClaim, BillsInv, IInv, TypeOK
  <2>3. FundsRemainingAfter(c) = CaseLimit - Total(form, approved) - form[c].amount
    BY DEF FundsRemainingAfter, Total, MapThenSumSet, MapThenFoldSet
  <2>4. PaidTotal(status) = Total(form, paid)
    BY DEF PaidTotal, Total, MapThenSumSet, MapThenFoldSet
  <2> HIDE DEF approved, paid
  <2> QED
    BY <2>1, <2>2, <2>3, <2>4
<1> QED
  BY <1>1, BillsInvariant, PTL DEF Spec, FundsAgreeWithStatuses
==============================================================================
