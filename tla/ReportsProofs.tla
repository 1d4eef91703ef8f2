---------------------------- MODULE ReportsProofs ----------------------------
(***************************************************************************)
(* Proofs about Reports, for any number of cases, report requests, days    *)
(* and parts of a day.  What a report has read is related to what had been *)
(* committed when it was asked for: every statement sees at least that     *)
(* (decisions are never undone), so what two statements disagree about was *)
(* committed in between.                                                   *)
(***************************************************************************)
EXTENDS Reports, TLAPS

(***************************************************************************)
(* The inductive invariant                                                 *)
(***************************************************************************)
(* The cases: a grant has its certificate, a claim has its granted case,   *)
(* and no row is from the future.                                          *)
CasesOK ==
  /\ Granted \subseteq certified
  /\ \A c \in Claims : claim[c].pc # "NONE" => AppOf[c] \in certified
  /\ \A c \in Claims : claim[c].recordedAt <= now

(* What a request found committed stays committed. *)
PastOK(p) ==
  /\ p.settled \subseteq Settled
  /\ p.paid \subseteq Paid
  /\ p.granted \subseteq certified
  /\ p.decided \subseteq Decided
  /\ \A c \in p.paid : claim[c].recordedAt <= p.asked

PastPayments(p) == {c \in p.paid : InExtractWindow(p, claim[c].recordedAt)}

ExtractOK(p) ==
  p.kind = "PAYMENT_EXTRACT" =>
    /\ p.pc \in {"FIRMS", "TYPES", "STREAMING", "DONE", "BROKEN"} =>
         FirmsOf(PastPayments(p)) \subseteq p.firms
    /\ p.pc \in {"TYPES", "STREAMING", "DONE", "BROKEN"} =>
         LineTypesOf(PastPayments(p)) \subseteq p.types
    /\ p.pc \in {"STREAMING", "DONE", "BROKEN"} =>
         /\ p.claims \subseteq Paid
         /\ \A c \in p.claims : InExtractWindow(p, claim[c].recordedAt)
         /\ PastPayments(p) \subseteq p.claims
    /\ p.pc = "BROKEN" =>
         ~(FirmsOf(p.claims) \subseteq p.firms /\ LineTypesOf(p.claims) \subseteq p.types)

OgdOK(p) ==
  p.kind = "OGD_COSTS" =>
    /\ p.pc \in {"BODIES", "DONE", "INCONSISTENT"} =>
         \A c \in p.paid : InWindow(p, claim[c].decidedAt) => AppOf[c] \in p.bodies
    /\ p.pc \in {"DONE", "INCONSISTENT"} =>
         /\ p.claims \subseteq Paid
         /\ \A c \in p.claims : InWindow(p, claim[c].decidedAt)
         /\ \A c \in p.paid : InWindow(p, claim[c].decidedAt) => c \in p.claims
    /\ p.pc = "INCONSISTENT" => \E c \in p.claims : AppOf[c] \notin p.bodies

ForecastOK(p) ==
  p.kind = "COST_LIMIT_FORECAST" =>
    /\ p.pc \in {"CLAIMS", "BODIES", "DONE", "INCONSISTENT"} => p.paid \subseteq p.claims
    /\ p.pc \in {"BODIES", "DONE", "INCONSISTENT"} => p.granted \subseteq p.bodies
    /\ \A c \in p.claims \cap FinalBills : AppOf[c] \notin p.shown
    /\ p.pc \notin {"DONE", "INCONSISTENT"} => p.shown = {}
    /\ p.pc = "INCONSISTENT" => ~(p.shown \subseteq p.bodies)
    /\ p.pc = "ASKED" => p.claims = {}

EventsOK(p) ==
  /\ p.kind \in {"DECISIONS", "AUDIT_TRAIL"} /\ p.pc \in {"HISTORY", "DONE"} =>
       \A c \in p.settled : InWindow(p, claim[c].recordedAt) => c \in p.claims

BacklogOK(p) ==
  /\ p.kind = "CLAIMS_BACKLOG" => p.claims \cap p.settled = {}
  /\ p.kind = "APPLICATIONS_BACKLOG" => p.shown \cap p.decided = {}

(* The audit trail holds the request it answers. *)
TrailOK(r, p) ==
  p.kind = "AUDIT_TRAIL" /\ p.pc = "DONE" /\ InWindow(p, p.asked) => r \in p.downloads

ReportOK(r, p) ==
  /\ PastOK(p) /\ ExtractOK(p) /\ OgdOK(p) /\ ForecastOK(p) /\ EventsOK(p) /\ BacklogOK(p)
  /\ TrailOK(r, p)

ReportsInv ==
  /\ CasesOK
  /\ \A r \in Reports : ReportOK(r, rep[r])

(* A record of the type that TypeOK gives the elements of rep. *)
Records ==
  [kind : Kinds \cup {"NONE"},
   pc : Answered \cup {"NEW", "ASKED", "FIRMS", "TYPES", "STREAMING", "BODIES",
                       "CLAIMS", "HISTORY"},
   asked : Times, first : Days, last : Days,
   settled : SUBSET Claims, paid : SUBSET Claims,
   granted : SUBSET Applications, decided : SUBSET Applications,
   firms : SUBSET Firms, types : SUBSET LineTypes, bodies : SUBSET Applications,
   claims : SUBSET Claims, shown : SUBSET Applications, downloads : SUBSET Reports]

ClaimRecords ==
  [pc : {"NONE", "SUBMITTED", "DECIDING", "RECORDED", "PAID", "REJECTED"},
   decidedAt : Times, recordedAt : Times]

LEMMA TypeParts ==
  TypeOK <=> /\ now \in Times
             /\ merits \in [Applications -> {"PENDING", "GRANTED", "REFUSED"}]
             /\ certified \subseteq Decided
             /\ claim \in [Claims -> ClaimRecords]
             /\ rep \in [Reports -> Records]
  BY DEF TypeOK, ClaimRecords, Records

(* The clock begins, and 0 is the first day. *)
LEMMA Calendar == 0 \in Times /\ 0 \in Days /\ Times \subseteq Nat /\ Days \subseteq Nat
<1>1. DayLength \in Nat \ {0} /\ LastDay \in Nat
  BY CalendarAssumption
<1>2. (LastDay + 1) * DayLength >= 1 /\ (LastDay + 1) * DayLength \in Nat
  BY <1>1
<1> QED BY <1>1, <1>2 DEF Times, Days

LEMMA NewReportTyped == NewReport \in Records
  BY Calendar DEF NewReport, Records

(***************************************************************************)
(* Types                                                                   *)
(***************************************************************************)
LEMMA InitTyped == Init => TypeOK
<1> SUFFICES ASSUME Init PROVE TypeOK
  OBVIOUS
<1>1. claim \in [Claims -> ClaimRecords]
  BY Calendar DEF Init, ClaimRecords
<1> QED BY <1>1, Calendar, NewReportTyped, TypeParts DEF Init, Decided

(* A report step puts a record for one request, and changes nothing else. *)
LEMMA ReadTyped ==
  ASSUME TypeOK, NEW r \in Reports, NEW p \in Records,
         rep' = [rep EXCEPT ![r] = p], UNCHANGED <<now, caseVars>>
  PROVE  TypeOK'
  BY TypeParts DEF caseVars, TypeOK, Records, Decided

LEMMA AskTyped ==
  ASSUME TypeOK, NEW r \in Reports, NEW kind \in Kinds, NEW first \in Days, NEW last \in Days,
         AskForReport(r, kind, first, last)
  PROVE  \E p \in Records : rep' = [rep EXCEPT ![r] = p] /\ UNCHANGED <<now, caseVars>>
<1> DEFINE pc == IF first > last \/ last - first + 1 > MaxRangeDays THEN "REFUSED" ELSE "ASKED"
           p == [NewReport EXCEPT
                   !.kind = kind, !.asked = now, !.first = first, !.last = last,
                   !.settled = Settled, !.paid = Paid, !.granted = Granted,
                   !.decided = Decided, !.pc = pc]
<1>1. now \in Times /\ pc \in {"REFUSED", "ASKED"}
  BY TypeParts
<1>2. Settled \subseteq Claims /\ Paid \subseteq Claims
      /\ Granted \subseteq Applications /\ Decided \subseteq Applications
  BY DEF Settled, Paid, Granted, Decided
<1> HIDE DEF pc
<1>3. p \in Records
  BY <1>1, <1>2, Calendar DEF NewReport, Records, Answered
<1>4. rep' = [rep EXCEPT ![r] = p] /\ UNCHANGED <<now, caseVars>>
  BY DEF AskForReport, pc
<1> QED BY <1>3, <1>4
(* Every other step of a report continues it with a record of the type. *)
LEMMA ReadsAreRecords ==
  ASSUME TypeOK, NEW r \in Reports
  PROVE  /\ FirmsOf(PaymentLines(rep[r])) \subseteq Firms
         /\ LineTypesOf(PaymentLines(rep[r])) \subseteq LineTypes
         /\ PaymentLines(rep[r]) \subseteq Claims
         /\ OgdLines(rep[r]) \subseteq Claims
         /\ {AppOf[c] : c \in OgdLines(rep[r])} \subseteq Applications
         /\ DecisionEvents(rep[r]) \subseteq Claims
         /\ {c \in Paid : AppOf[c] \in certified} \subseteq Claims
         /\ certified \subseteq Applications
  BY ClaimsAssumption, TypeParts
     DEF FirmsOf, PaymentLines, LineTypesOf, OgdLines, DecisionEvents, Paid, Settled, Decided

LEMMA ReportStepTyped ==
  ASSUME TypeOK, NEW r \in Reports, ReportStep(r)
  PROVE  TypeOK'
<1>1. rep[r] \in Records
  BY TypeParts
<1> SUFFICES \E p \in Records : rep' = [rep EXCEPT ![r] = p] /\ UNCHANGED <<now, caseVars>>
  BY ReadTyped
<1>2. CASE \E kind \in Kinds, first, last \in Days : AskForReport(r, kind, first, last)
  BY <1>2, AskTyped
<1>3. CASE ReadExtractFirms(r)
  BY <1>1, <1>3, ReadsAreRecords DEF ReadExtractFirms, Continue, Records
<1>4. CASE ReadExtractTypes(r)
  BY <1>1, <1>4, ReadsAreRecords DEF ReadExtractTypes, Continue, Records
<1>5. CASE OpenExtract(r)
  BY <1>1, <1>5, ReadsAreRecords DEF OpenExtract, Continue, Records
<1>6. CASE StreamExtract(r)
  <2> DEFINE pc == IF FirmsOf(rep[r].claims) \subseteq rep[r].firms
                      /\ LineTypesOf(rep[r].claims) \subseteq rep[r].types
                     THEN "DONE" ELSE "BROKEN"
  <2>1. rep' = [rep EXCEPT ![r] = [rep[r] EXCEPT !.pc = pc]] /\ UNCHANGED <<now, caseVars>>
    BY <1>6 DEF StreamExtract, Continue
  <2>2. pc \in Answered
    BY DEF Answered
  <2> HIDE DEF pc
  <2> QED BY <1>1, <2>1, <2>2 DEF Records
<1>7. CASE ReadOgdBodies(r)
  BY <1>1, <1>7, ReadsAreRecords DEF ReadOgdBodies, Continue, Records
<1>8. CASE ReadOgdLines(r)
  <2> DEFINE pc == IF \A c \in OgdLines(rep[r]) : AppOf[c] \in rep[r].bodies
                     THEN "DONE" ELSE "INCONSISTENT"
  <2>1. rep' = [rep EXCEPT ![r] = [rep[r] EXCEPT !.claims = OgdLines(rep[r]), !.pc = pc]]
        /\ UNCHANGED <<now, caseVars>>
    BY <1>8 DEF ReadOgdLines, Continue
  <2>2. pc \in Answered
    BY DEF Answered
  <2> HIDE DEF pc
  <2> QED BY <1>1, <2>1, <2>2, ReadsAreRecords DEF Records
<1>9. CASE ReadDecisions(r)
  BY <1>1, <1>9, ReadsAreRecords DEF ReadDecisions, Continue, Records, Answered
<1>10. CASE ReadForecastClaims(r)
  BY <1>1, <1>10, ReadsAreRecords DEF ReadForecastClaims, Continue, Records
<1>11. CASE ReadForecastBodies(r)
  BY <1>1, <1>11, ReadsAreRecords DEF ReadForecastBodies, Continue, Records
<1>12. CASE ReadForecastCertificates(r)
  <2> DEFINE shown == {a \in Applications : HasForecastRow(rep[r], a)}
             pc == IF shown \subseteq rep[r].bodies THEN "DONE" ELSE "INCONSISTENT"
  <2>1. rep' = [rep EXCEPT ![r] = [rep[r] EXCEPT !.shown = shown, !.pc = pc]]
        /\ UNCHANGED <<now, caseVars>>
    BY <1>12 DEF ReadForecastCertificates, Continue
  <2>2. pc \in Answered /\ shown \subseteq Applications
    BY DEF Answered
  <2> HIDE DEF pc, shown
  <2> QED BY <1>1, <2>1, <2>2 DEF Records
<1>13. CASE ReadTrailHistory(r)
  BY <1>1, <1>13, ReadsAreRecords DEF ReadTrailHistory, Continue, Records
<1>14. CASE ReadTrailDownloads(r)
  BY <1>1, <1>14 DEF ReadTrailDownloads, Continue, Records, Answered
<1>15. CASE ReadOpenClaims(r)
  BY <1>1, <1>15 DEF ReadOpenClaims, Continue, Records, Answered
<1>16. CASE ReadPendingApplications(r)
  BY <1>1, <1>16 DEF ReadPendingApplications, Continue, Records, Answered
<1>17. CASE FailReport(r)
  <2>1. PICK pc \in {"DROPPED", "FAILED"} :
          rep' = [rep EXCEPT ![r] = [rep[r] EXCEPT !.pc = pc]] /\ UNCHANGED <<now, caseVars>>
    BY <1>17 DEF FailReport, Continue
  <2> QED BY <1>1, <2>1 DEF Records, Answered
<1> QED BY <1>2, <1>3, <1>4, <1>5, <1>6, <1>7, <1>8, <1>9, <1>10, <1>11, <1>12, <1>13,
           <1>14, <1>15, <1>16, <1>17 DEF ReportStep

(* A claim's new record, as the caseworkers' steps write it. *)
LEMMA ClaimTyped ==
  ASSUME TypeOK, NEW c \in Claims, NEW q \in ClaimRecords,
         claim' = [claim EXCEPT ![c] = q], UNCHANGED <<now, merits, certified, rep>>
  PROVE  TypeOK'
<1>1. claim' \in [Claims -> ClaimRecords]
  BY TypeParts
<1> QED BY <1>1, TypeParts DEF TypeOK, ClaimRecords, Records, Decided

LEMMA CaseStepTyped ==
  ASSUME TypeOK, CaseStep
  PROVE  TypeOK'
<1>1. ASSUME NEW a \in Applications, GrantApplication(a) \/ RefuseApplication(a)
      PROVE  TypeOK'
  <2>1. merits' \in [Applications -> {"PENDING", "GRANTED", "REFUSED"}]
        /\ certified' \subseteq Decided' /\ UNCHANGED <<now, claim, rep>>
    BY <1>1, TypeParts DEF GrantApplication, RefuseApplication, Decided
  <2> QED BY <2>1, TypeParts DEF TypeOK, Records
<1>2. ASSUME NEW c \in Claims,
             \/ SubmitClaim(c) \/ BuildDecision(c) \/ BuildRecords(c)
             \/ CommitDecision(c) \/ RollBackDecision(c)
      PROVE  TypeOK'
  <2>1. claim[c] \in ClaimRecords /\ claim \in [Claims -> ClaimRecords]
        /\ now \in Times /\ 0 \in Times
    BY TypeParts, Calendar
  <2>2. \E q \in ClaimRecords :
          claim' = [claim EXCEPT ![c] = q] /\ UNCHANGED <<now, merits, certified, rep>>
    <3>1. CASE SubmitClaim(c)
      BY <2>1, <3>1 DEF SubmitClaim, ClaimRecords
    <3>2. CASE BuildDecision(c)
      BY <2>1, <3>2 DEF BuildDecision, ClaimRecords
    <3>3. CASE BuildRecords(c)
      BY <2>1, <3>3 DEF BuildRecords, ClaimRecords
    <3>4. CASE CommitDecision(c)
      BY <2>1, <3>4 DEF CommitDecision, ClaimRecords
    <3>5. CASE RollBackDecision(c)
      BY <2>1, <3>5 DEF RollBackDecision, ClaimRecords
    <3> QED BY <1>2, <3>1, <3>2, <3>3, <3>4, <3>5
  <2> QED BY <2>2, ClaimTyped
<1> QED BY <1>1, <1>2 DEF CaseStep

LEMMA TypeStep == TypeOK /\ [Next]_vars => TypeOK'
<1> SUFFICES ASSUME TypeOK, [Next]_vars PROVE TypeOK'
  OBVIOUS
<1>1. CASE CaseStep
  BY <1>1, CaseStepTyped
<1>2. ASSUME NEW r \in Reports, ReportStep(r) PROVE TypeOK'
  BY <1>2, ReportStepTyped
<1>3. CASE TimePasses
  BY <1>3 DEF TimePasses, caseVars, TypeOK, Decided
<1>4. CASE UNCHANGED vars
  BY <1>4 DEF vars, TypeOK, Decided
<1> QED BY <1>1, <1>2, <1>3, <1>4 DEF Next

(* Every reachable state is typed, whatever is asked for and decided. *)
THEOREM TypeCorrect == Spec => []TypeOK
  BY InitTyped, TypeStep, PTL DEF Spec

(***************************************************************************)
(* What is committed stays                                                 *)
(***************************************************************************)
Frozen ==
  /\ Settled \subseteq Settled' /\ Paid \subseteq Paid'
  /\ certified \subseteq certified' /\ Decided \subseteq Decided'
  /\ \A c \in Settled : claim'[c] = claim[c]

LEMMA CaseStepFreezes ==
  ASSUME TypeOK, CaseStep
  PROVE  Frozen /\ UNCHANGED <<now, rep>>
<1>1. ASSUME NEW a \in Applications, GrantApplication(a) \/ RefuseApplication(a)
      PROVE  Frozen /\ UNCHANGED <<now, rep>>
  BY <1>1, TypeParts
     DEF GrantApplication, RefuseApplication, Frozen, Settled, Paid, Decided
<1>2. ASSUME NEW c \in Claims,
             \/ SubmitClaim(c) \/ BuildDecision(c) \/ BuildRecords(c)
             \/ CommitDecision(c) \/ RollBackDecision(c)
      PROVE  Frozen /\ UNCHANGED <<now, rep>>
  <2>1. claim[c].pc \notin {"PAID", "REJECTED"}
        /\ UNCHANGED <<now, merits, certified, rep>>
        /\ \A d \in Claims \ {c} : claim'[d] = claim[d]
    BY <1>2, TypeParts
       DEF SubmitClaim, BuildDecision, BuildRecords, CommitDecision, RollBackDecision
  <2> QED BY <2>1 DEF Frozen, Settled, Paid, Decided
<1> QED BY <1>1, <1>2 DEF CaseStep
LEMMA Freezes ==
  ASSUME TypeOK, [Next]_vars
  PROVE  Frozen
<1>1. CASE CaseStep
  BY <1>1, CaseStepFreezes
<1>2. ASSUME UNCHANGED caseVars PROVE Frozen
  BY <1>2 DEF caseVars, Frozen, Settled, Paid, Decided
<1>3. ASSUME NEW r \in Reports, ReportStep(r) PROVE UNCHANGED caseVars
  BY <1>3 DEF ReportStep, AskForReport, ReadExtractFirms, ReadExtractTypes, OpenExtract,
     StreamExtract, ReadOgdBodies, ReadOgdLines, ReadDecisions, ReadForecastClaims,
     ReadForecastBodies, ReadForecastCertificates, ReadTrailHistory, ReadTrailDownloads,
     ReadOpenClaims, ReadPendingApplications, FailReport, Continue
<1>4. CASE TimePasses
  BY <1>2, <1>4 DEF TimePasses
<1>5. CASE UNCHANGED vars
  BY <1>2, <1>5 DEF vars, caseVars
<1> QED BY <1>1, <1>2, <1>3, <1>4, <1>5 DEF Next

(* What has been read stays related to the cases as it was: the claims it  *)
(* speaks of are settled, and settled claims keep their rows.              *)
LEMMA ReportKept ==
  ASSUME TypeOK, Frozen, NEW r \in Reports, NEW p \in Records, ReportOK(r, p)
  PROVE  ReportOK(r, p)'
<1>1. PastOK(p) /\ ExtractOK(p) /\ OgdOK(p) /\ ForecastOK(p) /\ EventsOK(p) /\ BacklogOK(p)
      /\ TrailOK(r, p)
  BY DEF ReportOK
<1>2. Paid \subseteq Settled
  BY DEF Paid, Settled
<1>3. PastOK(p)'
  BY <1>1, <1>2 DEF PastOK, Frozen
<1>4. PastPayments(p)' = PastPayments(p)
  BY <1>1, <1>2 DEF PastPayments, PastOK, Frozen, InExtractWindow, InWindow
<1>5. ExtractOK(p)'
  <2>1. p.claims \subseteq Paid =>
          \A c \in p.claims : claim'[c] = claim[c] /\ c \in Paid'
    BY <1>2 DEF Frozen
  <2> QED BY <1>1, <1>4, <2>1
         DEF ExtractOK, FirmsOf, LineTypesOf, InExtractWindow, InWindow
<1>6. OgdOK(p)'
  <2>1. p.claims \subseteq Paid =>
          \A c \in p.claims : claim'[c] = claim[c] /\ c \in Paid'
    BY <1>2 DEF Frozen
  <2>2. \A c \in p.paid : claim'[c] = claim[c]
    BY <1>1, <1>2 DEF PastOK, Frozen
  <2> QED BY <1>1, <2>1, <2>2 DEF OgdOK, InWindow
<1>7. ForecastOK(p)'
  BY <1>1 DEF ForecastOK
<1>8. EventsOK(p)'
  <2>1. \A c \in p.settled : claim'[c] = claim[c]
    BY <1>1 DEF PastOK, Frozen
  <2> QED BY <1>1, <2>1 DEF EventsOK, InWindow
<1>9. BacklogOK(p)' /\ TrailOK(r, p)'
  BY <1>1 DEF BacklogOK, TrailOK, InWindow
<1> QED BY <1>3, <1>5, <1>6, <1>7, <1>8, <1>9 DEF ReportOK

(***************************************************************************)
(* The steps of a report                                                   *)
(***************************************************************************)
LEMMA ReportWritten ==
  ASSUME TypeOK, ReportsInv, NEW r \in Reports, NEW p,
         rep' = [rep EXCEPT ![r] = p], UNCHANGED <<now, caseVars>>, ReportOK(r, p)
  PROVE  ReportsInv'
<1>1. rep'[r] = p /\ \A q \in Reports \ {r} : rep'[q] = rep[q]
  BY TypeParts
<1>2. Paid' = Paid /\ Settled' = Settled /\ Decided' = Decided /\ Granted' = Granted
      /\ UNCHANGED <<now, merits, certified, claim>>
  BY DEF caseVars, Paid, Settled, Decided, Granted
<1>3. ASSUME NEW q \in Reports, NEW x, ReportOK(q, x) PROVE ReportOK(q, x)'
  BY <1>2, <1>3
     DEF ReportOK, PastOK, ExtractOK, PastPayments, FirmsOf, LineTypesOf, InExtractWindow,
         InWindow, OgdOK, ForecastOK, EventsOK, BacklogOK, TrailOK
<1>4. \A q \in Reports : ReportOK(q, rep'[q])
  BY <1>1 DEF ReportsInv
<1>5. \A q \in Reports : ReportOK(q, rep[q])'
  BY <1>3, <1>4, <1>1, <1>2
     DEF ReportOK, PastOK, ExtractOK, PastPayments, FirmsOf, LineTypesOf, InExtractWindow,
         InWindow, OgdOK, ForecastOK, EventsOK, BacklogOK, TrailOK
<1> QED BY <1>2, <1>5 DEF ReportsInv, CasesOK

LEMMA AskKeeps ==
  ASSUME TypeOK, ReportsInv, NEW r \in Reports, NEW kind \in Kinds, NEW first \in Days,
         NEW last \in Days, AskForReport(r, kind, first, last)
  PROVE  ReportsInv'
<1> DEFINE pc == IF first > last \/ last - first + 1 > MaxRangeDays THEN "REFUSED" ELSE "ASKED"
           p == [NewReport EXCEPT
                   !.kind = kind, !.asked = now, !.first = first, !.last = last,
                   !.settled = Settled, !.paid = Paid, !.granted = Granted,
                   !.decided = Decided, !.pc = pc]
<1>1. rep' = [rep EXCEPT ![r] = p] /\ UNCHANGED <<now, caseVars>>
  BY DEF AskForReport
<1>2. pc \in {"REFUSED", "ASKED"}
  OBVIOUS
<1> HIDE DEF pc
<1>3. PastOK(p)
  BY DEF PastOK, NewReport, ReportsInv, CasesOK, Paid
<1>4. ExtractOK(p) /\ OgdOK(p) /\ ForecastOK(p) /\ EventsOK(p) /\ BacklogOK(p) /\ TrailOK(r, p)
  BY <1>2 DEF NewReport, ExtractOK, OgdOK, ForecastOK, EventsOK, BacklogOK, TrailOK
<1> QED BY <1>1, <1>3, <1>4, ReportWritten DEF ReportOK
LEMMA PastPaymentsAreRead ==
  ASSUME NEW r \in Reports, PastOK(rep[r])
  PROVE  PastPayments(rep[r]) \subseteq PaymentLines(rep[r])
  BY DEF PastOK, PastPayments, PaymentLines

LEMMA ExtractStepKeeps ==
  ASSUME TypeOK, ReportsInv, NEW r \in Reports,
         ReadExtractFirms(r) \/ ReadExtractTypes(r) \/ OpenExtract(r) \/ StreamExtract(r)
  PROVE  ReportsInv'
<1> DEFINE o == rep[r]
<1>1. o \in Records /\ o.kind = "PAYMENT_EXTRACT" /\ ReportOK(r, o)
  BY TypeParts DEF ReportsInv, ReadExtractFirms, ReadExtractTypes, OpenExtract, StreamExtract, At
<1>2. PastOK(o) /\ ExtractOK(o)
  BY <1>1 DEF ReportOK
<1>3. PastPayments(o) \subseteq PaymentLines(o)
  BY <1>2, PastPaymentsAreRead
<1>4. FirmsOf(PastPayments(o)) \subseteq FirmsOf(PaymentLines(o))
      /\ LineTypesOf(PastPayments(o)) \subseteq LineTypesOf(PaymentLines(o))
  BY <1>3 DEF FirmsOf, LineTypesOf
<1>5. ASSUME NEW p \in Records, rep' = [rep EXCEPT ![r] = p], UNCHANGED <<now, caseVars>>,
             p.kind = "PAYMENT_EXTRACT", PastOK(p), ExtractOK(p)
      PROVE  ReportsInv'
  <2>1. OgdOK(p) /\ ForecastOK(p) /\ EventsOK(p) /\ BacklogOK(p) /\ TrailOK(r, p)
    BY <1>5 DEF OgdOK, ForecastOK, EventsOK, BacklogOK, TrailOK
  <2> QED BY <1>5, <2>1, ReportWritten DEF ReportOK
<1>6. CASE ReadExtractFirms(r)
  <2> DEFINE firms == FirmsOf(PaymentLines(o))
             p == [o EXCEPT !.firms = firms, !.pc = "FIRMS"]
  <2>1. rep' = [rep EXCEPT ![r] = p] /\ UNCHANGED <<now, caseVars>>
    BY <1>6 DEF ReadExtractFirms, Continue
  <2>2. FirmsOf(PastPayments(o)) \subseteq firms /\ firms \subseteq Firms
    BY <1>4, ReadsAreRecords
  <2> HIDE DEF firms, o
  <2>3. p \in Records /\ PastPayments(p) = PastPayments(o) /\ p.kind = "PAYMENT_EXTRACT"
        /\ p.firms = firms /\ p.pc = "FIRMS"
    BY <1>1, <2>2 DEF Records, PastPayments, InExtractWindow, InWindow
  <2>4. PastOK(p)
    BY <1>1, <1>2 DEF PastOK, Records
  <2>5. ExtractOK(p)
    BY <2>2, <2>3 DEF ExtractOK
  <2> QED BY <1>5, <2>1, <2>3, <2>4, <2>5 DEF o
<1>7. CASE ReadExtractTypes(r)
  <2> DEFINE types == LineTypesOf(PaymentLines(o))
             p == [o EXCEPT !.types = types, !.pc = "TYPES"]
  <2>1. rep' = [rep EXCEPT ![r] = p] /\ UNCHANGED <<now, caseVars>> /\ o.pc = "FIRMS"
    BY <1>7 DEF ReadExtractTypes, Continue, At
  <2>2. LineTypesOf(PastPayments(o)) \subseteq types /\ types \subseteq LineTypes
    BY <1>4, ReadsAreRecords
  <2> HIDE DEF types, o
  <2>3. p \in Records /\ PastPayments(p) = PastPayments(o) /\ p.kind = "PAYMENT_EXTRACT"
        /\ p.firms = o.firms /\ p.types = types /\ p.pc = "TYPES"
    BY <1>1, <2>2 DEF Records, PastPayments, InExtractWindow, InWindow
  <2>4. PastOK(p)
    BY <1>1, <1>2 DEF PastOK, Records
  <2>5. ExtractOK(p)
    BY <1>1, <1>2, <2>1, <2>2, <2>3 DEF ExtractOK
  <2> QED BY <1>5, <2>1, <2>3, <2>4, <2>5 DEF o
<1>8. CASE OpenExtract(r)
  <2> DEFINE claims == PaymentLines(o)
             p == [o EXCEPT !.claims = claims, !.pc = "STREAMING"]
  <2>1. rep' = [rep EXCEPT ![r] = p] /\ UNCHANGED <<now, caseVars>> /\ o.pc = "TYPES"
    BY <1>8 DEF OpenExtract, Continue, At
  <2>2. claims \subseteq Claims /\ claims \subseteq Paid /\ PastPayments(o) \subseteq claims
        /\ \A c \in claims : InExtractWindow(o, claim[c].recordedAt)
    BY <1>3, ReadsAreRecords DEF PaymentLines
  <2> HIDE DEF claims, o
  <2>3. p \in Records /\ PastPayments(p) = PastPayments(o) /\ p.kind = "PAYMENT_EXTRACT"
        /\ p.firms = o.firms /\ p.types = o.types /\ p.claims = claims /\ p.pc = "STREAMING"
    BY <1>1, <2>2 DEF Records, PastPayments, InExtractWindow, InWindow
  <2>4. PastOK(p)
    BY <1>1, <1>2 DEF PastOK, Records
  <2>5. \A c \in claims : InExtractWindow(p, claim[c].recordedAt)
    BY <1>1, <2>2 DEF InExtractWindow, InWindow, Records
  <2>6. ExtractOK(p)
    BY <1>1, <1>2, <2>1, <2>2, <2>3, <2>5 DEF ExtractOK
  <2> QED BY <1>5, <2>1, <2>3, <2>4, <2>6 DEF o
<1>9. CASE StreamExtract(r)
  <2> DEFINE checked == FirmsOf(o.claims) \subseteq o.firms /\ LineTypesOf(o.claims) \subseteq o.types
             pc == IF checked THEN "DONE" ELSE "BROKEN"
             p == [o EXCEPT !.pc = pc]
  <2>1. rep' = [rep EXCEPT ![r] = p] /\ UNCHANGED <<now, caseVars>> /\ o.pc = "STREAMING"
    BY <1>9 DEF StreamExtract, Continue, At
  <2>2. pc \in {"DONE", "BROKEN"} /\ (pc = "BROKEN" => ~checked)
    OBVIOUS
  <2> HIDE DEF pc, o
  <2>3. p \in Records /\ PastPayments(p) = PastPayments(o) /\ p.kind = "PAYMENT_EXTRACT"
        /\ p.firms = o.firms /\ p.types = o.types /\ p.claims = o.claims /\ p.pc = pc
    BY <1>1, <2>2 DEF Records, Answered, PastPayments, InExtractWindow, InWindow
  <2>4. PastOK(p)
    BY <1>1, <1>2 DEF PastOK, Records
  <2>5. \A c \in o.claims : InExtractWindow(o, claim[c].recordedAt)
                              => InExtractWindow(p, claim[c].recordedAt)
    BY <1>1 DEF InExtractWindow, InWindow, Records
  <2>6. ExtractOK(p)
    BY <1>1, <1>2, <2>1, <2>2, <2>3, <2>5 DEF ExtractOK
  <2> QED BY <1>5, <2>1, <2>3, <2>4, <2>6 DEF o
<1> QED BY <1>6, <1>7, <1>8, <1>9
LEMMA OgdStepKeeps ==
  ASSUME TypeOK, ReportsInv, NEW r \in Reports, ReadOgdBodies(r) \/ ReadOgdLines(r)
  PROVE  ReportsInv'
<1> DEFINE o == rep[r]
<1>1. o \in Records /\ o.kind = "OGD_COSTS" /\ ReportOK(r, o)
  BY TypeParts DEF ReportsInv, ReadOgdBodies, ReadOgdLines, At
<1>2. PastOK(o) /\ OgdOK(o)
  BY <1>1 DEF ReportOK
<1>3. \A c \in o.paid : InWindow(o, claim[c].decidedAt) => c \in OgdLines(o)
  BY <1>2 DEF PastOK, OgdLines
<1>4. ASSUME NEW p \in Records, rep' = [rep EXCEPT ![r] = p], UNCHANGED <<now, caseVars>>,
             p.kind = "OGD_COSTS", PastOK(p), OgdOK(p)
      PROVE  ReportsInv'
  <2>1. ExtractOK(p) /\ ForecastOK(p) /\ EventsOK(p) /\ BacklogOK(p) /\ TrailOK(r, p)
    BY <1>4 DEF ExtractOK, ForecastOK, EventsOK, BacklogOK, TrailOK
  <2> QED BY <1>4, <2>1, ReportWritten DEF ReportOK
<1>5. CASE ReadOgdBodies(r)
  <2> DEFINE bodies == {AppOf[c] : c \in OgdLines(o)}
             p == [o EXCEPT !.bodies = bodies, !.pc = "BODIES"]
  <2>1. rep' = [rep EXCEPT ![r] = p] /\ UNCHANGED <<now, caseVars>>
    BY <1>5 DEF ReadOgdBodies, Continue
  <2>2. bodies \subseteq Applications
        /\ \A c \in o.paid : InWindow(o, claim[c].decidedAt) => AppOf[c] \in bodies
    BY <1>3, ReadsAreRecords
  <2> HIDE DEF bodies, o
  <2>3. p \in Records /\ PastOK(p) /\ p.kind = "OGD_COSTS" /\ p.pc = "BODIES"
    BY <1>1, <1>2, <2>2 DEF Records, PastOK
  <2>4. OgdOK(p)
    BY <1>1, <2>2, <2>3 DEF OgdOK, InWindow, Records
  <2> QED BY <1>4, <2>1, <2>3, <2>4 DEF o
<1>6. CASE ReadOgdLines(r)
  <2> DEFINE lines == OgdLines(o)
             complete == \A c \in lines : AppOf[c] \in o.bodies
             pc == IF complete THEN "DONE" ELSE "INCONSISTENT"
             p == [o EXCEPT !.claims = lines, !.pc = pc]
  <2>1. rep' = [rep EXCEPT ![r] = p] /\ UNCHANGED <<now, caseVars>> /\ o.pc = "BODIES"
    BY <1>6 DEF ReadOgdLines, Continue, At
  <2>2. pc \in {"DONE", "INCONSISTENT"} /\ (pc = "INCONSISTENT" => ~complete)
    OBVIOUS
  <2>3. lines \subseteq Claims /\ lines \subseteq Paid
        /\ \A c \in lines : InWindow(o, claim[c].decidedAt)
    BY ReadsAreRecords DEF OgdLines
  <2>4. \A c \in o.paid : InWindow(o, claim[c].decidedAt) => c \in lines
    BY <1>3
  <2>5. \A c \in o.paid : InWindow(o, claim[c].decidedAt) => AppOf[c] \in o.bodies
    BY <1>1, <1>2, <2>1 DEF OgdOK
  <2> HIDE DEF lines, pc, o
  <2>6. p \in Records /\ PastOK(p) /\ p.kind = "OGD_COSTS" /\ p.pc = pc /\ p.claims = lines
        /\ p.bodies = o.bodies /\ p.paid = o.paid
    BY <1>1, <1>2, <2>2, <2>3 DEF Records, Answered, PastOK
  <2>7. \A c \in Claims : InWindow(p, claim[c].decidedAt) <=> InWindow(o, claim[c].decidedAt)
    BY <1>1 DEF InWindow, Records
  <2>8. o.paid \subseteq Claims
    BY <1>1 DEF Records
  <2>9. OgdOK(p)
    BY <2>2, <2>3, <2>4, <2>5, <2>6, <2>7, <2>8 DEF OgdOK
  <2> QED BY <1>4, <2>1, <2>6, <2>9 DEF o
<1> QED BY <1>5, <1>6

LEMMA ForecastStepKeeps ==
  ASSUME TypeOK, ReportsInv, NEW r \in Reports,
         ReadForecastClaims(r) \/ ReadForecastBodies(r) \/ ReadForecastCertificates(r)
  PROVE  ReportsInv'
<1> DEFINE o == rep[r]
<1>1. o \in Records /\ o.kind = "COST_LIMIT_FORECAST" /\ ReportOK(r, o)
  BY TypeParts
     DEF ReportsInv, ReadForecastClaims, ReadForecastBodies, ReadForecastCertificates, At
<1>2. PastOK(o) /\ ForecastOK(o)
  BY <1>1 DEF ReportOK
<1>3. ASSUME NEW p \in Records, rep' = [rep EXCEPT ![r] = p], UNCHANGED <<now, caseVars>>,
             p.kind = "COST_LIMIT_FORECAST", PastOK(p), ForecastOK(p)
      PROVE  ReportsInv'
  <2>1. ExtractOK(p) /\ OgdOK(p) /\ EventsOK(p) /\ BacklogOK(p) /\ TrailOK(r, p)
    BY <1>3 DEF ExtractOK, OgdOK, EventsOK, BacklogOK, TrailOK
  <2> QED BY <1>3, <2>1, ReportWritten DEF ReportOK
<1>4. CASE ReadForecastClaims(r)
  <2> DEFINE claims == {c \in Paid : AppOf[c] \in certified}
             p == [o EXCEPT !.claims = claims, !.pc = "CLAIMS"]
  <2>1. rep' = [rep EXCEPT ![r] = p] /\ UNCHANGED <<now, caseVars>> /\ o.pc = "ASKED"
    BY <1>4 DEF ReadForecastClaims, Continue, At
  <2>2. claims \subseteq Claims /\ o.paid \subseteq claims
    BY <1>2, ReadsAreRecords DEF PastOK, ReportsInv, CasesOK, Paid
  <2> HIDE DEF claims, o
  <2>3. p \in Records /\ PastOK(p) /\ p.kind = "COST_LIMIT_FORECAST" /\ p.pc = "CLAIMS"
        /\ p.claims = claims /\ p.paid = o.paid /\ p.shown = o.shown
    BY <1>1, <1>2, <2>2 DEF Records, PastOK
  <2>4. ForecastOK(p)
    BY <1>1, <1>2, <2>1, <2>2, <2>3 DEF ForecastOK
  <2> QED BY <1>3, <2>1, <2>3, <2>4 DEF o
<1>5. CASE ReadForecastBodies(r)
  <2> DEFINE p == [o EXCEPT !.bodies = certified, !.pc = "BODIES"]
  <2>1. rep' = [rep EXCEPT ![r] = p] /\ UNCHANGED <<now, caseVars>> /\ o.pc = "CLAIMS"
    BY <1>5 DEF ReadForecastBodies, Continue, At
  <2>2. certified \subseteq Applications /\ o.granted \subseteq certified
    BY <1>2, ReadsAreRecords DEF PastOK
  <2> HIDE DEF o
  <2>3. p \in Records /\ PastOK(p) /\ p.kind = "COST_LIMIT_FORECAST" /\ p.pc = "BODIES"
        /\ p.claims = o.claims /\ p.paid = o.paid /\ p.shown = o.shown
        /\ p.bodies = certified /\ p.granted = o.granted
    BY <1>1, <1>2, <2>2 DEF Records, PastOK
  <2>4. ForecastOK(p)
    BY <1>1, <1>2, <2>1, <2>2, <2>3 DEF ForecastOK
  <2> QED BY <1>3, <2>1, <2>3, <2>4 DEF o
<1>6. CASE ReadForecastCertificates(r)
  <2> DEFINE shown == {a \in Applications : HasForecastRow(o, a)}
             pc == IF shown \subseteq o.bodies THEN "DONE" ELSE "INCONSISTENT"
             p == [o EXCEPT !.shown = shown, !.pc = pc]
  <2>1. rep' = [rep EXCEPT ![r] = p] /\ UNCHANGED <<now, caseVars>> /\ o.pc = "BODIES"
    BY <1>6 DEF ReadForecastCertificates, Continue, At
  <2>2. pc \in {"DONE", "INCONSISTENT"} /\ (pc = "INCONSISTENT" => ~(shown \subseteq o.bodies))
    OBVIOUS
  <2>3. shown \subseteq Applications /\ \A c \in o.claims \cap FinalBills : AppOf[c] \notin shown
    BY DEF HasForecastRow
  <2> HIDE DEF shown, pc, o
  <2>4. p \in Records /\ PastOK(p) /\ p.kind = "COST_LIMIT_FORECAST" /\ p.pc = pc
        /\ p.claims = o.claims /\ p.paid = o.paid /\ p.shown = shown
        /\ p.bodies = o.bodies /\ p.granted = o.granted
    BY <1>1, <1>2, <2>2, <2>3 DEF Records, Answered, PastOK
  <2>5. ForecastOK(p)
    BY <1>1, <1>2, <2>1, <2>2, <2>3, <2>4 DEF ForecastOK
  <2> QED BY <1>3, <2>1, <2>4, <2>5 DEF o
<1> QED BY <1>4, <1>5, <1>6

LEMMA EventStepKeeps ==
  ASSUME TypeOK, ReportsInv, NEW r \in Reports,
         ReadDecisions(r) \/ ReadTrailHistory(r) \/ ReadTrailDownloads(r)
  PROVE  ReportsInv'
<1> DEFINE o == rep[r]
<1>1. o \in Records /\ o.kind \in {"DECISIONS", "AUDIT_TRAIL"} /\ ReportOK(r, o)
  BY TypeParts DEF ReportsInv, ReadDecisions, ReadTrailHistory, ReadTrailDownloads, At
<1>2. PastOK(o) /\ EventsOK(o)
  BY <1>1 DEF ReportOK
<1>3. \A c \in o.settled : InWindow(o, claim[c].recordedAt) => c \in DecisionEvents(o)
  BY <1>2 DEF PastOK, DecisionEvents
<1>4. ASSUME NEW p \in Records, rep' = [rep EXCEPT ![r] = p], UNCHANGED <<now, caseVars>>,
             p.kind \in {"DECISIONS", "AUDIT_TRAIL"}, PastOK(p), EventsOK(p), TrailOK(r, p)
      PROVE  ReportsInv'
  <2>1. ExtractOK(p) /\ OgdOK(p) /\ ForecastOK(p) /\ BacklogOK(p)
    BY <1>4 DEF ExtractOK, OgdOK, ForecastOK, BacklogOK
  <2> QED BY <1>4, <2>1, ReportWritten DEF ReportOK
<1>5. CASE ReadDecisions(r) \/ ReadTrailHistory(r)
  <2>1. PICK pc \in {"DONE", "HISTORY"} :
          /\ rep' = [rep EXCEPT ![r] = [o EXCEPT !.claims = DecisionEvents(o), !.pc = pc]]
          /\ UNCHANGED <<now, caseVars>>
          /\ o.kind = "AUDIT_TRAIL" => pc = "HISTORY"
    BY <1>5 DEF ReadDecisions, ReadTrailHistory, Continue, At
  <2> DEFINE events == DecisionEvents(o)
             p == [o EXCEPT !.claims = events, !.pc = pc]
  <2>2. events \subseteq Claims
        /\ \A c \in o.settled : InWindow(o, claim[c].recordedAt) => c \in events
    BY <1>3, ReadsAreRecords
  <2>3. rep' = [rep EXCEPT ![r] = p] /\ UNCHANGED <<now, caseVars>>
    BY <2>1
  <2> HIDE DEF events, o
  <2>4. p \in Records /\ PastOK(p) /\ p.kind = o.kind /\ p.pc = pc /\ p.claims = events
        /\ p.settled = o.settled
    BY <1>1, <1>2, <2>1, <2>2 DEF Records, Answered, PastOK
  <2>5. \A t \in Times : InWindow(p, t) <=> InWindow(o, t)
    BY <1>1 DEF InWindow, Records
  <2>6. \A c \in o.settled : claim[c].recordedAt \in Times
    BY <1>1, TypeParts DEF Records, ClaimRecords
  <2>7. EventsOK(p)
    BY <2>2, <2>4, <2>5, <2>6 DEF EventsOK
  <2>8. TrailOK(r, p)
    BY <2>1, <2>4 DEF TrailOK
  <2> QED BY <1>1, <1>4, <2>3, <2>4, <2>7, <2>8 DEF o
<1>6. CASE ReadTrailDownloads(r)
  <2> DEFINE downloads == {q \in Reports : rep[q].pc # "NEW" /\ InWindow(o, rep[q].asked)}
             p == [o EXCEPT !.downloads = downloads, !.pc = "DONE"]
  <2>1. rep' = [rep EXCEPT ![r] = p] /\ UNCHANGED <<now, caseVars>> /\ o.pc = "HISTORY"
    BY <1>6 DEF ReadTrailDownloads, Continue, At
  <2>2. downloads \subseteq Reports /\ (InWindow(o, o.asked) => r \in downloads)
    BY <2>1
  <2> HIDE DEF downloads, o
  <2>3. p \in Records /\ PastOK(p) /\ p.kind = o.kind /\ p.pc = "DONE" /\ p.claims = o.claims
        /\ p.settled = o.settled /\ p.downloads = downloads /\ p.asked = o.asked
    BY <1>1, <1>2, <2>1, <2>2 DEF Records, Answered, PastOK
  <2>4. \A t \in Times : InWindow(p, t) <=> InWindow(o, t)
    BY <1>1 DEF InWindow, Records
  <2>5. o.asked \in Times /\ \A c \in o.settled : claim[c].recordedAt \in Times
    BY <1>1, TypeParts DEF Records, ClaimRecords
  <2>6. EventsOK(p) /\ TrailOK(r, p)
    BY <1>1, <1>2, <2>1, <2>2, <2>3, <2>4, <2>5 DEF EventsOK, TrailOK
  <2> QED BY <1>1, <1>4, <2>1, <2>3, <2>6 DEF o
<1> QED BY <1>5, <1>6
LEMMA BacklogStepKeeps ==
  ASSUME TypeOK, ReportsInv, NEW r \in Reports,
         ReadOpenClaims(r) \/ ReadPendingApplications(r)
  PROVE  ReportsInv'
<1> DEFINE o == rep[r]
<1>1. o \in Records /\ o.kind \in {"CLAIMS_BACKLOG", "APPLICATIONS_BACKLOG"} /\ ReportOK(r, o)
  BY TypeParts DEF ReportsInv, ReadOpenClaims, ReadPendingApplications, At
<1>2. PastOK(o) /\ BacklogOK(o)
  BY <1>1 DEF ReportOK
<1>3. ASSUME NEW p \in Records, rep' = [rep EXCEPT ![r] = p], UNCHANGED <<now, caseVars>>,
             p.kind \in {"CLAIMS_BACKLOG", "APPLICATIONS_BACKLOG"}, PastOK(p), BacklogOK(p)
      PROVE  ReportsInv'
  <2>1. ExtractOK(p) /\ OgdOK(p) /\ ForecastOK(p) /\ EventsOK(p) /\ TrailOK(r, p)
    BY <1>3 DEF ExtractOK, OgdOK, ForecastOK, EventsOK, TrailOK
  <2> QED BY <1>3, <2>1, ReportWritten DEF ReportOK
<1>4. CASE ReadOpenClaims(r)
  <2> DEFINE claims == {c \in Claims : claim[c].pc \in {"SUBMITTED", "DECIDING", "RECORDED"}}
             p == [o EXCEPT !.claims = claims, !.pc = "DONE"]
  <2>1. rep' = [rep EXCEPT ![r] = p] /\ UNCHANGED <<now, caseVars>> /\ o.kind = "CLAIMS_BACKLOG"
    BY <1>4 DEF ReadOpenClaims, Continue, At
  <2>2. claims \subseteq Claims /\ claims \cap o.settled = {}
    BY <1>2 DEF PastOK, Settled
  <2> HIDE DEF claims, o
  <2>3. p \in Records /\ PastOK(p) /\ p.kind = "CLAIMS_BACKLOG" /\ BacklogOK(p)
    BY <1>1, <1>2, <2>1, <2>2 DEF Records, Answered, PastOK, BacklogOK
  <2> QED BY <1>3, <2>1, <2>3 DEF o
<1>5. CASE ReadPendingApplications(r)
  <2> DEFINE shown == Applications \ Decided
             p == [o EXCEPT !.shown = shown, !.pc = "DONE"]
  <2>1. rep' = [rep EXCEPT ![r] = p] /\ UNCHANGED <<now, caseVars>>
        /\ o.kind = "APPLICATIONS_BACKLOG"
    BY <1>5 DEF ReadPendingApplications, Continue, At
  <2>2. shown \subseteq Applications /\ shown \cap o.decided = {}
    BY <1>2 DEF PastOK
  <2> HIDE DEF shown, o
  <2>3. p \in Records /\ PastOK(p) /\ p.kind = "APPLICATIONS_BACKLOG" /\ BacklogOK(p)
    BY <1>1, <1>2, <2>1, <2>2 DEF Records, Answered, PastOK, BacklogOK
  <2> QED BY <1>3, <2>1, <2>3 DEF o
<1> QED BY <1>4, <1>5

LEMMA FailKeeps ==
  ASSUME TypeOK, ReportsInv, NEW r \in Reports, FailReport(r)
  PROVE  ReportsInv'
<1> DEFINE o == rep[r]
<1>1. o \in Records /\ ReportOK(r, o) /\ o.pc \notin Answered \cup {"NEW"}
  BY TypeParts DEF ReportsInv, FailReport
<1>2. PICK pc \in {"DROPPED", "FAILED"} :
        rep' = [rep EXCEPT ![r] = [o EXCEPT !.pc = pc]] /\ UNCHANGED <<now, caseVars>>
  BY DEF FailReport, Continue
<1> DEFINE p == [o EXCEPT !.pc = pc]
<1>3. rep' = [rep EXCEPT ![r] = p]
  BY <1>2
<1> HIDE DEF o
<1>4. p \in Records /\ p.pc = pc /\ p.kind = o.kind /\ p.shown = o.shown /\ p.claims = o.claims
      /\ p.settled = o.settled /\ p.decided = o.decided
  BY <1>1, <1>2 DEF Records, Answered
<1>5. PastOK(p)
  BY <1>1 DEF ReportOK, PastOK, Records
<1>6. ExtractOK(p) /\ OgdOK(p) /\ EventsOK(p) /\ TrailOK(r, p)
  BY <1>2, <1>4 DEF ExtractOK, OgdOK, EventsOK, TrailOK
<1>7. ForecastOK(p)
  <2>1. o.kind = "COST_LIMIT_FORECAST" => o.shown = {}
    BY <1>1 DEF ReportOK, ForecastOK, Answered
  <2> QED BY <1>2, <1>4, <2>1 DEF ForecastOK
<1>8. BacklogOK(p)
  BY <1>1, <1>4 DEF ReportOK, BacklogOK
<1> QED BY <1>2, <1>3, <1>4, <1>5, <1>6, <1>7, <1>8, ReportWritten DEF ReportOK

(***************************************************************************)
(* The theorems                                                            *)
(***************************************************************************)
LEMMA InvariantInit == Init => ReportsInv
<1> SUFFICES ASSUME Init PROVE ReportsInv
  OBVIOUS
<1>1. CasesOK
  BY Calendar DEF Init, CasesOK, Granted
<1>2. ASSUME NEW r \in Reports PROVE ReportOK(r, NewReport)
  BY DEF NewReport, ReportOK, PastOK, ExtractOK, OgdOK, ForecastOK, EventsOK, BacklogOK, TrailOK
<1>3. \A r \in Reports : rep[r] = NewReport
  BY DEF Init
<1> QED BY <1>1, <1>2, <1>3 DEF ReportsInv

LEMMA CaseStepKeeps ==
  ASSUME TypeOK, TypeOK', ReportsInv, CaseStep
  PROVE  ReportsInv'
<1>1. Frozen /\ UNCHANGED <<now, rep>>
  BY CaseStepFreezes
<1>2. \A r \in Reports : ReportOK(r, rep[r])'
  BY <1>1, ReportKept, TypeParts DEF ReportsInv
<1>3. CasesOK'
  <2>1. now \in Nat
    BY TypeParts, Calendar
  <2>2. ASSUME NEW a \in Applications, GrantApplication(a) \/ RefuseApplication(a)
        PROVE  CasesOK'
    BY <2>2, TypeParts
       DEF GrantApplication, RefuseApplication, ReportsInv, CasesOK, Granted
  <2>3. ASSUME NEW c \in Claims,
               \/ SubmitClaim(c) \/ BuildDecision(c) \/ BuildRecords(c)
               \/ CommitDecision(c) \/ RollBackDecision(c)
        PROVE  CasesOK'
    <3>1. /\ UNCHANGED <<now, merits, certified>>
          /\ \A d \in Claims \ {c} : claim'[d] = claim[d]
          /\ AppOf[c] \in certified
      BY <2>3, TypeParts, ClaimsAssumption
         DEF SubmitClaim, BuildDecision, BuildRecords, CommitDecision, RollBackDecision,
             ReportsInv, CasesOK, Granted
    <3>2. claim'[c].recordedAt <= now
      BY <2>1, <2>3, TypeParts
         DEF SubmitClaim, BuildDecision, BuildRecords, CommitDecision, RollBackDecision,
             ReportsInv, CasesOK, ClaimRecords
    <3> QED BY <3>1, <3>2 DEF ReportsInv, CasesOK, Granted
  <2> QED BY <2>2, <2>3 DEF CaseStep
<1> QED BY <1>2, <1>3 DEF ReportsInv

LEMMA InvariantStep == TypeOK /\ ReportsInv /\ [Next]_vars => ReportsInv'
<1> SUFFICES ASSUME TypeOK, ReportsInv, [Next]_vars PROVE ReportsInv'
  OBVIOUS
<1>1. TypeOK'
  BY TypeStep
<1>2. CASE CaseStep
  BY <1>1, <1>2, CaseStepKeeps
<1>3. ASSUME NEW r \in Reports, ReportStep(r) PROVE ReportsInv'
  BY <1>3, AskKeeps, ExtractStepKeeps, OgdStepKeeps, ForecastStepKeeps, EventStepKeeps,
     BacklogStepKeeps, FailKeeps DEF ReportStep
<1>4. CASE TimePasses \/ UNCHANGED vars
  <2>1. UNCHANGED <<caseVars, rep>> /\ now' >= now
    <3>1. now \in Nat
      BY TypeParts, Calendar
    <3>2. CASE TimePasses
      BY <3>1, <3>2 DEF TimePasses
    <3>3. CASE UNCHANGED vars
      BY <3>1, <3>3 DEF vars, caseVars
    <3> QED BY <1>4, <3>2, <3>3
  <2>2. ASSUME NEW r \in Reports PROVE ReportOK(r, rep[r])'
    <3>1. rep[r] \in Records /\ ReportOK(r, rep[r]) /\ rep' = rep
      BY <2>1, TypeParts DEF ReportsInv
    <3>2. \A p \in Records : ReportOK(r, p) => ReportOK(r, p)'
      BY Freezes, ReportKept
    <3> QED BY <3>1, <3>2
  <2>3. now \in Nat /\ now' \in Nat /\ \A c \in Claims : claim[c].recordedAt \in Nat
    BY <1>1, TypeParts, Calendar DEF TypeOK, ClaimRecords
  <2>4. CasesOK'
    BY <2>1, <2>3 DEF caseVars, ReportsInv, CasesOK, Granted
  <2> QED BY <2>2, <2>4 DEF ReportsInv
<1> QED BY <1>2, <1>3, <1>4 DEF Next

THEOREM ReportsInvariant == Spec => [](TypeOK /\ ReportsInv)
  BY InitTyped, TypeStep, InvariantInit, InvariantStep, PTL DEF Spec

(* A payment extract breaks off only over a payment that was in flight when *)
(* it was asked for, because it is closed at the time of the request.       *)
THEOREM StreamsCorrect == Spec => []BrokenStreamsHaveTheirCause
<1>1. TypeOK /\ ReportsInv => BrokenStreamsHaveTheirCause
  <2> SUFFICES ASSUME TypeOK, ReportsInv, NEW r \in Reports, At(r, "PAYMENT_EXTRACT", "BROKEN")
               PROVE  \E c \in rep[r].claims :
                        claim[c].recordedAt < rep[r].asked /\ c \notin rep[r].paid
    BY DEF BrokenStreamsHaveTheirCause
  <2>1. ExtractOK(rep[r]) /\ rep[r].kind = "PAYMENT_EXTRACT" /\ rep[r].pc = "BROKEN"
    BY DEF ReportsInv, ReportOK, At
  <2>2. \A c \in rep[r].claims : InExtractWindow(rep[r], claim[c].recordedAt)
    BY <2>1 DEF ExtractOK
  <2>3. PICK c \in rep[r].claims : c \notin PastPayments(rep[r])
    BY <2>1 DEF ExtractOK, FirmsOf, LineTypesOf
  <2> QED BY <2>2, <2>3 DEF PastPayments, InExtractWindow
<1> QED BY <1>1, ReportsInvariant, PTL

(* What fails a report on its own check was committed after it was asked for. *)
THEOREM InconsistenciesCorrect == Spec => []InconsistentReportsOverlapped
<1>1. TypeOK /\ ReportsInv => InconsistentReportsOverlapped
  <2> SUFFICES ASSUME TypeOK, ReportsInv, NEW r \in Reports
               PROVE  /\ At(r, "OGD_COSTS", "INCONSISTENT")
                           => ~(rep[r].claims \subseteq rep[r].paid)
                      /\ At(r, "COST_LIMIT_FORECAST", "INCONSISTENT")
                           => ~(rep[r].shown \subseteq rep[r].granted)
    BY DEF InconsistentReportsOverlapped
  <2>1. OgdOK(rep[r]) /\ ForecastOK(rep[r])
    BY DEF ReportsInv, ReportOK
  <2>2. At(r, "OGD_COSTS", "INCONSISTENT") => ~(rep[r].claims \subseteq rep[r].paid)
    BY <2>1 DEF OgdOK, At
  <2>3. At(r, "COST_LIMIT_FORECAST", "INCONSISTENT") => ~(rep[r].shown \subseteq rep[r].granted)
    BY <2>1 DEF ForecastOK, At
  <2> QED BY <2>2, <2>3
<1> QED BY <1>1, ReportsInvariant, PTL

(* The days asked for are the window the statements filter with. *)
LEMMA DaysAreTheWindow ==
  ASSUME NEW t \in Times, NEW p \in Records, AskedAbout(p, t)
  PROVE  InWindow(p, t)
<1> DEFINE q == t \div DayLength
<1>1. t \in Nat /\ DayLength \in Nat \ {0} /\ p.first \in Nat /\ p.last \in Nat
  BY Calendar, CalendarAssumption DEF Records
<1>2. q \in Nat /\ q * DayLength <= t /\ t < (q + 1) * DayLength
  BY <1>1
<1>3. p.first <= q /\ q <= p.last
  BY <1>1, <1>2 DEF AskedAbout, DayOf
<1> HIDE DEF q
<1>4. p.first * DayLength <= q * DayLength
  BY <1>1, <1>2, <1>3
<1>5. (q + 1) * DayLength <= (p.last + 1) * DayLength
  BY <1>1, <1>2, <1>3
<1>6. p.first * DayLength \in Int /\ q * DayLength \in Int
      /\ (q + 1) * DayLength \in Int /\ (p.last + 1) * DayLength \in Int
  BY <1>1, <1>2
<1>7. p.first * DayLength <= t /\ t < (p.last + 1) * DayLength
  BY <1>1, <1>2, <1>4, <1>5, <1>6
<1> QED BY <1>7 DEF InWindow

(* A report holds what had been committed when it was asked for. *)
THEOREM PastCorrect == Spec => []ReportsHoldTheirPast
<1>1. TypeOK /\ ReportsInv => ReportsHoldTheirPast
  <2> SUFFICES ASSUME TypeOK, ReportsInv PROVE ReportsHoldTheirPast
    OBVIOUS
  <2>1. ASSUME NEW r \in Reports
        PROVE  /\ rep[r] \in Records /\ PastOK(rep[r])
               /\ ExtractOK(rep[r]) /\ OgdOK(rep[r]) /\ EventsOK(rep[r]) /\ TrailOK(r, rep[r])
               /\ \A t \in Times : AskedAbout(rep[r], t) => InWindow(rep[r], t)
               /\ rep[r].paid \subseteq Claims /\ rep[r].settled \subseteq Claims
               /\ rep[r].asked \in Times /\ rep[r].asked \in Nat
    <3>1. rep[r] \in Records
      BY TypeParts
    <3>2. PastOK(rep[r]) /\ ExtractOK(rep[r]) /\ OgdOK(rep[r]) /\ EventsOK(rep[r])
          /\ TrailOK(r, rep[r])
      BY DEF ReportsInv, ReportOK
    <3>3. \A t \in Times : AskedAbout(rep[r], t) => InWindow(rep[r], t)
      BY <3>1, DaysAreTheWindow
    <3>4. rep[r].paid \subseteq Claims /\ rep[r].settled \subseteq Claims
          /\ rep[r].asked \in Times /\ rep[r].asked \in Nat
      BY <3>1, Calendar DEF Records
    <3> QED BY <3>1, <3>2, <3>3, <3>4
  <2>2. \A c \in Claims : claim[c].recordedAt \in Times /\ claim[c].decidedAt \in Times
                          /\ claim[c].recordedAt \in Nat
    BY TypeParts, Calendar DEF ClaimRecords
  <2>3. ASSUME NEW r \in Reports, At(r, "PAYMENT_EXTRACT", "DONE"), NEW c \in rep[r].paid,
               AskedAbout(rep[r], claim[c].recordedAt), claim[c].recordedAt # rep[r].asked
        PROVE  c \in rep[r].claims
    <3>1. claim[c].recordedAt < rep[r].asked
      BY <2>1, <2>2, <2>3 DEF PastOK
    <3>2. InExtractWindow(rep[r], claim[c].recordedAt)
      BY <2>1, <2>2, <2>3, <3>1 DEF InExtractWindow
    <3> QED BY <2>1, <2>3, <3>2 DEF ExtractOK, PastPayments, At
  <2>4. ASSUME NEW r \in Reports, At(r, "OGD_COSTS", "DONE"), NEW c \in rep[r].paid,
               AskedAbout(rep[r], claim[c].decidedAt)
        PROVE  c \in rep[r].claims
    BY <2>1, <2>2, <2>4 DEF OgdOK, At
  <2>5. ASSUME NEW r \in Reports, At(r, "DECISIONS", "DONE") \/ At(r, "AUDIT_TRAIL", "DONE"),
               NEW c \in rep[r].settled, AskedAbout(rep[r], claim[c].recordedAt)
        PROVE  c \in rep[r].claims
    BY <2>1, <2>2, <2>5 DEF EventsOK, At
  <2>6. ASSUME NEW r \in Reports, At(r, "AUDIT_TRAIL", "DONE"),
               AskedAbout(rep[r], rep[r].asked)
        PROVE  r \in rep[r].downloads
    BY <2>1, <2>6 DEF TrailOK, At
  <2> QED BY <2>3, <2>4, <2>5, <2>6 DEF ReportsHoldTheirPast
<1> QED BY <1>1, ReportsInvariant, PTL

(* A case that was settled when a report was asked for is not outstanding in it. *)
THEOREM OutstandingCorrect == Spec => []SettledIsNotOutstanding
<1>1. TypeOK /\ ReportsInv => SettledIsNotOutstanding
  <2> SUFFICES ASSUME TypeOK, ReportsInv, NEW r \in Reports
               PROVE  /\ rep[r].kind = "COST_LIMIT_FORECAST" =>
                           \A c \in rep[r].paid \cap FinalBills : AppOf[c] \notin rep[r].shown
                      /\ BacklogOK(rep[r])
    BY DEF SettledIsNotOutstanding, BacklogOK
  <2>1. rep[r] \in Records /\ ForecastOK(rep[r]) /\ BacklogOK(rep[r])
    BY TypeParts DEF ReportsInv, ReportOK
  <2>2. rep[r].paid \subseteq Claims
    BY <2>1 DEF Records
  <2>3. ASSUME rep[r].kind = "COST_LIMIT_FORECAST", NEW c \in rep[r].paid \cap FinalBills
        PROVE  AppOf[c] \notin rep[r].shown
    BY <2>1, <2>2, <2>3 DEF ForecastOK
  <2> QED BY <2>1, <2>3
<1> QED BY <1>1, ReportsInvariant, PTL
=============================================================================
