------------------------------- MODULE Reports -------------------------------
(***************************************************************************)
(* The CSV reports of routers/reports.py, asked for while caseworkers      *)
(* decide applications and claims.  A report reads with one to three       *)
(* statements, and at READ COMMITTED each statement has a snapshot of its  *)
(* own: what commits between two of them is in one and not in the other.   *)
(* A decision's rows carry the time the program built them, the decision   *)
(* row first and the payment lines with the history event later, and       *)
(* appear in the database when its transaction commits, after the email.   *)
(*                                                                         *)
(* Abstractions.  The clock counts parts of a UTC day.  A paid claim       *)
(* stands for its payment lines, which are built and committed together;   *)
(* one that is paid without a line is listed all the same.  A claim is     *)
(* settled once: ClaimLifecycle has the decision that comes second.  Every *)
(* application has public bodies, without which no certificate can be      *)
(* made and no grant commits.  All pods have the same clock.               *)
(* An application's own decisions are in the forecast and the backlog but  *)
(* not among the events, nor are page views.  Columns, wording, and the    *)
(* order of rows are left out.                                             *)
(***************************************************************************)
EXTENDS Integers, FiniteSets, FiniteSetsExt

CONSTANTS
  Applications,
  Claims,
  Reports,        \* requests for a report, each made once
  Firms,
  LineTypes,      \* PaymentLineType: what classify_payment_line tells apart
  AppOf,          \* claim.application_id
  FirmOf,         \* provider.firm_code of an application
  TypesOf,        \* the types of the lines that paying a claim creates
  FinalBills,     \* claims of type FINAL_BILL
  Amount,         \* a claim's total
  CostLimit,      \* proceeding.substantive_cost_limitation
  DayLength,      \* parts of a day
  LastDay,        \* the days are 0..LastDay
  MaxRangeDays    \* MAX_REPORT_RANGE_DAYS

ASSUME ClaimsAssumption ==
  /\ AppOf \in [Claims -> Applications]
  /\ FirmOf \in [Applications -> Firms]
  /\ TypesOf \in [Claims -> SUBSET LineTypes]
  /\ FinalBills \subseteq Claims
  /\ Amount \in [Claims -> Nat]
  /\ CostLimit \in Nat
ASSUME CalendarAssumption ==
  /\ DayLength \in Nat \ {0}
  /\ LastDay \in Nat
  /\ MaxRangeDays \in Nat

VARIABLES
  now,         \* the clock
  merits,      \* application_proceeding.merits_decision
  certified,   \* applications with a certificate_start_date
  claim,       \* where each claim's assessment is, and the times of its rows
  rep          \* what each report request has read

vars == <<now, merits, certified, claim, rep>>
caseVars == <<merits, certified, claim>>

Days == 0..LastDay
Times == 0..((LastDay + 1) * DayLength - 1)
DayOf(t) == t \div DayLength

RangedKinds == {"PAYMENT_EXTRACT", "OGD_COSTS", "DECISIONS", "AUDIT_TRAIL"}
Kinds == RangedKinds \cup {"COST_LIMIT_FORECAST", "CLAIMS_BACKLOG", "APPLICATIONS_BACKLOG"}
Answered == {"DONE", "REFUSED", "INCONSISTENT", "FAILED", "BROKEN", "DROPPED"}

Settled == {c \in Claims : claim[c].pc \in {"PAID", "REJECTED"}}
Paid == {c \in Claims : claim[c].pc = "PAID"}
Granted == {a \in Applications : merits[a] = "GRANTED"}
Decided == {a \in Applications : merits[a] # "PENDING"}

NewReport ==
  [kind |-> "NONE", pc |-> "NEW", asked |-> 0, first |-> 0, last |-> 0,
   settled |-> {}, paid |-> {}, granted |-> {}, decided |-> {},
   firms |-> {}, types |-> {}, bodies |-> {}, claims |-> {},
   shown |-> {}, downloads |-> {}]

(***************************************************************************)
(* Caseworkers                                                             *)
(***************************************************************************)
(* The certificate's start date is written with the grant. *)
GrantApplication(a) ==
  /\ merits' = [merits EXCEPT ![a] = "GRANTED"]
  /\ certified' = certified \cup {a}
  /\ UNCHANGED <<now, claim, rep>>

(* Mutant: a refusal puts the application back among the pending ones. *)
ReopenApplication(a) ==
  /\ merits' = [merits EXCEPT ![a] = "PENDING"]
  /\ UNCHANGED <<now, certified, claim, rep>>

(* A refusal leaves the certificate's dates where they are. *)
RefuseApplication(a) ==
  /\ merits' = [merits EXCEPT ![a] = "REFUSED"]
  /\ UNCHANGED <<now, certified, claim, rep>>

SubmitClaim(c) ==
  /\ claim[c].pc = "NONE"
  /\ merits[AppOf[c]] = "GRANTED"
  /\ claim' = [claim EXCEPT ![c].pc = "SUBMITTED"]
  /\ UNCHANGED <<now, merits, certified, rep>>

(* The claim_decision row is built: ClaimDecision.created_at. *)
BuildDecision(c) ==
  /\ claim[c].pc = "SUBMITTED"
  /\ claim' = [claim EXCEPT ![c] = [pc |-> "DECIDING", decidedAt |-> now, recordedAt |-> 0]]
  /\ UNCHANGED <<now, merits, certified, rep>>

(* The payment lines and the history event are built, before the email. *)
BuildRecords(c) ==
  /\ claim[c].pc = "DECIDING"
  /\ claim' = [claim EXCEPT ![c].pc = "RECORDED", ![c].recordedAt = now]
  /\ UNCHANGED <<now, merits, certified, rep>>

CommitDecision(c) ==
  /\ claim[c].pc = "RECORDED"
  /\ \E outcome \in {"PAID", "REJECTED"} : claim' = [claim EXCEPT ![c].pc = outcome]
  /\ UNCHANGED <<now, merits, certified, rep>>

RollBackDecision(c) ==
  /\ claim[c].pc \in {"DECIDING", "RECORDED"}
  /\ claim' = [claim EXCEPT ![c] = [pc |-> "SUBMITTED", decidedAt |-> 0, recordedAt |-> 0]]
  /\ UNCHANGED <<now, merits, certified, rep>>

TimePasses ==
  /\ now + 1 \in Times
  /\ now' = now + 1
  /\ UNCHANGED <<caseVars, rep>>

(***************************************************************************)
(* What a statement of a report sees                                       *)
(***************************************************************************)
(* Mutant: the last day is left out. *)
WindowToMidnight(p, t) == p.first * DayLength <= t /\ t < p.last * DayLength

(* resolve_report_window: [start of the first day, end of the last) *)
InWindow(p, t) == p.first * DayLength <= t /\ t < (p.last + 1) * DayLength

(* Mutant: the window is not closed at the time of the request. *)
InOpenExtractWindow(p, t) == InWindow(p, t)

(* created_before = min(window_end, now) *)
InExtractWindow(p, t) == InWindow(p, t) /\ t < p.asked

PaymentLines(p) == {c \in Paid : InExtractWindow(p, claim[c].recordedAt)}
OgdLines(p) == {c \in Paid : InWindow(p, claim[c].decidedAt)}
DecisionEvents(p) == {c \in Settled : InWindow(p, claim[c].recordedAt)}

FirmsOf(cs) == {FirmOf[AppOf[c]] : c \in cs}
LineTypesOf(cs) == UNION {TypesOf[c] : c \in cs}

RemainingCostLimit(a, paid) ==
  CostLimit - MapThenSumSet(LAMBDA c : Amount[c], {c \in paid : AppOf[c] = a})

(* Mutant: a paid final bill does not take the case out of the forecast. *)
ForecastsSettledCase(p, a) ==
  /\ a \in certified
  /\ merits[a] = "GRANTED"
  /\ RemainingCostLimit(a, p.claims) > 0

(* build_cost_limit_forecast_row, with the claims read first; that the     *)
(* certificate has ended, or the application is not LIVE, is left out, so  *)
(* there may be more rows here than in the code.                           *)
HasForecastRow(p, a) ==
  /\ a \in certified
  /\ merits[a] = "GRANTED"
  /\ ~\E c \in p.claims : AppOf[c] = a /\ c \in FinalBills
  /\ RemainingCostLimit(a, p.claims) > 0

(***************************************************************************)
(* A request for a report                                                  *)
(***************************************************************************)
(* The request is audited and committed before anything is read; what has  *)
(* been decided by then is kept for the properties alone.                  *)
AskForReport(r, kind, first, last) ==
  /\ rep[r] = NewReport
  /\ kind \notin RangedKinds => first = 0 /\ last = 0
  /\ rep' = [rep EXCEPT ![r] =
       [NewReport EXCEPT
          !.kind = kind, !.asked = now, !.first = first, !.last = last,
          !.settled = Settled, !.paid = Paid, !.granted = Granted, !.decided = Decided,
          !.pc = IF first > last \/ last - first + 1 > MaxRangeDays
                   THEN "REFUSED" ELSE "ASKED"]]
  /\ UNCHANGED <<now, caseVars>>

At(r, kind, pc) == rep[r].kind = kind /\ rep[r].pc = pc
Continue(r, p) == rep' = [rep EXCEPT ![r] = p] /\ UNCHANGED <<now, caseVars>>

(* The first statement of the payment extract, and the names of its firms. *)
ReadExtractFirms(r) ==
  /\ At(r, "PAYMENT_EXTRACT", "ASKED")
  /\ Continue(r, [rep[r] EXCEPT !.firms = FirmsOf(PaymentLines(rep[r])), !.pc = "FIRMS"])

(* Every type a line can have is classified. *)
ReadExtractTypes(r) ==
  /\ At(r, "PAYMENT_EXTRACT", "FIRMS")
  /\ Continue(r, [rep[r] EXCEPT !.types = LineTypesOf(PaymentLines(rep[r])), !.pc = "TYPES"])

(* The statement of the stream runs and the answer, a 200, begins. *)
OpenExtract(r) ==
  /\ At(r, "PAYMENT_EXTRACT", "TYPES")
  /\ Continue(r, [rep[r] EXCEPT !.claims = PaymentLines(rep[r]), !.pc = "STREAMING"])

(* _build_row: a line whose firm or type was not checked breaks the stream. *)
StreamExtract(r) ==
  /\ At(r, "PAYMENT_EXTRACT", "STREAMING")
  /\ LET p == rep[r]
         checked == FirmsOf(p.claims) \subseteq p.firms /\ LineTypesOf(p.claims) \subseteq p.types
     IN  Continue(r, [p EXCEPT !.pc = IF checked THEN "DONE" ELSE "BROKEN"])

ReadOgdBodies(r) ==
  /\ At(r, "OGD_COSTS", "ASKED")
  /\ Continue(r, [rep[r] EXCEPT !.bodies = {AppOf[c] : c \in OgdLines(rep[r])}, !.pc = "BODIES"])

(* No public bodies for the application of a line: the whole report fails. *)
ReadOgdLines(r) ==
  /\ At(r, "OGD_COSTS", "BODIES")
  /\ LET lines == OgdLines(rep[r])
         complete == \A c \in lines : AppOf[c] \in rep[r].bodies
     IN  Continue(r, [rep[r] EXCEPT !.claims = lines,
                        !.pc = IF complete THEN "DONE" ELSE "INCONSISTENT"])

(* The dates of submission, read by a second statement, never change. *)
ReadDecisions(r) ==
  /\ At(r, "DECISIONS", "ASKED")
  /\ Continue(r, [rep[r] EXCEPT !.claims = DecisionEvents(rep[r]), !.pc = "DONE"])

ReadForecastClaims(r) ==
  /\ At(r, "COST_LIMIT_FORECAST", "ASKED")
  /\ Continue(r, [rep[r] EXCEPT !.claims = {c \in Paid : AppOf[c] \in certified}, !.pc = "CLAIMS"])

(* Mutant: the bodies are read for the cases that have claims. *)
ReadBodiesOfClaims(r) ==
  /\ At(r, "COST_LIMIT_FORECAST", "CLAIMS")
  /\ Continue(r, [rep[r] EXCEPT !.bodies = {AppOf[c] : c \in rep[r].claims}, !.pc = "BODIES"])

ReadForecastBodies(r) ==
  /\ At(r, "COST_LIMIT_FORECAST", "CLAIMS")
  /\ Continue(r, [rep[r] EXCEPT !.bodies = certified, !.pc = "BODIES"])

(* A row for an application whose bodies were not read fails the report. *)
ReadForecastCertificates(r) ==
  /\ At(r, "COST_LIMIT_FORECAST", "BODIES")
  /\ LET shown == {a \in Applications : HasForecastRow(rep[r], a)}
     IN  Continue(r, [rep[r] EXCEPT !.shown = shown,
                        !.pc = IF shown \subseteq rep[r].bodies THEN "DONE" ELSE "INCONSISTENT"])

(* heapq.merge starts its iterators in turn: history, views, downloads. *)
ReadTrailHistory(r) ==
  /\ At(r, "AUDIT_TRAIL", "ASKED")
  /\ Continue(r, [rep[r] EXCEPT !.claims = DecisionEvents(rep[r]), !.pc = "HISTORY"])

ReadTrailDownloads(r) ==
  /\ At(r, "AUDIT_TRAIL", "HISTORY")
  /\ Continue(r, [rep[r] EXCEPT
       !.downloads = {q \in Reports : rep[q].pc # "NEW" /\ InWindow(rep[r], rep[q].asked)},
       !.pc = "DONE"])

ReadOpenClaims(r) ==
  /\ At(r, "CLAIMS_BACKLOG", "ASKED")
  /\ Continue(r, [rep[r] EXCEPT
       !.claims = {c \in Claims : claim[c].pc \in {"SUBMITTED", "DECIDING", "RECORDED"}},
       !.pc = "DONE"])

ReadPendingApplications(r) ==
  /\ At(r, "APPLICATIONS_BACKLOG", "ASKED")
  /\ Continue(r, [rep[r] EXCEPT !.shown = Applications \ Decided, !.pc = "DONE"])

(* The database or the provider details service fails, or does not know a *)
(* firm: 500, or a stream that stops.                                     *)
FailReport(r) ==
  /\ rep[r].pc \notin Answered \cup {"NEW"}
  /\ Continue(r, [rep[r] EXCEPT
       !.pc = IF rep[r].pc = "STREAMING" THEN "DROPPED" ELSE "FAILED"])

Init ==
  /\ now = 0
  /\ merits = [a \in Applications |-> "PENDING"]
  /\ certified = {}
  /\ claim = [c \in Claims |-> [pc |-> "NONE", decidedAt |-> 0, recordedAt |-> 0]]
  /\ rep = [r \in Reports |-> NewReport]

CaseStep ==
  \/ \E a \in Applications : GrantApplication(a) \/ RefuseApplication(a)
  \/ \E c \in Claims :
       \/ SubmitClaim(c) \/ BuildDecision(c) \/ BuildRecords(c)
       \/ CommitDecision(c) \/ RollBackDecision(c)

ReportStep(r) ==
  \/ \E kind \in Kinds, first, last \in Days : AskForReport(r, kind, first, last)
  \/ ReadExtractFirms(r) \/ ReadExtractTypes(r) \/ OpenExtract(r) \/ StreamExtract(r)
  \/ ReadOgdBodies(r) \/ ReadOgdLines(r) \/ ReadDecisions(r)
  \/ ReadForecastClaims(r) \/ ReadForecastBodies(r) \/ ReadForecastCertificates(r)
  \/ ReadTrailHistory(r) \/ ReadTrailDownloads(r)
  \/ ReadOpenClaims(r) \/ ReadPendingApplications(r)
  \/ FailReport(r)

Next ==
  \/ CaseStep
  \/ \E r \in Reports : ReportStep(r)
  \/ TimePasses

Spec == Init /\ [][Next]_vars

(***************************************************************************)
(* Properties                                                              *)
(***************************************************************************)
(* The variables hold what the rows and requests they stand for can hold. *)
TypeOK ==
  /\ now \in Times
  /\ merits \in [Applications -> {"PENDING", "GRANTED", "REFUSED"}]
  /\ certified \subseteq Decided
  /\ claim \in [Claims -> [pc : {"NONE", "SUBMITTED", "DECIDING", "RECORDED", "PAID", "REJECTED"},
                           decidedAt : Times, recordedAt : Times]]
  /\ rep \in [Reports ->
       [kind : Kinds \cup {"NONE"},
        pc : Answered \cup {"NEW", "ASKED", "FIRMS", "TYPES", "STREAMING", "BODIES",
                            "CLAIMS", "HISTORY"},
        asked : Times, first : Days, last : Days,
        settled : SUBSET Claims, paid : SUBSET Claims,
        granted : SUBSET Applications, decided : SUBSET Applications,
        firms : SUBSET Firms, types : SUBSET LineTypes, bodies : SUBSET Applications,
        claims : SUBSET Claims, shown : SUBSET Applications, downloads : SUBSET Reports]]

(* A payment extract breaks off under the reader only over a payment that was *)
(* in flight: its lines were built before the report was asked for and        *)
(* committed after.  Whatever is decided later cannot break it.               *)
BrokenStreamsHaveTheirCause ==
  \A r \in Reports :
    At(r, "PAYMENT_EXTRACT", "BROKEN") =>
      \E c \in rep[r].claims :
        claim[c].recordedAt < rep[r].asked /\ c \notin rep[r].paid

(* A report that fails on its own check read, in its last statement, what was *)
(* committed since it was asked for: a payment, or a grant.                   *)
InconsistentReportsOverlapped ==
  \A r \in Reports :
    /\ At(r, "OGD_COSTS", "INCONSISTENT") => ~(rep[r].claims \subseteq rep[r].paid)
    /\ At(r, "COST_LIMIT_FORECAST", "INCONSISTENT") => ~(rep[r].shown \subseteq rep[r].granted)

(* t falls on a day that the request p names. *)
AskedAbout(p, t) == DayOf(t) \in p.first..p.last

(* What was committed when a report was asked for, on the days asked for, is  *)
(* in it: no payment or decision falls between two days' reports unless it    *)
(* was in flight; the audit trail has the request it answers as well.         *)
ReportsHoldTheirPast ==
  \A r \in Reports :
    /\ At(r, "PAYMENT_EXTRACT", "DONE") =>
         \A c \in rep[r].paid : AskedAbout(rep[r], claim[c].recordedAt) =>
            c \in rep[r].claims \/ claim[c].recordedAt = rep[r].asked
    /\ At(r, "OGD_COSTS", "DONE") =>
         \A c \in rep[r].paid :
            AskedAbout(rep[r], claim[c].decidedAt) => c \in rep[r].claims
    /\ At(r, "DECISIONS", "DONE") \/ At(r, "AUDIT_TRAIL", "DONE") =>
         \A c \in rep[r].settled :
            AskedAbout(rep[r], claim[c].recordedAt) => c \in rep[r].claims
    /\ At(r, "AUDIT_TRAIL", "DONE") /\ AskedAbout(rep[r], rep[r].asked) =>
         r \in rep[r].downloads

(* No report calls a case outstanding that was settled when it was asked for: *)
(* the forecast has no case whose final bill was paid, the backlogs have no   *)
(* claim and no application that was decided.                                 *)
SettledIsNotOutstanding ==
  \A r \in Reports :
    /\ rep[r].kind = "COST_LIMIT_FORECAST" =>
         \A c \in rep[r].paid \cap FinalBills : AppOf[c] \notin rep[r].shown
    /\ rep[r].kind = "CLAIMS_BACKLOG" => rep[r].claims \cap rep[r].settled = {}
    /\ rep[r].kind = "APPLICATIONS_BACKLOG" => rep[r].shown \cap rep[r].decided = {}
==============================================================================
