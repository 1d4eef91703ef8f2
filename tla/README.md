# Verification of laa-inquests-api

TLA+ models of the inquests API (legal aid applications for inquests and the
claims made under them), TLC runs that check them on small instances, and TLAPS
proofs that hold for every value of the constants. Paths below are relative to
`src/app/`; `PROJECT.json` maps every definition to the lines it models.

## The system

The API is a FastAPI application over PostgreSQL (isolation READ COMMITTED, the
default) in ports-and-adapters style: a use case gets one database session per
request and calls GOV.UK Notify, a document store (SDS) and the provider details
API. Several pods serve requests, so any two requests may overlap; within a pod
one process has one event loop, 40 worker threads and 15 connections. There is
one scheduled job.

| Component | State | Operations | Modules |
|---|---|---|---|
| Claim submission (`use_cases/create_claim.py`) | `claim`, `claim_decision`, `claim_payment_extract` | create; automatic rejection or approval | `ClaimLifecycle` |
| Claim assessment (`pay_in_full_claim.py`, `reject_claim.py`) | the same tables, row lock on `claim` | pay in full, reject | `ClaimLifecycle`, `ClaimAssessment` |
| Claim rules (`domain/claim.py`, `claim_total.py`) | none | validate, normalise, reject, hold, approve | `ClaimLifecycle`, `ClaimAmounts` |
| Payment lines (`domain/payment_extract.py`, `pay_in_full.py`) | none | build payment and recoupment lines | `ClaimAmounts`, `ClaimLifecycle` |
| Deferred approval emails (`send_auto_approved_poa_claim_emails.py`) | one session per run | morning job | `ApprovalEmails` |
| Application submission (`create_application.py`, `identify_duplicate_applications.py`) | `application`, `duplicate_application_record` | create, record duplicates | `ApplicationLifecycle` |
| References (`domain/reference_rules.py`, adapters) | unique columns | draw, check, insert | `ApplicationLifecycle` |
| Merits decisions (`grant_decision.py`, `refuse_decision.py`) | `application_proceeding` | grant, refuse, email, letter | `ApplicationLifecycle` |
| Public bodies (`update_public_bodies.py`) | `application_public_body` | replace | `ApplicationLifecycle` |
| Certificates (`create_certificate_context.py`, `retrieve_certificate.py`) | the client's `address`, by accident | make, read again | `ApplicationLifecycle` |
| Evidence and coroner's letters (`upload_*`, `delete_*`, `retrieve_*`, `sds_adapter.py`) | files in SDS, rows in PostgreSQL | upload, link, read, delete | `Documents` |
| Reports (`generate_*_report.py`) | none | seven reports, one to three statements each | `Reports` |
| Access control, audit trail, session, notes, reads (`auth/rbac.py`, `routers/`, `db/`) | token, pool, threads, loop, `audit_event`, `history_event` | every request | `Requests`, `Endpoints` |
| Rate limit, probes, callbacks, seed scripts, migrations | none | – | the limiter's refusal in `Requests` |

The components meet in the database. Submission reads what assessment and merits
decisions commit; the job reads claims and history; reports read everything;
a claim takes over evidence that was uploaded before; an application refers to
its letter. Each composition is in the module where two sides can disturb each
other: submission with assessment and grants (`ClaimLifecycle`), the job with
what changes claims (`ApprovalEmails`), decisions with submissions and body
updates (`ApplicationLifecycle`), uploads with claims, applications, deletions
and downloads (`Documents`), reports with decisions and the clock (`Reports`).

**What is hard here.** A request reads without locks and writes later; it commits
twice, and an automatic decision follows the first commit while caseworkers can
already see the claim; caseworkers serialise on `SELECT ... FOR UPDATE`, but the
automatic decision only waits for that lock and does not look at the status;
decision ids are drawn before the rows commit; one unique constraint, on
`invoice_number`, is all that stops a second payment. Emails leave before the
commit that records them. An UPDATE sets only the columns that differ from what
was loaded. The job keeps one session and never rolls it back. Two stores change
one after the other. Reports take several snapshots. Sessions are closed after
the answer, and handlers on the event loop wait for connections. `PROJECT.json`
lists each under `hazards`, at its line, with the properties that watch it.

## Modules

| Module | What it is |
|---|---|
| `ClaimAssessment` | abstract specification: who may decide a claim, and when |
| `ClaimLifecycle` | claim submission, assessment and merits decisions of one application, interleaved at the transactions' reads, locks and commits |
| `ClaimLifecycleProofs` | types, the row lock, status against decisions, refinement of `ClaimAssessment`; active final bills; payment lines, recoupments and second payments against decisions |
| `ClaimLimitsProofs` | the case cost limit, the yearly count and the funds figure |
| `ClaimAmounts`, `ClaimAmountsProofs` | the amounts of one claim: form, rules, totals, decision, lines |
| `ApprovalDelivery` | abstract specification: delivery of emails at least once, with the record as its memory |
| `ApprovalEmails`, `ApprovalEmailsProofs` | the job of deferred emails beside the requests that change claims |
| `ApplicationLifecycle`, `ApplicationLifecycleProofs` | submissions, merits decisions, public bodies, the certificate's address |
| `DocumentCustody` | abstract specification: in which order documents come and go, and who holds them |
| `Documents`, `DocumentsProofs` | files and rows of evidence and letters |
| `Reports`, `ReportsProofs` | the seven reports against concurrent decisions and the clock |
| `Requests`, `RequestsProofs` | one process: token, audit, permission, handler, connection, answer |
| `Endpoints` | the table of endpoints and of roles, as data for `Requests` |
| `MC...` | the instances for TLC |

Operators under a `Mutant:` comment are used by no action: each is the body of a
definition with a plausible error, and the run of the property it is paired with
in `PROJECT.json` fails when it is put in its place.

### ClaimLifecycle and the code

`status`, `decisions`, `extracts` and `funds` are committed columns and rows.
`seen[c]` is `existing_summaries` in the request that creates `c`. `req[c].pc`
is where that request stands:

| pc | the request | actions that leave it |
|---|---|---|
| NEW | not started | `StartCreate`: the application is read and must be granted |
| GRANTED | about to read the claims | `ReadClaims`, `RefuseForFinalBill` |
| READ | its summaries are fixed | `SubmitClaim`: insert, funds figure, first commit |
| SUBMITTED | the claim is visible to caseworkers | `BeginAutoDecision`: rules on the stale summaries and the fresh application; takes a decision id |
| DECIDING | its INSERT waits for the claim's row | `CommitAutoDecision`, `RollbackOnDuplicateInvoice` |
| DONE | ended | |

`FailRequest` ends a request anywhere: an exception, or the end of the process.
`work[w]` is a caseworker's transaction from the moment it has the row lock
(`LockForAssessment`: status check, decision id, recoupable claims) to its
`CommitPayInFull`, `CommitReject` or `RollbackAssessment`. Nothing but that
lock separates actors. Waiting, in `CommitAutoDecision`, is a consequence of the
foreign key: an INSERT into `claim_decision` takes the claim's row FOR KEY
SHARE, which conflicts with FOR UPDATE; its id comes from `nextval` before that.
`GrantApplication`, `RefuseApplication`, `ThreeMonthsPass` and `YearPasses` are
the environment the rules read; the two decisions have no guard because the use
cases have none. A claim is a type and a total here, which may be less than
nothing, and its payment lines stand as one, the first, whose invoice number is
the one that collides. A profit cost claim and a nil bill always have it
(`AlwaysHasLine`). A disbursement or a final bill is paid without a line when none
of the amounts decided is positive, which a caseworker may enter for either
(`AssessmentLines`) and a disbursement may have claimed (`AutoPaymentLines`).

### ClaimAmounts and the code

The data that `ClaimLifecycle` abstracts, for one claim and without overlap:
`Accepted` is `__post_init__` with `validate_total_claim_cost`, `Normalised` what
is stored, `Total` `resolve_claim_total`, `Valid` `PayInFullClaim.validate`, and
`LinesOf` the lines with their amounts and tax codes. `Submit`, `PayAsSubmitted`,
`PayEntered` and `Reject` are the ways through them. Amounts are pence; the rates
0.8 and 1.2 of `PoaProfitCostLines` are rounded half to even as the code does,
though no whole number of pence reaches the half.

### ApprovalEmails and the code

`job` is the run of the script: `todo` the claims it listed, `committed` and
`broken` the condition of its one session. A failed read or commit makes every
later statement on the session fail (`TakeClaimBroken`). Whether the run then
ends quietly or dies depends on an earlier commit: a commit expires the loaded
claims, so the error log's `claim.claim_id` is itself a read that fails, inside
the handler. That exits with an error and Kubernetes restarts the pod
(`restartPolicy: OnFailure`); `concurrencyPolicy: Forbid` is `job = IdleJob` in
`StartRun`. A fault is anything the environment breaks: the database, Notify, an
answer that is lost after the email was accepted, the pod, a run not started.
`history` holds the two kinds of event the job compares.

`ApprovalDelivery` sees of all this a phase for each claim's email. `Phase` reads
it off: RECORDED when its record is in `history`, SENT when it is in hand and not
recorded, OWED when the approval is on record, NONE before.

### ApplicationLifecycle and the code

Each request is one transaction whose steps are the points where another can see
or change something. A submission (`stage[a]`): `GenerateReference` checks a
random reference, `InsertApplication` flushes and waits on the unique index for
another that holds the same one (`RejectReference` when that committed),
`RejectOffice` or `SearchDuplicates` among what is committed, `SendConfirmation`,
`CommitSubmission`. A decision (`work[d]`): `ReadApplication` loads the
proceeding, `WriteDecision` flushes and from there holds the row lock, unless
nothing differs from what was loaded; `SendDecisionEmail`, for a grant
`PostLetter`, `CommitDecision`. `Updated` is the UPDATE as SQLAlchemy writes it,
of the changed columns only. A body update reads the rows and replaces those.
`careOf` counts the "c/o" prefixes that `populate_certificate_context` leaves in
the stored address. `FailSubmission`, `FailDecision` and `FailUpdate` are the
environment's faults; `FailWithoutAddress` is the code's own failure.

### Documents and the code

A document is its file (SDS) and its row. An upload checks for viruses, saves the
file, saves the row; a deletion finds the row, erases the file, loads the row
again, deletes it; a claim reads the evidence it lists, writes the links,
commits; an application refers to its letter by a foreign key; a download
answers 200 and then streams. Evidence and letters have the same use cases twice
and share the actions; what differs (the foreign key, the links) is in the
guards. `FailUpload`, `FailDelete`, `FailClaim`, `FailApplication` and
`FailStream` are faults. The SDS adapter lives as long as its request, so its
token cache spans none and is left out.

`DocumentCustody` sees a document as nothing, a file, whole, a row without its
file, or gone (`Kept`), with the claim or the applications that have it (`Users`).
The two stores, the locks and the requests are what it does not see: that a claim
takes all it found in one step rests on the rows its flush has locked.

### Reports and the code

A decision's rows are built with the time of day (`BuildDecision`,
`BuildRecords`) and appear at `CommitDecision`, after the email. Each statement
of a report is an action with its own snapshot: firms, types and lines for the
payment extract, which is capped at the time of the request; bodies and lines
for the OGD costs; claims, bodies and certificates for the forecast; history and
downloads for the audit trail. `INCONSISTENT` is a report that fails its own
check before it answers, `BROKEN` a stream that fails after the answer 200. An
application has public bodies here: a list may be empty when it is submitted, but
`certificate.html` fails without one, before the grant commits, and
`update_public_bodies.py` refuses an empty list. The forecast's tests for the end
of the certificate and for the status LIVE are left out, which gives it rows the
code would not.

### Requests and the code

`req[r].pc` follows a request through the middleware (`Limit`), the token
(`Verify`), the audit with its second look at the token (`BeginAudit`,
`CommitAudit`, `FailAudit`), the permission (`Authorise`), the handler (`Read`,
`Refuse`, `FinishRead`, `Commit`, `CommitUnacknowledged`, `FinishWrite`,
`Reload`, `FailHandler`), the answer (`Respond`) and the end of the session
(`CloseSession`), which FastAPI reaches after the answer. `conns` are the
sessions with a connection of the pool, `loop` the async handler that occupies
the event loop. `Endpoints` is read off the routers: for each handler its
permissions, whether it is audited or for providers only, where it runs, what it
does to the database, what it may refuse and whether it reads again after its
commit, for its answer or for an email it may fail to send. The permission check
and `get_session`, short dependencies on threads, are taken for immediate. What the handlers do to their data is in the other modules.

## Runs

| Run | Instance | Distinct states | Shows |
|---|---|---|---|
| `assessment` | 2 claims of 5 forms, 2 caseworkers, merits decisions, calendar | 0.8 million | types, statuses, double payment, number of profit cost claims, funds figure, refinement of `ClaimAssessment` |
| `case` | 3 claims, granted, limit of one profit cost claim: with final bills 2 caseworkers, with losses one at a time who pays | 1.5 million | money follows decisions and is recouped once; two active bills, or approvals past the limit with losses counted, only by overlap |
| `liveness` | 2 claims, 1 caseworker, fairness | 77,000 | every request that creates a claim ends |
| `second_bill` | 2 claims | | violation: a claim is stored beside a final bill |
| `amounts` | 5 amounts, 2 limits, every form and entered decision | 6,940 | what is paid against the total and the limits; payments without lines |
| `email_window` | 2 claims, 3 days, 2 faults | 0.5 million | how often and how late the job emails; refinement of `ApprovalDelivery` |
| `email_blocked` | 2 claims, 1 fault | | violation: one claim's failure blocks others |
| `applications` | 2 submissions of 4 forms, 3 decisions, 2 body updates, 1 fault | 0.8 million | references, duplicates, decisions against emails, bodies |
| `certificate` | the same, no fault | | violation: a later certificate names the recipient twice |
| `documents` | 2 pieces of evidence, 1 letter, 2 claims, 1 application, 2 deletions, 1 download, 1 fault | 1.0 million | orphaned, lost and broken files have their cause; a 204 is true; refinement of `DocumentCustody` |
| `reports` | 1 application, a payment on account and a final bill, 1 report of any kind, 2 days | 3.1 million | what breaks a report was in flight; what was committed before is in it |
| `requests` | 2 requests (any endpoint; an audited read or a note), 3 tokens, 1 connection, 1 thread, fairness | 0.3 million | authority, audit, truth of answers, every request answered |

**Bounds.** Two claims suffice for what relates a claim to one other; the third
is there for what takes two claims against one (two bills that recoup one
payment) or against a sum (a loss, an approval at the limit and one that the loss
made room for). Two caseworkers give the exclusion; more add only
waiting. `MaxDecisionIds` is 3: a claim has at most a caseworker's committed
decision, one being made and the automatic one. `MixedForms` straddle each limit
and include a nil bill and a disbursement below nothing. `GrantedSpec` restricts `Next`
to steps that keep the application granted, its certificate old and the year
young, which makes three claims affordable; `assessment` leaves all of that
free. `CaseSpec` of `case` adds that a case with a claim below nothing has no
bills, and that caseworkers pay there, one at a time: a rejected claim is in no
sum. The values of `amounts` are a loss, nothing, one at each of the two limits and
one over both, with a loss, nothing, a little and the rest of the limit paid before; no
rule compares more than three amounts. In `email_window` a day has two ticks, so that an approval falls
before, at or after a run. The forms of `applications` agree pairwise on one, two
or all details, and have every kind of address; `FewRequests` admits two requests
of caseworkers at a time, and three when they are about one application and
nothing has failed. One fault suffices there and in `documents`, since every
property compares a count of faults with a count of damages, and the proofs hold
for any number. In `reports` a report overlaps both decisions of a case; a range
is a day, on either side of midnight, and the range of both days is refused as
too long (the proofs hold for any). In `requests` one connection and one thread
make every wait happen.

Deadlock is not checked where the run ends by itself: at the last tick of the
email runs, when all requests are answered in `requests` and `reports`, and when
the claim is decided in `amounts`. Symmetry is used in safety runs only.

**Fairness.** `liveness`: weak fairness for the steps of a started request and of
an assessment, because a server thread runs on; strong fairness for the
automatic decision, which can be disabled again and again by caseworkers taking
the row, because PostgreSQL queues those who wait for a row. `requests`: weak
fairness for the next step of each request that has arrived, which includes that
a wait for the pool times out after 30 seconds (SQLAlchemy's default, which
`db/__init__.py` keeps). That a request fails is never assumed. The email model
claims no liveness: that every claim is emailed is false by design (the window),
so `EmailedBeforeWindowCloses` bounds by faults what is missed.

## Findings

1. `second_bill`: of two overlapping requests neither sees the other, so a claim
   is stored beside a final bill, which the refusal's message says cannot be.
   `ActiveFinalBillsOverlapped` shows, and a theorem proves, that overlap is the
   only way to two active bills.
2. `email_blocked`: the `except` that is to isolate claims does not roll the
   session back.
3. `certificate`: making a certificate for a client whose letters go to someone
   else changes the stored address, so that the next certificate says "c/o"
   once more.

Met on the way and stated by properties, but contradicted by no document:

- Overlapping approvals can pass the case cost limit, and the yearly count
  (`LimitOverrunIsConcurrent`, `PoaCountOverrunIsConcurrent`: only so). The
  automatic decision can override a caseworker's (`StatusFollowsDecisions`).
- The totals of payments on account have no lower bound. One below nothing that
  a caseworker pays lets later claims past the limit with no overlap: the rule
  adds the loss. `LimitOverrunIsConcurrent` therefore takes the losses that an
  approval counted into its sum.
- A final bill can be paid without a line: amounts that are entered have no lower
  bound either, and a bill of negative amounts builds none (`EmptyPaymentIsOfNothing`).
- A payment on account paid after its final bill is never recouped; of two
  overlapping bills that would recoup the same payment the second can never be
  paid.
- A disbursement decided at nothing can be paid twice, and the OGD costs report
  counts its lines once for each decision.
- Submission accepts a 0% VAT part above the gross, or below nothing. The limits
  see the gross, the lines add the part: an automatic approval then pays more
  than the total, and may pay more than the limits (`PaidWithinBounds` names the
  case). A caseworker is refused the same amounts.
- A new reason for a refusal that overlaps a grant is stored beside the grant,
  although the last email said refused: only the reason differed from what was
  loaded, so only it was updated (`DecisionStandsUnlessOverlapped`,
  `LastEmailTellsDecision`).
- The grant of an application without an address emails and posts the certificate
  and then fails, every time. Two overlapping body updates leave both lists.
- To delete the letter of an application erases the file and then fails on the
  foreign key. Evidence of a submitted claim can be deleted, and a claim takes
  over another's evidence without a word. A failing download has answered 200.
- After the commit of an application or a note, the log line reads the row
  again: when that fails the answer is 500 for what is stored, and a retry does
  it twice (`AnswersTellWhatIsStored` names the case).
- An async handler waits for the pool on the event loop, which those who hold
  the connections need to give them back: the process stands still until the
  pool's timeout.
- The cost limit forecast keeps a case whose nil bill was paid.

## Proofs

Every invariant and every action property that a run checks is a theorem for all
values of the constants, and so is each of the three refinements. They rest on
the named assumptions on the constants only: forms, amounts and limits are of
their types (amounts are any integers, the total of a final bill is positive and
that of a nil bill zero, as `_validate_bill_totals` has it), the placeholders (`NoClaim`, `Nobody`, `NoOne`, `None`) are not what
they stand for, claims, documents and the requests that are counted are finitely
many, a day has at least one part, the pool and the threads at least one place.
Some theorems have no run of their own, because a run checks something stronger:
`LockProtectsAssessment` and `EmailsAreForAutoApprovals` are for TLC part of the
refinements, the types of `ClaimAmounts` part of what its two properties read.

`ClaimLifecycleProofs`. `IInv` is the inductive invariant: `TypeOK`; `RequestOK`
(what a request knows of its claim at each pc: not stored, stored, every decision
so far a caseworker's); `WorkOK`; `LockExclusive`; and
`LockedClaimAwaitsAssessment` and `StatusFollowsDecisions`. The strengthening is
needed because neither of the two says why the automatic decision is the only one
that can come second: `RequestOK` does. One lemma per action. From `IInv`:
`TypeCorrect`, `LockProtectsAssessment`, `StatusAgreesWithDecisions` and, since
each commit maps to a step of `ClaimAssessment` and every other step to a
stutter, `RefinesAssessment`.

Its second part adds `BillsOK`: a final bill a request went past was rejected
and stays rejected (a caseworker needs it SUBMITTED, and only payments on account
are decided automatically), and what was read is stored, so its form is fixed.
`BillsOverlapped` follows for any number of claims and caseworkers.

Its third part adds `PaymentsOK`: what a caseworker's transaction holds
for recoupment are payments on account with a payment line, and its claim is a
final bill; with `PaymentsFollowDecisions` itself, which turns a line into a
decision and back, and one PAY_IN_FULL decision for each claim that is no
disbursement. Claims with rows are stored, so `FormIsKept` keeps their type. The
unique invoice number (`InvoicesFree`) gives both theorems for what always has a
line: a second `PaymentLine(c)` of a profit cost claim would collide, so there
`PaymentsHaveDecisions` and `TwicePaidIsEmpty` need no lock. A final bill may have
no line; it is paid once because no bill is decided automatically and a
caseworker who decides finds it undecided.

`ClaimLimitsProofs`. Both overruns are about sets of claims, and are proved by
one idea. When of any two claims of a set one request has read the other's claim,
some request has read all the others: the claims were read one after the other,
and the last reader saw everything. `LastReader` says so of every set, and is
inductive. That request compared the sum, or the number, with the limit; so it is
within the limit, and an overrun has two claims that did not see each other
(`LimitOverrunsOverlap`, `CountOverrunsOverlap`). Totals may be negative, so the
sum is not monotone: `TotalCompares` compares two sets of which the larger adds
what is not negative and leaves out what is not positive, and the approvals are
taken with the losses they had counted. The algebra of the sum (taking
one element out, that comparison) needs an induction over finite sets, which no prover
here can instantiate: it is done by a least counterexample, of the smallest
cardinality, whose own element is then taken out. `FundsAgree` is an action
property: the figure is computed from the claims of the first read and the
decisions of a second, and where the two differ a claim was stored and paid
between them or an automatic decision came second.

`ClaimAmountsProofs`. `AmountsInv`: the lines of a paid claim are those of its
decision, which was validated or repeats what the rules accepted, and an
automatic one is within the limits. No payment has more than two lines, so that
its sum, a fold, can be unfolded. `BankersRoundIsNearest` states
ROUND_HALF_EVEN for every numerator and divisor, and with it 80% of a net plus its
VAT, 96% of it, rounds to no more than the net, which the rules accept only up to
the gross.

`ApprovalEmailsProofs`. An email is at most one ahead of its record plus the
faults: the invariant counts, for each claim, emails sent against the record in
`history`, the claim in hand and `faults`; whoever is in hand had its approval on
record. `EmailsAreForAutoApprovals` and `DuplicatesNeedFaults` follow, and
`RefinesDelivery`: a step that changes neither history nor the claim in hand
moves no phase, and each of the others moves that of one claim, or its fault does.

`WindowInv` is for `MissedEmailsNeedFaults`, which counts runs: of an approved
claim without an email, the runs since the approval that were due, while the
window was open, are no more than the faults, not counting the run still at work
while it has the claim before it on a working session. A run that leaves the claim
behind has its fault on record at that step; a run cannot leave it otherwise,
since the claim is listed whenever its window is open. The runs of different days
need different faults because one run is over before the next is due.

`ApplicationLifecycleProofs`. Submissions: those past the flush hold different
references, a search saw only what was stored, and the records of a stored
application are those of its search (`SubmissionOK`). Decisions: two requests
that change one row are not both past the flush (`LocksExclusive`), so the last
email is that of the lock's holder or tells what is stored (`MailFollows`); a
request that loaded the application after the latest decision knows its row
(`DecidedOK`). Bodies: rows of one writer are written at once, so who read one
read all (`BodiesOK`).

`DocumentsProofs`. `FilesOK` says at each pc of an upload, deletion, claim,
application and download what that request knows of file and row. The properties
that compare damages with faults share one lemma: a set that grows by at most
one element with each fault, and not otherwise, is no larger than the number of
faults. For lost files the set also holds those that a deletion has only found.
`RefinesCustody` adds `WrittenHeld` to `FilesOK`: the rows a claim has written are
there until it commits, because a DELETE waits for them.

`ReportsProofs`. Decisions are not undone, so each statement sees at least what
was committed when the report was asked for, and what two statements disagree
about was committed in between. `ReportsInv` relates what a report has read so
far to those commits and to the clock.

`RequestsProofs`. `RequestsOK` is `TypeOK` with two parts for each request:
`Authority`, what has been checked where it is, and `Stored`, what rows it has
and with which fault. The lemmas about a step say that it concerns one request,
writes in its name only, and takes and keeps connection and loop as allowed.

**Only model-checked.** Liveness: `EveryRequestEnds` and `EveryRequestAnswered`,
which rest on fairness and so on ENABLED, out of the prover's reach. That the three violations of the findings
are violations is what their runs show; there is nothing to prove.

## Not modelled

Notification callbacks (they log), probes, migrations and seed scripts. The
layout of certificates, emails, letters and CSV, and the texts of history events.
`add_calendar_months`: the three-month boundary is an event. Claim references,
drawn as LAA references are. The emails of claim decisions: the one of a payment
goes out as the last step before its commit, the one of a rejection after it.
`CustomSession.commit`'s retry: PostgreSQL's messages never match it. What reads answer, but for duplicates.
Malformed requests, which FastAPI refuses after the audit.

The days of `ApprovalEmails` are equally long: when the clocks go back, the run
that is two days later starts 49 hours after, and a claim can have one run less
in its window.

## Plan

What would be added next: an abstract specification of merits decisions (what a
client has been told against what is stored), which `ApplicationLifecycle` would
implement but for the overlaps its properties name; the emails of claim decisions
in `ClaimLifecycle`, with the retry by a caseworker whose commit failed; a larger
`requests` instance with a second connection, once the liveness check affords it.
