------------------------ MODULE ApplicationLifecycle ------------------------
(***************************************************************************)
(* Applications for legal aid: their submission by providers               *)
(* (use_cases/create_application.py), the merits decision by caseworkers   *)
(* (grant_decision.py, refuse_decision.py) and the change of their public  *)
(* bodies (update_public_bodies.py).  Every request is one transaction of  *)
(* PostgreSQL at READ COMMITTED that also sends emails and letters before  *)
(* its commit.  Its steps are the points at which another request can see  *)
(* or change something: a statement that reads, the flush that writes and  *)
(* takes a row lock, a call of GOV.UK Notify, the commit.                  *)
(*                                                                         *)
(* Abstractions.  An application's row is its application_proceeding; a    *)
(* certificate start date and a refusal's reason with its justification    *)
(* are numbers; the issue date is always today.  An address is where it    *)
(* comes from, and careOf counts the "c/o" prefixes in its stored line.    *)
(* A list of public bodies is a set.  The certificate of an application    *)
(* without any cannot be made, before anything is sent; here it is.        *)
(***************************************************************************)
EXTENDS Integers, FiniteSets

CONSTANTS
  Applications,      \* submissions that may be made
  Requests,          \* decisions that may be requested
  Updates,           \* changes of public bodies that may be requested
  NoOne,             \* stands for no application, no request and no update
  Forms,             \* what an application may say
  References,        \* LAA references that may be generated
  BannedReferences,  \* those that contain a banned word
  Details,           \* start dates of certificates, reasons of refusals
  Bodies,            \* public bodies
  MaxFaults          \* failures of the environment

Sources == {"SPECIFIED", "HOME", "OFFICE", "ABSENT"}

(* What a submission says: the deceased's dates, coroner's reference and    *)
(* name; whether the office is the provider's and exists; where letters go. *)
ApplicationCreate ==
  [born : Nat, died : Nat, coroner : Nat, name : Nat, office : BOOLEAN,
   address : Sources, recipient : BOOLEAN, bodies : SUBSET Bodies]

(* A reference is drawn until it contains no banned word. *)
PermittedReferences == References \ BannedReferences

ASSUME FormsAssumption == Forms # {} /\ Forms \subseteq ApplicationCreate
ASSUME NoOneAssumption == NoOne \notin Applications \cup Requests \cup Updates
ASSUME NumbersAssumption == Details \subseteq Nat \ {0} /\ MaxFaults \in Nat
ASSUME FiniteAssumption == IsFiniteSet(Requests)

VARIABLES
  form,        \* the content of each submission
  stage,       \* where the submission request is; "DONE": the rows are committed
  reference,   \* application.laa_reference
  seen,        \* the applications that the search for duplicates saw
  duplicates,  \* rows of duplicate_application_record
  row,         \* merits_decision, refusal and certificate_start_date
  careOf,      \* prefixes in the stored address the certificate is sent to
  lastMail,    \* the last decision the provider was emailed
  decided,     \* the request of the latest APPLICATION_ASSESSMENT_COMPLETED
  work,        \* the decision requests
  bodies,      \* rows of application_public_body, with the update that wrote them
  upd,         \* the requests that change public bodies
  faults       \* failures so far

vars == <<form, stage, reference, seen, duplicates, row, careOf, lastMail, decided,
          work, bodies, upd, faults>>
submissionVars == <<form, stage, reference, seen, duplicates>>
decisionVars == <<row, careOf, lastMail, decided, work>>
bodyVars == <<bodies, upd>>

MeritsDecisions == {"SUBMITTED", "REFUSED", "GRANTED"}
EligibleDuplicateStatus == {"SUBMITTED", "REFUSED", "GRANTED"}
NewProceeding == [merits |-> "SUBMITTED", refusal |-> 0, start |-> 0]
Proceedings == [merits : MeritsDecisions, refusal : Details \cup {0},
                start : Details \cup {0}]

(* Rows of application_public_body, with who wrote them. *)
BodyRows(writer, list) == {[by |-> writer, body |-> b] : b \in list}

Committed == {a \in Applications : stage[a] = "DONE"}

(* The environment fails: a timeout, an error of a service, a lost process. *)
Fault == faults < MaxFaults /\ faults' = faults + 1

(***************************************************************************)
(* Duplicates: application_repository_adapter.py                           *)
(***************************************************************************)
(* Mutant: references that were not given are equal to each other. *)
BlankReferencesMatch(f, g) ==
  LET count(same) == IF same THEN 1 ELSE 0
  IN  count(f.born = g.born) + count(f.died = g.died)
        + count(f.coroner = g.coroner) + count(f.name = g.name)

(* A coroner's reference of 0 stands for the empty one. *)
MatchCount(f, g) ==
  LET count(same) == IF same THEN 1 ELSE 0
  IN  count(f.born = g.born) + count(f.died = g.died)
        + count(f.coroner # 0 /\ f.coroner = g.coroner) + count(f.name = g.name)

(* identify_duplicates, over the applications S that the query saw. *)
IdentifiedDuplicates(a, S) ==
  {b \in S \ {a} : row[b].merits \in EligibleDuplicateStatus
                     /\ MatchCount(form[a], form[b]) >= 2}

(* create_duplicate_records *)
DuplicateRecords(a, S) == {a} \X IdentifiedDuplicates(a, S)

(* What a caseworker who opens application a is shown. *)
PotentialDuplicates(a) ==
  {b \in Applications :
     /\ <<a, b>> \in duplicates \/ <<b, a>> \in duplicates
     /\ row[a].merits = "SUBMITTED"
     /\ row[b].merits \in EligibleDuplicateStatus}

Pending == {a \in Committed : row[a].merits = "SUBMITTED"}

(* What the backlog report lists beside pending application a. *)
BacklogDuplicates(a) ==
  {b \in Pending \ {a} : <<a, b>> \in duplicates \/ <<b, a>> \in duplicates}

(***************************************************************************)
(* Submission: CreateApplicationUseCase.execute                            *)
(***************************************************************************)
Move(a, from, to) == stage[a] = from /\ stage' = [stage EXCEPT ![a] = to]

(* Each of ten attempts draws a reference at random; it must carry no banned *)
(* word and belong to no application that this transaction can see.          *)
GenerateReference(a) ==
  /\ Move(a, "NEW", "NAMED")
  /\ form' \in {[form EXCEPT ![a] = f] : f \in Forms}
  /\ \E r \in PermittedReferences :
       /\ \A b \in Committed : reference[b] # r
       /\ reference' = [reference EXCEPT ![a] = r]
  /\ UNCHANGED <<seen, duplicates, decisionVars, bodyVars, faults>>

HoldsReference(a, r) ==
  reference[a] = r /\ stage[a] \in {"STORED", "SEARCHED", "MAILED", "DONE"}

(* Mutant: laa_reference is not unique. *)
InsertUnchecked(a) ==
  /\ Move(a, "NAMED", "STORED")
  /\ UNCHANGED <<form, reference, seen, duplicates, decisionVars, bodyVars, faults>>

(* The flush inserts the rows.  The unique index makes it wait for another  *)
(* transaction that has inserted the same reference.                        *)
InsertApplication(a) ==
  /\ Move(a, "NAMED", "STORED")
  /\ \A b \in Applications : ~HoldsReference(b, reference[a])
  /\ UNCHANGED <<form, reference, seen, duplicates, decisionVars, bodyVars, faults>>

(* IntegrityError: the reference was committed since it was checked. *)
RejectReference(a) ==
  /\ Move(a, "NAMED", "FAILED")
  /\ \E b \in Committed : reference[b] = reference[a]
  /\ UNCHANGED <<form, reference, seen, duplicates, decisionVars, bodyVars, faults>>

(* ProviderOfficeMismatchError, after the rows were written. *)
RejectOffice(a) ==
  /\ Move(a, "STORED", "FAILED")
  /\ ~form[a].office
  /\ UNCHANGED <<form, reference, seen, duplicates, decisionVars, bodyVars, faults>>

(* The office exists; the search sees what has been committed by now. *)
SearchDuplicates(a) ==
  /\ Move(a, "STORED", "SEARCHED")
  /\ form[a].office
  /\ seen' = [seen EXCEPT ![a] = Committed]
  /\ UNCHANGED <<form, reference, duplicates, decisionVars, bodyVars, faults>>

(* The confirmation is emailed before anything is committed. *)
SendConfirmation(a) ==
  /\ Move(a, "SEARCHED", "MAILED")
  /\ UNCHANGED <<form, reference, seen, duplicates, decisionVars, bodyVars, faults>>

(* Application, duplicate records, public bodies and both events. *)
CommitSubmission(a) ==
  /\ Move(a, "MAILED", "DONE")
  /\ duplicates' = duplicates \cup DuplicateRecords(a, seen[a])
  /\ bodies' = [bodies EXCEPT ![a] = BodyRows(NoOne, form[a].bodies)]
  /\ UNCHANGED <<form, reference, seen, decisionVars, upd, faults>>

(* Whatever is raised, the transaction is rolled back. *)
FailSubmission(a) ==
  /\ stage[a] \in {"NAMED", "STORED", "SEARCHED", "MAILED"}
  /\ stage' = [stage EXCEPT ![a] = "FAILED"]
  /\ Fault
  /\ UNCHANGED <<form, reference, seen, duplicates, decisionVars, bodyVars>>

(***************************************************************************)
(* Merits decisions: GrantDecisionUseCase and RefuseDecisionUseCase        *)
(***************************************************************************)
IdleRequest == [pc |-> "IDLE", app |-> NoOne, verdict |-> "NONE", detail |-> 0,
                read |-> NewProceeding, base |-> NoOne, alone |-> FALSE, care |-> 0,
                told |-> FALSE]
Active == {"READ", "WRITTEN", "MAILED", "POSTED"}

(* Mutant: a grant leaves the reason of an earlier refusal. *)
GrantKeepsRefusal(w) ==
  IF w.verdict = "GRANTED"
    THEN [merits |-> "GRANTED", refusal |-> w.read.refusal, start |-> w.detail]
    ELSE [merits |-> "REFUSED", refusal |-> w.detail, start |-> w.read.start]

(* Mutant: a grant does not set the start of the certificate. *)
GrantWithoutStart(w) ==
  IF w.verdict = "GRANTED" THEN [merits |-> "GRANTED", refusal |-> 0,
                                 start |-> w.read.start]
                           ELSE [merits |-> "REFUSED", refusal |-> w.detail,
                                 start |-> w.read.start]

(* The proceeding as request w leaves the object it has loaded. *)
Assigned(w) ==
  IF w.verdict = "GRANTED" THEN [merits |-> "GRANTED", refusal |-> 0, start |-> w.detail]
                           ELSE [merits |-> "REFUSED", refusal |-> w.detail,
                                 start |-> w.read.start]

(* The UPDATE sets the columns that differ from what was loaded, no others. *)
Updated(current, w) ==
  LET new == Assigned(w)
  IN  [merits  |-> IF new.merits # w.read.merits THEN new.merits ELSE current.merits,
       refusal |-> IF new.refusal # w.read.refusal THEN new.refusal ELSE current.refusal,
       start   |-> IF new.start # w.read.start THEN new.start ELSE current.start]

WritesRow(w) == Assigned(w) # w.read

(* Mutant: the row is not locked from the flush to the commit. *)
RowNeverLocked(a) == FALSE

(* An UPDATE of application a's proceeding that is not committed yet. *)
RowLocked(a) ==
  \E d \in Requests : /\ work[d].app = a
                      /\ work[d].pc \in {"WRITTEN", "MAILED", "POSTED"}
                      /\ WritesRow(work[d])

(* The stored address that "c/o" and the recipient are put in front of: the *)
(* certificate is addressed to the row itself, and to a copy for an office. *)
MarksAddress(a) == form[a].recipient /\ form[a].address \in {"SPECIFIED", "HOME"}

(* populate_certificate_context raises: the recipient has no address. *)
NoAddressToMark(a) == form[a].recipient /\ form[a].address = "ABSENT"

AddressLocked(a) ==
  MarksAddress(a) /\ \E d \in Requests : work[d].app = a /\ work[d].pc = "POSTED"

At(d, from, to) == work[d].pc = from /\ work' = [work EXCEPT ![d].pc = to]

(* The application is looked up and its proceeding loaded. *)
ReadApplication(d) ==
  /\ work[d].pc = "IDLE"
  /\ \E a \in Committed, v \in {"GRANTED", "REFUSED"}, n \in Details :
       work' = [work EXCEPT ![d] = [IdleRequest EXCEPT !.pc = "READ", !.app = a,
                                      !.verdict = v, !.detail = n, !.read = row[a],
                                      !.base = decided[a]]]
  /\ UNCHANGED <<submissionVars, row, careOf, lastMail, decided, bodyVars, faults>>

(* update_decision flushes: whatever the proceeding has become since. *)
WriteDecision(d) ==
  /\ At(d, "READ", "WRITTEN")
  /\ WritesRow(work[d]) => ~RowLocked(work[d].app)
  /\ UNCHANGED <<submissionVars, row, careOf, lastMail, decided, bodyVars, faults>>

(* The provider is emailed, a grant with the certificate. *)
SendDecisionEmail(d) ==
  LET w == work[d] IN
  /\ w.pc = "WRITTEN"
  /\ w.verdict = "GRANTED" => ~NoAddressToMark(w.app)
  /\ work' = [work EXCEPT ![d] = [w EXCEPT !.pc = "MAILED", !.told = TRUE,
                                           !.care = careOf[w.app]]]
  /\ lastMail' = [lastMail EXCEPT ![w.app] = w.verdict]
  /\ UNCHANGED <<submissionVars, row, careOf, decided, bodyVars, faults>>

(* A grant's CERTIFICATE_CREATED event flushes the marked address, then the *)
(* client is sent the letter.                                               *)
PostLetter(d) ==
  /\ At(d, "MAILED", "POSTED")
  /\ work[d].verdict = "GRANTED"
  /\ ~AddressLocked(work[d].app)
  /\ UNCHANGED <<submissionVars, row, careOf, lastMail, decided, bodyVars, faults>>

(* Mutant: the office's address is not passed on with the letter. *)
OwnAddressOnly(a) == form[a].address \in {"SPECIFIED", "HOME"}

(* The event that records the letter needs the address it went to. *)
LetterRecordable(a) == form[a].address # "ABSENT"

CommitDecision(d) ==
  LET w == work[d] IN
  /\ IF w.verdict = "GRANTED" THEN w.pc = "POSTED" /\ LetterRecordable(w.app)
                              ELSE w.pc = "MAILED"
  /\ row' = [row EXCEPT ![w.app] = Updated(@, w)]
  /\ careOf' = IF w.verdict = "GRANTED" /\ MarksAddress(w.app)
                 THEN [careOf EXCEPT ![w.app] = w.care + 1] ELSE careOf
  /\ decided' = [decided EXCEPT ![w.app] = d]
  /\ work' = [work EXCEPT ![d].pc = "DONE", ![d].alone = (w.base = decided[w.app])]
  /\ UNCHANGED <<submissionVars, lastMail, bodyVars, faults>>

(* The certificate or the record of the letter cannot be made: rolled back. *)
FailWithoutAddress(d) ==
  LET w == work[d] IN
  /\ w.verdict = "GRANTED"
  /\ \/ w.pc = "WRITTEN" /\ NoAddressToMark(w.app)
     \/ w.pc = "POSTED" /\ ~LetterRecordable(w.app)
  /\ work' = [work EXCEPT ![d].pc = "FAILED"]
  /\ UNCHANGED <<submissionVars, row, careOf, lastMail, decided, bodyVars, faults>>

FailDecision(d) ==
  /\ work[d].pc \in Active
  /\ work' = [work EXCEPT ![d].pc = "FAILED"]
  /\ Fault
  /\ UNCHANGED <<submissionVars, row, careOf, lastMail, decided, bodyVars>>

(* RetrieveCertificateUseCase: how many times the certificate of a granted *)
(* application says "c/o"; the object it marks is not committed.           *)
CareOfShown(a) ==
  IF ~form[a].recipient THEN 0
  ELSE IF MarksAddress(a) THEN careOf[a] + 1 ELSE 1

(***************************************************************************)
(* Public bodies: UpdatePublicBodiesUseCase.execute                        *)
(***************************************************************************)
IdleUpdate == [pc |-> "IDLE", app |-> NoOne, list |-> {}, old |-> {}]

(* The application is granted, and its bodies are read. *)
ReadBodies(u) ==
  /\ upd[u].pc = "IDLE"
  /\ \E a \in Committed, new \in (SUBSET Bodies) \ {{}} :
       /\ row[a].merits = "GRANTED"
       /\ upd' = [upd EXCEPT ![u] = [pc |-> "READ", app |-> a, list |-> new,
                                     old |-> bodies[a]]]
  /\ UNCHANGED <<submissionVars, decisionVars, bodies, faults>>

(* Mutant: the rows that were read are kept. *)
AddBodies(u) ==
  /\ upd[u].pc = "READ"
  /\ bodies' = [bodies EXCEPT ![upd[u].app] =
                  @ \cup BodyRows(u, upd[u].list)]
  /\ upd' = [upd EXCEPT ![u].pc = "DONE"]
  /\ UNCHANGED <<submissionVars, decisionVars, faults>>

(* The rows that were read are deleted, those still there, and the new ones *)
(* inserted.                                                                *)
ReplaceBodies(u) ==
  /\ upd[u].pc = "READ"
  /\ bodies' = [bodies EXCEPT ![upd[u].app] =
                  (@ \ upd[u].old) \cup BodyRows(u, upd[u].list)]
  /\ upd' = [upd EXCEPT ![u].pc = "DONE"]
  /\ UNCHANGED <<submissionVars, decisionVars, faults>>

FailUpdate(u) ==
  /\ upd[u].pc = "READ"
  /\ upd' = [upd EXCEPT ![u].pc = "FAILED"]
  /\ Fault
  /\ UNCHANGED <<submissionVars, decisionVars, bodies>>

(***************************************************************************)
(* The specification                                                       *)
(***************************************************************************)
Init ==
  /\ form = [a \in Applications |-> CHOOSE f \in Forms : TRUE]
  /\ stage = [a \in Applications |-> "NEW"]
  /\ reference = [a \in Applications |-> NoOne]
  /\ seen = [a \in Applications |-> {}]
  /\ duplicates = {}
  /\ row = [a \in Applications |-> NewProceeding]
  /\ careOf = [a \in Applications |-> 0]
  /\ lastMail = [a \in Applications |-> "NONE"]
  /\ decided = [a \in Applications |-> NoOne]
  /\ work = [d \in Requests |-> IdleRequest]
  /\ bodies = [a \in Applications |-> {}]
  /\ upd = [u \in Updates |-> IdleUpdate]
  /\ faults = 0

SubmissionStep(a) ==
  \/ GenerateReference(a) \/ InsertApplication(a) \/ RejectReference(a)
  \/ RejectOffice(a) \/ SearchDuplicates(a) \/ SendConfirmation(a)
  \/ CommitSubmission(a) \/ FailSubmission(a)

DecisionStep(d) ==
  \/ ReadApplication(d) \/ WriteDecision(d) \/ SendDecisionEmail(d) \/ PostLetter(d)
  \/ CommitDecision(d) \/ FailWithoutAddress(d) \/ FailDecision(d)

UpdateStep(u) == ReadBodies(u) \/ ReplaceBodies(u) \/ FailUpdate(u)

(* Every request that was going to be made has been answered. *)
AllAnswered ==
  /\ \A a \in Applications : stage[a] \in {"DONE", "FAILED"}
  /\ \A d \in Requests : work[d].pc \notin Active
  /\ \A u \in Updates : upd[u].pc # "READ"
  /\ UNCHANGED vars

Next ==
  \/ \E a \in Applications : SubmissionStep(a)
  \/ \E d \in Requests : DecisionStep(d)
  \/ \E u \in Updates : UpdateStep(u)
  \/ AllAnswered

Spec == Init /\ [][Next]_vars

(***************************************************************************)
(* Properties                                                              *)
(***************************************************************************)
(* The variables hold what the rows and requests they stand for can hold;  *)
(* a certificate of a granted application has a start date.                 *)
TypeOK ==
  /\ form \in [Applications -> Forms]
  /\ stage \in [Applications -> {"NEW", "NAMED", "STORED", "SEARCHED", "MAILED",
                                 "DONE", "FAILED"}]
  /\ reference \in [Applications -> References \cup {NoOne}]
  /\ seen \in [Applications -> SUBSET Applications]
  /\ duplicates \subseteq Applications \X Applications
  /\ row \in [Applications -> Proceedings]
  /\ careOf \in [Applications -> Nat]
  /\ lastMail \in [Applications -> {"NONE", "GRANTED", "REFUSED"}]
  /\ decided \in [Applications -> Requests \cup {NoOne}]
  /\ work \in [Requests ->
       [pc : {"IDLE", "DONE", "FAILED"} \cup Active, app : Applications \cup {NoOne},
        verdict : {"NONE", "GRANTED", "REFUSED"}, detail : Details \cup {0},
        read : Proceedings, base : Requests \cup {NoOne}, alone : BOOLEAN,
        care : Nat, told : BOOLEAN]]
  /\ bodies \in [Applications -> SUBSET [by : Updates \cup {NoOne}, body : Bodies]]
  /\ upd \in [Updates ->
       [pc : {"IDLE", "READ", "DONE", "FAILED"}, app : Applications \cup {NoOne},
        list : SUBSET Bodies, old : SUBSET [by : Updates \cup {NoOne}, body : Bodies]]]
  /\ faults \in 0..MaxFaults
  /\ \A a \in Applications : row[a].merits = "GRANTED" => row[a].start # 0

(* Random references stay unique though they are checked before they are   *)
(* stored: two committed applications never share one.                     *)
ReferencesUnique ==
  \A a, b \in Committed : reference[a] = reference[b] => a = b

(* The details of the deceased on which two applications agree. *)
Agreement(a, b) ==
  {k \in {"born", "died", "name"} : form[a][k] = form[b][k]}
    \cup {k \in {"coroner"} : form[a][k] = form[b][k] /\ form[a][k] # 0}

(* A pending application is shown with another that agrees on two details, *)
(* and only with those, unless their requests overlapped: neither was      *)
(* stored when the other's search ran.  The backlog report lists the same  *)
(* pairs as the page, for both of a pair or for neither.                   *)
PendingDuplicatesShown ==
  \A a \in Pending, b \in Committed :
    a # b =>
      /\ b \in PotentialDuplicates(a) <=>
           /\ Cardinality(Agreement(a, b)) >= 2
           /\ a \in seen[b] \/ b \in seen[a]
      /\ b \in BacklogDuplicates(a) <=> b \in Pending /\ b \in PotentialDuplicates(a)

(* Of two requests that decide one application the one that emails last is  *)
(* the one that is stored, because the first holds the row from before its  *)
(* email to its commit.  It takes that every request that emailed was       *)
(* committed and changed the decision it had loaded: a repeated decision    *)
(* that changes nothing locks nothing.                                      *)
LastEmailTellsDecision ==
  \A a \in Applications :
    LET mailed == {d \in Requests : work[d].app = a /\ work[d].told}
    IN  /\ mailed # {}
        /\ \A d \in mailed :
             work[d].pc = "DONE" /\ work[d].read.merits # work[d].verdict
        => lastMail[a] = row[a].merits

(* The application says what its latest decision says, and a grant clears   *)
(* the reason of an earlier refusal, unless another decision was committed  *)
(* since the latest one loaded the application: then columns of both remain, *)
(* and a granted application can carry a new reason for its refusal.        *)
DecisionStandsUnlessOverlapped ==
  \A a \in Applications :
    decided[a] # NoOne /\ work[decided[a]].alone =>
      LET w == work[decided[a]]
      IN  /\ row[a].merits = w.verdict
          /\ w.verdict = "GRANTED" => row[a].start = w.detail /\ row[a].refusal = 0
          /\ w.verdict = "REFUSED" => row[a].refusal = w.detail

(* A provider who was told of a decision that is not stored has met a       *)
(* failure of the environment, or an application without an address: its    *)
(* grant emails and posts the certificate and then fails, every time.       *)
ToldInVainHasItsFault ==
  Cardinality({d \in Requests : work[d].pc = "FAILED" /\ work[d].told}) <=
    faults + Cardinality({d \in Requests :
                            /\ work[d].pc = "FAILED"
                            /\ form[work[d].app].address = "ABSENT"})

(* The public bodies of an application come from one request, unless two    *)
(* updates overlapped: then both lists remain, as neither read the other's. *)
MergedBodiesOverlapped ==
  \A a \in Applications : \A x, y \in bodies[a] :
    x.by # y.by =>
      /\ x.by \in Updates /\ y.by \in Updates
      /\ \A z \in upd[x.by].old : z.by # y.by

(***************************************************************************)
(* What the repository's tests say of the certificate                      *)
(***************************************************************************)
(* test_create_certificate_context_use_case.py: the address of a granted   *)
(* application's certificate names the recipient once.                     *)
CertificateNamesRecipientOnce ==
  \A a \in Committed :
    row[a].merits = "GRANTED" /\ form[a].recipient => CareOfShown(a) = 1
=============================================================================
