--------------------------- MODULE ApprovalEmails ---------------------------
(***************************************************************************)
(* The deferred emails about automatically approved payments on account:   *)
(* use_cases/send_auto_approved_poa_claim_emails.py, the job of            *)
(* bin/send_auto_approved_poa_emails.py that cronjob.yaml starts every     *)
(* morning, never twice at once, and restarts when it exits with an error. *)
(* One database session serves a whole run and is never rolled back.       *)
(*                                                                         *)
(* A failed read or commit leaves that session unusable: every later claim *)
(* of the run fails too.  If the run has committed before, the claim that  *)
(* the error log names has expired and must be read again, which fails     *)
(* inside the handler: the run ends with an error.  A failed flush expires *)
(* every claim, so there the handler always fails.                         *)
(*                                                                         *)
(* Time is counted in ticks, Day to a day; the job is due at the multiples *)
(* of Day.  faults counts what the environment breaks, MaxFaults bounds it *)
(* and LastTick bounds time.                                               *)
(***************************************************************************)
EXTENDS Integers, FiniteSets

CONSTANTS
  Claims,      \* payments on account
  NoClaim,     \* what an event names that has no claim_reference
  Day,         \* ticks between two runs
  LastTick,    \* bound on time
  MaxFaults    \* bound on faults

ASSUME NoClaimAssumption == NoClaim \notin Claims
ASSUME TimeAssumption == Day \in Nat \ {0} /\ LastTick \in Nat
ASSUME FaultsAssumption == MaxFaults \in Nat

VARIABLES
  now,
  submitted,   \* claim.submission_date; Never before
  status,      \* claim.status_id
  deciding,    \* claims whose request has still to decide them
  history,     \* events about approvals, with the tick of their commit
  sent,        \* how many emails the job had accepted for each claim
  job,         \* the run: pc, the claims it listed and has still to take, ...
  lastRun,     \* when the job was last due and started, or was missed
  faults

vars == <<now, submitted, status, deciding, history, sent, job, lastRun, faults>>
claimVars == <<submitted, status, deciding>>

(* Mutant: a window of one day, as the script's docstring has it. *)
PreviousDay == Day

WINDOW == 2 * Day

Never == -1

Event(reference, c) == [event |-> reference, claim |-> c, at |-> now]

HasEvent(reference, c) == \E e \in history : e.event = reference /\ e.claim = c

(* Mutant: the job looks only at whether the email is on record. *)
OnlyUnrecorded(c) == ~HasEvent("CLAIM_APPROVED_EMAIL", c)

(* The checks of _process_claim. *)
EmailDue(c) ==
  /\ HasEvent("POA_AUTO_APPROVED", c)
  /\ ~HasEvent("CLAIM_APPROVED_EMAIL", c)

(* list_auto_approved_poa_claims: any paid claim submitted in the window. *)
Listed ==
  {c \in Claims : /\ status[c] = "PAY_IN_FULL"
                  /\ submitted[c] >= now - WINDOW
                  /\ submitted[c] < now}

IdleJob == [pc |-> "IDLE", todo |-> {}, claim |-> NoClaim, committed |-> FALSE,
            broken |-> FALSE, failed |-> {}]
NewRun == [IdleJob EXCEPT !.pc = "NEXT", !.todo = Listed]
CrashedRun == [IdleJob EXCEPT !.pc = "CRASHED"]

Due == now % Day = 0 /\ lastRun # now

Fault == faults < MaxFaults /\ faults' = faults + 1

(***************************************************************************)
(* What the requests do meanwhile                                          *)
(***************************************************************************)
Submit(c) ==
  /\ status[c] = "NONE"
  /\ status' = [status EXCEPT ![c] = "SUBMITTED"]
  /\ submitted' = [submitted EXCEPT ![c] = now]
  /\ deciding' = deciding \cup {c}
  /\ UNCHANGED <<now, history, sent, job, lastRun, faults>>

(* The automatic decision ignores the status a caseworker may have given. *)
AutoApprove(c) ==
  /\ c \in deciding
  /\ status' = [status EXCEPT ![c] = "PAY_IN_FULL"]
  /\ history' = history \cup {Event("POA_AUTO_APPROVED", c)}
  /\ deciding' = deciding \ {c}
  /\ UNCHANGED <<now, submitted, sent, job, lastRun, faults>>

LeaveToCaseworker(c) ==
  /\ c \in deciding
  /\ deciding' = deciding \ {c}
  /\ UNCHANGED <<now, submitted, status, history, sent, job, lastRun, faults>>

(* By a caseworker, or by the request that has still to decide the claim. *)
Reject(c) ==
  /\ status[c] = "SUBMITTED"
  /\ status' = [status EXCEPT ![c] = "REJECTED"]
  /\ deciding' \in {deciding, deciding \ {c}}
  /\ UNCHANGED <<now, submitted, history, sent, job, lastRun, faults>>

(* Mutant: the other branch of _send_pay_in_full_decision_email. *)
CaseworkerPaysAsBill(c) ==
  /\ status[c] = "SUBMITTED"
  /\ status' = [status EXCEPT ![c] = "PAY_IN_FULL"]
  /\ history' = history \cup {Event("CLAIM_FINAL_BILL_PAID_EMAIL", NoClaim)}
  /\ UNCHANGED <<now, submitted, deciding, sent, job, lastRun, faults>>

(* PayInFullClaimUseCase records its own email without the claim's reference. *)
CaseworkerPays(c) ==
  /\ status[c] = "SUBMITTED"
  /\ status' = [status EXCEPT ![c] = "PAY_IN_FULL"]
  /\ history' = history \cup {Event("CLAIM_APPROVED_EMAIL", NoClaim)}
  /\ UNCHANGED <<now, submitted, deciding, sent, job, lastRun, faults>>

(***************************************************************************)
(* The run                                                                 *)
(***************************************************************************)
StartRun ==
  /\ job = IdleJob
  /\ Due
  /\ job' = NewRun
  /\ lastRun' = now
  /\ UNCHANGED <<now, claimVars, history, sent, faults>>

(* The history of one of the listed claims, in no particular order. *)
TakeClaim(c) ==
  /\ job.pc = "NEXT" /\ ~job.broken /\ c \in job.todo
  /\ job' = [job EXCEPT !.todo = @ \ {c},
                        !.pc = IF EmailDue(c) THEN "SEND" ELSE "NEXT",
                        !.claim = IF EmailDue(c) THEN c ELSE NoClaim]
  /\ UNCHANGED <<now, claimVars, history, sent, lastRun, faults>>

(* The database fails the read of the claim or of its history. *)
TakeClaimFails(c) ==
  /\ job.pc = "NEXT" /\ ~job.broken /\ c \in job.todo
  /\ Fault
  /\ \/ job' = [job EXCEPT !.todo = @ \ {c}, !.broken = TRUE, !.failed = @ \cup {c}]
     \/ job.committed /\ job' = CrashedRun
  /\ UNCHANGED <<now, claimVars, history, sent, lastRun>>

(* Every statement on the broken session fails. *)
TakeClaimBroken(c) ==
  /\ job.pc = "NEXT" /\ job.broken /\ c \in job.todo
  /\ job' = IF job.committed THEN CrashedRun ELSE [job EXCEPT !.todo = @ \ {c}]
  /\ UNCHANGED <<now, claimVars, history, sent, lastRun, faults>>

(* GOV.UK Notify accepts the email. *)
SendEmail ==
  /\ job.pc = "SEND"
  /\ sent' = [sent EXCEPT ![job.claim] = @ + 1]
  /\ job' = [job EXCEPT !.pc = "RECORD"]
  /\ UNCHANGED <<now, claimVars, history, lastRun, faults>>

(* The firm's name or the email fails, or the answer to an accepted one is lost. *)
SendEmailFails ==
  /\ job.pc = "SEND"
  /\ Fault
  /\ \/ UNCHANGED sent
     \/ sent' = [sent EXCEPT ![job.claim] = @ + 1]
  /\ job' = [job EXCEPT !.pc = "NEXT", !.claim = NoClaim, !.failed = @ \cup {job.claim}]
  /\ UNCHANGED <<now, claimVars, history, lastRun>>

(* Mutant: the event is recorded as PayInFullClaimUseCase does. *)
RecordWithoutReference ==
  /\ job.pc = "RECORD"
  /\ history' = history \cup {Event("CLAIM_APPROVED_EMAIL", NoClaim)}
  /\ job' = [job EXCEPT !.pc = "NEXT", !.claim = NoClaim, !.committed = TRUE]
  /\ UNCHANGED <<now, claimVars, sent, lastRun, faults>>

RecordEmail ==
  /\ job.pc = "RECORD"
  /\ history' = history \cup {Event("CLAIM_APPROVED_EMAIL", job.claim)}
  /\ job' = [job EXCEPT !.pc = "NEXT", !.claim = NoClaim, !.committed = TRUE]
  /\ UNCHANGED <<now, claimVars, sent, lastRun, faults>>

(* The flush fails, or the commit does; that may have reached the database. *)
RecordEmailFails ==
  /\ job.pc = "RECORD"
  /\ Fault
  /\ \/ job' = CrashedRun /\ UNCHANGED history
     \/ /\ job' = [job EXCEPT !.pc = "NEXT", !.claim = NoClaim, !.broken = TRUE,
                              !.failed = @ \cup {job.claim}]
        /\ \/ UNCHANGED history
           \/ history' = history \cup {Event("CLAIM_APPROVED_EMAIL", job.claim)}
  /\ UNCHANGED <<now, claimVars, sent, lastRun>>

EndRun ==
  /\ job.pc = "NEXT" /\ job.todo = {}
  /\ job' = IdleJob
  /\ UNCHANGED <<now, claimVars, history, sent, lastRun, faults>>

(* The pod is killed, or the claims cannot be listed. *)
Crash ==
  /\ job.pc \in {"NEXT", "SEND", "RECORD"}
  /\ Fault
  /\ job' = CrashedRun
  /\ UNCHANGED <<now, claimVars, history, sent, lastRun>>

(* restartPolicy: OnFailure. *)
Restart ==
  /\ job.pc = "CRASHED"
  /\ job' = NewRun
  /\ UNCHANGED <<now, claimVars, history, sent, lastRun, faults>>

(* The restarts are used up, or the run is not started when it is due. *)
GiveUp ==
  /\ job.pc = "CRASHED" /\ job' = IdleJob /\ UNCHANGED lastRun
  /\ Fault
  /\ UNCHANGED <<now, claimVars, history, sent>>

MissRun ==
  /\ job = IdleJob /\ Due /\ lastRun' = now
  /\ Fault
  /\ UNCHANGED <<now, claimVars, history, sent, job>>

(* A run takes minutes and a request seconds: neither lasts for two ticks. *)
Tick ==
  /\ now < LastTick
  /\ ~Due /\ job = IdleJob
  /\ \A c \in deciding : submitted[c] = now
  /\ now' = now + 1
  /\ UNCHANGED <<claimVars, history, sent, job, lastRun, faults>>

Init ==
  /\ now = 0
  /\ submitted = [c \in Claims |-> Never]
  /\ status = [c \in Claims |-> "NONE"]
  /\ deciding = {}
  /\ history = {}
  /\ sent = [c \in Claims |-> 0]
  /\ job = IdleJob
  /\ lastRun = Never
  /\ faults = 0

RequestStep(c) ==
  \/ Submit(c) \/ AutoApprove(c) \/ LeaveToCaseworker(c)
  \/ Reject(c) \/ CaseworkerPays(c)

JobStep ==
  \/ StartRun \/ MissRun
  \/ \E c \in Claims : TakeClaim(c) \/ TakeClaimFails(c) \/ TakeClaimBroken(c)
  \/ SendEmail \/ SendEmailFails \/ RecordEmail \/ RecordEmailFails
  \/ EndRun \/ Crash \/ Restart \/ GiveUp

Next == (\E c \in Claims : RequestStep(c)) \/ JobStep \/ Tick

Spec == Init /\ [][Next]_vars

(***************************************************************************)
(* Properties                                                              *)
(***************************************************************************)
(* The variables hold what the rows and the job can hold. *)
TypeOK ==
  /\ now \in 0..LastTick
  /\ submitted \in [Claims -> {Never} \cup 0..LastTick]
  /\ status \in [Claims -> {"NONE", "SUBMITTED", "REJECTED", "PAY_IN_FULL"}]
  /\ deciding \subseteq Claims
  /\ history \subseteq [event : {"POA_AUTO_APPROVED", "CLAIM_APPROVED_EMAIL"},
                        claim : Claims \cup {NoClaim}, at : 0..LastTick]
  /\ sent \in [Claims -> Nat]
  /\ job \in [pc : {"IDLE", "NEXT", "SEND", "RECORD", "CRASHED"}, todo : SUBSET Claims,
              claim : Claims \cup {NoClaim}, committed : BOOLEAN, broken : BOOLEAN,
              failed : SUBSET Claims]
  /\ job.pc \in {"SEND", "RECORD"} => job.claim \in Claims
  /\ lastRun \in {Never} \cup 0..LastTick
  /\ faults \in 0..MaxFaults

(* The job tells a provider only of an automatic approval that was committed, *)
(* although every paid claim is listed.                                       *)
OnlyAutoApprovedEmailed ==
  \A c \in Claims : sent[c] > 0 => HasEvent("POA_AUTO_APPROVED", c)

(* A provider is emailed again about the same claim only when something failed *)
(* after the email went: the record of the email is what stops the next run.   *)
(* A claim is on record at most once.                                          *)
EachDuplicateHasItsFault ==
  \A c \in Claims :
    /\ sent[c] <= faults + 1
    /\ \A d, e \in history :
         d.event = "CLAIM_APPROVED_EMAIL" /\ e.event = d.event /\ d.claim = c /\ e.claim = c
           => d = e

(* What has become of each claim's email, read off the history and the run. *)
Unrecorded(c) == job.pc = "RECORD" /\ job.claim = c
Phase ==
  [c \in Claims |->
     IF HasEvent("CLAIM_APPROVED_EMAIL", c) THEN "RECORDED"
     ELSE IF Unrecorded(c) THEN "SENT"
     ELSE IF HasEvent("POA_AUTO_APPROVED", c) THEN "OWED" ELSE "NONE"]

Delivery == INSTANCE ApprovalDelivery WITH phase <- Phase

(* The job delivers at least once, with the record as its memory: runs that  *)
(* overlap the requests, break and start again never send what is on record, *)
(* hold one unrecorded email at a time, and lose it only to a fault.         *)
ImplementsDelivery == Delivery!Spec

ApprovedAt(c) ==
  CHOOSE t \in 0..LastTick : \E e \in history :
    e.event = "POA_AUTO_APPROVED" /\ e.claim = c /\ e.at = t

(* The runs that begin after the approval and within 48 hours of the submission. *)
Deadline(c) == submitted[c] + 2 * Day
Chances(c) == {t \in 0..LastTick : t % Day = 0 /\ ApprovedAt(c) < t /\ t <= Deadline(c)}

(* A claim that has left the window without an email was failed by the       *)
(* environment once for each run that could have sent it: a single failure   *)
(* is made good the next morning, unless the approval left but one run.      *)
EmailedBeforeWindowCloses ==
  \A c \in Claims :
    /\ HasEvent("POA_AUTO_APPROVED", c)
    /\ Deadline(c) < now
    /\ sent[c] = 0
    => faults >= Cardinality(Chances(c))

(* test_send_auto_approved_poa_claim_emails.py: one claim's failure does not *)
(* block others.  When a run ends, every claim it was to email has been      *)
(* emailed, or has failed itself.                                            *)
FailureDoesNotBlockOthers ==
  [][EndRun =>
       \A c \in Claims \ job.failed :
         c \in Listed /\ HasEvent("POA_AUTO_APPROVED", c) /\ ApprovedAt(c) < now
           => sent[c] > 0]_vars
=============================================================================
