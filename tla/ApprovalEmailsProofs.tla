------------------------ MODULE ApprovalEmailsProofs ------------------------
(***************************************************************************)
(* Theorems about ApprovalEmails, for every set of claims, every length of *)
(* the day and any number of faults.                                       *)
(***************************************************************************)
EXTENDS ApprovalEmails, FiniteSetTheorems, TLAPS

USE NoClaimAssumption, TimeAssumption, FaultsAssumption

Approved(c) == HasEvent("POA_AUTO_APPROVED", c)
Recorded(c) == HasEvent("CLAIM_APPROVED_EMAIL", c)

(* What the job found in the history of the claim it works on is still so:  *)
(* nobody else records an email with that claim's reference.                *)
JobOK ==
  job.pc \in {"SEND", "RECORD"} => Approved(job.claim) /\ ~Recorded(job.claim)

(* An email is on record, about to be recorded, or lost to a fault. *)
EmailsAccounted ==
  \A c \in Claims :
    /\ sent[c] <= faults + 1
    /\ ~Recorded(c) /\ ~(job.pc = "RECORD" /\ job.claim = c) => sent[c] <= faults

RecordedOnce ==
  \A c \in Claims, d, e \in history :
    d.event = "CLAIM_APPROVED_EMAIL" /\ e.event = d.event /\ d.claim = c /\ e.claim = c
      => d = e

IInv == TypeOK /\ JobOK /\ EmailsAccounted /\ RecordedOnce /\ OnlyAutoApprovedEmailed

LEMMA InitEstablishes == Init => IInv
<1> SUFFICES ASSUME Init PROVE IInv
  OBVIOUS
<1>1. TypeOK
  BY DEF Init, TypeOK, IdleJob, Never
<1>2. JobOK /\ EmailsAccounted /\ RecordedOnce /\ OnlyAutoApprovedEmailed
  BY DEF Init, JobOK, EmailsAccounted, RecordedOnce, OnlyAutoApprovedEmailed, IdleJob
<1> QED
  BY <1>1, <1>2 DEF IInv

(***************************************************************************)
(* Steps that neither send nor record                                      *)
(***************************************************************************)
(* A step that leaves the emails and the history alone, and either leaves  *)
(* the job alone or takes it away from sending and recording.              *)
LEMMA QuietStepKeeps ==
  ASSUME IInv, TypeOK', sent' = sent, history' = history,
         faults' = faults \/ faults' = faults + 1,
         job' = job \/ (job'.pc \notin {"SEND", "RECORD"} /\ job.pc # "RECORD")
  PROVE  IInv'
<1> USE DEF IInv, HasEvent, Approved, Recorded
<1>1. JobOK'
  BY DEF JobOK
<1>2. EmailsAccounted'
  BY DEF EmailsAccounted, TypeOK
<1>3. RecordedOnce' /\ OnlyAutoApprovedEmailed'
  BY DEF RecordedOnce, OnlyAutoApprovedEmailed
<1> QED
  BY <1>1, <1>2, <1>3

(* A run that crashes may do so between the email and its record: the fault *)
(* that crashes it accounts for the email.                                  *)
LEMMA FaultyStepKeeps ==
  ASSUME IInv, TypeOK', sent' = sent, history' = history,
         faults' = faults + 1, job'.pc \notin {"SEND", "RECORD"}
  PROVE  IInv'
<1> USE DEF IInv, HasEvent, Approved, Recorded
<1>1. JobOK' /\ RecordedOnce' /\ OnlyAutoApprovedEmailed'
  BY DEF JobOK, RecordedOnce, OnlyAutoApprovedEmailed
<1>2. EmailsAccounted'
  BY DEF EmailsAccounted, TypeOK
<1> QED
  BY <1>1, <1>2

(* An event that records no email of a claim. *)
LEMMA OtherEventKeeps ==
  ASSUME IInv, TypeOK', NEW e, history' = history \cup {e},
         e.event # "CLAIM_APPROVED_EMAIL" \/ e.claim = NoClaim,
         sent' = sent, faults' = faults, job' = job
  PROVE  IInv'
<1> USE DEF IInv, HasEvent, Approved, Recorded
<1>1. \A c \in Claims : Recorded(c)' <=> Recorded(c)
  OBVIOUS
<1>2. \A c \in Claims : Approved(c) => Approved(c)'
  OBVIOUS
<1>3. JobOK'
  BY <1>1, <1>2 DEF JobOK, TypeOK
<1>4. EmailsAccounted'
  BY <1>1 DEF EmailsAccounted
<1>5. RecordedOnce' /\ OnlyAutoApprovedEmailed'
  BY DEF RecordedOnce, OnlyAutoApprovedEmailed
<1> QED
  BY <1>3, <1>4, <1>5

Jobs == [pc : {"IDLE", "NEXT", "SEND", "RECORD", "CRASHED"}, todo : SUBSET Claims,
         claim : Claims \cup {NoClaim}, committed : BOOLEAN, broken : BOOLEAN,
         failed : SUBSET Claims]

(* The records that begin and end a run. *)
LEMMA JobTypes ==
  /\ IdleJob \in Jobs /\ IdleJob.pc = "IDLE"
  /\ CrashedRun \in Jobs /\ CrashedRun.pc = "CRASHED"
  /\ NewRun \in Jobs /\ NewRun.pc = "NEXT"
<1>1. IdleJob \in Jobs /\ IdleJob.pc = "IDLE"
  BY DEF IdleJob, Jobs
<1>2. CrashedRun \in Jobs /\ CrashedRun.pc = "CRASHED"
  BY DEF IdleJob, CrashedRun, Jobs
<1>3. Listed \in SUBSET Claims
  BY DEF Listed
<1>4. NewRun \in Jobs /\ NewRun.pc = "NEXT"
  BY <1>3 DEF IdleJob, NewRun, Jobs
<1> QED
  BY <1>1, <1>2, <1>4

LEMMA RequestStepKeeps ==
  ASSUME IInv, NEW c \in Claims, RequestStep(c)
  PROVE  IInv'
<1> USE DEF IInv
<1>1. CASE Submit(c)
  <2>1. TypeOK'
    BY <1>1 DEF Submit, TypeOK
  <2> QED
    BY <1>1, <2>1, QuietStepKeeps DEF Submit
<1>2. CASE AutoApprove(c)
  <2>1. TypeOK'
    BY <1>2 DEF AutoApprove, TypeOK, Event
  <2> QED
    BY <1>2, <2>1, OtherEventKeeps DEF AutoApprove, Event
<1>3. CASE LeaveToCaseworker(c)
  <2>1. TypeOK'
    BY <1>3 DEF LeaveToCaseworker, TypeOK
  <2> QED
    BY <1>3, <2>1, QuietStepKeeps DEF LeaveToCaseworker
<1>4. CASE Reject(c)
  <2>1. TypeOK'
    BY <1>4 DEF Reject, TypeOK
  <2> QED
    BY <1>4, <2>1, QuietStepKeeps DEF Reject
<1>5. CASE CaseworkerPays(c)
  <2>1. TypeOK'
    BY <1>5 DEF CaseworkerPays, TypeOK, Event
  <2> QED
    BY <1>5, <2>1, OtherEventKeeps DEF CaseworkerPays, Event
<1> QED
  BY <1>1, <1>2, <1>3, <1>4, <1>5 DEF RequestStep

(***************************************************************************)
(* The run                                                                 *)
(***************************************************************************)
(* Steps that begin, end or abandon a run, or move the clock. *)
LEMMA RunStepKeeps ==
  ASSUME IInv, StartRun \/ EndRun \/ Restart \/ GiveUp \/ MissRun \/ Tick
  PROVE  IInv'
<1> USE DEF IInv
<1>1. CASE StartRun
  <2>1. TypeOK'
    BY <1>1, JobTypes DEF StartRun, TypeOK, Jobs, claimVars
  <2> QED
    BY <1>1, <2>1, JobTypes, QuietStepKeeps DEF StartRun
<1>2. CASE EndRun
  <2>1. TypeOK'
    BY <1>2, JobTypes DEF EndRun, TypeOK, Jobs, claimVars
  <2> QED
    BY <1>2, <2>1, JobTypes, QuietStepKeeps DEF EndRun
<1>3. CASE Restart
  <2>1. TypeOK'
    BY <1>3, JobTypes DEF Restart, TypeOK, Jobs, claimVars
  <2> QED
    BY <1>3, <2>1, JobTypes, QuietStepKeeps DEF Restart
<1>4. CASE GiveUp
  <2>1. TypeOK'
    BY <1>4, JobTypes DEF GiveUp, TypeOK, Jobs, Fault, claimVars
  <2> QED
    BY <1>4, <2>1, JobTypes, QuietStepKeeps DEF GiveUp, Fault
<1>5. CASE MissRun
  <2>1. TypeOK'
    BY <1>5 DEF MissRun, TypeOK, Fault, claimVars
  <2> QED
    BY <1>5, <2>1, QuietStepKeeps DEF MissRun, Fault
<1>6. CASE Tick
  <2>1. now' \in 0..LastTick
    BY <1>6 DEF Tick, TypeOK
  <2>2. TypeOK'
    BY <1>6, <2>1 DEF Tick, TypeOK, claimVars
  <2> QED
    BY <1>6, <2>2, QuietStepKeeps DEF Tick
<1> QED
  BY <1>1, <1>2, <1>3, <1>4, <1>5, <1>6

(* A fault that leaves the history alone and takes the job off its claim. *)
LEMMA FaultTypes ==
  ASSUME TypeOK, Fault, NEW j \in Jobs, j.pc \notin {"SEND", "RECORD"}, job' = j,
         UNCHANGED <<now, claimVars, history, sent, lastRun>>
  PROVE  TypeOK' /\ faults' = faults + 1
  BY DEF TypeOK, Fault, claimVars, Jobs

LEMMA TakeClaimKeeps ==
  ASSUME IInv, NEW c \in Claims, TakeClaim(c)
  PROVE  IInv'
<1> USE DEF IInv
<1>1. CASE EmailDue(c)
  <2>1. job' = [job EXCEPT !.todo = @ \ {c}, !.pc = "SEND", !.claim = c]
    BY <1>1 DEF TakeClaim
  <2>2. TypeOK'
    BY <2>1 DEF TakeClaim, TypeOK, claimVars
  <2>3. job'.pc = "SEND" /\ job'.claim = c
    BY <2>1 DEF TypeOK
  <2>4. JobOK'
    BY <1>1, <2>3 DEF TakeClaim, JobOK, EmailDue, Approved, Recorded, HasEvent
  <2>5. EmailsAccounted'
    BY <2>3 DEF TakeClaim, EmailsAccounted, Recorded, HasEvent
  <2>6. RecordedOnce' /\ OnlyAutoApprovedEmailed'
    BY DEF TakeClaim, RecordedOnce, OnlyAutoApprovedEmailed, HasEvent
  <2> QED
    BY <2>2, <2>4, <2>5, <2>6
<1>2. CASE ~EmailDue(c)
  <2>1. job' = [job EXCEPT !.todo = @ \ {c}, !.pc = "NEXT", !.claim = NoClaim]
    BY <1>2 DEF TakeClaim
  <2>2. TypeOK'
    BY <2>1 DEF TakeClaim, TypeOK, claimVars
  <2>3. job'.pc = "NEXT"
    BY <2>1 DEF TypeOK
  <2> QED
    BY <2>2, <2>3, QuietStepKeeps DEF TakeClaim
<1> QED
  BY <1>1, <1>2

LEMMA TakeClaimFailsKeeps ==
  ASSUME IInv, NEW c \in Claims, TakeClaimFails(c) \/ TakeClaimBroken(c)
  PROVE  IInv'
<1> USE DEF IInv
<1>1. CASE TakeClaimFails(c)
  <2>1. job' \in Jobs /\ job'.pc \notin {"SEND", "RECORD"}
    <3>1. CASE job' = [job EXCEPT !.todo = @ \ {c}, !.broken = TRUE, !.failed = @ \cup {c}]
      <4>1. job' \in Jobs
        BY <3>1 DEF TypeOK, Jobs
      <4>2. job'.pc = job.pc
        BY <3>1 DEF TypeOK
      <4> QED
        BY <1>1, <4>1, <4>2 DEF TakeClaimFails
    <3>2. CASE job' = CrashedRun
      BY <3>2, JobTypes
    <3> QED
      BY <1>1, <3>1, <3>2 DEF TakeClaimFails
  <2>2. TypeOK' /\ faults' = faults + 1
    BY <1>1, <2>1, FaultTypes DEF TakeClaimFails
  <2> QED
    BY <1>1, <2>1, <2>2, FaultyStepKeeps DEF TakeClaimFails
<1>2. CASE TakeClaimBroken(c)
  <2>1. job' \in Jobs /\ job'.pc \notin {"SEND", "RECORD"}
    BY <1>2, JobTypes DEF TakeClaimBroken, TypeOK, Jobs
  <2>2. TypeOK'
    BY <1>2, <2>1 DEF TakeClaimBroken, TypeOK, claimVars, Jobs
  <2> QED
    BY <1>2, <2>1, <2>2, QuietStepKeeps DEF TakeClaimBroken
<1> QED
  BY <1>1, <1>2

LEMMA CrashKeeps == ASSUME IInv, Crash PROVE IInv'
<1>1. TypeOK' /\ faults' = faults + 1
  BY JobTypes, FaultTypes DEF Crash, IInv
<1> QED
  BY <1>1, JobTypes, FaultyStepKeeps DEF Crash

(* The email goes: until it is recorded the job itself accounts for it. *)
LEMMA SendEmailKeeps == ASSUME IInv, SendEmail PROVE IInv'
<1> USE DEF IInv
<1>1. job.claim \in Claims /\ job'.pc = "RECORD" /\ job'.claim = job.claim
  BY DEF SendEmail, TypeOK
<1>2. TypeOK'
  BY <1>1 DEF SendEmail, TypeOK, claimVars
<1>3. JobOK'
  BY <1>1 DEF SendEmail, JobOK, Approved, Recorded, HasEvent
<1>4. EmailsAccounted'
  <2>1. sent[job.claim] <= faults
    BY <1>1 DEF SendEmail, JobOK, EmailsAccounted
  <2>2. \A c \in Claims : sent'[c] = IF c = job.claim THEN sent[c] + 1 ELSE sent[c]
    BY DEF SendEmail, TypeOK
  <2>3. \A c \in Claims : sent'[c] <= faults + 1
    BY <1>1, <2>1, <2>2 DEF EmailsAccounted, TypeOK
  <2>4. \A c \in Claims \ {job.claim} : ~Recorded(c) => sent'[c] <= faults
    BY <2>2 DEF SendEmail, EmailsAccounted
  <2> QED
    BY <1>1, <2>3, <2>4 DEF SendEmail, EmailsAccounted, Recorded, HasEvent
<1>5. RecordedOnce'
  BY DEF SendEmail, RecordedOnce
<1>6. OnlyAutoApprovedEmailed'
  BY <1>1 DEF SendEmail, OnlyAutoApprovedEmailed, JobOK, Approved, HasEvent, TypeOK
<1> QED
  BY <1>2, <1>3, <1>4, <1>5, <1>6

(* An email whose answer is lost is accounted for by that fault. *)
LEMMA SendEmailFailsKeeps == ASSUME IInv, SendEmailFails PROVE IInv'
<1> USE DEF IInv
<1>1. job.claim \in Claims /\ job'.pc = "NEXT" /\ faults' = faults + 1
  BY DEF SendEmailFails, TypeOK, Fault
<1>2. \A c \in Claims :
        \/ sent'[c] = sent[c]
        \/ c = job.claim /\ sent'[c] = sent[c] + 1
  BY DEF SendEmailFails, TypeOK
<1>3. TypeOK'
  <2>1. sent' \in [Claims -> Nat]
    BY <1>1 DEF SendEmailFails, TypeOK
  <2>2. faults' \in 0..MaxFaults
    BY DEF SendEmailFails, TypeOK, Fault
  <2>3. job' \in Jobs
    BY <1>1 DEF SendEmailFails, TypeOK, Jobs
  <2> QED
    BY <1>1, <2>1, <2>2, <2>3 DEF SendEmailFails, TypeOK, claimVars, Jobs
<1>4. JobOK'
  BY <1>1 DEF JobOK
<1>5. EmailsAccounted'
  <2>1. sent[job.claim] <= faults
    BY <1>1 DEF SendEmailFails, JobOK, EmailsAccounted
  <2>2. \A c \in Claims : sent'[c] <= faults + 1
    BY <1>1, <1>2, <2>1 DEF EmailsAccounted, TypeOK
  <2> QED
    BY <1>1, <1>3, <2>2 DEF EmailsAccounted, TypeOK
<1>6. RecordedOnce'
  BY DEF SendEmailFails, RecordedOnce
<1>7. OnlyAutoApprovedEmailed'
  BY <1>1, <1>2 DEF SendEmailFails, OnlyAutoApprovedEmailed, JobOK, Approved, HasEvent, TypeOK
<1> QED
  BY <1>3, <1>4, <1>5, <1>6, <1>7

(* The record takes over from the job. *)
LEMMA RecordEmailKeeps == ASSUME IInv, RecordEmail PROVE IInv'
<1> USE DEF IInv
<1> DEFINE e == Event("CLAIM_APPROVED_EMAIL", job.claim)
<1>1. /\ job.claim \in Claims /\ job'.pc = "NEXT" /\ history' = history \cup {e}
      /\ e.event = "CLAIM_APPROVED_EMAIL" /\ e.claim = job.claim /\ e.at = now
  BY DEF RecordEmail, TypeOK, Event
<1>2. TypeOK'
  <2>1. job' \in Jobs
    BY DEF RecordEmail, TypeOK, Jobs
  <2>2. e \in [event : {"POA_AUTO_APPROVED", "CLAIM_APPROVED_EMAIL"},
               claim : Claims \cup {NoClaim}, at : 0..LastTick]
    BY <1>1 DEF TypeOK, Event
  <2> QED
    BY <1>1, <2>1, <2>2 DEF RecordEmail, TypeOK, claimVars, Jobs
<1>3. \A c \in Claims : Recorded(c)' <=> Recorded(c) \/ c = job.claim
  BY <1>1 DEF Recorded, HasEvent
<1>4. \A c \in Claims : Approved(c) => Approved(c)'
  BY <1>1 DEF Approved, HasEvent
<1>5. JobOK'
  BY <1>1 DEF JobOK
<1>6. EmailsAccounted'
  BY <1>1, <1>3 DEF RecordEmail, EmailsAccounted
<1>7. RecordedOnce'
  <2>1. ~Recorded(job.claim)
    BY DEF RecordEmail, JobOK
  <2> QED
    BY <1>1, <2>1 DEF RecordedOnce, Recorded, HasEvent
<1>8. OnlyAutoApprovedEmailed'
  BY <1>4 DEF RecordEmail, OnlyAutoApprovedEmailed, Approved
<1> QED
  BY <1>2, <1>5, <1>6, <1>7, <1>8

(* A commit whose answer is lost recorded the email, or the fault has it. *)
LEMMA RecordEmailFailsKeeps == ASSUME IInv, RecordEmailFails PROVE IInv'
<1> USE DEF IInv
<1> DEFINE e == Event("CLAIM_APPROVED_EMAIL", job.claim)
<1>1. /\ job.claim \in Claims /\ faults' = faults + 1 /\ faults' \in 0..MaxFaults
      /\ e.event = "CLAIM_APPROVED_EMAIL" /\ e.claim = job.claim /\ e.at = now
  BY DEF RecordEmailFails, TypeOK, Fault, Event
<1>2. job' \in Jobs /\ job'.pc \notin {"SEND", "RECORD"}
  <2>1. CASE job' = CrashedRun
    BY <2>1, JobTypes
  <2>2. CASE job' = [job EXCEPT !.pc = "NEXT", !.claim = NoClaim, !.broken = TRUE,
                                !.failed = @ \cup {job.claim}]
    BY <1>1, <2>2 DEF TypeOK, Jobs
  <2> QED
    BY <2>1, <2>2 DEF RecordEmailFails
<1>3. e \in [event : {"POA_AUTO_APPROVED", "CLAIM_APPROVED_EMAIL"},
             claim : Claims \cup {NoClaim}, at : 0..LastTick]
  BY <1>1 DEF TypeOK, Event
<1>4. CASE UNCHANGED history
  <2>1. TypeOK'
    BY <1>1, <1>2, <1>4 DEF RecordEmailFails, TypeOK, claimVars, Jobs
  <2> QED
    BY <1>1, <1>2, <1>4, <2>1, FaultyStepKeeps DEF RecordEmailFails
<1>5. CASE history' = history \cup {e}
  <2>1. TypeOK'
    BY <1>1, <1>2, <1>3, <1>5 DEF RecordEmailFails, TypeOK, claimVars, Jobs
  <2>2. \A c \in Claims : Recorded(c)' <=> Recorded(c) \/ c = job.claim
    BY <1>1, <1>5 DEF Recorded, HasEvent
  <2>3. JobOK'
    BY <1>2 DEF JobOK
  <2>4. EmailsAccounted'
    BY <1>1, <1>2, <2>2 DEF RecordEmailFails, EmailsAccounted, TypeOK
  <2>5. RecordedOnce'
    <3>1. ~Recorded(job.claim)
      BY DEF RecordEmailFails, JobOK
    <3> QED
      BY <1>1, <1>5, <3>1 DEF RecordedOnce, Recorded, HasEvent
  <2>6. OnlyAutoApprovedEmailed'
    BY <1>5 DEF RecordEmailFails, OnlyAutoApprovedEmailed, HasEvent
  <2> QED
    BY <2>1, <2>3, <2>4, <2>5, <2>6
<1> QED
  BY <1>4, <1>5 DEF RecordEmailFails

(***************************************************************************)
(* The theorems                                                            *)
(***************************************************************************)
LEMMA StepKeeps == IInv /\ [Next]_vars => IInv'
<1> SUFFICES ASSUME IInv, [Next]_vars PROVE IInv'
  OBVIOUS
<1>1. CASE \E c \in Claims : RequestStep(c)
  BY <1>1, RequestStepKeeps
<1>2. CASE StartRun \/ EndRun \/ Restart \/ GiveUp \/ MissRun \/ Tick
  BY <1>2, RunStepKeeps
<1>3. CASE \E c \in Claims : TakeClaim(c) \/ TakeClaimFails(c) \/ TakeClaimBroken(c)
  BY <1>3, TakeClaimKeeps, TakeClaimFailsKeeps
<1>4. CASE SendEmail \/ SendEmailFails \/ RecordEmail \/ RecordEmailFails \/ Crash
  BY <1>4, SendEmailKeeps, SendEmailFailsKeeps, RecordEmailKeeps,
     RecordEmailFailsKeeps, CrashKeeps
<1>5. CASE UNCHANGED vars
  <2>1. TypeOK'
    BY <1>5 DEF IInv, TypeOK, vars
  <2> QED
    BY <1>5, <2>1, QuietStepKeeps DEF vars
<1> QED
  BY <1>1, <1>2, <1>3, <1>4, <1>5 DEF Next, JobStep

(* IInv holds throughout every run of the job and of the requests beside it. *)
THEOREM InductiveInvariant == Spec => []IInv
<1>1. Init => IInv
  BY InitEstablishes
<1>2. IInv /\ [Next]_vars => IInv'
  BY StepKeeps
<1> QED
  BY <1>1, <1>2, PTL DEF Spec

(* Every reachable state of the job, the claims and their history is well typed. *)
THEOREM TypeCorrect == Spec => []TypeOK
<1>1. IInv => TypeOK
  BY DEF IInv
<1> QED
  BY <1>1, InductiveInvariant, PTL

(* The job emails nobody about a claim that was not approved automatically. *)
THEOREM EmailsAreForAutoApprovals == Spec => []OnlyAutoApprovedEmailed
<1>1. IInv => OnlyAutoApprovedEmailed
  BY DEF IInv
<1> QED
  BY <1>1, InductiveInvariant, PTL

(* However runs crash, restart and lose answers, each email beyond the first *)
(* about a claim is the work of a fault, and one email at most is on record. *)
THEOREM DuplicatesNeedFaults == Spec => []EachDuplicateHasItsFault
<1>1. IInv => EachDuplicateHasItsFault
  BY DEF IInv, EmailsAccounted, RecordedOnce, EachDuplicateHasItsFault
<1> QED
  BY <1>1, InductiveInvariant, PTL

(***************************************************************************)
(* The job is a delivery: refinement of ApprovalDelivery                   *)
(***************************************************************************)
LEMMA PhaseIs ==
  \A c \in Claims :
    /\ Phase[c] = "RECORDED" <=> Recorded(c)
    /\ Phase[c] = "SENT" <=> ~Recorded(c) /\ Unrecorded(c)
    /\ Phase[c] = "OWED" <=> ~Recorded(c) /\ ~Unrecorded(c) /\ Approved(c)
    /\ Phase[c] = "NONE" <=> ~Recorded(c) /\ ~Unrecorded(c) /\ ~Approved(c)
  BY DEF Phase, Recorded, Approved

(* The phases of the next state, from what the step does to history and job. *)
LEMMA PhaseKept ==
  ASSUME NEW S \in SUBSET Claims,
         \A c \in S : /\ Recorded(c)' <=> Recorded(c)
                      /\ Approved(c)' <=> Approved(c)
                      /\ Unrecorded(c)' <=> Unrecorded(c)
  PROVE  \A c \in S : Phase'[c] = Phase[c]
  BY DEF Phase, Recorded, Approved

LEMMA PhaseMoves ==
  ASSUME NEW c \in Claims, NEW to, Phase'[c] = to,
         \A d \in Claims \ {c} : Phase'[d] = Phase[d]
  PROVE  Phase' = [Phase EXCEPT ![c] = to]
  BY DEF Phase

LEMMA PhaseStays ==
  ASSUME \A c \in Claims : Phase'[c] = Phase[c] PROVE Phase' = Phase
  BY DEF Phase

(* A step that moves no claim's email: a stutter, or a fault without effect. *)
LEMMA QuietStepMaps ==
  ASSUME sent' = sent, history' = history,
         \A c \in Claims : Unrecorded(c)' <=> Unrecorded(c),
         faults' = faults \/ faults' = faults + 1
  PROVE  [Delivery!Next]_(Delivery!vars)
<1>1. \A c \in Claims : Phase'[c] = Phase[c]
  BY PhaseKept DEF Recorded, Approved, HasEvent
<1>2. Phase' = Phase
  BY <1>1, PhaseStays
<1> QED
  BY <1>2 DEF Delivery!Next, Delivery!Fault, Delivery!vars

(* The requests approve, and whatever else they record is no claim's email. *)
LEMMA RequestMaps ==
  ASSUME IInv, NEW c \in Claims, RequestStep(c)
  PROVE  [Delivery!Next]_(Delivery!vars)
<1>1. CASE Submit(c) \/ LeaveToCaseworker(c) \/ Reject(c)
  BY <1>1, QuietStepMaps DEF Submit, LeaveToCaseworker, Reject, Unrecorded
<1>2. CASE CaseworkerPays(c)
  <2>1. \A d \in Claims : /\ Recorded(d)' <=> Recorded(d)
                          /\ Approved(d)' <=> Approved(d)
                          /\ Unrecorded(d)' <=> Unrecorded(d)
    BY <1>2 DEF CaseworkerPays, Event, Recorded, Approved, HasEvent, Unrecorded
  <2>2. Phase' = Phase
    BY <2>1, PhaseKept, PhaseStays
  <2> QED
    BY <1>2, <2>2 DEF CaseworkerPays, Delivery!vars
<1>3. CASE AutoApprove(c)
  <2> DEFINE e == Event("POA_AUTO_APPROVED", c)
  <2>0. e.event = "POA_AUTO_APPROVED" /\ e.claim = c
    BY DEF Event
  <2>1. \A d \in Claims : /\ Recorded(d)' <=> Recorded(d)
                          /\ Unrecorded(d)' <=> Unrecorded(d)
                          /\ Approved(d)' <=> Approved(d) \/ d = c
    <3>1. history' = history \cup {e}
      BY <1>3 DEF AutoApprove
    <3>2. job' = job
      BY <1>3 DEF AutoApprove
    <3> HIDE DEF e
    <3>3. \A d \in Claims : (Recorded(d)' <=> Recorded(d)) /\ (Unrecorded(d)' <=> Unrecorded(d))
      BY <2>0, <3>1, <3>2 DEF Recorded, HasEvent, Unrecorded
    <3>4. \A d \in Claims : Approved(d)' <=> Approved(d) \/ d = c
      BY <2>0, <3>1 DEF Approved, HasEvent
    <3> QED
      BY <3>3, <3>4
  <2>2. \A d \in Claims \ {c} : Phase'[d] = Phase[d]
    BY <2>1, PhaseKept
  <2>3. CASE Phase[c] = "NONE"
    <3>1. Phase'[c] = "OWED"
      BY <2>1, <2>3, PhaseIs DEF Phase, Recorded, Approved
    <3>2. Phase' = [Phase EXCEPT ![c] = "OWED"]
      BY <2>2, <3>1, PhaseMoves
    <3> QED
      BY <1>3, <2>3, <3>2 DEF AutoApprove, Delivery!Next, Delivery!Approve, Delivery!Move
  <2>4. CASE Phase[c] # "NONE"
    <3>1. Phase'[c] = Phase[c]
      BY <2>1, <2>4 DEF Phase, Recorded, Approved
    <3>2. Phase' = Phase
      BY <2>2, <3>1, PhaseStays
    <3> QED
      BY <1>3, <3>2 DEF AutoApprove, Delivery!vars
  <2> QED
    BY <2>3, <2>4
<1> QED
  BY <1>1, <1>2, <1>3 DEF RequestStep

(* An email that is accepted: from owed to sent, or lost with its answer. *)
LEMMA SendMaps ==
  ASSUME IInv, SendEmail \/ SendEmailFails
  PROVE  [Delivery!Next]_(Delivery!vars)
<1> DEFINE c == job.claim
<1>1. c \in Claims /\ Phase[c] = "OWED" /\ \A d \in Claims : ~Unrecorded(d)
  BY PhaseIs DEF IInv, JobOK, TypeOK, SendEmail, SendEmailFails, Unrecorded
<1>2. \A d \in Claims : Phase[d] # "SENT"
  BY <1>1, PhaseIs
<1>3. \A d \in Claims : (Recorded(d)' <=> Recorded(d)) /\ (Approved(d)' <=> Approved(d))
  BY DEF SendEmail, SendEmailFails, Recorded, Approved, HasEvent
<1>4. job \in Jobs
  BY DEF IInv, TypeOK, Jobs
<1>5. CASE SendEmail
  <2>1. job'.pc = "RECORD" /\ job'.claim = c
    BY <1>4, <1>5 DEF SendEmail, Jobs
  <2>2. \A d \in Claims \ {c} : Phase'[d] = Phase[d]
    BY <1>1, <1>3, <2>1, PhaseKept DEF Unrecorded
  <2>3. Phase'[c] = "SENT"
    BY <1>1, <1>3, <2>1, PhaseIs DEF Phase, Unrecorded, Recorded
  <2>4. Phase' = [Phase EXCEPT ![c] = "SENT"]
    BY <1>1, <2>2, <2>3, PhaseMoves
  <2>5. Delivery!Send(c)
    BY <1>1, <1>2, <1>5, <2>4 DEF SendEmail, Delivery!Send, Delivery!Move, Delivery!Count
  <2> QED
    BY <1>1, <2>5 DEF Delivery!Next
<1>6. CASE SendEmailFails
  <2>1. job'.pc = "NEXT"
    BY <1>4, <1>6 DEF SendEmailFails, Jobs
  <2>2. Phase' = Phase
    BY <1>1, <1>3, <2>1, PhaseKept, PhaseStays DEF Unrecorded
  <2>3. faults' = faults + 1
    BY <1>6 DEF SendEmailFails, Fault
  <2>4. Delivery!Fault
    BY <1>1, <1>6, <2>2, <2>3 DEF SendEmailFails, Delivery!Fault, Delivery!Count
  <2> QED
    BY <2>4 DEF Delivery!Next
<1> QED
  BY <1>5, <1>6

(* An accepted email is recorded, or a fault loses it, or only the answer. *)
LEMMA RecordMaps ==
  ASSUME IInv, RecordEmail \/ RecordEmailFails \/ (Crash /\ job.pc = "RECORD")
  PROVE  [Delivery!Next]_(Delivery!vars)
<1> DEFINE c == job.claim
           e == Event("CLAIM_APPROVED_EMAIL", c)
<1>1. job \in Jobs /\ job.pc = "RECORD" /\ c \in Claims
  BY DEF IInv, TypeOK, Jobs, RecordEmail, RecordEmailFails
<1>2. Phase[c] = "SENT" /\ Approved(c)
  BY <1>1, PhaseIs DEF IInv, JobOK, Unrecorded
<1>3. job'.pc # "RECORD"
  <2>1. CASE job' = CrashedRun
    BY <2>1, JobTypes
  <2>2. CASE RecordEmail
    BY <1>1, <2>2 DEF RecordEmail, Jobs
  <2>3. CASE job' = [job EXCEPT !.pc = "NEXT", !.claim = NoClaim, !.broken = TRUE,
                                !.failed = @ \cup {job.claim}]
    BY <1>1, <2>3 DEF Jobs
  <2> QED
    BY <2>1, <2>2, <2>3 DEF RecordEmailFails, Crash
<1>4. \A d \in Claims : ~Unrecorded(d)'
  BY <1>3 DEF Unrecorded
<1>5. \A d \in Claims \ {c} : ~Unrecorded(d)
  BY DEF Unrecorded
<1>6. sent' = sent
  BY DEF RecordEmail, RecordEmailFails, Crash
<1>7. CASE history' = history /\ faults' = faults + 1
  <2>1. \A d \in Claims : (Recorded(d)' <=> Recorded(d)) /\ (Approved(d)' <=> Approved(d))
    BY <1>7 DEF Recorded, Approved, HasEvent
  <2>2. \A d \in Claims \ {c} : Phase'[d] = Phase[d]
    BY <1>4, <1>5, <2>1, PhaseKept
  <2>3. Phase'[c] = "OWED"
    BY <1>1, <1>2, <1>4, <2>1, PhaseIs DEF Phase, Recorded, Approved
  <2>4. Phase' = [Phase EXCEPT ![c] = "OWED"]
    BY <1>1, <2>2, <2>3, PhaseMoves
  <2> QED
    BY <1>1, <1>2, <1>6, <1>7, <2>4 DEF Delivery!Next, Delivery!Fault, Delivery!Move
<1>8. CASE history' = history \cup {e} /\ (faults' = faults \/ faults' = faults + 1)
  <2>1. e.event = "CLAIM_APPROVED_EMAIL" /\ e.claim = c
    BY DEF Event
  <2>2. \A d \in Claims : /\ Recorded(d)' <=> Recorded(d) \/ d = c
                          /\ Approved(d)' <=> Approved(d)
    BY <1>1, <1>8, <2>1 DEF Recorded, Approved, HasEvent
  <2>3. \A d \in Claims \ {c} : Phase'[d] = Phase[d]
    BY <1>4, <1>5, <2>2, PhaseKept
  <2>4. Phase'[c] = "RECORDED"
    BY <1>1, <2>2 DEF Phase, Recorded
  <2>5. Phase' = [Phase EXCEPT ![c] = "RECORDED"]
    BY <1>1, <2>3, <2>4, PhaseMoves
  <2> QED
    BY <1>1, <1>2, <1>6, <1>8, <2>5
       DEF Delivery!Next, Delivery!Fault, Delivery!Record, Delivery!Move
<1> QED
  BY <1>7, <1>8 DEF RecordEmail, RecordEmailFails, Crash, Fault

(* Every other step of the job has no email in hand before or after it. *)
LEMMA OtherRunStepMaps ==
  ASSUME IInv, job.pc # "RECORD", job'.pc # "RECORD", sent' = sent, history' = history,
         faults' = faults \/ faults' = faults + 1
  PROVE  [Delivery!Next]_(Delivery!vars)
  BY QuietStepMaps DEF Unrecorded

LEMMA StepDelivers ==
  ASSUME IInv, [Next]_vars PROVE [Delivery!Next]_(Delivery!vars)
<1>0. job \in Jobs
  BY DEF IInv, TypeOK, Jobs
<1>1. CASE UNCHANGED vars
  BY <1>1, QuietStepMaps DEF vars, Unrecorded
<1>2. CASE \E c \in Claims : RequestStep(c)
  BY <1>2, RequestMaps
<1>3. CASE SendEmail \/ SendEmailFails
  BY <1>3, SendMaps
<1>4. CASE RecordEmail \/ RecordEmailFails \/ (Crash /\ job.pc = "RECORD")
  BY <1>4, RecordMaps
<1>5. CASE Crash /\ job.pc # "RECORD"
  BY <1>5, JobTypes, OtherRunStepMaps DEF Crash, Fault
<1>6. CASE StartRun \/ EndRun \/ Restart \/ GiveUp
  BY <1>6, JobTypes, OtherRunStepMaps DEF StartRun, EndRun, Restart, GiveUp, Fault
<1>7. CASE MissRun \/ Tick
  BY <1>7, QuietStepMaps DEF MissRun, Tick, Fault, Unrecorded
<1>8. ASSUME NEW c \in Claims, TakeClaim(c) \/ TakeClaimFails(c) \/ TakeClaimBroken(c)
      PROVE  [Delivery!Next]_(Delivery!vars)
  <2>1. CASE TakeClaim(c)
    <3>1. job'.pc \in {"SEND", "NEXT"}
      BY <1>0, <2>1 DEF TakeClaim, Jobs
    <3> QED
      BY <2>1, <3>1, OtherRunStepMaps DEF TakeClaim
  <2>2. CASE TakeClaimFails(c)
    <3>1. job'.pc \in {"NEXT", "CRASHED"}
      BY <1>0, <2>2, JobTypes DEF TakeClaimFails, Jobs
    <3> QED
      BY <2>2, <3>1, OtherRunStepMaps DEF TakeClaimFails, Fault
  <2>3. CASE TakeClaimBroken(c)
    <3>1. job'.pc \in {"NEXT", "CRASHED"}
      BY <1>0, <2>3, JobTypes DEF TakeClaimBroken, Jobs
    <3> QED
      BY <2>3, <3>1, OtherRunStepMaps DEF TakeClaimBroken
  <2> QED
    BY <1>8, <2>1, <2>2, <2>3
<1> QED
  BY <1>1, <1>2, <1>3, <1>4, <1>5, <1>6, <1>7, <1>8 DEF Next, JobStep

(* Whatever runs overlap, break, restart or are missed: the job sends only   *)
(* what is owed and holds one unrecorded email at a time, a record is for    *)
(* good, and only a fault, each for one claim, sends an email back to owed.  *)
THEOREM RefinesDelivery == Spec => ImplementsDelivery
<1>1. Init => Delivery!Init
  BY DEF Init, Delivery!Init, Phase, Unrecorded, HasEvent, IdleJob
<1>2. IInv /\ [Next]_vars => [Delivery!Next]_(Delivery!vars)
  BY StepDelivers
<1> QED
  BY <1>1, <1>2, InductiveInvariant, PTL DEF Spec, ImplementsDelivery, Delivery!Spec

(***************************************************************************)
(* Every morning counts: a claim that is not emailed in time               *)
(***************************************************************************)
IsApproval(e, c) == e.event = "POA_AUTO_APPROVED" /\ e.claim = c

(* A claim is approved at most once, after its submission, and stays paid. *)
ApprovalsOK ==
  /\ \A c \in deciding : ~Approved(c) /\ status[c] # "NONE" /\ submitted[c] \in 0..now
  /\ \A c \in Claims, e \in history :
       IsApproval(e, c) => /\ status[c] = "PAY_IN_FULL"
                           /\ submitted[c] \in 0..now /\ submitted[c] <= e.at /\ e.at <= now
                           /\ \A d \in history : IsApproval(d, c) => d = e

(* The job has still to email c, as far as it knows. *)
Pending(c) ==
  \/ c \in job.todo /\ ~job.broken /\ job.pc \in {"NEXT", "SEND", "RECORD"}
  \/ job.pc = "SEND" /\ job.claim = c

(* A run is over before the next tick, and takes only claims in the window. *)
RunOK ==
  /\ lastRun <= now
  /\ job.pc # "IDLE" => lastRun = now
  /\ job.pc = "IDLE" => job = IdleJob
  /\ job.pc = "RECORD" => sent[job.claim] > 0
  /\ \A c \in Claims : Recorded(c) => sent[c] > 0
  /\ \A c \in Claims :
       c \in job.todo \/ (job.pc = "SEND" /\ job.claim = c)
         => status[c] = "PAY_IN_FULL" /\ now <= Deadline(c)

(* The runs that could have sent an email approved at a for a claim submitted *)
(* at s, of those that were due by now and have started or were missed.       *)
RunsSince(a, s, at, last) ==
  {t \in 0..LastTick : /\ t % Day = 0 /\ a < t /\ t <= s + 2 * Day
                       /\ t < at \/ (t = at /\ last = at)}

ApprovalIn(events, c) ==
  CHOOSE t \in 0..LastTick : \E e \in events : IsApproval(e, c) /\ e.at = t

PassedRuns(c) == RunsSince(ApprovalIn(history, c), submitted[c], now, lastRun)

(* Each of those runs has had its fault, but for the one still at work. *)
MissesHaveFaults ==
  \A c \in Claims :
    Approved(c) /\ sent[c] = 0 =>
      \/ Cardinality(PassedRuns(c)) <= faults
      \/ Pending(c) /\ Cardinality(PassedRuns(c)) <= faults + 1

WindowInv == IInv /\ ApprovalsOK /\ RunOK /\ MissesHaveFaults

LEMMA InitWindow == Init => WindowInv
<1> SUFFICES ASSUME Init PROVE WindowInv
  OBVIOUS
<1>1. IInv
  BY InitEstablishes
<1>2. ApprovalsOK /\ MissesHaveFaults
  BY DEF Init, ApprovalsOK, MissesHaveFaults, Approved, HasEvent
<1>3. RunOK
  BY DEF Init, RunOK, IdleJob, Recorded, HasEvent, Never
<1> QED
  BY <1>1, <1>2, <1>3 DEF WindowInv

(* The approval of a claim that is approved is the one in its history. *)
LEMMA ApprovalInIs ==
  ASSUME NEW events, NEW c, NEW e \in events, IsApproval(e, c), e.at \in 0..LastTick,
         \A d \in events : IsApproval(d, c) => d = e
  PROVE  ApprovalIn(events, c) = e.at
  BY DEF ApprovalIn

LEMMA RunsSinceType ==
  ASSUME NEW a, NEW s, NEW at, NEW last
  PROVE  /\ IsFiniteSet(RunsSince(a, s, at, last))
         /\ Cardinality(RunsSince(a, s, at, last)) \in Nat
<1>1. IsFiniteSet(0..LastTick)
  BY FS_Interval
<1>2. RunsSince(a, s, at, last) \subseteq 0..LastTick
  BY DEF RunsSince
<1> QED
  BY <1>1, <1>2, FS_Subset, FS_CardinalityType

(* Steps that approve no claim keep what is known of the approvals. *)
LEMMA ApprovalsKept ==
  ASSUME IInv, ApprovalsOK, now' \in {now, now + 1},
         history \subseteq history',
         \A e \in history' \ history : e.event # "POA_AUTO_APPROVED",
         deciding' \subseteq deciding,
         submitted' = submitted,
         \A c \in Claims : /\ status[c] = "PAY_IN_FULL" => status'[c] = "PAY_IN_FULL"
                           /\ status[c] # "NONE" => status'[c] # "NONE"
  PROVE  ApprovalsOK'
<1>1. \A c : \A e \in history' : IsApproval(e, c) => e \in history
  BY DEF IsApproval
<1>2. \A c \in Claims : Approved(c)' <=> Approved(c)
  BY <1>1 DEF Approved, HasEvent, IsApproval
<1>3. now \in Nat /\ deciding \subseteq Claims /\ \A e \in history : e.at \in Nat
  BY DEF IInv, TypeOK
<1>4. \A c \in deciding' : ~Approved(c)' /\ status'[c] # "NONE" /\ submitted'[c] \in 0..now'
  BY <1>2, <1>3 DEF ApprovalsOK
<1>5. ASSUME NEW c \in Claims, NEW e \in history', IsApproval(e, c)
      PROVE  /\ status'[c] = "PAY_IN_FULL"
             /\ submitted'[c] \in 0..now' /\ submitted'[c] <= e.at /\ e.at <= now'
             /\ \A d \in history' : IsApproval(d, c) => d = e
  BY <1>1, <1>3, <1>5 DEF ApprovalsOK
<1> QED
  BY <1>4, <1>5 DEF ApprovalsOK

(* Steps that neither move the clock nor start or miss a run. *)
LEMMA MissesKept ==
  ASSUME WindowInv, now' = now, lastRun' = lastRun, faults' \in Nat,
         history \subseteq history',
         \A e \in history' \ history : e.event # "POA_AUTO_APPROVED",
         \A c \in Claims : Approved(c) => submitted'[c] = submitted[c],
         \A c \in Claims : Approved(c) /\ sent'[c] = 0 =>
           /\ sent[c] = 0
           /\ faults' = faults + 1 \/ (faults' = faults /\ (Pending(c) => Pending(c)'))
  PROVE  MissesHaveFaults'
<1> SUFFICES ASSUME NEW c \in Claims, Approved(c)', sent'[c] = 0
             PROVE  \/ Cardinality(PassedRuns(c)') <= faults'
                    \/ Pending(c)' /\ Cardinality(PassedRuns(c)') <= faults' + 1
  BY DEF MissesHaveFaults
<1>1. \A e \in history' : IsApproval(e, c) <=> e \in history /\ IsApproval(e, c)
  BY DEF IsApproval
<1>2. PICK e \in history : IsApproval(e, c)
  BY <1>1 DEF Approved, HasEvent, IsApproval
<1>3. Approved(c)
  BY <1>2 DEF Approved, HasEvent, IsApproval
<1>4. e.at \in 0..LastTick /\ \A d \in history : IsApproval(d, c) => d = e
  BY <1>2 DEF WindowInv, IInv, TypeOK, ApprovalsOK
<1>5. ApprovalIn(history, c) = e.at /\ ApprovalIn(history', c) = e.at
  BY <1>1, <1>2, <1>4, ApprovalInIs
<1>6. PassedRuns(c)' = PassedRuns(c)
  BY <1>3, <1>5 DEF PassedRuns
<1>7. Cardinality(PassedRuns(c)) \in Nat /\ faults \in Nat
  BY RunsSinceType DEF PassedRuns, WindowInv, IInv, TypeOK
<1> QED
  BY <1>3, <1>6, <1>7 DEF MissesHaveFaults, WindowInv

(* Requests leave the job, the emails and the paid claims alone. *)
LEMMA RunKept ==
  ASSUME WindowInv, now' = now, lastRun' = lastRun, job' = job, sent' = sent,
         \A c \in Claims : Recorded(c)' <=> Recorded(c),
         \A c \in Claims : status[c] = "PAY_IN_FULL" =>
           status'[c] = "PAY_IN_FULL" /\ submitted'[c] = submitted[c]
  PROVE  RunOK'
<1>1. job.todo \subseteq Claims /\ (job.pc = "SEND" => job.claim \in Claims)
  BY DEF WindowInv, IInv, TypeOK
<1> QED
  BY <1>1 DEF WindowInv, RunOK, Deadline

LEMMA SubmitKeepsWindow ==
  ASSUME WindowInv, NEW c \in Claims, Submit(c), IInv'
  PROVE  WindowInv'
<1> USE DEF WindowInv
<1>1. /\ now' = now /\ lastRun' = lastRun /\ job' = job /\ sent' = sent
      /\ history' = history /\ faults' = faults /\ deciding' = deciding \cup {c}
      /\ status[c] = "NONE"
  BY DEF Submit
<1>2. \A d \in Claims : /\ status'[d] = IF d = c THEN "SUBMITTED" ELSE status[d]
                        /\ submitted'[d] = IF d = c THEN now ELSE submitted[d]
  BY DEF Submit, IInv, TypeOK
<1>3. \A d \in Claims : Approved(d)' <=> Approved(d)
  BY <1>1 DEF Approved, HasEvent
<1>4. \A d \in Claims : Approved(d) => d # c
  BY <1>1 DEF ApprovalsOK, Approved, HasEvent, IsApproval
<1>5. ApprovalsOK'
  <2>1. now \in Nat /\ deciding \subseteq Claims
    BY DEF IInv, TypeOK
  <2>2. \A d \in deciding' : ~Approved(d)' /\ status'[d] # "NONE" /\ submitted'[d] \in 0..now'
    BY <1>1, <1>2, <1>3, <1>4, <2>1 DEF ApprovalsOK
  <2>3. \A d \in Claims, e \in history' : IsApproval(e, d) => d # c
    BY <1>1, <1>4 DEF Approved, HasEvent, IsApproval
  <2> QED
    BY <1>1, <1>2, <2>2, <2>3 DEF ApprovalsOK
<1>6. RunOK'
  <2>1. \A d \in Claims : Recorded(d)' <=> Recorded(d)
    BY <1>1 DEF Recorded, HasEvent
  <2>2. \A d \in Claims : status[d] = "PAY_IN_FULL" =>
          status'[d] = "PAY_IN_FULL" /\ submitted'[d] = submitted[d]
    BY <1>1, <1>2
  <2> QED
    BY <1>1, <2>1, <2>2, RunKept
<1>7. MissesHaveFaults'
  <2>1. \A d \in Claims : Approved(d) => submitted'[d] = submitted[d]
    BY <1>2, <1>4
  <2>2. \A d \in Claims : Pending(d)' <=> Pending(d)
    BY <1>1 DEF Pending
  <2>3. faults' \in Nat
    BY DEF IInv, TypeOK
  <2> QED
    BY <1>1, <2>1, <2>2, <2>3, MissesKept
<1> QED
  BY <1>5, <1>6, <1>7

(* No run has passed since an approval of this very tick. *)
LEMMA AutoApproveKeepsWindow ==
  ASSUME WindowInv, NEW c \in Claims, AutoApprove(c), IInv'
  PROVE  WindowInv'
<1> USE DEF WindowInv
<1> DEFINE e == Event("POA_AUTO_APPROVED", c)
<1>1. /\ now' = now /\ lastRun' = lastRun /\ job' = job /\ sent' = sent
      /\ submitted' = submitted /\ faults' = faults /\ deciding' = deciding \ {c}
      /\ c \in deciding /\ history' = history \cup {e}
      /\ e.event = "POA_AUTO_APPROVED" /\ e.claim = c /\ e.at = now
  BY DEF AutoApprove, Event
<1>2. \A d \in Claims : status'[d] = IF d = c THEN "PAY_IN_FULL" ELSE status[d]
  BY DEF AutoApprove, IInv, TypeOK
<1>3. \A f \in history : ~IsApproval(f, c)
  BY <1>1 DEF ApprovalsOK, Approved, HasEvent, IsApproval
<1>4. \A d \in Claims : \A f \in history' :
        IsApproval(f, d) <=> (f \in history /\ d # c /\ IsApproval(f, d)) \/ (d = c /\ f = e)
  BY <1>1, <1>3 DEF IsApproval
<1>5. now \in 0..LastTick /\ deciding \subseteq Claims /\ submitted[c] \in 0..now
  BY <1>1 DEF IInv, TypeOK, ApprovalsOK
<1>6. ApprovalsOK'
  <2>1. \A d \in Claims : d # c => (Approved(d)' <=> Approved(d))
    BY <1>1 DEF Approved, HasEvent
  <2>2. \A d \in deciding' : ~Approved(d)' /\ status'[d] # "NONE" /\ submitted'[d] \in 0..now'
    BY <1>1, <1>2, <1>5, <2>1 DEF ApprovalsOK
  <2>3. ASSUME NEW d \in Claims, NEW f \in history', IsApproval(f, d)
        PROVE  /\ status'[d] = "PAY_IN_FULL"
               /\ submitted'[d] \in 0..now' /\ submitted'[d] <= f.at /\ f.at <= now'
               /\ \A g \in history' : IsApproval(g, d) => g = f
    <3>1. CASE d = c
      BY <1>1, <1>2, <1>4, <1>5, <2>3, <3>1
    <3>2. CASE d # c
      BY <1>1, <1>2, <1>4, <2>3, <3>2 DEF ApprovalsOK
    <3> QED
      BY <3>1, <3>2
  <2> QED
    BY <2>2, <2>3 DEF ApprovalsOK
<1>7. RunOK'
  <2>1. \A d \in Claims : Recorded(d)' <=> Recorded(d)
    BY <1>1 DEF Recorded, HasEvent
  <2>2. \A d \in Claims : status[d] = "PAY_IN_FULL" =>
          status'[d] = "PAY_IN_FULL" /\ submitted'[d] = submitted[d]
    BY <1>1, <1>2
  <2> QED
    BY <1>1, <2>1, <2>2, RunKept
<1>8. MissesHaveFaults'
  <2> SUFFICES ASSUME NEW d \in Claims, Approved(d)', sent'[d] = 0
               PROVE  \/ Cardinality(PassedRuns(d)') <= faults'
                      \/ Pending(d)' /\ Cardinality(PassedRuns(d)') <= faults' + 1
    BY DEF MissesHaveFaults
  <2>1. CASE d = c
    <3>1. e \in history' /\ IsApproval(e, c) /\ \A f \in history' : IsApproval(f, c) => f = e
      BY <1>1, <1>4
    <3>2. ApprovalIn(history', c) = now
      BY <1>1, <1>5, <3>1, ApprovalInIs
    <3>3. PassedRuns(c)' = {}
      BY <1>1, <1>5, <3>2 DEF PassedRuns, RunsSince
    <3> QED
      BY <1>1, <2>1, <3>3, FS_EmptySet DEF IInv, TypeOK
  <2>2. CASE d # c
    <3>1. Approved(d)
      BY <1>1, <2>2 DEF Approved, HasEvent
    <3>2. PICK f \in history : IsApproval(f, d)
      BY <3>1 DEF Approved, HasEvent, IsApproval
    <3>3. f.at \in 0..LastTick /\ f \in history' /\ \A g \in history : IsApproval(g, d) => g = f
      BY <1>1, <3>2 DEF IInv, TypeOK, ApprovalsOK
    <3>4. \A g \in history' : IsApproval(g, d) => g = f
      BY <1>4, <2>2, <3>3
    <3>5. ApprovalIn(history, d) = f.at /\ ApprovalIn(history', d) = f.at
      BY <3>2, <3>3, <3>4, ApprovalInIs
    <3>6. PassedRuns(d)' = PassedRuns(d)
      BY <1>1, <3>5 DEF PassedRuns
    <3> QED
      BY <1>1, <3>1, <3>6 DEF MissesHaveFaults, Pending
  <2> QED
    BY <2>1, <2>2
<1> QED
  BY <1>6, <1>7, <1>8

LEMMA OtherRequestKeepsWindow ==
  ASSUME WindowInv, NEW c \in Claims, IInv',
         LeaveToCaseworker(c) \/ Reject(c) \/ CaseworkerPays(c)
  PROVE  WindowInv'
<1> USE DEF WindowInv
<1>1. /\ now' = now /\ lastRun' = lastRun /\ job' = job /\ sent' = sent
      /\ submitted' = submitted /\ faults' = faults /\ deciding' \subseteq deciding
      /\ history \subseteq history'
  BY DEF LeaveToCaseworker, Reject, CaseworkerPays
<1>2. \A e \in history' \ history : e.event = "CLAIM_APPROVED_EMAIL" /\ e.claim = NoClaim
  BY DEF LeaveToCaseworker, Reject, CaseworkerPays, Event
<1>3. \A d \in Claims : /\ status[d] = "PAY_IN_FULL" => status'[d] = "PAY_IN_FULL"
                        /\ status[d] # "NONE" => status'[d] # "NONE"
  BY DEF LeaveToCaseworker, Reject, CaseworkerPays, IInv, TypeOK
<1>4. ApprovalsOK'
  BY <1>1, <1>2, <1>3, ApprovalsKept
<1>5. RunOK'
  <2>1. \A d \in Claims : Recorded(d)' <=> Recorded(d)
    BY <1>1, <1>2 DEF Recorded, HasEvent
  <2> QED
    BY <1>1, <1>3, <2>1, RunKept
<1>6. MissesHaveFaults'
  <2>1. \A d \in Claims : Pending(d)' <=> Pending(d)
    BY <1>1 DEF Pending
  <2>2. faults' \in Nat
    BY DEF IInv, TypeOK
  <2> QED
    BY <1>1, <1>2, <2>1, <2>2, MissesKept
<1> QED
  BY <1>4, <1>5, <1>6

(* What the inductive invariant says of the approval of a claim. *)
LEMMA ApprovalOf ==
  ASSUME IInv, ApprovalsOK, NEW c \in Claims, Approved(c)
  PROVE  /\ status[c] = "PAY_IN_FULL" /\ submitted[c] \in Nat
         /\ ApprovalIn(history, c) \in 0..LastTick /\ submitted[c] <= ApprovalIn(history, c)
<1>1. PICK e \in history : IsApproval(e, c)
  BY DEF Approved, HasEvent, IsApproval
<1>2. e.at \in 0..LastTick /\ \A d \in history : IsApproval(d, c) => d = e
  BY <1>1 DEF IInv, TypeOK, ApprovalsOK
<1>3. ApprovalIn(history, c) = e.at
  BY <1>1, <1>2, ApprovalInIs
<1> QED
  BY <1>1, <1>2, <1>3 DEF ApprovalsOK

(* A step of the job within the tick of its run. *)
LEMMA RunMoves ==
  ASSUME WindowInv, now' = now, lastRun' = now, UNCHANGED claimVars,
         history \subseteq history',
         \A e \in history' \ history : e.event # "POA_AUTO_APPROVED",
         \A c \in Claims : Recorded(c)' => sent'[c] > 0,
         job'.pc = "IDLE" => job' = IdleJob,
         job'.pc = "RECORD" => sent'[job'.claim] > 0,
         \A c \in Claims : c \in job'.todo \/ (job'.pc = "SEND" /\ job'.claim = c) =>
           c \in job.todo \/ (job.pc = "SEND" /\ job.claim = c) \/ c \in Listed
  PROVE  ApprovalsOK' /\ RunOK'
<1>1. ApprovalsOK'
  BY ApprovalsKept DEF WindowInv, claimVars
<1>2. \A c \in Listed : status[c] = "PAY_IN_FULL" /\ now <= Deadline(c)
  BY DEF Listed, Deadline, WINDOW, WindowInv, IInv, TypeOK, Never
<1>3. now \in Nat
  BY DEF WindowInv, IInv, TypeOK
<1> QED
  BY <1>1, <1>2, <1>3 DEF WindowInv, RunOK, Deadline, claimVars

(* A run that is due has passed when it starts or is missed, and not before. *)
LEMMA RunPasses ==
  ASSUME NEW a \in Nat, NEW s \in Int, NEW at \in Nat, NEW last \in Int
  PROVE  /\ Cardinality(RunsSince(a, s, at, at)) <= Cardinality(RunsSince(a, s, at, last)) + 1
         /\ ~(a < at /\ at <= s + 2 * Day) =>
              RunsSince(a, s, at, at) = RunsSince(a, s, at, last)
<1> DEFINE R == RunsSince(a, s, at, last)
<1> DEFINE Q == RunsSince(a, s, at, at)
<1>1. ~(a < at /\ at <= s + 2 * Day) => Q = R
  BY DEF RunsSince
<1>2. Q \subseteq R \cup {at}
  BY DEF RunsSince
<1>3. IsFiniteSet(R) /\ Cardinality(R) \in Nat /\ IsFiniteSet(Q) /\ Cardinality(Q) \in Nat
  BY RunsSinceType
<1> HIDE DEF R, Q
<1>4. IsFiniteSet(R \cup {at}) /\ Cardinality(R \cup {at}) <= Cardinality(R) + 1
  <2>1. /\ IsFiniteSet(R \cup {at})
        /\ Cardinality(R \cup {at}) = IF at \in R THEN Cardinality(R) ELSE Cardinality(R) + 1
    BY <1>3, FS_AddElement
  <2> QED
    BY <1>3, <2>1
<1>5. Cardinality(Q) <= Cardinality(R \cup {at})
  BY <1>2, <1>4, FS_Subset
<1>6. Cardinality(R \cup {at}) \in Nat
  BY <1>4, FS_CardinalityType
<1> QED
  BY <1>1, <1>3, <1>4, <1>5, <1>6 DEF R, Q

(* Whoever a run that starts could have sent an email is on its list. *)
LEMMA StartRunKeepsWindow ==
  ASSUME WindowInv, StartRun, IInv'
  PROVE  WindowInv'
<1> USE DEF WindowInv
<1>1. /\ now' = now /\ lastRun' = now /\ UNCHANGED claimVars /\ history' = history
      /\ sent' = sent /\ faults' = faults /\ job = IdleJob /\ job' = NewRun
  BY DEF StartRun
<1>2. NewRun.pc = "NEXT" /\ NewRun.todo = Listed /\ ~NewRun.broken
      /\ IdleJob.pc = "IDLE" /\ IdleJob.todo = {}
  BY DEF NewRun, IdleJob
<1>3. \A c \in Claims : Recorded(c)' => sent'[c] > 0
  BY <1>1 DEF RunOK, Recorded, HasEvent
<1>4. ApprovalsOK' /\ RunOK'
  BY <1>1, <1>2, <1>3, RunMoves
<1>5. MissesHaveFaults'
  <2> SUFFICES ASSUME NEW c \in Claims, Approved(c)', sent'[c] = 0
               PROVE  \/ Cardinality(PassedRuns(c)') <= faults'
                      \/ Pending(c)' /\ Cardinality(PassedRuns(c)') <= faults' + 1
    BY DEF MissesHaveFaults
  <2>1. Approved(c) /\ submitted'[c] = submitted[c] /\ now \in Nat /\ lastRun \in Int
    BY <1>1 DEF Approved, HasEvent, claimVars, IInv, TypeOK, Never
  <2> DEFINE a == ApprovalIn(history, c)
  <2>2. /\ status[c] = "PAY_IN_FULL" /\ submitted[c] \in Nat
        /\ a \in Nat /\ submitted[c] <= a
    BY <2>1, ApprovalOf
  <2>3. PassedRuns(c) = RunsSince(a, submitted[c], now, lastRun)
        /\ PassedRuns(c)' = RunsSince(a, submitted[c], now, now)
    BY <1>1, <2>1 DEF PassedRuns
  <2>4. ~Pending(c) /\ sent[c] = 0
    BY <1>1, <1>2 DEF Pending
  <2> HIDE DEF a
  <2>5. Cardinality(PassedRuns(c)) <= faults
    BY <2>1, <2>4 DEF MissesHaveFaults
  <2>6. CASE a < now /\ now <= submitted[c] + 2 * Day
    <3>1. c \in Listed
      BY <2>1, <2>2, <2>6 DEF Listed, WINDOW
    <3>2. Pending(c)'
      BY <1>1, <1>2, <3>1 DEF Pending
    <3>3. Cardinality(PassedRuns(c)') <= Cardinality(PassedRuns(c)) + 1
      BY <2>1, <2>2, <2>3, RunPasses
    <3>4. Cardinality(PassedRuns(c)') \in Nat /\ Cardinality(PassedRuns(c)) \in Nat
      BY <2>3, RunsSinceType
    <3> QED
      BY <1>1, <2>5, <3>2, <3>3, <3>4 DEF IInv, TypeOK
  <2>7. CASE ~(a < now /\ now <= submitted[c] + 2 * Day)
    <3>1. PassedRuns(c)' = PassedRuns(c)
      BY <2>1, <2>2, <2>3, <2>7, RunPasses
    <3> QED
      BY <1>1, <2>5, <3>1
  <2> QED
    BY <2>6, <2>7
<1> QED
  BY <1>4, <1>5

(* A run that is missed is a fault of its own. *)
LEMMA MissRunKeepsWindow ==
  ASSUME WindowInv, MissRun, IInv'
  PROVE  WindowInv'
<1> USE DEF WindowInv
<1>1. /\ now' = now /\ lastRun' = now /\ UNCHANGED claimVars /\ history' = history
      /\ sent' = sent /\ faults' = faults + 1 /\ job = IdleJob /\ job' = job
  BY DEF MissRun, Fault
<1>2. IdleJob.pc = "IDLE" /\ IdleJob.todo = {}
  BY DEF IdleJob
<1>3. \A c \in Claims : Recorded(c)' => sent'[c] > 0
  BY <1>1 DEF RunOK, Recorded, HasEvent
<1>4. ApprovalsOK' /\ RunOK'
  BY <1>1, <1>2, <1>3, RunMoves
<1>5. MissesHaveFaults'
  <2> SUFFICES ASSUME NEW c \in Claims, Approved(c)', sent'[c] = 0
               PROVE  Cardinality(PassedRuns(c)') <= faults'
    BY DEF MissesHaveFaults
  <2>1. Approved(c) /\ submitted'[c] = submitted[c] /\ now \in Nat /\ lastRun \in Int
    BY <1>1 DEF Approved, HasEvent, claimVars, IInv, TypeOK, Never
  <2> DEFINE a == ApprovalIn(history, c)
  <2>2. submitted[c] \in Nat /\ a \in Nat
    BY <2>1, ApprovalOf
  <2>3. PassedRuns(c) = RunsSince(a, submitted[c], now, lastRun)
        /\ PassedRuns(c)' = RunsSince(a, submitted[c], now, now)
    BY <1>1, <2>1 DEF PassedRuns
  <2>4. ~Pending(c) /\ sent[c] = 0
    BY <1>1, <1>2 DEF Pending
  <2> HIDE DEF a
  <2>5. Cardinality(PassedRuns(c)) <= faults
    BY <2>1, <2>4 DEF MissesHaveFaults
  <2>6. Cardinality(PassedRuns(c)') <= Cardinality(PassedRuns(c)) + 1
    BY <2>1, <2>2, <2>3, RunPasses
  <2>7. Cardinality(PassedRuns(c)') \in Nat /\ Cardinality(PassedRuns(c)) \in Nat
    BY <2>3, RunsSinceType
  <2> QED
    BY <1>1, <2>5, <2>6, <2>7 DEF IInv, TypeOK
<1> QED
  BY <1>4, <1>5

(* The clock moves on only when the run that was due has passed. *)
LEMMA TickKeepsWindow ==
  ASSUME WindowInv, Tick, IInv'
  PROVE  WindowInv'
<1> USE DEF WindowInv
<1>1. /\ now' = now + 1 /\ lastRun' = lastRun /\ UNCHANGED claimVars /\ history' = history
      /\ sent' = sent /\ faults' = faults /\ job = IdleJob /\ job' = job
      /\ now % Day = 0 => lastRun = now
  BY DEF Tick, Due
<1>2. IdleJob.pc = "IDLE" /\ IdleJob.todo = {}
  BY DEF IdleJob
<1>3. now \in Nat /\ lastRun \in Int /\ lastRun <= now
  BY DEF IInv, TypeOK, RunOK, Never
<1>4. ApprovalsOK'
  BY <1>1, ApprovalsKept DEF claimVars
<1>5. RunOK'
  BY <1>1, <1>2, <1>3 DEF RunOK, Recorded, HasEvent
<1>6. MissesHaveFaults'
  <2> SUFFICES ASSUME NEW c \in Claims, Approved(c)', sent'[c] = 0
               PROVE  Cardinality(PassedRuns(c)') <= faults'
    BY DEF MissesHaveFaults
  <2>1. Approved(c) /\ submitted'[c] = submitted[c]
    BY <1>1 DEF Approved, HasEvent, claimVars
  <2> DEFINE a == ApprovalIn(history, c)
  <2>2. submitted[c] \in Nat /\ a \in Nat
    BY <2>1, ApprovalOf
  <2>3. PassedRuns(c) = RunsSince(a, submitted[c], now, lastRun)
        /\ PassedRuns(c)' = RunsSince(a, submitted[c], now + 1, lastRun)
    BY <1>1, <2>1 DEF PassedRuns
  <2>4. ~Pending(c) /\ sent[c] = 0
    BY <1>1, <1>2 DEF Pending
  <2> HIDE DEF a
  <2>5. RunsSince(a, submitted[c], now + 1, lastRun) = RunsSince(a, submitted[c], now, lastRun)
    <3>1. \A t \in 0..LastTick : t % Day = 0 =>
            ((t < now + 1 \/ (t = now + 1 /\ lastRun = now + 1)) <=>
             (t < now \/ (t = now /\ lastRun = now)))
      BY <1>1, <1>3
    <3> QED
      BY <3>1 DEF RunsSince
  <2> QED
    BY <1>1, <2>1, <2>3, <2>4, <2>5 DEF MissesHaveFaults
<1> QED
  BY <1>4, <1>5, <1>6

(* A listed claim that is taken is emailed next, or has been emailed. *)
LEMMA TakeClaimKeepsWindow ==
  ASSUME WindowInv, NEW c \in Claims, TakeClaim(c), IInv'
  PROVE  WindowInv'
<1> USE DEF WindowInv
<1>1. /\ now' = now /\ lastRun' = lastRun /\ UNCHANGED claimVars /\ history' = history
      /\ sent' = sent /\ faults' = faults /\ job.pc = "NEXT" /\ ~job.broken /\ c \in job.todo
  BY DEF TakeClaim
<1>2. /\ job'.todo = job.todo \ {c} /\ ~job'.broken /\ job'.pc \in {"SEND", "NEXT"}
      /\ EmailDue(c) => job'.pc = "SEND" /\ job'.claim = c
      /\ job'.pc = "SEND" => job'.claim = c
  BY DEF TakeClaim, IInv, TypeOK
<1>3. lastRun = now /\ \A d \in Claims : Recorded(d)' => sent'[d] > 0
  BY <1>1 DEF RunOK, Recorded, HasEvent
<1>4. ApprovalsOK' /\ RunOK'
  BY <1>1, <1>2, <1>3, RunMoves
<1>5. \A d \in Claims : Approved(d) /\ sent'[d] = 0 => (Pending(d) => Pending(d)')
  <2>1. \A d \in Claims : d # c => (Pending(d) => Pending(d)')
    BY <1>1, <1>2 DEF Pending
  <2>2. Approved(c) /\ sent[c] = 0 => Pending(c)'
    BY <1>2 DEF Pending, EmailDue, RunOK, Approved, Recorded
  <2> QED
    BY <1>1, <2>1, <2>2
<1>6. MissesHaveFaults'
  BY <1>1, <1>5, MissesKept DEF IInv, TypeOK, claimVars
<1> QED
  BY <1>4, <1>6

(* Steps of the job that begin with a fault. *)
LEMMA FaultKeepsWindow ==
  ASSUME WindowInv, IInv',
         \/ \E c \in Claims : TakeClaimFails(c)
         \/ SendEmailFails \/ RecordEmailFails \/ Crash \/ GiveUp
  PROVE  WindowInv'
<1> USE DEF WindowInv
<1>1. /\ now' = now /\ lastRun' = lastRun /\ UNCHANGED claimVars
      /\ faults' = faults + 1 /\ history \subseteq history' /\ job.pc # "IDLE"
  BY DEF TakeClaimFails, SendEmailFails, RecordEmailFails, Crash, GiveUp, Fault
<1>2. \A e \in history' \ history :
        e.event = "CLAIM_APPROVED_EMAIL" /\ job.pc = "RECORD" /\ e.claim = job.claim
  <2>1. CASE RecordEmailFails
    BY <2>1 DEF RecordEmailFails, Event
  <2>2. CASE (\E c \in Claims : TakeClaimFails(c)) \/ SendEmailFails \/ Crash \/ GiveUp
    BY <2>2 DEF TakeClaimFails, SendEmailFails, Crash, GiveUp
  <2> QED
    BY <2>1, <2>2
<1>3. \A c \in Claims : sent'[c] = sent[c] \/ sent'[c] = sent[c] + 1
  <2>1. CASE SendEmailFails
    BY <2>1 DEF SendEmailFails, IInv, TypeOK
  <2>2. CASE (\E c \in Claims : TakeClaimFails(c)) \/ RecordEmailFails \/ Crash \/ GiveUp
    BY <2>2 DEF TakeClaimFails, RecordEmailFails, Crash, GiveUp
  <2> QED
    BY <2>1, <2>2
<1>4. /\ CrashedRun.todo = {} /\ CrashedRun.pc = "CRASHED"
      /\ IdleJob.todo = {} /\ IdleJob.pc = "IDLE"
  BY DEF CrashedRun, IdleJob
<1>5. /\ job'.todo \subseteq job.todo /\ job'.pc \notin {"SEND", "RECORD"}
      /\ job'.pc = "IDLE" => job' = IdleJob
  <2>1. job \in Jobs
    BY DEF IInv, TypeOK, Jobs
  <2>2. ASSUME NEW c \in Claims, TakeClaimFails(c)
        PROVE  job' = CrashedRun \/ (job'.todo = job.todo \ {c} /\ job'.pc = "NEXT")
    <3>1. CASE job' = [job EXCEPT !.todo = @ \ {c}, !.broken = TRUE, !.failed = @ \cup {c}]
      BY <2>1, <2>2, <3>1 DEF TakeClaimFails, Jobs
    <3> QED
      BY <2>2, <3>1 DEF TakeClaimFails
  <2>3. CASE SendEmailFails
    BY <2>1, <2>3 DEF SendEmailFails, Jobs
  <2>4. CASE RecordEmailFails
    <3>1. CASE job' = [job EXCEPT !.pc = "NEXT", !.claim = NoClaim, !.broken = TRUE,
                                  !.failed = @ \cup {job.claim}]
      BY <2>1, <3>1 DEF Jobs
    <3> QED
      BY <1>4, <2>4, <3>1 DEF RecordEmailFails
  <2>5. CASE Crash \/ GiveUp
    BY <1>4, <2>5 DEF Crash, GiveUp
  <2> QED
    BY <1>4, <2>2, <2>3, <2>4, <2>5
<1>6. \A c \in Claims : Recorded(c)' => sent'[c] > 0
  <2>1. \A c \in Claims : Recorded(c)' => Recorded(c) \/ (job.pc = "RECORD" /\ job.claim = c)
    BY <1>2 DEF Recorded, HasEvent
  <2>2. sent \in [Claims -> Nat]
    BY DEF IInv, TypeOK
  <2> QED
    BY <1>3, <2>1, <2>2 DEF RunOK
<1>7. ApprovalsOK' /\ RunOK'
  <2>1. lastRun = now
    BY <1>1 DEF RunOK
  <2> QED
    BY <1>1, <1>2, <1>5, <1>6, <2>1, RunMoves
<1>8. MissesHaveFaults'
  <2>1. faults' \in Nat /\ sent \in [Claims -> Nat]
    BY DEF IInv, TypeOK
  <2>2. \A c \in Claims : sent'[c] = 0 => sent[c] = 0
    BY <1>3, <2>1
  <2> QED
    BY <1>1, <1>2, <2>1, <2>2, MissesKept DEF claimVars
<1> QED
  BY <1>7, <1>8

LEMMA SendEmailKeepsWindow ==
  ASSUME WindowInv, SendEmail, IInv'
  PROVE  WindowInv'
<1> USE DEF WindowInv
<1>1. /\ now' = now /\ lastRun' = lastRun /\ UNCHANGED claimVars /\ history' = history
      /\ faults' = faults /\ job.pc = "SEND" /\ job.claim \in Claims
      /\ job'.todo = job.todo /\ job'.pc = "RECORD" /\ job'.broken = job.broken
      /\ job'.claim = job.claim
  BY DEF SendEmail, IInv, TypeOK
<1>2. sent \in [Claims -> Nat]
      /\ \A c \in Claims : sent'[c] = IF c = job.claim THEN sent[c] + 1 ELSE sent[c]
  BY DEF SendEmail, IInv, TypeOK
<1>3. lastRun = now /\ \A c \in Claims : Recorded(c)' => sent'[c] > 0
  BY <1>1, <1>2 DEF RunOK, Recorded, HasEvent
<1>4. ApprovalsOK' /\ RunOK'
  BY <1>1, <1>2, <1>3, RunMoves
<1>5. \A c \in Claims : sent'[c] = 0 => sent[c] = 0 /\ (Pending(c) => Pending(c)')
  BY <1>1, <1>2 DEF Pending
<1>6. MissesHaveFaults'
  BY <1>1, <1>5, MissesKept DEF IInv, TypeOK, claimVars
<1> QED
  BY <1>4, <1>6

LEMMA RecordEmailKeepsWindow ==
  ASSUME WindowInv, RecordEmail, IInv'
  PROVE  WindowInv'
<1> USE DEF WindowInv
<1> DEFINE e == Event("CLAIM_APPROVED_EMAIL", job.claim)
<1>1. /\ now' = now /\ lastRun' = lastRun /\ UNCHANGED claimVars
      /\ history' = history \cup {e} /\ e.event = "CLAIM_APPROVED_EMAIL" /\ e.claim = job.claim
      /\ sent' = sent /\ faults' = faults /\ job.pc = "RECORD"
      /\ job'.todo = job.todo /\ job'.pc = "NEXT" /\ job'.broken = job.broken
  BY DEF RecordEmail, Event, IInv, TypeOK
<1>2. lastRun = now /\ \A c \in Claims : Recorded(c)' => sent'[c] > 0
  BY <1>1 DEF RunOK, Recorded, HasEvent
<1>3. ApprovalsOK' /\ RunOK'
  BY <1>1, <1>2, RunMoves
<1>4. \A c \in Claims : Pending(c) => Pending(c)'
  BY <1>1 DEF Pending
<1>5. MissesHaveFaults'
  BY <1>1, <1>4, MissesKept DEF IInv, TypeOK, claimVars
<1> QED
  BY <1>3, <1>5

(* Steps of the job that leave nobody waiting: a run that ends has taken     *)
(* every claim, one on a broken session has had its fault.                   *)
LEMMA OtherRunStepKeepsWindow ==
  ASSUME WindowInv, IInv', EndRun \/ Restart \/ \E c \in Claims : TakeClaimBroken(c)
  PROVE  WindowInv'
<1> USE DEF WindowInv
<1>1. /\ now' = now /\ lastRun' = lastRun /\ UNCHANGED claimVars /\ history' = history
      /\ sent' = sent /\ faults' = faults /\ job.pc # "IDLE"
  BY DEF EndRun, Restart, TakeClaimBroken
<1>2. /\ CrashedRun.todo = {} /\ CrashedRun.pc = "CRASHED"
      /\ IdleJob.todo = {} /\ IdleJob.pc = "IDLE"
      /\ NewRun.todo = Listed /\ NewRun.pc = "NEXT"
  BY DEF CrashedRun, IdleJob, NewRun
<1>3. /\ job'.todo \subseteq job.todo \cup Listed /\ job'.pc \notin {"SEND", "RECORD"}
      /\ job'.pc = "IDLE" => job' = IdleJob
  <2>1. CASE EndRun
    BY <1>2, <2>1 DEF EndRun
  <2>2. CASE Restart
    BY <1>2, <2>2 DEF Restart
  <2>3. CASE \E c \in Claims : TakeClaimBroken(c)
    BY <1>2, <2>3 DEF TakeClaimBroken, IInv, TypeOK
  <2> QED
    BY <2>1, <2>2, <2>3
<1>4. lastRun = now /\ \A c \in Claims : Recorded(c)' => sent'[c] > 0
  BY <1>1 DEF RunOK, Recorded, HasEvent
<1>5. ApprovalsOK' /\ RunOK'
  BY <1>1, <1>3, <1>4, RunMoves
<1>6. \A c \in Claims : ~Pending(c)
  BY DEF EndRun, Restart, TakeClaimBroken, Pending
<1>7. MissesHaveFaults'
  BY <1>1, <1>6, MissesKept DEF IInv, TypeOK, claimVars
<1> QED
  BY <1>5, <1>7

LEMMA StepKeepsWindow == WindowInv /\ [Next]_vars => WindowInv'
<1> SUFFICES ASSUME WindowInv, [Next]_vars PROVE WindowInv'
  OBVIOUS
<1>1. IInv'
  BY StepKeeps DEF WindowInv
<1>2. CASE \E c \in Claims : RequestStep(c)
  BY <1>1, <1>2, SubmitKeepsWindow, AutoApproveKeepsWindow, OtherRequestKeepsWindow
     DEF RequestStep
<1>3. CASE StartRun \/ MissRun \/ Tick
  BY <1>1, <1>3, StartRunKeepsWindow, MissRunKeepsWindow, TickKeepsWindow
<1>4. CASE \E c \in Claims : TakeClaim(c) \/ TakeClaimFails(c) \/ TakeClaimBroken(c)
  BY <1>1, <1>4, TakeClaimKeepsWindow, FaultKeepsWindow, OtherRunStepKeepsWindow
<1>5. CASE SendEmail \/ RecordEmail
  BY <1>1, <1>5, SendEmailKeepsWindow, RecordEmailKeepsWindow
<1>6. CASE SendEmailFails \/ RecordEmailFails \/ Crash \/ GiveUp
  BY <1>1, <1>6, FaultKeepsWindow
<1>7. CASE EndRun \/ Restart
  BY <1>1, <1>7, OtherRunStepKeepsWindow
<1>8. CASE UNCHANGED vars
  BY <1>1, <1>8 DEF vars, WindowInv, ApprovalsOK, RunOK, MissesHaveFaults, PassedRuns, Pending,
     Deadline, Approved, Recorded, HasEvent
<1> QED
  BY <1>2, <1>3, <1>4, <1>5, <1>6, <1>7, <1>8 DEF Next, JobStep

(* Every due run that could have emailed an approved claim and did not has  *)
(* had a fault, or has that claim still before it.                          *)
THEOREM WindowInvariant == Spec => []WindowInv
<1>1. Init => WindowInv
  BY InitWindow
<1>2. WindowInv /\ [Next]_vars => WindowInv'
  BY StepKeepsWindow
<1> QED
  BY <1>1, <1>2, PTL DEF Spec

(* However many claims, days and faults: a claim that has left the window   *)
(* without an email met a fault in each run that could have sent it.        *)
THEOREM MissedEmailsNeedFaults == Spec => []EmailedBeforeWindowCloses
<1>1. WindowInv => EmailedBeforeWindowCloses
  <2> SUFFICES ASSUME WindowInv, NEW c \in Claims, HasEvent("POA_AUTO_APPROVED", c),
                      Deadline(c) < now, sent[c] = 0
               PROVE  faults >= Cardinality(Chances(c))
    BY DEF EmailedBeforeWindowCloses
  <2> USE DEF WindowInv
  <2>1. Approved(c) /\ submitted[c] \in Nat /\ now \in Nat /\ lastRun \in Int
    BY ApprovalOf DEF Approved, IInv, TypeOK, Never
  <2>2. ~Pending(c)
    <3>1. ~(now <= Deadline(c))
      BY <2>1 DEF Deadline
    <3> QED
      BY <3>1 DEF RunOK, Pending
  <2>3. ApprovedAt(c) = ApprovalIn(history, c)
    BY DEF ApprovedAt, ApprovalIn, IsApproval
  <2>4. \A t \in 0..LastTick : t <= submitted[c] + 2 * Day =>
          t < now \/ (t = now /\ lastRun = now)
    BY <2>1 DEF Deadline
  <2>5. Chances(c) = PassedRuns(c)
    BY <2>3, <2>4 DEF Chances, PassedRuns, RunsSince, Deadline
  <2>6. Cardinality(PassedRuns(c)) \in Nat /\ faults \in Nat
    BY RunsSinceType DEF PassedRuns, IInv, TypeOK
  <2> QED
    BY <2>1, <2>2, <2>5, <2>6 DEF MissesHaveFaults
<1> QED
  BY <1>1, WindowInvariant, PTL
=============================================================================
