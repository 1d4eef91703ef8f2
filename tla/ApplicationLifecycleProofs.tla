--------------------- MODULE ApplicationLifecycleProofs ---------------------
(***************************************************************************)
(* Theorems about ApplicationLifecycle, for every set of submissions,      *)
(* decisions and changes of public bodies and every number of failures.    *)
(***************************************************************************)
EXTENDS ApplicationLifecycle, FiniteSetTheorems, TLAPS

USE FormsAssumption, NoOneAssumption, NumbersAssumption, FiniteAssumption

(***************************************************************************)
(* What the steps of a submission leave alone                              *)
(***************************************************************************)
Held == {"STORED", "SEARCHED", "MAILED", "DONE"}

(* A submission moves only itself, and says what it says before it is stored. *)
LEMMA SubmissionMoves ==
  ASSUME TypeOK, NEW a \in Applications, SubmissionStep(a)
  PROVE  /\ UNCHANGED <<decisionVars, upd>>
         /\ stage[a] \notin {"DONE", "FAILED"}
         /\ \E s \in {"NAMED", "STORED", "SEARCHED", "MAILED", "DONE", "FAILED"} :
              stage' = [stage EXCEPT ![a] = s]
         /\ \A b \in Committed : b \in Committed' /\ b # a /\ form'[b] = form[b]
         /\ faults' = faults \/ (faults < MaxFaults /\ faults' = faults + 1)
<1>1. stage[a] \notin {"DONE", "FAILED"}
  BY DEF SubmissionStep, GenerateReference, InsertApplication, RejectReference, RejectOffice,
         SearchDuplicates, SendConfirmation, CommitSubmission, FailSubmission, Move
<1>2. \E s \in {"NAMED", "STORED", "SEARCHED", "MAILED", "DONE", "FAILED"} :
        stage' = [stage EXCEPT ![a] = s]
  BY DEF SubmissionStep, GenerateReference, InsertApplication, RejectReference, RejectOffice,
         SearchDuplicates, SendConfirmation, CommitSubmission, FailSubmission, Move
<1>3. UNCHANGED <<decisionVars, upd>>
  BY DEF SubmissionStep, GenerateReference, InsertApplication, RejectReference, RejectOffice,
         SearchDuplicates, SendConfirmation, CommitSubmission, FailSubmission, bodyVars
<1>4. UNCHANGED form \/ \E f \in Forms : form' = [form EXCEPT ![a] = f]
  BY DEF SubmissionStep, GenerateReference, InsertApplication, RejectReference, RejectOffice,
         SearchDuplicates, SendConfirmation, CommitSubmission, FailSubmission, bodyVars
<1>5. faults' = faults \/ (faults < MaxFaults /\ faults' = faults + 1)
  BY DEF SubmissionStep, GenerateReference, InsertApplication, RejectReference, RejectOffice,
         SearchDuplicates, SendConfirmation, CommitSubmission, FailSubmission, Fault
<1>6. \A b \in Committed : b \in Committed' /\ b # a /\ form'[b] = form[b]
  BY <1>1, <1>2, <1>4 DEF Committed, TypeOK
<1> QED
  BY <1>1, <1>2, <1>3, <1>5, <1>6

(***************************************************************************)
(* References and duplicates                                               *)
(***************************************************************************)
(* Those who hold a reference hold different ones; a search saw only what   *)
(* was stored; the records of a stored application are those of its search. *)
SubmissionOK ==
  /\ \A a, b \in Applications :
       stage[a] \in Held /\ stage[b] \in Held /\ reference[a] = reference[b] => a = b
  /\ \A a \in Applications : seen[a] \subseteq Committed
  /\ \A a, b \in Applications :
       <<a, b>> \in duplicates <=>
         /\ a \in Committed /\ b \in seen[a] \ {a}
         /\ MatchCount(form[a], form[b]) >= 2

LEMMA SubmissionStepKeepsOK ==
  ASSUME TypeOK, SubmissionOK, NEW a \in Applications, SubmissionStep(a)
  PROVE  SubmissionOK'
<1>0. PICK s \in {"NAMED", "STORED", "SEARCHED", "MAILED", "DONE", "FAILED"} :
        stage' = [stage EXCEPT ![a] = s]
  BY SubmissionMoves
<1>1. \A x, y \in Applications :
        stage'[x] \in Held /\ stage'[y] \in Held /\ reference'[x] = reference'[y] => x = y
  <2>1. CASE GenerateReference(a)
    BY <2>1 DEF GenerateReference, Move, Held, TypeOK, SubmissionOK
  <2>2. CASE InsertApplication(a)
    BY <2>2 DEF InsertApplication, HoldsReference, Move, Held, TypeOK, SubmissionOK
  <2>3. CASE RejectReference(a) \/ RejectOffice(a) \/ FailSubmission(a)
    BY <2>3 DEF RejectReference, RejectOffice, FailSubmission, Move, Held, TypeOK, SubmissionOK
  <2>4. CASE SearchDuplicates(a) \/ SendConfirmation(a) \/ CommitSubmission(a)
    BY <2>4 DEF SearchDuplicates, SendConfirmation, CommitSubmission, Move, Held, TypeOK,
                SubmissionOK
  <2> QED
    BY <2>1, <2>2, <2>3, <2>4 DEF SubmissionStep
<1>2. \A x \in Applications : seen'[x] \subseteq Committed'
  <2>1. Committed \subseteq Committed'
    BY SubmissionMoves
  <2>2. seen' = seen \/ seen' = [seen EXCEPT ![a] = Committed]
    BY DEF SubmissionStep, GenerateReference, InsertApplication, RejectReference,
           RejectOffice, SearchDuplicates, SendConfirmation, CommitSubmission,
           FailSubmission
  <2>3. \A x \in Applications : seen[x] \subseteq Committed
    BY DEF SubmissionOK
  <2>4. \A x \in Applications : seen'[x] = seen[x] \/ seen'[x] = Committed
    BY <2>2 DEF TypeOK
  <2> QED
    BY <2>1, <2>3, <2>4
<1>3. \A x, y \in Applications :
        <<x, y>> \in duplicates' <=>
          /\ x \in Committed' /\ y \in seen'[x] \ {x}
          /\ MatchCount(form'[x], form'[y]) >= 2
  <2>1. \A x \in Applications \ {a} : (x \in Committed' <=> x \in Committed) /\ seen'[x] = seen[x]
    BY <1>0 DEF Committed, TypeOK, SubmissionStep, GenerateReference, InsertApplication,
                RejectReference, RejectOffice, SearchDuplicates, SendConfirmation,
                CommitSubmission, FailSubmission
  <2>2. \A x \in Committed : form'[x] = form[x] /\ x \in Committed'
    BY SubmissionMoves
  <2>3. a \notin Committed
    BY SubmissionMoves DEF Committed
  <2>4. CASE CommitSubmission(a)
    <3>1. /\ duplicates' = duplicates \cup DuplicateRecords(a, seen[a])
          /\ form' = form /\ seen' = seen /\ a \in Committed'
      BY <2>4 DEF CommitSubmission, Move, Committed, TypeOK
    <3>2. \A y \in Applications :
            y \in IdentifiedDuplicates(a, seen[a]) <=>
              y \in seen[a] \ {a} /\ MatchCount(form[a], form[y]) >= 2
      BY DEF IdentifiedDuplicates, TypeOK, Proceedings, MeritsDecisions,
             EligibleDuplicateStatus
    <3>3. \A y \in Applications : <<a, y>> \notin duplicates
      BY <2>3 DEF SubmissionOK
    <3> QED
      BY <2>1, <2>3, <3>1, <3>2, <3>3 DEF SubmissionOK, DuplicateRecords
  <2>5. CASE ~CommitSubmission(a)
    <3>1. duplicates' = duplicates /\ a \notin Committed'
      BY <2>5, <1>0 DEF Committed, TypeOK, SubmissionStep, GenerateReference,
                  InsertApplication, RejectReference, RejectOffice, SearchDuplicates,
                  SendConfirmation, FailSubmission, Move
    <3>2. \A x \in Committed : \A y \in seen[x] : form'[x] = form[x] /\ form'[y] = form[y]
      BY <2>2 DEF SubmissionOK, Committed
    <3>3. \A x \in Committed : x # a /\ x \in Applications
      BY <2>3 DEF Committed
    <3> QED
      BY <2>1, <2>3, <3>1, <3>2, <3>3 DEF SubmissionOK
  <2> QED
    BY <2>4, <2>5
<1> QED
  BY <1>1, <1>2, <1>3 DEF SubmissionOK

LEMMA OtherStepsKeepSubmissionOK ==
  ASSUME SubmissionOK, UNCHANGED submissionVars PROVE SubmissionOK'
  BY DEF SubmissionOK, submissionVars, Committed, MatchCount
(* The count of equal details is the size of the agreement. *)
LEMMA MatchesCounted ==
  ASSUME TypeOK, NEW a \in Applications, NEW b \in Applications
  PROVE  MatchCount(form[a], form[b]) >= 2 <=> Cardinality(Agreement(a, b)) >= 2
<1> DEFINE One(same, k) == IF same THEN {k} ELSE {}
           Count(same) == IF same THEN 1 ELSE 0
           born == form[a].born = form[b].born
           died == form[a].died = form[b].died
           coroner == form[a].coroner # 0 /\ form[a].coroner = form[b].coroner
           name == form[a].name = form[b].name
           S1 == One(born, "born")
           S2 == S1 \cup One(died, "died")
           S3 == S2 \cup One(name, "name")
           S4 == S3 \cup One(coroner, "coroner")
<1>1. Agreement(a, b) = S4
  BY DEF Agreement
<1>2. ASSUME NEW S, IsFiniteSet(S), NEW same \in BOOLEAN, NEW k, k \notin S
      PROVE  /\ IsFiniteSet(S \cup One(same, k))
             /\ Cardinality(S \cup One(same, k)) = Cardinality(S) + Count(same)
  <2>1. CASE same
    BY <1>2, <2>1, FS_AddElement
  <2>2. CASE ~same
    <3>1. S \cup One(same, k) = S
      BY <2>2
    <3> QED
      BY <1>2, <2>2, <3>1, FS_CardinalityType
  <2> QED
    BY <2>1, <2>2
<1>3. /\ IsFiniteSet({}) /\ Cardinality({}) = 0
      /\ S1 = {} \cup One(born, "born") /\ S2 = S1 \cup One(died, "died")
      /\ S3 = S2 \cup One(name, "name") /\ S4 = S3 \cup One(coroner, "coroner")
  BY FS_EmptySet
<1>4. /\ "born" \notin {} /\ "died" \notin S1 /\ "name" \notin S2 /\ "coroner" \notin S3
      /\ born \in BOOLEAN /\ died \in BOOLEAN /\ coroner \in BOOLEAN /\ name \in BOOLEAN
  OBVIOUS
<1>5. MatchCount(form[a], form[b]) = Count(born) + Count(died) + Count(coroner) + Count(name)
  BY DEF MatchCount
<1> HIDE DEF One, S1, S2, S3, S4, born, died, coroner, name
<1>6. IsFiniteSet(S1) /\ Cardinality(S1) = Cardinality({}) + Count(born)
  BY <1>2, <1>3, <1>4
<1>7. IsFiniteSet(S2) /\ Cardinality(S2) = Cardinality(S1) + Count(died)
  BY <1>2, <1>3, <1>4, <1>6
<1>8. IsFiniteSet(S3) /\ Cardinality(S3) = Cardinality(S2) + Count(name)
  BY <1>2, <1>3, <1>4, <1>7
<1>9. IsFiniteSet(S4) /\ Cardinality(S4) = Cardinality(S3) + Count(coroner)
  BY <1>2, <1>3, <1>4, <1>8
<1> QED
  BY <1>1, <1>3, <1>5, <1>6, <1>7, <1>8, <1>9

LEMMA MatchSymmetric ==
  ASSUME TypeOK, NEW a \in Applications, NEW b \in Applications
  PROVE  MatchCount(form[a], form[b]) = MatchCount(form[b], form[a])
<1>1. /\ (form[a].born = form[b].born) = (form[b].born = form[a].born)
      /\ (form[a].coroner # 0 /\ form[a].coroner = form[b].coroner)
           = (form[b].coroner # 0 /\ form[b].coroner = form[a].coroner)
  OBVIOUS
<1> QED
  BY <1>1 DEF MatchCount

LEMMA DuplicatesFollow ==
  ASSUME TypeOK, SubmissionOK PROVE PendingDuplicatesShown
<1> SUFFICES ASSUME NEW a \in Pending, NEW b \in Committed, a # b
             PROVE  /\ b \in PotentialDuplicates(a) <=>
                         /\ Cardinality(Agreement(a, b)) >= 2
                         /\ a \in seen[b] \/ b \in seen[a]
                    /\ b \in BacklogDuplicates(a) <=> b \in Pending /\ b \in PotentialDuplicates(a)
  BY DEF PendingDuplicatesShown
<1>1. /\ a \in Applications /\ b \in Applications /\ a \in Committed
      /\ row[a].merits = "SUBMITTED" /\ row[b].merits \in EligibleDuplicateStatus
  BY DEF Pending, Committed, TypeOK, Proceedings, MeritsDecisions, EligibleDuplicateStatus
<1>2. /\ MatchCount(form[a], form[b]) >= 2 <=> Cardinality(Agreement(a, b)) >= 2
      /\ MatchCount(form[b], form[a]) = MatchCount(form[a], form[b])
  BY <1>1, MatchesCounted, MatchSymmetric
<1>3. /\ <<a, b>> \in duplicates <=> b \in seen[a] /\ MatchCount(form[a], form[b]) >= 2
      /\ <<b, a>> \in duplicates <=> a \in seen[b] /\ MatchCount(form[b], form[a]) >= 2
  BY <1>1 DEF SubmissionOK
<1>4. b \in PotentialDuplicates(a) <=> <<a, b>> \in duplicates \/ <<b, a>> \in duplicates
  BY <1>1 DEF PotentialDuplicates
<1>5. b \in BacklogDuplicates(a) <=> b \in Pending /\ (<<a, b>> \in duplicates \/ <<b, a>> \in duplicates)
  BY <1>1 DEF BacklogDuplicates
<1> QED
  BY <1>2, <1>3, <1>4, <1>5

(***************************************************************************)
(* Types                                                                   *)
(***************************************************************************)
(* What a request of a caseworker knows at each pc.  Start dates are never  *)
(* cleared, so one that was loaded is still there.                          *)
WorkOK ==
  \A d \in Requests :
    /\ work[d].pc # "IDLE" => /\ work[d].app \in Committed
                              /\ work[d].verdict \in {"GRANTED", "REFUSED"}
                              /\ work[d].detail \in Details
    /\ work[d].pc \in {"IDLE", "READ", "WRITTEN"} => ~work[d].told
    /\ work[d].pc \in {"MAILED", "POSTED", "DONE"} => work[d].told
    /\ work[d].read.merits = "GRANTED" => work[d].read.start # 0
    /\ work[d].pc \in Active /\ work[d].read.start # 0 => row[work[d].app].start # 0

PublicBodyRows == [by : Updates \cup {NoOne}, body : Bodies]
WorkRecords ==
  [pc : {"IDLE", "DONE", "FAILED"} \cup Active, app : Applications \cup {NoOne},
   verdict : {"NONE", "GRANTED", "REFUSED"}, detail : Details \cup {0},
   read : Proceedings, base : Requests \cup {NoOne}, alone : BOOLEAN,
   care : Nat, told : BOOLEAN]
UpdateRecords ==
  [pc : {"IDLE", "READ", "DONE", "FAILED"}, app : Applications \cup {NoOne},
   list : SUBSET Bodies, old : SUBSET PublicBodyRows]

TypeInv == TypeOK /\ WorkOK

LEMMA InitTypes == Init => TypeInv
<1> SUFFICES ASSUME Init PROVE TypeInv
  OBVIOUS
<1>1. form \in [Applications -> Forms]
  <2>1. (CHOOSE f \in Forms : TRUE) \in Forms
    OBVIOUS
  <2> QED
    BY <2>1 DEF Init
<1>2. NewProceeding \in Proceedings
  BY DEF NewProceeding, Proceedings, MeritsDecisions
<1>3. work \in [Requests -> WorkRecords]
  BY <1>2 DEF Init, IdleRequest, WorkRecords
<1>4. upd \in [Updates -> UpdateRecords]
  BY DEF Init, IdleUpdate, UpdateRecords
<1>5. row \in [Applications -> Proceedings] /\ \A a \in Applications : row[a].merits # "GRANTED"
  BY <1>2 DEF Init, NewProceeding
<1>6. TypeOK
  BY <1>1, <1>3, <1>4, <1>5 DEF Init, TypeOK, WorkRecords, UpdateRecords, PublicBodyRows
<1>7. WorkOK
  BY DEF Init, WorkOK, IdleRequest, NewProceeding, Active
<1> QED
  BY <1>6, <1>7 DEF TypeInv

LEMMA SubmissionStepKeepsTypes ==
  ASSUME TypeInv, NEW a \in Applications, SubmissionStep(a) PROVE TypeInv'
<1>1. TypeOK'
  <2>1. /\ UNCHANGED <<decisionVars, upd>> /\ faults' \in 0..MaxFaults
        /\ stage' \in [Applications -> {"NEW", "NAMED", "STORED", "SEARCHED", "MAILED",
                                        "DONE", "FAILED"}]
    <3>1. TypeOK
      BY DEF TypeInv
    <3>2. /\ UNCHANGED <<decisionVars, upd>>
          /\ \E t \in {"NAMED", "STORED", "SEARCHED", "MAILED", "DONE", "FAILED"} :
               stage' = [stage EXCEPT ![a] = t]
          /\ faults' = faults \/ (faults < MaxFaults /\ faults' = faults + 1)
      BY <3>1, SubmissionMoves
    <3> QED
      BY <3>1, <3>2 DEF TypeOK
  <2>2. seen' \in [Applications -> SUBSET Applications]
    <3>1. seen' = seen \/ seen' = [seen EXCEPT ![a] = Committed]
      BY DEF SubmissionStep, GenerateReference, InsertApplication, RejectReference,
             RejectOffice, SearchDuplicates, SendConfirmation, CommitSubmission,
             FailSubmission
    <3> QED
      BY <3>1 DEF TypeInv, TypeOK, Committed
  <2>3. duplicates' \subseteq Applications \X Applications
    <3>1. duplicates' = duplicates
            \/ duplicates' = duplicates \cup DuplicateRecords(a, seen[a])
      BY DEF SubmissionStep, GenerateReference, InsertApplication, RejectReference,
             RejectOffice, SearchDuplicates, SendConfirmation, CommitSubmission,
             FailSubmission
    <3>2. IdentifiedDuplicates(a, seen[a]) \subseteq Applications
      BY DEF IdentifiedDuplicates, TypeInv, TypeOK
    <3> QED
      BY <3>1, <3>2 DEF DuplicateRecords, TypeInv, TypeOK
  <2>4. bodies' \in [Applications -> SUBSET PublicBodyRows]
    <3>1. bodies' = bodies
            \/ bodies' = [bodies EXCEPT ![a] = BodyRows(NoOne, form[a].bodies)]
      BY DEF SubmissionStep, GenerateReference, InsertApplication, RejectReference,
             RejectOffice, SearchDuplicates, SendConfirmation, CommitSubmission,
             FailSubmission, bodyVars
    <3>2. BodyRows(NoOne, form[a].bodies) \subseteq PublicBodyRows
      BY DEF TypeInv, TypeOK, PublicBodyRows, BodyRows, ApplicationCreate
    <3> QED
      BY <3>1, <3>2 DEF TypeInv, TypeOK, PublicBodyRows
  <2>5. form' \in [Applications -> Forms] /\ reference' \in [Applications -> References \cup {NoOne}]
    <3>1. CASE GenerateReference(a)
      BY <3>1 DEF GenerateReference, PermittedReferences, TypeInv, TypeOK
    <3>2. CASE ~GenerateReference(a)
      BY <3>2 DEF TypeInv, TypeOK, SubmissionStep, InsertApplication, RejectReference,
             RejectOffice, SearchDuplicates, SendConfirmation, CommitSubmission,
             FailSubmission
    <3> QED
      BY <3>1, <3>2
  <2> QED
    BY <2>1, <2>2, <2>3, <2>4, <2>5 DEF TypeInv, TypeOK, PublicBodyRows, decisionVars
<1>2. WorkOK'
  BY SubmissionMoves DEF TypeInv, WorkOK, decisionVars
<1> QED
  BY <1>1, <1>2 DEF TypeInv

(* What an UPDATE leaves in the row. *)
LEMMA UpdatedType ==
  ASSUME TypeInv, NEW d \in Requests, work[d].pc \in Active
  PROVE  /\ Updated(row[work[d].app], work[d]) \in Proceedings
         /\ Updated(row[work[d].app], work[d]).merits = "GRANTED"
              => Updated(row[work[d].app], work[d]).start # 0
         /\ row[work[d].app].start # 0 => Updated(row[work[d].app], work[d]).start # 0
<1> DEFINE w == work[d]
           current == row[w.app]
<1>1. /\ w.verdict \in {"GRANTED", "REFUSED"} /\ w.detail \in Details /\ w.read \in Proceedings
      /\ current \in Proceedings
      /\ current.merits = "GRANTED" => current.start # 0
      /\ w.read.merits = "GRANTED" => w.read.start # 0
      /\ w.read.start # 0 => current.start # 0
  BY DEF TypeInv, TypeOK, WorkOK, WorkRecords, Active, Committed
<1> HIDE DEF w, current
<1>2. Updated(current, w) \in Proceedings
  BY <1>1 DEF Updated, Assigned, Proceedings, MeritsDecisions
<1>3. current.start # 0 => Updated(current, w).start # 0
  BY <1>1 DEF Updated, Assigned, Proceedings
<1>4. Updated(current, w).merits = "GRANTED" => Updated(current, w).start # 0
  BY <1>1 DEF Updated, Assigned, Proceedings
<1> QED
  BY <1>2, <1>3, <1>4 DEF w, current

LEMMA DecisionStepKeepsTypes ==
  ASSUME TypeInv, NEW d \in Requests, DecisionStep(d) PROVE TypeInv'
<1>0. /\ UNCHANGED <<submissionVars, bodyVars>> /\ Committed' = Committed
      /\ Committed \subseteq Applications
  BY DEF DecisionStep, ReadApplication, WriteDecision, SendDecisionEmail, PostLetter,
         CommitDecision, FailWithoutAddress, FailDecision, submissionVars, Committed
<1>1. CASE ReadApplication(d)
  <2>1. PICK a \in Committed, v \in {"GRANTED", "REFUSED"}, n \in Details :
          work' = [work EXCEPT ![d] = [IdleRequest EXCEPT !.pc = "READ", !.app = a,
                     !.verdict = v, !.detail = n, !.read = row[a], !.base = decided[a]]]
    BY <1>1 DEF ReadApplication
  <2> DEFINE w == [IdleRequest EXCEPT !.pc = "READ", !.app = a, !.verdict = v, !.detail = n,
                                      !.read = row[a], !.base = decided[a]]
  <2>2. /\ w.pc = "READ" /\ w.app = a /\ w.verdict = v /\ w.detail = n /\ w.read = row[a]
        /\ w.told = FALSE /\ w \in WorkRecords
    BY DEF IdleRequest, WorkRecords, Active, TypeInv, TypeOK, Committed
  <2>3. /\ work' = [work EXCEPT ![d] = w]
        /\ UNCHANGED <<row, careOf, lastMail, decided, faults>>
    BY <2>1, <1>1 DEF ReadApplication
  <2> HIDE DEF w
  <2>4. work' \in [Requests -> WorkRecords]
    BY <2>2, <2>3 DEF TypeInv, TypeOK, WorkRecords
  <2>5. TypeOK'
    BY <1>0, <2>3, <2>4 DEF TypeInv, TypeOK, WorkRecords, submissionVars, bodyVars
  <2>6. WorkOK'
    BY <1>0, <2>2, <2>3 DEF TypeInv, TypeOK, WorkOK, Active
  <2> QED
    BY <2>5, <2>6 DEF TypeInv
<1>2. CASE /\ UNCHANGED <<row, careOf, decided>>
           /\ faults' \in 0..MaxFaults
           /\ lastMail' \in [Applications -> {"NONE", "GRANTED", "REFUSED"}]
           /\ \E p \in {"WRITTEN", "MAILED", "POSTED", "FAILED"}, told \in BOOLEAN, care \in Nat :
                /\ work' = [work EXCEPT ![d] = [@ EXCEPT !.pc = p, !.told = told, !.care = care]]
                /\ work[d].pc \in Active
                /\ p = "WRITTEN" => ~told
                /\ p \in {"MAILED", "POSTED"} => told
  <2>1. PICK p \in {"WRITTEN", "MAILED", "POSTED", "FAILED"}, told \in BOOLEAN, care \in Nat :
          /\ work' = [work EXCEPT ![d] = [@ EXCEPT !.pc = p, !.told = told, !.care = care]]
          /\ work[d].pc \in Active
          /\ p = "WRITTEN" => ~told
          /\ p \in {"MAILED", "POSTED"} => told
    BY <1>2
  <2>2. work' \in [Requests -> WorkRecords]
    <3>1. work[d] \in WorkRecords
      BY DEF TypeInv, TypeOK, WorkRecords
    <3>2. [work[d] EXCEPT !.pc = p, !.told = told, !.care = care] \in WorkRecords
      BY <3>1 DEF WorkRecords, Active
    <3> QED
      BY <2>1, <3>2 DEF TypeInv, TypeOK, WorkRecords
  <2>3. TypeOK'
    BY <1>0, <1>2, <2>2 DEF TypeInv, TypeOK, WorkRecords, submissionVars, bodyVars
  <2>4. WorkOK'
    BY <1>0, <1>2, <2>1 DEF TypeInv, TypeOK, WorkOK, Active
  <2> QED
    BY <2>3, <2>4 DEF TypeInv
<1>3. CASE WriteDecision(d) \/ PostLetter(d) \/ FailWithoutAddress(d) \/ FailDecision(d)
  <2>1. PICK p \in {"WRITTEN", "MAILED", "POSTED", "FAILED"} :
          /\ work' = [work EXCEPT ![d].pc = p]
          /\ work[d].pc \in Active
          /\ p = "WRITTEN" => ~work[d].told
          /\ p \in {"MAILED", "POSTED"} => work[d].told
    BY <1>3 DEF WriteDecision, PostLetter, FailWithoutAddress, FailDecision, At, Active,
                TypeInv, WorkOK
  <2>2. /\ UNCHANGED <<row, careOf, decided, lastMail>>
        /\ faults' \in 0..MaxFaults
    BY <1>3 DEF WriteDecision, PostLetter, FailWithoutAddress, FailDecision, Fault,
                TypeInv, TypeOK
  <2>3. work' \in [Requests -> WorkRecords]
    <3>1. work[d] \in WorkRecords
      BY DEF TypeInv, TypeOK, WorkRecords
    <3>2. [work[d] EXCEPT !.pc = p] \in WorkRecords
      BY <3>1 DEF WorkRecords, Active
    <3> QED
      BY <2>1, <3>2 DEF TypeInv, TypeOK, WorkRecords
  <2>4. TypeOK'
    BY <1>0, <2>2, <2>3 DEF TypeInv, TypeOK, WorkRecords, submissionVars, bodyVars
  <2>5. WorkOK'
    BY <1>0, <2>1, <2>2 DEF TypeInv, TypeOK, WorkOK, Active
  <2> QED
    BY <2>4, <2>5 DEF TypeInv
<1>4. CASE SendDecisionEmail(d)
  <2>1. /\ work' = [work EXCEPT ![d] = [@ EXCEPT !.pc = "MAILED", !.told = TRUE,
                                                 !.care = careOf[work[d].app]]]
        /\ work[d].pc \in Active /\ careOf[work[d].app] \in Nat
        /\ UNCHANGED <<row, careOf, decided, faults>>
        /\ lastMail' \in [Applications -> {"NONE", "GRANTED", "REFUSED"}]
    BY <1>4 DEF SendDecisionEmail, Active, TypeInv, TypeOK, WorkOK, Committed
  <2> QED
    BY <1>2, <2>1 DEF TypeInv, TypeOK
<1>5. CASE CommitDecision(d)
  <2> DEFINE new == Updated(row[work[d].app], work[d])
  <2>1. /\ work[d].pc \in Active /\ work[d].told /\ work[d].app \in Committed
    BY <1>5 DEF CommitDecision, Active, TypeInv, WorkOK
  <2>2. /\ new \in Proceedings
        /\ new.merits = "GRANTED" => new.start # 0
        /\ row[work[d].app].start # 0 => new.start # 0
    BY <2>1, UpdatedType
  <2>3. /\ row' = [row EXCEPT ![work[d].app] = new]
        /\ decided' = [decided EXCEPT ![work[d].app] = d]
        /\ UNCHANGED <<lastMail, faults>>
        /\ \E alone \in BOOLEAN :
             work' = [work EXCEPT ![d] = [@ EXCEPT !.pc = "DONE", !.alone = alone]]
    BY <1>5 DEF CommitDecision, TypeInv, TypeOK
  <2>4. careOf' \in [Applications -> Nat]
    <3>1. careOf' = careOf \/ careOf' = [careOf EXCEPT ![work[d].app] = work[d].care + 1]
      BY <1>5 DEF CommitDecision
    <3>2. work[d].care + 1 \in Nat
      BY DEF TypeInv, TypeOK
    <3> QED
      BY <3>1, <3>2 DEF TypeInv, TypeOK
  <2> HIDE DEF new
  <2>5. work' \in [Requests -> WorkRecords]
    <3>1. work[d] \in WorkRecords
      BY DEF TypeInv, TypeOK, WorkRecords
    <3>2. PICK alone \in BOOLEAN :
            work' = [work EXCEPT ![d] = [@ EXCEPT !.pc = "DONE", !.alone = alone]]
      BY <2>3
    <3>3. [work[d] EXCEPT !.pc = "DONE", !.alone = alone] \in WorkRecords
      BY <3>1 DEF WorkRecords
    <3> QED
      BY <3>2, <3>3 DEF TypeInv, TypeOK, WorkRecords
  <2>6. row' \in [Applications -> Proceedings]
        /\ \A a \in Applications : row'[a].merits = "GRANTED" => row'[a].start # 0
    BY <2>2, <2>3 DEF TypeInv, TypeOK
  <2>7. TypeOK'
    BY <1>0, <2>1, <2>3, <2>4, <2>5, <2>6
       DEF TypeInv, TypeOK, WorkRecords, submissionVars, bodyVars
  <2>8. \A a \in Applications : row[a].start # 0 => row'[a].start # 0
    BY <2>2, <2>3 DEF TypeInv, TypeOK
  <2>9. WorkOK'
    BY <1>0, <2>1, <2>3, <2>8 DEF TypeInv, TypeOK, WorkOK, Active
  <2> QED
    BY <2>7, <2>9 DEF TypeInv
<1> QED
  BY <1>1, <1>3, <1>4, <1>5 DEF DecisionStep

LEMMA UpdateStepKeepsTypes ==
  ASSUME TypeInv, NEW u \in Updates, UpdateStep(u) PROVE TypeInv'
<1>1. UNCHANGED <<submissionVars, decisionVars>> /\ faults' \in 0..MaxFaults
  BY DEF UpdateStep, ReadBodies, ReplaceBodies, FailUpdate, Fault, TypeInv, TypeOK
<1>2. upd' \in [Updates -> UpdateRecords]
  <2>1. upd \in [Updates -> UpdateRecords] /\ upd[u] \in UpdateRecords
    BY DEF TypeInv, TypeOK, UpdateRecords, PublicBodyRows
  <2>2. \A p \in {"DONE", "FAILED"} : [upd[u] EXCEPT !.pc = p] \in UpdateRecords
    BY <2>1 DEF UpdateRecords
  <2>3. CASE ReadBodies(u)
    <3>1. PICK a \in Committed, new \in (SUBSET Bodies) \ {{}} :
            upd' = [upd EXCEPT ![u] = [pc |-> "READ", app |-> a, list |-> new, old |-> bodies[a]]]
      BY <2>3 DEF ReadBodies
    <3>2. [pc |-> "READ", app |-> a, list |-> new, old |-> bodies[a]] \in UpdateRecords
      BY DEF TypeInv, TypeOK, Committed, UpdateRecords, PublicBodyRows
    <3> QED
      BY <2>1, <3>1, <3>2
  <2>4. CASE ReplaceBodies(u) \/ FailUpdate(u)
    BY <2>1, <2>2, <2>4 DEF ReplaceBodies, FailUpdate
  <2> QED
    BY <2>3, <2>4 DEF UpdateStep
<1>3. bodies' \in [Applications -> SUBSET PublicBodyRows]
  <2>1. CASE ReplaceBodies(u)
    <3>1. BodyRows(u, upd[u].list) \subseteq PublicBodyRows
      BY DEF TypeInv, TypeOK, PublicBodyRows, BodyRows
    <3> QED
      BY <2>1, <3>1 DEF ReplaceBodies, TypeInv, TypeOK, PublicBodyRows
  <2>2. CASE ReadBodies(u) \/ FailUpdate(u)
    BY <2>2 DEF ReadBodies, FailUpdate, TypeInv, TypeOK, PublicBodyRows
  <2> QED
    BY <2>1, <2>2 DEF UpdateStep
<1>4. TypeOK'
  BY <1>1, <1>2, <1>3 DEF TypeInv, TypeOK, UpdateRecords, PublicBodyRows, submissionVars,
                          decisionVars
<1>5. WorkOK'
  BY <1>1 DEF TypeInv, WorkOK, submissionVars, decisionVars, Committed
<1> QED
  BY <1>4, <1>5 DEF TypeInv

LEMMA StutterKeepsTypes == ASSUME TypeInv, UNCHANGED vars PROVE TypeInv'
<1>1. TypeOK'
  BY DEF TypeInv, TypeOK, vars
<1>2. WorkOK'
  BY DEF TypeInv, WorkOK, vars, Committed
<1> QED
  BY <1>1, <1>2 DEF TypeInv

LEMMA StepKeepsTypes == TypeInv /\ [Next]_vars => TypeInv'
<1> QED
  BY SubmissionStepKeepsTypes, DecisionStepKeepsTypes, UpdateStepKeepsTypes, StutterKeepsTypes
     DEF Next, AllAnswered

LEMMA TypesInvariant == Spec => []TypeInv
  BY InitTypes, StepKeepsTypes, PTL DEF Spec

(* The variables of ApplicationLifecycle keep their types, and a granted    *)
(* application's certificate has a start date.                              *)
THEOREM TypeCorrect == Spec => []TypeOK
<1>1. TypeInv => TypeOK
  BY DEF TypeInv
<1> QED
  BY <1>1, TypesInvariant, PTL

(***************************************************************************)
(* Theorems about submissions                                              *)
(***************************************************************************)
SubmissionInv == TypeInv /\ SubmissionOK

LEMMA SubmissionsInvariant == Spec => []SubmissionInv
<1>1. Init => SubmissionOK
  BY DEF Init, SubmissionOK, Held, Committed
<1>2. SubmissionInv /\ [Next]_vars => SubmissionOK'
  <2> SUFFICES ASSUME SubmissionInv, [Next]_vars PROVE SubmissionOK'
    OBVIOUS
  <2>1. ASSUME NEW a \in Applications, SubmissionStep(a) PROVE SubmissionOK'
    BY <2>1, SubmissionStepKeepsOK DEF SubmissionInv, TypeInv
  <2>2. CASE UNCHANGED submissionVars
    BY <2>2, OtherStepsKeepSubmissionOK DEF SubmissionInv
  <2>3. ASSUME NEW d \in Requests, DecisionStep(d) PROVE UNCHANGED submissionVars
    BY <2>3 DEF DecisionStep, ReadApplication, WriteDecision, SendDecisionEmail, PostLetter,
                CommitDecision, FailWithoutAddress, FailDecision
  <2>4. ASSUME NEW u \in Updates, UpdateStep(u) PROVE UNCHANGED submissionVars
    BY <2>4 DEF UpdateStep, ReadBodies, ReplaceBodies, FailUpdate
  <2>5. UNCHANGED vars => UNCHANGED submissionVars
    BY DEF vars, submissionVars
  <2> QED
    BY <2>1, <2>2, <2>3, <2>4, <2>5 DEF Next, AllAnswered
<1> QED
  BY <1>1, <1>2, TypesInvariant, PTL DEF Spec, SubmissionInv

(* Two committed applications never share a reference, though references    *)
(* are checked before they are stored.                                      *)
THEOREM ReferencesAreUnique == Spec => []ReferencesUnique
<1>1. SubmissionInv => ReferencesUnique
  BY DEF SubmissionInv, SubmissionOK, ReferencesUnique, Committed, Held
<1> QED
  BY <1>1, SubmissionsInvariant, PTL

(* Duplicates that were stored when the other was searched for are shown on *)
(* the page and in the backlog of both.                                     *)
THEOREM DuplicatesAreShown == Spec => []PendingDuplicatesShown
<1>1. SubmissionInv => PendingDuplicatesShown
  BY DuplicatesFollow DEF SubmissionInv, TypeInv
<1> QED
  BY <1>1, SubmissionsInvariant, PTL

(***************************************************************************)
(* Decisions                                                               *)
(***************************************************************************)
LocksRow(d) == work[d].pc \in {"WRITTEN", "MAILED", "POSTED"} /\ WritesRow(work[d])
MailedFor(a) == {d \in Requests : work[d].app = a /\ work[d].told}
Changes(d) == work[d].pc \in {"MAILED", "POSTED", "DONE"} /\ work[d].read.merits # work[d].verdict

(* Two requests that will change one row are not both past the flush. *)
LocksExclusive ==
  \A d, e \in Requests :
    LocksRow(d) /\ LocksRow(e) /\ work[d].app = work[e].app => d = e

(* While every request that emailed changes the decision it had loaded, the *)
(* last email is that of the one that holds the row, or tells what is stored. *)
MailFollows ==
  \A a \in Applications :
    MailedFor(a) # {} /\ (\A d \in MailedFor(a) : Changes(d)) =>
      \/ \E d \in MailedFor(a) : work[d].pc # "DONE" /\ lastMail[a] = work[d].verdict
      \/ (\A d \in MailedFor(a) : work[d].pc = "DONE") /\ lastMail[a] = row[a].merits

(* The row that decision w asks for. *)
Asked(w) ==
  IF w.verdict = "GRANTED"
    THEN [merits |-> "GRANTED", refusal |-> 0, start |-> w.detail]
    ELSE [merits |-> "REFUSED", refusal |-> w.detail, start |-> w.read.start]

(* The latest decision was committed; a request that loaded the application *)
(* after it knows its row; alone, it left what it says.                     *)
DecidedOK ==
  /\ \A a \in Applications :
       decided[a] # NoOne =>
         /\ work[decided[a]].pc = "DONE" /\ work[decided[a]].app = a
         /\ work[decided[a]].alone => row[a] = Asked(work[decided[a]])
  /\ \A d \in Requests :
       work[d].pc \in Active =>
         /\ work[d].base # NoOne => work[work[d].base].pc = "DONE"
         /\ work[d].base = decided[work[d].app] => work[d].read = row[work[d].app]

ToldInVain == {d \in Requests : work[d].pc = "FAILED" /\ work[d].told}
Unaddressed == {d \in Requests : work[d].pc = "FAILED" /\ form[work[d].app].address = "ABSENT"}

DecisionOK == LocksExclusive /\ MailFollows /\ DecidedOK /\ ToldInVainHasItsFault

(* A submission changes nothing that DecisionOK speaks of. *)
LEMMA SubmissionStepKeepsDecisionOK ==
  ASSUME TypeInv, DecisionOK, NEW a \in Applications, SubmissionStep(a) PROVE DecisionOK'
<1>0. TypeOK
  BY DEF TypeInv
<1>1. UNCHANGED decisionVars /\ faults' \in Nat /\ faults \in Nat /\ faults <= faults'
  <2>1. faults' = faults \/ (faults < MaxFaults /\ faults' = faults + 1)
    BY <1>0, SubmissionMoves
  <2>2. UNCHANGED decisionVars
    BY <1>0, SubmissionMoves
  <2> QED
    BY <1>0, <2>1, <2>2 DEF TypeOK
<1>2. \A d \in Requests : work[d].pc = "FAILED" => form'[work[d].app] = form[work[d].app]
  BY <1>0, SubmissionMoves DEF TypeInv, WorkOK
<1>3. LocksExclusive'
  BY <1>1 DEF DecisionOK, LocksExclusive, LocksRow, WritesRow, Assigned, decisionVars
<1>4. MailFollows'
  BY <1>1 DEF DecisionOK, MailFollows, MailedFor, Changes, decisionVars
<1>5. DecidedOK'
  BY <1>1 DEF DecisionOK, DecidedOK, decisionVars
<1>6. ToldInVainHasItsFault'
  <2>1. ToldInVain' = ToldInVain /\ Unaddressed' = Unaddressed
    BY <1>1, <1>2 DEF ToldInVain, Unaddressed, decisionVars
  <2>2. Cardinality(ToldInVain) <= faults + Cardinality(Unaddressed)
    BY DEF DecisionOK, ToldInVainHasItsFault, ToldInVain, Unaddressed
  <2>3. Cardinality(ToldInVain) \in Nat /\ Cardinality(Unaddressed) \in Nat
    BY FS_Subset, FS_CardinalityType DEF ToldInVain, Unaddressed
  <2>4. Cardinality(ToldInVain)' <= faults' + Cardinality(Unaddressed)'
    BY <1>1, <2>1, <2>2, <2>3
  <2> QED
    BY <2>4 DEF ToldInVainHasItsFault, ToldInVain, Unaddressed
<1> QED
  BY <1>3, <1>4, <1>5, <1>6 DEF DecisionOK

(* A request keeps what it is about. *)
Keeps(d) ==
  /\ work'[d].app = work[d].app /\ work'[d].read = work[d].read
  /\ work'[d].verdict = work[d].verdict /\ work'[d].detail = work[d].detail
  /\ work'[d].base = work[d].base

(* How each step moves its request; the others stay as they are. *)
LEMMA DecisionShapes ==
  ASSUME TypeInv, NEW d \in Requests
  PROVE  /\ ReadApplication(d) =>
              /\ work[d].pc = "IDLE" /\ work'[d].pc = "READ" /\ ~work[d].told /\ ~work'[d].told
              /\ UNCHANGED <<row, lastMail, decided, faults>>
         /\ WriteDecision(d) =>
              /\ work[d].pc = "READ" /\ work'[d].pc = "WRITTEN" /\ ~work[d].told /\ ~work'[d].told
              /\ Keeps(d) /\ UNCHANGED <<row, lastMail, decided, faults>>
         /\ SendDecisionEmail(d) =>
              /\ work[d].pc = "WRITTEN" /\ work'[d].pc = "MAILED" /\ work'[d].told
              /\ lastMail' = [lastMail EXCEPT ![work[d].app] = work[d].verdict]
              /\ Keeps(d) /\ UNCHANGED <<row, decided, faults>>
         /\ PostLetter(d) =>
              /\ work[d].pc = "MAILED" /\ work'[d].pc = "POSTED" /\ work'[d].told = work[d].told
              /\ Keeps(d) /\ UNCHANGED <<row, lastMail, decided, faults>>
         /\ CommitDecision(d) =>
              /\ work[d].pc \in {"MAILED", "POSTED"} /\ work'[d].pc = "DONE"
              /\ work[d].told /\ work'[d].told /\ Keeps(d)
              /\ work'[d].alone = (work[d].base = decided[work[d].app])
              /\ UNCHANGED <<lastMail, faults>>
         /\ FailWithoutAddress(d) =>
              /\ work[d].pc \in {"WRITTEN", "POSTED"} /\ work'[d].pc = "FAILED"
              /\ work'[d].told = work[d].told
              /\ Keeps(d) /\ UNCHANGED <<row, lastMail, decided, faults>>
         /\ FailDecision(d) =>
              /\ work[d].pc \in Active /\ work'[d].pc = "FAILED"
              /\ work'[d].told = work[d].told
              /\ Keeps(d) /\ faults' = faults + 1 /\ UNCHANGED <<row, lastMail, decided>>
<1>0. work \in [Requests -> WorkRecords]
  BY DEF TypeInv, TypeOK, WorkRecords
<1>1. ReadApplication(d) =>
        /\ work[d].pc = "IDLE" /\ work'[d].pc = "READ" /\ ~work[d].told /\ ~work'[d].told
        /\ UNCHANGED <<row, lastMail, decided, faults>>
  BY <1>0 DEF ReadApplication, IdleRequest, TypeInv, WorkOK
<1>2. WriteDecision(d) =>
        /\ work[d].pc = "READ" /\ work'[d].pc = "WRITTEN" /\ ~work[d].told /\ ~work'[d].told
        /\ Keeps(d) /\ UNCHANGED <<row, lastMail, decided, faults>>
  BY <1>0 DEF WriteDecision, At, Keeps, TypeInv, WorkOK, WorkRecords
<1>3. SendDecisionEmail(d) =>
        /\ work[d].pc = "WRITTEN" /\ work'[d].pc = "MAILED" /\ work'[d].told
        /\ lastMail' = [lastMail EXCEPT ![work[d].app] = work[d].verdict]
        /\ Keeps(d) /\ UNCHANGED <<row, decided, faults>>
  BY <1>0 DEF SendDecisionEmail, Keeps, WorkRecords
<1>4. PostLetter(d) =>
        /\ work[d].pc = "MAILED" /\ work'[d].pc = "POSTED" /\ work'[d].told = work[d].told
        /\ Keeps(d) /\ UNCHANGED <<row, lastMail, decided, faults>>
  BY <1>0 DEF PostLetter, At, Keeps, WorkRecords
<1>5. CommitDecision(d) =>
        /\ work[d].pc \in {"MAILED", "POSTED"} /\ work'[d].pc = "DONE"
        /\ work[d].told /\ work'[d].told /\ Keeps(d)
        /\ work'[d].alone = (work[d].base = decided[work[d].app])
        /\ UNCHANGED <<lastMail, faults>>
  <2> SUFFICES ASSUME CommitDecision(d)
               PROVE  /\ work[d].pc \in {"MAILED", "POSTED"} /\ work'[d].pc = "DONE"
                      /\ work[d].told /\ work'[d].told /\ Keeps(d)
                      /\ work'[d].alone = (work[d].base = decided[work[d].app])
                      /\ UNCHANGED <<lastMail, faults>>
    OBVIOUS
  <2>1. work[d].pc \in {"MAILED", "POSTED"} /\ work[d].told
    BY DEF CommitDecision, TypeInv, WorkOK
  <2>2. /\ work'[d] = [work[d] EXCEPT !.pc = "DONE",
                                      !.alone = (work[d].base = decided[work[d].app])]
        /\ UNCHANGED <<lastMail, faults>>
    BY <1>0 DEF CommitDecision
  <2> QED
    BY <1>0, <2>1, <2>2 DEF Keeps, WorkRecords
<1>6. FailWithoutAddress(d) =>
        /\ work[d].pc \in {"WRITTEN", "POSTED"} /\ work'[d].pc = "FAILED"
        /\ work'[d].told = work[d].told
        /\ Keeps(d) /\ UNCHANGED <<row, lastMail, decided, faults>>
  BY <1>0 DEF FailWithoutAddress, Keeps, WorkRecords
<1>7. FailDecision(d) =>
        /\ work[d].pc \in Active /\ work'[d].pc = "FAILED"
        /\ work'[d].told = work[d].told
        /\ Keeps(d) /\ faults' = faults + 1 /\ UNCHANGED <<row, lastMail, decided>>
  BY <1>0 DEF FailDecision, Fault, Keeps, WorkRecords
<1> QED
  BY <1>1, <1>2, <1>3, <1>4, <1>5, <1>6, <1>7

LEMMA DecisionMoves ==
  ASSUME TypeInv, NEW d \in Requests, DecisionStep(d)
  PROVE  /\ UNCHANGED <<submissionVars, bodyVars>>
         /\ \A e \in Requests \ {d} : work'[e] = work[e]
         /\ work[d].pc # "IDLE" => Keeps(d)
<1>1. UNCHANGED <<submissionVars, bodyVars>>
  BY DEF DecisionStep, ReadApplication, WriteDecision, SendDecisionEmail, PostLetter,
         CommitDecision, FailWithoutAddress, FailDecision
<1>2. \A e \in Requests \ {d} : work'[e] = work[e]
  BY DEF DecisionStep, ReadApplication, WriteDecision, SendDecisionEmail, PostLetter,
         CommitDecision, FailWithoutAddress, FailDecision, At, TypeInv, TypeOK
<1>3. work[d].pc # "IDLE" => Keeps(d)
  BY DecisionShapes DEF DecisionStep
<1> QED
  BY <1>1, <1>2, <1>3

LEMMA DecisionStepKeepsLocks ==
  ASSUME TypeInv, DecisionOK, NEW d \in Requests, DecisionStep(d) PROVE LocksExclusive'
<1>1. \A e \in Requests \ {d} : LocksRow(e)' = LocksRow(e) /\ work'[e].app = work[e].app
  BY DecisionMoves DEF LocksRow, WritesRow, Assigned
<1>2. LocksRow(d)' => /\ work'[d].app = work[d].app
                      /\ LocksRow(d) \/ ~RowLocked(work[d].app)
  <2>0. Keeps(d) => WritesRow(work[d])' = WritesRow(work[d])
    BY DEF Keeps, WritesRow, Assigned
  <2>1. CASE WriteDecision(d)
    <3>1. Keeps(d)
      BY <2>1, DecisionShapes
    <3> QED
      BY <2>0, <2>1, <3>1 DEF WriteDecision, LocksRow, Keeps
  <2>2. CASE SendDecisionEmail(d) \/ PostLetter(d)
    <3>1. Keeps(d) /\ work[d].pc \in {"WRITTEN", "MAILED"}
      BY <2>2, DecisionShapes
    <3> QED
      BY <2>0, <3>1 DEF LocksRow, Keeps
  <2>3. CASE ReadApplication(d) \/ CommitDecision(d) \/ FailWithoutAddress(d) \/ FailDecision(d)
    <3>1. work'[d].pc \in {"READ", "DONE", "FAILED"}
      BY <2>3, DecisionShapes
    <3> QED
      BY <3>1 DEF LocksRow
  <2> QED
    BY <2>1, <2>2, <2>3 DEF DecisionStep
<1>3. \A e \in Requests \ {d} : LocksRow(e) /\ work[e].app = work[d].app /\ LocksRow(d)' => FALSE
  BY <1>2 DEF DecisionOK, LocksExclusive, LocksRow, RowLocked
<1> SUFFICES ASSUME NEW e \in Requests, NEW f \in Requests, LocksRow(e)', LocksRow(f)',
                    work'[e].app = work'[f].app
             PROVE  e = f
  BY DEF LocksExclusive
<1>4. CASE e # d /\ f # d
  BY <1>1, <1>4 DEF DecisionOK, LocksExclusive
<1> QED
  BY <1>1, <1>2, <1>3, <1>4

(* Among requests that all change what they had loaded, the one that is not *)
(* done is the one that holds the row.                                      *)
LEMMA ChangesLock ==
  ASSUME TypeInv, NEW d \in Requests, Changes(d), work[d].pc # "DONE"
  PROVE  LocksRow(d)
  BY DEF Changes, LocksRow, WritesRow, Assigned, TypeInv, WorkOK

LEMMA DecisionStepKeepsMail ==
  ASSUME TypeInv, DecisionOK, NEW d \in Requests, DecisionStep(d) PROVE MailFollows'
<1> SUFFICES ASSUME NEW a \in Applications, MailedFor(a)' # {},
                    \A e \in MailedFor(a)' : Changes(e)'
             PROVE  \/ \E e \in MailedFor(a)' : work'[e].pc # "DONE" /\ lastMail'[a] = work'[e].verdict
                    \/ (\A e \in MailedFor(a)' : work'[e].pc = "DONE") /\ lastMail'[a] = row'[a].merits
  BY DEF MailFollows
<1>0. /\ \A e \in Requests \ {d} : work'[e] = work[e]
      /\ \A e \in Requests \ {d} : /\ (e \in MailedFor(a)' <=> e \in MailedFor(a))
                                   /\ Changes(e)' = Changes(e)
  BY DecisionMoves DEF MailedFor, Changes
<1>1. CASE work'[d].told = FALSE /\ work[d].told = FALSE
           /\ UNCHANGED <<row, lastMail>>
  <2>1. MailedFor(a)' = MailedFor(a) /\ d \notin MailedFor(a)
    BY <1>0, <1>1 DEF MailedFor
  <2> QED
    BY <1>0, <1>1, <2>1 DEF DecisionOK, MailFollows, MailedFor
<1>2. CASE ReadApplication(d)
  <2>1. /\ work'[d].told = FALSE /\ work[d].told = FALSE /\ UNCHANGED <<row, lastMail>>
    <3>1. work'[d].told = FALSE
      BY <1>2 DEF ReadApplication, IdleRequest, TypeInv, TypeOK
    <3>2. work[d].told \in BOOLEAN /\ ~work[d].told /\ UNCHANGED <<row, lastMail>>
      BY <1>2, DecisionShapes DEF TypeInv, TypeOK
    <3> QED
      BY <3>1, <3>2
  <2> QED
    BY <1>1, <2>1
<1>3. CASE WriteDecision(d)
  <2>1. /\ work'[d].told = work[d].told /\ UNCHANGED <<row, lastMail>>
    BY <1>3 DEF WriteDecision, At, TypeInv, TypeOK
  <2>2. work[d].told \in BOOLEAN /\ ~work[d].told
    BY <1>3, DecisionShapes DEF TypeInv, TypeOK
  <2> QED
    BY <1>1, <2>1, <2>2
<1>4. CASE SendDecisionEmail(d)
  <2>1. /\ work'[d].pc = "MAILED" /\ work'[d].told /\ work'[d].app = work[d].app
        /\ work'[d].verdict = work[d].verdict
        /\ lastMail' = [lastMail EXCEPT ![work[d].app] = work[d].verdict]
        /\ row' = row
    BY <1>4 DEF SendDecisionEmail, TypeInv, TypeOK
  <2>2. CASE work[d].app = a
    <3>1. d \in MailedFor(a)' /\ work'[d].pc # "DONE" /\ lastMail'[a] = work'[d].verdict
      BY <2>1, <2>2 DEF MailedFor, TypeInv, TypeOK
    <3> QED
      BY <3>1
  <2>3. CASE work[d].app # a
    <3>1. MailedFor(a)' = MailedFor(a) /\ d \notin MailedFor(a) /\ lastMail'[a] = lastMail[a]
      BY <1>0, <2>1, <2>3 DEF MailedFor, TypeInv, TypeOK
    <3> QED
      BY <1>0, <2>1, <3>1 DEF DecisionOK, MailFollows, MailedFor
  <2> QED
    BY <2>2, <2>3
<1>5. CASE PostLetter(d)
  <2>1. /\ work'[d].pc = "POSTED" /\ work[d].pc = "MAILED" /\ work'[d].told = work[d].told
        /\ work'[d].app = work[d].app /\ work'[d].verdict = work[d].verdict
        /\ work'[d].read = work[d].read
        /\ UNCHANGED <<row, lastMail>>
    BY <1>5 DEF PostLetter, At, TypeInv, TypeOK
  <2>2. MailedFor(a)' = MailedFor(a) /\ Changes(d)' = Changes(d)
    BY <1>0, <2>1 DEF MailedFor, Changes
  <2> QED
    BY <1>0, <2>1, <2>2 DEF DecisionOK, MailFollows, MailedFor
<1>6. CASE CommitDecision(d)
  <2>1. /\ work[d].pc \in {"MAILED", "POSTED"} /\ work[d].told /\ work'[d].pc = "DONE"
        /\ work'[d].told /\ work'[d].app = work[d].app /\ work'[d].verdict = work[d].verdict
        /\ work'[d].read = work[d].read /\ work[d].app \in Applications
        /\ row' = [row EXCEPT ![work[d].app] = Updated(@, work[d])]
        /\ lastMail' = lastMail
    BY <1>6 DEF CommitDecision, TypeInv, TypeOK, WorkOK, Committed
  <2>2. MailedFor(a)' = MailedFor(a)
    BY <1>0, <2>1 DEF MailedFor
  <2>3. CASE work[d].app = a
    <3>1. d \in MailedFor(a) /\ Changes(d) /\ \A e \in MailedFor(a) : Changes(e)
      BY <1>0, <2>1, <2>2, <2>3 DEF MailedFor, Changes
    <3>2. \A e \in MailedFor(a) : work[e].pc # "DONE" => e = d
      BY <2>1, <2>3, <3>1, ChangesLock DEF DecisionOK, LocksExclusive, MailedFor
    <3>3. lastMail[a] = work[d].verdict
      BY <2>1, <3>1, <3>2 DEF DecisionOK, MailFollows
    <3>4. row'[a].merits = work[d].verdict
      BY <2>1, <2>3, <3>1 DEF Updated, Assigned, Changes, TypeInv, TypeOK, WorkOK
    <3> QED
      BY <1>0, <2>1, <2>2, <3>2, <3>3, <3>4 DEF MailedFor
  <2>4. CASE work[d].app # a
    <3>1. row'[a] = row[a] /\ d \notin MailedFor(a)
      BY <2>1, <2>4 DEF TypeInv, TypeOK, MailedFor
    <3> QED
      BY <1>0, <2>1, <2>2, <3>1 DEF DecisionOK, MailFollows, MailedFor
  <2> QED
    BY <2>3, <2>4
<1>7. CASE FailWithoutAddress(d) \/ FailDecision(d)
  <2>1. /\ work'[d].pc = "FAILED" /\ work'[d].told = work[d].told /\ work'[d].app = work[d].app
        /\ UNCHANGED <<row, lastMail>>
    BY <1>7 DEF FailWithoutAddress, FailDecision, TypeInv, TypeOK
  <2>2. d \notin MailedFor(a)'
    BY <2>1 DEF Changes
  <2>3. MailedFor(a)' = MailedFor(a) /\ d \notin MailedFor(a)
    BY <1>0, <2>1, <2>2 DEF MailedFor
  <2> QED
    BY <1>0, <2>1, <2>3 DEF DecisionOK, MailFollows, MailedFor
<1> QED
  BY <1>2, <1>3, <1>4, <1>5, <1>6, <1>7 DEF DecisionStep

LEMMA DecisionStepKeepsDecided ==
  ASSUME TypeInv, DecisionOK, NEW d \in Requests, DecisionStep(d) PROVE DecidedOK'
<1>0. \A e \in Requests \ {d} : work'[e] = work[e]
  BY DecisionMoves
<1>1. CASE CommitDecision(d)
  <2> DEFINE w == work[d]
             b == w.app
  <2>1. /\ w.pc \in Active /\ w.pc # "DONE" /\ b \in Applications
        /\ row' = [row EXCEPT ![b] = Updated(@, w)]
        /\ decided' = [decided EXCEPT ![b] = d]
        /\ work' = [work EXCEPT ![d] = [@ EXCEPT !.pc = "DONE", !.alone = (w.base = decided[b])]]
    BY <1>1 DEF CommitDecision, Active, TypeInv, TypeOK, WorkOK, Committed
  <2>2. /\ work'[d].pc = "DONE" /\ work'[d].app = b /\ work'[d].verdict = w.verdict
        /\ work'[d].detail = w.detail /\ work'[d].read = w.read
        /\ work'[d].alone = (w.base = decided[b])
    BY <2>1 DEF TypeInv, TypeOK
  <2>3. w.base = decided[b] => row'[b] = Asked(w)
    <3> SUFFICES ASSUME w.base = decided[b]
                 PROVE  row'[b] = Assigned(w)
      BY DEF Assigned, Asked
    <3>1. row[b] = w.read
      BY <2>1 DEF DecisionOK, DecidedOK
    <3>2. Updated(w.read, w) = Assigned(w)
      BY DEF Updated, Assigned, TypeInv, TypeOK, Proceedings
    <3> QED
      BY <2>1, <3>1, <3>2 DEF TypeInv, TypeOK
  <2>4. decided'[b] = d /\ \A a \in Applications \ {b} : decided'[a] = decided[a] /\ row'[a] = row[a]
    BY <2>1 DEF TypeInv, TypeOK
  <2>5. \A a \in Applications \ {b} : decided[a] # NoOne => decided[a] # d /\ decided[a] \in Requests
    BY <2>1 DEF DecisionOK, DecidedOK, TypeInv, TypeOK
  <2>6. \A e \in Requests \ {d} : work[e].pc \in Active =>
          /\ work[e].base # d
          /\ work[e].base # NoOne => work[work[e].base].pc = "DONE" /\ work[e].base \in Requests
          /\ work[e].app \in Applications
    BY <2>1 DEF DecisionOK, DecidedOK, TypeInv, TypeOK, WorkOK, WorkRecords, Committed, Active
  <2>7. NoOne \notin Requests
    OBVIOUS
  <2> HIDE DEF w, b
  <2>8. ASSUME NEW a \in Applications, decided'[a] # NoOne
        PROVE  /\ work'[decided'[a]].pc = "DONE" /\ work'[decided'[a]].app = a
               /\ work'[decided'[a]].alone => row'[a] = Asked(work'[decided'[a]])
    <3>1. CASE a = b
      <4>1. Asked(work'[d]) = Asked(w)
        BY <2>2 DEF Asked
      <4> QED
        BY <2>2, <2>3, <2>4, <3>1, <4>1
    <3>2. CASE a # b
      <4>1. decided'[a] = decided[a] /\ row'[a] = row[a] /\ work'[decided[a]] = work[decided[a]]
        BY <1>0, <2>4, <2>5, <2>8, <3>2
      <4> QED
        BY <2>8, <4>1 DEF DecisionOK, DecidedOK
    <3> QED
      BY <3>1, <3>2
  <2>9. \A e \in Requests :
          work'[e].pc \in Active =>
            /\ work'[e].base # NoOne => work'[work'[e].base].pc = "DONE"
            /\ work'[e].base = decided'[work'[e].app] => work'[e].read = row'[work'[e].app]
    <3> SUFFICES ASSUME NEW e \in Requests, work'[e].pc \in Active
                 PROVE  /\ work'[e].base # NoOne => work'[work'[e].base].pc = "DONE"
                        /\ work'[e].base = decided'[work'[e].app] =>
                             work'[e].read = row'[work'[e].app]
      OBVIOUS
    <3>1. e # d /\ work'[e] = work[e]
      BY <1>0, <2>2 DEF Active
    <3> QED
      BY <1>0, <2>4, <2>6, <3>1 DEF DecisionOK, DecidedOK
  <2> QED
    BY <2>8, <2>9 DEF DecidedOK, Asked
<1>2. CASE ReadApplication(d)
  <2>1. PICK a \in Committed : /\ work'[d].app = a /\ work'[d].read = row[a]
                               /\ work'[d].base = decided[a] /\ work[d].pc = "IDLE"
    BY <1>2 DEF ReadApplication, IdleRequest, TypeInv, TypeOK
  <2>2. UNCHANGED <<row, decided>> /\ a \in Applications
    BY <1>2 DEF ReadApplication, Committed
  <2>3. \A e \in Applications : decided[e] # NoOne => decided[e] \in Requests \ {d}
    BY <2>1 DEF DecisionOK, DecidedOK, TypeInv, TypeOK
  <2>4. \A e \in Requests : work[e].pc \in Active /\ work[e].base # NoOne =>
           work[e].base # d /\ work[e].base \in Requests
    BY <2>1 DEF DecisionOK, DecidedOK, TypeInv, TypeOK
  <2>5. work[d].pc \notin Active
    BY <2>1 DEF Active
  <2>6. \A e \in Applications :
          decided'[e] # NoOne =>
            /\ decided'[e] = decided[e] /\ work'[decided'[e]] = work[decided[e]]
            /\ row'[e] = row[e]
    BY <1>0, <2>2, <2>3
  <2>7. \A e \in Requests :
          work'[e].pc \in Active =>
            /\ work'[e].base # NoOne => work'[work'[e].base].pc = "DONE"
            /\ work'[e].base = decided'[work'[e].app] => work'[e].read = row'[work'[e].app]
    <3> SUFFICES ASSUME NEW e \in Requests, work'[e].pc \in Active
                 PROVE  /\ work'[e].base # NoOne => work'[work'[e].base].pc = "DONE"
                        /\ work'[e].base = decided'[work'[e].app] =>
                             work'[e].read = row'[work'[e].app]
      OBVIOUS
    <3>1. CASE e = d
      <4>1. decided[a] # NoOne => work'[decided[a]] = work[decided[a]]
                                    /\ work[decided[a]].pc = "DONE"
        BY <1>0, <2>2, <2>3 DEF DecisionOK, DecidedOK
      <4> QED
        BY <2>1, <2>2, <3>1, <4>1
    <3>2. CASE e # d
      <4>1. work'[e] = work[e] /\ (work[e].base # NoOne => work'[work[e].base] = work[work[e].base])
        BY <1>0, <2>4, <3>2
      <4> QED
        BY <2>2, <4>1 DEF DecisionOK, DecidedOK
    <3> QED
      BY <3>1, <3>2
  <2> QED
    BY <2>6, <2>7 DEF DecisionOK, DecidedOK, Asked
<1>3. CASE WriteDecision(d) \/ SendDecisionEmail(d) \/ PostLetter(d)
           \/ FailWithoutAddress(d) \/ FailDecision(d)
  <2>1. /\ work[d].pc \in Active /\ work'[d].app = work[d].app /\ work'[d].read = work[d].read
        /\ work'[d].base = work[d].base
        /\ UNCHANGED <<row, decided>>
    BY <1>3, DecisionShapes DEF Keeps, Active
  <2>2. \A e \in Applications : decided[e] # NoOne => decided[e] \in Requests \ {d}
    BY <2>1 DEF DecisionOK, DecidedOK, TypeInv, TypeOK, Active
  <2>3. \A e \in Requests : work[e].pc \in Active /\ work[e].base # NoOne =>
           work[e].base # d /\ work[e].base \in Requests
    BY <2>1 DEF DecisionOK, DecidedOK, TypeInv, TypeOK, Active
  <2> QED
    BY <1>0, <2>1, <2>2, <2>3 DEF DecisionOK, DecidedOK
<1> QED
  BY <1>1, <1>2, <1>3 DEF DecisionStep

LEMMA DecisionStepKeepsFaults ==
  ASSUME TypeInv, DecisionOK, NEW d \in Requests, DecisionStep(d) PROVE ToldInVainHasItsFault'
<1>0. /\ \A e \in Requests \ {d} : work'[e] = work[e]
      /\ form' = form
  BY DecisionMoves DEF submissionVars
<1>1. /\ IsFiniteSet(ToldInVain) /\ Cardinality(ToldInVain) \in Nat
      /\ IsFiniteSet(Unaddressed) /\ Cardinality(Unaddressed) \in Nat
      /\ faults \in Nat
      /\ Cardinality(ToldInVain) <= faults + Cardinality(Unaddressed)
  <2>1. IsFiniteSet(ToldInVain) /\ IsFiniteSet(Unaddressed)
    BY FS_Subset DEF ToldInVain, Unaddressed
  <2>2. Cardinality(ToldInVain) <= faults + Cardinality(Unaddressed)
    BY DEF DecisionOK, ToldInVainHasItsFault, ToldInVain, Unaddressed
  <2> QED
    BY <2>1, <2>2, FS_CardinalityType DEF TypeInv, TypeOK
<1>2. CASE FailWithoutAddress(d)
  <2>1. /\ work[d].pc # "FAILED" /\ work'[d].pc = "FAILED" /\ work'[d].told = work[d].told
        /\ work'[d].app = work[d].app /\ faults' = faults
        /\ form[work[d].app].address = "ABSENT"
    BY <1>2 DEF FailWithoutAddress, NoAddressToMark, LetterRecordable, TypeInv, TypeOK
  <2>2. Unaddressed' = Unaddressed \cup {d} /\ d \notin Unaddressed /\ d \notin ToldInVain
    BY <1>0, <2>1 DEF Unaddressed, ToldInVain
  <2>3. ToldInVain' = ToldInVain \/ ToldInVain' = ToldInVain \cup {d}
    BY <1>0, <2>1 DEF ToldInVain
  <2>4. /\ Cardinality(Unaddressed') = Cardinality(Unaddressed) + 1
        /\ Cardinality(ToldInVain') <= Cardinality(ToldInVain) + 1
    <3>1. Cardinality(Unaddressed \cup {d}) = Cardinality(Unaddressed) + 1
      BY <1>1, <2>2, FS_AddElement
    <3>2. Cardinality(ToldInVain \cup {d}) = Cardinality(ToldInVain) + 1
      BY <1>1, <2>2, FS_AddElement
    <3>3. /\ Cardinality(ToldInVain') = Cardinality(ToldInVain)
               \/ Cardinality(ToldInVain') = Cardinality(ToldInVain \cup {d})
          /\ Cardinality(Unaddressed') = Cardinality(Unaddressed \cup {d})
      BY <2>2, <2>3, Zenon
    <3> QED
      BY <1>1, <3>1, <3>2, <3>3
  <2>5. Cardinality(ToldInVain') <= faults' + Cardinality(Unaddressed')
    <3>1. IsFiniteSet(ToldInVain') /\ IsFiniteSet(ToldInVain \cup {d})
      <4>1. IsFiniteSet(ToldInVain \cup {d})
        BY <1>1, FS_AddElement
      <4> QED
        BY <1>1, <2>3, <4>1, Zenon
    <3>2. Cardinality(ToldInVain') \in Nat
      BY <3>1, FS_CardinalityType
    <3> QED
      BY <1>1, <2>1, <2>4, <3>2
  <2> QED
    BY <2>5 DEF ToldInVainHasItsFault, ToldInVain, Unaddressed
<1>3. CASE FailDecision(d)
  <2>1. /\ work[d].pc # "FAILED" /\ work'[d].pc = "FAILED" /\ work'[d].told = work[d].told
        /\ work'[d].app = work[d].app /\ faults' = faults + 1
    BY <1>3 DEF FailDecision, Fault, Active, TypeInv, TypeOK
  <2>2. d \notin Unaddressed /\ d \notin ToldInVain
    BY <2>1 DEF Unaddressed, ToldInVain
  <2>3. ToldInVain' = ToldInVain \/ ToldInVain' = ToldInVain \cup {d}
    BY <1>0, <2>1 DEF ToldInVain
  <2>4. Unaddressed' = Unaddressed \/ Unaddressed' = Unaddressed \cup {d}
    BY <1>0, <2>1 DEF Unaddressed
  <2>5. /\ Cardinality(ToldInVain') = Cardinality(ToldInVain)
             \/ Cardinality(ToldInVain') = Cardinality(ToldInVain) + 1
        /\ Cardinality(Unaddressed') = Cardinality(Unaddressed)
             \/ Cardinality(Unaddressed') = Cardinality(Unaddressed) + 1
    BY <1>1, <2>2, <2>3, <2>4, FS_AddElement
  <2>6. Cardinality(ToldInVain') <= faults' + Cardinality(Unaddressed')
    BY <1>1, <2>1, <2>5
  <2> QED
    BY <2>6 DEF ToldInVainHasItsFault, ToldInVain, Unaddressed
<1>4. CASE ReadApplication(d) \/ WriteDecision(d) \/ SendDecisionEmail(d) \/ PostLetter(d)
           \/ CommitDecision(d)
  <2>1. work[d].pc # "FAILED" /\ work'[d].pc # "FAILED" /\ faults' = faults
    BY <1>4, DecisionShapes
  <2>2. ToldInVain' = ToldInVain /\ Unaddressed' = Unaddressed
    BY <1>0, <2>1 DEF ToldInVain, Unaddressed
  <2> QED
    BY <1>1, <2>1, <2>2 DEF ToldInVainHasItsFault, ToldInVain, Unaddressed
<1> QED
  BY <1>2, <1>3, <1>4 DEF DecisionStep

(* Changes of public bodies and stuttering leave decisions alone. *)
LEMMA OtherStepsKeepDecisionOK ==
  ASSUME TypeInv, DecisionOK, UNCHANGED <<submissionVars, decisionVars>>,
         faults' \in Nat, faults <= faults'
  PROVE  DecisionOK'
<1>1. LocksExclusive' /\ MailFollows' /\ DecidedOK'
  BY DEF DecisionOK, LocksExclusive, LocksRow, WritesRow, Assigned, MailFollows, MailedFor,
         Changes, DecidedOK, decisionVars
<1>2. ToldInVainHasItsFault'
  <2>1. ToldInVain' = ToldInVain /\ Unaddressed' = Unaddressed
    BY DEF ToldInVain, Unaddressed, decisionVars, submissionVars
  <2>2. Cardinality(ToldInVain) <= faults + Cardinality(Unaddressed)
    BY DEF DecisionOK, ToldInVainHasItsFault, ToldInVain, Unaddressed
  <2>3. Cardinality(ToldInVain) \in Nat /\ Cardinality(Unaddressed) \in Nat /\ faults \in Nat
    BY FS_Subset, FS_CardinalityType DEF ToldInVain, Unaddressed, TypeInv, TypeOK
  <2>4. Cardinality(ToldInVain)' <= faults' + Cardinality(Unaddressed)'
    BY <2>1, <2>2, <2>3
  <2> QED
    BY <2>4 DEF ToldInVainHasItsFault, ToldInVain, Unaddressed
<1> QED
  BY <1>1, <1>2 DEF DecisionOK

DecisionInv == TypeInv /\ DecisionOK

LEMMA DecisionsInvariant == Spec => []DecisionInv
<1>1. Init => DecisionOK
  <2> SUFFICES ASSUME Init PROVE DecisionOK
    OBVIOUS
  <2>1. LocksExclusive /\ MailFollows /\ DecidedOK
    BY DEF Init, IdleRequest, LocksExclusive, LocksRow, MailFollows, MailedFor, DecidedOK, Active
  <2>2. ToldInVain = {} /\ Unaddressed = {}
    BY DEF Init, IdleRequest, ToldInVain, Unaddressed
  <2>3. Cardinality(ToldInVain) <= faults + Cardinality(Unaddressed)
    BY <2>2, FS_EmptySet DEF Init
  <2> QED
    BY <2>1, <2>3 DEF DecisionOK, ToldInVainHasItsFault, ToldInVain, Unaddressed
<1>2. DecisionInv /\ [Next]_vars => DecisionOK'
  <2> SUFFICES ASSUME DecisionInv, [Next]_vars PROVE DecisionOK'
    OBVIOUS
  <2>1. ASSUME NEW a \in Applications, SubmissionStep(a) PROVE DecisionOK'
    BY <2>1, SubmissionStepKeepsDecisionOK DEF DecisionInv
  <2>2. ASSUME NEW d \in Requests, DecisionStep(d) PROVE DecisionOK'
    BY <2>2, DecisionStepKeepsLocks, DecisionStepKeepsMail, DecisionStepKeepsDecided,
       DecisionStepKeepsFaults DEF DecisionInv, DecisionOK
  <2>3. ASSUME NEW u \in Updates, UpdateStep(u) PROVE DecisionOK'
    <3>1. UNCHANGED <<submissionVars, decisionVars>> /\ faults' \in Nat /\ faults <= faults'
      BY <2>3 DEF UpdateStep, ReadBodies, ReplaceBodies, FailUpdate, Fault, DecisionInv,
                  TypeInv, TypeOK
    <3> QED
      BY <3>1, OtherStepsKeepDecisionOK DEF DecisionInv
  <2>4. CASE UNCHANGED vars
    <3>1. UNCHANGED <<submissionVars, decisionVars>> /\ faults' \in Nat /\ faults <= faults'
      BY <2>4 DEF vars, submissionVars, decisionVars, DecisionInv, TypeInv, TypeOK
    <3> QED
      BY <3>1, OtherStepsKeepDecisionOK DEF DecisionInv
  <2> QED
    BY <2>1, <2>2, <2>3, <2>4 DEF Next, AllAnswered
<1> QED
  BY <1>1, <1>2, TypesInvariant, PTL DEF Spec, DecisionInv

(* When every request that emailed was committed and changed the decision   *)
(* it had loaded, the last email tells what is stored.                      *)
THEOREM EmailsTellDecision == Spec => []LastEmailTellsDecision
<1>1. DecisionInv => LastEmailTellsDecision
  <2> SUFFICES ASSUME DecisionInv, NEW a \in Applications, MailedFor(a) # {},
                      \A d \in MailedFor(a) : work[d].pc = "DONE"
                                                /\ work[d].read.merits # work[d].verdict
               PROVE  lastMail[a] = row[a].merits
    BY DEF LastEmailTellsDecision, MailedFor
  <2> QED
    BY DEF DecisionInv, DecisionOK, MailFollows, Changes
<1> QED
  BY <1>1, DecisionsInvariant, PTL

(* The latest decision stands as it was requested unless another was        *)
(* committed after it had loaded the application.                           *)
THEOREM DecisionsStand == Spec => []DecisionStandsUnlessOverlapped
<1>1. DecisionInv => DecisionStandsUnlessOverlapped
  <2> SUFFICES ASSUME DecisionInv, NEW a \in Applications, decided[a] # NoOne,
                      work[decided[a]].alone
               PROVE  LET w == work[decided[a]]
                      IN  /\ row[a].merits = w.verdict
                          /\ w.verdict = "GRANTED" => row[a].start = w.detail /\ row[a].refusal = 0
                          /\ w.verdict = "REFUSED" => row[a].refusal = w.detail
    BY DEF DecisionStandsUnlessOverlapped
  <2>1. decided[a] \in Requests /\ work[decided[a]].pc = "DONE"
    BY DEF DecisionInv, DecisionOK, DecidedOK, TypeInv, TypeOK
  <2>2. work[decided[a]].verdict \in {"GRANTED", "REFUSED"}
    BY <2>1 DEF DecisionInv, TypeInv, WorkOK
  <2>3. row[a] = Asked(work[decided[a]])
    BY DEF DecisionInv, DecisionOK, DecidedOK
  <2> QED
    BY <2>2, <2>3 DEF Asked
<1> QED
  BY <1>1, DecisionsInvariant, PTL

(* A provider told of a decision that is not stored has met a failure, or   *)
(* the application has no address.                                          *)
THEOREM ToldInVainNeedsFault == Spec => []ToldInVainHasItsFault
<1>1. DecisionInv => ToldInVainHasItsFault
  BY DEF DecisionInv, DecisionOK
<1> QED
  BY <1>1, DecisionsInvariant, PTL

(***************************************************************************)
(* Public bodies                                                           *)
(***************************************************************************)
(* Rows were written by the submission or by a request that is done, and    *)
(* all of a writer's at once: who read one of them read them all.           *)
BodiesOK ==
  /\ \A u \in Updates :
       upd[u].pc # "IDLE" =>
         /\ upd[u].app \in Committed
         /\ \A z \in upd[u].old : z.by \in Updates => upd[z.by].pc = "DONE"
  /\ \A a \in Applications : \A x \in bodies[a] : x.by \in Updates => upd[x.by].pc = "DONE"
  /\ \A u \in Updates :
       upd[u].pc = "READ" =>
         \A y \in bodies[upd[u].app] :
           (y.by = NoOne \/ \E z \in upd[u].old : z.by = y.by) => y \in upd[u].old
  /\ MergedBodiesOverlapped

LEMMA SubmissionStepKeepsBodies ==
  ASSUME TypeInv, BodiesOK, NEW a \in Applications, SubmissionStep(a) PROVE BodiesOK'
<1>1. /\ upd' = upd /\ \A b \in Committed : b \in Committed' /\ b # a
  BY SubmissionMoves DEF TypeInv
<1>2. \/ bodies' = bodies
      \/ bodies' = [bodies EXCEPT ![a] = BodyRows(NoOne, form[a].bodies)]
  BY DEF SubmissionStep, GenerateReference, InsertApplication, RejectReference, RejectOffice,
         SearchDuplicates, SendConfirmation, CommitSubmission, FailSubmission, bodyVars
<1>3. \A b \in Applications \ {a} : bodies'[b] = bodies[b]
  BY <1>2 DEF TypeInv, TypeOK
<1>4. bodies'[a] = bodies[a] \/ \A x \in bodies'[a] : x.by = NoOne
  BY <1>2 DEF BodyRows, TypeInv, TypeOK
<1>5. /\ \A u \in Updates :
           upd'[u].pc # "IDLE" =>
             /\ upd'[u].app \in Committed' /\ upd'[u].app # a /\ upd'[u].app \in Applications
             /\ \A z \in upd'[u].old : z.by \in Updates => upd'[z.by].pc = "DONE"
  BY <1>1 DEF BodiesOK, Committed
<1>6. \A b \in Applications : \A x \in bodies'[b] : x.by \in Updates => upd'[x.by].pc = "DONE"
  BY <1>1, <1>3, <1>4 DEF BodiesOK
<1>7. \A u \in Updates :
        upd'[u].pc = "READ" =>
          \A y \in bodies'[upd'[u].app] :
            (y.by = NoOne \/ \E z \in upd'[u].old : z.by = y.by) => y \in upd'[u].old
  BY <1>1, <1>3, <1>5 DEF BodiesOK
<1>8. MergedBodiesOverlapped'
  BY <1>1, <1>3, <1>4 DEF BodiesOK, MergedBodiesOverlapped
<1> QED
  BY <1>5, <1>6, <1>7, <1>8 DEF BodiesOK

LEMMA UpdateStepKeepsBodies ==
  ASSUME TypeInv, BodiesOK, NEW u \in Updates, UpdateStep(u) PROVE BodiesOK'
<1>0. Committed' = Committed /\ Committed \subseteq Applications
  BY DEF UpdateStep, ReadBodies, ReplaceBodies, FailUpdate, submissionVars, Committed
<1>1. CASE ReadBodies(u)
  <2>1. PICK a \in Committed :
          /\ upd'[u].pc = "READ" /\ upd'[u].app = a /\ upd'[u].old = bodies[a]
          /\ upd[u].pc = "IDLE"
    BY <1>1 DEF ReadBodies, TypeInv, TypeOK
  <2>2. bodies' = bodies /\ \A v \in Updates \ {u} : upd'[v] = upd[v]
    BY <1>1 DEF ReadBodies, TypeInv, TypeOK
  <2>3. \A v \in Updates : upd[v].pc # "IDLE" => v # u
    BY <2>1
  <2>4. \A b \in Applications : \A x \in bodies[b] : x.by \in Updates => x.by # u
    BY <2>1 DEF BodiesOK
  <2>5. \A v \in Updates : upd[v].pc # "IDLE" => \A z \in upd[v].old : z.by \in Updates => z.by # u
    BY <2>1 DEF BodiesOK
  <2>6. MergedBodiesOverlapped'
    BY <2>2, <2>4 DEF BodiesOK, MergedBodiesOverlapped
  <2>7. a \in Applications
    BY <1>0
  <2> QED
    BY <1>0, <2>1, <2>2, <2>3, <2>4, <2>5, <2>6, <2>7 DEF BodiesOK
<1>2. CASE ReplaceBodies(u)
  <2> DEFINE a == upd[u].app
             old == upd[u].old
             new == BodyRows(u, upd[u].list)
  <2>1. /\ upd[u].pc = "READ" /\ a \in Applications
        /\ bodies' = [bodies EXCEPT ![a] = (@ \ old) \cup new]
        /\ upd' = [upd EXCEPT ![u].pc = "DONE"]
    BY <1>0, <1>2 DEF ReplaceBodies, BodiesOK
  <2>2. /\ \A v \in Updates \ {u} : upd'[v] = upd[v]
        /\ upd'[u].pc = "DONE" /\ upd'[u].app = a /\ upd'[u].old = old
    BY <2>1 DEF TypeInv, TypeOK
  <2>3. /\ bodies'[a] = (bodies[a] \ old) \cup new
        /\ \A b \in Applications \ {a} : bodies'[b] = bodies[b]
        /\ \A x \in new : x.by = u
    BY <2>1 DEF BodyRows, TypeInv, TypeOK
  <2> HIDE DEF a, old, new
  <2>4. \A v \in Updates : upd[v].pc # "IDLE" => \A z \in upd[v].old : z.by # u
    BY <2>1 DEF BodiesOK
  <2>5. \A y \in bodies[a] \ old : /\ y.by \in Updates \ {u}
                                   /\ \A z \in old : z.by # y.by
                                   /\ upd[y.by].pc # "IDLE"
    BY <2>1 DEF BodiesOK, TypeInv, TypeOK, a, old
  <2>6. \A v \in Updates :
          upd'[v].pc # "IDLE" =>
            /\ upd'[v].app \in Committed'
            /\ \A z \in upd'[v].old : z.by \in Updates => upd'[z.by].pc = "DONE"
    BY <1>0, <2>1, <2>2 DEF BodiesOK, a, old
  <2>7. \A b \in Applications : \A x \in bodies'[b] : x.by \in Updates => upd'[x.by].pc = "DONE"
    BY <2>2, <2>3 DEF BodiesOK
  <2>8. \A v \in Updates :
          upd'[v].pc = "READ" =>
            \A y \in bodies'[upd'[v].app] :
              (y.by = NoOne \/ \E z \in upd'[v].old : z.by = y.by) => y \in upd'[v].old
    <3> SUFFICES ASSUME NEW v \in Updates, upd'[v].pc = "READ", NEW y \in bodies'[upd'[v].app],
                        y.by = NoOne \/ \E z \in upd'[v].old : z.by = y.by
                 PROVE  y \in upd'[v].old
      OBVIOUS
    <3>1. v # u /\ upd'[v] = upd[v] /\ upd[v].pc = "READ" /\ upd[v].app \in Applications
      BY <1>0, <2>2 DEF BodiesOK
    <3>2. y.by # u
      BY <2>4, <3>1
    <3>3. y \in bodies[upd[v].app]
      BY <2>3, <3>1, <3>2
    <3> QED
      BY <3>1, <3>3 DEF BodiesOK
  <2>9. MergedBodiesOverlapped'
    <3> SUFFICES ASSUME NEW b \in Applications, NEW x \in bodies'[b], NEW y \in bodies'[b],
                        x.by # y.by
                 PROVE  /\ x.by \in Updates /\ y.by \in Updates
                        /\ \A z \in upd'[x.by].old : z.by # y.by
      BY DEF MergedBodiesOverlapped
    <3>1. \A v \in Updates : upd'[v].old = upd[v].old
      BY <2>2 DEF old
    <3>2. CASE x \in bodies[b] /\ y \in bodies[b]
      BY <3>1, <3>2 DEF BodiesOK, MergedBodiesOverlapped
    <3>3. CASE b = a /\ x \in new /\ y \in bodies[a] \ old
      BY <2>2, <2>3, <2>5, <3>3
    <3>4. CASE b = a /\ y \in new /\ x \in bodies[a] \ old
      BY <2>3, <2>4, <2>5, <3>1, <3>4
    <3> QED
      BY <2>3, <3>2, <3>3, <3>4
  <2> QED
    BY <2>6, <2>7, <2>8, <2>9 DEF BodiesOK
<1>3. CASE FailUpdate(u)
  <2>1. /\ upd[u].pc = "READ" /\ upd'[u].pc = "FAILED" /\ upd'[u].app = upd[u].app
        /\ upd'[u].old = upd[u].old /\ bodies' = bodies
        /\ \A v \in Updates \ {u} : upd'[v] = upd[v]
    BY <1>3 DEF FailUpdate, TypeInv, TypeOK
  <2>2. MergedBodiesOverlapped'
    BY <2>1 DEF BodiesOK, MergedBodiesOverlapped
  <2>3. /\ \A v \in Updates :
             upd[v].pc # "IDLE" => \A z \in upd[v].old : z.by \in Updates => z.by # u
        /\ \A b \in Applications : \A x \in bodies[b] : x.by \in Updates => x.by # u
    BY <2>1 DEF BodiesOK
  <2> QED
    BY <1>0, <2>1, <2>2, <2>3 DEF BodiesOK
<1> QED
  BY <1>1, <1>2, <1>3 DEF UpdateStep

LEMMA OtherStepsKeepBodies ==
  ASSUME BodiesOK, UNCHANGED <<submissionVars, bodyVars>> PROVE BodiesOK'
  BY DEF BodiesOK, MergedBodiesOverlapped, submissionVars, bodyVars, Committed

(* The public bodies of an application come from one request, unless        *)
(* updates overlapped.                                                      *)
THEOREM MergedBodiesNeedOverlap == Spec => []MergedBodiesOverlapped
<1>1. Init => BodiesOK
  BY DEF Init, IdleUpdate, BodiesOK, MergedBodiesOverlapped
<1>2. TypeInv /\ BodiesOK /\ [Next]_vars => BodiesOK'
  <2> SUFFICES ASSUME TypeInv, BodiesOK, [Next]_vars PROVE BodiesOK'
    OBVIOUS
  <2>1. ASSUME NEW d \in Requests, DecisionStep(d) PROVE UNCHANGED <<submissionVars, bodyVars>>
    BY <2>1, DecisionMoves
  <2>2. UNCHANGED vars => UNCHANGED <<submissionVars, bodyVars>>
    BY DEF vars, submissionVars, bodyVars
  <2> QED
    BY <2>1, <2>2, SubmissionStepKeepsBodies, UpdateStepKeepsBodies, OtherStepsKeepBodies
       DEF Next, AllAnswered
<1>3. BodiesOK => MergedBodiesOverlapped
  BY DEF BodiesOK
<1> QED
  BY <1>1, <1>2, <1>3, TypesInvariant, PTL DEF Spec
=============================================================================
