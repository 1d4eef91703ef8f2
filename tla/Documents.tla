------------------------------ MODULE Documents ------------------------------
(***************************************************************************)
(* Claim evidence and coroner's letters.  Their contents are files of the  *)
(* document store (SDS, adapters/sds_adapter.py) and their records are     *)
(* rows of claim_evidence and coroners_letter.  No transaction spans the   *)
(* two: an upload saves the file and then the row, a deletion erases the   *)
(* file and then the row, and a failure between the two is not undone.     *)
(* Claims are linked to evidence that exists, applications refer to their  *)
(* letter by a foreign key.  The steps are the calls of the store and the  *)
(* statements that read, lock or commit rows.                              *)
(*                                                                         *)
(* Abstractions.  A document is its contents, its file and its row; the    *)
(* unique name in the store is the document.  Evidence and letters have    *)
(* the same use cases twice and share the actions here.  A document of a   *)
(* type that cannot be shown is answered 415 and not read: left out.       *)
(***************************************************************************)
EXTENDS Integers, FiniteSets

CONSTANTS
  Evidence,      \* documents uploaded as evidence of claims
  Letters,       \* documents uploaded as coroner's letters
  Claims,        \* submissions of claims
  Applications,  \* submissions of applications
  Deletions,     \* requests that delete a document
  Downloads,     \* requests that read a document
  Nobody,        \* stands for no document and no claim
  MaxFaults      \* failures of the environment

Docs == Evidence \cup Letters

ASSUME SortsAssumption == Evidence \cap Letters = {} /\ Nobody \notin Docs \cup Claims
ASSUME FiniteAssumption ==
  IsFiniteSet(Evidence) /\ IsFiniteSet(Letters) /\ IsFiniteSet(Downloads)
ASSUME FaultsAssumption == MaxFaults \in Nat

VARIABLES
  file,      \* whether the store has the file: "NONE", "STORED", "ERASED"
  row,       \* whether the database has the row, in the same words
  upload,    \* where the request that uploads each document is
  linked,    \* claim_evidence.claim_id
  claim,     \* the requests that submit claims
  app,       \* the requests that submit applications
  deletion,  \* the requests that delete
  download,  \* the requests that read
  faults     \* failures so far

vars == <<file, row, upload, linked, claim, app, deletion, download, faults>>

Fault == faults < MaxFaults /\ faults' = faults + 1

(***************************************************************************)
(* Upload: UploadClaimEvidenceUseCase and UploadCoronersLetterUseCase      *)
(***************************************************************************)
Uploading(d) == upload[d] \in {"NEW", "CHECKED", "SAVED"}

Advance(d, from, to) == upload[d] = from /\ upload' = [upload EXCEPT ![d] = to]

(* The virus check passes the file, or finds a virus: answered 422. *)
VirusCheck(d) ==
  /\ Advance(d, "NEW", "CHECKED") \/ Advance(d, "NEW", "INFECTED")
  /\ UNCHANGED <<file, row, linked, claim, app, deletion, download, faults>>

SaveFile(d) ==
  /\ Advance(d, "CHECKED", "SAVED")
  /\ file' = [file EXCEPT ![d] = "STORED"]
  /\ UNCHANGED <<row, linked, claim, app, deletion, download, faults>>

(* Mutant: the row is committed before the file is saved. *)
SaveRowFirst(d) ==
  /\ Advance(d, "CHECKED", "DONE")
  /\ row' = [row EXCEPT ![d] = "STORED"]
  /\ UNCHANGED <<file, linked, claim, app, deletion, download, faults>>

(* Committed; the answer 201 tells the identifier. *)
SaveRow(d) ==
  /\ Advance(d, "SAVED", "DONE")
  /\ row' = [row EXCEPT ![d] = "STORED"]
  /\ UNCHANGED <<file, linked, claim, app, deletion, download, faults>>

(* The check, the store or the commit fails: answered 500.  The store may  *)
(* have saved a file although its answer is an error or is lost.           *)
FailUpload(d) ==
  /\ Uploading(d)
  /\ upload' = [upload EXCEPT ![d] = "FAILED"]
  /\ \/ UNCHANGED file
     \/ upload[d] = "CHECKED" /\ file' = [file EXCEPT ![d] = "STORED"]
  /\ Fault
  /\ UNCHANGED <<row, linked, claim, app, deletion, download>>

(***************************************************************************)
(* Links: CreateClaimUseCase with link_evidence_to_claim, and the foreign  *)
(* key application.coroners_letter_id                                      *)
(***************************************************************************)
IdleClaim == [pc |-> "NEW", found |-> {}]

(* Claims whose UPDATE of d's row is not committed. *)
LockedByClaim(d) == \E c \in Claims : claim[c].pc = "WRITTEN" /\ d \in claim[c].found

(* Of the evidence that is listed, what is not in the table is left out. *)
ReadEvidence(c) ==
  /\ claim[c].pc = "NEW"
  /\ \E listed \in SUBSET {d \in Evidence : upload[d] = "DONE"} :
       claim' = [claim EXCEPT ![c] =
                   [pc |-> "READ", found |-> {d \in listed : row[d] = "STORED"}]]
  /\ UNCHANGED <<file, row, upload, linked, app, deletion, download, faults>>

(* The flush locks the rows; it waits for a claim that has written them. *)
WriteLinks(c) ==
  /\ claim[c].pc = "READ"
  /\ \A d \in claim[c].found : row[d] = "STORED" /\ ~LockedByClaim(d)
  /\ claim' = [claim EXCEPT ![c].pc = "WRITTEN"]
  /\ UNCHANGED <<file, row, upload, linked, app, deletion, download, faults>>

(* A row has been deleted since it was read: the UPDATE matches too few. *)
StaleLink(c) ==
  /\ claim[c].pc = "READ"
  /\ \E d \in claim[c].found : row[d] # "STORED"
  /\ claim' = [claim EXCEPT ![c].pc = "FAILED"]
  /\ UNCHANGED <<file, row, upload, linked, app, deletion, download, faults>>

(* A link of the same evidence to another claim is overwritten. *)
CommitClaim(c) ==
  /\ claim[c].pc = "WRITTEN"
  /\ claim' = [claim EXCEPT ![c].pc = "DONE"]
  /\ linked' = [d \in Docs |-> IF d \in claim[c].found THEN c ELSE linked[d]]
  /\ UNCHANGED <<file, row, upload, app, deletion, download, faults>>

(* Mutant: the links are committed although the claim is not. *)
FailKeepingLinks(c) ==
  /\ claim[c].pc \in {"READ", "WRITTEN"}
  /\ claim' = [claim EXCEPT ![c].pc = "FAILED"]
  /\ linked' = [d \in Docs |-> IF d \in claim[c].found /\ row[d] = "STORED"
                                 THEN c ELSE linked[d]]
  /\ Fault
  /\ UNCHANGED <<file, row, upload, app, deletion, download>>

FailClaim(c) ==
  /\ claim[c].pc \in {"READ", "WRITTEN"}
  /\ claim' = [claim EXCEPT ![c].pc = "FAILED"]
  /\ Fault
  /\ UNCHANGED <<file, row, upload, linked, app, deletion, download>>

IdleApplication == [pc |-> "NEW", letter |-> Nobody]

Refers(a, d) == app[a].letter = d /\ app[a].pc \in {"INSERTED", "DONE"}

(* The foreign key holds when the application is inserted, and locks the   *)
(* letter's row until the commit.                                          *)
InsertApplication(a) ==
  /\ app[a].pc = "NEW"
  /\ \E d \in Letters :
       /\ upload[d] = "DONE"
       /\ app' = [app EXCEPT ![a] =
                    [pc |-> IF row[d] = "STORED" THEN "INSERTED" ELSE "FAILED",
                     letter |-> d]]
  /\ UNCHANGED <<file, row, upload, linked, claim, deletion, download, faults>>

CommitApplication(a) ==
  /\ app[a].pc = "INSERTED"
  /\ app' = [app EXCEPT ![a].pc = "DONE"]
  /\ UNCHANGED <<file, row, upload, linked, claim, deletion, download, faults>>

FailApplication(a) ==
  /\ app[a].pc = "INSERTED"
  /\ app' = [app EXCEPT ![a].pc = "FAILED"]
  /\ Fault
  /\ UNCHANGED <<file, row, upload, linked, claim, deletion, download>>

(* A committed application has this letter. *)
InUse(d) == \E a \in Applications : app[a].pc = "DONE" /\ app[a].letter = d

(***************************************************************************)
(* Deletion: DeleteClaimEvidenceUseCase and DeleteCoronersLetterUseCase    *)
(***************************************************************************)
IdleDeletion == [pc |-> "NEW", doc |-> Nobody, erased |-> FALSE]
Deleting == {"FOUND", "ERASED", "LOADED"}

(* The row is found, or 404 is answered. *)
FindRow(x) ==
  /\ deletion[x].pc = "NEW"
  /\ \E d \in Docs :
       /\ upload[d] = "DONE"
       /\ deletion' = [deletion EXCEPT ![x] =
                         [pc |-> IF row[d] = "STORED" THEN "FOUND" ELSE "NOT_FOUND",
                          doc |-> d, erased |-> FALSE]]
  /\ UNCHANGED <<file, row, upload, linked, claim, app, download, faults>>

(* The store erases the file.  Of a file it no longer has it may say that  *)
(* it is erased, or report an error: answered 500.                         *)
EraseFile(x) ==
  LET d == deletion[x].doc IN
  /\ deletion[x].pc = "FOUND"
  /\ \/ deletion' = [deletion EXCEPT ![x].pc = "ERASED", ![x].erased = TRUE]
     \/ file[d] = "ERASED" /\ deletion' = [deletion EXCEPT ![x].pc = "FAILED"]
  /\ file' = [file EXCEPT ![d] = "ERASED"]
  /\ UNCHANGED <<row, upload, linked, claim, app, download, faults>>

(* Mutant: the row is loaded for deletion before the file is erased. *)
LoadWithoutErasing(x) ==
  /\ deletion[x].pc \in {"FOUND", "ERASED"}
  /\ deletion' = [deletion EXCEPT ![x].pc =
                    IF row[deletion[x].doc] = "STORED" THEN "LOADED" ELSE "NOT_FOUND"]
  /\ UNCHANGED <<file, row, upload, linked, claim, app, download, faults>>

(* delete_..._by_id looks the row up again. *)
LoadRow(x) ==
  /\ deletion[x].pc = "ERASED"
  /\ deletion' = [deletion EXCEPT ![x].pc =
                    IF row[deletion[x].doc] = "STORED" THEN "LOADED" ELSE "NOT_FOUND"]
  /\ UNCHANGED <<file, row, upload, linked, claim, app, download, faults>>

(* Mutant: no foreign key protects the letter of an application. *)
DeleteUnprotected(x) ==
  LET d == deletion[x].doc IN
  /\ deletion[x].pc = "LOADED"
  /\ ~LockedByClaim(d)
  /\ deletion' = [deletion EXCEPT ![x].pc = "DONE"]
  /\ row' = [row EXCEPT ![d] = "ERASED"]
  /\ UNCHANGED <<file, upload, linked, claim, app, download, faults>>

(* Mutant: the DELETE does not wait for a claim that has written the row. *)
DeleteWithoutWaiting(x) ==
  LET d == deletion[x].doc IN
  /\ deletion[x].pc = "LOADED"
  /\ \A a \in Applications : Refers(a, d) => app[a].pc = "DONE"
  /\ IF InUse(d)
       THEN deletion' = [deletion EXCEPT ![x].pc = "FAILED"] /\ UNCHANGED row
       ELSE /\ deletion' = [deletion EXCEPT ![x].pc = "DONE"]
            /\ row' = [row EXCEPT ![d] = "ERASED"]
  /\ UNCHANGED <<file, upload, linked, claim, app, download, faults>>

(* Mutant: evidence of a claim is refused once its file is erased. *)
DeleteUnlinkedOnly(x) ==
  LET d == deletion[x].doc IN
  /\ deletion[x].pc = "LOADED"
  /\ ~LockedByClaim(d)
  /\ \A a \in Applications : Refers(a, d) => app[a].pc = "DONE"
  /\ IF InUse(d) \/ linked[d] # Nobody
       THEN deletion' = [deletion EXCEPT ![x].pc = "FAILED"] /\ UNCHANGED row
       ELSE /\ deletion' = [deletion EXCEPT ![x].pc = "DONE"]
            /\ row' = [row EXCEPT ![d] = "ERASED"]
  /\ UNCHANGED <<file, upload, linked, claim, app, download, faults>>

(* DELETE and commit, once no request holds the row: an application's      *)
(* letter stays, by the foreign key, and 500 is answered; a row that has   *)
(* been deleted meanwhile is deleted as well, and evidence of a claim too. *)
DeleteRow(x) ==
  LET d == deletion[x].doc IN
  /\ deletion[x].pc = "LOADED"
  /\ ~LockedByClaim(d)
  /\ \A a \in Applications : Refers(a, d) => app[a].pc = "DONE"
  /\ IF InUse(d)
       THEN deletion' = [deletion EXCEPT ![x].pc = "FAILED"] /\ UNCHANGED row
       ELSE /\ deletion' = [deletion EXCEPT ![x].pc = "DONE"]
            /\ row' = [row EXCEPT ![d] = "ERASED"]
  /\ UNCHANGED <<file, upload, linked, claim, app, download, faults>>

(* Before the store has answered, it may have erased the file or not. *)
FailDelete(x) ==
  LET d == deletion[x].doc IN
  /\ deletion[x].pc \in Deleting
  /\ \/ deletion' = [deletion EXCEPT ![x].pc = "FAILED"] /\ UNCHANGED file
     \/ /\ deletion[x].pc = "FOUND"
        /\ deletion' = [deletion EXCEPT ![x].pc = "FAILED", ![x].erased = TRUE]
        /\ file' = [file EXCEPT ![d] = "ERASED"]
  /\ Fault
  /\ UNCHANGED <<row, upload, linked, claim, app, download>>

(***************************************************************************)
(* Reading: RetrieveClaimEvidenceUseCase and RetrieveCoronersLetterUseCase *)
(***************************************************************************)
IdleDownload == [pc |-> "NEW", doc |-> Nobody]

(* Evidence is found by its identifier, a letter through its application.  *)
(* retrieve_... of the adapter is a generator: nothing of it runs before   *)
(* the answer 200 has begun.                                               *)
AnswerDownload(r) ==
  /\ download[r].pc = "NEW"
  /\ \E d \in Docs :
       /\ upload[d] = "DONE"
       /\ download' = [download EXCEPT ![r] =
            [pc |-> IF row[d] = "STORED" /\ (d \in Letters => InUse(d))
                      THEN "ANSWERED" ELSE "NOT_FOUND",
             doc |-> d]]
  /\ UNCHANGED <<file, row, upload, linked, claim, app, deletion, faults>>

(* The contents are asked for; without the file the answer breaks off. *)
Stream(r) ==
  /\ download[r].pc = "ANSWERED"
  /\ download' = [download EXCEPT ![r].pc =
                    IF file[download[r].doc] = "STORED" THEN "DELIVERED" ELSE "BROKEN"]
  /\ UNCHANGED <<file, row, upload, linked, claim, app, deletion, faults>>

FailStream(r) ==
  /\ download[r].pc = "ANSWERED"
  /\ download' = [download EXCEPT ![r].pc = "BROKEN"]
  /\ Fault
  /\ UNCHANGED <<file, row, upload, linked, claim, app, deletion>>

(***************************************************************************)
(* The specification                                                       *)
(***************************************************************************)
Init ==
  /\ file = [d \in Docs |-> "NONE"]
  /\ row = [d \in Docs |-> "NONE"]
  /\ upload = [d \in Docs |-> "NEW"]
  /\ linked = [d \in Docs |-> Nobody]
  /\ claim = [c \in Claims |-> IdleClaim]
  /\ app = [a \in Applications |-> IdleApplication]
  /\ deletion = [x \in Deletions |-> IdleDeletion]
  /\ download = [r \in Downloads |-> IdleDownload]
  /\ faults = 0

UploadStep(d) == VirusCheck(d) \/ SaveFile(d) \/ SaveRow(d) \/ FailUpload(d)
ClaimStep(c) ==
  ReadEvidence(c) \/ WriteLinks(c) \/ StaleLink(c) \/ CommitClaim(c) \/ FailClaim(c)
ApplicationStep(a) == InsertApplication(a) \/ CommitApplication(a) \/ FailApplication(a)
DeletionStep(x) ==
  FindRow(x) \/ EraseFile(x) \/ LoadRow(x) \/ DeleteRow(x) \/ FailDelete(x)
DownloadStep(r) == AnswerDownload(r) \/ Stream(r) \/ FailStream(r)

(* Every upload has been answered, and every other request that began. *)
AllAnswered ==
  /\ \A d \in Docs : ~Uploading(d)
  /\ \A c \in Claims : claim[c].pc \notin {"READ", "WRITTEN"}
  /\ \A a \in Applications : app[a].pc # "INSERTED"
  /\ \A x \in Deletions : deletion[x].pc \notin Deleting
  /\ \A r \in Downloads : download[r].pc # "ANSWERED"
  /\ UNCHANGED vars

Next ==
  \/ \E d \in Docs : UploadStep(d)
  \/ \E c \in Claims : ClaimStep(c)
  \/ \E a \in Applications : ApplicationStep(a)
  \/ \E x \in Deletions : DeletionStep(x)
  \/ \E r \in Downloads : DownloadStep(r)
  \/ AllAnswered

Spec == Init /\ [][Next]_vars

(***************************************************************************)
(* Properties                                                              *)
(***************************************************************************)
(* The variables hold what the rows, files and requests can hold; a file   *)
(* comes before its row, and only evidence is linked to claims.            *)
TypeOK ==
  /\ file \in [Docs -> {"NONE", "STORED", "ERASED"}]
  /\ row \in [Docs -> {"NONE", "STORED", "ERASED"}]
  /\ upload \in [Docs -> {"NEW", "CHECKED", "SAVED", "DONE", "INFECTED", "FAILED"}]
  /\ linked \in [Docs -> Claims \cup {Nobody}]
  /\ claim \in [Claims -> [pc : {"NEW", "READ", "WRITTEN", "DONE", "FAILED"},
                           found : SUBSET Evidence]]
  /\ app \in [Applications -> [pc : {"NEW", "INSERTED", "DONE", "FAILED"},
                               letter : Letters \cup {Nobody}]]
  /\ deletion \in [Deletions ->
       [pc : {"NEW", "NOT_FOUND", "DONE", "FAILED"} \cup Deleting,
        doc : Docs \cup {Nobody}, erased : BOOLEAN]]
  /\ download \in [Downloads ->
       [pc : {"NEW", "NOT_FOUND", "ANSWERED", "DELIVERED", "BROKEN"},
        doc : Docs \cup {Nobody}]]
  /\ faults \in 0..MaxFaults
  /\ \A d \in Docs : row[d] # "NONE" => file[d] # "NONE"

(* Files that nothing refers to and nothing will remove are left only by   *)
(* uploads that met a failure, never by a deletion, however many overlap.  *)
OrphanFilesHaveTheirFault ==
  Cardinality({d \in Docs : /\ file[d] = "STORED" /\ row[d] # "STORED"
                            /\ ~Uploading(d)}) <= faults

(* A row whose file is gone, while nobody is deleting it, has met a failure *)
(* of the environment, unless it is the letter of an application: the       *)
(* request to delete that erases the letter and is then refused.            *)
LostFilesHaveTheirCause ==
  Cardinality({d \in Docs :
                 /\ row[d] = "STORED" /\ file[d] # "STORED"
                 /\ ~InUse(d)
                 /\ \A x \in Deletions : deletion[x].doc = d =>
                                           deletion[x].pc \notin Deleting}) <= faults

(* A deletion that is answered 204 has removed the file and the row, though *)
(* another may have deleted the row first or a claim may have just linked   *)
(* it; and no application's letter is ever deleted so.                      *)
DeletionsAnsweredTruly ==
  \A x \in Deletions :
    deletion[x].pc = "DONE" =>
      LET d == deletion[x].doc IN
      file[d] = "ERASED" /\ row[d] = "ERASED" /\ \A a \in Applications : ~Refers(a, d)

(* Evidence is linked to a submitted claim that lists it, and what such a   *)
(* claim found is linked to it or to another that lists it, which took it   *)
(* over without a word.                                                     *)
EvidenceFollowsClaims ==
  /\ \A d \in Docs : linked[d] # Nobody =>
       claim[linked[d]].pc = "DONE" /\ d \in claim[linked[d]].found
  /\ \A c \in Claims : claim[c].pc = "DONE" =>
       \A d \in claim[c].found : linked[d] # Nobody

(* An answer 200 whose contents never come has met a failure, or a deletion *)
(* that erased the file while the row was still there to be found.          *)
BrokenDownloadsHaveTheirCause ==
  Cardinality({r \in Downloads :
                 /\ download[r].pc = "BROKEN"
                 /\ \A x \in Deletions :
                      ~(deletion[x].erased /\ deletion[x].doc = download[r].doc)})
    <= faults

(* How much there is of a document, and who has it. *)
Kept ==
  [d \in Docs |->
     IF row[d] = "NONE" THEN (IF file[d] = "NONE" THEN "NONE" ELSE "FILE")
     ELSE IF row[d] = "ERASED" THEN "GONE"
     ELSE IF file[d] = "STORED" THEN "WHOLE" ELSE "ROW"]
UsersOf(d) ==
  IF d \in Letters THEN {a \in Applications : app[a].pc = "DONE" /\ app[a].letter = d}
                   ELSE {linked[d]} \ {Nobody}

Users == [d \in Docs |-> UsersOf(d)]

Custody == INSTANCE DocumentCustody WITH kept <- Kept, users <- Users

(* Rows come last and go last however uploads and deletions overlap and fail; *)
(* a claim that commits has every row it found, although it read them before  *)
(* and deletions run beside it; and no application loses its letter's row.    *)
ImplementsCustody == Custody!Spec
=============================================================================
