--------------------------- MODULE DocumentsProofs ---------------------------
(***************************************************************************)
(* Theorems about Documents, for every set of documents and requests and   *)
(* every number of failures.                                               *)
(***************************************************************************)
EXTENDS Documents, FiniteSetTheorems, TLAPS

USE SortsAssumption, FiniteAssumption, FaultsAssumption

(***************************************************************************)
(* Files, rows and the requests that hold them                             *)
(***************************************************************************)
(* What the progress of an upload says of the file and the row, and what a *)
(* deletion, an application, a claim and a download say of their document. *)
FilesOK ==
  /\ \A d \in Docs :
       /\ row[d] # "NONE" <=> upload[d] = "DONE"
       /\ upload[d] \in {"NEW", "CHECKED", "INFECTED"} => file[d] = "NONE"
       /\ upload[d] = "SAVED" => file[d] = "STORED"
       /\ upload[d] = "DONE" => file[d] # "NONE"
       /\ upload[d] = "FAILED" => file[d] # "ERASED"
       /\ row[d] = "ERASED" => file[d] = "ERASED"
  /\ \A x \in Deletions :
       /\ deletion[x].pc # "NEW" => deletion[x].doc \in Docs /\ upload[deletion[x].doc] = "DONE"
       /\ deletion[x].pc = "NEW" => ~deletion[x].erased
       /\ deletion[x].pc \in {"ERASED", "LOADED", "DONE"} => file[deletion[x].doc] = "ERASED"
       /\ deletion[x].pc = "DONE" => row[deletion[x].doc] = "ERASED"
  /\ \A d \in Docs : file[d] = "ERASED" =>
       \E x \in Deletions : deletion[x].erased /\ deletion[x].doc = d
  /\ \A a \in Applications : app[a].pc \in {"INSERTED", "DONE"} =>
       app[a].letter \in Letters /\ row[app[a].letter] = "STORED"
  /\ \A r \in Downloads : download[r].pc # "NEW" =>
       download[r].doc \in Docs /\ upload[download[r].doc] = "DONE"

LEMMA UploadStepKeepsTypes ==
  ASSUME TypeOK, FilesOK, NEW d \in Docs, UploadStep(d) PROVE TypeOK' /\ FilesOK'
<1>1. CASE VirusCheck(d)
  <2>1. TypeOK'
    BY <1>1 DEF TypeOK, FilesOK, Docs, VirusCheck, Advance
  <2>2. FilesOK'
    BY <1>1 DEF TypeOK, FilesOK, Docs, VirusCheck, Advance
  <2> QED
    BY <2>1, <2>2
<1>2. CASE SaveFile(d)
  <2>1. TypeOK'
    BY <1>2 DEF TypeOK, FilesOK, Docs, SaveFile, Advance
  <2>2. FilesOK'
    BY <1>2 DEF TypeOK, FilesOK, Docs, SaveFile, Advance
  <2> QED
    BY <2>1, <2>2
<1>3. CASE SaveRow(d)
  <2>1. TypeOK'
    BY <1>3 DEF TypeOK, FilesOK, Docs, SaveRow, Advance
  <2>2. FilesOK'
    BY <1>3 DEF TypeOK, FilesOK, Docs, SaveRow, Advance
  <2> QED
    BY <2>1, <2>2
<1>4. CASE FailUpload(d)
  <2>1. TypeOK'
    BY <1>4 DEF TypeOK, FilesOK, Docs, FailUpload, Fault, Uploading
  <2>2. FilesOK'
    BY <1>4 DEF TypeOK, FilesOK, Docs, FailUpload, Fault, Uploading
  <2> QED
    BY <2>1, <2>2
<1> QED
  BY <1>1, <1>2, <1>3, <1>4 DEF UploadStep

LEMMA ClaimStepKeepsTypes ==
  ASSUME TypeOK, FilesOK, NEW c \in Claims, ClaimStep(c) PROVE TypeOK' /\ FilesOK'
<1>1. CASE ReadEvidence(c)
  <2>1. TypeOK'
    BY <1>1 DEF TypeOK, FilesOK, Docs, ReadEvidence
  <2>2. FilesOK'
    BY <1>1 DEF TypeOK, FilesOK, Docs, ReadEvidence
  <2> QED
    BY <2>1, <2>2
<1>2. CASE WriteLinks(c)
  <2>1. TypeOK'
    BY <1>2 DEF TypeOK, FilesOK, Docs, WriteLinks
  <2>2. FilesOK'
    BY <1>2 DEF TypeOK, FilesOK, Docs, WriteLinks
  <2> QED
    BY <2>1, <2>2
<1>3. CASE StaleLink(c)
  <2>1. TypeOK'
    BY <1>3 DEF TypeOK, FilesOK, Docs, StaleLink
  <2>2. FilesOK'
    BY <1>3 DEF TypeOK, FilesOK, Docs, StaleLink
  <2> QED
    BY <2>1, <2>2
<1>4. CASE CommitClaim(c)
  <2>1. TypeOK'
    BY <1>4 DEF TypeOK, FilesOK, Docs, CommitClaim
  <2>2. FilesOK'
    BY <1>4 DEF TypeOK, FilesOK, Docs, CommitClaim
  <2> QED
    BY <2>1, <2>2
<1>5. CASE FailClaim(c)
  <2>1. TypeOK'
    BY <1>5 DEF TypeOK, FilesOK, Docs, FailClaim, Fault
  <2>2. FilesOK'
    BY <1>5 DEF TypeOK, FilesOK, Docs, FailClaim, Fault
  <2> QED
    BY <2>1, <2>2
<1> QED
  BY <1>1, <1>2, <1>3, <1>4, <1>5 DEF ClaimStep

LEMMA ApplicationStepKeepsTypes ==
  ASSUME TypeOK, FilesOK, NEW a \in Applications, ApplicationStep(a) PROVE TypeOK' /\ FilesOK'
<1>1. CASE InsertApplication(a)
  <2>1. TypeOK'
    BY <1>1 DEF TypeOK, FilesOK, Docs, InsertApplication
  <2>2. FilesOK'
    BY <1>1 DEF TypeOK, FilesOK, Docs, InsertApplication
  <2> QED
    BY <2>1, <2>2
<1>2. CASE CommitApplication(a)
  <2>1. TypeOK'
    BY <1>2 DEF TypeOK, FilesOK, Docs, CommitApplication
  <2>2. FilesOK'
    BY <1>2 DEF TypeOK, FilesOK, Docs, CommitApplication
  <2> QED
    BY <2>1, <2>2
<1>3. CASE FailApplication(a)
  <2>1. TypeOK'
    BY <1>3 DEF TypeOK, FilesOK, Docs, FailApplication, Fault
  <2>2. FilesOK'
    BY <1>3 DEF TypeOK, FilesOK, Docs, FailApplication, Fault
  <2> QED
    BY <2>1, <2>2
<1> QED
  BY <1>1, <1>2, <1>3 DEF ApplicationStep

LEMMA DeletionStepKeepsTypes ==
  ASSUME TypeOK, FilesOK, NEW x \in Deletions, DeletionStep(x) PROVE TypeOK' /\ FilesOK'
<1> DEFINE d == deletion[x].doc
<1>1. CASE FindRow(x)
  <2>1. TypeOK'
    BY <1>1 DEF TypeOK, FilesOK, Docs, FindRow, Deleting
  <2>2. FilesOK'
    BY <1>1 DEF TypeOK, FilesOK, Docs, FindRow, Deleting
  <2> QED
    BY <2>1, <2>2
<1>2. CASE EraseFile(x)
  <2>1. d \in Docs /\ upload[d] = "DONE" /\ row[d] # "NONE"
    BY <1>2 DEF EraseFile, FilesOK
  <2>2. /\ file' = [file EXCEPT ![d] = "ERASED"]
        /\ UNCHANGED <<row, upload, linked, claim, app, download, faults>>
    BY <1>2 DEF EraseFile
  <2>3. TypeOK'
    BY <1>2, <2>1, <2>2 DEF TypeOK, EraseFile, Deleting
  <2>4. FilesOK'
    <3>1. CASE deletion' = [deletion EXCEPT ![x].pc = "ERASED", ![x].erased = TRUE]
      <4>1. deletion'[x].doc = d /\ deletion'[x].pc = "ERASED" /\ deletion'[x].erased
        BY <3>1 DEF TypeOK
      <4>2. \A y \in Deletions : y # x => deletion'[y] = deletion[y]
        BY <3>1 DEF TypeOK
      <4>3. \A y \in Deletions : deletion[y].erased => deletion'[y].erased
        BY <4>1, <4>2
      <4>4. \A y \in Deletions : deletion'[y].doc = deletion[y].doc
        BY <4>1, <4>2
      <4> QED
        BY <2>1, <2>2, <4>1, <4>2, <4>3, <4>4 DEF TypeOK, FilesOK
    <3>2. CASE /\ file[d] = "ERASED"
               /\ deletion' = [deletion EXCEPT ![x].pc = "FAILED"]
      <4>1. /\ deletion'[x].doc = d /\ deletion'[x].pc = "FAILED"
            /\ deletion'[x].erased = deletion[x].erased
        BY <3>2 DEF TypeOK
      <4>2. \A y \in Deletions : y # x => deletion'[y] = deletion[y]
        BY <3>2 DEF TypeOK
      <4>3. file' = file
        BY <2>1, <2>2, <3>2 DEF TypeOK
      <4>4. \A y \in Deletions : /\ deletion'[y].doc = deletion[y].doc
                                 /\ deletion'[y].erased = deletion[y].erased
        BY <4>1, <4>2
      <4>5. (\A y \in Deletions :
               /\ deletion[y].pc # "NEW" => deletion[y].doc \in Docs /\ upload[deletion[y].doc] = "DONE"
               /\ deletion[y].pc = "NEW" => ~deletion[y].erased
               /\ deletion[y].pc \in {"ERASED", "LOADED", "DONE"} => file[deletion[y].doc] = "ERASED"
               /\ deletion[y].pc = "DONE" => row[deletion[y].doc] = "ERASED")'
        BY <2>1, <2>2, <4>1, <4>2, <4>3 DEF FilesOK
      <4> QED
        BY <2>2, <4>3, <4>4, <4>5 DEF FilesOK
    <3> QED
      BY <1>2, <3>1, <3>2 DEF EraseFile
  <2> QED
    BY <2>3, <2>4
<1>3. CASE LoadRow(x)
  <2>1. TypeOK'
    BY <1>3 DEF TypeOK, FilesOK, Docs, LoadRow, Deleting
  <2>2. FilesOK'
    BY <1>3 DEF TypeOK, FilesOK, Docs, LoadRow, Deleting
  <2> QED
    BY <2>1, <2>2
<1>4. CASE DeleteRow(x)
  <2>1. d \in Docs /\ upload[d] = "DONE" /\ file[d] = "ERASED" /\ row[d] # "NONE"
    BY <1>4 DEF DeleteRow, FilesOK
  <2>2. UNCHANGED <<file, upload, linked, claim, app, download, faults>>
    BY <1>4 DEF DeleteRow
  <2>3. CASE InUse(d)
    <3>1. deletion' = [deletion EXCEPT ![x].pc = "FAILED"] /\ row' = row
      BY <1>4, <2>3 DEF DeleteRow
    <3>2. /\ deletion'[x].doc = d /\ deletion'[x].pc = "FAILED"
          /\ deletion'[x].erased = deletion[x].erased
      BY <3>1 DEF TypeOK
    <3>3. \A y \in Deletions : y # x => deletion'[y] = deletion[y]
      BY <3>1 DEF TypeOK
    <3>4. TypeOK'
      BY <2>2, <3>1 DEF TypeOK, Deleting
    <3>5. FilesOK'
      BY <2>1, <2>2, <3>1, <3>2, <3>3 DEF TypeOK, FilesOK
    <3> QED
      BY <3>4, <3>5
  <2>4. CASE ~InUse(d)
    <3>1. /\ deletion' = [deletion EXCEPT ![x].pc = "DONE"]
          /\ row' = [row EXCEPT ![d] = "ERASED"]
      BY <1>4, <2>4 DEF DeleteRow
    <3>2. /\ deletion'[x].doc = d /\ deletion'[x].pc = "DONE"
          /\ deletion'[x].erased = deletion[x].erased
      BY <1>4, <3>1 DEF TypeOK, DeleteRow
    <3>3. \A y \in Deletions : y # x => deletion'[y] = deletion[y]
      BY <3>1 DEF TypeOK
    <3>4. \A e \in Docs : row'[e] = IF e = d THEN "ERASED" ELSE row[e]
      BY <2>1, <3>1 DEF TypeOK
    <3>5. \A a \in Applications : ~Refers(a, d)
      BY <1>4, <2>4 DEF DeleteRow, InUse, Refers
    <3>6. TypeOK'
      BY <2>1, <2>2, <3>1, <3>4 DEF TypeOK, Deleting
    <3>7. \A y \in Deletions : /\ deletion'[y].doc = deletion[y].doc
                               /\ deletion'[y].erased = deletion[y].erased
      BY <3>2, <3>3
    <3>8. (\A y \in Deletions :
             /\ deletion[y].pc # "NEW" => deletion[y].doc \in Docs /\ upload[deletion[y].doc] = "DONE"
             /\ deletion[y].pc = "NEW" => ~deletion[y].erased
             /\ deletion[y].pc \in {"ERASED", "LOADED", "DONE"} => file[deletion[y].doc] = "ERASED"
             /\ deletion[y].pc = "DONE" => row[deletion[y].doc] = "ERASED")'
      BY <2>1, <2>2, <3>2, <3>3, <3>4 DEF FilesOK
    <3>9. (\A a \in Applications : app[a].pc \in {"INSERTED", "DONE"} =>
             app[a].letter \in Letters /\ row[app[a].letter] = "STORED")'
      BY <2>2, <3>4, <3>5 DEF FilesOK, Refers, Docs
    <3>10. FilesOK'
      BY <2>1, <2>2, <3>4, <3>7, <3>8, <3>9 DEF FilesOK
    <3> QED
      BY <3>6, <3>10
  <2> QED
    BY <2>3, <2>4
<1>5. CASE FailDelete(x)
  <2>1. d \in Docs /\ upload[d] = "DONE" /\ row[d] # "NONE"
    BY <1>5 DEF FailDelete, FilesOK, Deleting
  <2>2. /\ UNCHANGED <<row, upload, linked, claim, app, download>>
        /\ faults' \in 0..MaxFaults
    BY <1>5 DEF FailDelete, Fault, TypeOK
  <2>3. CASE deletion' = [deletion EXCEPT ![x].pc = "FAILED"] /\ UNCHANGED file
    <3>1. TypeOK'
      BY <2>2, <2>3 DEF TypeOK, Deleting
    <3>2. /\ deletion'[x].doc = d /\ deletion'[x].pc = "FAILED"
          /\ deletion'[x].erased = deletion[x].erased
      BY <2>3 DEF TypeOK
    <3>3. \A y \in Deletions : y # x => deletion'[y] = deletion[y]
      BY <2>3 DEF TypeOK
    <3>4. FilesOK'
      BY <2>1, <2>2, <2>3, <3>2, <3>3 DEF TypeOK, FilesOK
    <3> QED
      BY <3>1, <3>4
  <2>4. CASE /\ deletion' = [deletion EXCEPT ![x].pc = "FAILED", ![x].erased = TRUE]
             /\ file' = [file EXCEPT ![d] = "ERASED"]
    <3>1. TypeOK'
      <4>1. file' \in [Docs -> {"NONE", "STORED", "ERASED"}]
        BY <2>4 DEF TypeOK
      <4>2. \A e \in Docs : row'[e] # "NONE" => file'[e] # "NONE"
        BY <2>1, <2>2, <2>4 DEF TypeOK
      <4>3. [deletion[x] EXCEPT !.pc = "FAILED", !.erased = TRUE]
              \in [pc : {"NEW", "NOT_FOUND", "DONE", "FAILED"} \cup Deleting,
                   doc : Docs \cup {Nobody}, erased : BOOLEAN]
        <5>1. deletion[x] \in [pc : {"NEW", "NOT_FOUND", "DONE", "FAILED"} \cup Deleting,
                               doc : Docs \cup {Nobody}, erased : BOOLEAN]
          BY DEF TypeOK
        <5> QED
          BY <5>1 DEF Deleting
      <4>4. deletion' = [deletion EXCEPT ![x] =
                           [deletion[x] EXCEPT !.pc = "FAILED", !.erased = TRUE]]
        BY <2>4 DEF TypeOK
      <4>5. deletion' \in [Deletions ->
              [pc : {"NEW", "NOT_FOUND", "DONE", "FAILED"} \cup Deleting,
               doc : Docs \cup {Nobody}, erased : BOOLEAN]]
        BY <4>3, <4>4 DEF TypeOK
      <4> QED
        BY <2>2, <4>1, <4>2, <4>5 DEF TypeOK
    <3>2. deletion'[x].doc = d /\ deletion'[x].pc = "FAILED" /\ deletion'[x].erased
      BY <2>4 DEF TypeOK
    <3>3. \A y \in Deletions : y # x => deletion'[y] = deletion[y]
      BY <2>4 DEF TypeOK
    <3>4. \A y \in Deletions : deletion'[y].doc = deletion[y].doc
      BY <3>2, <3>3
    <3>5. \A y \in Deletions : deletion[y].erased => deletion'[y].erased
      BY <3>2, <3>3
    <3>6. FilesOK'
      BY <2>1, <2>2, <2>4, <3>2, <3>3, <3>4, <3>5 DEF TypeOK, FilesOK
    <3> QED
      BY <3>1, <3>6
  <2> QED
    BY <1>5, <2>3, <2>4 DEF FailDelete
<1> QED
  BY <1>1, <1>2, <1>3, <1>4, <1>5 DEF DeletionStep

LEMMA DownloadStepKeepsTypes ==
  ASSUME TypeOK, FilesOK, NEW r \in Downloads, DownloadStep(r) PROVE TypeOK' /\ FilesOK'
<1>1. CASE AnswerDownload(r)
  <2>1. TypeOK'
    BY <1>1 DEF TypeOK, FilesOK, Docs, AnswerDownload
  <2>2. FilesOK'
    BY <1>1 DEF TypeOK, FilesOK, Docs, AnswerDownload
  <2> QED
    BY <2>1, <2>2
<1>2. CASE Stream(r)
  <2>1. TypeOK'
    BY <1>2 DEF TypeOK, FilesOK, Docs, Stream
  <2>2. FilesOK'
    BY <1>2 DEF TypeOK, FilesOK, Docs, Stream
  <2> QED
    BY <2>1, <2>2
<1>3. CASE FailStream(r)
  <2>1. TypeOK'
    BY <1>3 DEF TypeOK, FilesOK, Docs, FailStream, Fault
  <2>2. FilesOK'
    BY <1>3 DEF TypeOK, FilesOK, Docs, FailStream, Fault
  <2> QED
    BY <2>1, <2>2
<1> QED
  BY <1>1, <1>2, <1>3 DEF DownloadStep

LEMMA NextKeepsTypes ==
  ASSUME TypeOK, FilesOK, [Next]_vars PROVE TypeOK' /\ FilesOK'
<1>1. CASE \E d \in Docs : UploadStep(d)
  BY <1>1, UploadStepKeepsTypes
<1>2. CASE \E c \in Claims : ClaimStep(c)
  BY <1>2, ClaimStepKeepsTypes
<1>3. CASE \E a \in Applications : ApplicationStep(a)
  BY <1>3, ApplicationStepKeepsTypes
<1>4. CASE \E x \in Deletions : DeletionStep(x)
  BY <1>4, DeletionStepKeepsTypes
<1>5. CASE \E r \in Downloads : DownloadStep(r)
  BY <1>5, DownloadStepKeepsTypes
<1>6. CASE AllAnswered \/ UNCHANGED vars
  <2>1. UNCHANGED vars
    BY <1>6 DEF AllAnswered
  <2> QED
    BY <2>1 DEF TypeOK, FilesOK, vars
<1> QED
  BY <1>1, <1>2, <1>3, <1>4, <1>5, <1>6 DEF Next

LEMMA InitTypes == Init => TypeOK /\ FilesOK
<1> SUFFICES ASSUME Init PROVE TypeOK /\ FilesOK
  OBVIOUS
<1>1. TypeOK
  BY DEF Init, TypeOK, IdleClaim, IdleApplication, IdleDeletion, IdleDownload
<1>2. FilesOK
  BY DEF Init, FilesOK, IdleApplication, IdleDeletion, IdleDownload
<1> QED
  BY <1>1, <1>2

(* Uploads, rows and files stay in step, whatever overlaps or fails.       *)
THEOREM FilesInvariant == Spec => [](TypeOK /\ FilesOK)
<1>1. TypeOK /\ FilesOK /\ [Next]_vars => TypeOK' /\ FilesOK'
  BY NextKeepsTypes
<1> QED
  BY <1>1, InitTypes, PTL DEF Spec

(* The state of the documents and of their requests is well formed; in     *)
(* particular no row has a file that was never saved.                      *)
THEOREM TypeCorrect == Spec => []TypeOK
  BY FilesInvariant, PTL

(* A deletion answered 204 has removed file and row, and the letter of no  *)
(* application.                                                            *)
THEOREM DeletionsCorrect == Spec => []DeletionsAnsweredTruly
<1>1. TypeOK /\ FilesOK => DeletionsAnsweredTruly
  BY DEF FilesOK, DeletionsAnsweredTruly, Refers
<1> QED
  BY <1>1, FilesInvariant, PTL

(***************************************************************************)
(* Evidence and claims                                                     *)
(***************************************************************************)
LEMMA EvidenceStep ==
  ASSUME TypeOK, EvidenceFollowsClaims, [Next]_vars PROVE EvidenceFollowsClaims'
<1>1. CASE UNCHANGED <<linked, claim>>
  BY <1>1 DEF EvidenceFollowsClaims
<1>2. ASSUME NEW c \in Claims, ReadEvidence(c) PROVE EvidenceFollowsClaims'
  BY <1>2 DEF EvidenceFollowsClaims, ReadEvidence, TypeOK
<1>3. ASSUME NEW c \in Claims, WriteLinks(c) PROVE EvidenceFollowsClaims'
  BY <1>3 DEF EvidenceFollowsClaims, WriteLinks, TypeOK
<1>4. ASSUME NEW c \in Claims, StaleLink(c) PROVE EvidenceFollowsClaims'
  BY <1>4 DEF EvidenceFollowsClaims, StaleLink, TypeOK
<1>5. ASSUME NEW c \in Claims, FailClaim(c) PROVE EvidenceFollowsClaims'
  BY <1>5 DEF EvidenceFollowsClaims, FailClaim, TypeOK
<1>6. ASSUME NEW c \in Claims, CommitClaim(c) PROVE EvidenceFollowsClaims'
  <2>1. /\ claim'[c].pc = "DONE" /\ claim'[c].found = claim[c].found
        /\ claim[c].pc # "DONE" /\ claim[c].found \subseteq Evidence
        /\ \A b \in Claims : b # c => claim'[b] = claim[b]
    BY <1>6 DEF CommitClaim, TypeOK
  <2>2. \A d \in Docs : linked'[d] = IF d \in claim[c].found THEN c ELSE linked[d]
    BY <1>6 DEF CommitClaim
  <2>3. \A d \in Docs : linked'[d] # Nobody =>
          claim'[linked'[d]].pc = "DONE" /\ d \in claim'[linked'[d]].found
    BY <2>1, <2>2 DEF EvidenceFollowsClaims, TypeOK
  <2>4. ASSUME NEW b \in Claims, claim'[b].pc = "DONE", NEW d \in claim'[b].found
        PROVE  linked'[d] # Nobody
    <3>1. d \in Docs
      BY <2>1, <2>4 DEF TypeOK, Docs
    <3> QED
      BY <2>1, <2>2, <2>4, <3>1 DEF EvidenceFollowsClaims
  <2> QED
    BY <2>3, <2>4 DEF EvidenceFollowsClaims
<1>7. ASSUME NEW d \in Docs, UploadStep(d) PROVE UNCHANGED <<linked, claim>>
  BY <1>7 DEF UploadStep, VirusCheck, SaveFile, SaveRow, FailUpload
<1>8. ASSUME NEW a \in Applications, ApplicationStep(a) PROVE UNCHANGED <<linked, claim>>
  BY <1>8 DEF ApplicationStep, InsertApplication, CommitApplication, FailApplication
<1>9. ASSUME NEW x \in Deletions, DeletionStep(x) PROVE UNCHANGED <<linked, claim>>
  BY <1>9 DEF DeletionStep, FindRow, EraseFile, LoadRow, DeleteRow, FailDelete
<1>10. ASSUME NEW r \in Downloads, DownloadStep(r) PROVE UNCHANGED <<linked, claim>>
  BY <1>10 DEF DownloadStep, AnswerDownload, Stream, FailStream
<1> QED
  BY <1>1, <1>2, <1>3, <1>4, <1>5, <1>6, <1>7, <1>8, <1>9, <1>10
     DEF Next, ClaimStep, AllAnswered, vars

(* Evidence is linked to a submitted claim that lists it, however the      *)
(* submissions that list it and the deletions of it overlap.               *)
THEOREM EvidenceCorrect == Spec => []EvidenceFollowsClaims
<1>1. Init => EvidenceFollowsClaims
  BY DEF Init, EvidenceFollowsClaims, IdleClaim
<1>2. TypeOK /\ EvidenceFollowsClaims /\ [Next]_vars => EvidenceFollowsClaims'
  BY EvidenceStep
<1> QED
  BY <1>1, <1>2, TypeCorrect, PTL DEF Spec

(***************************************************************************)
(* What goes wrong is counted by the failures                              *)
(***************************************************************************)
(* A set that grows by at most one element with each failure, and not      *)
(* otherwise, stays as small as the number of failures.                    *)
LEMMA Counted ==
  ASSUME NEW S, NEW T, NEW n \in Nat, NEW m \in Nat,
         IsFiniteSet(S), Cardinality(S) <= n,
         \/ T \subseteq S /\ m >= n
         \/ m = n + 1 /\ \E k : T \subseteq S \cup {k}
  PROVE  Cardinality(T) <= m
<1>1. CASE T \subseteq S /\ m >= n
  BY <1>1, FS_Subset, FS_CardinalityType
<1>2. CASE m = n + 1 /\ \E k : T \subseteq S \cup {k}
  <2>1. PICK k : T \subseteq S \cup {k}
    BY <1>2
  <2>2. IsFiniteSet(S \cup {k}) /\ Cardinality(S \cup {k}) <= n + 1
    <3>1. /\ IsFiniteSet(S \cup {k})
          /\ Cardinality(S \cup {k}) = IF k \in S THEN Cardinality(S) ELSE Cardinality(S) + 1
      BY FS_AddElement
    <3>2. Cardinality(S) \in Nat
      BY FS_CardinalityType
    <3> QED
      BY <3>1, <3>2
  <2>3. IsFiniteSet(T) /\ Cardinality(T) <= Cardinality(S \cup {k})
    BY <2>1, <2>2, FS_Subset
  <2> QED
    BY <1>2, <2>2, <2>3, FS_CardinalityType
<1> QED
  BY <1>1, <1>2

LEMMA DocsFinite == IsFiniteSet(Docs)
  BY FS_Union DEF Docs

LEMMA FaultsGrow ==
  ASSUME TypeOK, [Next]_vars
  PROVE  faults \in Nat /\ (TypeOK' => faults' \in Nat) /\ faults' >= faults
<1>1. faults \in Nat
  BY DEF TypeOK
<1>2. faults' = faults \/ faults' = faults + 1
  BY DEF Next, vars, AllAnswered, UploadStep, VirusCheck, SaveFile, SaveRow, FailUpload,
         ClaimStep, ReadEvidence, WriteLinks, StaleLink, CommitClaim, FailClaim,
         ApplicationStep, InsertApplication, CommitApplication, FailApplication,
         DeletionStep, FindRow, EraseFile, LoadRow, DeleteRow, FailDelete,
         DownloadStep, AnswerDownload, Stream, FailStream, Fault
<1> QED
  BY <1>1, <1>2

(* Files that nothing refers to.                                           *)
Orphans == {d \in Docs : file[d] = "STORED" /\ row[d] # "STORED" /\ ~Uploading(d)}

LEMMA OrphansGrow ==
  ASSUME TypeOK, FilesOK, TypeOK', FilesOK', [Next]_vars
  PROVE  \/ Orphans' \subseteq Orphans /\ faults' >= faults
         \/ faults' = faults + 1 /\ \E k : Orphans' \subseteq Orphans \cup {k}
<1>1. \A d \in Orphans' : d \in Docs /\ upload'[d] = "FAILED" /\ file'[d] = "STORED"
  BY DEF Orphans, TypeOK, FilesOK, Uploading
<1>2. \A d \in Docs : upload[d] = "FAILED" /\ file[d] = "STORED" => d \in Orphans
  BY DEF Orphans, FilesOK, Uploading
<1>3. CASE upload' = upload
  <2>1. \A d \in Docs : file'[d] = "STORED" /\ upload'[d] = "FAILED" => file[d] = "STORED"
    <3>1. ASSUME NEW d \in Docs, UploadStep(d) PROVE FALSE
      BY <1>3, <3>1 DEF UploadStep, VirusCheck, SaveFile, SaveRow, FailUpload, Advance,
                        Uploading, TypeOK
    <3>2. ASSUME NEW x \in Deletions, EraseFile(x) \/ FailDelete(x)
          PROVE  \A d \in Docs : file'[d] = "STORED" => file[d] = "STORED"
      BY <3>2 DEF EraseFile, FailDelete, TypeOK
    <3>3. file' = file \/ \E x \in Deletions : EraseFile(x) \/ FailDelete(x)
      BY <3>1 DEF Next, vars, AllAnswered, ClaimStep, ReadEvidence, WriteLinks, StaleLink,
         CommitClaim, FailClaim, ApplicationStep, InsertApplication, CommitApplication,
         FailApplication, DeletionStep, FindRow, LoadRow, DeleteRow,
         DownloadStep, AnswerDownload, Stream, FailStream
    <3> QED
      BY <3>2, <3>3
  <2> QED
    BY <1>1, <1>2, <1>3, <2>1, FaultsGrow
<1>4. ASSUME NEW d \in Docs, VirusCheck(d) \/ SaveFile(d) \/ SaveRow(d)
      PROVE  Orphans' \subseteq Orphans /\ faults' >= faults
  <2>1. \A e \in Docs : upload'[e] = "FAILED" => e # d /\ upload[e] = "FAILED"
    BY <1>4 DEF VirusCheck, SaveFile, SaveRow, Advance, TypeOK
  <2>2. \A e \in Docs : e # d => file'[e] = file[e]
    BY <1>4 DEF VirusCheck, SaveFile, SaveRow, TypeOK
  <2> QED
    BY <1>1, <1>2, <2>1, <2>2, FaultsGrow
<1>5. ASSUME NEW d \in Docs, FailUpload(d)
      PROVE  faults' = faults + 1 /\ Orphans' \subseteq Orphans \cup {d}
  <2>1. \A e \in Docs : e # d => upload'[e] = upload[e] /\ file'[e] = file[e]
    BY <1>5 DEF FailUpload, TypeOK
  <2> QED
    BY <1>1, <1>2, <1>5, <2>1 DEF FailUpload, Fault
<1>6. CASE UNCHANGED vars
  BY <1>3, <1>6 DEF vars
<1> QED
  BY <1>3, <1>4, <1>5, <1>6 DEF Next, AllAnswered, UploadStep,
         ClaimStep, ReadEvidence, WriteLinks, StaleLink, CommitClaim, FailClaim,
         ApplicationStep, InsertApplication, CommitApplication, FailApplication,
         DeletionStep, FindRow, EraseFile, LoadRow, DeleteRow, FailDelete,
         DownloadStep, AnswerDownload, Stream, FailStream

(* There are no more orphaned files than failures.                         *)
THEOREM OrphansCorrect == Spec => []OrphanFilesHaveTheirFault
<1> DEFINE Few == Cardinality(Orphans) <= faults
<1>1. Init => Few
  <2> SUFFICES ASSUME Init PROVE Few
    OBVIOUS
  <2>1. Orphans = {}
    BY DEF Init, Orphans
  <2> QED
    BY <2>1, FS_EmptySet DEF Init
<1>2. TypeOK /\ FilesOK /\ TypeOK' /\ FilesOK' /\ Few /\ [Next]_vars => Few'
  <2> SUFFICES ASSUME TypeOK, FilesOK, TypeOK', FilesOK', Few, [Next]_vars PROVE Few'
    OBVIOUS
  <2>1. IsFiniteSet(Orphans)
    BY DocsFinite, FS_Subset DEF Orphans
  <2>2. faults \in Nat /\ faults' \in Nat
    BY FaultsGrow
  <2>3. \/ Orphans' \subseteq Orphans /\ faults' >= faults
        \/ faults' = faults + 1 /\ \E k : Orphans' \subseteq Orphans \cup {k}
    BY OrphansGrow
  <2> QED
    BY <2>1, <2>2, <2>3, Counted
<1>3. Few => OrphanFilesHaveTheirFault
  BY DEF Orphans, OrphanFilesHaveTheirFault
<1> QED
  BY <1>1, <1>2, <1>3, FilesInvariant, PTL DEF Spec

(* Rows without their file that no deletion past the store is about to     *)
(* remove; those that a deletion has only found count as lost already.     *)
Abandoned ==
  {d \in Docs : /\ row[d] = "STORED" /\ file[d] # "STORED" /\ ~InUse(d)
                /\ \A x \in Deletions : deletion[x].doc = d =>
                                          deletion[x].pc \notin {"ERASED", "LOADED"}}

LEMMA AbandonedGrow ==
  ASSUME TypeOK, FilesOK, TypeOK', FilesOK', [Next]_vars
  PROVE  \/ Abandoned' \subseteq Abandoned /\ faults' >= faults
         \/ faults' = faults + 1 /\ \E k : Abandoned' \subseteq Abandoned \cup {k}
<1>1. CASE UNCHANGED <<file, row, app, deletion>>
  <2>1. Abandoned' = Abandoned
    BY <1>1 DEF Abandoned, InUse
  <2> QED
    BY <2>1, FaultsGrow
<1>2. ASSUME NEW d \in Docs, SaveFile(d) \/ SaveRow(d) \/ FailUpload(d)
      PROVE  Abandoned' \subseteq Abandoned
  <2>1. UNCHANGED <<app, deletion>>
    BY <1>2 DEF SaveFile, SaveRow, FailUpload
  <2>2. \A e \in Docs : e # d => row'[e] = row[e] /\ file'[e] = file[e]
    BY <1>2 DEF SaveFile, SaveRow, FailUpload, TypeOK
  <2>3. row'[d] # "STORED" \/ file'[d] = "STORED"
    BY <1>2 DEF SaveFile, SaveRow, FailUpload, TypeOK, FilesOK, Advance, Uploading
  <2> QED
    BY <2>1, <2>2, <2>3 DEF Abandoned, InUse
<1>3. ASSUME NEW a \in Applications, ApplicationStep(a)
      PROVE  Abandoned' \subseteq Abandoned
  <2>1. UNCHANGED <<file, row, deletion>>
    BY <1>3 DEF ApplicationStep, InsertApplication, CommitApplication, FailApplication
  <2>2. \A d \in Docs : InUse(d) => InUse(d)'
    BY <1>3 DEF InUse, ApplicationStep, InsertApplication, CommitApplication,
                FailApplication, TypeOK
  <2> QED
    BY <2>1, <2>2 DEF Abandoned
<1>4. ASSUME NEW x \in Deletions, FindRow(x)
      PROVE  Abandoned' \subseteq Abandoned
  <2>1. UNCHANGED <<file, row, app>>
    BY <1>4 DEF FindRow
  <2>2. \A y \in Deletions : deletion[y].pc \in {"ERASED", "LOADED"} =>
                               deletion'[y] = deletion[y]
    BY <1>4 DEF FindRow, TypeOK
  <2> QED
    BY <2>1, <2>2 DEF Abandoned, InUse
<1>5. ASSUME NEW x \in Deletions, EraseFile(x)
      PROVE  Abandoned' \subseteq Abandoned
  <2> DEFINE d == deletion[x].doc
  <2>1. UNCHANGED <<row, app>>
    BY <1>5 DEF EraseFile
  <2>2. d \in Docs /\ \A e \in Docs : e # d => file'[e] = file[e]
    BY <1>5 DEF EraseFile, TypeOK, FilesOK
  <2>3. /\ \A y \in Deletions : y # x => deletion'[y] = deletion[y]
        /\ deletion'[x].doc = d
        /\ deletion[x].pc = "FOUND"
        /\ deletion'[x].pc = "ERASED" \/ file[d] # "STORED"
    BY <1>5 DEF EraseFile, TypeOK
  <2>4. ASSUME NEW e \in Abandoned' PROVE e \in Abandoned
    <3>1. e \in Docs /\ row[e] = "STORED" /\ ~InUse(e)
      BY <2>1 DEF Abandoned, InUse
    <3>2. file[e] # "STORED"
      BY <2>2, <2>3 DEF Abandoned
    <3>3. \A y \in Deletions : deletion[y].doc = e =>
                                 deletion[y].pc \notin {"ERASED", "LOADED"}
      BY <2>3 DEF Abandoned
    <3> QED
      BY <3>1, <3>2, <3>3 DEF Abandoned
  <2> QED
    BY <2>4
<1>6. ASSUME NEW x \in Deletions, LoadRow(x) \/ DeleteRow(x)
      PROVE  Abandoned' \subseteq Abandoned
  <2> DEFINE d == deletion[x].doc
  <2>1. UNCHANGED <<file, app>>
    BY <1>6 DEF LoadRow, DeleteRow
  <2>2. /\ d \in Docs
        /\ \A e \in Docs : e # d => row'[e] = row[e]
    BY <1>6 DEF LoadRow, DeleteRow, TypeOK, FilesOK
  <2>3. /\ \A y \in Deletions : y # x => deletion'[y] = deletion[y]
        /\ deletion'[x].doc = d
    BY <1>6 DEF LoadRow, DeleteRow, TypeOK
  <2>4. deletion'[x].pc = "LOADED" \/ row'[d] # "STORED" \/ InUse(d)
    BY <1>6, <2>2 DEF LoadRow, DeleteRow, TypeOK
  <2>5. d \notin Abandoned'
    BY <2>1, <2>3, <2>4 DEF Abandoned, InUse
  <2>6. ASSUME NEW e \in Abandoned' PROVE e \in Abandoned
    <3>1. e \in Docs /\ e # d /\ row[e] = "STORED" /\ file[e] # "STORED" /\ ~InUse(e)
      BY <2>1, <2>2, <2>5 DEF Abandoned, InUse
    <3>2. \A y \in Deletions : deletion[y].doc = e =>
                                 deletion[y].pc \notin {"ERASED", "LOADED"}
      BY <2>3, <3>1 DEF Abandoned
    <3> QED
      BY <3>1, <3>2 DEF Abandoned
  <2> QED
    BY <2>6
<1>7. ASSUME NEW x \in Deletions, FailDelete(x)
      PROVE  faults' = faults + 1 /\ \E k : Abandoned' \subseteq Abandoned \cup {k}
  <2> DEFINE d == deletion[x].doc
  <2>1. UNCHANGED <<row, app>> /\ faults' = faults + 1
    BY <1>7 DEF FailDelete, Fault
  <2>2. \A e \in Docs : e # d => file'[e] = file[e]
    BY <1>7 DEF FailDelete, TypeOK
  <2>3. /\ \A y \in Deletions : y # x => deletion'[y] = deletion[y]
        /\ deletion'[x].doc = d
    BY <1>7 DEF FailDelete, TypeOK
  <2>4. ASSUME NEW e \in Abandoned', e # d PROVE e \in Abandoned
    <3>1. e \in Docs /\ row[e] = "STORED" /\ file[e] # "STORED" /\ ~InUse(e)
      BY <2>1, <2>2, <2>4 DEF Abandoned, InUse
    <3>2. \A y \in Deletions : deletion[y].doc = e =>
                                 deletion[y].pc \notin {"ERASED", "LOADED"}
      BY <2>3, <2>4 DEF Abandoned
    <3> QED
      BY <3>1, <3>2 DEF Abandoned
  <2>5. Abandoned' \subseteq Abandoned \cup {d}
    BY <2>4
  <2> QED
    BY <2>1, <2>5
<1>8. ASSUME NEW d \in Docs, VirusCheck(d) PROVE UNCHANGED <<file, row, app, deletion>>
  BY <1>8 DEF VirusCheck
<1>9. ASSUME NEW c \in Claims, ClaimStep(c) PROVE UNCHANGED <<file, row, app, deletion>>
  BY <1>9 DEF ClaimStep, ReadEvidence, WriteLinks, StaleLink, CommitClaim, FailClaim
<1>10. ASSUME NEW r \in Downloads, DownloadStep(r) PROVE UNCHANGED <<file, row, app, deletion>>
  BY <1>10 DEF DownloadStep, AnswerDownload, Stream, FailStream
<1>11. CASE UNCHANGED vars
  BY <1>1, <1>11 DEF vars
<1> QED
  BY <1>1, <1>2, <1>3, <1>4, <1>5, <1>6, <1>7, <1>8, <1>9, <1>10, <1>11, FaultsGrow
     DEF Next, AllAnswered, UploadStep, DeletionStep

(* No more rows have lost their file, unless an application refers to them, *)
(* than there were failures.                                                *)
THEOREM LostFilesCorrect == Spec => []LostFilesHaveTheirCause
<1> DEFINE Few == Cardinality(Abandoned) <= faults
<1>1. Init => Few
  <2> SUFFICES ASSUME Init PROVE Few
    OBVIOUS
  <2>1. Abandoned = {}
    BY DEF Init, Abandoned
  <2> QED
    BY <2>1, FS_EmptySet DEF Init
<1>2. TypeOK /\ FilesOK /\ TypeOK' /\ FilesOK' /\ Few /\ [Next]_vars => Few'
  <2> SUFFICES ASSUME TypeOK, FilesOK, TypeOK', FilesOK', Few, [Next]_vars PROVE Few'
    OBVIOUS
  <2>1. IsFiniteSet(Abandoned)
    BY DocsFinite, FS_Subset DEF Abandoned
  <2>2. faults \in Nat /\ faults' \in Nat
    BY FaultsGrow
  <2>3. \/ Abandoned' \subseteq Abandoned /\ faults' >= faults
        \/ faults' = faults + 1 /\ \E k : Abandoned' \subseteq Abandoned \cup {k}
    BY AbandonedGrow
  <2> QED
    BY <2>1, <2>2, <2>3, Counted
<1>3. TypeOK /\ Few => LostFilesHaveTheirCause
  <2> DEFINE Lost == {d \in Docs :
                 /\ row[d] = "STORED" /\ file[d] # "STORED"
                 /\ ~InUse(d)
                 /\ \A x \in Deletions : deletion[x].doc = d =>
                                           deletion[x].pc \notin Deleting}
  <2> SUFFICES ASSUME TypeOK, Few PROVE Cardinality(Lost) <= faults
    BY DEF LostFilesHaveTheirCause
  <2>1. Lost \subseteq Abandoned
    BY DEF Abandoned, Deleting
  <2>2. IsFiniteSet(Abandoned)
    BY DocsFinite, FS_Subset DEF Abandoned
  <2>3. faults \in Nat
    BY DEF TypeOK
  <2> HIDE DEF Lost
  <2> QED
    BY <2>1, <2>2, <2>3, Counted
<1> QED
  BY <1>1, <1>2, <1>3, FilesInvariant, PTL DEF Spec

(* Reads that broke off although no deletion erased their file.            *)
Unexplained ==
  {r \in Downloads : /\ download[r].pc = "BROKEN"
                     /\ \A x \in Deletions :
                          ~(deletion[x].erased /\ deletion[x].doc = download[r].doc)}

LEMMA ErasedStaysErased ==
  ASSUME TypeOK, FilesOK, NEW x \in Deletions, DeletionStep(x)
  PROVE  \A y \in Deletions : deletion[y].erased =>
           deletion'[y].erased /\ deletion'[y].doc = deletion[y].doc
<1>1. CASE FindRow(x)
  BY <1>1 DEF FindRow, TypeOK, FilesOK
<1>2. CASE EraseFile(x)
  <2>1. \A y \in Deletions : y # x => deletion'[y] = deletion[y]
    BY <1>2 DEF EraseFile, TypeOK
  <2>2. /\ deletion'[x].doc = deletion[x].doc
        /\ deletion'[x].erased \/ deletion'[x].erased = deletion[x].erased
    BY <1>2 DEF EraseFile, TypeOK
  <2> QED
    BY <2>1, <2>2
<1>3. CASE LoadRow(x)
  BY <1>3 DEF LoadRow, TypeOK
<1>4. CASE DeleteRow(x)
  BY <1>4 DEF DeleteRow, TypeOK
<1>5. CASE FailDelete(x)
  BY <1>5 DEF FailDelete, TypeOK
<1> QED
  BY <1>1, <1>2, <1>3, <1>4, <1>5 DEF DeletionStep

LEMMA UnexplainedGrow ==
  ASSUME TypeOK, FilesOK, TypeOK', FilesOK', [Next]_vars
  PROVE  \/ Unexplained' \subseteq Unexplained /\ faults' >= faults
         \/ faults' = faults + 1 /\ \E k : Unexplained' \subseteq Unexplained \cup {k}
<1>1. CASE UNCHANGED <<deletion, download>>
  BY <1>1, FaultsGrow DEF Unexplained
<1>2. ASSUME NEW x \in Deletions, DeletionStep(x)
      PROVE  Unexplained' \subseteq Unexplained
  <2>1. download' = download
    BY <1>2 DEF DeletionStep, FindRow, EraseFile, LoadRow, DeleteRow, FailDelete
  <2> QED
    BY <1>2, <2>1, ErasedStaysErased DEF Unexplained
<1>3. ASSUME NEW r \in Downloads, AnswerDownload(r)
      PROVE  Unexplained' \subseteq Unexplained
  BY <1>3 DEF AnswerDownload, Unexplained, TypeOK
<1>4. ASSUME NEW r \in Downloads, Stream(r)
      PROVE  Unexplained' \subseteq Unexplained
  <2>1. download[r].doc \in Docs /\ upload[download[r].doc] = "DONE"
    BY <1>4 DEF Stream, FilesOK
  <2>2. /\ deletion' = deletion
        /\ \A s \in Downloads : s # r => download'[s] = download[s]
        /\ download'[r].doc = download[r].doc
        /\ download'[r].pc = "BROKEN" => file[download[r].doc] # "STORED"
    BY <1>4 DEF Stream, TypeOK
  <2>3. download'[r].pc = "BROKEN" => file[download[r].doc] = "ERASED"
    BY <2>1, <2>2 DEF TypeOK, FilesOK
  <2>4. download'[r].pc = "BROKEN" =>
          \E x \in Deletions : deletion[x].erased /\ deletion[x].doc = download[r].doc
    BY <2>1, <2>3 DEF FilesOK
  <2> QED
    BY <2>2, <2>4 DEF Unexplained
<1>5. ASSUME NEW r \in Downloads, FailStream(r)
      PROVE  faults' = faults + 1 /\ Unexplained' \subseteq Unexplained \cup {r}
  BY <1>5 DEF FailStream, Fault, Unexplained, TypeOK
<1>6. ASSUME NEW d \in Docs, UploadStep(d) PROVE UNCHANGED <<deletion, download>>
  BY <1>6 DEF UploadStep, VirusCheck, SaveFile, SaveRow, FailUpload
<1>7. ASSUME NEW c \in Claims, ClaimStep(c) PROVE UNCHANGED <<deletion, download>>
  BY <1>7 DEF ClaimStep, ReadEvidence, WriteLinks, StaleLink, CommitClaim, FailClaim
<1>8. ASSUME NEW a \in Applications, ApplicationStep(a) PROVE UNCHANGED <<deletion, download>>
  BY <1>8 DEF ApplicationStep, InsertApplication, CommitApplication, FailApplication
<1>9. CASE UNCHANGED vars
  BY <1>1, <1>9 DEF vars
<1> QED
  BY <1>1, <1>2, <1>3, <1>4, <1>5, <1>6, <1>7, <1>8, <1>9, FaultsGrow
     DEF Next, AllAnswered, DownloadStep

(* No more reads break off without an erased file than there were failures. *)
THEOREM DownloadsCorrect == Spec => []BrokenDownloadsHaveTheirCause
<1> DEFINE Few == Cardinality(Unexplained) <= faults
<1>1. Init => Few
  <2> SUFFICES ASSUME Init PROVE Few
    OBVIOUS
  <2>1. Unexplained = {}
    BY DEF Init, Unexplained, IdleDownload
  <2> QED
    BY <2>1, FS_EmptySet DEF Init
<1>2. TypeOK /\ FilesOK /\ TypeOK' /\ FilesOK' /\ Few /\ [Next]_vars => Few'
  <2> SUFFICES ASSUME TypeOK, FilesOK, TypeOK', FilesOK', Few, [Next]_vars PROVE Few'
    OBVIOUS
  <2>1. IsFiniteSet(Unexplained)
    BY FS_Subset DEF Unexplained
  <2>2. faults \in Nat /\ faults' \in Nat
    BY FaultsGrow
  <2>3. \/ Unexplained' \subseteq Unexplained /\ faults' >= faults
        \/ faults' = faults + 1 /\ \E k : Unexplained' \subseteq Unexplained \cup {k}
    BY UnexplainedGrow
  <2> QED
    BY <2>1, <2>2, <2>3, Counted
<1>3. Few => BrokenDownloadsHaveTheirCause
  BY DEF Unexplained, BrokenDownloadsHaveTheirCause
<1> QED
  BY <1>1, <1>2, <1>3, FilesInvariant, PTL DEF Spec

(***************************************************************************)
(* Documents in custody: refinement of DocumentCustody                     *)
(***************************************************************************)
(* The rows a claim has written stay until it commits: a deletion waits.   *)
WrittenHeld ==
  \A c \in Claims : claim[c].pc = "WRITTEN" => \A d \in claim[c].found : row[d] = "STORED"

LEMMA WrittenHeldStep ==
  ASSUME TypeOK, FilesOK, WrittenHeld, [Next]_vars PROVE WrittenHeld'
<1>1. CASE UNCHANGED <<row, claim>>
  BY <1>1 DEF WrittenHeld
<1>2. ASSUME NEW d \in Docs, UploadStep(d) PROVE WrittenHeld'
  <2>1. CASE SaveRow(d)
    BY <2>1 DEF WrittenHeld, SaveRow, TypeOK, Docs
  <2>2. CASE ~SaveRow(d)
    BY <1>1, <1>2, <2>2 DEF UploadStep, VirusCheck, SaveFile, FailUpload
  <2> QED
    BY <2>1, <2>2
<1>3. ASSUME NEW c \in Claims, ClaimStep(c) PROVE WrittenHeld'
  <2>1. /\ row' = row
        /\ \A b \in Claims : b # c => claim'[b] = claim[b]
    BY <1>3 DEF ClaimStep, ReadEvidence, WriteLinks, StaleLink, CommitClaim, FailClaim, TypeOK
  <2>2. claim'[c].pc = "WRITTEN" => WriteLinks(c)
    BY <1>3 DEF ClaimStep, ReadEvidence, StaleLink, CommitClaim, FailClaim, TypeOK
  <2>3. WriteLinks(c) => claim'[c].found = claim[c].found
    BY DEF WriteLinks, TypeOK
  <2> QED
    BY <2>1, <2>2, <2>3 DEF WrittenHeld, WriteLinks
<1>4. ASSUME NEW x \in Deletions, DeletionStep(x) PROVE WrittenHeld'
  <2>1. CASE DeleteRow(x)
    <3>1. /\ claim' = claim /\ ~LockedByClaim(deletion[x].doc)
          /\ \A d \in Docs : d # deletion[x].doc => row'[d] = row[d]
      BY <2>1 DEF DeleteRow, TypeOK
    <3> QED
      BY <3>1 DEF WrittenHeld, LockedByClaim, TypeOK, Docs
  <2>2. CASE ~DeleteRow(x)
    BY <1>1, <1>4, <2>2 DEF DeletionStep, FindRow, EraseFile, LoadRow, FailDelete
  <2> QED
    BY <2>1, <2>2
<1>5. ASSUME NEW a \in Applications, ApplicationStep(a) PROVE UNCHANGED <<row, claim>>
  BY <1>5 DEF ApplicationStep, InsertApplication, CommitApplication, FailApplication
<1>6. ASSUME NEW r \in Downloads, DownloadStep(r) PROVE UNCHANGED <<row, claim>>
  BY <1>6 DEF DownloadStep, AnswerDownload, Stream, FailStream
<1> QED
  BY <1>1, <1>2, <1>3, <1>4, <1>5, <1>6 DEF Next, AllAnswered, vars

(* What a step does to a document is told by its file and row, and by what *)
(* is linked or refers to it.                                              *)
LEMMA KeptIs ==
  ASSUME TypeOK, NEW d \in Docs
  PROVE  /\ Kept[d] = "NONE" <=> row[d] = "NONE" /\ file[d] = "NONE"
         /\ Kept[d] = "FILE" <=> row[d] = "NONE" /\ file[d] # "NONE"
         /\ Kept[d] = "WHOLE" <=> row[d] = "STORED" /\ file[d] = "STORED"
         /\ Kept[d] = "ROW" <=> row[d] = "STORED" /\ file[d] # "STORED"
         /\ Kept[d] = "GONE" <=> row[d] = "ERASED"
  BY DEF Kept, TypeOK

LEMMA KeptStays ==
  ASSUME UNCHANGED <<file, row>> PROVE Kept' = Kept
  BY DEF Kept

LEMMA UsersStay ==
  ASSUME UNCHANGED linked,
         \A a \in Applications, d \in Letters : Refers(a, d)' /\ app'[a].pc = "DONE"
                                            <=> Refers(a, d) /\ app[a].pc = "DONE"
  PROVE  Users' = Users
<1>1. \A d \in Docs : UsersOf(d)' = UsersOf(d)
  BY DEF UsersOf, Refers
<1> QED
  BY <1>1 DEF Users

LEMMA KeptMoves ==
  ASSUME TypeOK, TypeOK', NEW d \in Docs, NEW to, Kept'[d] = to,
         \A e \in Docs \ {d} : file'[e] = file[e] /\ row'[e] = row[e]
  PROVE  Kept' = [Kept EXCEPT ![d] = to]
  BY DEF Kept

LEMMA UploadMaps ==
  ASSUME TypeOK, FilesOK, TypeOK', NEW d \in Docs, UploadStep(d)
  PROVE  [Custody!Next]_(Custody!vars)
<1> USE DEF Custody!Next, Custody!vars, Custody!Docs, Custody!Move
<1>1. Users' = Users
  BY UsersStay DEF UploadStep, VirusCheck, SaveFile, SaveRow, FailUpload, Refers
<1>2. CASE UNCHANGED <<file, row>>
  BY <1>1, <1>2, KeptStays
<1>3. CASE upload[d] = "CHECKED" /\ file' = [file EXCEPT ![d] = "STORED"] /\ row' = row
  <2>1. Kept[d] = "NONE"
    BY <1>3, KeptIs DEF FilesOK
  <2>2. Kept'[d] = "FILE" /\ \A e \in Docs \ {d} : file'[e] = file[e] /\ row'[e] = row[e]
    BY <1>3 DEF Kept, TypeOK, FilesOK
  <2>3. Kept' = [Kept EXCEPT ![d] = "FILE"]
    BY <2>2, KeptMoves
  <2> QED
    BY <1>1, <2>1, <2>3 DEF Custody!SaveFile, Docs
<1>4. CASE SaveRow(d)
  <2>1. upload[d] = "SAVED" /\ row' = [row EXCEPT ![d] = "STORED"] /\ file' = file
    BY <1>4 DEF SaveRow, Advance
  <2>2. Kept[d] = "FILE"
    BY <2>1, KeptIs DEF FilesOK, TypeOK
  <2>3. Kept'[d] = "WHOLE" /\ \A e \in Docs \ {d} : file'[e] = file[e] /\ row'[e] = row[e]
    BY <2>1 DEF Kept, TypeOK, FilesOK
  <2>4. Kept' = [Kept EXCEPT ![d] = "WHOLE"]
    BY <2>3, KeptMoves
  <2> QED
    BY <1>1, <2>2, <2>4 DEF Custody!SaveRow, Docs
<1> QED
  BY <1>2, <1>3, <1>4 DEF UploadStep, VirusCheck, SaveFile, FailUpload, Advance

LEMMA ClaimMaps ==
  ASSUME TypeOK, WrittenHeld, NEW c \in Claims, ClaimStep(c)
  PROVE  [Custody!Next]_(Custody!vars)
<1> USE DEF Custody!Next, Custody!vars, Custody!Docs
<1>1. Kept' = Kept
  BY KeptStays DEF ClaimStep, ReadEvidence, WriteLinks, StaleLink, CommitClaim, FailClaim
<1>2. CASE ~CommitClaim(c)
  <2>1. Users' = Users
    BY <1>2, UsersStay
       DEF ClaimStep, ReadEvidence, WriteLinks, StaleLink, FailClaim, Refers
  <2> QED
    BY <1>1, <2>1
<1>3. CASE CommitClaim(c)
  <2> DEFINE found == claim[c].found
  <2>1. found \in SUBSET Evidence /\ \A d \in found : row[d] = "STORED"
    BY <1>3 DEF CommitClaim, WrittenHeld, TypeOK
  <2>2. \A d \in found : Custody!HasRow(d)
    BY <2>1, KeptIs DEF Custody!HasRow, Docs
  <2>3. \A d \in Docs : UsersOf(d)' = IF d \in found THEN {c} ELSE UsersOf(d)
    <3>1. /\ app' = app
          /\ \A d \in Docs : linked'[d] = IF d \in found THEN c ELSE linked[d]
      BY <1>3 DEF CommitClaim
    <3>2. ASSUME NEW d \in Letters PROVE d \notin found /\ UsersOf(d)' = UsersOf(d)
      BY <2>1, <3>1, <3>2 DEF UsersOf
    <3>3. ASSUME NEW d \in Docs, d \notin Letters
          PROVE  UsersOf(d)' = IF d \in found THEN {c} ELSE UsersOf(d)
      BY <3>1, <3>3 DEF UsersOf
    <3> QED
      BY <3>2, <3>3
  <2>4. Users' = [d \in Docs |-> IF d \in found THEN {c} ELSE Users[d]]
    BY <2>3 DEF Users
  <2>5. Custody!TakeEvidence(c, found)
    BY <1>1, <2>2, <2>4 DEF Custody!TakeEvidence, Docs
  <2> QED
    BY <2>1, <2>5
<1> QED
  BY <1>2, <1>3

LEMMA ApplicationMaps ==
  ASSUME TypeOK, FilesOK, NEW a \in Applications, ApplicationStep(a)
  PROVE  [Custody!Next]_(Custody!vars)
<1> USE DEF Custody!Next, Custody!vars, Custody!Docs
<1>1. Kept' = Kept
  BY KeptStays DEF ApplicationStep, InsertApplication, CommitApplication, FailApplication
<1>2. linked' = linked /\ \A b \in Applications : b # a => app'[b] = app[b]
  BY DEF ApplicationStep, InsertApplication, CommitApplication, FailApplication, TypeOK
<1>3. CASE ~CommitApplication(a)
  <2>1. app[a].pc # "DONE" /\ app'[a].pc # "DONE"
    BY <1>3 DEF ApplicationStep, InsertApplication, FailApplication, TypeOK
  <2>2. Users' = Users
    BY <1>2, <2>1, UsersStay DEF Refers
  <2> QED
    BY <1>1, <2>2
<1>4. CASE CommitApplication(a)
  <2> DEFINE d == app[a].letter
  <2>1. d \in Letters /\ row[d] = "STORED" /\ app[a].pc = "INSERTED"
    BY <1>4 DEF CommitApplication, FilesOK
  <2>2. Custody!HasRow(d)
    BY <2>1, KeptIs DEF Custody!HasRow, Docs
  <2>3. \A e \in Letters : a \notin Users[e]
    BY <2>1 DEF Users, UsersOf, Docs
  <2>4. app'[a].pc = "DONE" /\ app'[a].letter = d
    BY <1>4 DEF CommitApplication, TypeOK
  <2>5. \A e \in Docs : UsersOf(e)' = IF e = d THEN UsersOf(e) \cup {a} ELSE UsersOf(e)
    BY <1>2, <2>1, <2>4 DEF UsersOf
  <2>6. Users' = [Users EXCEPT ![d] = @ \cup {a}]
    BY <2>1, <2>5 DEF Users, Docs
  <2>7. Custody!TakeLetter(a, d)
    BY <1>1, <2>2, <2>3, <2>6 DEF Custody!TakeLetter
  <2> QED
    BY <2>1, <2>7
<1> QED
  BY <1>3, <1>4

LEMMA DeletionMaps ==
  ASSUME TypeOK, FilesOK, TypeOK', NEW x \in Deletions, DeletionStep(x)
  PROVE  [Custody!Next]_(Custody!vars)
<1> USE DEF Custody!Next, Custody!vars, Custody!Docs, Custody!Move
<1> DEFINE d == deletion[x].doc
<1>1. Users' = Users
  BY UsersStay DEF DeletionStep, FindRow, EraseFile, LoadRow, DeleteRow, FailDelete, Refers
<1>2. CASE UNCHANGED <<file, row>>
  BY <1>1, <1>2, KeptStays
<1>3. CASE deletion[x].pc = "FOUND" /\ file' = [file EXCEPT ![d] = "ERASED"] /\ row' = row
  <2>1. d \in Docs /\ row[d] # "NONE"
    BY <1>3 DEF FilesOK
  <2>2. CASE file[d] = "ERASED"
    BY <1>2, <1>3, <2>1, <2>2 DEF TypeOK
  <2>3. CASE file[d] # "ERASED"
    <3>1. Kept[d] = "WHOLE"
      BY <2>1, <2>3, KeptIs DEF FilesOK, TypeOK
    <3>2. Kept'[d] = "ROW" /\ \A e \in Docs \ {d} : file'[e] = file[e] /\ row'[e] = row[e]
      BY <1>3, <2>1, <2>3 DEF Kept, TypeOK, FilesOK
    <3>3. Kept' = [Kept EXCEPT ![d] = "ROW"]
      BY <2>1, <3>2, KeptMoves
    <3> QED
      BY <1>1, <2>1, <3>1, <3>3 DEF Custody!EraseFile, Docs
  <2> QED
    BY <2>2, <2>3
<1>4. CASE DeleteRow(x) /\ row' = [row EXCEPT ![d] = "ERASED"] /\ ~InUse(d)
  <2>1. d \in Docs /\ row[d] # "NONE" /\ file[d] = "ERASED" /\ file' = file
    BY <1>4 DEF DeleteRow, FilesOK
  <2>2. CASE row[d] = "ERASED"
    BY <1>2, <1>4, <2>1, <2>2 DEF TypeOK
  <2>3. CASE row[d] # "ERASED"
    <3>1. Kept[d] = "ROW"
      BY <2>1, <2>3, KeptIs DEF TypeOK
    <3>2. Kept'[d] = "GONE" /\ \A e \in Docs \ {d} : file'[e] = file[e] /\ row'[e] = row[e]
      BY <1>4, <2>1 DEF Kept, TypeOK
    <3>3. Kept' = [Kept EXCEPT ![d] = "GONE"]
      BY <2>1, <3>2, KeptMoves
    <3>4. d \in Letters => Users[d] = {}
      BY <1>4, <2>1 DEF Users, UsersOf, InUse
    <3> QED
      BY <1>1, <2>1, <3>1, <3>3, <3>4 DEF Custody!DeleteRow, Docs
  <2> QED
    BY <2>2, <2>3
<1> QED
  BY <1>2, <1>3, <1>4 DEF DeletionStep, FindRow, EraseFile, LoadRow, DeleteRow, FailDelete

LEMMA StepMaps ==
  ASSUME TypeOK, FilesOK, WrittenHeld, TypeOK', [Next]_vars
  PROVE  [Custody!Next]_(Custody!vars)
<1>1. CASE UNCHANGED <<file, row, linked, app>>
  BY <1>1, KeptStays, UsersStay DEF Refers, Custody!vars
<1>2. CASE \E d \in Docs : UploadStep(d)
  BY <1>2, UploadMaps
<1>3. CASE \E c \in Claims : ClaimStep(c)
  BY <1>3, ClaimMaps
<1>4. CASE \E a \in Applications : ApplicationStep(a)
  BY <1>4, ApplicationMaps
<1>5. CASE \E x \in Deletions : DeletionStep(x)
  BY <1>5, DeletionMaps
<1>6. ASSUME NEW r \in Downloads, DownloadStep(r) PROVE UNCHANGED <<file, row, linked, app>>
  BY <1>6 DEF DownloadStep, AnswerDownload, Stream, FailStream
<1> QED
  BY <1>1, <1>2, <1>3, <1>4, <1>5, <1>6 DEF Next, AllAnswered, vars

(* Files and rows by two stores, without a transaction over both, keep       *)
(* documents as DocumentCustody states: rows come and go last, a claim takes *)
(* all it found while it is there, and an application's letter keeps its row. *)
THEOREM RefinesCustody == Spec => ImplementsCustody
<1>1. Init => Custody!Init
  BY DEF Init, Custody!Init, Custody!Docs, Docs, Kept, Users, UsersOf, IdleApplication
<1>2. Init => WrittenHeld
  BY DEF Init, WrittenHeld, IdleClaim
<1>3. TypeOK /\ FilesOK /\ WrittenHeld /\ [Next]_vars => WrittenHeld'
  BY WrittenHeldStep
<1>4. TypeOK /\ FilesOK /\ WrittenHeld /\ TypeOK' /\ [Next]_vars
        => [Custody!Next]_(Custody!vars)
  BY StepMaps
<1> QED
  BY <1>1, <1>2, <1>3, <1>4, FilesInvariant, PTL DEF Spec, ImplementsCustody, Custody!Spec
=============================================================================
