--------------------------- MODULE ClaimAssessment ---------------------------
(***************************************************************************)
(* What claim assessment promises, whatever the tables, locks and          *)
(* transactions behind it: a claim is submitted once; a caseworker decides *)
(* only a claim nobody has decided; the automatic decision that follows a  *)
(* submission happens at most once, and nobody decides after it.  It may   *)
(* still come after a caseworker's decision, and then replaces it: that is *)
(* what create_claim.py does, which writes it with no look at the status.  *)
(***************************************************************************)
CONSTANT Claims

VARIABLES status,    \* what a reader of the claim is told
          deciders   \* who has decided each claim

vars == <<status, deciders>>

Verdicts == {"REJECTED", "PAY_IN_FULL"}

Init ==
  /\ status = [c \in Claims |-> "NONE"]
  /\ deciders = [c \in Claims |-> {}]

(* A provider's claim is stored. *)
Submit(c) ==
  /\ status[c] = "NONE"
  /\ status' = [status EXCEPT ![c] = "SUBMITTED"]
  /\ UNCHANGED deciders

(* A caseworker pays or rejects a claim that awaits assessment. *)
CaseworkerDecides(c, v) ==
  /\ status[c] = "SUBMITTED"
  /\ deciders[c] = {}
  /\ status' = [status EXCEPT ![c] = v]
  /\ deciders' = [deciders EXCEPT ![c] = {"CASEWORKER"}]

(* The request that stored the claim decides it. *)
SystemDecides(c, v) ==
  /\ status[c] # "NONE"
  /\ "SYSTEM" \notin deciders[c]
  /\ status' = [status EXCEPT ![c] = v]
  /\ deciders' = [deciders EXCEPT ![c] = @ \cup {"SYSTEM"}]

Next ==
  \E c \in Claims :
    \/ Submit(c)
    \/ \E v \in Verdicts : CaseworkerDecides(c, v) \/ SystemDecides(c, v)

Spec == Init /\ [][Next]_vars
=============================================================================
