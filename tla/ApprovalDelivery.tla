--------------------------- MODULE ApprovalDelivery ---------------------------
(***************************************************************************)
(* What the deferred approval emails promise, whatever runs, windows,      *)
(* sessions and restarts are behind it: delivery at least once, with the   *)
(* record of the email as the only memory.  A claim that was approved      *)
(* automatically is owed an email; one claim at a time has an email that   *)
(* was accepted and is not on record yet; once on record, a claim is never *)
(* emailed again.  Only a fault takes an accepted email back to owed, and  *)
(* each fault concerns one claim.  Delivery itself is not promised: an     *)
(* email may stay owed for ever, as it does when the window closes.        *)
(***************************************************************************)
EXTENDS Naturals

CONSTANT Claims

VARIABLES phase,   \* what has become of each claim's email
          sent,    \* how many were accepted
          faults   \* failures of the environment

vars == <<phase, sent, faults>>

Phases == {"NONE", "OWED", "SENT", "RECORDED"}

Init ==
  /\ phase = [c \in Claims |-> "NONE"]
  /\ sent = [c \in Claims |-> 0]
  /\ faults = 0

Move(c, from, to) == phase[c] = from /\ phase' = [phase EXCEPT ![c] = to]

Count(c) == sent' = [sent EXCEPT ![c] = @ + 1]

(* The automatic approval is committed. *)
Approve(c) == Move(c, "NONE", "OWED") /\ UNCHANGED <<sent, faults>>

Send(c) ==
  /\ \A d \in Claims : phase[d] # "SENT"
  /\ Move(c, "OWED", "SENT")
  /\ Count(c)
  /\ UNCHANGED faults

Record(c) == Move(c, "SENT", "RECORDED") /\ UNCHANGED <<sent, faults>>

(* The email, its record, or the answer to either is lost, or a fault does *)
(* nothing to any email.                                                   *)
Fault ==
  /\ faults' = faults + 1
  /\ \/ UNCHANGED <<phase, sent>>
     \/ \E c \in Claims :
          \/ phase[c] = "OWED" /\ Count(c) /\ UNCHANGED phase
          \/ Move(c, "SENT", "OWED") /\ UNCHANGED sent
          \/ Move(c, "SENT", "RECORDED") /\ UNCHANGED sent

Next == Fault \/ \E c \in Claims : Approve(c) \/ Send(c) \/ Record(c)

Spec == Init /\ [][Next]_vars
=============================================================================
