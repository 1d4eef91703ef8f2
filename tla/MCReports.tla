------------------------------ MODULE MCReports ------------------------------
(* Small instances of Reports for TLC. *)
EXTENDS Reports, TLC

CONSTANTS a1, c1, c2, r1, f1

MCApplications == {a1}
MCClaims == {c1, c2}
OneReport == {r1}
MCFirms == {f1}
MCLineTypes == {"POA", "FINAL"}
(* A payment on account and a final bill of one case. *)
MCAppOf == c1 :> a1 @@ c2 :> a1
MCFirmOf == a1 :> f1
MCTypesOf == c1 :> {"POA"} @@ c2 :> {"FINAL"}
MCFinalBills == {c2}
MCAmount == c1 :> 2 @@ c2 :> 1

(* What happens after the last answer is no concern of any report. *)
OpenNext == Next /\ \E r \in Reports : rep[r].pc \notin Answered
OpenSpec == Init /\ [][OpenNext]_vars
=============================================================================
