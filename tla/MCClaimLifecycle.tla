-------------------------- MODULE MCClaimLifecycle --------------------------
(* Small instances of ClaimLifecycle for TLC. *)
EXTENDS ClaimLifecycle, TLC

CONSTANTS c1, c2, c3, w1, w2

MCClaims == {c1, c2, c3}
TwoClaims == {c1, c2}
MCCaseworkers == {w1, w2}
OneCaseworker == {w1}
Symmetry == Permutations(MCClaims) \cup Permutations(MCCaseworkers)

Form(t, n) == [type |-> t, amount |-> n]
(* The application is granted once, its certificate is old enough, and no year *)
(* passes: the runs with three claims look at the claims alone.               *)
GrantedNext == Next /\ merits' = "GRANTED" /\ ~early' /\ aged' = {}
GrantedSpec == Init /\ [][GrantedNext]_vars
FairGrantedSpec == GrantedSpec /\ Fairness

(* A case with a claim below nothing has no bills, and one caseworker at a   *)
(* time, who rejects nothing: it is there for the limit on what is paid.     *)
Started == {c \in Claims : req[c].pc # "NEW"}
LossesApart ==
  (\E c \in Started : form[c].amount < 0) =>
    /\ \A c \in Started : form[c].type = "PROFIT_COST"
    /\ \A v, w \in Caseworkers : v = w \/ IdleWork \in {work[v], work[w]}
    /\ \A w \in Caseworkers : work[w].verdict # "REJECTED"
CaseNext == GrantedNext /\ LossesApart'
CaseSpec == Init /\ [][CaseNext]_vars

(* A disbursement below nothing may be paid with a line or without one; one *)
(* of 3 is over the hard limit of 2 that the runs with these forms set.     *)
MixedForms == {Form("PROFIT_COST", 2), Form("DISBURSEMENT", -1),
               Form("DISBURSEMENT", 3), Form("FINAL_BILL", 2), Form("NIL_BILL", 0)}
(* Profit costs without VAT may be below nothing. *)
CaseForms == {Form("PROFIT_COST", 1), Form("PROFIT_COST", -1), Form("FINAL_BILL", 2)}
BillForms == {Form("PROFIT_COST", 1), Form("FINAL_BILL", 2)}
=============================================================================
