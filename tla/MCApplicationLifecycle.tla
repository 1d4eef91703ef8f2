----------------------- MODULE MCApplicationLifecycle -----------------------
(* Small instances of ApplicationLifecycle for TLC. *)
EXTENDS ApplicationLifecycle, TLC

CONSTANTS a1, a2, d1, d2, d3, u1, u2, r1, r2, bad, b1, b2

MCApplications == {a1, a2}
MCRequests == {d1, d2, d3}
MCUpdates == {u1, u2}
MCReferences == {r1, r2, bad}
MCBanned == {bad}
MCBodies == {b1, b2}
MCDetails == {1, 2}
Symmetry == Permutations(MCApplications) \cup Permutations(MCRequests)
              \cup Permutations(MCUpdates)

Form(died, coroner, office, address, recipient) ==
  [born |-> 1, died |-> died, coroner |-> coroner, name |-> died, office |-> office,
   address |-> address, recipient |-> recipient, bodies |-> {b1}]

(* The first two agree on the date of birth and on references that were not *)
(* given; the third agrees with the first on the dates and the name, and    *)
(* with the fourth on the coroner's reference as well.                      *)
MCForms ==
  {Form(1, 0, TRUE, "HOME", TRUE), Form(2, 0, TRUE, "ABSENT", FALSE),
   Form(1, 1, FALSE, "SPECIFIED", TRUE), Form(1, 1, TRUE, "OFFICE", TRUE)}

(* Two requests of caseworkers, or three that are about one application     *)
(* while nothing has failed.                                                *)
FewRequests ==
  LET decisions == {d \in Requests : work[d].pc # "IDLE"}
      updates == {u \in Updates : upd[u].pc # "IDLE"}
      about == {work[d].app : d \in decisions} \cup {upd[u].app : u \in updates}
      requests == Cardinality(decisions) + Cardinality(updates)
  IN  requests <= 2 \/ (requests = 3 /\ Cardinality(about) = 1 /\ faults = 0)
=============================================================================
