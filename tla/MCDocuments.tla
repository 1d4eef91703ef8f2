----------------------------- MODULE MCDocuments -----------------------------
(* Small instances of Documents for TLC. *)
EXTENDS Documents, TLC

CONSTANTS e1, e2, l1, c1, c2, a1, x1, x2, r1

MCEvidence == {e1, e2}
MCLetters == {l1}
MCClaims == {c1, c2}
MCApplications == {a1}
MCDeletions == {x1, x2}
MCDownloads == {r1}
Symmetry == Permutations(MCEvidence) \cup Permutations(MCClaims)
              \cup Permutations(MCDeletions)
=============================================================================
