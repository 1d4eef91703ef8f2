-------------------------- MODULE MCApprovalEmails --------------------------
(* Small instances of ApprovalEmails for TLC. *)
EXTENDS ApprovalEmails, TLC

CONSTANTS c1, c2

MCClaims == {c1, c2}
Symmetry == Permutations(MCClaims)
=============================================================================
