--------------------------- MODULE MCClaimAmounts ---------------------------
(* A small instance of ClaimAmounts for TLC. *)
EXTENDS ClaimAmounts

(* A loss, nothing, and amounts at either limit and over both. *)
MCValues == {-1, 0, 3, 5, 6}
MCApproved == {-1, 0, 2, 3}
=============================================================================
