---------------------------- MODULE DocumentCustody ----------------------------
(***************************************************************************)
(* What keeping documents promises, whatever stores, requests and locks    *)
(* are behind it.  A document is kept whole from its row to the erasure of *)
(* its file: the row comes last and goes last, and nothing comes back.  A  *)
(* claim takes all the evidence it has found in one step, from whichever   *)
(* claim has it, and only while all of it has rows; an application takes   *)
(* one letter, and from then on the letter's row stays.  That its file     *)
(* stays is not promised: a deletion erases it before it is refused.       *)
(***************************************************************************)
CONSTANTS Evidence, Letters, Claims, Applications

Docs == Evidence \cup Letters

VARIABLES kept,   \* how much of each document there is
          users   \* the claim or the applications that have it

vars == <<kept, users>>

Phases == {"NONE", "FILE", "WHOLE", "ROW", "GONE"}

Init ==
  /\ kept = [d \in Docs |-> "NONE"]
  /\ users = [d \in Docs |-> {}]

Move(d, from, to) ==
  kept[d] = from /\ kept' = [kept EXCEPT ![d] = to] /\ UNCHANGED users

HasRow(d) == kept[d] \in {"WHOLE", "ROW"}

SaveFile(d) == Move(d, "NONE", "FILE")
SaveRow(d) == Move(d, "FILE", "WHOLE")
EraseFile(d) == Move(d, "WHOLE", "ROW")

(* A row goes after its file, and not under an application; evidence goes  *)
(* under the claim that has it.                                            *)
DeleteRow(d) ==
  /\ d \in Letters => users[d] = {}
  /\ Move(d, "ROW", "GONE")

TakeEvidence(c, found) ==
  /\ \A d \in found : HasRow(d)
  /\ users' = [d \in Docs |-> IF d \in found THEN {c} ELSE users[d]]
  /\ UNCHANGED kept

TakeLetter(a, d) ==
  /\ HasRow(d)
  /\ \A e \in Letters : a \notin users[e]
  /\ users' = [users EXCEPT ![d] = @ \cup {a}]
  /\ UNCHANGED kept

Next ==
  \/ \E d \in Docs : SaveFile(d) \/ SaveRow(d) \/ EraseFile(d) \/ DeleteRow(d)
  \/ \E c \in Claims, found \in SUBSET Evidence : TakeEvidence(c, found)
  \/ \E a \in Applications, d \in Letters : TakeLetter(a, d)

Spec == Init /\ [][Next]_vars
=============================================================================
