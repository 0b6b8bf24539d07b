---------------------------- MODULE MCDisposition ----------------------------
(* Model-checking instance of Disposition: two operators disposition the same *)
(* alarm and judge it differently; one of them and a third user may sign off. *)
EXTENDS Disposition

CONSTANTS r1, r2, u1, u2, u3

MCUserOf == [r \in Requests |-> IF r = r1 THEN u1 ELSE u2]
MCAlarmOf == [r \in Requests |-> "alarm1"]
MCFalsePositive == {r2}
==============================================================================
