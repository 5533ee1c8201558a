-------------------------- MODULE MCUploadMachine --------------------------
(* Small instance of UploadMachine: bodies collected at different times, a *)
(* clock that passes the age limit, and few enough sequence numbers that   *)
(* the last one is used up.                                                *)
EXTENDS UploadMachine

CONSTANTS b1, b2

MCBodies == {b1, b2}
MCCollectedAt == [b \in MCBodies |-> IF b = b1 THEN 1 ELSE 3]
=============================================================================
