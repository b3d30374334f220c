-------------------------- MODULE MCLegacyReceiver --------------------------
(* A transfer of an empty file and one of a block, and one of an empty file.  *)
EXTENDS LegacyReceiver
CONSTANTS t1, t2, f1, f2, f3

TwoAndOne == [f \in Files |-> IF f = f3 THEN t2 ELSE t1]
OneBlock  == [f \in Files |-> IF f = f2 THEN 1 ELSE 0]
=============================================================================
