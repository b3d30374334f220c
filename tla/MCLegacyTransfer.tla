-------------------------- MODULE MCLegacyTransfer --------------------------
(* A transfer of a file of one block and an empty one, and a stranger's.      *)
EXTENDS LegacyTransfer
CONSTANTS t1, t2, f1, f2

OneOwner  == [f \in Files |-> t1]
OneAndNil == [f \in Files |-> IF f = f1 THEN 1 ELSE 0]
FirstLast == <<f1, f2>>
=============================================================================
