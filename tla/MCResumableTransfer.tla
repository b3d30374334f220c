------------------------ MODULE MCResumableTransfer -------------------------
(* Plans of two files: one block and two blocks, or the second one empty.    *)
EXTENDS ResumableTransfer

OneTwo   == [f \in 1 .. 2 |-> f]
OneEmpty == [f \in 1 .. 2 |-> 2 - f]
=============================================================================
