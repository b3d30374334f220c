--------------------------- MODULE MCDurableStore ---------------------------
(* Instances of DurableStore: one transfer of two files that want the same   *)
(* destination name, or two files of one transfer in different directories   *)
(* and a second transfer of one file that competes for one of the names.     *)
EXTENDS DurableStore
CONSTANTS s1, s2, f1, f2, f3, a, d1, d2, d3, b, sub

OneTransfer  == [f \in {f1, f2} |-> s1]
AndAnother   == [f \in {f1, f2, f3} |-> IF f = f3 THEN s2 ELSE s1]

UnitSize == [f \in Files |-> IF f = f3 THEN 0 ELSE 1]
EmptySecond == [f \in Files |-> IF f = f1 THEN 1 ELSE 0]

Digests == [f \in Files |-> IF f = f1 THEN d1 ELSE IF f = f2 THEN d2 ELSE d3]
SameName == [f \in Files |-> a]
TwoNames == [f \in Files |-> IF f = f1 THEN a ELSE b]
InSub  == [x \in {a, b} |-> IF x = a THEN sub ELSE Root]
OnlySub  == [x \in {a} |-> sub]
OnlyRoot == [x \in {a} |-> Root]

\* The view of DurablePublish.cfg: what callers were told, the history records and the
\* misread files decide no action and no property of that run (except for their types),
\* so that states that differ in them only are explored once.
Consulted == <<up, mem, token, finished, pc, cur, idx, waiting, reg, journal, part, dirty,
               dest, maker, unsynced, dirs, fresh, lost, detached, crashes, drops, ioErrors>>
=============================================================================
