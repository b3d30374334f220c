-------------------------- MODULE TransferReceipts --------------------------
(***************************************************************************)
(* What the v2 receiver promises about every transfer across restarts, as  *)
(* the phase that its durable state is in and the files it has receipts    *)
(* for: approval is asked once, files are received only while it stands, a *)
(* terminal phase is left only by forgetting the transfer, and only a      *)
(* terminal transfer can be forgotten.                                     *)
(*                                                                         *)
(* Transfers are independent.  A crash may find the journals of several    *)
(* half written, so several transfers may move in one step.                *)
(***************************************************************************)
CONSTANTS Ids, Files, Session
VARIABLES phase, receipts

vars == <<phase, receipts>>

FilesOf(id) == {f \in Files : Session[f] = id}

Init == /\ phase = [id \in Ids |-> "None"]
        /\ receipts = [id \in Ids |-> {}]

Move(id, from, to) == phase[id] \in from /\ phase'[id] = to

Same(id) == phase'[id] = phase[id] /\ receipts'[id] = receipts[id]

Open(id)    == /\ \E to \in {"Pending", "Accepted"} : Move(id, {"None"}, to)
               /\ receipts'[id] = receipts[id]
Approve(id) == Move(id, {"Pending"}, "Accepted") /\ receipts'[id] = receipts[id]
Refuse(id)  == Move(id, {"Pending"}, "Rejected") /\ receipts'[id] = receipts[id]
Cancel(id)  == /\ Move(id, {"Pending", "Accepted", "Rejected"}, "Cancelled")
               /\ receipts'[id] = receipts[id]

\* One more verified file; the last one completes the transfer.
Receive(id, f) ==
  /\ f \notin receipts[id]
  /\ receipts'[id] = receipts[id] \cup {f}
  /\ Move(id, {"Accepted"}, IF receipts'[id] = FilesOf(id) THEN "Complete" ELSE "Accepted")

Forget(id) == /\ Move(id, {"Rejected", "Cancelled", "Complete"}, "None")
              /\ receipts'[id] = {}

Next == \A id \in Ids :
          \/ Same(id) \/ Open(id) \/ Approve(id) \/ Refuse(id) \/ Cancel(id) \/ Forget(id)
          \/ \E f \in FilesOf(id) : Receive(id, f)

Spec == Init /\ [][Next]_vars
=============================================================================
