---------------------- MODULE ResumableTransferProofs -----------------------
(***************************************************************************)
(* For every plan, every number of connections and every bound on faults:  *)
(* the type invariant of ResumableTransfer, PartsAreAligned,               *)
(* OutcomesAreHonest, and the refinement of TransferReceipts.              *)
(*                                                                         *)
(* The inductive invariant adds three parts to the properties: where the   *)
(* sender and its connections point (PointsAtFiles), who may stand behind  *)
(* every trace of a cancellation (CancelsWereAsked), and what the receiver *)
(* has when it works on a transfer (ReceiverIsSound).                      *)
(***************************************************************************)
EXTENDS ResumableTransfer, TLAPS

\* The sender is at a file of the plan until the last one is done, and a
\* connection that the receiver may still read names one.
PointsAtFiles ==
  /\ spc \in {"hash", "register", "wait", "resume", "open", "stream"} => fi \in Files
  /\ \A c \in Conns : conn[c].st \in {"queued", "body"} => conn[c].f \in Files

\* Every trace that a cancellation leaves at the sender, on the wire or at the
\* receiver goes back to somebody who asked for it.
CancelsWereAsked ==
  /\ stop \/ token \/ waiting \/ cancelled \/ spc = "notify" => asked
  /\ \A c \in Conns : conn[c].reply = "410" => asked

\* Files are received only while the approval stands, a cancelled session has
\* its token set, and the upload that is read brings a file that is missing.
ReceiverIsSound ==
  /\ published # {} \/ holder # None => decision = "Accepted"
  /\ waiting \/ cancelled => token /\ decision # "None"
  /\ holder # None => conn[holder].f \notin published

Inv == /\ TypeOK /\ PartsAreAligned /\ OutcomesAreHonest
       /\ PointsAtFiles /\ CancelsWereAsked /\ ReceiverIsSound

-----------------------------------------------------------------------------
(***************************************************************************)
(* Connections                                                             *)
(***************************************************************************)
\* No connection changes between being read by the receiver and not, the ones
\* that stay keep their place, and no cancellation is made up.  This is all a
\* step of the sender does to them.
ConnsKept ==
  /\ conn' \in [Conns -> Conn]
  /\ \A c \in Conns :
       /\ conn'[c].st = "body" <=> conn[c].st = "body"
       /\ conn[c].st = "body" => conn'[c].f = conn[c].f /\ conn'[c].next = conn[c].next
       /\ conn'[c].st \in {"queued", "body"} => conn'[c].f \in Files
       /\ conn'[c].reply = "410" => conn[c].reply = "410"

LEMMA FreeConnType == FreeConn \in Conn
BY DEF FreeConn, Conn

LEMMA KeptWhenSame ==
  ASSUME conn \in [Conns -> Conn], PointsAtFiles, conn' = conn
  PROVE  ConnsKept
BY DEF ConnsKept, PointsAtFiles

\* The sender lets go of the connections it listens to.
LEMMA KeptWhenAbandoned ==
  ASSUME conn \in [Conns -> Conn], PointsAtFiles, Abandon
  PROVE  ConnsKept
<1>1. ASSUME NEW c \in Conns PROVE [conn[c] EXCEPT !.att = FALSE] \in Conn
  BY DEF Conn
<1>2. conn' \in [Conns -> Conn] BY <1>1, FreeConnType DEF Abandon
<1>3. ASSUME NEW c \in Conns
      PROVE  /\ conn'[c].st = "body" <=> conn[c].st = "body"
             /\ conn[c].st = "body" => conn'[c].f = conn[c].f /\ conn'[c].next = conn[c].next
             /\ conn'[c].st \in {"queued", "body"} => conn'[c].f \in Files
             /\ conn'[c].reply = "410" => conn[c].reply = "410"
  BY DEF Abandon, FreeConn, Conn, PointsAtFiles
<1> QED BY <1>2, <1>3 DEF ConnsKept

LEMMA KeptWhenOpened ==
  ASSUME conn \in [Conns -> Conn], PointsAtFiles, fi \in Files, off \in Nat,
         NEW c \in Conns, conn[c].st = "free",
         conn' = [conn EXCEPT ![c] = [st |-> "queued", f |-> fi, next |-> off,
                                      att |-> TRUE, reply |-> "none"]]
  PROVE  ConnsKept
<1>1. [st |-> "queued", f |-> fi, next |-> off, att |-> TRUE, reply |-> "none"] \in Conn
  BY DEF Conn
<1> QED BY <1>1 DEF ConnsKept, PointsAtFiles

\* The sender has the answer, or gives up on one connection.
LEMMA KeptWhenLeft ==
  ASSUME conn \in [Conns -> Conn], PointsAtFiles, NEW c \in Conns,
         conn' = [conn EXCEPT ![c] = IF @.st = "answered" THEN FreeConn
                                     ELSE [@ EXCEPT !.att = FALSE]]
  PROVE  ConnsKept
<1>1. [conn[c] EXCEPT !.att = FALSE] \in Conn BY DEF Conn
<1>2. conn' \in [Conns -> Conn] BY <1>1, FreeConnType
<1>3. ASSUME NEW d \in Conns
      PROVE  /\ conn'[d].st = "body" <=> conn[d].st = "body"
             /\ conn[d].st = "body" => conn'[d].f = conn[d].f /\ conn'[d].next = conn[d].next
             /\ conn'[d].st \in {"queued", "body"} => conn'[d].f \in Files
             /\ conn'[d].reply = "410" => conn[d].reply = "410"
  <2>1. CASE d # c BY <2>1 DEF PointsAtFiles
  <2>2. CASE d = c BY <2>2 DEF FreeConn, Conn, PointsAtFiles
  <2> QED BY <2>1, <2>2
<1> QED BY <1>2, <1>3 DEF ConnsKept

LEMMA KeptWhenFreed ==
  ASSUME conn \in [Conns -> Conn], PointsAtFiles, NEW c \in Conns, conn[c].st # "body",
         conn' = [conn EXCEPT ![c] = FreeConn]
  PROVE  ConnsKept
BY FreeConnType DEF ConnsKept, FreeConn, PointsAtFiles

\* A reply of the receiver ends the reading of one connection.
LEMMA ReplyFacts ==
  ASSUME conn \in [Conns -> Conn], NEW c \in Conns, NEW reply \in Replies, Reply(c, reply)
  PROVE  /\ conn' \in [Conns -> Conn]
         /\ conn'[c].st \in {"answered", "free"}
         /\ conn'[c].reply \in {reply, "none"}
         /\ \A d \in Conns \ {c} : conn'[d] = conn[d]
<1>1. [conn[c] EXCEPT !.st = "answered", !.reply = reply] \in Conn BY DEF Conn, Replies
<1> QED BY <1>1, FreeConnType DEF Reply, FreeConn, Conn
-----------------------------------------------------------------------------
(***************************************************************************)
(* The sender                                                              *)
(***************************************************************************)
\* The sender's share of the type invariant and of PointsAtFiles.
AtFile == {"hash", "register", "wait", "resume", "open", "stream"}
SenderSound ==
  /\ spc \in SenderSteps /\ fi \in 1 .. N + 1
  /\ attempt \in 0 .. MaxRetries /\ try \in 0 .. MaxRetries /\ off \in Nat
  /\ stop \in BOOLEAN /\ result \in Results /\ late \in BOOLEAN
  /\ spc \in AtFile => fi \in Files

\* The sender's share of OutcomesAreHonest and CancelsWereAsked.
SenderHonest == /\ OutcomesAreHonest
                /\ stop \/ spc = "notify" => asked

LEMMA EndSound ==
  ASSUME SenderSound, NEW r \in Results, End(r), late' \in BOOLEAN
  PROVE  SenderSound' /\ stop' = stop /\ result' = r /\ (spc' = "notify" => r = "cancelled")
BY DEF SenderSound, End, SenderSteps, AtFile

LEMMA GotoSound ==
  ASSUME SenderSound, NEW step \in SenderSteps, Goto(step), late' \in BOOLEAN,
         step \in AtFile => fi \in Files
  PROVE  SenderSound' /\ stop' = stop /\ result' = result /\ spc' = step
BY TransferAssumption DEF SenderSound, Goto

LEMMA NextFileSound ==
  ASSUME SenderSound, NextFile, late' \in BOOLEAN, fi \in Files
  PROVE  SenderSound' /\ stop' = stop /\ result' = result /\ spc' # "notify"
BY TransferAssumption DEF SenderSound, NextFile, SenderSteps, AtFile, Files

\* Whatever the receiver answers, the sender knows what to do next, and ends as
\* cancelled only after 410.
LEMMA UploadResultSound ==
  ASSUME SenderSound, SenderHonest, NEW reply, UploadResult(reply), late' \in BOOLEAN,
         spc = "stream", reply = "410" => asked,
         asked' = asked, published' = published, decision' = decision
  PROVE  SenderSound' /\ SenderHonest'
<1> fi \in Files BY DEF SenderSound, AtFile
<1>1. CASE reply = "200" /\ NextFile
  BY <1>1, NextFileSound DEF SenderHonest, OutcomesAreHonest
<1>2. CASE reply = "410" /\ End("cancelled")
  BY <1>2, EndSound DEF SenderHonest, OutcomesAreHonest, Results
<1>3. CASE /\ reply \in Retried /\ attempt < MaxRetries
           /\ spc' = "resume" /\ attempt' = attempt + 1 /\ try' = 0
           /\ UNCHANGED <<fi, off, stop, result>>
  BY <1>3, TransferAssumption
  DEF SenderSound, SenderHonest, OutcomesAreHonest, SenderSteps, AtFile
<1>4. CASE End("failed")
  BY <1>4, EndSound DEF SenderHonest, OutcomesAreHonest, Results
<1> QED BY <1>1, <1>2, <1>3, <1>4 DEF UploadResult

\* Every step of the sender but the notification changes only what is its own.
SenderOnly == /\ SenderSound' /\ SenderHonest'
              /\ ConnsKept
              /\ UNCHANGED receiverVars
              /\ asked' \in BOOLEAN /\ (asked => asked')
              /\ source' = source /\ changes' = changes /\ faults' \in Nat

LEMMA SenderActions ==
  ASSUME Inv,
         \/ Send \/ CheckSource \/ RegisterReply \/ RequestFails \/ Approval
         \/ ApprovalTimeout \/ Checkpoint \/ OpenUpload \/ FinalStatus \/ CancelSend
         \/ Stopped \/ Close \/ SenderCrash
         \/ \E c \in Conns : UploadReply(c) \/ UploadFails(c)
  PROVE  SenderOnly
<1>a. /\ SenderSound /\ SenderHonest /\ PointsAtFiles
      /\ conn \in [Conns -> Conn] /\ asked \in BOOLEAN /\ faults \in Nat
      /\ late \in BOOLEAN
  BY DEF Inv, TypeOK, PointsAtFiles, CancelsWereAsked, SenderSound, SenderHonest, AtFile
<1>b. ASSUME UNCHANGED receiverVars, UNCHANGED world, SenderSound', SenderHonest' PROVE SenderOnly
  BY <1>a, <1>b, KeptWhenSame DEF world, ambient, SenderOnly
<1>c. ASSUME UNCHANGED <<receiverVars, asked>>, SenderSound, NEW r \in Results, End(r),
             late' \in BOOLEAN, r = "ok" => published = Files, r = "cancelled" => asked,
             r = "rejected" => decision = "Rejected"
      PROVE  SenderSound' /\ SenderHonest'
  BY <1>a, <1>c, EndSound DEF SenderHonest, OutcomesAreHonest, receiverVars
<1>d. ASSUME UNCHANGED <<receiverVars, asked>>, SenderSound, NEW step \in SenderSteps,
             Goto(step), late' \in BOOLEAN, step \in AtFile => fi \in Files, step # "notify"
      PROVE  SenderSound' /\ SenderHonest'
  BY <1>a, <1>d, GotoSound DEF SenderHonest, OutcomesAreHonest, receiverVars
<1>e. {"failed", "ok", "cancelled", "rejected", "timeout"} \subseteq Results BY DEF Results
<1>f. cancelled => asked BY DEF Inv, CancelsWereAsked
<1>1. CASE Send
  <2>0. 1 \in Files /\ 1 \in 1 .. N + 1 /\ 0 \in 0 .. MaxRetries /\ 0 \in Nat
    BY TransferAssumption DEF Files
  <2>1. SenderSound'
    <3>1. late' \in BOOLEAN /\ stop' \in BOOLEAN BY <1>1, <1>a DEF Send
    <3> QED BY <1>1, <2>0, <3>1 DEF Send, SenderSound, SenderSteps, Results
  <2>2. SenderHonest' BY <1>1, <1>a DEF Send, SenderHonest, OutcomesAreHonest, world, ambient
  <2> QED BY <1>1, <1>b, <2>1, <2>2 DEF Send
<1>2. CASE CheckSource
  <2>1. UNCHANGED <<receiverVars, asked>> /\ late' \in BOOLEAN
    BY <1>2, <1>a DEF CheckSource, world, ambient
  <2>2. SenderSound' /\ SenderHonest'
    <3>1. CASE source
      <4>1. Goto("register") /\ fi \in Files
        BY <1>2, <3>1, <1>a DEF CheckSource, SenderSound, AtFile
      <4> QED BY <2>1, <4>1, <1>a, <1>d DEF SenderSteps
    <3>2. CASE ~source
      BY <1>2, <2>1, <3>2, <1>a, <1>c, <1>e DEF CheckSource
    <3> QED BY <3>1, <3>2
  <2> QED BY <1>2, <2>2, <1>b DEF CheckSource
<1>3. CASE RegisterReply
  <2>1. UNCHANGED <<receiverVars, asked>> /\ late' \in BOOLEAN /\ fi \in Files /\ Goto("wait")
    BY <1>3, <1>a DEF RegisterReply, world, ambient, SenderSound, AtFile
  <2>2. SenderSound' /\ SenderHonest' BY <2>1, <1>a, <1>d DEF SenderSteps
  <2> QED BY <1>3, <2>2, <1>b DEF RegisterReply
<1>4. CASE RequestFails
  <2>1. /\ UNCHANGED <<receiverVars, asked>> /\ late' \in BOOLEAN
        /\ conn' = conn /\ UNCHANGED <<source, changes>> /\ faults' \in Nat
    BY <1>4, <1>a DEF RequestFails, ambient, Fault
  <2>2. SenderSound' /\ SenderHonest'
    <3>1. CASE try < MaxRetries
      BY <1>4, <2>1, <3>1, <1>a, TransferAssumption
      DEF RequestFails, SenderSound, SenderHonest, OutcomesAreHonest, receiverVars
    <3>2. CASE ~(try < MaxRetries)
      BY <1>4, <2>1, <3>2, <1>a, <1>c, <1>e DEF RequestFails
    <3> QED BY <3>1, <3>2
  <2> QED BY <2>1, <2>2, <1>a, KeptWhenSame DEF SenderOnly
<1>5. CASE Approval
  <2>1. UNCHANGED <<receiverVars, asked>> /\ late' \in BOOLEAN /\ fi \in Files
    BY <1>5, <1>a DEF Approval, Answered, world, ambient, SenderSound, AtFile
  <2>2. SenderSound' /\ SenderHonest'
    <3>1. CASE cancelled /\ End("cancelled") BY <3>1, <2>1, <1>a, <1>c, <1>e, <1>f
    <3>2. CASE decision = "Rejected" /\ End("rejected") BY <3>2, <2>1, <1>a, <1>c, <1>e
    <3>3. CASE complete /\ End("ok") BY <3>3, <2>1, <1>a, <1>c, <1>e DEF complete
    <3>4. CASE Goto("resume") BY <3>4, <2>1, <1>a, <1>d DEF SenderSteps
    <3> QED BY <1>5, <3>1, <3>2, <3>3, <3>4 DEF Approval
  <2> QED BY <1>5, <2>2, <1>b DEF Approval
<1>6. CASE ApprovalTimeout
  <2>1. UNCHANGED <<receiverVars, asked>> /\ late' \in BOOLEAN /\ End("timeout")
    BY <1>6, <1>a DEF ApprovalTimeout, world, ambient
  <2>2. SenderSound' /\ SenderHonest' BY <2>1, <1>a, <1>c, <1>e
  <2> QED BY <1>6, <2>2, <1>b DEF ApprovalTimeout
<1>7. CASE Checkpoint
  <2>1. UNCHANGED <<receiverVars, asked>> /\ late' \in BOOLEAN /\ fi \in Files
    BY <1>7, <1>a DEF Checkpoint, Answered, world, ambient, SenderSound, AtFile
  <2>2. SenderSound' /\ SenderHonest'
    <3>1. CASE cancelled /\ End("cancelled") BY <3>1, <2>1, <1>a, <1>c, <1>e, <1>f
    <3>2. CASE NextFile
      BY <3>2, <2>1, <1>a, NextFileSound DEF SenderHonest, OutcomesAreHonest, receiverVars
    <3>3. CASE /\ off' = part[fi].len
               /\ spc' = "open" /\ try' = 0
               /\ UNCHANGED <<fi, attempt, stop, result>>
      <4>1. part[fi].len \in Nat BY <2>1 DEF Inv, TypeOK, Part
      <4> QED
        BY <3>3, <2>1, <4>1, <1>a, TransferAssumption
        DEF SenderSound, SenderHonest, OutcomesAreHonest, receiverVars, SenderSteps, AtFile
    <3> QED BY <1>7, <3>1, <3>2, <3>3 DEF Checkpoint
  <2> QED BY <1>7, <2>2, <1>b DEF Checkpoint
<1>8. CASE OpenUpload
  <2>1. /\ UNCHANGED <<receiverVars, asked>> /\ late' \in BOOLEAN /\ fi \in Files
        /\ Goto("stream") /\ UNCHANGED <<source, changes, faults>> /\ off \in Nat
    BY <1>8, <1>a DEF OpenUpload, ambient, SenderSound, AtFile
  <2>2. SenderSound' /\ SenderHonest' BY <2>1, <1>a, <1>d DEF SenderSteps
  <2>3. ConnsKept BY <1>8, <2>1, <1>a, KeptWhenOpened DEF OpenUpload
  <2> QED BY <2>1, <2>2, <2>3, <1>a DEF SenderOnly
<1>9. CASE FinalStatus
  <2>1. UNCHANGED <<receiverVars, asked>> /\ late' \in BOOLEAN
    BY <1>9, <1>a DEF FinalStatus, world, ambient
  <2>2. SenderSound' /\ SenderHonest'
    <3>1. CASE complete BY <1>9, <2>1, <3>1, <1>a, <1>c, <1>e DEF FinalStatus, complete
    <3>2. CASE ~complete BY <1>9, <2>1, <3>2, <1>a, <1>c, <1>e DEF FinalStatus
    <3> QED BY <3>1, <3>2
  <2> QED BY <1>9, <2>2, <1>b DEF FinalStatus
<1>10. CASE CancelSend
  <2>1. SenderSound' BY <1>10, <1>a DEF CancelSend, SenderSound
  <2>2. SenderHonest'
    BY <1>10, <1>a DEF CancelSend, SenderHonest, OutcomesAreHonest, receiverVars
  <2> QED BY <1>10, <2>1, <2>2, <1>a, KeptWhenSame DEF CancelSend, SenderOnly
<1>11. CASE Stopped
  <2>1. /\ UNCHANGED <<receiverVars, asked>> /\ late' \in BOOLEAN /\ asked
        /\ End("cancelled") /\ Abandon /\ UNCHANGED <<source, changes, faults>>
    BY <1>11, <1>a DEF Stopped, ambient, SenderHonest
  <2>2. SenderSound' /\ SenderHonest' BY <2>1, <1>a, <1>c, <1>e
  <2> QED BY <2>1, <2>2, <1>a, KeptWhenAbandoned DEF SenderOnly
<1>12. CASE Close
  <2>1. UNCHANGED <<receiverVars, asked>> /\ late' \in BOOLEAN /\ Goto("idle")
    BY <1>12, <1>a DEF Close, world, ambient
  <2>2. SenderSound' /\ SenderHonest' BY <2>1, <1>a, <1>d DEF SenderSteps, AtFile
  <2> QED BY <1>12, <2>2, <1>b DEF Close
<1>13. CASE SenderCrash
  <2>1. /\ UNCHANGED <<receiverVars, asked>> /\ late' \in BOOLEAN
        /\ Abandon /\ UNCHANGED <<source, changes>> /\ faults' \in Nat
    BY <1>13, <1>a DEF SenderCrash, ambient, Fault
  <2>2. SenderSound'
    BY <1>13, <2>1, <1>a, TransferAssumption
    DEF SenderCrash, SenderSound, SenderSteps, AtFile, Results
  <2>3. SenderHonest'
    BY <1>13, <2>1, <1>a DEF SenderCrash, SenderHonest, OutcomesAreHonest
  <2> QED BY <2>1, <2>2, <2>3, <1>a, KeptWhenAbandoned DEF SenderOnly
<1>14. ASSUME NEW c \in Conns, UploadReply(c) PROVE SenderOnly
  <2>1. /\ UNCHANGED <<receiverVars, asked>> /\ late' \in BOOLEAN /\ spc = "stream"
        /\ UploadResult(conn[c].reply) /\ UNCHANGED <<source, changes, faults>>
        /\ conn[c].reply = "410" => asked
        /\ conn[c].st # "body" /\ conn' = [conn EXCEPT ![c] = FreeConn]
    BY <1>14, <1>a DEF UploadReply, ambient, Inv, CancelsWereAsked
  <2>2. SenderSound' /\ SenderHonest'
    BY <2>1, <1>a, UploadResultSound DEF receiverVars
  <2> QED BY <2>1, <2>2, <1>a, KeptWhenFreed DEF SenderOnly
<1>15. ASSUME NEW c \in Conns, UploadFails(c) PROVE SenderOnly
  <2>1. /\ UNCHANGED <<receiverVars, asked>> /\ late' \in BOOLEAN /\ spc = "stream"
        /\ UploadResult("lost") /\ UNCHANGED <<source, changes>> /\ faults' \in Nat
        /\ conn' = [conn EXCEPT ![c] = IF @.st = "answered" THEN FreeConn
                                       ELSE [@ EXCEPT !.att = FALSE]]
    BY <1>15, <1>a DEF UploadFails, ambient, Fault
  <2>2. SenderSound' /\ SenderHonest'
    BY <2>1, <1>a, UploadResultSound DEF receiverVars
  <2> QED BY <2>1, <2>2, <1>a, KeptWhenLeft DEF SenderOnly
<1> QED
  BY <1>1, <1>2, <1>3, <1>4, <1>5, <1>6, <1>7, <1>8, <1>9, <1>10, <1>11, <1>12, <1>13, <1>14,
     <1>15
-----------------------------------------------------------------------------
(***************************************************************************)
(* The inductive invariant                                                 *)
(***************************************************************************)
\* What a step of the sender leaves of the receiver's share.
LEMMA SenderOnlyKeeps ==
  ASSUME Inv, SenderOnly
  PROVE  Inv'
<1> USE DEF Inv, SenderOnly, receiverVars
<1>1. TypeOK' BY DEF TypeOK, SenderSound, ConnsKept
<1>2. PartsAreAligned'
  <2>1. \A f \in Files : (part[f].aligned /\ part[f].len <= Size[f])' BY DEF PartsAreAligned
  <2>2. \A c \in Conns : (conn[c].st = "body" <=> holder = c)'
    BY DEF PartsAreAligned, ConnsKept
  <2>3. ASSUME holder # None PROVE conn'[holder].next = part[conn'[holder].f].len
    <3>1. holder \in Conns /\ conn[holder].st = "body"
      BY <2>3 DEF TypeOK, PartsAreAligned
    <3> QED BY <2>3, <3>1 DEF PartsAreAligned, ConnsKept
  <2> QED BY <2>1, <2>2, <2>3 DEF PartsAreAligned
<1>3. OutcomesAreHonest' BY DEF SenderHonest
<1>4. PointsAtFiles' BY DEF PointsAtFiles, SenderSound, ConnsKept, AtFile
<1>5. CancelsWereAsked'
  <2>1. (stop \/ token \/ waiting \/ cancelled \/ spc = "notify" => asked)'
    BY DEF CancelsWereAsked, SenderHonest
  <2>2. \A c \in Conns : conn'[c].reply = "410" => asked' BY DEF CancelsWereAsked, ConnsKept
  <2> QED BY <2>1, <2>2 DEF CancelsWereAsked
<1>6. ReceiverIsSound'
  <2>1. ASSUME holder # None PROVE conn'[holder].f \notin published
    <3>1. holder \in Conns /\ conn[holder].st = "body"
      BY <2>1 DEF TypeOK, PartsAreAligned
    <3> QED BY <2>1, <3>1 DEF ReceiverIsSound, ConnsKept
  <2> QED BY <2>1 DEF ReceiverIsSound
<1> QED BY <1>1, <1>2, <1>3, <1>4, <1>5, <1>6

\* The steps that touch neither the connections nor the parts, the receipts and
\* the mutex: registration, the decision, the cancellation requests, the source.
LEMMA QuietKeeps ==
  ASSUME Inv, UNCHANGED <<conn, part, published, holder>>,
         Registered \/ Decide \/ LocalCancel \/ Notify \/ SourceChanges \/ UNCHANGED vars
  PROVE  Inv'
<1> USE DEF Inv
<1>a. holder # None \/ published # {} => decision = "Accepted" BY DEF ReceiverIsSound
<1>1. TypeOK'
  <2>1. CASE Registered BY <2>1 DEF Registered, TypeOK, ambient
  <2>2. CASE Decide BY <2>2 DEF Decide, TypeOK, ambient, senderVars
  <2>3. CASE LocalCancel BY <2>3 DEF LocalCancel, TypeOK, senderVars
  <2>4. CASE Notify
    <3>1. faults' \in Nat BY <2>4 DEF Notify, TypeOK, Fault
    <3>2. token' \in BOOLEAN /\ waiting' \in BOOLEAN BY <2>4 DEF Notify, TypeOK
    <3>3. /\ spc' \in SenderSteps /\ try' = 0
          /\ UNCHANGED <<fi, attempt, off, stop, result, asked, source, changes, late,
                         decision, cancelled>>
      BY <2>4 DEF Notify, Goto, ambient, SenderSteps
    <3> QED BY <3>1, <3>2, <3>3, TransferAssumption DEF TypeOK
  <2>5. CASE SourceChanges BY <2>5 DEF SourceChanges, TypeOK, senderVars, receiverVars
  <2>6. CASE UNCHANGED vars
    BY <2>6 DEF TypeOK, vars, senderVars, receiverVars, world, ambient
  <2> QED BY <2>1, <2>2, <2>3, <2>4, <2>5, <2>6
<1>2. PartsAreAligned' BY DEF PartsAreAligned
<1>3. OutcomesAreHonest' /\ PointsAtFiles' /\ CancelsWereAsked' /\ ReceiverIsSound'
  <2> USE DEF OutcomesAreHonest, PointsAtFiles, CancelsWereAsked, ReceiverIsSound
  <2>1. CASE Registered BY <2>1, <1>a DEF Registered, ambient
  <2>2. CASE Decide BY <2>2, <1>a DEF Decide, ambient, senderVars
  <2>3. CASE LocalCancel BY <2>3 DEF LocalCancel, senderVars
  <2>4. CASE Notify BY <2>4 DEF Notify, Goto, ambient
  <2>5. CASE SourceChanges BY <2>5 DEF SourceChanges, senderVars, receiverVars
  <2>6. CASE UNCHANGED vars BY <2>6 DEF vars, senderVars, receiverVars, world, ambient
  <2> QED BY <2>1, <2>2, <2>3, <2>4, <2>5, <2>6
<1> QED BY <1>1, <1>2, <1>3

\* The canceller discards the parts once no upload holds the mutex.
LEMMA CancelLockedKeeps ==
  ASSUME Inv, CancelLocked
  PROVE  Inv'
<1> USE DEF Inv
<1>a. NoPart \in Part /\ NoPart.aligned /\ NoPart.len = 0 BY DEF NoPart, Part
<1>1. TypeOK' BY <1>a DEF CancelLocked, TypeOK, senderVars, ambient
<1>2. PartsAreAligned'
  <2>1. CASE part' = part BY <2>1 DEF CancelLocked, PartsAreAligned
  <2>2. CASE part' = [f \in Files |-> NoPart]
    BY <1>a, <2>2, TransferAssumption DEF CancelLocked, PartsAreAligned, Files
  <2> QED BY <2>1, <2>2 DEF CancelLocked
<1>3. OutcomesAreHonest' /\ PointsAtFiles' /\ CancelsWereAsked' /\ ReceiverIsSound'
  BY DEF CancelLocked, senderVars, ambient, OutcomesAreHonest, PointsAtFiles,
         CancelsWereAsked, ReceiverIsSound
<1> QED BY <1>1, <1>2, <1>3
\* An upload that is answered or dropped gives the mutex back.
LEMMA ReleaseKeeps ==
  ASSUME Inv, NEW c \in Conns, holder \in {c, None}, holder' = None,
         conn' \in [Conns -> Conn], conn'[c].st \in {"answered", "free"},
         conn'[c].reply = "410" => asked,
         \A d \in Conns \ {c} : conn'[d] = conn[d],
         part' \in [Files -> Part],
         \A f \in Files : part'[f].aligned /\ part'[f].len <= Size[f],
         published' \in SUBSET Files, published \subseteq published',
         published' # {} => decision = "Accepted",
         UNCHANGED <<senderVars, decision, cancelled, token, waiting, ambient>>,
         faults' \in Nat
  PROVE  Inv'
<1> USE DEF Inv
<1>1. TypeOK' BY DEF TypeOK, senderVars, ambient
<1>2. PartsAreAligned'
  <2>1. \A d \in Conns : conn'[d].st # "body"
    BY ConnsAssumption DEF PartsAreAligned
  <2> QED BY <2>1, ConnsAssumption DEF PartsAreAligned
<1>3. OutcomesAreHonest' BY DEF OutcomesAreHonest, senderVars, ambient
<1>4. PointsAtFiles' BY DEF PointsAtFiles, senderVars
<1>5. CancelsWereAsked' BY DEF CancelsWereAsked, senderVars, ambient
<1>6. ReceiverIsSound' BY DEF ReceiverIsSound
<1> QED BY <1>1, <1>2, <1>3, <1>4, <1>5, <1>6

\* The parts after one of them was discarded.
LEMMA DiscardedPart ==
  ASSUME Inv, NEW f \in Files, part' = [part EXCEPT ![f] = NoPart]
  PROVE  /\ part' \in [Files -> Part]
         /\ \A g \in Files : part'[g].aligned /\ part'[g].len <= Size[g]
<1>1. NoPart \in Part /\ NoPart.aligned /\ NoPart.len = 0 BY DEF NoPart, Part
<1>2. Size[f] \in Nat BY TransferAssumption DEF Files
<1> QED BY <1>1, <1>2 DEF Inv, TypeOK, PartsAreAligned

\* An answer to an upload, whatever it says.
LEMMA AnswerKeeps ==
  ASSUME Inv, NEW c \in Conns, holder \in {c, None}, holder' = None,
         NEW reply \in Replies, Reply(c, reply), reply = "410" => asked,
         UNCHANGED part \/ (conn[c].f \in Files /\ part' = [part EXCEPT ![conn[c].f] = NoPart]),
         published' \in SUBSET Files, published \subseteq published',
         published' # {} => decision = "Accepted",
         UNCHANGED <<senderVars, decision, cancelled, token, waiting, ambient>>,
         faults' \in Nat
  PROVE  Inv'
<1>1. /\ part' \in [Files -> Part]
      /\ \A g \in Files : part'[g].aligned /\ part'[g].len <= Size[g]
  <2>1. CASE part' = part BY <2>1 DEF Inv, TypeOK, PartsAreAligned
  <2>2. CASE conn[c].f \in Files /\ part' = [part EXCEPT ![conn[c].f] = NoPart]
    BY <2>2, DiscardedPart
  <2> QED BY <2>1, <2>2
<1>2. conn \in [Conns -> Conn] BY DEF Inv, TypeOK
<1>3. /\ conn' \in [Conns -> Conn]
      /\ conn'[c].st \in {"answered", "free"}
      /\ conn'[c].reply \in {reply, "none"}
      /\ \A d \in Conns \ {c} : conn'[d] = conn[d]
  BY <1>2, ReplyFacts
<1>4. conn'[c].reply = "410" => asked BY <1>3
<1> QED BY <1>1, <1>3, <1>4, ReleaseKeeps

\* What Refusal says is a reply, 410 only for a cancelled session.
LEMMA RefusalFacts ==
  ASSUME Inv, NEW c \in Conns
  PROVE  /\ Refusal(c) \in Replies \cup {"none"}
         /\ Refusal(c) = "410" => asked
         /\ Refusal(c) = "none" => /\ ~cancelled /\ ~token /\ decision = "Accepted"
                                   /\ conn[c].f \notin published
                                   /\ conn[c].next = part[conn[c].f].len
BY DEF Refusal, Replies, Inv, CancelsWereAsked

LEMMA AdmitKeeps ==
  ASSUME Inv, NEW c \in Conns, Admit(c)
  PROVE  Inv'
<1>a. /\ published \in SUBSET Files /\ faults \in Nat
      /\ published # {} => decision = "Accepted"
  BY DEF Inv, TypeOK, ReceiverIsSound
<1>1. CASE Refusal(c) # "none" /\ Reply(c, Refusal(c)) /\ UNCHANGED holder
  <2>1. holder = None /\ UNCHANGED <<senderVars, decision, cancelled, token, waiting, ambient>>
        /\ UNCHANGED <<part, published, faults>>
    BY DEF Admit
  <2> QED BY <1>1, <2>1, <1>a, RefusalFacts, AnswerKeeps
<1>2. CASE /\ Refusal(c) = "none"
           /\ holder' = c
           /\ conn' = [conn EXCEPT ![c].st = "body"]
  <2> USE DEF Inv
  <2>1. [conn[c] EXCEPT !.st = "body"] \in Conn BY DEF TypeOK, Conn
  <2>2. /\ conn' \in [Conns -> Conn] /\ conn'[c].st = "body" /\ conn'[c].f = conn[c].f
        /\ conn'[c].next = conn[c].next /\ conn'[c].reply = conn[c].reply
        /\ \A d \in Conns \ {c} : conn'[d] = conn[d]
    <3>1. conn' = [conn EXCEPT ![c] = [conn[c] EXCEPT !.st = "body"]] BY <1>2
    <3>2. conn[c] \in Conn BY DEF TypeOK
    <3> QED BY <2>1, <3>1, <3>2 DEF TypeOK, Conn
  <2>3. /\ holder = None /\ conn[c].st = "queued"
        /\ UNCHANGED <<senderVars, decision, cancelled, published, part, token, waiting, ambient,
                       faults>>
    BY DEF Admit
  <2>4. TypeOK' BY <1>2, <2>2, <2>3 DEF TypeOK, senderVars, ambient
  <2>5. PartsAreAligned'
    <3>1. \A d \in Conns : conn'[d].st = "body" <=> holder' = d
      BY <1>2, <2>2, <2>3, ConnsAssumption DEF PartsAreAligned
    <3>2. conn'[holder'].next = part'[conn'[holder'].f].len
      BY <1>2, <2>2, <2>3, RefusalFacts
    <3> QED BY <2>3, <3>1, <3>2 DEF PartsAreAligned
  <2>6. OutcomesAreHonest' BY <2>3 DEF OutcomesAreHonest, senderVars, ambient
  <2>7. PointsAtFiles' BY <2>2, <2>3 DEF PointsAtFiles, senderVars
  <2>8. CancelsWereAsked' BY <2>2, <2>3 DEF CancelsWereAsked, senderVars, ambient
  <2>9. ReceiverIsSound' BY <1>2, <2>2, <2>3, RefusalFacts DEF ReceiverIsSound
  <2> QED BY <2>4, <2>5, <2>6, <2>7, <2>8, <2>9
<1> QED BY <1>1, <1>2 DEF Admit

LEMMA ReadKeeps ==
  ASSUME Inv, NEW c \in Conns, Read(c)
  PROVE  Inv'
<1> USE DEF Inv
<1> DEFINE f == conn[c].f
           p == [len |-> part[f].len + 1,
                 aligned |-> part[f].aligned /\ part[f].len = conn[c].next,
                 right |-> part[f].right /\ source]
           r == [conn[c] EXCEPT !.next = @ + 1]
<1>1. /\ holder = c /\ conn[c].st = "body" /\ f \in Files /\ part[f] \in Part
      /\ conn[c] \in Conn /\ source \in BOOLEAN /\ holder # None
      /\ part[f].len = conn[c].next /\ part[f].aligned /\ conn[c].next < Size[f]
      /\ Size[f] \in Nat
  BY ConnsAssumption, TransferAssumption DEF Read, TypeOK, PartsAreAligned, PointsAtFiles, Files
<1>2. /\ part' = [part EXCEPT ![f] = p] /\ conn' = [conn EXCEPT ![c] = r]
      /\ UNCHANGED <<senderVars, decision, cancelled, published, token, waiting, holder, ambient,
                     faults>>
  BY DEF Read
<1>3. /\ p \in Part /\ p.aligned /\ p.len = conn[c].next + 1 /\ p.len <= Size[f]
  <2>1. part[f].len \in Nat /\ part[f].right \in BOOLEAN /\ conn[c].next \in Nat
    BY <1>1 DEF Part, Conn
  <2>2. p.len \in Nat /\ p.len = conn[c].next + 1 /\ p.len <= Size[f] BY <1>1, <2>1
  <2>3. p.aligned = TRUE BY <1>1
  <2>4. p.right \in BOOLEAN BY <1>1, <2>1
  <2> QED BY <2>2, <2>3, <2>4 DEF Part
<1>4. /\ r \in Conn /\ r.st = "body" /\ r.f = f /\ r.next = conn[c].next + 1
      /\ r.reply = conn[c].reply
  BY <1>1 DEF Conn
<1>5. PICK g \in Files : g = f BY <1>1
<1> HIDE DEF p, r, f
<1>6. /\ conn' \in [Conns -> Conn] /\ conn'[c] = r
      /\ \A d \in Conns \ {c} : conn'[d] = conn[d]
  BY <1>2, <1>4 DEF TypeOK
<1>7. /\ part' \in [Files -> Part] /\ part'[g] = p
      /\ \A h \in Files \ {g} : part'[h] = part[h]
  BY <1>2, <1>3, <1>5 DEF TypeOK
<1>8. TypeOK' BY <1>2, <1>6, <1>7 DEF TypeOK, senderVars, ambient
<1>9. PartsAreAligned'
  <2>1. \A h \in Files : part'[h].aligned /\ part'[h].len <= Size[h]
    BY <1>3, <1>5, <1>7 DEF PartsAreAligned
  <2>2. \A d \in Conns : conn'[d].st = "body" <=> holder' = d
    BY <1>1, <1>2, <1>4, <1>6 DEF PartsAreAligned
  <2>3. conn'[holder'].next = part'[conn'[holder'].f].len
    BY <1>1, <1>2, <1>3, <1>4, <1>5, <1>6, <1>7
  <2> QED BY <2>1, <2>2, <2>3 DEF PartsAreAligned
<1>10. OutcomesAreHonest' BY <1>2 DEF OutcomesAreHonest, senderVars, ambient
<1>11. PointsAtFiles' BY <1>1, <1>2, <1>4, <1>6 DEF PointsAtFiles, senderVars
<1>12. CancelsWereAsked' BY <1>2, <1>4, <1>6 DEF CancelsWereAsked, senderVars, ambient
<1>13. ReceiverIsSound' BY <1>1, <1>2, <1>4, <1>6 DEF ReceiverIsSound, f
<1> QED BY <1>8, <1>9, <1>10, <1>11, <1>12, <1>13
\* The upload that holds the mutex, and the file it brings.
LEMMA HolderFacts ==
  ASSUME Inv, NEW c \in Conns, holder = c
  PROVE  /\ conn[c].st = "body" /\ conn[c].f \in Files /\ decision = "Accepted"
         /\ conn[c].f \notin published
BY ConnsAssumption DEF Inv, PartsAreAligned, PointsAtFiles, ReceiverIsSound

LEMMA BodyEndsKeep ==
  ASSUME Inv, NEW c \in Conns,
         Finish(c) \/ BodyCancelled(c) \/ BodyBroken(c) \/ UploadFault(c)
  PROVE  Inv'
<1>a. /\ published \in SUBSET Files /\ faults \in Nat /\ holder = c
      /\ conn \in [Conns -> Conn] /\ part \in [Files -> Part]
      /\ \A f \in Files : part[f].aligned /\ part[f].len <= Size[f]
      /\ token => asked
  BY DEF Inv, TypeOK, PartsAreAligned, CancelsWereAsked, Finish, BodyCancelled, BodyBroken,
         UploadFault
<1>b. conn[c].f \in Files /\ decision = "Accepted" BY <1>a, HolderFacts
<1>c. {"200", "408", "410", "422", "500"} \subseteq Replies BY DEF Replies
<1>1. CASE Finish(c)
  <2>1. /\ holder' = None /\ part' = [part EXCEPT ![conn[c].f] = NoPart]
        /\ UNCHANGED <<senderVars, decision, cancelled, token, waiting, ambient, faults>>
    BY <1>1 DEF Finish
  <2>2. CASE published' = published \cup {conn[c].f} /\ Reply(c, "200")
    BY <2>1, <2>2, <1>a, <1>b, <1>c, AnswerKeeps
  <2>3. CASE /\ ~(part[conn[c].f].right /\ ~token) /\ UNCHANGED published
             /\ Reply(c, IF part[conn[c].f].right THEN "410" ELSE "422")
    <3>1. CASE part[conn[c].f].right BY <2>1, <2>3, <3>1, <1>a, <1>b, <1>c, AnswerKeeps
    <3>2. CASE ~part[conn[c].f].right BY <2>1, <2>3, <3>2, <1>a, <1>b, <1>c, AnswerKeeps
    <3> QED BY <3>1, <3>2
  <2> QED BY <1>1, <2>2, <2>3 DEF Finish
<1>2. CASE BodyCancelled(c)
  <2>1. /\ holder' = None /\ part' = [part EXCEPT ![conn[c].f] = NoPart] /\ token
        /\ Reply(c, "410")
        /\ UNCHANGED <<senderVars, decision, cancelled, published, token, waiting, ambient,
                       faults>>
    BY <1>2 DEF BodyCancelled
  <2> QED BY <2>1, <1>a, <1>b, <1>c, AnswerKeeps
<1>3. CASE BodyBroken(c)
  <2>1. /\ holder' = None /\ conn' = [conn EXCEPT ![c] = FreeConn]
        /\ UNCHANGED <<senderVars, decision, cancelled, published, part, token, waiting, ambient,
                       faults>>
    BY <1>3 DEF BodyBroken
  <2>2. /\ conn' \in [Conns -> Conn] /\ conn'[c] = FreeConn
        /\ \A d \in Conns \ {c} : conn'[d] = conn[d]
    BY <2>1, <1>a, FreeConnType
  <2>3. conn'[c].st \in {"answered", "free"} /\ conn'[c].reply # "410"
    BY <2>2 DEF FreeConn
  <2> QED BY <2>1, <2>2, <2>3, <1>a, <1>b, ReleaseKeeps
<1>4. CASE UploadFault(c)
  <2>1. /\ holder' = None /\ faults' \in Nat
        /\ UNCHANGED <<senderVars, decision, cancelled, published, part, token, waiting, ambient>>
    BY <1>4, <1>a DEF UploadFault, Fault
  <2>2. PICK reply \in {"408", "500"} : Reply(c, reply) BY <1>4 DEF UploadFault
  <2> QED BY <2>1, <2>2, <1>a, <1>b, <1>c, AnswerKeeps
<1> QED BY <1>1, <1>2, <1>3, <1>4

\* A crash ends every upload; what it does to a part keeps the part a prefix.
LEMMA CrashKeeps ==
  ASSUME Inv, ReceiverCrash
  PROVE  Inv'
<1> USE DEF Inv
<1>1. /\ holder' = None /\ token' = cancelled /\ waiting' = FALSE /\ faults' \in Nat
      /\ UNCHANGED <<senderVars, decision, cancelled, published, ambient>>
  <2>1. faults' = faults + 1 BY DEF ReceiverCrash, Fault
  <2>2. faults' \in Nat BY <2>1 DEF TypeOK
  <2> QED BY <2>2, Zenon DEF ReceiverCrash
<1>2. /\ conn' \in [Conns -> Conn]
      /\ \A c \in Conns : /\ conn'[c].st \in {"answered", "free"}
                          /\ conn'[c].reply = "410" => conn[c].reply = "410"
  <2>1. conn' = [c \in Conns |->
                IF conn[c].att
                THEN [conn[c] EXCEPT !.st = "answered",
                                     !.reply = IF conn[c].st = "answered" THEN @ ELSE "lost"]
                ELSE FreeConn]
    BY DEF ReceiverCrash
  <2>2. ASSUME NEW c \in Conns
        PROVE  /\ conn'[c] \in Conn /\ conn'[c].st \in {"answered", "free"}
               /\ conn'[c].reply = "410" => conn[c].reply = "410"
    <3>1. conn[c] \in Conn BY DEF TypeOK
    <3>2. CASE ~conn[c].att BY <2>1, <3>2, FreeConnType DEF FreeConn
    <3>3. CASE conn[c].att /\ conn[c].st = "answered"
      BY <2>1, <3>1, <3>3 DEF Conn
    <3>4. CASE conn[c].att /\ conn[c].st # "answered"
      BY <2>1, <3>1, <3>4 DEF Conn, Replies
    <3> QED BY <3>2, <3>3, <3>4
  <2> QED BY <2>1, <2>2
<1>3. /\ part' \in [Files -> Part]
      /\ \A f \in Files : part'[f].aligned /\ part'[f].len <= Size[f]
  <2>1. CASE part' = part BY <2>1 DEF TypeOK, PartsAreAligned
  <2>2. ASSUME NEW f \in Files, NEW l \in 0 .. part[f].len, NEW ok \in {part[f].right, FALSE},
               part' = [part EXCEPT ![f].len = l, ![f].right = (l = 0 \/ ok)]
        PROVE  <1>3!1 /\ <1>3!2
    <3>1. /\ part[f] \in Part /\ part[f].aligned /\ part[f].len <= Size[f] /\ Size[f] \in Nat
      BY TransferAssumption DEF TypeOK, PartsAreAligned, Files
    <3>2. (l = 0 \/ ok) \in BOOLEAN /\ l \in Nat /\ l <= Size[f] BY <3>1 DEF Part
    <3> DEFINE p == [part[f] EXCEPT !.len = l, !.right = (l = 0 \/ ok)]
    <3>3. part' = [part EXCEPT ![f] = p] BY <2>2 DEF TypeOK
    <3>4. p \in Part /\ p.aligned = part[f].aligned /\ p.len = l BY <3>1, <3>2 DEF Part
    <3> HIDE DEF p
    <3> QED BY <3>1, <3>2, <3>3, <3>4 DEF TypeOK, PartsAreAligned
  <2> QED BY <2>1, <2>2 DEF ReceiverCrash
<1>4. TypeOK' BY <1>1, <1>2, <1>3 DEF TypeOK, senderVars, ambient
<1>5. PartsAreAligned' BY <1>1, <1>2, <1>3, ConnsAssumption DEF PartsAreAligned
<1>6. OutcomesAreHonest' BY <1>1 DEF OutcomesAreHonest, senderVars, ambient
<1>7. PointsAtFiles' BY <1>1, <1>2 DEF PointsAtFiles, senderVars
<1>8. CancelsWereAsked' BY <1>1, <1>2 DEF CancelsWereAsked, senderVars, ambient
<1>9. ReceiverIsSound' BY <1>1 DEF ReceiverIsSound
<1> QED BY <1>4, <1>5, <1>6, <1>7, <1>8, <1>9

LEMMA InvInit == Init => Inv
<1> SUFFICES ASSUME Init PROVE Inv OBVIOUS
<1> USE TransferAssumption, ConnsAssumption DEF Init
<1>1. NoPart \in Part /\ NoPart.aligned /\ NoPart.len = 0 BY DEF NoPart, Part
<1>2. 1 \in Files /\ 1 \in 1 .. N + 1 BY DEF Files
<1>3. TypeOK
  <2>1. part \in [Files -> Part] /\ conn \in [Conns -> Conn] BY <1>1, FreeConnType
  <2>2. 0 \in 0 .. MaxRetries /\ 0 \in Nat OBVIOUS
  <2> QED BY <1>2, <2>1, <2>2 DEF TypeOK, SenderSteps, Results
<1>4. PartsAreAligned BY <1>1 DEF PartsAreAligned, FreeConn, Files
<1>5. OutcomesAreHonest /\ PointsAtFiles /\ CancelsWereAsked /\ ReceiverIsSound
  BY DEF OutcomesAreHonest, PointsAtFiles, CancelsWereAsked, ReceiverIsSound, FreeConn
<1> QED BY <1>3, <1>4, <1>5 DEF Inv

LEMMA InvStep == Inv /\ [Next]_vars => Inv'
<1> SUFFICES ASSUME Inv, [Next]_vars PROVE Inv' OBVIOUS
<1>1. CASE \/ Send \/ CheckSource \/ RegisterReply \/ RequestFails \/ Approval
           \/ ApprovalTimeout \/ Checkpoint \/ OpenUpload \/ FinalStatus \/ CancelSend
           \/ Stopped \/ Close \/ SenderCrash
           \/ \E c \in Conns : UploadReply(c) \/ UploadFails(c)
  BY <1>1, SenderActions, SenderOnlyKeeps
<1>2. CASE Registered \/ Decide \/ LocalCancel \/ Notify \/ SourceChanges \/ UNCHANGED vars
  <2>1. UNCHANGED <<conn, part, published, holder>>
    BY <1>2 DEF Registered, Decide, LocalCancel, Notify, SourceChanges, vars, receiverVars, world
  <2> QED BY <1>2, <2>1, QuietKeeps
<1>3. CASE CancelLocked BY <1>3, CancelLockedKeeps
<1>4. CASE ReceiverCrash BY <1>4, CrashKeeps
<1>5. ASSUME NEW c \in Conns, ReceiverNext(c) \/ UploadFault(c) PROVE Inv'
  BY <1>5, AdmitKeeps, ReadKeeps, BodyEndsKeep DEF ReceiverNext
<1> QED BY <1>1, <1>2, <1>3, <1>4, <1>5 DEF Next, SenderNext

\* The inductive invariant holds in every reachable state.
THEOREM Invariant == Spec => []Inv
<1>1. Init => Inv BY InvInit
<1>2. Inv /\ [Next]_vars => Inv' BY InvStep
<1> QED BY <1>1, <1>2, PTL DEF Spec

\* Every variable of the sender, of the wire and of the receiver stays in its set:
\* the file index never leaves the plan and no attempt exceeds max_retries.
THEOREM TypeCorrect == Spec => []TypeOK
<1>1. Inv => TypeOK BY DEF Inv
<1> QED BY <1>1, Invariant, PTL

\* Every part is a prefix of its file with each block at its place, whatever uploads
\* overlap, for any number of connections, faults, crashes and damaged parts: upload
\* writes under the session's mutex and continues where the last one ended.
THEOREM AlignedParts == Spec => []PartsAreAligned
<1>1. Inv => PartsAreAligned BY DEF Inv
<1> QED BY <1>1, Invariant, PTL

\* send_plan returns Ok only for a transfer that is published in full, ends as
\* cancelled only if somebody asked, and as rejected only if the user rejected.
THEOREM HonestOutcomes == Spec => []OutcomesAreHonest
<1>1. Inv => OutcomesAreHonest BY DEF Inv
<1> QED BY <1>1, Invariant, PTL
-----------------------------------------------------------------------------
(***************************************************************************)
(* The receiver implements TransferReceipts                                *)
(***************************************************************************)
\* The phase that the refinement mapping shows for the plan.
Phase == IF complete THEN "Complete" ELSE IF cancelled THEN "Cancelled" ELSE decision

LEMMA StutterOf ==
  ASSUME Phase' = Phase, published' = published
  PROVE  Receipts!Next
BY DEF Receipts!Next, Receipts!Same, Phase

LEMMA MoveOf ==
  ASSUME NEW from, NEW to, Phase \in from, Phase' = to
  PROVE  Receipts!Move("plan", from, to)
BY DEF Receipts!Move, Phase

\* Before the approval there is nothing to complete.
LEMMA IncompleteUnlessAccepted ==
  ASSUME Inv, decision # "Accepted"
  PROVE  ~complete /\ published = {} /\ holder = None
<1>1. published = {} /\ holder = None BY DEF Inv, ReceiverIsSound
<1>2. Files # {} BY TransferAssumption DEF Files
<1> QED BY <1>1, <1>2 DEF complete

LEMMA ReceiptsInit == Init => Receipts!Init
<1> SUFFICES ASSUME Init PROVE Receipts!Init OBVIOUS
<1>1. ~complete BY DEF Init, complete
<1> QED BY <1>1 DEF Init, Receipts!Init

LEMMA ReceiptsStep == Inv /\ [Next]_vars => [Receipts!Next]_(Receipts!vars)
<1> SUFFICES ASSUME Inv, [Next]_vars PROVE Receipts!Next
  OBVIOUS
<1>a. ASSUME UNCHANGED <<decision, cancelled, published>> PROVE Receipts!Next
  BY <1>a, StutterOf DEF Phase, complete
<1>b. ASSUME UNCHANGED published
      PROVE  [id \in {"plan"} |-> published]'["plan"] = [id \in {"plan"} |-> published]["plan"]
  BY <1>b
<1>1. CASE \/ Send \/ CheckSource \/ RegisterReply \/ RequestFails \/ Approval
           \/ ApprovalTimeout \/ Checkpoint \/ OpenUpload \/ FinalStatus \/ CancelSend
           \/ Stopped \/ Close \/ SenderCrash
           \/ \E c \in Conns : UploadReply(c) \/ UploadFails(c)
  BY <1>1, <1>a, SenderActions DEF SenderOnly, receiverVars
<1>2. CASE LocalCancel \/ Notify \/ SourceChanges \/ ReceiverCrash \/ UNCHANGED vars
  BY <1>2, <1>a DEF LocalCancel, Notify, SourceChanges, ReceiverCrash, vars, receiverVars
<1>3. CASE Registered
  <2>1. /\ decision = "None" /\ decision' \in {"Pending", "Accepted"}
        /\ cancelled' = cancelled /\ published' = published
    BY <1>3 DEF Registered
  <2>2. published = {} /\ ~cancelled BY <2>1, IncompleteUnlessAccepted DEF Inv, ReceiverIsSound
  <2>3. Phase = "None" /\ Phase' = decision'
    <3>1. Files # {} BY TransferAssumption DEF Files
    <3> QED BY <2>1, <2>2, <3>1 DEF Phase, complete
  <2>4. Receipts!Move("plan", {"None"}, decision') BY <2>3, MoveOf
  <2>5. Receipts!Open("plan") BY <2>1, <2>4, <1>b DEF Receipts!Open
  <2> QED BY <2>5 DEF Receipts!Next
<1>4. CASE Decide
  <2>1. /\ decision = "Pending" /\ decision' \in {"Accepted", "Rejected"}
        /\ cancelled' = cancelled /\ published' = published
    BY <1>4 DEF Decide
  <2>2. published = {} BY <2>1, IncompleteUnlessAccepted
  <2>3. ~complete /\ ~complete'
    <3>1. Files # {} BY TransferAssumption DEF Files
    <3> QED BY <2>1, <2>2, <3>1 DEF complete
  <2>4. CASE cancelled BY <2>1, <2>3, <2>4, StutterOf DEF Phase
  <2>5. CASE ~cancelled
    <3>1. Phase = "Pending" /\ Phase' = decision' BY <2>1, <2>3, <2>5 DEF Phase
    <3>2. Receipts!Move("plan", {"Pending"}, decision') BY <3>1, MoveOf
    <3>3. Receipts!Approve("plan") \/ Receipts!Refuse("plan")
      BY <2>1, <3>2, <1>b DEF Receipts!Approve, Receipts!Refuse
    <3> QED BY <3>3 DEF Receipts!Next
  <2> QED BY <2>4, <2>5
<1>5. CASE CancelLocked
  <2>1. decision' = decision /\ published' = published BY <1>5 DEF CancelLocked
  <2>2. CASE complete \/ cancelled
    <3>1. cancelled' = cancelled BY <1>5, <2>2 DEF CancelLocked
    <3> QED BY <2>1, <3>1, <1>a
  <2>3. CASE ~(complete \/ cancelled)
    <3>1. cancelled' = TRUE BY <1>5, <2>3 DEF CancelLocked
    <3>2. decision \in {"Pending", "Accepted", "Rejected"}
      BY <1>5 DEF CancelLocked, Inv, ReceiverIsSound, TypeOK
    <3>3. Phase = decision /\ Phase' = "Cancelled"
      BY <2>1, <2>3, <3>1 DEF Phase, complete
    <3>4. Receipts!Cancel("plan")
      BY <2>1, <3>2, <3>3, <1>b, MoveOf DEF Receipts!Cancel
    <3> QED BY <3>4 DEF Receipts!Next
  <2> QED BY <2>2, <2>3
<1>6. ASSUME NEW c \in Conns, Admit(c) \/ Read(c) \/ BodyCancelled(c) \/ BodyBroken(c)
                              \/ UploadFault(c)
      PROVE  Receipts!Next
  BY <1>6, <1>a DEF Admit, Read, BodyCancelled, BodyBroken, UploadFault
<1>7. ASSUME NEW c \in Conns, Finish(c)
      PROVE  Receipts!Next
  <2>1. decision' = decision /\ cancelled' = cancelled BY <1>7 DEF Finish
  <2>2. CASE published' = published BY <2>1, <2>2, <1>a
  <2>3. CASE ~token /\ published' = published \cup {conn[c].f}
    <3>1. PICK f \in Files : f = conn[c].f /\ decision = "Accepted" /\ f \notin published
      BY <1>7, HolderFacts DEF Finish
    <3>2. ~cancelled BY <2>3 DEF Inv, ReceiverIsSound
    <3>3. ~complete BY <3>1 DEF complete
    <3>4. Phase = "Accepted"
          /\ Phase' = IF published \cup {f} = Files THEN "Complete" ELSE "Accepted"
      BY <2>1, <2>3, <3>1, <3>2, <3>3 DEF Phase, complete
    <3>5. Receipts!FilesOf("plan") = Files BY DEF Receipts!FilesOf
    <3>6. Receipts!Move("plan", {"Accepted"},
                        IF published \cup {f} = Files THEN "Complete" ELSE "Accepted")
      BY <3>4, MoveOf
    <3>7. Receipts!Receive("plan", f)
      BY <2>3, <3>1, <3>5, <3>6 DEF Receipts!Receive
    <3> QED BY <3>5, <3>7 DEF Receipts!Next
  <2> QED BY <1>7, <2>2, <2>3 DEF Finish
<1> QED
  BY <1>1, <1>2, <1>3, <1>4, <1>5, <1>6, <1>7 DEF Next, SenderNext, ReceiverNext

\* The receiver that the sender meets follows the life of a transfer that
\* TransferReceipts promises: approval is asked once, files are received only while
\* it stands, and nothing leaves Complete or Cancelled.
THEOREM Refinement == Spec => ReceiptsSpec
<1>1. Init => Receipts!Init BY ReceiptsInit
<1>2. Inv /\ [Next]_vars => [Receipts!Next]_(Receipts!vars) BY ReceiptsStep
<1> QED BY <1>1, <1>2, Invariant, PTL DEF Spec, ReceiptsSpec, Receipts!Spec
=============================================================================
