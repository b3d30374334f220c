------------------------- MODULE ResumableTransfer --------------------------
(***************************************************************************)
(* One v2 transfer from end to end: send_prepared_cancel and send_plan of  *)
(* src/resumable.rs against the receiver's handlers, over connections that *)
(* fail.  The receiver is the one DurableStore details, here with one      *)
(* atomic step per request except for upload, which streams its body while *)
(* it holds the session's mutex.                                           *)
(*                                                                         *)
(* The sender gives up on a connection before the receiver notices: the    *)
(* receiver may still hold, admit and read old uploads while the sender    *)
(* already asks for the status and opens the next one.                     *)
(*                                                                         *)
(* A plan is never forgotten by the receiver while it is sent.  The peer   *)
(* answers with well-formed checkpoints.  The source check of send_plan    *)
(* and the reading of the source are apart, so the source may change in    *)
(* between.                                                                *)
(***************************************************************************)
EXTENDS Naturals

CONSTANTS
  N,            \* files of the plan, sent in the order 1 .. N
  Size,         \* [1 .. N -> Nat]: sizes in blocks
  MaxRetries,   \* config.max_retries
  Conns,        \* upload connections that may exist at one time
  Cancels,      \* whether anybody cancels
  MaxChanges,   \* how often the source changes behind the sender's back
  MaxFaults     \* bound on network failures, I/O errors and crashes

ASSUME TransferAssumption ==
  /\ N \in Nat \ {0}     \* a plan without files is refused on both sides
  /\ Size \in [1 .. N -> Nat]
  /\ MaxRetries \in Nat
  /\ Cancels \in BOOLEAN
  /\ MaxChanges \in Nat
  /\ MaxFaults \in Nat

Files == 1 .. N
None == 0

ASSUME ConnsAssumption == None \notin Conns

Results == {"none", "ok", "cancelled", "rejected", "timeout", "failed"}
Replies == {"200", "401", "408", "409", "410", "422", "500", "lost"}

\* Statuses of an upload that the sender retries; "lost" is a transport error.
Retried == {"408", "409", "500", "lost"}

\* A connection: unused, not yet admitted by the receiver, being read, or
\* answered.  att: the sender still listens to it.  next: the block it is at.
Conn == [st : {"free", "queued", "body", "answered"}, f : Files \cup {None},
         next : Nat, att : BOOLEAN, reply : Replies \cup {"none"}]
FreeConn == [st |-> "free", f |-> None, next |-> 0, att |-> FALSE, reply |-> "none"]

\* A part: its length, whether each block lies where it belongs, whether the
\* blocks are those of the plan.
Part == [len : Nat, aligned : BOOLEAN, right : BOOLEAN]
NoPart == [len |-> 0, aligned |-> TRUE, right |-> TRUE]

VARIABLES
  \* the sender
  spc,       \* where send_plan is
  fi,        \* the file it is at
  attempt,   \* upload attempts of that file so far
  try,       \* failed tries of the current retry_request
  off,       \* the offset of the last checkpoint
  stop,      \* the TransferHandle's token is set
  result,    \* of the last send
  asked,     \* somebody asked to cancel (history variable)
  source,    \* whether the source files are those that were prepared
  changes,
  late,      \* an abandoned registration request is still on its way
  \* the receiver
  decision, cancelled, published, part,
  token,     \* the session's CancellationToken is set
  waiting,   \* a canceller waits for the session's mutex
  holder,    \* the connection that holds the mutex, or None
  conn,      \* the upload connections
  faults

senderVars   == <<spc, fi, attempt, try, off, stop, result, late>>
receiverVars == <<decision, cancelled, published, part, token, waiting, holder>>
ambient      == <<source, changes, asked>>
world        == <<conn, ambient, faults>>
vars == <<senderVars, receiverVars, world>>

SenderSteps == {"idle", "hash", "register", "wait", "resume", "open", "stream", "final",
                "notify", "close"}

TypeOK ==
  /\ spc \in SenderSteps
  /\ fi \in 1 .. N + 1
  /\ attempt \in 0 .. MaxRetries
  /\ try \in 0 .. MaxRetries
  /\ off \in Nat
  /\ stop \in BOOLEAN
  /\ result \in Results
  /\ asked \in BOOLEAN
  /\ source \in BOOLEAN
  /\ changes \in Nat
  /\ late \in BOOLEAN
  /\ decision \in {"None", "Pending", "Accepted", "Rejected"}
  /\ cancelled \in BOOLEAN
  /\ published \in SUBSET Files
  /\ part \in [Files -> Part]
  /\ token \in BOOLEAN
  /\ waiting \in BOOLEAN
  /\ holder \in Conns \cup {None}
  /\ conn \in [Conns -> Conn]
  /\ faults \in Nat

Init ==
  /\ spc = "idle" /\ fi = 1 /\ attempt = 0 /\ try = 0 /\ off = 0
  /\ stop = FALSE /\ result = "none" /\ asked = FALSE
  /\ source = TRUE /\ changes = 0 /\ late = FALSE
  /\ decision = "None" /\ cancelled = FALSE /\ published = {}
  /\ part = [f \in Files |-> NoPart]
  /\ token = FALSE /\ waiting = FALSE /\ holder = None
  /\ conn = [c \in Conns |-> FreeConn]
  /\ faults = 0

\* Mutant: one published file is enough.
complete_Any == decision # "None" /\ published # {}

complete == decision # "None" /\ published = Files

Fault == faults < MaxFaults /\ faults' = faults + 1

-----------------------------------------------------------------------------
(***************************************************************************)
(* The sender                                                              *)
(***************************************************************************)
\* send_plan returns; a cancelled transfer is reported to the receiver first.
End(r) == /\ spc' = IF r = "cancelled" THEN "notify" ELSE "close"
          /\ result' = r
          /\ UNCHANGED <<fi, attempt, try, off, stop>>

Goto(step) == /\ spc' = step
              /\ try' = 0
              /\ UNCHANGED <<fi, attempt, off, stop, result>>

\* start_prepared, at first or to resume a plan.
Send ==
  /\ spc = "idle"
  /\ spc' = "hash" /\ fi' = 1 /\ attempt' = 0 /\ try' = 0 /\ off' = 0
  /\ stop' = FALSE /\ result' = "none"
  /\ UNCHANGED <<late, receiverVars, world>>

\* Every source file is hashed again before the first request.
CheckSource ==
  /\ spc = "hash"
  /\ IF source THEN Goto("register") ELSE End("failed")
  /\ UNCHANGED <<late, receiverVars, world>>

\* Mutant: a repeated registration asks again.
Registered_Again ==
  /\ spc = "register" \/ late
  /\ decision' \in {"Pending", "Accepted"}
  /\ late' = FALSE
  /\ UNCHANGED <<spc, fi, attempt, try, off, stop, result, cancelled, published, part,
                 token, waiting, holder, world>>

\* The registration reaches the receiver, which asks its user or trusts the
\* sender.  It may do so when the sender has already given up.
Registered ==
  /\ spc = "register" \/ late
  /\ decision = "None"
  /\ decision' \in {"Pending", "Accepted"}
  /\ late' = FALSE
  /\ UNCHANGED <<spc, fi, attempt, try, off, stop, result, cancelled, published, part,
                 token, waiting, holder, conn, ambient, faults>>

RegisterReply ==
  /\ spc = "register"
  /\ decision # "None" /\ holder = None
  /\ Goto("wait")
  /\ UNCHANGED <<late, receiverVars, world>>

\* retry_request: a lost request or reply, or a server error, is retried.
RequestFails ==
  /\ spc \in {"register", "wait", "resume", "final"}
  /\ Fault
  /\ late' = (late \/ (spc = "register" /\ decision = "None"))
  /\ IF try < MaxRetries
     THEN try' = try + 1 /\ UNCHANGED <<spc, fi, attempt, off, stop, result>>
     ELSE End("failed")
  /\ UNCHANGED <<receiverVars, conn, ambient>>

\* The status reply waits for the mutex.
Answered(step) == spc = step /\ decision # "None" /\ holder = None

\* The loop that waits for the approval.
Approval ==
  /\ Answered("wait")
  /\ \/ cancelled /\ End("cancelled")
     \/ ~cancelled /\ decision = "Rejected" /\ End("rejected")
     \/ ~cancelled /\ decision = "Accepted" /\ complete /\ End("ok")
     \/ ~cancelled /\ decision = "Accepted" /\ ~complete /\ Goto("resume")
  /\ UNCHANGED <<late, receiverVars, world>>

ApprovalTimeout ==
  /\ spc = "wait"
  /\ End("timeout")
  /\ UNCHANGED <<late, receiverVars, world>>

NextFile == /\ fi' = fi + 1 /\ attempt' = 0 /\ try' = 0
            /\ spc' = IF fi = N THEN "final" ELSE "resume"
            /\ UNCHANGED <<off, stop, result>>

\* The checkpoint before each upload.
Checkpoint ==
  /\ Answered("resume")
  /\ \/ cancelled /\ End("cancelled")
     \/ ~cancelled /\ fi \in published /\ NextFile
     \/ /\ ~cancelled /\ fi \notin published
        /\ off' = part[fi].len
        /\ spc' = "open" /\ try' = 0
        /\ UNCHANGED <<fi, attempt, stop, result>>
  /\ UNCHANGED <<late, receiverVars, world>>

\* POST /v2/chunk, from the offset of the checkpoint.
OpenUpload ==
  /\ spc = "open"
  /\ \E c \in Conns :
       /\ conn[c].st = "free"
       /\ conn' = [conn EXCEPT ![c] = [st |-> "queued", f |-> fi, next |-> off,
                                       att |-> TRUE, reply |-> "none"]]
  /\ Goto("stream")
  /\ UNCHANGED <<late, receiverVars, ambient, faults>>

\* Mutant: one attempt more than max_retries allows.
UploadResult_OneMore(reply) ==
  \/ reply = "200" /\ NextFile
  \/ reply = "410" /\ End("cancelled")
  \/ /\ reply \in Retried /\ attempt <= MaxRetries
     /\ spc' = "resume" /\ attempt' = attempt + 1 /\ try' = 0
     /\ UNCHANGED <<fi, off, stop, result>>
  \/ reply \notin Retried \cup {"200", "410"} /\ End("failed")

\* Mutant: every refusal is retried, without a count.
UploadResult_Uncounted(reply) ==
  \/ reply = "200" /\ NextFile
  \/ reply = "410" /\ End("cancelled")
  \/ /\ reply \notin {"200", "410"}
     /\ spc' = "resume" /\ try' = 0
     /\ UNCHANGED <<fi, attempt, off, stop, result>>

UploadResult(reply) ==
  \/ reply = "200" /\ NextFile
  \/ reply = "410" /\ End("cancelled")
  \/ /\ reply \in Retried /\ attempt < MaxRetries
     /\ spc' = "resume" /\ attempt' = attempt + 1 /\ try' = 0
     /\ UNCHANGED <<fi, off, stop, result>>
  \/ /\ reply \notin {"200", "410"} /\ (reply \in Retried => attempt = MaxRetries)
     /\ End("failed")

UploadReply(c) ==
  /\ spc = "stream"
  /\ conn[c].att /\ conn[c].st = "answered"
  /\ UploadResult(conn[c].reply)
  /\ conn' = [conn EXCEPT ![c] = FreeConn]
  /\ UNCHANGED <<late, receiverVars, ambient, faults>>

\* A transport error or a read timeout: the sender leaves the connection,
\* which the receiver may still serve.
UploadFails(c) ==
  /\ spc = "stream"
  /\ conn[c].att
  /\ Fault
  /\ UploadResult("lost")
  /\ conn' = [conn EXCEPT ![c] = IF @.st = "answered" THEN FreeConn
                                 ELSE [@ EXCEPT !.att = FALSE]]
  /\ UNCHANGED <<late, receiverVars, ambient>>

\* The last checkpoint decides.
FinalStatus ==
  /\ Answered("final")
  /\ IF complete THEN End("ok") ELSE End("failed")
  /\ UNCHANGED <<late, receiverVars, world>>

\* The sender leaves the connections it listens to.
Abandon == conn' = [c \in Conns |-> IF conn[c].st = "answered" THEN FreeConn
                                     ELSE [conn[c] EXCEPT !.att = FALSE]]

\* TransferHandle::cancel, or the handle is dropped.
CancelSend ==
  /\ Cancels
  /\ spc \notin {"idle", "notify", "close"} /\ ~stop
  /\ stop' = TRUE /\ asked' = TRUE
  /\ UNCHANGED <<spc, fi, attempt, try, off, result, late, receiverVars, conn, source,
                 changes, faults>>

\* The select is biased: a set token ends send_plan wherever it is.
Stopped ==
  /\ stop /\ spc \notin {"idle", "notify", "close"}
  /\ End("cancelled")
  /\ late' = (late \/ (spc = "register" /\ decision = "None"))
  /\ Abandon
  /\ UNCHANGED <<receiverVars, ambient, faults>>

\* POST /v2/cancel: processed by the receiver or not, the sender goes on.
Notify ==
  /\ spc = "notify"
  /\ Goto("close")
  /\ \/ /\ decision # "None" /\ ~complete
        /\ token' = TRUE /\ waiting' = TRUE
        /\ UNCHANGED faults
     \/ /\ decision = "None" \/ complete
        /\ UNCHANGED <<token, waiting, faults>>
     \/ Fault /\ UNCHANGED <<token, waiting>>
  /\ UNCHANGED <<late, decision, cancelled, published, part, holder, conn, ambient>>

\* The history record and the event; the caller has its result.
Close ==
  /\ spc = "close"
  /\ Goto("idle")
  /\ UNCHANGED <<late, receiverVars, world>>

\* The sender's process ends; its plan was saved.
SenderCrash ==
  /\ spc # "idle"
  /\ Fault
  /\ spc' = "idle" /\ result' = "none" /\ try' = 0
  /\ late' = (late \/ (spc = "register" /\ decision = "None"))
  /\ Abandon
  /\ UNCHANGED <<fi, attempt, off, stop, receiverVars, ambient>>

SourceChanges ==
  /\ changes < MaxChanges
  /\ changes' = changes + 1
  /\ source' = ~source
  /\ UNCHANGED <<senderVars, receiverVars, conn, faults, asked>>

-----------------------------------------------------------------------------
(***************************************************************************)
(* The receiver                                                            *)
(***************************************************************************)
Decide ==
  /\ holder = None
  /\ decision = "Pending"
  /\ \/ ~cancelled /\ decision' = "Accepted"
     \/ decision' = "Rejected"
  /\ UNCHANGED <<senderVars, cancelled, published, part, token, waiting, holder, conn,
                 ambient, faults>>

LocalCancel ==
  /\ Cancels /\ decision # "None" /\ ~complete /\ ~waiting
  /\ token' = TRUE /\ waiting' = TRUE /\ asked' = TRUE
  /\ UNCHANGED <<senderVars, decision, cancelled, published, part, holder, conn, source,
                 changes, faults>>

CancelLocked ==
  /\ waiting /\ holder = None
  /\ waiting' = FALSE
  /\ IF complete \/ cancelled THEN UNCHANGED <<cancelled, part>>
     ELSE cancelled' = TRUE /\ part' = [f \in Files |-> NoPart]
  /\ UNCHANGED <<senderVars, decision, published, token, holder, conn, ambient, faults>>

\* The reply is sent if the sender still listens.
Reply(c, reply) ==
  conn' = [conn EXCEPT ![c] = IF @.att THEN [@ EXCEPT !.st = "answered", !.reply = reply]
                              ELSE FreeConn]

\* Mutant: the offset is not compared with the part.
Refusal_AnyOffset(c) ==
  CASE cancelled \/ token        -> "410"
    [] decision # "Accepted"     -> "401"
    [] conn[c].f \in published   -> "200"
    [] OTHER                     -> "none"

\* What upload answers at once, before it reads the body.
Refusal(c) ==
  LET f == conn[c].f IN
  CASE cancelled \/ token            -> "410"
    [] decision # "Accepted"         -> "401"
    [] f \in published               -> "200"
    [] conn[c].next # part[f].len    -> "409"
    [] OTHER                         -> "none"

\* upload gets the mutex and checks the request.
Admit(c) ==
  /\ conn[c].st = "queued" /\ holder = None
  /\ \/ Refusal(c) # "none" /\ Reply(c, Refusal(c)) /\ UNCHANGED holder
     \/ /\ Refusal(c) = "none"
        /\ holder' = c
        /\ conn' = [conn EXCEPT ![c].st = "body"]
  /\ UNCHANGED <<senderVars, decision, cancelled, published, part, token, waiting, ambient,
                 faults>>

\* The next block is appended.  It may come from a buffer after the sender left.
Read(c) ==
  LET f == conn[c].f IN
  /\ holder = c /\ ~token
  /\ conn[c].next < Size[f]
  /\ part' = [part EXCEPT ![f] = [len |-> @.len + 1,
                                  aligned |-> @.aligned /\ @.len = conn[c].next,
                                  right |-> @.right /\ source]]
  /\ conn' = [conn EXCEPT ![c].next = @ + 1]
  /\ UNCHANGED <<senderVars, decision, cancelled, published, token, waiting, holder, ambient,
                 faults>>

\* Mutant: a part that does not match is kept.
Finish_KeepsPart(c) ==
  LET f == conn[c].f IN
  /\ holder = c
  /\ conn[c].next = Size[f]
  /\ holder' = None
  /\ \/ /\ part[f].right /\ ~token
        /\ published' = published \cup {f}
        /\ part' = [part EXCEPT ![f] = NoPart]
        /\ Reply(c, "200")
     \/ /\ ~(part[f].right /\ ~token)
        /\ Reply(c, IF part[f].right THEN "410" ELSE "422")
        /\ UNCHANGED <<part, published>>
  /\ UNCHANGED <<senderVars, decision, cancelled, token, waiting, ambient, faults>>

\* The body is complete: verify and publish, or discard (422; 410 if cancelled).
Finish(c) ==
  LET f == conn[c].f IN
  /\ holder = c
  /\ conn[c].next = Size[f]
  /\ holder' = None
  /\ \/ /\ part[f].right /\ ~token
        /\ published' = published \cup {f}
        /\ part' = [part EXCEPT ![f] = NoPart]
        /\ Reply(c, "200")
     \/ /\ ~(part[f].right /\ ~token)
        /\ part' = [part EXCEPT ![f] = NoPart]
        /\ Reply(c, IF part[f].right THEN "410" ELSE "422")
        /\ UNCHANGED published
  /\ UNCHANGED <<senderVars, decision, cancelled, token, waiting, ambient, faults>>

\* The token is set while the body is awaited: the part is discarded.
BodyCancelled(c) ==
  /\ holder = c /\ token
  /\ holder' = None
  /\ part' = [part EXCEPT ![conn[c].f] = NoPart]
  /\ Reply(c, "410")
  /\ UNCHANGED <<senderVars, decision, cancelled, published, token, waiting, ambient,
                 faults>>

\* The sender left: what was received is kept.
BodyBroken(c) ==
  /\ holder = c /\ ~token /\ ~conn[c].att
  /\ holder' = None
  /\ conn' = [conn EXCEPT ![c] = FreeConn]
  /\ UNCHANGED <<senderVars, decision, cancelled, published, part, token, waiting, ambient,
                 faults>>

\* No data for 120 seconds (408), or an I/O error (500).
UploadFault(c) ==
  /\ holder = c
  /\ Fault
  /\ holder' = None
  /\ \E reply \in {"408", "500"} : Reply(c, reply)
  /\ UNCHANGED <<senderVars, decision, cancelled, published, part, token, waiting, ambient>>

\* The connections close; a power failure may cut or damage a part.
ReceiverCrash ==
  /\ decision # "None"
  /\ Fault
  /\ conn' = [c \in Conns |->
                IF conn[c].att
                THEN [conn[c] EXCEPT !.st = "answered",
                                     !.reply = IF conn[c].st = "answered" THEN @ ELSE "lost"]
                ELSE FreeConn]
  /\ holder' = None
  /\ token' = cancelled
  /\ waiting' = FALSE
  /\ \/ UNCHANGED part
     \/ \E f \in Files : \E l \in 0 .. part[f].len, ok \in {part[f].right, FALSE} :
          part' = [part EXCEPT ![f].len = l, ![f].right = (l = 0 \/ ok)]
  /\ UNCHANGED <<senderVars, decision, cancelled, published, ambient>>

-----------------------------------------------------------------------------
SenderNext ==
  \/ CheckSource \/ RegisterReply \/ Approval \/ ApprovalTimeout \/ Checkpoint \/ OpenUpload
  \/ \E c \in Conns : UploadReply(c)
  \/ FinalStatus \/ Stopped \/ Notify \/ Close

ReceiverNext(c) == Admit(c) \/ Read(c) \/ Finish(c) \/ BodyCancelled(c) \/ BodyBroken(c)

Next ==
  \/ Send \/ SenderNext \/ Registered \/ RequestFails \/ CancelSend \/ SenderCrash
  \/ SourceChanges
  \/ \E c \in Conns : UploadFails(c) \/ ReceiverNext(c) \/ UploadFault(c)
  \/ Decide \/ LocalCancel \/ CancelLocked \/ ReceiverCrash

Spec == Init /\ [][Next]_vars

Fairness == /\ WF_vars(SenderNext) /\ WF_vars(Registered) /\ WF_vars(CancelLocked)
            /\ \A c \in Conns : WF_vars(ReceiverNext(c))
FairSpec == Spec /\ Fairness

\* The application resumes its plan until it has succeeded, and an approval is
\* seen (the sender polls every 100 ms) before the 120 seconds are over.
Resuming == WF_vars(result # "ok" /\ Send) /\ SF_vars(Approval)

-----------------------------------------------------------------------------
(***************************************************************************)
(* Properties                                                              *)
(***************************************************************************)
\* Whatever uploads overlap, every part is a prefix of its file with each block
\* at its place, because one upload writes at a time and continues where the last
\* one really ended.
PartsAreAligned ==
  /\ \A f \in Files : part[f].aligned /\ part[f].len <= Size[f]
  /\ \A c \in Conns : conn[c].st = "body" <=> holder = c
  /\ holder # None => conn[holder].next = part[conn[holder].f].len

\* send_plan returns Ok only when the receiver has verified and published every
\* file, whatever was retried, lost or restarted on the way.  It ends as cancelled
\* only if its caller or the receiver's user asked for it, and as rejected only if
\* that user rejected: 410 answers and the cancellation a sender passes on never
\* spread to transfers that nobody cancelled.
OutcomesAreHonest ==
  /\ result = "ok"        => published = Files
  /\ result = "cancelled" => asked
  /\ result = "rejected"  => decision = "Rejected"

\* The receiver follows the life of a transfer that DurableStore implements too.
Receipts == INSTANCE TransferReceipts WITH
  Ids      <- {"plan"},
  Session  <- [f \in Files |-> "plan"],
  phase    <- [id \in {"plan"} |-> IF complete THEN "Complete"
                                    ELSE IF cancelled THEN "Cancelled" ELSE decision],
  receipts <- [id \in {"plan"} |-> published]
ReceiptsSpec == Receipts!Spec

\* Every send ends.
SendEnds == spc # "idle" ~> spc = "idle"

\* A plan that is resumed until it succeeds is delivered once it is approved, unless
\* the receiver is told to cancel or the source changes: stale uploads, cut or
\* damaged parts and exhausted retries never wedge it.
ResumeDelivers ==
  Resuming => (decision = "Accepted" ~> complete \/ token \/ cancelled \/ changes > 0)

=============================================================================
