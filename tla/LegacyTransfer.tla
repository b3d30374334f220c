--------------------------- MODULE LegacyTransfer ---------------------------
(***************************************************************************)
(* One v1 transfer from end to end: send_files and send_directory of       *)
(* src/client.rs against the receiver of LegacyReceiver, whose actions are *)
(* taken as they are.                                                      *)
(*                                                                         *)
(* The sender asks (request_transfer), polls until the user has decided    *)
(* (wait_for_approval) and uploads file by file (send_file_with_retry).    *)
(* It may leave a request or an upload - a timeout or a broken connection  *)
(* - that the receiver goes on serving, so that a retry meets what is left *)
(* of the attempt before; its body may be read on and counted meanwhile.   *)
(*                                                                         *)
(* Simplifications: the receiver does not restart; a reply that is lost    *)
(* is a sender that left just before it; time passes by the hour, and only *)
(* while a file is uploaded or after the send, since everything else is    *)
(* bounded by minutes (with the default number of retries).                *)
(***************************************************************************)
EXTENDS Integers, Sequences, FiniteSets

CONSTANTS Ids, Files, Session, Size, Uploads, None, MaxSessions, MaxTokens, MaxDrops, MaxBoth

CONSTANTS
  Id,           \* the transfer; the other IDs are strangers
  Order,        \* its files, in the order they are sent
  MaxRetries,   \* config.max_retries
  MaxFaults,    \* bound on failed connections, stalls and I/O errors
  MaxChanges,   \* bound on changes of the source files
  MaxTrouble,   \* bound on faults, changes and dropped handlers together
  MaxHours

ASSUME ReceiverAssumption ==
  /\ IsFiniteSet(Ids) /\ IsFiniteSet(Files)
  /\ Session \in [Files -> Ids]
  /\ Size \in [Files -> Nat]
  /\ None \notin Nat \cup Ids
  /\ None \notin [id : Ids, rest : SUBSET Ids, now : Ids \cup {None}, at : 1 .. 8]
  /\ MaxSessions \in Nat /\ MaxTokens \in Nat /\ MaxDrops \in Nat /\ MaxBoth \in Nat

ASSUME SenderAssumption ==
  /\ Id \in Ids
  /\ Order \in Seq(Files) /\ Order # <<>>
  /\ \A f \in Files : Session[f] = Id <=> \E i \in 1 .. Len(Order) : Order[i] = f
  /\ None \notin Uploads
  /\ MaxRetries \in Nat /\ MaxFaults \in Nat /\ MaxChanges \in Nat /\ MaxTrouble \in Nat
  /\ MaxHours \in Nat

VARIABLES pending, rejected, cancelled, completed, approved, tokens, received, bytes, activity,
          deciding, up, kept, history, drops, torn

VARIABLES
  spc,      \* where the sender is
  attempt,  \* failed attempts of the request or of the file
  fi,       \* the file it is at
  tok,      \* its token, 0 if it has none
  sent,     \* bytes_sent_so_far
  base,     \* its value when send_file_with_retry began the file
  from,     \* its value when send_file began the attempt
  stray,    \* blocks counted by bodies whose reply nobody awaits (history variable)
  listen,   \* the upload whose reply it awaits, or None
  flow,     \* per upload: blocks sent, and the length of the source when it was opened
  late,     \* an abandoned request may still reach the receiver
  grown,    \* by how much the sources differ from what was announced
  result,   \* what send_files returned
  faults, changes, hours

R == INSTANCE LegacyReceiver

receiver == <<pending, rejected, cancelled, completed, approved, tokens, received, bytes,
              activity, deciding, up, kept, history, drops, torn>>
sender   == <<spc, attempt, fi, tok, sent, base, from, stray, listen, flow, late, result>>
ambient  == <<grown, faults, changes, hours>>
vars     == <<receiver, sender, ambient>>

\* The declared sizes of the first n files, and of all of them.
SizeUpTo[n \in 0 .. Len(Order)] == IF n = 0 THEN 0 ELSE SizeUpTo[n - 1] + Size[Order[n]]
Total == SizeUpTo[Len(Order)]

Results == {"none", "ok", "rejected", "cancelled", "notfound", "timeout", "failed"}
Steps == {"request", "asked", "poll", "pollRejected", "pollPending", "send", "open", "sending", "done"}
NoFlow == [out |-> 0, len |-> 0]

TypeOK ==
  /\ R!TypeOK
  /\ spc \in Steps
  /\ attempt \in 0 .. MaxRetries
  /\ fi \in 1 .. Len(Order)
  /\ tok \in 0 .. MaxTokens
  /\ sent \in Nat /\ base \in Nat /\ from \in Nat /\ stray \in Nat
  /\ listen \in Uploads \cup {None}
  /\ spc = "sending" <=> listen # None
  /\ flow \in [Uploads -> [out : Nat, len : Nat]]
  /\ late \in BOOLEAN
  /\ grown \in {-1, 0, 1}
  /\ result \in Results
  /\ result # "none" <=> spc = "done"
  /\ faults \in 0 .. MaxFaults /\ changes \in 0 .. MaxChanges /\ hours \in 0 .. MaxHours

Init ==
  /\ R!Init
  /\ spc = "request" /\ attempt = 0 /\ fi = 1 /\ tok = 0
  /\ sent = 0 /\ base = 0 /\ from = 0 /\ stray = 0
  /\ listen = None /\ flow = [u \in Uploads |-> NoFlow]
  /\ late = FALSE /\ grown = 0 /\ result = "none"
  /\ faults = 0 /\ changes = 0 /\ hours = 0

-----------------------------------------------------------------------------
\* The call returns; the outcome is also what goes into the history.
Return(r) ==
  /\ spc' = "done" /\ result' = r /\ listen' = None
  /\ UNCHANGED <<attempt, fi, tok, sent, base, from, stray, flow>>

\* Something may still go wrong.
Trouble == faults + changes + drops < MaxTrouble

Fault == Trouble /\ faults < MaxFaults /\ faults' = faults + 1

-----------------------------------------------------------------------------
(***************************************************************************)
(* request_transfer                                                        *)
(***************************************************************************)
\* POST /transfer, once the mutex "decisions" is free; from here to the answer the
\* request that holds it is the sender's.
SendRequest ==
  /\ spc = "request"
  /\ R!Request(Id)
  /\ spc' = "asked"
  /\ UNCHANGED <<attempt, fi, tok, sent, base, from, stray, listen, flow, late, result, ambient>>

\* Mutant: the attempt is not counted.
RetryRequest_Forever ==
  IF attempt = MaxRetries
  THEN Return("failed")
  ELSE /\ spc' = "request"
       /\ UNCHANGED <<attempt, fi, tok, sent, base, from, stray, listen, flow, result>>

\* A transient error: once more from the start, or the last error.
RetryRequest ==
  IF attempt = MaxRetries
  THEN Return("failed")
  ELSE /\ spc' = "request" /\ attempt' = attempt + 1
       /\ UNCHANGED <<fi, tok, sent, base, from, stray, listen, flow, result>>

\* The connection fails or times out before the receiver has the request, while it
\* works on it, or before its answer arrives.
RequestFails ==
  /\ spc \in {"request", "asked"}
  /\ Fault
  /\ RetryRequest
  /\ late' \in {late, late \/ spc = "request"}
  /\ UNCHANGED <<receiver, grown, changes, hours>>

\* A request the sender has given up on is served after all.
LateRequest ==
  /\ late /\ late' = FALSE
  /\ R!Request(Id)
  /\ UNCHANGED <<spc, attempt, fi, tok, sent, base, from, stray, listen, flow, result, ambient>>

\* 200: with the token of an accepted transfer, or to be polled for.
Answered(t) ==
  /\ spc' = IF t = 0 THEN "poll" ELSE "send"
  /\ tok' = t
  /\ attempt' = 0
  /\ UNCHANGED <<fi, sent, base, from, stray, listen, flow, result>>

\* The answer of transfer_request_handler reaches the sender if it still waits:
\* 409 for an ID used before, 503 for a full table, else what was decided so far.
RequestAnswer ==
  \/ /\ R!RequestRefused
     /\ IF spc = "asked"
        THEN CASE Id \in cancelled \cup rejected -> Return("failed")
               [] Id \in pending                 -> Answered(approved[Id])
               [] OTHER                          -> RetryRequest
        ELSE UNCHANGED <<spc, attempt, fi, tok, sent, base, from, stray, listen, flow, result>>
     /\ UNCHANGED <<late, ambient>>
  \/ \E trusted \in BOOLEAN :
     /\ R!Registered(trusted)
     /\ IF spc = "asked"
        THEN Answered(IF trusted THEN approved'[Id] ELSE 0)
        ELSE UNCHANGED <<spc, attempt, fi, tok, sent, base, from, stray, listen, flow, result>>
     /\ UNCHANGED <<late, ambient>>

\* The handler of a request is dropped, and its connection with it.
RequestDropped ==
  /\ Trouble /\ R!RequestDropped
  /\ IF spc = "asked"
     THEN RetryRequest
     ELSE UNCHANGED <<spc, attempt, fi, tok, sent, base, from, stray, listen, flow, result>>
  /\ UNCHANGED <<late, ambient>>

-----------------------------------------------------------------------------
(***************************************************************************)
(* wait_for_approval: transfer_status_handler looks into three tables, one *)
(* after the other, each behind its own lock.  No request is repeated.     *)
(***************************************************************************)
StatusApproved ==
  /\ spc = "poll"
  /\ IF approved[Id] # 0
     THEN Answered(approved[Id])
     ELSE spc' = "pollRejected" /\ UNCHANGED <<attempt, fi, tok, sent, base, from, stray, listen, flow, result>>
  /\ UNCHANGED <<receiver, late, ambient>>

StatusRejected ==
  /\ spc = "pollRejected"
  /\ IF Id \in rejected
     THEN Return("rejected")
     ELSE spc' = "pollPending" /\ UNCHANGED <<attempt, fi, tok, sent, base, from, stray, listen, flow, result>>
  /\ UNCHANGED <<receiver, late, ambient>>

\* Still pending: another poll.
StatusPending ==
  /\ spc = "pollPending"
  /\ IF Id \in pending
     THEN spc' = "poll" /\ UNCHANGED <<attempt, fi, tok, sent, base, from, stray, listen, flow, result>>
     ELSE Return("notfound")
  /\ UNCHANGED <<receiver, late, ambient>>

\* Still pending after 120 seconds.
ApprovalTimeout ==
  /\ spc = "pollPending"
  /\ Id \in pending
  /\ Return("timeout")
  /\ UNCHANGED <<receiver, late, ambient>>

PollFails ==
  /\ spc \in {"poll", "pollRejected", "pollPending"}
  /\ Fault
  /\ Return("failed")
  /\ UNCHANGED <<receiver, late, grown, changes, hours>>

-----------------------------------------------------------------------------
(***************************************************************************)
(* send_file_with_retry, send_file                                         *)
(***************************************************************************)
File == Order[fi]

\* Its length now; an empty file cannot shrink.
Measured == IF Size[File] + grown < 0 THEN 0 ELSE Size[File] + grown

\* Mutant: a retry goes on counting where the failed attempt was.
BeginAttempt_KeepsCount ==
  /\ spc = "send" /\ spc' = "open"
  /\ base' = IF attempt = 0 THEN sent ELSE base
  /\ UNCHANGED <<receiver, attempt, fi, tok, sent, from, stray, listen, flow, late, result, ambient>>

\* The first attempt takes the baseline, a retry, after its delay, returns to it.
BeginAttempt ==
  /\ spc = "send" /\ spc' = "open"
  /\ base' = IF attempt = 0 THEN sent ELSE base
  /\ sent' = base'
  /\ UNCHANGED <<receiver, attempt, fi, tok, from, stray, listen, flow, late, result, ambient>>

\* The file is opened and measured, and the upload begins.
OpenUpload(u) ==
  /\ spc = "open"
  /\ R!Idle(u)
  /\ from' = sent
  /\ up' = [up EXCEPT ![u] = [st |-> "queued", f |-> File, tok |-> tok, got |-> 0]]
  /\ flow' = [flow EXCEPT ![u] = [out |-> 0, len |-> Measured]]
  /\ spc' = "sending" /\ listen' = u
  /\ UNCHANGED <<pending, rejected, cancelled, completed, approved, tokens, received, bytes,
                 activity, deciding, kept, history, drops, torn>>
  /\ UNCHANGED <<attempt, fi, tok, sent, base, stray, late, result, ambient>>

\* A file that cannot be opened ends the send.
OpenFails ==
  /\ spc = "open"
  /\ Fault
  /\ Return("failed")
  /\ UNCHANGED <<receiver, late, grown, changes, hours>>

\* The body stream hands out the next block and counts it.
Emit(u) ==
  /\ flow[u].out < flow[u].len
  /\ flow' = [flow EXCEPT ![u].out = @ + 1]
  /\ sent' = sent + 1
  /\ UNCHANGED <<receiver, spc, attempt, fi, tok, base, from, listen, late, result, ambient>>

Stream(u) == listen = u /\ Emit(u) /\ UNCHANGED stray

\* The body belongs to the connection, and the counter is shared with it: until the
\* connection is closed, the body may be read on after a reply that did not wait for
\* it, or after the sender has left.
StreamOn(u) == listen # u /\ Emit(u) /\ stray' = stray + 1

\* Mutant: one attempt too many.
RetryFile_OneMore ==
  IF attempt > MaxRetries
  THEN Return("failed")
  ELSE /\ spc' = "send" /\ attempt' = attempt + 1
       /\ listen' = None
       /\ UNCHANGED <<fi, tok, sent, base, from, stray, flow, result>>

\* A transient error: the whole file again.
RetryFile ==
  IF attempt = MaxRetries
  THEN Return("failed")
  ELSE /\ spc' = "send" /\ attempt' = attempt + 1
       /\ listen' = None
       /\ UNCHANGED <<fi, tok, sent, base, from, stray, flow, result>>

\* Whatever was counted, the file is now counted with its length.
FileSent(u) ==
  /\ sent' = from + flow[u].len
  /\ listen' = None
  /\ IF fi = Len(Order)
     THEN spc' = "done" /\ result' = "ok" /\ UNCHANGED <<attempt, fi>>
     ELSE spc' = "send" /\ fi' = fi + 1 /\ attempt' = 0 /\ UNCHANGED result
  /\ UNCHANGED <<tok, base, from, stray, flow>>

\* Mutant: a conflict with what the receiver has counts as delivered.
Hears_AnyReply(u, code) ==
  CASE code \in {"200", "401", "404"} -> FileSent(u)
    [] code = "410"                   -> Return("cancelled")
    [] code \in {"408", "500"}        -> RetryFile
    [] OTHER                          -> Return("failed")

\* What send_file makes of the status of the reply.
Hears(u, code) ==
  CASE code = "200"            -> FileSent(u)
    [] code = "410"            -> Return("cancelled")
    [] code \in {"408", "500"} -> RetryFile
    [] OTHER                   -> Return("failed")

\* A step of the upload handler that may end it with a reply.
Reply(u, code) ==
  /\ IF listen = u /\ up'[u] = R!Free
     THEN Hears(u, code)
     ELSE UNCHANGED <<spc, attempt, fi, tok, sent, base, from, stray, listen, flow, result>>
  /\ UNCHANGED late

\* The sender's connection fails or times out.
UploadFails ==
  /\ spc = "sending"
  /\ Fault
  /\ RetryFile
  /\ UNCHANGED <<receiver, late, grown, changes, hours>>

Lock(u)  == /\ R!Lock(u)
            /\ Reply(u, IF Session[up[u].f] \in cancelled THEN "410" ELSE "401")
            /\ UNCHANGED ambient

UploadEnds(u) == /\ R!UploadEnds(u)
                 /\ Reply(u, IF Session[up[u].f] \in pending THEN "200" ELSE "404")
                 /\ UNCHANGED ambient

\* That a file cannot be created is a fault.
Open(u)  == /\ R!Open(u)
            /\ Reply(u, "500")
            /\ IF up'[u] = R!Free THEN Fault ELSE UNCHANGED faults
            /\ UNCHANGED <<grown, changes, hours>>

Block(u) == /\ up[u].got < flow[u].out
            /\ R!Block(u)
            /\ UNCHANGED <<sender, ambient>>

\* More than was announced (413).
TooLarge(u) == /\ up[u].st = "body"
               /\ up[u].got < flow[u].out /\ up[u].got = Size[up[u].f]
               /\ R!Abort(u)
               /\ Reply(u, "413")
               /\ UNCHANGED ambient

\* The body that a sender has left halfway breaks off; otherwise a stall or an I/O
\* error is a fault.
Broken(u) == /\ R!Abort(u)
             /\ \E code \in {"408", "500"} : Reply(u, code)
             /\ IF listen = u \/ flow[u].out = flow[u].len THEN Fault ELSE UNCHANGED faults
             /\ UNCHANGED <<grown, changes, hours>>

Interrupted(u) == R!Interrupted(u) /\ Reply(u, "410") /\ UNCHANGED ambient

\* The body ends where the source ended; a short one is refused (400).
BodyEnd(u) == /\ up[u].got = flow[u].len
              /\ R!BodyEnd(u)
              /\ Reply(u, "400")
              /\ UNCHANGED ambient

Commit(u) == /\ \/ R!CommitRefused(u) /\ Reply(u, "410")
                \/ R!Commit(u) /\ Reply(u, "200")
             /\ UNCHANGED ambient

\* A dropped handler: the sender, if it still listens, sees a broken connection.
Drop(u) == /\ Trouble /\ R!Drop(u)
           /\ IF listen = u
              THEN RetryFile
              ELSE UNCHANGED <<spc, attempt, fi, tok, sent, base, from, stray, listen, flow, result>>
           /\ UNCHANGED <<late, ambient>>

UploadStep(u) ==
  \/ Lock(u) \/ UploadEnds(u) \/ Open(u) \/ Block(u) \/ TooLarge(u) \/ Interrupted(u)
  \/ BodyEnd(u) \/ Commit(u)

-----------------------------------------------------------------------------
(***************************************************************************)
(* The receiver's user, strangers, time and the source files               *)
(***************************************************************************)
Decide(id) ==
  /\ R!accept_transfer(id) \/ R!reject_transfer(id) \/ R!cancel_transfer(id)
  /\ UNCHANGED <<sender, ambient>>

Expire(id) == R!Expire(id) /\ UNCHANGED <<sender, ambient>>

Stranger == /\ \E id \in Ids \ {Id} : R!Request(id)
            /\ UNCHANGED <<sender, ambient>>

Hour == /\ spc \in {"sending", "done"}
        /\ hours < MaxHours
        /\ \E id \in Ids : R!Hour(id)
        /\ hours' = hours + 1
        /\ UNCHANGED <<sender, grown, faults, changes>>

SourceChanges ==
  /\ spc # "done"
  /\ Trouble /\ changes < MaxChanges
  /\ changes' = changes + 1
  /\ grown' \in {-1, 1}
  /\ UNCHANGED <<receiver, sender, faults, hours>>

SenderNext ==
  \/ StatusApproved \/ StatusRejected \/ StatusPending \/ BeginAttempt
  \/ \E u \in Uploads : OpenUpload(u) \/ Stream(u)

Next ==
  \/ SenderNext \/ SendRequest \/ ApprovalTimeout \/ RequestFails \/ LateRequest \/ PollFails \/ OpenFails \/ UploadFails
  \/ RequestAnswer \/ RequestDropped
  \/ \E u \in Uploads : UploadStep(u) \/ Broken(u) \/ Drop(u) \/ StreamOn(u)
  \/ \E id \in Ids : Decide(id) \/ Expire(id)
  \/ Stranger \/ Hour \/ SourceChanges

Spec == Init /\ [][Next]_vars

\* The sender and the handlers take their own steps, a body that was left breaks off
\* (at the latest after 120 seconds), the approval deadline passes, and the FIFO
\* mutexes ("decisions", the upload lock) are granted to whoever waits for them.
Fairness ==
  /\ WF_vars(SenderNext)
  /\ SF_vars(SendRequest \/ ApprovalTimeout)
  /\ WF_vars(RequestAnswer \/ \E id \in Ids : Expire(id))
  /\ \A u \in Uploads :
       /\ SF_vars(Lock(u) \/ Commit(u))
       /\ WF_vars(UploadEnds(u) \/ Open(u) \/ Block(u) \/ TooLarge(u) \/ Interrupted(u)
                    \/ BodyEnd(u) \/ (listen # u /\ Broken(u)))
FairSpec == Spec /\ Fairness

-----------------------------------------------------------------------------
(***************************************************************************)
(* Properties                                                              *)
(***************************************************************************)
\* send_files returns Ok only when every file is in the download directory, and
\* within the hour exactly once, whatever was retried, left or answered
\* "already_received" on the way, in a transfer the receiver knows to be complete.
\* An hour later the receiver may have forgotten it: a request left behind then
\* begins it anew, and a retry stores a file a second time.  The call ends as
\* cancelled or rejected only if the receiver's user did that: 410 and the three
\* reads of the status never blame the user for something else.
OutcomesAreHonest ==
  /\ result = "ok" => \A f \in R!FilesOf(Id) : kept[f] > 0
  /\ hours = 0 =>
       /\ result = "ok" => Id \in completed /\ \A f \in R!FilesOf(Id) : kept[f] = 1
       /\ result = "cancelled" => Id \in cancelled
       /\ result = "rejected"  => Id \in rejected

\* bytes_sent_so_far counts every file once, however often it is retried: it stays
\* within the total, and a success ends at the total - up to the blocks that bodies of
\* answered or abandoned attempts have gone on counting, each of them at most once.
ProgressIsTrue ==
  changes = 0 => /\ sent <= Total + stray
                 /\ result = "ok" => sent >= Total

\* send_files returns, also when the receiver is full or silent, or nobody decides.
\* Once it is gone, no upload keeps its handler and with it the lock that protects
\* the transfer from expiry.
TransferEnds ==
  /\ <>(spc = "done")
  /\ spc = "done" ~> \A u \in Uploads : R!Idle(u)

=============================================================================
