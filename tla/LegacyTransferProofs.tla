------------------------ MODULE LegacyTransferProofs ------------------------
(***************************************************************************)
(* Proofs about a v1 transfer from end to end, for any files, sizes,       *)
(* retries, faults and uploads left behind.                                *)
(*                                                                         *)
(* The receiver's part of a step is ReceiverStep.  The first lemmas say    *)
(* of it what LegacyReceiverProofs says of the receiver by itself: facts   *)
(* about an instantiated module have to be proved of the instance, whose   *)
(* uploads moreover come with the sender's token, which may be stale.      *)
(***************************************************************************)
EXTENDS LegacyTransfer, FiniteSetTheorems, WellFoundedInduction, TLAPS

Decided(id) ==
  \/ R!Request(id) \/ R!Expire(id)
  \/ R!accept_transfer(id) \/ R!reject_transfer(id) \/ R!cancel_transfer(id)

Answering == R!RequestRefused \/ R!RequestDropped \/ \E trusted \in BOOLEAN : R!Registered(trusted)

Handled(u) ==
  \/ OpenUpload(u) \/ R!Lock(u) \/ R!UploadEnds(u) \/ R!Open(u) \/ R!Block(u) \/ R!Abort(u)
  \/ R!Interrupted(u) \/ R!BodyEnd(u) \/ R!CommitRefused(u) \/ R!Commit(u) \/ R!Drop(u)

ReceiverStep ==
  \/ \E id \in Ids : R!Hour(id) /\ hours' = hours + 1
  \/ /\ hours' = hours
     /\ \/ \E id \in Ids : Decided(id)
        \/ Answering
        \/ \E u \in Uploads : Handled(u)
        \/ UNCHANGED receiver

\* Whatever the sender does, the receiver takes one of its own steps or none.
LEMMA StepOfReceiver == [Next]_vars => ReceiverStep
<1> SUFFICES ASSUME [Next]_vars PROVE ReceiverStep OBVIOUS
<1> USE DEF ambient
<1>a. ASSUME UNCHANGED <<receiver, hours>> PROVE ReceiverStep BY <1>a DEF ReceiverStep
<1>b. ASSUME NEW id \in Ids, Decided(id), hours' = hours PROVE ReceiverStep
  BY <1>b DEF ReceiverStep
<1>c. ASSUME Answering, hours' = hours PROVE ReceiverStep BY <1>c DEF ReceiverStep
<1>d. ASSUME NEW u \in Uploads, Handled(u), hours' = hours PROVE ReceiverStep
  BY <1>d DEF ReceiverStep
<1>1. CASE SenderNext
  <2>1. CASE StatusApproved \/ StatusRejected \/ StatusPending \/ BeginAttempt
    BY <2>1, <1>a DEF StatusApproved, StatusRejected, StatusPending, BeginAttempt
  <2>2. ASSUME NEW u \in Uploads, OpenUpload(u) PROVE ReceiverStep
    BY <2>2, <1>d DEF OpenUpload, Handled
  <2>3. ASSUME NEW u \in Uploads, Stream(u) PROVE ReceiverStep BY <2>3, <1>a DEF Stream, Emit
  <2> QED BY <1>1, <2>1, <2>2, <2>3 DEF SenderNext
<1>2. CASE SendRequest \/ LateRequest
  BY <1>2, <1>b, SenderAssumption DEF SendRequest, LateRequest, Decided
<1>3. CASE \/ ApprovalTimeout \/ RequestFails \/ PollFails \/ OpenFails \/ UploadFails
           \/ SourceChanges
  BY <1>3, <1>a DEF ApprovalTimeout, RequestFails, PollFails, OpenFails, UploadFails, SourceChanges
<1>4. CASE RequestAnswer \/ RequestDropped
  BY <1>4, <1>c DEF RequestAnswer, RequestDropped, Answering
<1>5. ASSUME NEW u \in Uploads, UploadStep(u) \/ Broken(u) \/ Drop(u) \/ StreamOn(u)
      PROVE  ReceiverStep
  <2>1. CASE Lock(u) \/ UploadEnds(u) \/ Open(u) \/ Block(u)
    BY <2>1, <1>d DEF Lock, UploadEnds, Open, Block, Handled
  <2>2. CASE TooLarge(u) \/ Interrupted(u) \/ BodyEnd(u)
    BY <2>2, <1>d DEF TooLarge, Interrupted, BodyEnd, Handled
  <2>3. CASE Commit(u) \/ Broken(u) \/ Drop(u)
    BY <2>3, <1>d DEF Commit, Broken, Drop, Handled
  <2>4. CASE StreamOn(u) BY <2>4, <1>a DEF StreamOn, Emit
  <2> QED BY <1>5, <2>1, <2>2, <2>3, <2>4 DEF UploadStep
<1>6. ASSUME NEW id \in Ids, Decide(id) \/ Expire(id) PROVE ReceiverStep
  BY <1>6, <1>b DEF Decide, Expire, Decided
<1>7. CASE Stranger BY <1>7, <1>b DEF Stranger, Decided
<1>8. CASE Hour BY <1>8 DEF Hour, ReceiverStep
<1>9. CASE UNCHANGED vars BY <1>9, <1>a DEF vars
<1> QED BY <1>1, <1>2, <1>3, <1>4, <1>5, <1>6, <1>7, <1>8, <1>9 DEF Next

\* The file the sender is at is a file of the transfer.
LEMMA FileIsOurs ==
  ASSUME TypeOK
  PROVE  File \in Files /\ Session[File] = Id /\ Size[File] \in Nat /\ tok \in 0 .. MaxTokens
<1>1. fi \in 1 .. Len(Order) /\ tok \in 0 .. MaxTokens BY DEF TypeOK
<1>2. Order[fi] \in Files BY <1>1, SenderAssumption
<1> QED BY <1>1, <1>2, ReceiverAssumption, SenderAssumption DEF File

-----------------------------------------------------------------------------
\* A request that removes, and one step of the removal.
Deciders == [id : Ids, rest : SUBSET Ids, now : Ids \cup {None}, at : 1 .. 8]

LEMMA RemovalTypes ==
  ASSUME R!TypeOK, NEW id \in Ids, R!Expire(id)
  PROVE  deciding' \in Deciders
<1>1. deciding \in Deciders BY DEF R!TypeOK, R!Expire, Deciders
<1>2. CASE deciding.at = 8
  <2>1. deciding' = [deciding EXCEPT !.rest = deciding.rest \ {id}, !.now = None, !.at = 1]
    BY <1>2 DEF R!Expire
  <2>2. /\ deciding' = [id |-> deciding.id, rest |-> deciding.rest \ {id}, now |-> None, at |-> 1]
        /\ deciding.id \in Ids /\ deciding.rest \ {id} \in SUBSET Ids
    BY <1>1, <2>1 DEF Deciders
  <2> QED BY <2>2 DEF Deciders
<1>3. CASE deciding.at # 8
  <2>1. deciding' = [deciding EXCEPT !.now = id, !.at = deciding.at + 1] BY <1>3 DEF R!Expire
  <2>2. deciding.at + 1 \in 1 .. 8 BY <1>1, <1>3 DEF Deciders
  <2> QED BY <1>1, <2>1, <2>2 DEF Deciders
<1> QED BY <1>2, <1>3

\* Every table and handler stays in its set.
LEMMA TypeStep == TypeOK /\ ReceiverStep => R!TypeOK'
<1> SUFFICES ASSUME TypeOK, R!TypeOK, ReceiverStep PROVE R!TypeOK' BY DEF TypeOK
<1>p. ASSUME NEW u \in Uploads, NEW s \in R!Phases, up' = [up EXCEPT ![u].st = s]
      PROVE  up' \in [Uploads -> [st : R!Phases, f : Files \cup {None}, tok : 0 .. MaxTokens, got : Nat]]
  <2>1. up \in [Uploads -> [st : R!Phases, f : Files \cup {None}, tok : 0 .. MaxTokens, got : Nat]]
    BY DEF R!TypeOK
  <2>2. [up[u] EXCEPT !.st = s] \in [st : R!Phases, f : Files \cup {None}, tok : 0 .. MaxTokens, got : Nat]
    BY <2>1
  <2> QED BY <1>p, <2>1, <2>2
<1> USE ReceiverAssumption DEF R!TypeOK, receiver, R!tables, R!Phases, R!Idle, R!Free, R!Locked
<1>1. ASSUME NEW id \in Ids, R!Hour(id) \/ Decided(id) PROVE R!TypeOK'
  <2>1. CASE R!Hour(id) BY <2>1 DEF R!Hour
  <2>2. CASE R!Request(id)
    BY <2>2 DEF R!Request, R!Expired
  <2>3. CASE R!Expire(id)
    <3>1. deciding' \in Deciders BY <2>3, RemovalTypes
    <3>2. /\ pending' \subseteq Ids /\ rejected' \subseteq Ids /\ cancelled' \subseteq Ids
          /\ completed' \subseteq Ids /\ torn' \subseteq Ids
      BY <2>3 DEF R!Expire
    <3>3. /\ approved' \in [Ids -> 0 .. MaxTokens] /\ received' \in [Ids -> SUBSET Files]
          /\ bytes' \in [Ids -> Nat \cup {None}] /\ activity' \in [Ids -> {"none", "recent", "idle"}]
      BY <2>3 DEF R!Expire
    <3> QED BY <2>3, <3>1, <3>2, <3>3 DEF R!Expire, Deciders
  <2>4. CASE R!accept_transfer(id) BY <2>4 DEF R!accept_transfer, R!Approve
  <2>5. CASE R!reject_transfer(id) BY <2>5 DEF R!reject_transfer
  <2>6. CASE R!cancel_transfer(id) BY <2>6 DEF R!cancel_transfer
  <2> QED BY <1>1, <2>1, <2>2, <2>3, <2>4, <2>5, <2>6 DEF Decided
<1>2. CASE R!RequestRefused BY <1>2 DEF R!RequestRefused
<1>6. CASE R!RequestDropped BY <1>6 DEF R!RequestDropped
<1>3. ASSUME NEW trusted \in BOOLEAN, R!Registered(trusted) PROVE R!TypeOK'
  BY <1>3 DEF R!Registered, R!Approve, R!Known
<1>4. ASSUME NEW u \in Uploads, Handled(u) PROVE R!TypeOK'
  <2>1. CASE OpenUpload(u) BY <2>1, FileIsOurs DEF OpenUpload
  <2>2. CASE R!Lock(u)
    <3>1. CASE up' = [up EXCEPT ![u].st = "checked"]
      <4>1. up' \in [Uploads -> [st : R!Phases, f : Files \cup {None}, tok : 0 .. MaxTokens, got : Nat]]
        BY <3>1, <1>p
      <4>2. \A v \in Uploads : ~R!Idle(v)' => up'[v].f \in Files /\ up'[v].got <= Size[up'[v].f]
        BY <2>2, <3>1 DEF R!Lock
      <4> QED BY <2>2, <3>1, <4>1, <4>2 DEF R!Lock, R!Release
    <3>2. CASE R!Release(u) BY <2>2, <3>2 DEF R!Lock, R!Release
    <3> QED BY <2>2, <3>1, <3>2 DEF R!Lock
  <2>3. CASE R!UploadEnds(u) BY <2>3 DEF R!UploadEnds, R!Release
  <2>4. CASE R!Open(u)
    <3>1. CASE up' = [up EXCEPT ![u].st = "body"]
      <4>1. up' \in [Uploads -> [st : R!Phases, f : Files \cup {None}, tok : 0 .. MaxTokens, got : Nat]]
        BY <3>1, <1>p
      <4>2. \A v \in Uploads : ~R!Idle(v)' => up'[v].f \in Files /\ up'[v].got <= Size[up'[v].f]
        BY <2>4, <3>1 DEF R!Open
      <4> QED BY <2>4, <3>1, <4>1, <4>2 DEF R!Open, R!Touch, R!Release
    <3>2. CASE R!Release(u) BY <2>4, <3>2 DEF R!Open, R!Touch, R!Release
    <3> QED BY <2>4, <3>1, <3>2 DEF R!Open
  <2>5. CASE R!Block(u)
    <3> DEFINE r == [up[u] EXCEPT !.got = @ + 1]
               Rec == [st : R!Phases, f : Files \cup {None}, tok : 0 .. MaxTokens, got : Nat]
    <3>1. up[u].got + 1 \in Nat BY <2>5
    <3>5. r \in Rec BY <3>1
    <3>6. up' = [up EXCEPT ![u] = r] BY <2>5 DEF R!Block
    <3> HIDE DEF r
    <3>4. up' \in [Uploads -> Rec] BY <3>5, <3>6
    <3>2. \A v \in Uploads : ~R!Idle(v)' => up'[v].f \in Files /\ up'[v].got <= Size[up'[v].f]
      BY <2>5 DEF R!Block
    <3>3. bytes' \in [Ids -> Nat \cup {None}] BY <2>5 DEF R!Block
    <3> QED BY <2>5, <3>4, <3>2, <3>3 DEF R!Block
  <2>6. CASE R!Abort(u) BY <2>6 DEF R!Abort, R!Discard, R!Release, R!rollback_file_bytes
  <2>7. CASE R!Interrupted(u) BY <2>7 DEF R!Interrupted, R!Discard, R!Release, R!rollback_file_bytes
  <2>8. CASE R!BodyEnd(u)
    <3>1. CASE up[u].got = Size[up[u].f] /\ up' = [up EXCEPT ![u].st = "commit"]
      <4>1. up' \in [Uploads -> [st : R!Phases, f : Files \cup {None}, tok : 0 .. MaxTokens, got : Nat]]
        BY <3>1, <1>p
      <4>2. \A v \in Uploads : ~R!Idle(v)' => up'[v].f \in Files /\ up'[v].got <= Size[up'[v].f]
        BY <2>8, <3>1 DEF R!BodyEnd
      <4> QED BY <2>8, <3>1, <4>1, <4>2 DEF R!BodyEnd, R!Discard, R!Release, R!rollback_file_bytes
    <3>2. CASE R!Discard(u) /\ UNCHANGED activity
      BY <2>8, <3>2 DEF R!BodyEnd, R!Discard, R!Release, R!rollback_file_bytes
    <3> QED BY <2>8, <3>1, <3>2 DEF R!BodyEnd
  <2>9. CASE R!CommitRefused(u)
    BY <2>9 DEF R!CommitRefused, R!Discard, R!Release, R!rollback_file_bytes, R!Touch
  <2>10. CASE R!Commit(u)
    <3> DEFINE f == up[u].f  id == Session[f]
    <3>1. f \in Files /\ id \in Ids BY <2>10 DEF R!Commit
    <3>2. received' \in [Ids -> SUBSET Files] BY <2>10, <3>1 DEF R!Commit
    <3>3. completed' \subseteq Ids BY <2>10, <3>1 DEF R!Commit
    <3>4. history' \in [Ids -> [{"Completed", "Failed"} -> Nat]]
      <4> DEFINE h == [history[id] EXCEPT !["Completed"] = @ + 1]
      <4>1. history' \in {history, [history EXCEPT ![id] = h]} BY <2>10 DEF R!Commit
      <4>2. h \in [{"Completed", "Failed"} -> Nat] BY <3>1
      <4> HIDE DEF h
      <4> QED BY <3>1, <4>1, <4>2
    <3>5. bytes' \in [Ids -> Nat \cup {None}]
      <4>1. bytes' \in {bytes, [bytes EXCEPT ![id] = None]} BY <2>10 DEF R!Commit
      <4> QED BY <3>1, <4>1
    <3>6. kept' \in [Files -> Nat]
      <4>1. kept' = [kept EXCEPT ![f] = @ + 1] BY <2>10 DEF R!Commit
      <4> QED BY <3>1, <4>1
    <3>7. activity' \in [Ids -> {"none", "recent", "idle"}] BY <2>10, <3>1 DEF R!Commit, R!Touch
    <3>8. R!Release(u) /\ UNCHANGED <<pending, rejected, cancelled, approved, tokens, deciding, drops, torn>>
      BY <2>10 DEF R!Commit
    <3> HIDE DEF f, id
    <3> QED BY <3>2, <3>3, <3>4, <3>5, <3>6, <3>7, <3>8 DEF R!Release
  <2>11. CASE R!Drop(u) BY <2>11 DEF R!Drop, R!Release
  <2> QED BY <1>4, <2>1, <2>2, <2>3, <2>4, <2>5, <2>6, <2>7, <2>8, <2>9, <2>10, <2>11 DEF Handled
<1>5. CASE UNCHANGED receiver BY <1>5
<1> QED BY <1>1, <1>2, <1>3, <1>4, <1>5, <1>6 DEF ReceiverStep, Answering

\* The part of the receiver's TablesAgree that the sender relies on.
Apart ==
  /\ pending \cap rejected = {} /\ pending \cap cancelled = {} /\ rejected \cap cancelled = {}
  /\ \A id \in Ids : approved[id] # 0 => id \notin rejected \cup cancelled

\* The decisions move a transfer from one table to another in one critical section, and a
\* removal, also one that is dropped, only takes away.
LEMMA TablesStep == TypeOK /\ Apart /\ ReceiverStep => Apart'
<1> SUFFICES ASSUME TypeOK, R!TypeOK, Apart, ReceiverStep PROVE Apart' BY DEF TypeOK
<1> USE ReceiverAssumption DEF R!TypeOK, Apart, receiver, R!tables
<1>1. ASSUME NEW id \in Ids, R!Hour(id) \/ Decided(id) PROVE Apart'
  <2>1. CASE R!Hour(id) BY <2>1 DEF R!Hour
  <2>2. CASE R!Request(id) BY <2>2 DEF R!Request
  <2>3. CASE R!Expire(id)
    <3>1. /\ pending' \subseteq pending /\ rejected' \subseteq rejected /\ cancelled' \subseteq cancelled
          /\ approved' \in {approved, [approved EXCEPT ![id] = 0]}
      BY <2>3 DEF R!Expire
    <3> QED BY <3>1
  <2>4. CASE R!accept_transfer(id) BY <2>4 DEF R!accept_transfer, R!Approve
  <2>5. CASE R!reject_transfer(id) BY <2>5 DEF R!reject_transfer
  <2>6. CASE R!cancel_transfer(id) BY <2>6 DEF R!cancel_transfer
  <2> QED BY <1>1, <2>1, <2>2, <2>3, <2>4, <2>5, <2>6 DEF Decided
<1>2. CASE R!RequestRefused BY <1>2 DEF R!RequestRefused
<1>6. CASE R!RequestDropped BY <1>6 DEF R!RequestDropped
<1>3. ASSUME NEW trusted \in BOOLEAN, R!Registered(trusted) PROVE Apart'
  BY <1>3 DEF R!Registered, R!Approve, R!Known
<1>4. ASSUME NEW u \in Uploads, Handled(u) PROVE Apart'
  <2>1. CASE OpenUpload(u) BY <2>1, FileIsOurs DEF OpenUpload
  <2>2. CASE R!Lock(u) BY <2>2 DEF R!Lock, R!Release
  <2>3. CASE R!UploadEnds(u) BY <2>3 DEF R!UploadEnds, R!Release
  <2>4. CASE R!Open(u) BY <2>4 DEF R!Open, R!Touch, R!Release
  <2>5. CASE R!Block(u) BY <2>5 DEF R!Block
  <2>6. CASE R!Abort(u) BY <2>6 DEF R!Abort, R!Discard, R!Release, R!rollback_file_bytes
  <2>7. CASE R!Interrupted(u) BY <2>7 DEF R!Interrupted, R!Discard, R!Release, R!rollback_file_bytes
  <2>8. CASE R!BodyEnd(u) BY <2>8 DEF R!BodyEnd, R!Discard, R!Release, R!rollback_file_bytes
  <2>9. CASE R!CommitRefused(u)
    BY <2>9 DEF R!CommitRefused, R!Discard, R!Release, R!rollback_file_bytes, R!Touch
  <2>10. CASE R!Commit(u) BY <2>10 DEF R!Commit, R!Touch, R!Release
  <2>11. CASE R!Drop(u) BY <2>11 DEF R!Drop, R!Release
  <2> QED BY <1>4, <2>1, <2>2, <2>3, <2>4, <2>5, <2>6, <2>7, <2>8, <2>9, <2>10, <2>11 DEF Handled
<1>5. CASE UNCHANGED receiver BY <1>5
<1> QED BY <1>1, <1>2, <1>3, <1>4, <1>5, <1>6 DEF ReceiverStep, Answering

\* Uploads of one transfer hold its lock one at a time.
TakesTurns ==
  \A u, v \in Uploads : /\ u # v
                        /\ up[u].st \in R!Locked /\ up[v].st \in R!Locked
                        => Session[up[u].f] # Session[up[v].f]

\* Only R!Lock lets an upload in, when no other one of the transfer is.
LEMMA TurnsStep == TypeOK /\ TakesTurns /\ ReceiverStep => TakesTurns'
<1> SUFFICES ASSUME TypeOK, R!TypeOK, TakesTurns, ReceiverStep PROVE TakesTurns' BY DEF TypeOK
<1> USE ReceiverAssumption DEF R!TypeOK, TakesTurns, receiver, R!tables, R!Idle, R!Free, R!Locked, R!Serves
<1>1. ASSUME NEW id \in Ids, R!Hour(id) \/ Decided(id) PROVE TakesTurns'
  <2>1. CASE R!Hour(id) BY <2>1 DEF R!Hour
  <2>2. CASE R!Request(id) BY <2>2 DEF R!Request
  <2>3. CASE R!Expire(id) BY <2>3 DEF R!Expire
  <2>4. CASE R!accept_transfer(id) BY <2>4 DEF R!accept_transfer, R!Approve
  <2>5. CASE R!reject_transfer(id) BY <2>5 DEF R!reject_transfer
  <2>6. CASE R!cancel_transfer(id) BY <2>6 DEF R!cancel_transfer
  <2> QED BY <1>1, <2>1, <2>2, <2>3, <2>4, <2>5, <2>6 DEF Decided
<1>2. CASE R!RequestRefused BY <1>2 DEF R!RequestRefused
<1>6. CASE R!RequestDropped BY <1>6 DEF R!RequestDropped
<1>3. ASSUME NEW trusted \in BOOLEAN, R!Registered(trusted) PROVE TakesTurns'
  BY <1>3 DEF R!Registered, R!Approve, R!Known
<1>4. ASSUME NEW u \in Uploads, Handled(u) PROVE TakesTurns'
  <2>1. CASE OpenUpload(u) BY <2>1, FileIsOurs DEF OpenUpload
  <2>2. CASE R!Lock(u)
    <3>1. CASE up' = [up EXCEPT ![u].st = "checked"] BY <2>2, <3>1 DEF R!Lock
    <3>2. CASE R!Release(u) BY <3>2 DEF R!Release
    <3> QED BY <2>2, <3>1, <3>2 DEF R!Lock
  <2>3. CASE R!UploadEnds(u) BY <2>3 DEF R!UploadEnds, R!Release
  <2>4. CASE R!Open(u)
    <3>1. CASE up' = [up EXCEPT ![u].st = "body"] BY <2>4, <3>1 DEF R!Open
    <3>2. CASE R!Release(u) BY <3>2 DEF R!Release
    <3> QED BY <2>4, <3>1, <3>2 DEF R!Open
  <2>5. CASE R!Block(u) BY <2>5 DEF R!Block
  <2>6. CASE R!Abort(u) BY <2>6 DEF R!Abort, R!Discard, R!Release, R!rollback_file_bytes
  <2>7. CASE R!Interrupted(u) BY <2>7 DEF R!Interrupted, R!Discard, R!Release, R!rollback_file_bytes
  <2>8. CASE R!BodyEnd(u)
    <3>1. CASE up' = [up EXCEPT ![u].st = "commit"] BY <2>8, <3>1 DEF R!BodyEnd
    <3>2. CASE R!Release(u) BY <3>2 DEF R!Release
    <3> QED BY <2>8, <3>1, <3>2 DEF R!BodyEnd, R!Discard
  <2>9. CASE R!CommitRefused(u)
    BY <2>9 DEF R!CommitRefused, R!Discard, R!Release, R!rollback_file_bytes, R!Touch
  <2>10. CASE R!Commit(u)
    <3>1. R!Release(u) BY <2>10 DEF R!Commit
    <3> QED BY <3>1 DEF R!Release
  <2>11. CASE R!Drop(u) BY <2>11 DEF R!Drop, R!Release
  <2> QED BY <1>4, <2>1, <2>2, <2>3, <2>4, <2>5, <2>6, <2>7, <2>8, <2>9, <2>10, <2>11 DEF Handled
<1>5. CASE UNCHANGED receiver BY <1>5
<1> QED BY <1>1, <1>2, <1>3, <1>4, <1>5, <1>6 DEF ReceiverStep, Answering

\* A file being received has no receipt yet.
NotYetReceived ==
  \A u \in Uploads : up[u].st \in {"body", "commit"} => up[u].f \notin received[Session[up[u].f]]

\* R!Open looks for the receipt under the lock under which R!Commit writes it.
LEMMA ReceiptStep == TypeOK /\ TakesTurns /\ NotYetReceived /\ ReceiverStep => NotYetReceived'
<1> SUFFICES ASSUME TypeOK, R!TypeOK, TakesTurns, NotYetReceived, ReceiverStep PROVE NotYetReceived'
  BY DEF TypeOK
<1> USE ReceiverAssumption DEF R!TypeOK, TakesTurns, NotYetReceived, receiver, R!tables, R!Idle, R!Free, R!Locked
<1>1. ASSUME NEW id \in Ids, R!Hour(id) \/ Decided(id) PROVE NotYetReceived'
  <2>1. CASE R!Hour(id) BY <2>1 DEF R!Hour
  <2>2. CASE R!Request(id) BY <2>2 DEF R!Request
  <2>3. CASE R!Expire(id) BY <2>3 DEF R!Expire
  <2>4. CASE R!accept_transfer(id) BY <2>4 DEF R!accept_transfer, R!Approve
  <2>5. CASE R!reject_transfer(id) BY <2>5 DEF R!reject_transfer
  <2>6. CASE R!cancel_transfer(id) BY <2>6 DEF R!cancel_transfer
  <2> QED BY <1>1, <2>1, <2>2, <2>3, <2>4, <2>5, <2>6 DEF Decided
<1>2. CASE R!RequestRefused BY <1>2 DEF R!RequestRefused
<1>6. CASE R!RequestDropped BY <1>6 DEF R!RequestDropped
<1>3. ASSUME NEW trusted \in BOOLEAN, R!Registered(trusted) PROVE NotYetReceived'
  BY <1>3 DEF R!Registered, R!Approve, R!Known
<1>4. ASSUME NEW u \in Uploads, Handled(u) PROVE NotYetReceived'
  <2>1. CASE OpenUpload(u) BY <2>1, FileIsOurs DEF OpenUpload
  <2>2. CASE R!Lock(u) BY <2>2 DEF R!Lock, R!Release
  <2>3. CASE R!UploadEnds(u) BY <2>3 DEF R!UploadEnds, R!Release
  <2>4. CASE R!Open(u)
    <3>1. received' = received /\ up[u].f \notin received[Session[up[u].f]] BY <2>4 DEF R!Open
    <3>2. CASE up' = [up EXCEPT ![u].st = "body"] BY <3>1, <3>2
    <3>3. CASE R!Release(u) BY <3>1, <3>3 DEF R!Release
    <3> QED BY <2>4, <3>2, <3>3 DEF R!Open
  <2>5. CASE R!Block(u) BY <2>5 DEF R!Block
  <2>6. CASE R!Abort(u) BY <2>6 DEF R!Abort, R!Discard, R!Release, R!rollback_file_bytes
  <2>7. CASE R!Interrupted(u) BY <2>7 DEF R!Interrupted, R!Discard, R!Release, R!rollback_file_bytes
  <2>8. CASE R!BodyEnd(u)
    <3>1. received' = received BY <2>8 DEF R!BodyEnd, R!Discard
    <3>2. CASE up' = [up EXCEPT ![u].st = "commit"] BY <2>8, <3>1, <3>2 DEF R!BodyEnd
    <3>3. CASE R!Release(u) BY <3>1, <3>3 DEF R!Release
    <3> QED BY <2>8, <3>2, <3>3 DEF R!BodyEnd, R!Discard
  <2>9. CASE R!CommitRefused(u)
    BY <2>9 DEF R!CommitRefused, R!Discard, R!Release, R!rollback_file_bytes, R!Touch
  <2>10. CASE R!Commit(u) BY <2>10 DEF R!Commit, R!Touch, R!Release
  <2>11. CASE R!Drop(u) BY <2>11 DEF R!Drop, R!Release
  <2> QED BY <1>4, <2>1, <2>2, <2>3, <2>4, <2>5, <2>6, <2>7, <2>8, <2>9, <2>10, <2>11 DEF Handled
<1>5. CASE UNCHANGED receiver BY <1>5
<1> QED BY <1>1, <1>2, <1>3, <1>4, <1>5, <1>6 DEF ReceiverStep, Answering

\* A receipt stands for a file that was received.
ReceiptsAreKept ==
  \A id \in Ids : received[id] \subseteq R!FilesOf(id) /\ \A f \in received[id] : kept[f] > 0

\* Commit counts the file with its receipt; nothing else adds a receipt.
LEMMA KeptStep == TypeOK /\ ReceiptsAreKept /\ ReceiverStep => ReceiptsAreKept'
<1> SUFFICES ASSUME TypeOK, R!TypeOK, ReceiptsAreKept, ReceiverStep PROVE ReceiptsAreKept'
  BY DEF TypeOK
<1> USE ReceiverAssumption DEF receiver, R!tables
<1>a. ASSUME UNCHANGED <<received, kept>> PROVE ReceiptsAreKept' BY <1>a DEF ReceiptsAreKept
<1>b. received \in [Ids -> SUBSET Files] /\ kept \in [Files -> Nat] BY DEF R!TypeOK
<1>c. ASSUME NEW id \in Ids, received' = [received EXCEPT ![id] = {}], UNCHANGED kept
      PROVE  ReceiptsAreKept'
  BY <1>b, <1>c DEF ReceiptsAreKept
<1>1. ASSUME NEW id \in Ids, R!Hour(id) \/ Decided(id) PROVE ReceiptsAreKept'
  <2>1. CASE R!Expire(id) BY <2>1, <1>a, <1>c DEF R!Expire
  <2>2. CASE R!cancel_transfer(id) BY <2>2, <1>c DEF R!cancel_transfer
  <2>3. CASE R!Hour(id) \/ R!Request(id) \/ R!accept_transfer(id) \/ R!reject_transfer(id)
    BY <2>3, <1>a DEF R!Hour, R!Request, R!accept_transfer, R!reject_transfer
  <2> QED BY <1>1, <2>1, <2>2, <2>3 DEF Decided
<1>2. CASE Answering
  BY <1>2, <1>a DEF Answering, R!RequestRefused, R!RequestDropped, R!Registered
<1>3. ASSUME NEW u \in Uploads, Handled(u) PROVE ReceiptsAreKept'
  <2>1. CASE R!Commit(u)
    <3>1. PICK f \in Files, id \in Ids : f = up[u].f /\ id = Session[f]
      BY <2>1 DEF R!Commit, R!TypeOK, R!Idle
    <3>2. /\ received' = [received EXCEPT ![id] = @ \cup {f}]
          /\ kept' = [kept EXCEPT ![f] = @ + 1]
      BY <2>1, <3>1 DEF R!Commit
    <3>3. kept'[f] > 0 /\ \A g \in Files : kept[g] > 0 => kept'[g] > 0 BY <1>b, <3>2
    <3>4. f \in R!FilesOf(id) /\ \A i \in Ids : R!FilesOf(i) \subseteq Files
      BY <3>1 DEF R!FilesOf
    <3> QED BY <1>b, <3>2, <3>3, <3>4 DEF ReceiptsAreKept
  <2>2. CASE \/ OpenUpload(u) \/ R!Lock(u) \/ R!UploadEnds(u) \/ R!Open(u) \/ R!Block(u)
             \/ R!Abort(u) \/ R!Interrupted(u) \/ R!BodyEnd(u) \/ R!CommitRefused(u) \/ R!Drop(u)
    BY <2>2, <1>a DEF OpenUpload, R!Lock, R!UploadEnds, R!Open, R!Block, R!Abort, R!Interrupted,
                      R!BodyEnd, R!CommitRefused, R!Drop, R!Discard
  <2> QED BY <1>3, <2>1, <2>2 DEF Handled
<1>4. CASE UNCHANGED receiver BY <1>4, <1>a
<1> QED BY <1>1, <1>2, <1>3, <1>4 DEF ReceiverStep

-----------------------------------------------------------------------------
(***************************************************************************)
(* Within the hour the receiver forgets nothing                            *)
(***************************************************************************)
\* No transfer is idle or about to expire; a file of the transfer is received at most
\* once, and not at all without a receipt while the transfer is not cancelled; and a
\* transfer with all its receipts is complete.
WithinTheHour ==
  hours = 0 =>
    /\ \A id \in Ids : activity[id] # "idle"
    /\ deciding # None => deciding.rest = {}
    /\ \A f \in R!FilesOf(Id) : kept[f] <= 1
    /\ Id \notin cancelled => \A f \in R!FilesOf(Id) : f \in received[Id] \/ kept[f] = 0
    /\ Id \notin cancelled /\ R!FilesOf(Id) \subseteq received[Id] => Id \in completed

\* The receiver counts as FiniteSets does.
LEMMA SameCount == ASSUME NEW S PROVE R!Cardinality(S) = Cardinality(S)
  BY DEF R!Cardinality, Cardinality

\* Nothing is idle, so a request finds nothing to expire; Commit receives a file without
\* a receipt, and with the last one it completes the transfer.
LEMMA HourStep ==
  TypeOK /\ Apart /\ NotYetReceived /\ WithinTheHour /\ ReceiverStep => WithinTheHour'
<1> SUFFICES ASSUME TypeOK, R!TypeOK, Apart, NotYetReceived, WithinTheHour, ReceiverStep,
                    hours' = 0
             PROVE  WithinTheHour'
  BY DEF TypeOK, WithinTheHour
<1> USE ReceiverAssumption DEF receiver, R!tables
<1>h. hours \in Nat BY SenderAssumption DEF TypeOK
<1>b. /\ received \in [Ids -> SUBSET Files] /\ kept \in [Files -> Nat]
      /\ activity \in [Ids -> {"none", "recent", "idle"}]
      /\ deciding \in Deciders \cup {None}
      /\ Id \in Ids /\ R!FilesOf(Id) \subseteq Files
  BY SenderAssumption DEF R!TypeOK, R!FilesOf, Deciders
<1>1. ASSUME NEW id \in Ids, R!Hour(id), hours' = hours + 1 PROVE FALSE BY <1>1, <1>h
<1>2. CASE hours' = hours
  <2>w. /\ \A id \in Ids : activity[id] # "idle"
        /\ deciding # None => deciding.rest = {}
        /\ \A f \in R!FilesOf(Id) : kept[f] <= 1
        /\ Id \notin cancelled => \A f \in R!FilesOf(Id) : f \in received[Id] \/ kept[f] = 0
        /\ Id \notin cancelled /\ R!FilesOf(Id) \subseteq received[Id] => Id \in completed
    BY <1>2 DEF WithinTheHour
  <2>a. ASSUME UNCHANGED <<kept, cancelled, received, completed>>,
               UNCHANGED deciding \/ deciding' = None,
               \/ UNCHANGED activity
               \/ \E id \in Ids : activity' = [activity EXCEPT ![id] = "recent"]
        PROVE  WithinTheHour'
    BY <1>b, <2>a, <2>w DEF WithinTheHour, R!FilesOf
  <2>1. ASSUME NEW id \in Ids, Decided(id) PROVE WithinTheHour'
    <3>1. CASE R!Request(id)
      <4>1. R!Expired = {} BY <2>w DEF R!Expired
      <4>2. deciding' = [id |-> id, rest |-> {}, now |-> None, at |-> 1] BY <3>1, <4>1 DEF R!Request
      <4>3. UNCHANGED <<kept, cancelled, received, completed, activity>> BY <3>1 DEF R!Request
      <4> QED BY <2>w, <4>2, <4>3 DEF WithinTheHour, R!FilesOf
    <3>2. CASE R!Expire(id) BY <3>2, <2>w DEF R!Expire
    <3>3. CASE R!accept_transfer(id) BY <3>3, <2>a DEF R!accept_transfer
    <3>4. CASE R!reject_transfer(id) BY <3>4, <2>a DEF R!reject_transfer
    <3>5. CASE R!cancel_transfer(id)
      <4>1. /\ cancelled' = cancelled \cup {id}
            /\ received' = [received EXCEPT ![id] = {}]
            /\ UNCHANGED <<completed, activity, deciding, kept>>
        BY <3>5 DEF R!cancel_transfer
      <4>2. id # Id => received'[Id] = received[Id] BY <1>b, <4>1
      <4> QED BY <4>1, <4>2, <2>w DEF WithinTheHour, R!FilesOf
    <3> QED BY <2>1, <3>1, <3>2, <3>3, <3>4, <3>5 DEF Decided
  <2>2. CASE Answering
    <3>1. CASE R!RequestRefused BY <3>1, <2>a DEF R!RequestRefused
    <3>2. CASE R!RequestDropped BY <3>2, <2>a DEF R!RequestDropped
    <3>3. ASSUME NEW trusted \in BOOLEAN, R!Registered(trusted) PROVE WithinTheHour'
      <4>1. deciding.id \in Ids BY <1>b, <3>3 DEF R!Registered, Deciders
      <4> QED BY <3>3, <4>1, <2>a DEF R!Registered
    <3> QED BY <2>2, <3>1, <3>2, <3>3 DEF Answering
  <2>3. ASSUME NEW u \in Uploads, Handled(u) PROVE WithinTheHour'
    <3>0. ~R!Idle(u) => up[u].f \in Files /\ Session[up[u].f] \in Ids BY DEF R!TypeOK
    <3>1. CASE OpenUpload(u) BY <3>1, <2>a DEF OpenUpload
    <3>2. CASE R!Lock(u) \/ R!UploadEnds(u) \/ R!Block(u) \/ R!Drop(u)
      BY <3>2, <2>a DEF R!Lock, R!UploadEnds, R!Block, R!Drop
    <3>3. CASE R!Open(u) BY <3>0, <3>3, <2>a DEF R!Open, R!Touch, R!Idle
    <3>4. CASE R!Abort(u) \/ R!Interrupted(u) \/ R!BodyEnd(u)
      BY <3>4, <2>a DEF R!Abort, R!Interrupted, R!BodyEnd, R!Discard
    <3>5. CASE R!CommitRefused(u)
      BY <3>0, <3>5, <2>a DEF R!CommitRefused, R!Discard, R!Touch, R!Idle
    <3>6. CASE R!Commit(u)
      <4>1. PICK f \in Files, id \in Ids : f = up[u].f /\ id = Session[f]
        BY <3>0, <3>6 DEF R!Commit, R!Idle
      <4>2. /\ id \notin cancelled /\ UNCHANGED <<cancelled, deciding>>
            /\ activity' = [activity EXCEPT ![id] = "recent"]
            /\ received' = [received EXCEPT ![id] = @ \cup {f}]
            /\ kept' = [kept EXCEPT ![f] = @ + 1]
        BY <3>6, <4>1 DEF R!Commit, R!Touch
      <4>c. /\ completed \subseteq completed'
            /\ Cardinality(received[id] \cup {f}) >= Cardinality(R!FilesOf(id)) => id \in completed'
        BY <3>6, <4>1, SameCount DEF R!Commit
      <4>3. \A i \in Ids : activity'[i] # "idle" BY <1>b, <2>w, <4>2
      <4>4. CASE id # Id
        <5>1. f \notin R!FilesOf(Id) BY <4>1, <4>4 DEF R!FilesOf
        <5>2. received'[Id] = received[Id] BY <1>b, <4>2, <4>4
        <5>3. \A g \in R!FilesOf(Id) : kept'[g] = kept[g] BY <1>b, <4>2, <5>1
        <5>4. Id \in completed => Id \in completed' BY <4>c
        <5> QED BY <2>w, <4>2, <4>3, <5>2, <5>3, <5>4 DEF WithinTheHour, R!FilesOf
      <4>5. CASE id = Id
        <5>1. f \in R!FilesOf(Id) BY <4>1, <4>5 DEF R!FilesOf
        <5>2. f \notin received[Id] BY <3>6, <4>1, <4>5 DEF R!Commit, NotYetReceived
        <5>3. received'[Id] = received[Id] \cup {f} BY <1>b, <4>2, <4>5
        <5>4. kept[f] = 0 BY <2>w, <4>2, <4>5, <5>1, <5>2
        <5>5. \A g \in R!FilesOf(Id) : kept'[g] = IF g = f THEN 1 ELSE kept[g]
          BY <1>b, <4>2, <5>4
        <5>6. ASSUME R!FilesOf(Id) \subseteq received[Id] \cup {f} PROVE Id \in completed'
          <6>1. IsFiniteSet(received[Id] \cup {f})
            <7>1. received[Id] \cup {f} \subseteq Files BY <1>b
            <7> QED BY <7>1, FS_Subset
          <6>2. IsFiniteSet(R!FilesOf(Id)) BY <1>b, FS_Subset
          <6>3. /\ Cardinality(R!FilesOf(Id)) <= Cardinality(received[Id] \cup {f})
            BY <5>6, <6>1, FS_Subset
          <6>4. /\ Cardinality(R!FilesOf(Id)) \in Nat
                /\ Cardinality(received[Id] \cup {f}) \in Nat
            BY <6>1, <6>2, FS_CardinalityType
          <6> QED BY <4>c, <4>5, <6>3, <6>4
        <5> QED BY <2>w, <4>2, <4>3, <4>5, <5>3, <5>5, <5>6 DEF WithinTheHour, R!FilesOf
      <4> QED BY <4>4, <4>5
    <3>7. CASE R!Drop(u) BY <3>7, <2>a DEF R!Drop
    <3> QED BY <2>3, <3>1, <3>2, <3>3, <3>4, <3>5, <3>6, <3>7 DEF Handled
  <2>4. CASE UNCHANGED receiver BY <2>4, <2>a
  <2> QED BY <1>2, <2>1, <2>2, <2>3, <2>4, <1>h DEF ReceiverStep
<1> QED BY <1>1, <1>2 DEF ReceiverStep

\* What the receiver does not take back: files it has received, and within the hour its
\* verdicts and, unless it cancels, its receipts.
Lasting ==
  /\ \A f \in Files : kept'[f] >= kept[f]
  /\ hours' = 0 =>
       /\ hours = 0
       /\ Id \in cancelled => Id \in cancelled'
       /\ Id \in rejected => Id \in rejected'
       /\ Id \in completed => Id \in completed'
       /\ Id \notin cancelled' => received[Id] \subseteq received'[Id]

LEMMA LastingStep == TypeOK /\ Apart /\ WithinTheHour /\ ReceiverStep => Lasting
<1> SUFFICES ASSUME TypeOK, R!TypeOK, Apart, WithinTheHour, ReceiverStep PROVE Lasting
  BY DEF TypeOK
<1> USE ReceiverAssumption DEF receiver, R!tables
<1>h. hours \in Nat BY SenderAssumption DEF TypeOK
<1>b. /\ received \in [Ids -> SUBSET Files] /\ kept \in [Files -> Nat] /\ Id \in Ids
  BY SenderAssumption DEF R!TypeOK
<1>1. ASSUME NEW id \in Ids, R!Hour(id), hours' = hours + 1 PROVE Lasting
  BY <1>1, <1>h, <1>b DEF R!Hour, Lasting
<1>2. CASE hours' = hours
  <2>a. ASSUME UNCHANGED <<kept, cancelled, received, completed>>, rejected \subseteq rejected'
        PROVE  Lasting
    BY <1>2, <1>b, <2>a DEF Lasting
  <2>1. ASSUME NEW id \in Ids, Decided(id) PROVE Lasting
    <3>1. CASE R!Request(id) BY <3>1, <2>a DEF R!Request
    <3>2. CASE R!Expire(id) BY <1>2, <1>b, <3>2 DEF R!Expire, WithinTheHour, Lasting
    <3>3. CASE R!accept_transfer(id)
      <4>1. id \notin rejected BY <3>3 DEF R!accept_transfer, Apart
      <4> QED BY <3>3, <4>1, <2>a DEF R!accept_transfer
    <3>4. CASE R!reject_transfer(id) BY <3>4, <2>a DEF R!reject_transfer
    <3>5. CASE R!cancel_transfer(id)
      BY <1>2, <1>b, <3>5 DEF R!cancel_transfer, Lasting
    <3> QED BY <2>1, <3>1, <3>2, <3>3, <3>4, <3>5 DEF Decided
  <2>2. CASE Answering
    BY <2>2, <2>a DEF Answering, R!RequestRefused, R!RequestDropped, R!Registered
  <2>3. ASSUME NEW u \in Uploads, Handled(u) PROVE Lasting
    <3>1. CASE R!Commit(u)
      <4>1. PICK f \in Files, id \in Ids : f = up[u].f /\ id = Session[f]
        BY <3>1 DEF R!Commit, R!Idle, R!TypeOK
      <4>2. /\ UNCHANGED <<cancelled, rejected>>
            /\ received' = [received EXCEPT ![id] = @ \cup {f}]
            /\ completed \subseteq completed'
            /\ kept' = [kept EXCEPT ![f] = @ + 1]
        BY <3>1, <4>1 DEF R!Commit
      <4>3. \A g \in Files : kept'[g] >= kept[g] BY <1>b, <4>2
      <4>4. received[Id] \subseteq received'[Id] BY <1>b, <4>2
      <4> QED BY <1>2, <4>2, <4>3, <4>4 DEF Lasting
    <3>2. CASE \/ OpenUpload(u) \/ R!Lock(u) \/ R!UploadEnds(u) \/ R!Open(u) \/ R!Block(u)
               \/ R!Abort(u) \/ R!Interrupted(u) \/ R!BodyEnd(u) \/ R!CommitRefused(u) \/ R!Drop(u)
      BY <3>2, <2>a DEF OpenUpload, R!Lock, R!UploadEnds, R!Open, R!Block, R!Abort, R!Interrupted,
                        R!BodyEnd, R!CommitRefused, R!Drop, R!Discard
    <3> QED BY <2>3, <3>1, <3>2 DEF Handled
  <2>4. CASE UNCHANGED receiver BY <2>4, <2>a
  <2> QED BY <1>2, <2>1, <2>2, <2>3, <2>4, <1>h DEF ReceiverStep
<1> QED BY <1>1, <1>2 DEF ReceiverStep

-----------------------------------------------------------------------------
(***************************************************************************)
(* The sender's types                                                      *)
(***************************************************************************)
SenderOK ==
  /\ spc \in Steps
  /\ attempt \in 0 .. MaxRetries
  /\ fi \in 1 .. Len(Order)
  /\ tok \in 0 .. MaxTokens
  /\ sent \in Nat /\ base \in Nat /\ from \in Nat /\ stray \in Nat
  /\ listen \in Uploads \cup {None}
  /\ spc = "sending" <=> listen # None
  /\ flow \in [Uploads -> [out : Nat, len : Nat]]
  /\ result \in Results
  /\ result # "none" <=> spc = "done"

AmbientOK ==
  /\ late \in BOOLEAN
  /\ grown \in {-1, 0, 1}
  /\ faults \in 0 .. MaxFaults /\ changes \in 0 .. MaxChanges /\ hours \in 0 .. MaxHours

Same == UNCHANGED <<spc, attempt, fi, tok, sent, base, from, stray, listen, flow, result>>

LEMMA SameTypes == ASSUME SenderOK, Same PROVE SenderOK' BY DEF SenderOK, Same

LEMMA ReturnTypes == ASSUME SenderOK, NEW r \in Results \ {"none"}, Return(r) PROVE SenderOK'
  BY DEF SenderOK, Return, Steps, Results

LEMMA RetryRequestTypes ==
  ASSUME SenderOK, spc \in {"request", "asked"}, RetryRequest
  PROVE  SenderOK'
<1>1. CASE attempt = MaxRetries BY <1>1, ReturnTypes DEF RetryRequest, Results
<1>2. CASE attempt # MaxRetries
  <2>1. attempt + 1 \in 0 .. MaxRetries BY <1>2, SenderAssumption DEF SenderOK
  <2> QED BY <1>2, <2>1 DEF RetryRequest, SenderOK, Steps
<1> QED BY <1>1, <1>2

LEMMA AnsweredTypes ==
  ASSUME SenderOK, spc \in {"asked", "poll"}, NEW t \in 0 .. MaxTokens, Answered(t)
  PROVE  SenderOK'
<1>1. 0 \in 0 .. MaxRetries BY SenderAssumption
<1> QED BY <1>1 DEF Answered, SenderOK, Steps

LEMMA EmitTypes ==
  ASSUME SenderOK, NEW u \in Uploads, Emit(u), stray' \in Nat
  PROVE  SenderOK'
<1> DEFINE r == [flow[u] EXCEPT !.out = @ + 1]
<1>1. flow[u] \in [out : Nat, len : Nat] BY DEF SenderOK
<1>2. r \in [out : Nat, len : Nat] BY <1>1
<1>3. flow' = [flow EXCEPT ![u] = r] BY DEF Emit
<1> HIDE DEF r
<1>4. flow' \in [Uploads -> [out : Nat, len : Nat]] BY <1>2, <1>3 DEF SenderOK
<1>5. sent' \in Nat BY DEF Emit, SenderOK
<1> QED BY <1>4, <1>5 DEF Emit, SenderOK

LEMMA RetryFileTypes == ASSUME SenderOK, spc = "sending", RetryFile PROVE SenderOK'
<1>1. CASE attempt = MaxRetries BY <1>1, ReturnTypes DEF RetryFile, Results
<1>2. CASE attempt # MaxRetries
  <2>1. attempt + 1 \in 0 .. MaxRetries BY <1>2, SenderAssumption DEF SenderOK
  <2> QED BY <1>2, <2>1 DEF RetryFile, SenderOK, Steps
<1> QED BY <1>1, <1>2

LEMMA FileSentTypes ==
  ASSUME SenderOK, NEW u \in Uploads, spc = "sending", FileSent(u)
  PROVE  SenderOK'
<1>1. from + flow[u].len \in Nat BY DEF SenderOK
<1>2. CASE fi = Len(Order) BY <1>1, <1>2 DEF FileSent, SenderOK, Steps, Results
<1>3. CASE fi # Len(Order)
  <2>1. fi + 1 \in 1 .. Len(Order) BY <1>3, SenderAssumption DEF SenderOK
  <2>2. 0 \in 0 .. MaxRetries BY SenderAssumption
  <2> QED BY <1>1, <1>3, <2>1, <2>2 DEF FileSent, SenderOK, Steps
<1> QED BY <1>2, <1>3

\* Whatever the code of a reply, it ends, repeats or advances the send.
LEMMA ReplyTypes == ASSUME SenderOK, NEW u \in Uploads, NEW code, Reply(u, code) PROVE SenderOK'
<1>1. CASE listen = u /\ up'[u] = R!Free
  <2>1. spc = "sending" BY <1>1, SenderAssumption DEF SenderOK
  <2>2. Hears(u, code) BY <1>1 DEF Reply
  <2>3. \/ FileSent(u) \/ Return("cancelled") \/ RetryFile \/ Return("failed")
    BY <2>2 DEF Hears
  <2> QED BY <2>1, <2>3, FileSentTypes, ReturnTypes, RetryFileTypes DEF Results
<1>2. CASE ~(listen = u /\ up'[u] = R!Free) BY <1>2, SameTypes DEF Reply, Same
<1> QED BY <1>1, <1>2

\* Every action of the sender, and every answer, keeps the sender's variables in their
\* sets: attempts never exceed max_retries, and a send waits for one upload at most.
LEMMA SenderStep == TypeOK /\ R!TypeOK' /\ [Next]_vars => SenderOK'
<1> SUFFICES ASSUME TypeOK, R!TypeOK', [Next]_vars PROVE SenderOK' OBVIOUS
<1>t. SenderOK BY DEF TypeOK, SenderOK
<1>a. approved[Id] \in 0 .. MaxTokens /\ approved'[Id] \in 0 .. MaxTokens
  BY SenderAssumption DEF TypeOK, R!TypeOK
<1>s. ASSUME UNCHANGED <<spc, attempt, fi, tok, sent, base, from, stray, listen, flow, result>> PROVE SenderOK'
  BY <1>t, <1>s, SameTypes DEF Same
<1>1. CASE SenderNext
  <2>1. CASE StatusApproved
    <3>1. CASE approved[Id] # 0 BY <1>t, <1>a, <2>1, <3>1, AnsweredTypes DEF StatusApproved
    <3>2. CASE approved[Id] = 0 BY <1>t, <2>1, <3>2 DEF StatusApproved, SenderOK, Steps
    <3> QED BY <3>1, <3>2
  <2>2. CASE StatusRejected
    <3>1. CASE Id \in rejected BY <1>t, <2>2, <3>1, ReturnTypes DEF StatusRejected, Results
    <3>2. CASE Id \notin rejected BY <1>t, <2>2, <3>2 DEF StatusRejected, SenderOK, Steps
    <3> QED BY <3>1, <3>2
  <2>3. CASE StatusPending
    <3>1. CASE Id \notin pending BY <1>t, <2>3, <3>1, ReturnTypes DEF StatusPending, Results
    <3>2. CASE Id \in pending BY <1>t, <2>3, <3>2 DEF StatusPending, SenderOK, Steps
    <3> QED BY <3>1, <3>2
  <2>4. ASSUME NEW u \in Uploads, OpenUpload(u) PROVE SenderOK'
    <3>1. Measured \in Nat
      <4>1. grown \in {-1, 0, 1} BY DEF TypeOK
      <4> QED BY <4>1, FileIsOurs DEF Measured
    <3>2. flow' \in [Uploads -> [out : Nat, len : Nat]]
      BY <1>t, <2>4, <3>1 DEF OpenUpload, SenderOK
    <3> QED BY <1>t, <2>4, <3>2, SenderAssumption DEF OpenUpload, SenderOK, Steps
  <2>5. ASSUME NEW u \in Uploads, Stream(u) PROVE SenderOK'
    <3>1. stray' \in Nat BY <1>t, <2>5 DEF Stream, SenderOK
    <3> QED BY <1>t, <2>5, <3>1, EmitTypes DEF Stream
  <2>6. CASE BeginAttempt BY <1>t, <2>6 DEF BeginAttempt, SenderOK, Steps
  <2> QED BY <1>1, <2>1, <2>2, <2>3, <2>4, <2>5, <2>6 DEF SenderNext
<1>2. CASE SendRequest BY <1>t, <1>2 DEF SendRequest, SenderOK, Steps
<1>3. CASE ApprovalTimeout \/ PollFails \/ OpenFails
  BY <1>t, <1>3, ReturnTypes DEF ApprovalTimeout, PollFails, OpenFails, Results
<1>4. CASE RequestFails BY <1>t, <1>4, RetryRequestTypes DEF RequestFails
<1>5. CASE UploadFails BY <1>t, <1>5, RetryFileTypes DEF UploadFails
<1>6. CASE RequestAnswer
  <2>1. CASE spc = "asked"
    <3>1. \/ Return("failed") \/ Answered(approved[Id]) \/ RetryRequest
          \/ Answered(approved'[Id]) \/ Answered(0)
      BY <1>6, <2>1 DEF RequestAnswer
    <3>2. 0 \in 0 .. MaxTokens BY ReceiverAssumption
    <3> QED BY <1>t, <1>a, <2>1, <3>1, <3>2, ReturnTypes, AnsweredTypes, RetryRequestTypes DEF Results
  <2>2. CASE spc # "asked" BY <1>6, <1>s, <2>2 DEF RequestAnswer
  <2> QED BY <2>1, <2>2
<1>7. CASE RequestDropped
  <2>1. CASE spc = "asked" BY <1>t, <1>7, <2>1, RetryRequestTypes DEF RequestDropped
  <2>2. CASE spc # "asked" BY <1>7, <1>s, <2>2 DEF RequestDropped
  <2> QED BY <2>1, <2>2
<1>8. ASSUME NEW u \in Uploads, UploadStep(u) \/ Broken(u) \/ Drop(u) \/ StreamOn(u)
      PROVE  SenderOK'
  <2>1. ASSUME NEW code, Reply(u, code) PROVE SenderOK' BY <1>t, <2>1, ReplyTypes
  <2>2. CASE \/ Lock(u) \/ UploadEnds(u) \/ Open(u) \/ TooLarge(u) \/ Interrupted(u) \/ BodyEnd(u)
             \/ Commit(u) \/ Broken(u)
    BY <2>1, <2>2 DEF Lock, UploadEnds, Open, TooLarge, Interrupted, BodyEnd, Commit, Broken
  <2>3. CASE Block(u) BY <1>s, <2>3 DEF Block, sender
  <2>4. CASE Drop(u)
    <3>1. CASE listen = u
      <4>1. spc = "sending" BY <1>t, <3>1, SenderAssumption DEF SenderOK
      <4> QED BY <1>t, <2>4, <3>1, <4>1, RetryFileTypes DEF Drop
    <3>2. CASE listen # u BY <1>s, <2>4, <3>2 DEF Drop
    <3> QED BY <3>1, <3>2
  <2>5. CASE StreamOn(u)
    <3>1. stray' \in Nat BY <1>t, <2>5 DEF StreamOn, SenderOK
    <3> QED BY <1>t, <2>5, <3>1, EmitTypes DEF StreamOn
  <2> QED BY <1>8, <2>2, <2>3, <2>4, <2>5 DEF UploadStep
<1>9. CASE \/ LateRequest \/ Stranger \/ Hour \/ SourceChanges
           \/ \E id \in Ids : Decide(id) \/ Expire(id)
  BY <1>9, <1>s DEF LateRequest, Stranger, Hour, SourceChanges, Decide, Expire, sender
<1>10. CASE UNCHANGED vars BY <1>10, <1>s DEF vars, sender
<1> QED BY <1>1, <1>2, <1>3, <1>4, <1>5, <1>6, <1>7, <1>8, <1>9, <1>10 DEF Next

\* The bounds on faults, changes and hours are guards of the actions that count them.
LEMMA AmbientStep == TypeOK /\ [Next]_vars => AmbientOK'
<1> SUFFICES ASSUME TypeOK, [Next]_vars PROVE AmbientOK' OBVIOUS
<1>t. AmbientOK BY DEF TypeOK, AmbientOK
<1> USE SenderAssumption DEF ambient, sender
<1>f. ASSUME Fault \/ UNCHANGED faults, UNCHANGED <<grown, changes, hours>>, late' \in BOOLEAN
      PROVE  AmbientOK'
  BY <1>t, <1>f DEF Fault, AmbientOK
<1>l. late \in BOOLEAN BY <1>t DEF AmbientOK
<1>1. CASE SenderNext
  BY <1>1, <1>f, <1>l DEF SenderNext, StatusApproved, StatusRejected, StatusPending, BeginAttempt,
                          OpenUpload, Stream, Emit
<1>2. CASE SendRequest \/ ApprovalTimeout \/ LateRequest \/ PollFails \/ OpenFails \/ UploadFails
  BY <1>2, <1>f, <1>l DEF SendRequest, ApprovalTimeout, LateRequest, PollFails, OpenFails, UploadFails
<1>3. CASE RequestFails
  <2>1. late' \in BOOLEAN BY <1>3, <1>l DEF RequestFails
  <2> QED BY <1>3, <1>f, <2>1 DEF RequestFails
<1>4. CASE RequestAnswer \/ RequestDropped BY <1>4, <1>f, <1>l DEF RequestAnswer, RequestDropped
<1>5. ASSUME NEW u \in Uploads, UploadStep(u) \/ Broken(u) \/ Drop(u) \/ StreamOn(u)
      PROVE  AmbientOK'
  <2>1. CASE Lock(u) \/ UploadEnds(u) \/ Block(u) \/ TooLarge(u) \/ Interrupted(u)
    BY <2>1, <1>f, <1>l DEF Lock, UploadEnds, Block, TooLarge, Interrupted, Reply
  <2>2. CASE BodyEnd(u) \/ Commit(u) \/ Drop(u)
    BY <2>2, <1>f, <1>l DEF BodyEnd, Commit, Drop, Reply
  <2>3. CASE Open(u) \/ Broken(u) BY <2>3, <1>f, <1>l DEF Open, Broken, Reply
  <2>4. CASE StreamOn(u) BY <2>4, <1>f, <1>l DEF StreamOn, Emit
  <2> QED BY <1>5, <2>1, <2>2, <2>3, <2>4 DEF UploadStep
<1>6. CASE Stranger \/ \E id \in Ids : Decide(id) \/ Expire(id)
  BY <1>6, <1>f, <1>l DEF Stranger, Decide, Expire
<1>7. CASE Hour BY <1>7, <1>t DEF Hour, AmbientOK
<1>8. CASE SourceChanges BY <1>8, <1>t DEF SourceChanges, AmbientOK
<1>9. CASE UNCHANGED vars BY <1>9, <1>f, <1>l DEF vars
<1> QED BY <1>1, <1>2, <1>3, <1>4, <1>5, <1>6, <1>7, <1>8, <1>9 DEF Next

-----------------------------------------------------------------------------
(***************************************************************************)
(* What the sender knows of the receiver                                   *)
(***************************************************************************)
\* The upload it listens to is one of the file it is at; the files before that one
\* were received, and within the hour the receiver still knows; and the result it
\* returned is true.
Follows ==
  /\ listen # None => up[listen].st # "free" /\ up[listen].f = File
  /\ \A j \in 1 .. fi - 1 : kept[Order[j]] > 0
  /\ result = "ok" => \A f \in R!FilesOf(Id) : kept[f] > 0
  /\ hours = 0 =>
       /\ Id \notin cancelled => \A j \in 1 .. fi - 1 : Order[j] \in received[Id]
       /\ result = "ok" => Id \in completed
       /\ result = "cancelled" => Id \in cancelled
       /\ result = "rejected" => Id \in rejected

\* The receiver has the file the sender is at.
HasFile == File \in received'[Id] /\ kept'[File] > 0 /\ Id \notin cancelled'

\* What a step may mean to the sender: it goes on waiting or begins to, it fails, it
\* learns what the user decided, or it learns that the file is received.
Moves ==
  \/ /\ UNCHANGED <<fi, result>>
     /\ listen' # None => up'[listen'].st # "free" /\ up'[listen'].f = File
  \/ UNCHANGED fi /\ listen' = None /\ result' \in {"failed", "timeout", "notfound"}
  \/ UNCHANGED fi /\ listen' = None /\ result' = "cancelled" /\ Id \in cancelled'
  \/ UNCHANGED fi /\ listen' = None /\ result' = "rejected" /\ Id \in rejected'
  \/ fi = Len(Order) /\ UNCHANGED fi /\ listen' = None /\ result' = "ok" /\ HasFile
  \/ fi' = fi + 1 /\ listen' = None /\ UNCHANGED result /\ HasFile

\* Every such step leaves it with the truth.
LEMMA FollowsStep ==
  ASSUME TypeOK, TypeOK', Follows, Lasting, WithinTheHour', Moves
  PROVE  Follows'
<1>q. Len(Order) \in Nat /\ \A j \in 1 .. Len(Order) : Order[j] \in Files BY SenderAssumption
<1>r. kept \in [Files -> Nat] /\ kept' \in [Files -> Nat] BY DEF TypeOK, R!TypeOK
<1>s. fi \in 1 .. Len(Order) /\ fi' \in 1 .. Len(Order) BY DEF TypeOK
<1>t. /\ fi \in 1 .. Len(Order) /\ fi' \in 1 .. Len(Order) /\ Len(Order) \in Nat
      /\ kept \in [Files -> Nat] /\ kept' \in [Files -> Nat]
      /\ \A j \in 1 .. Len(Order) : Order[j] \in Files
  BY <1>q, <1>r, <1>s
<1>o. \A f \in R!FilesOf(Id) : f \in Files /\ \E j \in 1 .. Len(Order) : f = Order[j]
  BY SenderAssumption DEF R!FilesOf
<1>k. \A f \in Files : kept[f] > 0 => kept'[f] > 0 BY <1>t DEF Lasting
<1>l. listen' # None => up'[listen'].st # "free" /\ up'[listen'].f = Order[fi']
  BY DEF Moves, File
<1>b. \A j \in 1 .. fi - 1 :
        kept'[Order[j]] > 0 /\ (hours' = 0 /\ Id \notin cancelled' => Order[j] \in received'[Id])
  BY <1>t, <1>k DEF Follows, Lasting
<1>1. CASE UNCHANGED fi /\ result' \in {result, "failed", "timeout", "notfound"}
  <2>1. result' = "ok" => \A f \in R!FilesOf(Id)' : kept'[f] > 0
    BY <1>1, <1>o, <1>k DEF Follows, R!FilesOf
  <2>2. hours' = 0 => /\ result' = "ok" => Id \in completed'
                      /\ result' = "cancelled" => Id \in cancelled'
                      /\ result' = "rejected" => Id \in rejected'
    BY <1>1 DEF Follows, Lasting
  <2> QED BY <1>1, <1>l, <1>b, <2>1, <2>2 DEF Follows, File
<1>2. CASE UNCHANGED fi /\ result' = "cancelled" /\ Id \in cancelled'
  BY <1>2, <1>l, <1>b DEF Follows, File
<1>3. CASE UNCHANGED fi /\ result' = "rejected" /\ Id \in rejected'
  BY <1>3, <1>l, <1>b DEF Follows, File
<1>4. CASE HasFile
  <2>1. \A j \in 1 .. fi :
          kept'[Order[j]] > 0 /\ (hours' = 0 => Order[j] \in received'[Id])
    <3>1. \A j \in 1 .. fi : j \in 1 .. fi - 1 \/ j = fi BY <1>t
    <3> QED BY <1>4, <1>b, <3>1 DEF HasFile, File
  <2>2. CASE fi = Len(Order) /\ UNCHANGED fi /\ result' = "ok"
    <3>1. \A f \in R!FilesOf(Id) : kept'[f] > 0 /\ (hours' = 0 => f \in received'[Id])
      BY <1>o, <2>1, <2>2
    <3>2. hours' = 0 => Id \in completed'
      BY <1>4, <3>1 DEF HasFile, WithinTheHour, R!FilesOf
    <3> QED BY <1>l, <1>b, <2>2, <3>1, <3>2 DEF Follows, File, R!FilesOf
  <2>3. CASE fi' = fi + 1 /\ UNCHANGED result
    <3>1. fi' - 1 = fi BY <1>t, <2>3
    <3>2. result' = "ok" => \A f \in R!FilesOf(Id)' : kept'[f] > 0
      BY <2>3, <1>o, <1>k DEF Follows, R!FilesOf
    <3>3. hours' = 0 => /\ result' = "ok" => Id \in completed'
                        /\ result' = "cancelled" => Id \in cancelled'
                        /\ result' = "rejected" => Id \in rejected'
      BY <2>3 DEF Follows, Lasting
    <3> QED BY <1>l, <2>1, <3>1, <3>2, <3>3 DEF Follows, File
  <2>4. CASE UNCHANGED <<fi, result>> BY <1>1, <2>4
  <2>5. CASE UNCHANGED fi /\ result' \in {"failed", "timeout", "notfound", "cancelled", "rejected"}
    BY <1>1, <1>2, <1>3, <2>5 DEF Moves
  <2> QED BY <2>2, <2>3, <2>4, <2>5 DEF Moves
<1> QED BY <1>1, <1>2, <1>3, <1>4 DEF Moves

\* A step of the upload handler u that may end it with a reply: what 410 and 200 say is
\* true when they are said.
LEMMA ReplyMoves ==
  ASSUME TypeOK, Follows, NEW u \in Uploads, NEW code, Reply(u, code),
         NEW x, up' = [up EXCEPT ![u] = x],
         x # R!Free => x.st # "free" /\ x.f = up[u].f,
         code = "410" => Session[up[u].f] \in cancelled',
         code = "200" /\ x = R!Free => /\ up[u].f \in received'[Session[up[u].f]]
                                       /\ kept'[up[u].f] > 0
                                       /\ Session[up[u].f] \notin cancelled'
  PROVE  Moves
<1>u. up'[u] = x /\ \A v \in Uploads : v # u => up'[v] = up[v] BY DEF TypeOK, R!TypeOK
<1>t. listen \in Uploads \cup {None} BY DEF TypeOK
<1>1. CASE listen = u /\ x = R!Free
  <2>1. up[u].f = File /\ Session[File] = Id BY <1>1, FileIsOurs, SenderAssumption DEF Follows
  <2>2. Hears(u, code) BY <1>1, <1>u DEF Reply
  <2>3. CASE code = "200"
    <3>1. HasFile BY <1>1, <2>1, <2>3 DEF HasFile
    <3>2. FileSent(u) BY <2>2, <2>3 DEF Hears
    <3> QED BY <3>1, <3>2 DEF FileSent, Moves
  <2>4. CASE code = "410"
    <3>1. Return("cancelled") BY <2>2, <2>4 DEF Hears
    <3> QED BY <2>1, <2>4, <3>1 DEF Return, Moves
  <2>5. CASE code \notin {"200", "410"}
    <3>1. RetryFile \/ Return("failed") BY <2>2, <2>5 DEF Hears
    <3> QED BY <3>1 DEF RetryFile, Return, Moves
  <2> QED BY <2>3, <2>4, <2>5
<1>2. CASE listen = u /\ x # R!Free
  <2>1. UNCHANGED <<fi, listen, result>> BY <1>2, <1>u DEF Reply
  <2>2. x.st # "free" /\ x.f = up[u].f BY <1>2
  <2>3. up[u].f = File BY <1>2, SenderAssumption DEF Follows
  <2> QED BY <1>2, <1>u, <2>1, <2>2, <2>3 DEF Moves
<1>3. CASE listen # u
  <2>1. UNCHANGED <<fi, listen, result>> BY <1>3 DEF Reply
  <2> QED BY <1>3, <1>t, <1>u, <2>1 DEF Moves, Follows
<1> QED BY <1>1, <1>2, <1>3

\* The sender learns from the receiver only what holds there: the receiver answers under
\* the upload lock, where it looks for the receipt, or in the critical section in which
\* it writes it.
LEMMA MovesStep ==
  TypeOK /\ Apart /\ ReceiptsAreKept /\ Follows /\ [Next]_vars => Moves
<1> SUFFICES ASSUME TypeOK, Apart, ReceiptsAreKept, Follows, [Next]_vars PROVE Moves
  OBVIOUS
<1>t. /\ R!TypeOK /\ listen \in Uploads \cup {None}
      /\ spc = "sending" <=> listen # None
  BY DEF TypeOK
<1>s. ASSUME UNCHANGED <<fi, listen, result, up>> PROVE Moves BY <1>s DEF Moves, Follows
<1>n. ASSUME UNCHANGED <<fi, result>>, listen' = None PROVE Moves BY <1>n DEF Moves
<1>f. ASSUME NEW r \in {"failed", "timeout", "notfound"}, Return(r) PROVE Moves
  BY <1>f DEF Return, Moves
<1>r. ASSUME spc # "sending", RetryRequest PROVE Moves
  BY <1>r, <1>t, <1>f DEF RetryRequest, Moves
<1>w. ASSUME RetryFile PROVE Moves BY <1>w, <1>f DEF RetryFile, Moves
<1>1. CASE SenderNext
  <2>1. CASE StatusApproved
    BY <2>1, <1>t, <1>n DEF StatusApproved, Answered
  <2>2. CASE StatusRejected
    <3>1. CASE Id \in rejected
      BY <2>2, <3>1 DEF StatusRejected, Return, Moves, receiver
    <3>2. CASE Id \notin rejected BY <2>2, <3>2, <1>t, <1>n DEF StatusRejected
    <3> QED BY <3>1, <3>2
  <2>3. CASE StatusPending BY <2>3, <1>t, <1>n, <1>f DEF StatusPending
  <2>4. ASSUME NEW u \in Uploads, OpenUpload(u) PROVE Moves
    <3>1. up'[u] = [st |-> "queued", f |-> File, tok |-> tok, got |-> 0]
      BY <1>t, <2>4 DEF OpenUpload, R!TypeOK
    <3> QED BY <2>4, <3>1 DEF OpenUpload, Moves
  <2>5. ASSUME NEW u \in Uploads, Stream(u) PROVE Moves BY <2>5, <1>s DEF Stream, Emit, receiver
  <2>6. CASE BeginAttempt BY <2>6, <1>s DEF BeginAttempt, receiver
  <2> QED BY <1>1, <2>1, <2>2, <2>3, <2>4, <2>5, <2>6 DEF SenderNext
<1>2. CASE SendRequest \/ LateRequest BY <1>2, <1>s DEF SendRequest, LateRequest, R!Request
<1>3. CASE ApprovalTimeout \/ PollFails \/ OpenFails
  BY <1>3, <1>f DEF ApprovalTimeout, PollFails, OpenFails
<1>4. CASE RequestFails BY <1>4, <1>r DEF RequestFails
<1>5. CASE UploadFails BY <1>5, <1>w DEF UploadFails
<1>6. CASE RequestAnswer
  <2>1. CASE spc = "asked"
    <3>1. \/ Return("failed") \/ Answered(approved[Id]) \/ RetryRequest
          \/ Answered(approved'[Id]) \/ Answered(0)
      BY <1>6, <2>1 DEF RequestAnswer
    <3>2. ASSUME NEW x, Answered(x) PROVE Moves BY <3>2, <2>1, <1>t, <1>n DEF Answered
    <3> QED BY <2>1, <3>1, <3>2, <1>f, <1>r
  <2>2. CASE spc # "asked"
    BY <1>6, <1>s, <2>2 DEF RequestAnswer, R!RequestRefused, R!Registered
  <2> QED BY <2>1, <2>2
<1>7. CASE RequestDropped
  <2>1. CASE spc = "asked" BY <1>7, <1>r, <2>1 DEF RequestDropped
  <2>2. CASE spc # "asked" BY <1>7, <1>s, <2>2 DEF RequestDropped, R!RequestDropped
  <2> QED BY <2>1, <2>2
<1>8. ASSUME NEW u \in Uploads, UploadStep(u) \/ Broken(u) \/ Drop(u) \/ StreamOn(u) PROVE Moves
  <2>u. up[u].st # "free" => up[u].f \in Files /\ Session[up[u].f] \in Ids
    BY <1>t, ReceiverAssumption DEF R!TypeOK, R!Idle
  <2>x. ASSUME NEW code, Reply(u, code), R!Release(u),
               code = "410" => Session[up[u].f] \in cancelled',
               code = "200" => /\ up[u].f \in received'[Session[up[u].f]]
                               /\ kept'[up[u].f] > 0
                               /\ Session[up[u].f] \notin cancelled'
        PROVE  Moves
    BY <2>x, ReplyMoves DEF R!Release
  <2>y. ASSUME NEW code, Reply(u, code), NEW s \in {"checked", "body", "commit"},
               up' = [up EXCEPT ![u].st = s],
               code = "410" => Session[up[u].f] \in cancelled'
        PROVE  Moves
    <3>0. PICK x : x = [up[u] EXCEPT !.st = s] OBVIOUS
    <3>1. up[u] \in [st : R!Phases, f : Files \cup {None}, tok : 0 .. MaxTokens, got : Nat]
      BY <1>t DEF R!TypeOK
    <3>2. x.st = s /\ x.f = up[u].f BY <3>0, <3>1
    <3>3. x # R!Free BY <2>y, <3>2 DEF R!Free
    <3>4. up' = [up EXCEPT ![u] = x] BY <2>y, <3>0
    <3>5. x # R!Free => x.st # "free" /\ x.f = up[u].f BY <2>y, <3>2
    <3>6. code = "200" /\ x = R!Free => /\ up[u].f \in received'[Session[up[u].f]]
                                         /\ kept'[up[u].f] > 0
                                         /\ Session[up[u].f] \notin cancelled'
      BY <3>3
    <3>7. Reply(u, code) /\ (code = "410" => Session[up[u].f] \in cancelled') BY <2>y
    <3> QED BY <3>4, <3>5, <3>6, <3>7, ReplyMoves
  <2>1. CASE Lock(u)
    <3>1. PICK code : code = (IF Session[up[u].f] \in cancelled THEN "410" ELSE "401")
      OBVIOUS
    <3>2. Reply(u, code) /\ R!Lock(u) BY <2>1, <3>1 DEF Lock
    <3>3. code # "200" /\ (code = "410" => Session[up[u].f] \in cancelled')
      BY <3>1, <3>2 DEF R!Lock, R!tables
    <3>4. R!Release(u) \/ up' = [up EXCEPT ![u].st = "checked"] BY <3>2 DEF R!Lock
    <3> QED BY <3>2, <3>3, <3>4, <2>x, <2>y
  <2>2. CASE UploadEnds(u)
    <3>1. PICK code : code = (IF Session[up[u].f] \in pending THEN "200" ELSE "404")
      OBVIOUS
    <3>2. Reply(u, code) /\ R!UploadEnds(u) BY <2>2, <3>1 DEF UploadEnds
    <3>3. /\ R!Release(u) /\ UNCHANGED <<received, cancelled, kept>>
          /\ up[u].f \in Files /\ Session[up[u].f] \in Ids
          /\ Session[up[u].f] \notin pending \/ up[u].f \in received[Session[up[u].f]]
      BY <3>2, <2>u DEF R!UploadEnds, R!tables
    <3>4. code = "200" => /\ up[u].f \in received[Session[up[u].f]]
                          /\ kept[up[u].f] > 0
                          /\ Session[up[u].f] \notin cancelled
      BY <3>1, <3>3 DEF ReceiptsAreKept, Apart
    <3> QED BY <3>1, <3>2, <3>3, <3>4, <2>x
  <2>3. CASE Open(u)
    <3>1. R!Release(u) \/ up' = [up EXCEPT ![u].st = "body"] BY <2>3 DEF Open, R!Open
    <3> QED BY <2>3, <3>1, <2>x, <2>y DEF Open
  <2>4. CASE Block(u)
    <3>1. /\ UNCHANGED <<fi, listen, result>>
          /\ up' = [up EXCEPT ![u].got = @ + 1]
          /\ up[u].st = "body"
      BY <2>4 DEF Block, sender, R!Block
    <3>2. up[u] \in [st : R!Phases, f : Files \cup {None}, tok : 0 .. MaxTokens, got : Nat]
      BY <1>t DEF R!TypeOK
    <3>3. up'[u].st = up[u].st /\ up'[u].f = up[u].f BY <1>t, <3>1, <3>2 DEF R!TypeOK
    <3>4. \A v \in Uploads : up'[v].st = up[v].st /\ up'[v].f = up[v].f
      BY <1>t, <3>1, <3>3 DEF R!TypeOK
    <3> QED BY <1>t, <3>1, <3>4 DEF Moves, Follows
  <2>5. CASE TooLarge(u) BY <2>5, <2>x DEF TooLarge, R!Abort, R!Discard
  <2>6. CASE Broken(u) BY <2>6, <2>x DEF Broken, R!Abort, R!Discard
  <2>7. CASE Interrupted(u)
    <3>1. R!Release(u) /\ Reply(u, "410") /\ Session[up[u].f] \in cancelled'
      BY <2>7 DEF Interrupted, R!Interrupted, R!Discard
    <3> QED BY <3>1, <2>x
  <2>8. CASE BodyEnd(u)
    <3>1. R!Release(u) \/ up' = [up EXCEPT ![u].st = "commit"]
      BY <2>8 DEF BodyEnd, R!BodyEnd, R!Discard
    <3> QED BY <2>8, <3>1, <2>x, <2>y DEF BodyEnd
  <2>9. CASE Commit(u)
    <3>1. CASE R!CommitRefused(u) /\ Reply(u, "410")
      <4>1. R!Release(u) /\ Session[up[u].f] \in cancelled'
        BY <3>1 DEF R!CommitRefused, R!Discard
      <4> QED BY <3>1, <4>1, <2>x
    <3>2. CASE R!Commit(u) /\ Reply(u, "200")
      <4>1. PICK f \in Files, id \in Ids : f = up[u].f /\ id = Session[f]
        BY <3>2, <2>u DEF R!Commit
      <4>2. /\ R!Release(u) /\ id \notin cancelled /\ UNCHANGED cancelled
            /\ received' = [received EXCEPT ![id] = @ \cup {f}]
            /\ kept' = [kept EXCEPT ![f] = @ + 1]
        BY <3>2, <4>1 DEF R!Commit
      <4>3. received \in [Ids -> SUBSET Files] /\ kept \in [Files -> Nat] BY <1>t DEF R!TypeOK
      <4>4. f \in received'[id] /\ kept'[f] > 0 BY <4>2, <4>3
      <4> QED BY <3>2, <4>1, <4>2, <4>4, <2>x
    <3> QED BY <2>9, <3>1, <3>2 DEF Commit
  <2>10. CASE Drop(u)
    <3>1. CASE listen = u BY <2>10, <3>1, <1>w DEF Drop
    <3>2. CASE listen # u
      <4>1. UNCHANGED <<fi, listen, result>> /\ up' = [up EXCEPT ![u] = R!Free]
        BY <2>10, <3>2 DEF Drop, R!Drop, R!Release
      <4>2. listen # None => up'[listen] = up[listen] BY <1>t, <3>2, <4>1 DEF R!TypeOK
      <4> QED BY <4>1, <4>2 DEF Moves, Follows
    <3> QED BY <3>1, <3>2
  <2>11. CASE StreamOn(u) BY <2>11, <1>s DEF StreamOn, Emit, receiver
  <2> QED BY <1>8, <2>1, <2>2, <2>3, <2>4, <2>5, <2>6, <2>7, <2>8, <2>9, <2>10, <2>11 DEF UploadStep
<1>9. CASE \/ Stranger \/ Hour \/ SourceChanges \/ \E id \in Ids : Decide(id) \/ Expire(id)
  BY <1>9, <1>s DEF Stranger, Hour, SourceChanges, Decide, Expire, sender, receiver, R!Request,
                    R!Hour, R!Expire, R!accept_transfer, R!reject_transfer, R!cancel_transfer
<1>10. CASE UNCHANGED vars BY <1>10, <1>s DEF vars, sender, receiver
<1> QED BY <1>1, <1>2, <1>3, <1>4, <1>5, <1>6, <1>7, <1>8, <1>9, <1>10 DEF Next

-----------------------------------------------------------------------------
(***************************************************************************)
(* The sizes of the first files                                            *)
(***************************************************************************)
\* A set of naturals has a least element: induction, as an argument about the least
\* counterexample.
LEMMA LeastElement ==
  ASSUME NEW T \in SUBSET Nat, T # {}
  PROVE  \E n \in T : \A m \in T : n <= m
<1> DEFINE Less == {ss \in Nat \X Nat : ss[1] < ss[2]}
<1>1. IsWellFoundedOn(Less, Nat) BY NatLessThanWellFounded, Zenon DEF OpToRel
<1> HIDE DEF Less
<1>2. PICK n \in T : \A m \in T : ~(<<m, n>> \in Less) BY <1>1, WFMin
<1>3. ASSUME NEW m \in T PROVE n <= m
  <2>1. ASSUME NEW a \in Nat, NEW b \in Nat, a < b PROVE <<a, b>> \in Less BY <2>1 DEF Less
  <2>2. m \in Nat /\ n \in Nat OBVIOUS
  <2>3. ~(<<m, n>> \in Less) BY <1>2, Zenon
  <2>4. ~(m < n) BY <2>1, <2>2, <2>3, Zenon
  <2> QED BY <2>2, <2>4
<1> QED BY <1>2, <1>3

\* g[i] is the size of the first i files, for i up to n.
Sums(n, g) ==
  g = [i \in 0 .. n |-> IF i = 0 THEN 0 ELSE g[i - 1] + Size[Order[i]]]

\* There is such a function: one for n - 1 files is continued by one value.
LEMMA SizesExist == \A n \in 0 .. Len(Order) : \E g \in [0 .. n -> Nat] : Sums(n, g)
<1> DEFINE Bad == {n \in 0 .. Len(Order) : ~ \E g \in [0 .. n -> Nat] : Sums(n, g)}
<1>1. SUFFICES ASSUME Bad # {} PROVE FALSE OBVIOUS
<1>2. Bad \in SUBSET Nat BY ReceiverAssumption, SenderAssumption
<1>3. PICK n \in Bad : \A m \in Bad : n <= m BY <1>1, <1>2, LeastElement
<1>4. n \in 0 .. Len(Order) /\ Len(Order) \in Nat BY <1>3, ReceiverAssumption, SenderAssumption
<1>5. n # 0
  <2> DEFINE g == [i \in 0 .. 0 |-> 0]
  <2>1. g \in [0 .. 0 -> Nat] /\ Sums(0, g) BY DEF Sums
  <2> QED BY <1>3, <2>1
<1>6. n - 1 \in 0 .. Len(Order) /\ n - 1 \notin Bad
  <2> HIDE DEF Bad
  <2> QED BY <1>2, <1>3, <1>4, <1>5
<1>7. PICK g \in [0 .. n - 1 -> Nat] : Sums(n - 1, g) BY <1>6
<1> DEFINE h == [i \in 0 .. n |-> IF i = n THEN g[n - 1] + Size[Order[n]] ELSE g[i]]
<1>8. Size[Order[n]] \in Nat BY <1>4, <1>5, ReceiverAssumption, SenderAssumption
<1>9. h \in [0 .. n -> Nat] BY <1>4, <1>5, <1>8
<1>10. ASSUME NEW i \in 0 .. n PROVE h[i] = IF i = 0 THEN 0 ELSE h[i - 1] + Size[Order[i]]
  BY <1>4, <1>5, <1>7 DEF Sums
<1>11. Sums(n, h) BY <1>9, <1>10 DEF Sums
<1> QED BY <1>3, <1>9, <1>11

\* So the recursive definition means what it says.
LEMMA SizesDef ==
  /\ SizeUpTo \in [0 .. Len(Order) -> Nat]
  /\ SizeUpTo[0] = 0
  /\ \A n \in 1 .. Len(Order) : SizeUpTo[n] = SizeUpTo[n - 1] + Size[Order[n]]
<1>0. Len(Order) \in Nat BY ReceiverAssumption, SenderAssumption
<1>1. SizeUpTo = CHOOSE g : Sums(Len(Order), g) BY Zenon DEF SizeUpTo, Sums
<1>2. \E g : Sums(Len(Order), g) BY <1>0, SizesExist
<1>3. Sums(Len(Order), SizeUpTo) BY <1>1, <1>2
<1>4. SizeUpTo[0] = 0 BY <1>0, <1>3 DEF Sums
<1>5. ASSUME NEW n \in 1 .. Len(Order) PROVE SizeUpTo[n] = SizeUpTo[n - 1] + Size[Order[n]]
  BY <1>0, <1>3 DEF Sums
<1>6. SizeUpTo = [i \in 0 .. Len(Order) |-> SizeUpTo[i]] BY <1>3 DEF Sums
<1>7. \A n \in 0 .. Len(Order) : SizeUpTo[n] \in Nat
  <2> DEFINE Bad == {n \in 0 .. Len(Order) : SizeUpTo[n] \notin Nat}
  <2>1. SUFFICES ASSUME Bad # {} PROVE FALSE OBVIOUS
  <2>6. Bad \in SUBSET Nat BY <1>0
  <2>2. PICK n \in Bad : \A m \in Bad : n <= m
    <3> HIDE DEF Bad
    <3> QED BY <2>1, <2>6, LeastElement
  <2>3. n # 0 BY <1>4
  <2>4. n - 1 \in 0 .. Len(Order) /\ SizeUpTo[n - 1] \in Nat BY <2>2, <2>3, <1>0
  <2>5. Size[Order[n]] \in Nat BY <2>2, <2>3, <1>0, ReceiverAssumption, SenderAssumption
  <2> QED BY <2>2, <2>3, <2>4, <2>5, <1>5
<1> QED BY <1>4, <1>5, <1>6, <1>7

\* The first files are never more than all of them.
LEMMA SizesGrow == \A m \in 0 .. Len(Order) : SizeUpTo[m] <= SizeUpTo[Len(Order)]
<1>0. Len(Order) \in Nat BY ReceiverAssumption, SenderAssumption
<1> DEFINE Bad == {k \in 0 .. Len(Order) : ~(SizeUpTo[Len(Order) - k] <= SizeUpTo[Len(Order)])}
<1>1. ASSUME Bad # {} PROVE FALSE
  <2>1. Bad \in SUBSET Nat BY <1>0
  <2>2. PICK k \in Bad : \A m \in Bad : k <= m
    <3> HIDE DEF Bad
    <3> QED BY <1>1, <2>1, LeastElement
  <2>3. k # 0 BY <2>2, <1>0, SizesDef
  <2> DEFINE n == Len(Order) - k + 1
  <2>4. k - 1 \in 0 .. Len(Order) /\ SizeUpTo[Len(Order) - (k - 1)] <= SizeUpTo[Len(Order)]
     BY <2>2, <2>3, <1>0
  <2>5. n \in 1 .. Len(Order) /\ Size[Order[n]] \in Nat /\ n = Len(Order) - (k - 1) /\ n - 1 = Len(Order) - k
    BY <2>2, <2>3, <1>0, ReceiverAssumption, SenderAssumption
  <2> HIDE DEF n
  <2>6. /\ SizeUpTo[n] = SizeUpTo[n - 1] + Size[Order[n]]
        /\ SizeUpTo[n - 1] \in Nat /\ n - 1 \in 0 .. Len(Order)
    <3>1. n - 1 \in 0 .. Len(Order) BY <1>0, <2>5
    <3> QED BY <2>5, <3>1, SizesDef
  <2>7. SizeUpTo[Len(Order)] \in Nat BY <1>0, SizesDef
  <2> QED BY <2>2, <2>4, <2>5, <2>6, <2>7
<1>2. ASSUME NEW m \in 0 .. Len(Order) PROVE SizeUpTo[m] <= SizeUpTo[Len(Order)]
  <2>1. Len(Order) - m \in 0 .. Len(Order) /\ Len(Order) - (Len(Order) - m) = m BY <1>0
  <2> QED BY <1>1, <2>1
<1> QED BY <1>2
-----------------------------------------------------------------------------
(***************************************************************************)
(* The sender's progress                                                   *)
(***************************************************************************)
\* x is n, up to what was counted by bodies whose reply nobody awaited.
Around(x, n) == n <= x /\ x <= n + stray

\* Nothing of the file the sender is at is counted, or an attempt is to be taken back.
Settled == spc \notin {"sending", "done"} /\ (spc = "send" => attempt = 0)
Begun   == spc \in {"open", "sending"} \/ (spc = "send" /\ attempt # 0)

\* While the sources are what was announced, the sizes of the files before the one the
\* sender is at are counted when it begins that file, in the baseline and when an attempt
\* begins, and an attempt counts on top of that what it has handed out of the file.
Counts ==
  /\ grown = 0
  /\ Settled => Around(sent, SizeUpTo[fi - 1])
  /\ Begun => Around(base, SizeUpTo[fi - 1])
  /\ spc = "sending" => /\ Around(from, SizeUpTo[fi - 1])
                        /\ flow[listen].len = Size[File]
                        /\ flow[listen].out <= flow[listen].len
                        /\ sent <= SizeUpTo[fi - 1] + flow[listen].out + stray
  /\ result # "ok" => sent <= SizeUpTo[fi] + stray
  /\ result = "ok" => Around(sent, Total)

CountsIfUnchanged == changes = 0 => Counts

LEMMA SizeAtFile ==
  ASSUME TypeOK
  PROVE  /\ SizeUpTo[fi - 1] \in Nat /\ SizeUpTo[fi] \in Nat /\ Size[File] \in Nat /\ Total \in Nat
         /\ SizeUpTo[fi] = SizeUpTo[fi - 1] + Size[File]
<1>1. fi \in 1 .. Len(Order) /\ Len(Order) \in Nat BY SenderAssumption DEF TypeOK
<1>2. fi - 1 \in 0 .. Len(Order) /\ fi \in 0 .. Len(Order) /\ Len(Order) \in 0 .. Len(Order) BY <1>1
<1> QED BY <1>1, <1>2, SizesDef, FileIsOurs DEF File, Total

LEMMA CounterTypes ==
  ASSUME TypeOK
  PROVE  /\ sent \in Nat /\ base \in Nat /\ from \in Nat /\ stray \in Nat /\ attempt \in Nat
         /\ flow \in [Uploads -> [out : Nat, len : Nat]]
         /\ spc = "sending" => listen \in Uploads /\ listen # None /\ result = "none"
         /\ spc # "sending" => listen = None
         /\ spc # "done" => result = "none"
  BY SenderAssumption DEF TypeOK

LEMMA SameCounts == ASSUME Counts, UNCHANGED grown, Same PROVE Counts'
<1>1. UNCHANGED <<spc, attempt, fi, tok, sent, base, from, stray, listen, flow, result, grown>>
  BY DEF Same
<1> QED BY <1>1 DEF Counts, Settled, Begun, Around, File

LEMMA ReturnCounts ==
  ASSUME Counts, UNCHANGED grown, result = "none", NEW r \in Results \ {"ok"}, Return(r)
  PROVE  Counts'
  BY DEF Counts, Settled, Begun, Around, Return, File

\* Steps that move the sender between requests and polls, or on to the first attempt.
LEMMA WaitingCounts ==
  ASSUME Counts, UNCHANGED <<grown, fi, sent, base, stray, result>>, Settled, result = "none",
         spc' \notin {"open", "sending", "done"}, spc' = "send" => attempt' = 0
  PROVE  Counts'
  BY DEF Counts, Settled, Begun, Around

LEMMA RetryFileCounts ==
  ASSUME TypeOK, Counts, UNCHANGED grown, spc = "sending", RetryFile
  PROVE  Counts'
<1>0. result = "none" /\ attempt \in Nat BY CounterTypes
<1>1. CASE attempt = MaxRetries BY <1>0, <1>1, ReturnCounts DEF RetryFile, Results
<1>2. CASE attempt # MaxRetries
  <2>1. /\ spc' = "send" /\ attempt' # 0
        /\ UNCHANGED <<fi, sent, base, stray, result>>
    BY <1>0, <1>2 DEF RetryFile
  <2>2. Around(base, SizeUpTo[fi - 1]) BY DEF Counts, Begun
  <2> QED BY <1>0, <2>1, <2>2 DEF Counts, Settled, Begun, Around
<1> QED BY <1>1, <1>2

LEMMA RetryRequestCounts ==
  ASSUME TypeOK, Counts, UNCHANGED grown, spc \in {"request", "asked"}, RetryRequest
  PROVE  Counts'
<1>0. result = "none" /\ Settled BY CounterTypes DEF Settled
<1>1. CASE attempt = MaxRetries BY <1>0, <1>1, ReturnCounts DEF RetryRequest, Results
<1>2. CASE attempt # MaxRetries BY <1>0, <1>2, WaitingCounts DEF RetryRequest
<1> QED BY <1>1, <1>2

LEMMA AnsweredCounts ==
  ASSUME TypeOK, Counts, UNCHANGED grown, spc \in {"asked", "poll"}, NEW t, Answered(t)
  PROVE  Counts'
<1>0. result = "none" /\ Settled BY CounterTypes DEF Settled
<1> QED BY <1>0, WaitingCounts DEF Answered

\* The first attempt takes the counter for the baseline, another one the baseline for the
\* counter: what the failed attempt has counted is taken back.
LEMMA BeginCounts == ASSUME TypeOK, Counts, BeginAttempt PROVE Counts'
<1>1. /\ spc = "send" /\ spc' = "open" /\ result' = "none" /\ sent' = base'
      /\ UNCHANGED <<fi, stray, grown>> /\ base' = IF attempt = 0 THEN sent ELSE base
  BY CounterTypes DEF BeginAttempt, ambient
<1>2. Around(base', SizeUpTo[fi - 1]) BY <1>1 DEF Counts, Settled, Begun
<1>3. sent' <= SizeUpTo[fi] + stray BY <1>1, <1>2, CounterTypes, SizeAtFile DEF Around
<1>4. grown' = 0 BY <1>1 DEF Counts
<1> QED BY <1>1, <1>2, <1>3, <1>4 DEF Counts, Settled, Begun, Around

\* An attempt begins at the counter as it is.
LEMMA OpenCounts == ASSUME TypeOK, Counts, NEW u \in Uploads, OpenUpload(u) PROVE Counts'
<1>1. /\ spc = "open" /\ spc' = "sending" /\ listen' = u /\ from' = sent /\ result' = "none"
      /\ UNCHANGED <<fi, sent, base, stray, grown>>
  BY CounterTypes DEF OpenUpload, ambient
<1>2. Measured = Size[File] BY FileIsOurs DEF Measured, Counts
<1>3. flow'[u].len = Size[File] /\ flow'[u].out = 0 /\ File' = File
  BY <1>1, <1>2, CounterTypes DEF OpenUpload, File
<1>4. Around(sent, SizeUpTo[fi - 1]) /\ Around(base, SizeUpTo[fi - 1]) BY <1>1 DEF Counts, Settled, Begun
<1>5. sent <= SizeUpTo[fi - 1] + 0 + stray BY <1>4, CounterTypes, SizeAtFile DEF Around
<1>6. sent <= SizeUpTo[fi] + stray BY <1>1, CounterTypes DEF Counts
<1>7. flow'[u].out <= flow'[u].len BY <1>3, SizeAtFile
<1>8. grown' = 0 BY <1>1 DEF Counts
<1> QED BY <1>1, <1>3, <1>4, <1>5, <1>6, <1>7, <1>8 DEF Counts, Settled, Begun, Around

\* The body of the attempt hands out the next block of the file.
LEMMA StreamCounts == ASSUME TypeOK, Counts, NEW u \in Uploads, Stream(u) PROVE Counts'
<1>1. /\ listen = u /\ spc = "sending" /\ result = "none" /\ sent' = sent + 1
      /\ UNCHANGED <<spc, attempt, fi, base, from, stray, listen, result, grown>>
  BY CounterTypes, SenderAssumption DEF Stream, Emit, ambient
<1>2. /\ flow'[u].out = flow[u].out + 1 /\ flow'[u].len = flow[u].len
      /\ flow[u].out < flow[u].len /\ flow[u].out \in Nat /\ flow[u].len \in Nat
  BY CounterTypes DEF Stream, Emit
<1>3. flow[u].len = Size[File] /\ sent <= SizeUpTo[fi - 1] + flow[u].out + stray BY <1>1 DEF Counts
<1>4. sent' <= SizeUpTo[fi - 1] + flow'[u].out + stray BY <1>1, <1>2, <1>3, CounterTypes, SizeAtFile
<1>5. sent' <= SizeUpTo[fi] + stray BY <1>1, <1>2, <1>3, CounterTypes, SizeAtFile
<1>6. flow'[u].out <= flow'[u].len BY <1>2
<1>7. Around(from, SizeUpTo[fi - 1]) /\ Around(base, SizeUpTo[fi - 1]) /\ grown = 0
  BY <1>1 DEF Counts, Begun
<1>8. File' = File BY <1>1 DEF File
<1> QED BY <1>1, <1>2, <1>3, <1>4, <1>5, <1>6, <1>7, <1>8 DEF Counts, Settled, Begun, Around

\* Another body that is read on moves the counter and, with it, the bounds.
LEMMA StreamOnCounts == ASSUME TypeOK, Counts, NEW u \in Uploads, StreamOn(u) PROVE Counts'
<1>1. /\ sent' = sent + 1 /\ stray' = stray + 1 /\ listen # u
      /\ UNCHANGED <<spc, attempt, fi, base, from, listen, result, grown>>
  BY DEF StreamOn, Emit, ambient
<1>t. /\ sent \in Nat /\ base \in Nat /\ from \in Nat /\ stray \in Nat
      /\ SizeUpTo[fi - 1] \in Nat /\ SizeUpTo[fi] \in Nat /\ Total \in Nat
  BY CounterTypes, SizeAtFile
<1>2. grown' = 0 BY <1>1 DEF Counts
<1>3. Settled' => Around(sent, SizeUpTo[fi - 1])' BY <1>1, <1>t DEF Counts, Settled, Around
<1>4. Begun' => Around(base, SizeUpTo[fi - 1])' BY <1>1, <1>t DEF Counts, Begun, Around
<1>5. ASSUME spc = "sending"
      PROVE  /\ Around(from, SizeUpTo[fi - 1])' /\ flow'[listen].len = Size[File]
             /\ flow'[listen].out <= flow'[listen].len
             /\ sent' <= SizeUpTo[fi - 1] + flow'[listen].out + stray'
  <2>1. flow'[listen] = flow[listen] /\ flow[listen].out \in Nat
    BY <1>1, <1>5, CounterTypes DEF StreamOn, Emit
  <2>2. /\ Around(from, SizeUpTo[fi - 1]) /\ flow[listen].len = Size[File]
        /\ flow[listen].out <= flow[listen].len
        /\ sent <= SizeUpTo[fi - 1] + flow[listen].out + stray
    BY <1>5 DEF Counts
  <2>3. Around(from, SizeUpTo[fi - 1])' BY <1>1, <1>t, <2>2 DEF Around
  <2>4. sent' <= SizeUpTo[fi - 1] + flow'[listen].out + stray' BY <1>1, <1>t, <2>1, <2>2
  <2> QED BY <2>1, <2>2, <2>3, <2>4
<1>6. result' # "ok" => sent' <= SizeUpTo[fi'] + stray' BY <1>1, <1>t DEF Counts
<1>7. result' = "ok" => Around(sent, Total)' BY <1>1, <1>t DEF Counts, Around, Total
<1>8. File' = File BY <1>1 DEF File
<1> QED BY <1>1, <1>2, <1>3, <1>4, <1>5, <1>6, <1>7, <1>8 DEF Counts

\* A file that is done counts with its size, and with the last one that is the total.
LEMMA FileSentCounts ==
  ASSUME TypeOK, Counts, UNCHANGED grown, NEW u \in Uploads, listen = u, spc = "sending", FileSent(u)
  PROVE  Counts'
<1>0. result = "none" BY CounterTypes
<1>1. stray' = stray /\ Around(sent', SizeUpTo[fi])
  <2>1. sent' = from + flow[u].len /\ stray' = stray BY DEF FileSent
  <2>2. Around(from, SizeUpTo[fi - 1]) /\ flow[u].len = Size[File] BY DEF Counts
  <2> QED BY <2>1, <2>2, CounterTypes, SizeAtFile DEF Around
<1>g. grown' = 0 BY DEF Counts
<1>2. CASE fi = Len(Order)
  <2>1. spc' = "done" /\ result' = "ok" BY <1>2 DEF FileSent
  <2> QED BY <1>1, <1>2, <1>g, <2>1 DEF Counts, Settled, Begun, Around, Total
<1>3. CASE fi # Len(Order)
  <2>1. fi' = fi + 1 /\ spc' = "send" /\ attempt' = 0 /\ result' = "none" BY <1>0, <1>3 DEF FileSent
  <2>2. fi \in 1 .. Len(Order) /\ Len(Order) \in Nat BY SenderAssumption DEF TypeOK
  <2>3. fi' - 1 = fi /\ fi' \in 1 .. Len(Order) BY <1>3, <2>1, <2>2
  <2>4. Size[Order[fi']] \in Nat BY <2>3, ReceiverAssumption, SenderAssumption
  <2>5. SizeUpTo[fi'] = SizeUpTo[fi] + Size[Order[fi']] BY <2>3, SizesDef
  <2>6. SizeUpTo[fi] \in Nat /\ stray \in Nat /\ sent' \in Nat
    BY SizeAtFile, CounterTypes DEF FileSent
  <2>7. sent' <= SizeUpTo[fi'] + stray BY <1>1, <2>4, <2>5, <2>6 DEF Around
  <2> QED BY <1>1, <1>g, <2>1, <2>3, <2>7 DEF Counts, Settled, Begun, Around
<1> QED BY <1>2, <1>3

LEMMA ReplyCounts ==
  ASSUME TypeOK, Counts, UNCHANGED grown, NEW u \in Uploads, NEW code, Reply(u, code)
  PROVE  Counts'
<1>1. CASE listen = u /\ up'[u] = R!Free
  <2>1. spc = "sending" /\ result = "none" BY <1>1, SenderAssumption DEF TypeOK
  <2>2. Hears(u, code) BY <1>1 DEF Reply
  <2>3. \/ FileSent(u) \/ Return("cancelled") \/ RetryFile \/ Return("failed")
    BY <2>2 DEF Hears
  <2> QED BY <1>1, <2>1, <2>3, FileSentCounts, ReturnCounts, RetryFileCounts DEF Results
<1>2. CASE ~(listen = u /\ up'[u] = R!Free) BY <1>2, SameCounts DEF Reply, Same
<1> QED BY <1>1, <1>2

\* Every action keeps the count, and a change of the sources ends the claim.
LEMMA CountsStep == TypeOK /\ CountsIfUnchanged /\ [Next]_vars => CountsIfUnchanged'
<1> SUFFICES ASSUME TypeOK, CountsIfUnchanged, [Next]_vars, changes' = 0 PROVE Counts'
  BY DEF CountsIfUnchanged
<1> USE DEF ambient, sender
<1>d. result # "none" <=> spc = "done" BY DEF TypeOK
<1>l. spc = "sending" <=> listen # None BY DEF TypeOK
<1>0. ~SourceChanges BY SenderAssumption DEF SourceChanges, TypeOK
<1>g. ASSUME UNCHANGED <<grown, changes>>, Counts => Counts' PROVE Counts'
  BY <1>g DEF CountsIfUnchanged
<1>s. ASSUME UNCHANGED <<grown, changes>>,
             UNCHANGED <<spc, attempt, fi, tok, sent, base, from, stray, listen, flow, result>>
      PROVE  Counts'
  BY <1>s, <1>g, SameCounts DEF Same
<1>r. ASSUME UNCHANGED <<grown, changes>>, spc # "done", NEW r \in Results \ {"ok"}, Return(r)
      PROVE  Counts'
  BY <1>r, <1>d, <1>g, ReturnCounts
<1>1. CASE SenderNext
  <2>g. UNCHANGED <<grown, changes>>
    BY <1>1 DEF SenderNext, StatusApproved, StatusRejected, StatusPending, BeginAttempt, OpenUpload,
                Stream, Emit
  <2>c. Counts BY <2>g DEF CountsIfUnchanged
  <2>w. ASSUME spc \in {"poll", "pollRejected", "pollPending"},
               spc' \in {"poll", "pollRejected", "pollPending"},
               UNCHANGED <<fi, sent, base, stray, result>>
        PROVE  Counts'
    BY <1>d, <2>c, <2>g, <2>w, WaitingCounts DEF Settled
  <2>1. CASE StatusApproved
    <3>1. CASE approved[Id] # 0 BY <2>g, <2>c, <2>1, <3>1, AnsweredCounts DEF StatusApproved
    <3>2. CASE approved[Id] = 0 BY <2>w, <2>1, <3>2 DEF StatusApproved
    <3> QED BY <3>1, <3>2
  <2>2. CASE StatusRejected
    <3>1. CASE Id \in rejected BY <1>r, <2>g, <2>2, <3>1 DEF StatusRejected, Results
    <3>2. CASE Id \notin rejected BY <2>w, <2>2, <3>2 DEF StatusRejected
    <3> QED BY <3>1, <3>2
  <2>3. CASE StatusPending
    <3>1. CASE Id \notin pending BY <1>r, <2>g, <2>3, <3>1 DEF StatusPending, Results
    <3>2. CASE Id \in pending BY <2>w, <2>3, <3>2 DEF StatusPending
    <3> QED BY <3>1, <3>2
  <2>4. CASE BeginAttempt BY <2>c, <2>4, BeginCounts
  <2>5. ASSUME NEW u \in Uploads, OpenUpload(u) \/ Stream(u) PROVE Counts'
    BY <2>c, <2>5, OpenCounts, StreamCounts
  <2> QED BY <1>1, <2>1, <2>2, <2>3, <2>4, <2>5 DEF SenderNext
<1>2. CASE SendRequest
  <2>1. Counts BY <1>2 DEF SendRequest, CountsIfUnchanged
  <2> QED BY <1>d, <1>2, <2>1, WaitingCounts DEF SendRequest, Settled
<1>3. CASE ApprovalTimeout \/ PollFails \/ OpenFails
  BY <1>r, <1>3 DEF ApprovalTimeout, PollFails, OpenFails, Results
<1>4. CASE RequestFails BY <1>g, <1>4, RetryRequestCounts DEF RequestFails
<1>5. CASE UploadFails BY <1>g, <1>5, RetryFileCounts DEF UploadFails
<1>6. CASE RequestAnswer
  <2>g. UNCHANGED <<grown, changes>> BY <1>6 DEF RequestAnswer
  <2>1. CASE spc = "asked"
    <3>1. \/ Return("failed") \/ Answered(approved[Id]) \/ RetryRequest
          \/ Answered(approved'[Id]) \/ Answered(0)
      BY <1>6, <2>1 DEF RequestAnswer
    <3>2. PICK t : t = approved'[Id] OBVIOUS
    <3>3. ASSUME NEW x, Answered(x) PROVE Counts' BY <1>g, <2>g, <2>1, <3>3, AnsweredCounts
    <3> QED BY <1>r, <1>g, <2>g, <2>1, <3>1, <3>2, <3>3, RetryRequestCounts DEF Results
  <2>2. CASE spc # "asked" BY <1>6, <1>s, <2>g, <2>2 DEF RequestAnswer
  <2> QED BY <2>1, <2>2
<1>7. CASE RequestDropped
  <2>1. CASE spc = "asked" BY <1>g, <1>7, <2>1, RetryRequestCounts DEF RequestDropped
  <2>2. CASE spc # "asked" BY <1>7, <1>s, <2>2 DEF RequestDropped
  <2> QED BY <2>1, <2>2
<1>8. ASSUME NEW u \in Uploads, UploadStep(u) \/ Broken(u) \/ Drop(u) \/ StreamOn(u)
      PROVE  Counts'
  <2>1. ASSUME NEW code, Reply(u, code), UNCHANGED <<grown, changes>> PROVE Counts'
    BY <1>g, <2>1, ReplyCounts
  <2>2. CASE \/ Lock(u) \/ UploadEnds(u) \/ Open(u) \/ TooLarge(u) \/ Interrupted(u) \/ BodyEnd(u)
             \/ Commit(u) \/ Broken(u)
    BY <2>1, <2>2 DEF Lock, UploadEnds, Open, TooLarge, Interrupted, BodyEnd, Commit, Broken
  <2>3. CASE Block(u) BY <1>s, <2>3 DEF Block
  <2>4. CASE Drop(u)
    <3>1. CASE listen = u BY <1>g, <1>l, <2>4, <3>1, SenderAssumption, RetryFileCounts DEF Drop
    <3>2. CASE listen # u BY <1>s, <2>4, <3>2 DEF Drop
    <3> QED BY <3>1, <3>2
  <2>5. CASE StreamOn(u)
    <3>1. UNCHANGED <<grown, changes>> BY <2>5 DEF StreamOn, Emit
    <3> QED BY <1>g, <2>5, <3>1, StreamOnCounts
  <2> QED BY <1>8, <2>2, <2>3, <2>4, <2>5 DEF UploadStep
<1>9. CASE LateRequest \/ Stranger \/ Hour \/ \E id \in Ids : Decide(id) \/ Expire(id)
  BY <1>9, <1>s DEF LateRequest, Stranger, Hour, Decide, Expire
<1>10. CASE UNCHANGED vars BY <1>10, <1>s DEF vars
<1> QED BY <1>0, <1>1, <1>2, <1>3, <1>4, <1>5, <1>6, <1>7, <1>8, <1>9, <1>10 DEF Next

-----------------------------------------------------------------------------
\* The inductive invariant.
Inv == TypeOK /\ Apart /\ TakesTurns /\ NotYetReceived /\ ReceiptsAreKept
       /\ WithinTheHour /\ Follows

LEMMA InitInv == Init => Inv
<1> SUFFICES ASSUME Init PROVE Inv OBVIOUS
<1> USE ReceiverAssumption, SenderAssumption DEF Init, R!Init
<1>1. TypeOK
  <2>1. R!TypeOK BY DEF R!TypeOK, R!Idle, R!Free, R!Phases
  <2>2. 1 \in 1 .. Len(Order) BY SMT
  <2>3. flow \in [Uploads -> [out : Nat, len : Nat]] BY DEF NoFlow
  <2>4. /\ attempt \in 0 .. MaxRetries /\ tok \in 0 .. MaxTokens /\ faults \in 0 .. MaxFaults
        /\ changes \in 0 .. MaxChanges /\ hours \in 0 .. MaxHours
    BY SMT
  <2> QED BY <2>1, <2>2, <2>3, <2>4 DEF TypeOK, Steps, Results
<1>2. Apart BY DEF Apart
<1>3. TakesTurns /\ NotYetReceived BY DEF TakesTurns, NotYetReceived, R!Free, R!Locked
<1>4. ReceiptsAreKept BY DEF ReceiptsAreKept
<1>5. WithinTheHour
  <2>1. Order[1] \in R!FilesOf(Id)
    <3>1. 1 \in 1 .. Len(Order) /\ Order[1] \in Files BY SMT
    <3> QED BY <3>1 DEF R!FilesOf
  <2> QED BY <2>1 DEF WithinTheHour, R!FilesOf
<1>6. Follows BY DEF Follows
<1> QED BY <1>1, <1>2, <1>3, <1>4, <1>5, <1>6 DEF Inv

LEMMA NextInv == Inv /\ [Next]_vars => Inv'
<1> SUFFICES ASSUME Inv, [Next]_vars PROVE Inv' OBVIOUS
<1>1. ReceiverStep BY StepOfReceiver
<1>2. TypeOK'
  <2>1. R!TypeOK' BY <1>1, TypeStep DEF Inv
  <2>2. SenderOK' BY <2>1, SenderStep DEF Inv
  <2>3. AmbientOK' BY AmbientStep DEF Inv
  <2> QED BY <2>1, <2>2, <2>3 DEF TypeOK, SenderOK, AmbientOK
<1>3. Apart' BY <1>1, TablesStep DEF Inv
<1>4. TakesTurns' BY <1>1, TurnsStep DEF Inv
<1>5. NotYetReceived' BY <1>1, ReceiptStep DEF Inv
<1>6. ReceiptsAreKept' BY <1>1, KeptStep DEF Inv
<1>7. WithinTheHour' BY <1>1, HourStep DEF Inv
<1>8. Follows' BY <1>1, <1>2, <1>7, LastingStep, MovesStep, FollowsStep DEF Inv
<1> QED BY <1>2, <1>3, <1>4, <1>5, <1>6, <1>7, <1>8 DEF Inv

\* The inductive invariant holds in every state of sender and receiver.
THEOREM Invariance == Spec => []Inv
  BY InitInv, NextInv, PTL DEF Spec

\* Sender and receiver keep their types: attempts stay within max_retries, and the sender
\* waits for a reply exactly while it sends.
THEOREM TypeCorrect == Spec => []TypeOK
<1>1. Inv => TypeOK BY DEF Inv
<1> QED BY <1>1, Invariance, PTL

\* send_files tells the truth: Ok means that every file is in the download directory,
\* within the hour exactly once and in a transfer that the receiver knows to be complete,
\* and it ends as cancelled or rejected only if the receiver's user did that - for any
\* number of retries, requests and uploads left behind, and concurrent handlers.
THEOREM HonestOutcomes == Spec => []OutcomesAreHonest
<1>1. Inv => OutcomesAreHonest
  <2> SUFFICES ASSUME Inv PROVE OutcomesAreHonest OBVIOUS
  <2>1. \A f \in R!FilesOf(Id) : kept[f] \in Nat BY DEF Inv, TypeOK, R!TypeOK, R!FilesOf
  <2>2. hours = 0 /\ result = "ok" => \A f \in R!FilesOf(Id) : kept[f] = 1
    BY <2>1 DEF Inv, Follows, WithinTheHour
  <2> QED BY <2>2 DEF Inv, Follows, OutcomesAreHonest
<1> QED BY <1>1, Invariance, PTL

\* bytes_sent_so_far never exceeds the total and a success ends there or beyond, up to what
\* bodies whose reply nobody awaited have gone on counting, for any files and any number of
\* failed attempts, replies that came before the end of the body and uploads left behind:
\* the count of an attempt that failed is taken back before the next one begins, and what
\* such a body counts enters a baseline, and with it the next files, once.
THEOREM TrueProgress == Spec => []ProgressIsTrue
<1>1. Init => CountsIfUnchanged
  <2> SUFFICES ASSUME Init PROVE Counts BY DEF CountsIfUnchanged
  <2>1. Len(Order) \in Nat /\ 1 \in 1 .. Len(Order) BY SenderAssumption
  <2>2. SizeUpTo[0] = 0 /\ SizeUpTo[1] \in Nat BY <2>1, SizesDef
  <2> QED BY <2>2 DEF Init, Counts, Settled, Begun, Around
<1>2. Inv /\ CountsIfUnchanged /\ [Next]_vars => CountsIfUnchanged' BY CountsStep DEF Inv
<1>3. Inv /\ CountsIfUnchanged => ProgressIsTrue
  <2> SUFFICES ASSUME Inv, Counts PROVE sent <= Total + stray /\ (result = "ok" => sent >= Total)
    BY DEF CountsIfUnchanged, ProgressIsTrue
  <2>0. TypeOK BY DEF Inv
  <2>1. fi \in 0 .. Len(Order) /\ sent \in Nat /\ stray \in Nat
    BY <2>0, SenderAssumption DEF TypeOK
  <2>2. SizeUpTo[fi] <= Total /\ SizeUpTo[fi] \in Nat /\ Total \in Nat
    BY <2>0, <2>1, SizesGrow, SizeAtFile DEF Total
  <2> QED BY <2>1, <2>2 DEF Counts, Around
<1> QED BY <1>1, <1>2, <1>3, Invariance, PTL DEF Spec

=============================================================================
