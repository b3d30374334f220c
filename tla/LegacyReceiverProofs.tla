------------------------ MODULE LegacyReceiverProofs ------------------------
(***************************************************************************)
(* Proofs about the v1 receiver, for any transfers, sizes, limits and      *)
(* numbers of concurrent uploads.                                          *)
(***************************************************************************)
EXTENDS LegacyReceiver, FiniteSetTheorems, TLAPS

\* Uploads of one transfer hold its lock one at a time.
TakesTurns ==
  \A u, v \in Uploads : /\ u # v
                        /\ up[u].st \in Locked /\ up[v].st \in Locked
                        => Session[up[u].f] # Session[up[v].f]

\* A file being received has no receipt yet.
NotYetReceived ==
  \A u \in Uploads : up[u].st \in {"body", "commit"} => up[u].f \notin received[Session[up[u].f]]

\* A request takes a listed transfer from the tables in their order, and nobody enters
\* it again meanwhile.
RemovalInOrder ==
  deciding # None =>
    /\ deciding.at = 1 <=> deciding.now = None
    /\ deciding.now # None => deciding.now \in deciding.rest
    /\ deciding.at > 1 => deciding.now \notin pending
    /\ deciding.at > 2 => approved[deciding.now] = 0
    /\ deciding.at > 4 => deciding.now \notin cancelled

Deciders == [id : Ids, rest : SUBSET Ids, now : Ids \cup {None}, at : 1 .. 8]

\* What a step of the removal of id makes of the request.
LEMMA RemovalMoves ==
  ASSUME TypeOK, NEW id \in Ids, Expire(id)
  PROVE  /\ deciding \in Deciders /\ deciding' \in Deciders /\ deciding' # None /\ id # None
         /\ id \in deciding.rest /\ deciding.now \in {None, id}
         /\ deciding.at = 8 => deciding'.now = None /\ deciding'.at = 1
         /\ deciding.at # 8 => deciding'.now = id /\ deciding'.at = deciding.at + 1
         /\ deciding.at # 8 => deciding'.rest = deciding.rest
<1>1. deciding \in Deciders /\ id \in deciding.rest /\ deciding.now \in {None, id}
  BY DEF TypeOK, Expire, Deciders
<1>2. id # None /\ None \notin Deciders BY LegacyAssumption DEF Deciders
<1>3. CASE deciding.at = 8
  <2>1. deciding' = [deciding EXCEPT !.rest = deciding.rest \ {id}, !.now = None, !.at = 1]
    BY <1>3 DEF Expire
  <2>2. deciding.rest \ {id} \in SUBSET Ids BY <1>1 DEF Deciders
  <2>3. /\ deciding' = [id |-> deciding.id, rest |-> deciding.rest \ {id}, now |-> None, at |-> 1]
        /\ deciding.id \in Ids
    BY <1>1, <2>1 DEF Deciders
  <2>4. deciding' \in Deciders BY <2>2, <2>3 DEF Deciders
  <2>5. deciding'.now = None /\ deciding'.at = 1 BY <2>3
  <2> QED BY <1>1, <1>2, <1>3, <2>4, <2>5
<1>4. CASE deciding.at # 8
  <2>1. deciding' = [deciding EXCEPT !.now = id, !.at = deciding.at + 1] BY <1>4 DEF Expire
  <2>2. deciding.at + 1 \in 1 .. 8 BY <1>1, <1>4 DEF Deciders
  <2> QED BY <1>1, <1>2, <1>4, <2>1, <2>2 DEF Deciders
<1> QED BY <1>1, <1>2, <1>3, <1>4

\* Every table and handler stays in its set.
LEMMA TypeStep == TypeOK /\ [Next]_vars => TypeOK'
<1> SUFFICES ASSUME TypeOK, [Next]_vars PROVE TypeOK' OBVIOUS
<1> USE LegacyAssumption DEF TypeOK, vars, tables, Phases, Idle, Free, Locked
<1>1. ASSUME NEW id \in Ids, DecisionStep(id) PROVE TypeOK'
  <2>1. CASE Hour(id) BY <2>1 DEF Hour
  <2>2. CASE Request(id)
    BY <2>2 DEF Request, Expired
  <2>3. CASE Expire(id)
    <3>2. deciding' \in Deciders BY <2>3, RemovalMoves
    <3>3. /\ pending' \subseteq Ids /\ rejected' \subseteq Ids /\ cancelled' \subseteq Ids
          /\ completed' \subseteq Ids /\ torn' \subseteq Ids
      BY <2>3 DEF Expire
    <3>4. /\ approved' \in [Ids -> 0 .. MaxTokens] /\ received' \in [Ids -> SUBSET Files]
          /\ bytes' \in [Ids -> Nat \cup {None}] /\ activity' \in [Ids -> {"none", "recent", "idle"}]
      BY <2>3 DEF Expire
    <3> QED BY <2>3, <3>2, <3>3, <3>4 DEF Expire, Deciders
  <2>4. CASE accept_transfer(id) BY <2>4 DEF accept_transfer, Approve
  <2>5. CASE reject_transfer(id) BY <2>5 DEF reject_transfer
  <2>6. CASE cancel_transfer(id) BY <2>6 DEF cancel_transfer
  <2> QED BY <1>1, <2>1, <2>2, <2>3, <2>4, <2>5, <2>6 DEF DecisionStep
<1>2. CASE RequestRefused BY <1>2 DEF RequestRefused
<1>6. CASE RequestDropped BY <1>6 DEF RequestDropped
<1>3. ASSUME NEW trusted \in BOOLEAN, Registered(trusted) PROVE TypeOK'
  BY <1>3 DEF Registered, Approve, Known
<1>4. ASSUME NEW u \in Uploads, UploadStep(u) PROVE TypeOK'
  <2>1. ASSUME NEW f \in Files, Upload(u, f) PROVE TypeOK' BY <2>1 DEF Upload
  <2>2. CASE Lock(u)
    <3>1. CASE up' = [up EXCEPT ![u].st = "checked"]
      <4>1. up' \in [Uploads -> [st : Phases, f : Files \cup {None}, tok : 0 .. MaxTokens, got : Nat]]
        BY <2>2, <3>1 DEF Lock
      <4>2. \A v \in Uploads : ~Idle(v)' => up'[v].f \in Files /\ up'[v].got <= Size[up'[v].f]
        BY <2>2, <3>1 DEF Lock
      <4> QED BY <2>2, <3>1, <4>1, <4>2 DEF Lock, Release
    <3>2. CASE Release(u) BY <2>2, <3>2 DEF Lock, Release
    <3> QED BY <2>2, <3>1, <3>2 DEF Lock
  <2>3. CASE UploadEnds(u) BY <2>3 DEF UploadEnds, Release
  <2>4. CASE Open(u)
    <3>1. CASE up' = [up EXCEPT ![u].st = "body"]
      <4>1. up' \in [Uploads -> [st : Phases, f : Files \cup {None}, tok : 0 .. MaxTokens, got : Nat]]
        BY <2>4, <3>1 DEF Open
      <4>2. \A v \in Uploads : ~Idle(v)' => up'[v].f \in Files /\ up'[v].got <= Size[up'[v].f]
        BY <2>4, <3>1 DEF Open
      <4> QED BY <2>4, <3>1, <4>1, <4>2 DEF Open, Touch, Release
    <3>2. CASE Release(u) BY <2>4, <3>2 DEF Open, Touch, Release
    <3> QED BY <2>4, <3>1, <3>2 DEF Open
  <2>5. CASE Block(u)
    <3> DEFINE r == [up[u] EXCEPT !.got = @ + 1]
               R == [st : Phases, f : Files \cup {None}, tok : 0 .. MaxTokens, got : Nat]
    <3>1. up[u].got + 1 \in Nat BY <2>5
    <3>5. r \in R BY <3>1
    <3>6. up' = [up EXCEPT ![u] = r] BY <2>5 DEF Block
    <3> HIDE DEF r
    <3>4. up' \in [Uploads -> R] BY <3>5, <3>6
    <3>2. \A v \in Uploads : ~Idle(v)' => up'[v].f \in Files /\ up'[v].got <= Size[up'[v].f]
      BY <2>5 DEF Block
    <3>3. bytes' \in [Ids -> Nat \cup {None}] BY <2>5 DEF Block
    <3> QED BY <2>5, <3>4, <3>2, <3>3 DEF Block
  <2>6. CASE Abort(u) BY <2>6 DEF Abort, Discard, Release, rollback_file_bytes
  <2>7. CASE Interrupted(u) BY <2>7 DEF Interrupted, Discard, Release, rollback_file_bytes
  <2>8. CASE BodyEnd(u)
    <3>1. CASE up[u].got = Size[up[u].f] /\ up' = [up EXCEPT ![u].st = "commit"]
      <4>1. up' \in [Uploads -> [st : Phases, f : Files \cup {None}, tok : 0 .. MaxTokens, got : Nat]]
        BY <2>8, <3>1 DEF BodyEnd
      <4>2. \A v \in Uploads : ~Idle(v)' => up'[v].f \in Files /\ up'[v].got <= Size[up'[v].f]
        BY <2>8, <3>1 DEF BodyEnd
      <4> QED BY <2>8, <3>1, <4>1, <4>2 DEF BodyEnd, Discard, Release, rollback_file_bytes
    <3>2. CASE Discard(u) /\ UNCHANGED activity
      BY <2>8, <3>2 DEF BodyEnd, Discard, Release, rollback_file_bytes
    <3> QED BY <2>8, <3>1, <3>2 DEF BodyEnd
  <2>9. CASE CommitRefused(u) BY <2>9 DEF CommitRefused, Discard, Release, rollback_file_bytes, Touch
  <2>10. CASE Commit(u)
    <3> DEFINE f == up[u].f  id == Session[f]
    <3>1. f \in Files /\ id \in Ids BY <2>10 DEF Commit
    <3>2. received' \in [Ids -> SUBSET Files] BY <2>10, <3>1 DEF Commit
    <3>3. completed' \subseteq Ids BY <2>10, <3>1 DEF Commit
    <3>4. history' \in [Ids -> [{"Completed", "Failed"} -> Nat]]
      <4> DEFINE h == [history[id] EXCEPT !["Completed"] = @ + 1]
      <4>1. history' \in {history, [history EXCEPT ![id] = h]} BY <2>10 DEF Commit
      <4>2. h \in [{"Completed", "Failed"} -> Nat] BY <3>1
      <4> HIDE DEF h
      <4> QED BY <3>1, <4>1, <4>2
    <3>5. bytes' \in [Ids -> Nat \cup {None}]
      <4>1. bytes' \in {bytes, [bytes EXCEPT ![id] = None]} BY <2>10 DEF Commit
      <4> QED BY <3>1, <4>1
    <3>6. kept' \in [Files -> Nat]
      <4>1. kept' = [kept EXCEPT ![f] = @ + 1] BY <2>10 DEF Commit
      <4> QED BY <3>1, <4>1
    <3>7. activity' \in [Ids -> {"none", "recent", "idle"}] BY <2>10, <3>1 DEF Commit, Touch
    <3>8. Release(u) /\ UNCHANGED <<pending, rejected, cancelled, approved, tokens, deciding, drops, torn>>
      BY <2>10 DEF Commit
    <3> HIDE DEF f, id
    <3> QED BY <3>2, <3>3, <3>4, <3>5, <3>6, <3>7, <3>8 DEF Release
  <2>11. CASE Drop(u) BY <2>11 DEF Drop, Release
  <2> QED BY <1>4, <2>1, <2>2, <2>3, <2>4, <2>5, <2>6, <2>7, <2>8, <2>9, <2>10, <2>11 DEF UploadStep
<1>5. CASE UNCHANGED vars BY <1>5
<1> QED BY <1>1, <1>2, <1>3, <1>4, <1>5, <1>6 DEF Next

\* Only a request removes, and the others wait until it has finished.
LEMMA RemovalStep == TypeOK /\ RemovalInOrder /\ [Next]_vars => RemovalInOrder'
<1> SUFFICES ASSUME TypeOK, RemovalInOrder, [Next]_vars PROVE RemovalInOrder' OBVIOUS
<1> USE LegacyAssumption DEF vars, tables
<1>a. ASSUME UNCHANGED <<pending, approved, cancelled, deciding>> PROVE RemovalInOrder'
  BY <1>a DEF RemovalInOrder
<1>b. ASSUME deciding' = None PROVE RemovalInOrder' BY <1>b DEF RemovalInOrder
<1>1. ASSUME NEW id \in Ids, DecisionStep(id) PROVE RemovalInOrder'
  <2>1. CASE Hour(id) BY <2>1, <1>a DEF Hour
  <2>2. CASE Request(id)
    <3>1. deciding' = [id |-> id, rest |-> Expired, now |-> None, at |-> 1] BY <2>2 DEF Request
    <3>2. deciding'.now = None /\ deciding'.at = 1 BY <3>1
    <3> QED BY <3>2 DEF RemovalInOrder
  <2>3. CASE Expire(id)
    <3>1. /\ deciding \in Deciders
          /\ id \in deciding.rest /\ deciding.now \in {None, id} /\ id # None
          /\ approved \in [Ids -> 0 .. MaxTokens]
      BY <2>3, RemovalMoves DEF TypeOK
    <3>2. CASE deciding.at = 8
      <4>1. deciding'.now = None /\ deciding'.at = 1 BY <2>3, <3>2, RemovalMoves
      <4> QED BY <4>1 DEF RemovalInOrder
    <3>3. CASE deciding.at # 8
      <4>1. /\ deciding'.now = id /\ deciding'.at = deciding.at + 1 /\ deciding'.rest = deciding.rest
            /\ deciding.at \in 1 .. 7
        BY <2>3, <3>1, <3>3, RemovalMoves DEF Deciders
      <4>2. /\ pending' = (IF deciding.at = 1 THEN pending \ {id} ELSE pending)
            /\ approved' = (IF deciding.at = 2 THEN [approved EXCEPT ![id] = 0] ELSE approved)
            /\ cancelled' = (IF deciding.at = 4 THEN cancelled \ {id} ELSE cancelled)
        BY <2>3 DEF Expire
      <4>3. deciding.at > 1 => deciding.now = id BY <2>3, <3>1 DEF RemovalInOrder, Expire
      <4>4. id \notin pending' BY <2>3, <4>1, <4>2, <4>3 DEF RemovalInOrder, Expire
      <4>5. deciding.at > 1 => approved'[id] = 0 BY <2>3, <3>1, <4>1, <4>2, <4>3 DEF RemovalInOrder, Expire
      <4>6. deciding.at > 3 => id \notin cancelled' BY <2>3, <4>1, <4>2, <4>3 DEF RemovalInOrder, Expire
      <4> QED BY <3>1, <4>1, <4>4, <4>5, <4>6 DEF RemovalInOrder
    <3> QED BY <3>2, <3>3
  <2>4. CASE accept_transfer(id) \/ reject_transfer(id) \/ cancel_transfer(id)
    BY <2>4, <1>b DEF accept_transfer, reject_transfer, cancel_transfer
  <2> QED BY <1>1, <2>1, <2>2, <2>3, <2>4 DEF DecisionStep
<1>2. CASE RequestRefused \/ RequestDropped \/ \E trusted \in BOOLEAN : Registered(trusted)
  BY <1>2, <1>b DEF RequestRefused, RequestDropped, Registered
<1>3. ASSUME NEW u \in Uploads, UploadStep(u) PROVE RemovalInOrder'
  BY <1>3, <1>a DEF UploadStep, Upload, Lock, UploadEnds, Open, Block, Abort, Interrupted, BodyEnd,
                    CommitRefused, Commit, Drop, Discard
<1>4. CASE UNCHANGED vars BY <1>4, <1>a
<1> QED BY <1>1, <1>2, <1>3, <1>4 DEF Next

\* The decisions move a transfer from one table to another in one critical section; a
\* removal takes the token right after the pending transfer, unless it is dropped.
LEMMA TablesStep == TypeOK /\ RemovalInOrder /\ TablesAgree /\ [Next]_vars => TablesAgree'
<1> SUFFICES ASSUME TypeOK, RemovalInOrder, TablesAgree, [Next]_vars PROVE TablesAgree' OBVIOUS
<1> USE LegacyAssumption DEF vars, tables
<1>a. ASSUME UNCHANGED <<pending, rejected, cancelled, approved, deciding, torn>> PROVE TablesAgree'
  BY <1>a DEF TablesAgree, Removing
<1>t. /\ pending \subseteq Ids /\ approved \in [Ids -> 0 .. MaxTokens]
      /\ deciding \in Deciders \cup {None}
  BY DEF TypeOK, Deciders
<1>1. ASSUME NEW id \in Ids, DecisionStep(id) PROVE TablesAgree'
  <2>1. CASE Hour(id) BY <2>1, <1>a DEF Hour
  <2>2. CASE Request(id)
    <3>1. Removing = {} BY <2>2 DEF Request, Removing
    <3> QED BY <2>2, <3>1 DEF Request, TablesAgree
  <2>3. CASE Expire(id)
    <3>1. /\ deciding # None /\ deciding.at \in 1 .. 8 /\ deciding.now \in {None, id} /\ id # None
          /\ pending' = (IF deciding.at = 1 THEN pending \ {id} ELSE pending)
          /\ approved' = (IF deciding.at = 2 THEN [approved EXCEPT ![id] = 0] ELSE approved)
          /\ rejected' \subseteq rejected /\ cancelled' \subseteq cancelled
          /\ torn' = (IF deciding.at = 8 THEN torn \ {id} ELSE torn)
      BY <2>3, <1>t, RemovalMoves DEF Expire, Deciders
    <3>2. CASE deciding.at = 8
      <4>1. deciding.now = id BY <3>1, <3>2 DEF RemovalInOrder
      <4>2. approved[id] = 0 /\ approved' = approved /\ pending' = pending
        BY <3>1, <3>2, <4>1 DEF RemovalInOrder
      <4>3. Removing = {id} BY <3>1, <4>1 DEF Removing
      <4> QED BY <3>1, <3>2, <4>2, <4>3 DEF TablesAgree
    <3>3. CASE deciding.at # 8
      <4>1. deciding'.now = id /\ deciding' # None
        BY <2>3, <3>3, RemovalMoves
      <4>2. Removing' = {id} /\ \A i \in Ids : i \in Removing => i = id
        BY <3>1, <4>1 DEF Removing
      <4>3. torn' = torn /\ \A i \in Ids : i # id => (i \in pending' <=> i \in pending) /\ approved'[i] = approved[i]
        BY <1>t, <3>1, <3>3
      <4> QED BY <3>1, <4>2, <4>3 DEF TablesAgree
    <3> QED BY <3>2, <3>3
  <2>4. CASE accept_transfer(id)
    <3>1. Removing = {} /\ Removing' = {} BY <2>4 DEF accept_transfer, Removing
    <3> QED BY <2>4, <1>t, <3>1 DEF accept_transfer, Approve, TablesAgree
  <2>5. CASE reject_transfer(id)
    <3>1. Removing = {} /\ Removing' = {} BY <2>5 DEF reject_transfer, Removing
    <3> QED BY <2>5, <1>t, <3>1 DEF reject_transfer, TablesAgree
  <2>6. CASE cancel_transfer(id)
    <3>1. Removing = {} /\ Removing' = {} BY <2>6 DEF cancel_transfer, Removing
    <3>2. id \notin rejected BY <2>6 DEF cancel_transfer, TablesAgree
    <3> QED BY <2>6, <1>t, <3>1, <3>2 DEF cancel_transfer, TablesAgree
  <2> QED BY <1>1, <2>1, <2>2, <2>3, <2>4, <2>5, <2>6 DEF DecisionStep
<1>2. ASSUME deciding # None, deciding.rest = {} PROVE \A i \in Ids : i \notin Removing
  BY <1>2 DEF RemovalInOrder, Removing
<1>3. CASE RequestRefused
  BY <1>2, <1>3 DEF RequestRefused, TablesAgree
<1>4. CASE RequestDropped
  BY <1>4 DEF RequestDropped, TablesAgree, Removing
<1>5. ASSUME NEW trusted \in BOOLEAN, Registered(trusted) PROVE TablesAgree'
  <2>1. /\ deciding.id \in Ids /\ deciding.id \notin pending \cup rejected \cup cancelled
        /\ pending' = pending \cup {deciding.id} /\ UNCHANGED <<rejected, cancelled, torn>>
        /\ \A i \in Ids : i \notin Removing
    BY <1>2, <1>5, <1>t DEF Registered, Known, Deciders
  <2>2. \A i \in Ids : i # deciding.id => approved'[i] = approved[i]
    BY <1>5, <1>t DEF Registered, Approve
  <2> QED BY <2>1, <2>2 DEF TablesAgree
<1>6. ASSUME NEW u \in Uploads, UploadStep(u) PROVE TablesAgree'
  BY <1>6, <1>a DEF UploadStep, Upload, Lock, UploadEnds, Open, Block, Abort, Interrupted, BodyEnd,
                    CommitRefused, Commit, Drop, Discard
<1>7. CASE UNCHANGED vars BY <1>7, <1>a
<1> QED BY <1>1, <1>3, <1>4, <1>5, <1>6, <1>7 DEF Next

\* Only Lock lets an upload in, when no other one of the transfer is.
LEMMA TurnsStep == TypeOK /\ TakesTurns /\ [Next]_vars => TakesTurns'
<1> SUFFICES ASSUME TypeOK, TakesTurns, [Next]_vars PROVE TakesTurns' OBVIOUS
<1> USE LegacyAssumption DEF TypeOK, TakesTurns, vars, tables, Idle, Free, Locked, Serves
<1>1. ASSUME NEW id \in Ids, DecisionStep(id) PROVE TakesTurns'
  <2>1. CASE Hour(id) BY <2>1 DEF Hour
  <2>2. CASE Request(id) BY <2>2 DEF Request
  <2>3. CASE Expire(id) BY <2>3 DEF Expire
  <2>4. CASE accept_transfer(id) BY <2>4 DEF accept_transfer, Approve
  <2>5. CASE reject_transfer(id) BY <2>5 DEF reject_transfer
  <2>6. CASE cancel_transfer(id) BY <2>6 DEF cancel_transfer
  <2> QED BY <1>1, <2>1, <2>2, <2>3, <2>4, <2>5, <2>6 DEF DecisionStep
<1>2. CASE RequestRefused BY <1>2 DEF RequestRefused
<1>6. CASE RequestDropped BY <1>6 DEF RequestDropped
<1>3. ASSUME NEW trusted \in BOOLEAN, Registered(trusted) PROVE TakesTurns'
  BY <1>3 DEF Registered, Approve, Known
<1>4. ASSUME NEW u \in Uploads, UploadStep(u) PROVE TakesTurns'
  <2>1. ASSUME NEW f \in Files, Upload(u, f) PROVE TakesTurns' BY <2>1 DEF Upload
  <2>2. CASE Lock(u)
    <3>1. CASE up' = [up EXCEPT ![u].st = "checked"] BY <2>2, <3>1 DEF Lock
    <3>2. CASE Release(u) BY <3>2 DEF Release
    <3> QED BY <2>2, <3>1, <3>2 DEF Lock
  <2>3. CASE UploadEnds(u) BY <2>3 DEF UploadEnds, Release
  <2>4. CASE Open(u)
    <3>1. CASE up' = [up EXCEPT ![u].st = "body"] BY <2>4, <3>1 DEF Open
    <3>2. CASE Release(u) BY <3>2 DEF Release
    <3> QED BY <2>4, <3>1, <3>2 DEF Open
  <2>5. CASE Block(u) BY <2>5 DEF Block
  <2>6. CASE Abort(u) BY <2>6 DEF Abort, Discard, Release, rollback_file_bytes
  <2>7. CASE Interrupted(u) BY <2>7 DEF Interrupted, Discard, Release, rollback_file_bytes
  <2>8. CASE BodyEnd(u)
    <3>1. CASE up' = [up EXCEPT ![u].st = "commit"] BY <2>8, <3>1 DEF BodyEnd
    <3>2. CASE Release(u) BY <3>2 DEF Release
    <3> QED BY <2>8, <3>1, <3>2 DEF BodyEnd, Discard
  <2>9. CASE CommitRefused(u) BY <2>9 DEF CommitRefused, Discard, Release, rollback_file_bytes, Touch
  <2>10. CASE Commit(u)
    <3>1. Release(u) BY <2>10 DEF Commit
    <3> QED BY <3>1 DEF Release
  <2>11. CASE Drop(u) BY <2>11 DEF Drop, Release
  <2> QED BY <1>4, <2>1, <2>2, <2>3, <2>4, <2>5, <2>6, <2>7, <2>8, <2>9, <2>10, <2>11 DEF UploadStep
<1>5. CASE UNCHANGED vars BY <1>5
<1> QED BY <1>1, <1>2, <1>3, <1>4, <1>5, <1>6 DEF Next

\* Open looks for the receipt under the lock under which Commit writes it.
LEMMA ReceiptStep == TypeOK /\ TakesTurns /\ NotYetReceived /\ [Next]_vars => NotYetReceived'
<1> SUFFICES ASSUME TypeOK, TakesTurns, NotYetReceived, [Next]_vars PROVE NotYetReceived' OBVIOUS
<1> USE LegacyAssumption DEF TypeOK, TakesTurns, NotYetReceived, vars, tables, Idle, Free, Locked
<1>1. ASSUME NEW id \in Ids, DecisionStep(id) PROVE NotYetReceived'
  <2>1. CASE Hour(id) BY <2>1 DEF Hour
  <2>2. CASE Request(id) BY <2>2 DEF Request
  <2>3. CASE Expire(id) BY <2>3 DEF Expire
  <2>4. CASE accept_transfer(id) BY <2>4 DEF accept_transfer, Approve
  <2>5. CASE reject_transfer(id) BY <2>5 DEF reject_transfer
  <2>6. CASE cancel_transfer(id) BY <2>6 DEF cancel_transfer
  <2> QED BY <1>1, <2>1, <2>2, <2>3, <2>4, <2>5, <2>6 DEF DecisionStep
<1>2. CASE RequestRefused BY <1>2 DEF RequestRefused
<1>6. CASE RequestDropped BY <1>6 DEF RequestDropped
<1>3. ASSUME NEW trusted \in BOOLEAN, Registered(trusted) PROVE NotYetReceived'
  BY <1>3 DEF Registered, Approve, Known
<1>4. ASSUME NEW u \in Uploads, UploadStep(u) PROVE NotYetReceived'
  <2>1. ASSUME NEW f \in Files, Upload(u, f) PROVE NotYetReceived' BY <2>1 DEF Upload
  <2>2. CASE Lock(u) BY <2>2 DEF Lock, Release
  <2>3. CASE UploadEnds(u) BY <2>3 DEF UploadEnds, Release
  <2>4. CASE Open(u)
    <3>1. received' = received /\ up[u].f \notin received[Session[up[u].f]] BY <2>4 DEF Open
    <3>2. CASE up' = [up EXCEPT ![u].st = "body"] BY <3>1, <3>2
    <3>3. CASE Release(u) BY <3>1, <3>3 DEF Release
    <3> QED BY <2>4, <3>2, <3>3 DEF Open
  <2>5. CASE Block(u) BY <2>5 DEF Block
  <2>6. CASE Abort(u) BY <2>6 DEF Abort, Discard, Release, rollback_file_bytes
  <2>7. CASE Interrupted(u) BY <2>7 DEF Interrupted, Discard, Release, rollback_file_bytes
  <2>8. CASE BodyEnd(u)
    <3>1. received' = received BY <2>8 DEF BodyEnd, Discard
    <3>2. CASE up' = [up EXCEPT ![u].st = "commit"] BY <2>8, <3>1, <3>2 DEF BodyEnd
    <3>3. CASE Release(u) BY <3>1, <3>3 DEF Release
    <3> QED BY <2>8, <3>2, <3>3 DEF BodyEnd, Discard
  <2>9. CASE CommitRefused(u) BY <2>9 DEF CommitRefused, Discard, Release, rollback_file_bytes, Touch
  <2>10. CASE Commit(u) BY <2>10 DEF Commit, Touch, Release
  <2>11. CASE Drop(u) BY <2>11 DEF Drop, Release
  <2> QED BY <1>4, <2>1, <2>2, <2>3, <2>4, <2>5, <2>6, <2>7, <2>8, <2>9, <2>10, <2>11 DEF UploadStep
<1>5. CASE UNCHANGED vars BY <1>5
<1> QED BY <1>1, <1>2, <1>3, <1>4, <1>5, <1>6 DEF Next

\* Adding or removing one transfer changes a count by at most one.
LEMMA Counts ==
  ASSUME NEW t \in SUBSET Ids, NEW i
  PROVE  /\ Cardinality(t) \in Nat /\ Cardinality(t \ {i}) \in Nat
         /\ Cardinality(t \ {i}) <= Cardinality(t)
         /\ i \in t => Cardinality(t \ {i}) = Cardinality(t) - 1
         /\ i \notin t => Cardinality(t \cup {i}) = Cardinality(t) + 1
<1>1. IsFiniteSet(t) BY FS_Subset, LegacyAssumption
<1>2. Cardinality(t) \in Nat BY <1>1, FS_CardinalityType
<1>3. Cardinality(t \ {i}) \in Nat BY <1>1, FS_RemoveElement, FS_CardinalityType
<1>4. Cardinality(t \ {i}) = IF i \in t THEN Cardinality(t) - 1 ELSE Cardinality(t)
  BY <1>1, FS_RemoveElement
<1>5. Cardinality(t \cup {i}) = IF i \in t THEN Cardinality(t) ELSE Cardinality(t) + 1
  BY <1>1, FS_AddElement
<1> QED BY <1>2, <1>3, <1>4, <1>5

\* A request counts the transfers in the critical section in which it adds one; the
\* other decisions only move or remove one.
LEMMA CapacityStep ==
  TypeOK /\ RemovalInOrder /\ TablesAgree /\ WithinCapacity /\ [Next]_vars => WithinCapacity'
<1> SUFFICES ASSUME TypeOK, RemovalInOrder, TablesAgree, WithinCapacity, [Next]_vars
             PROVE  WithinCapacity'
  OBVIOUS
<1> USE LegacyAssumption DEF WithinCapacity, vars, tables
<1> DEFINE C == cancelled \ torn
<1>typ. pending \in SUBSET Ids /\ rejected \in SUBSET Ids /\ cancelled \in SUBSET Ids /\ C \in SUBSET Ids
  BY DEF TypeOK
<1>nat. /\ Cardinality(pending) \in Nat /\ Cardinality(rejected) \in Nat
        /\ Cardinality(cancelled) \in Nat /\ Cardinality(C) \in Nat
  BY <1>typ, Counts
<1>le. Cardinality(pending) + Cardinality(rejected) + Cardinality(C) <= MaxSessions OBVIOUS
<1>s. ASSUME NEW S \in SUBSET Ids, NEW T \in SUBSET S
      PROVE  Cardinality(T) \in Nat /\ Cardinality(T) <= Cardinality(S)
  <2>1. IsFiniteSet(S) BY FS_Subset
  <2>2. IsFiniteSet(T) /\ Cardinality(T) <= Cardinality(S) BY <2>1, FS_Subset
  <2> QED BY <2>2, FS_CardinalityType
<1>a. ASSUME pending' \subseteq pending, rejected' \subseteq rejected, C' \subseteq C
      PROVE  WithinCapacity'
  <2>1. /\ Cardinality(pending') \in Nat /\ Cardinality(pending') <= Cardinality(pending)
        /\ Cardinality(rejected') \in Nat /\ Cardinality(rejected') <= Cardinality(rejected)
        /\ Cardinality(C') \in Nat /\ Cardinality(C') <= Cardinality(C)
    BY <1>a, <1>s, <1>typ
  <2> HIDE DEF C
  <2>2. Cardinality(pending') + Cardinality(rejected') + Cardinality(C') <= MaxSessions
    BY <2>1, <1>nat, <1>le
  <2> QED BY <2>2 DEF C
<1>1. ASSUME NEW id \in Ids, DecisionStep(id) PROVE WithinCapacity'
  <2>1. CASE Hour(id) \/ Request(id) BY <2>1, <1>a DEF Hour, Request
  <2>2. CASE Expire(id)
    <3>0. deciding # None BY <2>2 DEF Expire
    <3>1. deciding.at = 8 => id \notin cancelled
      <4>1. deciding.now \in {None, id} BY <2>2 DEF Expire
      <4> QED BY <3>0, <4>1 DEF RemovalInOrder
    <3>2. pending' \subseteq pending /\ rejected' \subseteq rejected /\ cancelled' \subseteq cancelled
      BY <2>2 DEF Expire
    <3>3. torn' = torn \/ (deciding.at = 8 /\ torn' = torn \ {id}) BY <2>2 DEF Expire
    <3> QED BY <3>1, <3>2, <3>3, <1>a
  <2>3. CASE accept_transfer(id) BY <2>3, <1>a DEF accept_transfer
  <2>4. CASE reject_transfer(id)
    <3>1. /\ id \in pending /\ id \notin rejected
          /\ pending' = pending \ {id} /\ rejected' = rejected \cup {id}
          /\ C' = C
      BY <2>4 DEF reject_transfer, TablesAgree
    <3>2. /\ Cardinality(pending') = Cardinality(pending) - 1
          /\ Cardinality(rejected') = Cardinality(rejected) + 1
      BY <3>1, <1>typ, Counts
    <3> HIDE DEF C
    <3>3. Cardinality(pending') + Cardinality(rejected') + Cardinality(C') <= MaxSessions
      BY <3>1, <3>2, <1>nat, <1>le
    <3> QED BY <3>3 DEF C
  <2>5. CASE cancel_transfer(id)
    <3>1. UNCHANGED <<rejected, torn>> /\ pending' = pending \ {id} /\ cancelled' = cancelled \cup {id}
      BY <2>5 DEF cancel_transfer
    <3>2. CASE id \in torn BY <3>1, <3>2, <1>a
    <3>3. CASE id \notin torn
      <4>1. id \in pending /\ id \notin cancelled
        BY <2>5, <3>3 DEF cancel_transfer, TablesAgree, Removing
      <4>2. C' = C \cup {id} /\ id \notin C BY <3>1, <3>3, <4>1
      <4>3. /\ Cardinality(pending') = Cardinality(pending) - 1
            /\ Cardinality(C') = Cardinality(C) + 1
        <5> HIDE DEF C
        <5> QED BY <3>1, <4>1, <4>2, <1>typ, Counts
      <4> HIDE DEF C
      <4>4. Cardinality(pending') + Cardinality(rejected') + Cardinality(C') <= MaxSessions
        BY <3>1, <4>3, <1>nat, <1>le
      <4> QED BY <4>4 DEF C
    <3> QED BY <3>2, <3>3
  <2> QED BY <1>1, <2>1, <2>2, <2>3, <2>4, <2>5 DEF DecisionStep
<1>2. CASE RequestRefused \/ RequestDropped
  BY <1>2, <1>a DEF RequestRefused, RequestDropped
<1>3. ASSUME NEW trusted \in BOOLEAN, Registered(trusted) PROVE WithinCapacity'
  <2> DEFINE id == deciding.id
  <2>1. /\ id \notin pending
        /\ pending' = pending \cup {id} /\ rejected' = rejected /\ C' = C
    BY <1>3 DEF Registered, Known
  <2>2. ~(Cardinality(pending) + Cardinality(rejected) + Cardinality(cancelled) >= MaxSessions)
    BY <1>3 DEF Registered, Full
  <2>3. Cardinality(pending') = Cardinality(pending) + 1 BY <2>1, <1>typ, Counts
  <2>4. Cardinality(C) <= Cardinality(cancelled) BY <1>typ, <1>s
  <2> HIDE DEF C
  <2>5. Cardinality(pending') + Cardinality(rejected') + Cardinality(C') <= MaxSessions
    BY <2>1, <2>2, <2>3, <2>4, <1>nat
  <2> QED BY <2>5 DEF C
<1>4. ASSUME NEW u \in Uploads, UploadStep(u) PROVE WithinCapacity'
  BY <1>4, <1>a DEF UploadStep, Upload, Lock, UploadEnds, Open, Block, Abort, Interrupted, BodyEnd,
                    CommitRefused, Commit, Drop, Discard
<1>5. CASE UNCHANGED vars BY <1>5, <1>a
<1> QED BY <1>1, <1>2, <1>3, <1>4, <1>5 DEF Next

\* A transfer has no outcome while it may still get one: pending transfers have not
\* failed, and of them and those with a token only the ones in "completed" have succeeded.
OutcomesKnown ==
  \A id \in Ids :
    /\ history[id]["Completed"] + history[id]["Failed"] <= 1
    /\ id \in pending => history[id]["Failed"] = 0
    /\ id \in pending \ completed => history[id]["Completed"] = 0
    /\ approved[id] # 0 /\ id \notin completed => history[id]["Completed"] = 0
    /\ id \in cancelled => history[id]["Completed"] = 0

\* cancel_transfer and Commit look at each other's table in their critical sections.
LEMMA OutcomeStep ==
  TypeOK /\ RemovalInOrder /\ TablesAgree /\ OutcomesKnown /\ [Next]_vars => OutcomesKnown'
<1> SUFFICES ASSUME TypeOK, RemovalInOrder, TablesAgree, OutcomesKnown, [Next]_vars
             PROVE  OutcomesKnown'
  OBVIOUS
<1> USE LegacyAssumption DEF TypeOK, TablesAgree, OutcomesKnown, vars, tables
<1>1. ASSUME NEW id \in Ids, DecisionStep(id) PROVE OutcomesKnown'
  <2>1. CASE Hour(id) BY <2>1 DEF Hour
  <2>2. CASE Request(id) BY <2>2 DEF Request
  <2>3. CASE Expire(id)
    <3>0. deciding # None /\ deciding.now \in {None, id} BY <2>3 DEF Expire
    <3>1. deciding.at = 7 => id \notin pending /\ approved[id] = 0
      BY <3>0 DEF RemovalInOrder
    <3>2. /\ history' = history /\ pending' \subseteq pending /\ cancelled' \subseteq cancelled
          /\ completed' = completed \/ (deciding.at = 7 /\ completed' = completed \ {id})
          /\ \A i \in Ids : approved'[i] # 0 => approved'[i] = approved[i]
      BY <2>3 DEF Expire
    <3> QED BY <3>1, <3>2
  <2>4. CASE accept_transfer(id) BY <2>4 DEF accept_transfer, Approve
  <2>5. CASE reject_transfer(id) BY <2>5 DEF reject_transfer
  <2>6. CASE cancel_transfer(id) BY <2>6 DEF cancel_transfer
  <2> QED BY <1>1, <2>1, <2>2, <2>3, <2>4, <2>5, <2>6 DEF DecisionStep
<1>2. CASE RequestRefused BY <1>2 DEF RequestRefused
<1>6. CASE RequestDropped BY <1>6 DEF RequestDropped
<1>3. ASSUME NEW trusted \in BOOLEAN, Registered(trusted) PROVE OutcomesKnown'
  BY <1>3 DEF Registered, Approve, Known
<1>4. ASSUME NEW u \in Uploads, UploadStep(u) PROVE OutcomesKnown'
  <2>1. ASSUME NEW f \in Files, Upload(u, f) PROVE OutcomesKnown' BY <2>1 DEF Upload
  <2>2. CASE Lock(u) BY <2>2 DEF Lock, Release
  <2>3. CASE UploadEnds(u) BY <2>3 DEF UploadEnds, Release
  <2>4. CASE Open(u) BY <2>4 DEF Open, Touch, Release
  <2>5. CASE Block(u) BY <2>5 DEF Block
  <2>6. CASE Abort(u) BY <2>6 DEF Abort, Discard, Release, rollback_file_bytes
  <2>7. CASE Interrupted(u) BY <2>7 DEF Interrupted, Discard, Release, rollback_file_bytes
  <2>8. CASE BodyEnd(u) BY <2>8 DEF BodyEnd, Discard, Release, rollback_file_bytes
  <2>9. CASE CommitRefused(u) BY <2>9 DEF CommitRefused, Discard, Release, rollback_file_bytes, Touch
  <2>10. CASE Commit(u)
    <3> DEFINE id == Session[up[u].f]
    <3>1. /\ id \notin cancelled /\ pending' = pending /\ cancelled' = cancelled /\ approved' = approved
          /\ completed \subseteq completed'
      BY <2>10 DEF Commit
    <3>2. CASE history' = history BY <3>1, <3>2
    <3>3. CASE /\ id \in pending \ completed /\ id \in completed'
               /\ history' = [history EXCEPT ![id]["Completed"] = @ + 1]
      <4>1. id \in Ids BY <3>3
      <4>2. history[id]["Completed"] = 0 /\ history[id]["Failed"] = 0 BY <3>3, <4>1
      <4>3. history'[id]["Completed"] = 1 /\ history'[id]["Failed"] = 0 BY <3>3, <4>1, <4>2
      <4>4. \A i \in Ids : i # id => history'[i] = history[i] BY <3>3
      <4>5. ASSUME NEW i \in Ids
            PROVE  /\ history'[i]["Completed"] + history'[i]["Failed"] <= 1
                   /\ i \in pending' => history'[i]["Failed"] = 0
                   /\ i \in pending' \ completed' => history'[i]["Completed"] = 0
                   /\ approved'[i] # 0 /\ i \notin completed' => history'[i]["Completed"] = 0
                   /\ i \in cancelled' => history'[i]["Completed"] = 0
        <5>1. CASE i = id BY <5>1, <3>1, <3>3, <4>3
        <5>2. CASE i # id BY <5>2, <3>1, <4>4
        <5> QED BY <5>1, <5>2
      <4> QED BY <4>5
    <3> QED BY <2>10, <3>2, <3>3 DEF Commit
  <2>11. CASE Drop(u) BY <2>11 DEF Drop, Release
  <2> QED BY <1>4, <2>1, <2>2, <2>3, <2>4, <2>5, <2>6, <2>7, <2>8, <2>9, <2>10, <2>11 DEF UploadStep
<1>5. CASE UNCHANGED vars BY <1>5
<1> QED BY <1>1, <1>2, <1>3, <1>4, <1>5, <1>6 DEF Next

Once == \A f \in Files : kept'[f] > kept[f] => f \notin received[Session[f]]

\* Only Commit adds a file, and its upload found no receipt.
LEMMA ReceivedOnce == TypeOK /\ NotYetReceived /\ [Next]_vars => Once
<1> SUFFICES ASSUME TypeOK, NotYetReceived, [Next]_vars PROVE Once OBVIOUS
<1> USE LegacyAssumption DEF TypeOK, Once, vars, tables
<1>1. ASSUME NEW id \in Ids, DecisionStep(id) PROVE Once
  <2>1. CASE Hour(id) BY <2>1 DEF Hour
  <2>2. CASE Request(id) BY <2>2 DEF Request
  <2>3. CASE Expire(id) BY <2>3 DEF Expire
  <2>4. CASE accept_transfer(id) BY <2>4 DEF accept_transfer, Approve
  <2>5. CASE reject_transfer(id) BY <2>5 DEF reject_transfer
  <2>6. CASE cancel_transfer(id) BY <2>6 DEF cancel_transfer
  <2> QED BY <1>1, <2>1, <2>2, <2>3, <2>4, <2>5, <2>6 DEF DecisionStep
<1>2. CASE RequestRefused BY <1>2 DEF RequestRefused
<1>6. CASE RequestDropped BY <1>6 DEF RequestDropped
<1>3. ASSUME NEW trusted \in BOOLEAN, Registered(trusted) PROVE Once
  BY <1>3 DEF Registered, Approve, Known
<1>4. ASSUME NEW u \in Uploads, UploadStep(u) PROVE Once
  <2>1. ASSUME NEW f \in Files, Upload(u, f) PROVE Once BY <2>1 DEF Upload
  <2>2. CASE Lock(u) BY <2>2 DEF Lock, Release
  <2>3. CASE UploadEnds(u) BY <2>3 DEF UploadEnds, Release
  <2>4. CASE Open(u) BY <2>4 DEF Open, Touch, Release
  <2>5. CASE Block(u) BY <2>5 DEF Block
  <2>6. CASE Abort(u) BY <2>6 DEF Abort, Discard, Release, rollback_file_bytes
  <2>7. CASE Interrupted(u) BY <2>7 DEF Interrupted, Discard, Release, rollback_file_bytes
  <2>8. CASE BodyEnd(u) BY <2>8 DEF BodyEnd, Discard, Release, rollback_file_bytes
  <2>9. CASE CommitRefused(u) BY <2>9 DEF CommitRefused, Discard, Release, rollback_file_bytes, Touch
  <2>10. CASE Commit(u)
    <3>1. up[u].st = "commit" /\ kept' = [kept EXCEPT ![up[u].f] = @ + 1] BY <2>10 DEF Commit
    <3>2. up[u].f \notin received[Session[up[u].f]] BY <3>1 DEF NotYetReceived
    <3>3. ASSUME NEW f \in Files, f # up[u].f PROVE kept'[f] = kept[f] BY <3>1, <3>3
    <3> QED BY <3>2, <3>3
  <2>11. CASE Drop(u) BY <2>11 DEF Drop, Release
  <2> QED BY <1>4, <2>1, <2>2, <2>3, <2>4, <2>5, <2>6, <2>7, <2>8, <2>9, <2>10, <2>11 DEF UploadStep
<1>5. CASE UNCHANGED vars BY <1>5
<1> QED BY <1>1, <1>2, <1>3, <1>4, <1>5, <1>6 DEF Next

\* A receipt stands for a file that was received, and a recorded completion for all of them.
ReceiptsAreKept ==
  \A id \in Ids : /\ received[id] \subseteq FilesOf(id)
                  /\ \A f \in received[id] : kept[f] > 0
                  /\ history[id]["Completed"] > 0 => \A f \in FilesOf(id) : kept[f] > 0

\* Commit counts the receipts of the transfer, which are all its own: as many as it has
\* files means all of them.
LEMMA KeptStep == TypeOK /\ ReceiptsAreKept /\ [Next]_vars => ReceiptsAreKept'
<1> SUFFICES ASSUME TypeOK, ReceiptsAreKept, [Next]_vars PROVE ReceiptsAreKept' OBVIOUS
<1> USE LegacyAssumption DEF vars, tables
<1>a. ASSUME UNCHANGED <<received, kept, history>> PROVE ReceiptsAreKept'
  BY <1>a DEF ReceiptsAreKept
<1>b. /\ received \in [Ids -> SUBSET Files] /\ kept \in [Files -> Nat]
      /\ history \in [Ids -> [{"Completed", "Failed"} -> Nat]]
  BY DEF TypeOK
<1>1. ASSUME NEW id \in Ids, DecisionStep(id) PROVE ReceiptsAreKept'
  <2>1. CASE Hour(id) BY <2>1, <1>a DEF Hour
  <2>2. CASE Request(id) BY <2>2, <1>a DEF Request
  <2>3. CASE Expire(id)
    <3>1. received' \in {received, [received EXCEPT ![id] = {}]} /\ UNCHANGED <<kept, history>>
      BY <2>3 DEF Expire
    <3> QED BY <1>b, <3>1 DEF ReceiptsAreKept
  <2>4. CASE accept_transfer(id) BY <2>4, <1>a DEF accept_transfer
  <2>5. CASE reject_transfer(id) BY <2>5, <1>a DEF reject_transfer
  <2>6. CASE cancel_transfer(id)
    <3>1. received' = [received EXCEPT ![id] = {}] /\ UNCHANGED kept
      BY <2>6 DEF cancel_transfer
    <3>2. \A i \in Ids : history'[i]["Completed"] = history[i]["Completed"]
      BY <1>b, <2>6 DEF cancel_transfer
    <3> QED BY <1>b, <3>1, <3>2 DEF ReceiptsAreKept
  <2> QED BY <1>1, <2>1, <2>2, <2>3, <2>4, <2>5, <2>6 DEF DecisionStep
<1>2. CASE RequestRefused \/ RequestDropped BY <1>2, <1>a DEF RequestRefused, RequestDropped
<1>3. ASSUME NEW trusted \in BOOLEAN, Registered(trusted) PROVE ReceiptsAreKept'
  <2>1. PICK id \in Ids :
          history' = [history EXCEPT ![id] = [o \in {"Completed", "Failed"} |-> 0]]
    BY <1>3 DEF Registered, TypeOK
  <2>2. UNCHANGED <<received, kept>> BY <1>3 DEF Registered
  <2> QED BY <1>b, <2>1, <2>2 DEF ReceiptsAreKept
<1>4. ASSUME NEW u \in Uploads, UploadStep(u) PROVE ReceiptsAreKept'
  <2>1. CASE \/ \E f \in Files : Upload(u, f)
             \/ Lock(u) \/ UploadEnds(u) \/ Open(u) \/ Block(u) \/ Abort(u) \/ Interrupted(u)
             \/ BodyEnd(u) \/ CommitRefused(u) \/ Drop(u)
    BY <2>1, <1>a DEF Upload, Lock, UploadEnds, Open, Block, Abort, Interrupted, BodyEnd,
                      CommitRefused, Drop, Discard
  <2>2. CASE Commit(u)
    <3>1. PICK f \in Files, id \in Ids : f = up[u].f /\ id = Session[f]
      BY <2>2 DEF Commit, TypeOK, Idle
    <3>2. /\ received' = [received EXCEPT ![id] = @ \cup {f}]
          /\ kept' = [kept EXCEPT ![f] = @ + 1]
          /\ \/ UNCHANGED history
             \/ /\ Cardinality(received[id] \cup {f}) >= Cardinality(FilesOf(id))
                /\ history' = [history EXCEPT ![id]["Completed"] = @ + 1]
      BY <2>2, <3>1 DEF Commit
    <3>3. kept'[f] > 0 /\ \A g \in Files : kept[g] > 0 => kept'[g] > 0
      BY <1>b, <3>2
    <3>4. f \in FilesOf(id) /\ \A i \in Ids : FilesOf(i) \subseteq Files
      BY <3>1 DEF FilesOf
    <3>5. ASSUME NEW i \in Ids
          PROVE  received'[i] \subseteq FilesOf(i) /\ \A g \in received'[i] : kept'[g] > 0
      BY <1>b, <3>2, <3>3, <3>4 DEF ReceiptsAreKept
    <3>6. ASSUME NEW i \in Ids, history'[i]["Completed"] > 0
          PROVE  \A g \in FilesOf(i) : kept'[g] > 0
      <4>1. CASE history[i]["Completed"] > 0 BY <3>3, <3>4, <4>1 DEF ReceiptsAreKept
      <4>2. CASE ~(history[i]["Completed"] > 0)
        <5>1. i = id /\ Cardinality(received[id] \cup {f}) >= Cardinality(FilesOf(id))
          BY <1>b, <3>2, <3>6, <4>2
        <5>2. received[id] \cup {f} \subseteq FilesOf(id) BY <3>4 DEF ReceiptsAreKept
        <5>3. IsFiniteSet(FilesOf(id)) BY <3>4, FS_Subset
        <5>4. /\ IsFiniteSet(received[id] \cup {f})
              /\ Cardinality(received[id] \cup {f}) <= Cardinality(FilesOf(id))
          BY <5>2, <5>3, FS_Subset
        <5>5. /\ Cardinality(received[id] \cup {f}) \in Nat
              /\ Cardinality(FilesOf(id)) \in Nat
          BY <5>3, <5>4, FS_CardinalityType
        <5>6. Cardinality(received[id] \cup {f}) = Cardinality(FilesOf(id))
          BY <5>1, <5>4, <5>5
        <5>7. received[id] \cup {f} = FilesOf(id) BY <5>2, <5>3, <5>6, FS_Subset
        <5>8. received'[id] = received[id] \cup {f} BY <1>b, <3>2
        <5> QED BY <3>5, <5>1, <5>7, <5>8
      <4> QED BY <4>1, <4>2
    <3> QED BY <3>5, <3>6 DEF ReceiptsAreKept
  <2> QED BY <1>4, <2>1, <2>2 DEF UploadStep
<1>5. CASE UNCHANGED vars BY <1>5, <1>a
<1> QED BY <1>1, <1>2, <1>3, <1>4, <1>5 DEF Next

-----------------------------------------------------------------------------
(***************************************************************************)
(* Sums over finite sets                                                   *)
(***************************************************************************)
\* The element a fold takes next; which one it is must not matter.
Pick(s) == CHOOSE x \in s : TRUE

\* g adds up w over every subset of S.
IsSum(w, S, g) == g = [s \in SUBSET S |-> IF s = {} THEN 0 ELSE w[Pick(s)] + g[s \ {Pick(s)}]]

SumFcn(w, S) == CHOOSE g : IsSum(w, S, g)

\* The community module's fold is that function's value.
LEMMA SumIsFold == ASSUME NEW w, NEW S PROVE SumFunctionOnSet(w, S) = SumFcn(w, S)[S]
  BY Zenon DEF SumFunctionOnSet, FoldFunctionOnSet, MapThenFoldSet, SumFcn, IsSum, Pick

LEMMA PickIn == ASSUME NEW s, s # {} PROVE Pick(s) \in s
  BY DEF Pick

\* Among subsets of a finite set there is a minimal one: induction, as an argument about
\* a minimal counterexample.
LEMMA MinimalSubset ==
  ASSUME NEW S, IsFiniteSet(S), NEW T \in SUBSET SUBSET S, T # {}
  PROVE  \E A \in T : \A B \in SUBSET A : B # A => B \notin T
<1>1. IsWellFoundedOn(StrictSubsetOrdering(S), FiniteSubsetsOf(S)) BY FS_StrictSubsetOrderingWellFounded
<1>2. T \subseteq FiniteSubsetsOf(S) BY FS_FiniteSubsetsOfFinite
<1>3. \E A \in T : \A B \in T : ~(<<B, A>> \in StrictSubsetOrdering(S)) BY <1>1, <1>2, WFMin, Zenon
<1>4. PICK A \in T : \A B \in T : ~(<<B, A>> \in StrictSubsetOrdering(S)) BY <1>3
<1>5. ASSUME NEW B \in SUBSET A, B # A PROVE B \notin T
  <2>1. A \in SUBSET S /\ B \in SUBSET S OBVIOUS
  <2>2. <<B, A>> \in StrictSubsetOrdering(S) BY <1>5, <2>1 DEF StrictSubsetOrdering
  <2> QED BY <1>4, <2>2, Zenon
<1> QED BY <1>4, <1>5

\* Two such functions agree where both are defined.
LEMMA SumUnique ==
  ASSUME NEW w, NEW A, IsFiniteSet(A), NEW B, NEW g, NEW h, IsSum(w, A, g), IsSum(w, B, h),
         NEW T \in SUBSET (A \cap B)
  PROVE  g[T] = h[T]
<1> DEFINE Bad == {U \in SUBSET A : U \in SUBSET B /\ g[U] # h[U]}
<1>1. SUFFICES ASSUME Bad # {} PROVE FALSE OBVIOUS
<1>2. Bad \in SUBSET SUBSET A OBVIOUS
<1>3. PICK U \in Bad : \A V \in SUBSET U : V # U => V \notin Bad
  <2> HIDE DEF Bad
  <2> QED BY <1>1, <1>2, MinimalSubset
<1>4. U \in SUBSET A /\ U \in SUBSET B /\ g[U] # h[U] OBVIOUS
<1>5. U # {} BY <1>4 DEF IsSum
<1> DEFINE V == U \ {Pick(U)}
<1>6. V \in SUBSET U /\ V # U BY <1>5, PickIn
<1>7. V \notin Bad BY <1>3, <1>6
<1>8. g[V] = h[V] BY <1>4, <1>6, <1>7
<1>9. g[U] = w[Pick(U)] + g[V] /\ h[U] = w[Pick(U)] + h[V] BY <1>4, <1>5 DEF IsSum
<1> QED BY <1>4, <1>8, <1>9

\* There is such a function: those of the smaller subsets, put together.
LEMMA SumExists ==
  ASSUME NEW w, NEW S, IsFiniteSet(S)
  PROVE  IsSum(w, S, SumFcn(w, S))
<1> DEFINE Bad == {T \in SUBSET S : ~ \E g : IsSum(w, T, g)}
<1>1. SUFFICES ASSUME Bad # {} PROVE FALSE
  <2>1. S \notin Bad BY <1>1
  <2>2. \E g : IsSum(w, S, g) BY <2>1
  <2> QED BY <2>2, Zenon DEF SumFcn
<1>2. Bad \in SUBSET SUBSET S OBVIOUS
<1>3. PICK T \in Bad : \A V \in SUBSET T : V # T => V \notin Bad
  <2> HIDE DEF Bad
  <2> QED BY <1>1, <1>2, MinimalSubset
<1>4. T \in SUBSET S /\ ~ \E g : IsSum(w, T, g) BY <1>3
<1> DEFINE G(s) == SumFcn(w, s)
           c == Pick(T)
           h == [s \in SUBSET T |-> IF s = T THEN IF s = {} THEN 0 ELSE w[c] + G(T \ {c})[T \ {c}]
                                             ELSE G(s)[s]]
<1>5. ASSUME NEW s \in SUBSET T, s # T PROVE IsSum(w, s, G(s)) /\ IsFiniteSet(s)
  <2>1. s \notin Bad /\ s \in SUBSET S BY <1>3, <1>4, <1>5
  <2>2. \E g : IsSum(w, s, g) BY <2>1
  <2>3. IsSum(w, s, G(s)) BY <2>2, Zenon DEF SumFcn
  <2> QED BY <2>1, <2>3, FS_Subset
<1>6. ASSUME NEW s \in SUBSET T PROVE h[s] = IF s = {} THEN 0 ELSE w[Pick(s)] + h[s \ {Pick(s)}]
  <2> DEFINE d == s \ {Pick(s)}
  <2>1. CASE s = {} BY <1>5, <2>1 DEF IsSum
  <2>2. CASE s # {}
    <3>1. d \in SUBSET T /\ d # T /\ d \in SUBSET s BY <2>2, PickIn
    <3>2. h[d] = G(d)[d] BY <3>1
    <3>3. CASE s = T BY <2>2, <3>2, <3>3
    <3>4. CASE s # T
      <4>1. IsSum(w, s, G(s)) /\ IsFiniteSet(s) BY <1>5, <3>4
      <4>2. IsSum(w, d, G(d)) BY <1>5, <3>1
      <4>3. PICK p : p = G(s) OBVIOUS
      <4>4. PICK q : q = G(d) OBVIOUS
      <4>5. p[d] = q[d] BY <3>1, <4>1, <4>2, <4>3, <4>4, SumUnique
      <4>6. p[s] = w[Pick(s)] + p[d] BY <2>2, <4>1, <4>3 DEF IsSum
      <4>7. h[s] = p[s] BY <3>4, <4>3
      <4> HIDE DEF h, d, G
      <4> QED BY <2>2, <3>2, <4>4, <4>5, <4>6, <4>7 DEF d
    <3> QED BY <3>3, <3>4
  <2> QED BY <2>1, <2>2
<1>7. IsSum(w, T, h) 
  <2> DEFINE k == [s \in SUBSET T |-> IF s = {} THEN 0 ELSE w[Pick(s)] + h[s \ {Pick(s)}]]
  <2>1. \A s \in SUBSET T : h[s] = k[s] BY <1>6
  <2>2. h = [s \in SUBSET T |-> h[s]] OBVIOUS
  <2> HIDE DEF h
  <2>3. h = k BY <2>1, <2>2
  <2> QED BY <2>3 DEF IsSum
<1> QED BY <1>4, <1>7

\* The recursive equation of a sum.
LEMMA SumStep ==
  ASSUME NEW w, NEW S, IsFiniteSet(S)
  PROVE  SumFunctionOnSet(w, S)
           = IF S = {} THEN 0 ELSE w[Pick(S)] + SumFunctionOnSet(w, S \ {Pick(S)})
<1>1. IsSum(w, S, SumFcn(w, S)) BY SumExists
<1>2. CASE S = {} BY <1>1, <1>2, SumIsFold DEF IsSum
<1>3. CASE S # {}
  <2> DEFINE d == S \ {Pick(S)}
  <2>1. IsFiniteSet(d) /\ d \in SUBSET S BY FS_Subset
  <2>2. IsSum(w, d, SumFcn(w, d)) BY <2>1, SumExists
  <2>3. PICK p : p = SumFcn(w, S) OBVIOUS
  <2>4. PICK q : q = SumFcn(w, d) OBVIOUS
  <2>5. p[d] = q[d] BY <1>1, <2>1, <2>2, <2>3, <2>4, SumUnique
  <2>6. p[S] = w[Pick(S)] + p[d] BY <1>1, <1>3, <2>3 DEF IsSum
  <2>7. SumFunctionOnSet(w, S) = p[S] /\ SumFunctionOnSet(w, d) = q[d] BY <2>3, <2>4, SumIsFold
  <2> QED BY <1>3, <2>5, <2>6, <2>7
<1> QED BY <1>2, <1>3

\* A sum of naturals is one.
LEMMA SumNat ==
  ASSUME NEW w, NEW S, IsFiniteSet(S), \A x \in S : w[x] \in Nat
  PROVE  SumFunctionOnSet(w, S) \in Nat
<1> DEFINE Bad == {T \in SUBSET S : SumFunctionOnSet(w, T) \notin Nat}
<1>1. SUFFICES ASSUME Bad # {} PROVE FALSE OBVIOUS
<1>2. Bad \in SUBSET SUBSET S OBVIOUS
<1>3. PICK T \in Bad : \A V \in SUBSET T : V # T => V \notin Bad
  <2> HIDE DEF Bad
  <2> QED BY <1>1, <1>2, MinimalSubset
<1>4. T \in SUBSET S /\ IsFiniteSet(T) BY <1>3, FS_Subset
<1>5. T # {}
  <2>1. SumFunctionOnSet(w, T) \notin Nat BY <1>3
  <2>2. SumFunctionOnSet(w, T) = IF T = {} THEN 0 ELSE w[Pick(T)] + SumFunctionOnSet(w, T \ {Pick(T)})
    BY <1>4, SumStep, Zenon
  <2> QED BY <2>1, <2>2
<1> DEFINE d == T \ {Pick(T)}
<1>6. d \in SUBSET T /\ d # T /\ Pick(T) \in S BY <1>4, <1>5, PickIn
<1>7. SumFunctionOnSet(w, d) \in Nat BY <1>3, <1>4, <1>6
<1>8. SumFunctionOnSet(w, T) = w[Pick(T)] + SumFunctionOnSet(w, d) BY <1>4, <1>5, SumStep
<1> QED BY <1>3, <1>6, <1>7, <1>8

\* Any element may be taken out first.
LEMMA SumRemove ==
  ASSUME NEW w, NEW S, IsFiniteSet(S), \A x \in S : w[x] \in Nat, NEW e \in S
  PROVE  SumFunctionOnSet(w, S) = w[e] + SumFunctionOnSet(w, S \ {e})
<1> DEFINE Off(T, x) == SumFunctionOnSet(w, T) # w[x] + SumFunctionOnSet(w, T \ {x})
           Bad == {T \in SUBSET S : \E x \in T : Off(T, x)}
<1>1. SUFFICES ASSUME Bad # {} PROVE FALSE OBVIOUS
<1>2. Bad \in SUBSET SUBSET S OBVIOUS
<1>3. PICK T \in Bad : \A V \in SUBSET T : V # T => V \notin Bad
  <2> HIDE DEF Bad
  <2> QED BY <1>1, <1>2, MinimalSubset
<1>4. T \in SUBSET S /\ IsFiniteSet(T) /\ T # {} BY <1>3, FS_Subset
<1>5. PICK x \in T : Off(T, x) BY <1>3
<1> DEFINE c == Pick(T)
<1>6. c \in T BY <1>4, PickIn
<1>7. SumFunctionOnSet(w, T) = w[c] + SumFunctionOnSet(w, T \ {c}) BY <1>4, SumStep
<1>8. x # c BY <1>5, <1>7
<1> DEFINE U == T \ {c}  V == T \ {x}  W == (T \ {c}) \ {x}
<1> HIDE DEF c
<1>9. U \in SUBSET T /\ U # T /\ x \in U BY <1>6, <1>8
<1>10. V \in SUBSET T /\ V # T /\ c \in V BY <1>5, <1>6, <1>8
<1>11. SumFunctionOnSet(w, U) = w[x] + SumFunctionOnSet(w, W) BY <1>3, <1>4, <1>9
<1>12. SumFunctionOnSet(w, V) = w[c] + SumFunctionOnSet(w, W)
  <2>1. V \ {c} = W OBVIOUS
  <2>2. V \notin Bad /\ V \in SUBSET S BY <1>3, <1>4, <1>10
  <2>3. SumFunctionOnSet(w, V) = w[c] + SumFunctionOnSet(w, V \ {c})
    <3> HIDE DEF V
    <3> QED BY <1>10, <2>2
  <2> QED BY <2>1, <2>3, Zenon
<1>13. IsFiniteSet(W) /\ W \subseteq S BY <1>4, FS_Subset
<1>14. SumFunctionOnSet(w, W) \in Nat BY <1>13, SumNat
<1>15. w[x] \in Nat /\ w[c] \in Nat BY <1>4, <1>5, <1>6
<1>16. SumFunctionOnSet(w, T) = w[x] + SumFunctionOnSet(w, V)
  <2>1. SumFunctionOnSet(w, T) = w[c] + SumFunctionOnSet(w, U) BY <1>7
  <2> HIDE DEF U, V, W
  <2> QED BY <2>1, <1>11, <1>12, <1>14, <1>15
<1> QED BY <1>5, <1>16

-----------------------------------------------------------------------------
(***************************************************************************)
(* Progress                                                                *)
(***************************************************************************)
Holds(u, id) == up[u].st \in Locked /\ Session[up[u].f] = id

Stored(id) == SumFunctionOnSet(Size, received[id])

\* What transfer_bytes counts is received, or was counted by the upload that has the lock.
Within(id) ==
  bytes[id] # None =>
    /\ (\A u \in Uploads : ~Holds(u, id)) => bytes[id] <= Stored(id)
    /\ \A u \in Uploads : Holds(u, id) => bytes[id] <= Stored(id) + up[u].got

\* A request that expires the transfer has emptied received_files, not yet transfer_bytes.
Halfway(id) == deciding # None /\ deciding.now = id /\ deciding.at = 6

\* An upload has counted nothing before its body, and the whole file after it.
GotInPhase ==
  \A u \in Uploads : /\ up[u].st \in {"queued", "checked"} => up[u].got = 0
                     /\ up[u].st = "commit" => up[u].got = Size[up[u].f]

LEMMA GotStep == TypeOK /\ GotInPhase /\ [Next]_vars => GotInPhase'
<1> SUFFICES ASSUME TypeOK, GotInPhase, [Next]_vars PROVE GotInPhase' OBVIOUS
<1> USE LegacyAssumption DEF TypeOK, GotInPhase, vars, tables, Idle, Free
<1>a. ASSUME UNCHANGED up PROVE GotInPhase' BY <1>a
<1>r. ASSUME NEW u \in Uploads, Release(u) PROVE GotInPhase' BY <1>r DEF Release
<1>1. ASSUME NEW id \in Ids, DecisionStep(id) PROVE GotInPhase'
  BY <1>1, <1>a DEF DecisionStep, Hour, Request, Expire, accept_transfer, reject_transfer, cancel_transfer
<1>2. CASE RequestRefused \/ RequestDropped \/ \E trusted \in BOOLEAN : Registered(trusted)
  BY <1>2, <1>a DEF RequestRefused, RequestDropped, Registered
<1>3. ASSUME NEW u \in Uploads, UploadStep(u) PROVE GotInPhase'
  <2>1. ASSUME NEW f \in Files, Upload(u, f) PROVE GotInPhase' BY <2>1 DEF Upload
  <2>2. CASE Lock(u)
    <3>1. CASE up' = [up EXCEPT ![u].st = "checked"] BY <2>2, <3>1 DEF Lock
    <3> QED BY <2>2, <1>r, <3>1 DEF Lock
  <2>3. CASE Open(u)
    <3>1. CASE up' = [up EXCEPT ![u].st = "body"] BY <2>3, <3>1
    <3> QED BY <2>3, <1>r, <3>1 DEF Open
  <2>4. CASE Block(u)
    <3>1. up' = [up EXCEPT ![u].got = @ + 1] /\ up[u].st = "body" BY <2>4 DEF Block
    <3> QED BY <3>1
  <2>5. CASE BodyEnd(u)
    <3>1. CASE up[u].got = Size[up[u].f] /\ up' = [up EXCEPT ![u].st = "commit"] BY <3>1
    <3> QED BY <2>5, <1>r, <3>1 DEF BodyEnd, Discard
  <2>6. CASE UploadEnds(u) \/ Abort(u) \/ Interrupted(u) \/ CommitRefused(u) \/ Commit(u) \/ Drop(u)
    BY <2>6, <1>r DEF UploadEnds, Abort, Interrupted, CommitRefused, Commit, Drop, Discard
  <2> QED BY <1>3, <2>1, <2>2, <2>3, <2>4, <2>5, <2>6 DEF UploadStep
<1>4. CASE UNCHANGED vars BY <1>4, <1>a
<1> QED BY <1>1, <1>2, <1>3, <1>4 DEF Next

LEMMA SizesNat == ASSUME NEW S \in SUBSET Files PROVE SumFunctionOnSet(Size, S) \in Nat
<1>1. IsFiniteSet(S) /\ \A x \in S : Size[x] \in Nat BY LegacyAssumption, FS_Subset
<1> QED BY <1>1, SumNat

LEMMA StoredNat ==
  ASSUME NEW id \in Ids
  PROVE  /\ TypeOK => Stored(id) \in Nat
         /\ TypeOK' => Stored(id)' \in Nat
<1>1. PICK S : S = received[id] OBVIOUS
<1>2. PICK T : T = received'[id] OBVIOUS
<1>3. TypeOK => S \in SUBSET Files BY <1>1 DEF TypeOK
<1>4. TypeOK' => T \in SUBSET Files BY <1>2 DEF TypeOK
<1> QED BY <1>1, <1>2, <1>3, <1>4, SizesNat DEF Stored

\* A step that leaves a transfer's counter, receipts and upload alone.
LEMMA StaysWithin ==
  ASSUME NEW id \in Ids, Within(id), bytes'[id] = bytes[id], received'[id] = received[id],
         \A v \in Uploads : /\ Holds(v, id)' <=> Holds(v, id)
                            /\ Holds(v, id) => up'[v].got = up[v].got
  PROVE  Within(id)'
  BY DEF Within, Stored

\* The lock is released, and the counter is what is stored.
LEMMA LeavesWithin ==
  ASSUME TypeOK', NEW id \in Ids,
         bytes'[id] # None => bytes'[id] <= Stored(id)'
  PROVE  Within(id)'
<1>1. Stored(id)' \in Nat BY StoredNat
<1>2. \A v \in Uploads : up'[v].got \in Nat BY DEF TypeOK
<1>3. bytes'[id] \in Nat \cup {None} BY DEF TypeOK
<1> QED BY <1>1, <1>2, <1>3 DEF Within

\* Uploads count on top of what is stored, take back what they discard, and commit what
\* they have counted.
LEMMA WithinStep ==
  ASSUME TypeOK, TypeOK', TakesTurns, NotYetReceived, GotInPhase, [Next]_vars, drops' = 0,
         NEW id \in Ids, Within(id)
  PROVE  Halfway(id)' \/ Within(id)'
<1> USE LegacyAssumption DEF vars, tables
<1>b. /\ bytes \in [Ids -> Nat \cup {None}] /\ received \in [Ids -> SUBSET Files]
      /\ up \in [Uploads -> [st : Phases, f : Files \cup {None}, tok : 0 .. MaxTokens, got : Nat]]
      /\ \A u \in Uploads : up[u].st # "free" => up[u].f \in Files
  BY DEF TypeOK, Idle
<1>c. Stored(id) \in Nat /\ Stored(id)' \in Nat BY StoredNat
<1>d. drops \in Nat BY DEF TypeOK
<1>a. ASSUME UNCHANGED <<bytes, received, up>> PROVE Within(id)'
  BY <1>a DEF Within, Stored, Holds
<1>1. ASSUME NEW i \in Ids, DecisionStep(i) PROVE Halfway(id)' \/ Within(id)'
  <2>1. CASE Hour(i) \/ Request(i) \/ accept_transfer(i) \/ reject_transfer(i)
    BY <2>1, <1>a DEF Hour, Request, accept_transfer, reject_transfer
  <2>3. CASE Expire(i)
    <3>1. up' = up BY <2>3 DEF Expire
    <3>2. CASE i = id /\ deciding.at = 5
      BY <2>3, <3>2, RemovalMoves DEF Halfway
    <3>3. CASE i = id /\ deciding.at = 6
      <4>1. bytes'[id] = None BY <1>b, <2>3, <3>3 DEF Expire
      <4> QED BY <4>1 DEF Within
    <3>4. CASE i # id \/ deciding.at \notin {5, 6}
      <4>1. bytes'[id] = bytes[id] /\ received'[id] = received[id] BY <1>b, <2>3, <3>4 DEF Expire
      <4> QED BY <3>1, <4>1, StaysWithin DEF Holds
    <3> QED BY <3>2, <3>3, <3>4
  <2>2. CASE cancel_transfer(i)
    <3>1. /\ bytes' = [bytes EXCEPT ![i] = None] /\ up' = up
          /\ received' = [received EXCEPT ![i] = {}]
      BY <2>2 DEF cancel_transfer
    <3>2. CASE i = id BY <1>b, <3>1, <3>2 DEF Within
    <3>3. CASE i # id
      <4>1. bytes'[id] = bytes[id] /\ received'[id] = received[id] BY <1>b, <3>1, <3>3
      <4> QED BY <3>1, <4>1, StaysWithin DEF Holds
    <3> QED BY <3>2, <3>3
  <2> QED BY <1>1, <2>1, <2>2, <2>3 DEF DecisionStep
<1>2. CASE RequestRefused \/ \E trusted \in BOOLEAN : Registered(trusted)
  BY <1>2, <1>a DEF RequestRefused, Registered
<1>3. CASE RequestDropped \/ \E u \in Uploads : Drop(u)
  BY <1>3, <1>d DEF RequestDropped, Drop
<1>4. ASSUME NEW u \in Uploads, UploadStep(u), ~Drop(u) PROVE Within(id)'
  <2> DEFINE f == up[u].f  r == up'[u]
  <2>o. ASSUME NEW v \in Uploads, v # u PROVE up'[v] = up[v]
    <3>1. \E e : up' = [up EXCEPT ![u] = e]
      BY <1>4 DEF UploadStep, Upload, Lock, UploadEnds, Open, Block, Abort, Interrupted, BodyEnd,
                  CommitRefused, Commit, Discard, Release
    <3> QED BY <1>b, <3>1, <2>o
  \* Another transfer than the upload's.
  <2>e. ASSUME Session[f] # id, ~Idle(u), r = Free \/ (r.f = f /\ r.st # "free"),
               bytes'[id] = bytes[id], received'[id] = received[id]
        PROVE  Within(id)'
    <3>1. ~Holds(u, id) /\ ~Holds(u, id)' BY <2>e DEF Holds, Free, Locked
    <3>2. \A v \in Uploads : /\ Holds(v, id)' <=> Holds(v, id)
                             /\ Holds(v, id) => up'[v].got = up[v].got
      BY <2>o, <3>1 DEF Holds
    <3> QED BY <2>e, <3>2, StaysWithin
  \* The upload's own transfer; it ends with nothing counted, or takes back what it has.
  <2>z. ASSUME Session[f] = id, Holds(u, id), received' = received,
               \/ bytes' = bytes /\ up[u].got = 0
               \/ rollback_file_bytes(id, up[u].got)
        PROVE  Within(id)'
    <3>1. bytes[id] # None => bytes[id] <= Stored(id) + up[u].got BY <2>z DEF Within
    <3>2. Stored(id)' = Stored(id) BY <2>z DEF Stored
    <3>3. up[u].got \in Nat BY <1>b
    <3>4. bytes'[id] # None => bytes'[id] <= Stored(id)'
      BY <1>b, <1>c, <2>z, <3>1, <3>2, <3>3 DEF rollback_file_bytes
    <3> QED BY <3>4, LeavesWithin
  <2>1. ASSUME NEW g \in Files, Upload(u, g) PROVE Within(id)'
    <3>1. ~Holds(u, id) /\ ~Holds(u, id)' BY <1>b, <2>1 DEF Upload, Holds, Idle, Locked
    <3>2. \A v \in Uploads : /\ Holds(v, id)' <=> Holds(v, id)
                             /\ Holds(v, id) => up'[v].got = up[v].got
      BY <2>o, <3>1 DEF Holds
    <3> QED BY <2>1, <3>2, StaysWithin DEF Upload
  <2>d. ASSUME up[u].st \in {"body", "commit"}, Discard(u) PROVE Within(id)'
    <3>1. r = Free BY <1>b, <2>d DEF Discard, Release
    <3>2. f \in Files /\ Session[f] \in Ids /\ ~Idle(u) BY <1>b, <2>d DEF Idle
    <3>3. CASE Session[f] = id
      BY <2>d, <2>z, <3>3 DEF Discard, Holds, Locked
    <3>4. CASE Session[f] # id
      <4>1. bytes'[id] = bytes[id] /\ received' = received
        BY <1>b, <2>d, <3>2, <3>4 DEF Discard, rollback_file_bytes
      <4> QED BY <2>e, <3>1, <3>2, <3>4, <4>1
    <3> QED BY <3>3, <3>4
  \* An upload that counted nothing ends.
  <2>f. ASSUME up[u].st = "checked", Release(u), UNCHANGED <<bytes, received>> PROVE Within(id)'
    <3>1. r = Free BY <1>b, <2>f DEF Release
    <3>2. ~Idle(u) /\ up[u].got = 0 BY <2>f DEF Idle, GotInPhase
    <3>3. CASE Session[f] = id BY <2>f, <2>z, <3>2, <3>3 DEF Holds, Locked
    <3>4. CASE Session[f] # id BY <2>e, <2>f, <3>1, <3>2, <3>4
    <3> QED BY <3>3, <3>4
  <2>2. CASE Lock(u)
    <3>1. ~Idle(u) /\ UNCHANGED <<bytes, received>> /\ up[u].got = 0 /\ up[u].st = "queued"
      BY <2>2 DEF Lock, Idle, GotInPhase
    <3>2. r = Free \/ (r.f = f /\ r.st = "checked") BY <1>b, <2>2 DEF Lock, Release
    <3>3. CASE Session[f] = id
      <4>1. \A v \in Uploads : ~Holds(v, id)
        <5> SUFFICES ASSUME NEW v \in Uploads, Holds(v, id) PROVE FALSE OBVIOUS
        <5>1. Serves(v, id) /\ up[v].st \in Locked BY DEF Holds, Serves, Idle, Locked
        <5> QED BY <2>2, <3>3, <5>1 DEF Lock
      <4>2. bytes[id] # None => bytes[id] <= Stored(id) BY <4>1 DEF Within
      <4>3. Stored(id)' = Stored(id) BY <3>1 DEF Stored
      <4> QED BY <3>1, <4>2, <4>3, LeavesWithin
    <3>4. CASE Session[f] # id BY <2>e, <3>1, <3>2, <3>4
    <3> QED BY <3>3, <3>4
  <2>3. CASE UploadEnds(u) BY <2>3, <2>f DEF UploadEnds
  <2>4. CASE Open(u)
    <3>1. CASE Release(u) BY <2>4, <2>f, <3>1 DEF Open
    <3>2. CASE up' = [up EXCEPT ![u].st = "body"]
      <4>1. r.f = f /\ r.got = up[u].got /\ r.st = "body" /\ up[u].st = "checked"
        BY <1>b, <2>4, <3>2 DEF Open
      <4>2. \A v \in Uploads : /\ Holds(v, id)' <=> Holds(v, id)
                               /\ Holds(v, id) => up'[v].got = up[v].got
        BY <2>o, <4>1 DEF Holds, Locked
      <4> QED BY <2>4, <4>2, StaysWithin DEF Open
    <3> QED BY <2>4, <3>1, <3>2 DEF Open
  <2>5. CASE Block(u)
    <3>1. /\ r.f = f /\ r.got = up[u].got + 1 /\ r.st = "body" /\ up[u].st = "body"
          /\ received' = received /\ f \in Files /\ Session[f] \in Ids
      BY <1>b, <2>5 DEF Block
    <3>2. bytes' = [bytes EXCEPT ![Session[f]] = IF @ = None THEN 1 ELSE @ + 1] BY <2>5 DEF Block
    <3>3. CASE Session[f] = id
      <4>1. Holds(u, id) /\ Holds(u, id)' BY <3>1, <3>3 DEF Holds, Locked
      <4>2. \A v \in Uploads : Holds(v, id)' => v = u
        BY <2>o, <3>1, <3>3 DEF Holds, TakesTurns, Locked
      <4>3. bytes'[id] = IF bytes[id] = None THEN 1 ELSE bytes[id] + 1 BY <1>b, <3>2, <3>3
      <4>4. bytes[id] # None => bytes[id] <= Stored(id) + up[u].got BY <4>1 DEF Within
      <4>5. Stored(id)' = Stored(id) /\ up[u].got \in Nat BY <1>b, <3>1 DEF Stored
      <4>6. bytes'[id] <= Stored(id)' + r.got BY <1>b, <1>c, <3>1, <4>3, <4>4, <4>5
      <4> QED BY <4>1, <4>2, <4>6 DEF Within
    <3>4. CASE Session[f] # id
      <4>1. bytes'[id] = bytes[id] BY <1>b, <3>1, <3>2, <3>4
      <4> QED BY <2>e, <3>1, <3>4, <4>1 DEF Idle
    <3> QED BY <3>3, <3>4
  <2>6. CASE Abort(u) \/ Interrupted(u) \/ CommitRefused(u)
    BY <2>6, <2>d DEF Abort, Interrupted, CommitRefused
  <2>7. CASE BodyEnd(u)
    <3>1. CASE up' = [up EXCEPT ![u].st = "commit"] /\ UNCHANGED <<bytes, received>>
      <4>1. r.f = f /\ r.got = up[u].got /\ r.st = "commit" /\ up[u].st = "body"
        BY <1>b, <2>7, <3>1 DEF BodyEnd
      <4>2. \A v \in Uploads : /\ Holds(v, id)' <=> Holds(v, id)
                               /\ Holds(v, id) => up'[v].got = up[v].got
        BY <2>o, <4>1 DEF Holds, Locked
      <4> QED BY <3>1, <4>2, StaysWithin
    <3> QED BY <2>7, <2>d, <3>1 DEF BodyEnd
  <2>8. CASE Commit(u)
    <3>1. /\ r = Free /\ up[u].st = "commit" /\ ~Idle(u) /\ f \in Files /\ Session[f] \in Ids
          /\ received' = [received EXCEPT ![Session[f]] = @ \cup {f}]
      BY <1>b, <2>8 DEF Commit, Release, Idle
    <3>2. bytes' = bytes \/ bytes' = [bytes EXCEPT ![Session[f]] = None] BY <2>8 DEF Commit
    <3>3. CASE Session[f] = id
      <4>1. PICK S : S = received'[id] OBVIOUS
      <4>2. S = received[id] \cup {f} /\ f \notin received[id] /\ S \in SUBSET Files
        BY <1>b, <3>1, <3>3, <4>1 DEF NotYetReceived
      <4>3. PICK e : e = f OBVIOUS
      <4>4. SumFunctionOnSet(Size, S) = Size[e] + SumFunctionOnSet(Size, S \ {e})
        <5>1. IsFiniteSet(S) /\ (\A x \in S : Size[x] \in Nat) /\ e \in S BY <4>2, <4>3, FS_Subset
        <5> QED BY <5>1, SumRemove
      <4>5. S \ {e} = received[id] BY <4>2, <4>3
      <4>6. Stored(id)' = Size[f] + Stored(id) BY <4>1, <4>3, <4>4, <4>5 DEF Stored
      <4>7. up[u].got = Size[f] /\ Size[f] \in Nat BY <3>1 DEF GotInPhase
      <4>8. bytes[id] # None => bytes[id] <= Stored(id) + up[u].got
        BY <3>1, <3>3 DEF Within, Holds, Locked
      <4>9. bytes'[id] = None \/ bytes'[id] = bytes[id] BY <1>b, <3>2
      <4>10. bytes'[id] # None => bytes'[id] <= Stored(id)' BY <1>b, <1>c, <4>6, <4>7, <4>8, <4>9
      <4> QED BY <4>10, LeavesWithin
    <3>4. CASE Session[f] # id
      <4>1. bytes'[id] = bytes[id] /\ received'[id] = received[id] BY <1>b, <3>1, <3>2, <3>4
      <4> QED BY <2>e, <3>1, <3>4, <4>1
    <3> QED BY <3>3, <3>4
  <2> QED BY <1>4, <2>1, <2>2, <2>3, <2>4, <2>5, <2>6, <2>7, <2>8 DEF UploadStep
<1>5. CASE UNCHANGED vars BY <1>5, <1>a
<1> QED BY <1>1, <1>2, <1>3, <1>4, <1>5 DEF Next

\* The request that has emptied received_files goes on to transfer_bytes; uploads that
\* count meanwhile leave it where it is.
LEMMA HalfwayStep ==
  ASSUME TypeOK, RemovalInOrder, [Next]_vars, drops' = 0, NEW id \in Ids, Halfway(id)
  PROVE  Halfway(id)' \/ Within(id)'
<1>d. drops \in Nat /\ bytes \in [Ids -> Nat \cup {None}] BY LegacyAssumption DEF TypeOK
<1>n. deciding # None /\ deciding.now = id /\ deciding.at = 6 /\ id # None
  BY LegacyAssumption DEF Halfway
<1>r. deciding.rest # {} BY <1>n DEF RemovalInOrder
<1>a. ASSUME UNCHANGED deciding PROVE Halfway(id)' BY <1>a DEF Halfway
<1>1. ASSUME NEW i \in Ids, DecisionStep(i) PROVE Halfway(id)' \/ Within(id)'
  <2>1. CASE Hour(i) BY <2>1, <1>a DEF Hour
  <2>2. CASE Expire(i)
    <3>1. i = id BY <2>2, <1>n DEF Expire
    <3>2. bytes'[id] = None BY <1>d, <1>n, <2>2, <3>1 DEF Expire
    <3> QED BY <3>2 DEF Within
  <2> QED BY <1>1, <1>n, <2>1, <2>2
        DEF DecisionStep, Request, accept_transfer, reject_transfer, cancel_transfer
<1>2. CASE RequestRefused \/ \E trusted \in BOOLEAN : Registered(trusted)
  BY <1>2, <1>r DEF RequestRefused, Registered
<1>3. CASE RequestDropped BY <1>3, <1>d DEF RequestDropped
<1>4. ASSUME NEW u \in Uploads, UploadStep(u) PROVE Halfway(id)'
  BY <1>4, <1>a DEF UploadStep, Upload, Lock, UploadEnds, Open, Block, Abort, Interrupted, BodyEnd,
                    CommitRefused, Commit, Drop, Discard
<1>5. CASE UNCHANGED vars BY <1>5, <1>a DEF vars
<1> QED BY <1>1, <1>2, <1>3, <1>4, <1>5 DEF Next

ProgressInv == GotInPhase /\ (drops = 0 => \A id \in Ids : Halfway(id) \/ Within(id))

\* The uploads that have a transfer's lock are one or none, so their sum is simple.
LEMMA CountedIs ==
  ASSUME TypeOK, TakesTurns, NEW id \in Ids, Within(id), bytes[id] # None
  PROVE  bytes[id] <= Counted(id)
<1> DEFINE L == {v \in Uploads : Serves(v, id) /\ up[v].st \in Locked}
<1>1. \A v \in Uploads : v \in L <=> Holds(v, id) BY DEF Holds, Serves, Idle, Locked
<1>2. PICK w : w = [v \in Uploads |-> up[v].got] OBVIOUS
<1>3. PICK H : H = L OBVIOUS
<1>4. Counted(id) = Stored(id) + SumFunctionOnSet(w, H) BY <1>2, <1>3 DEF Counted, Stored
<1>5. Stored(id) \in Nat /\ bytes[id] \in Nat BY StoredNat DEF TypeOK
<1> HIDE DEF L
<1>6. CASE H = {}
  <2>1. SumFunctionOnSet(w, H) = 0 BY <1>6, FS_EmptySet, SumStep
  <2>2. bytes[id] <= Stored(id) BY <1>1, <1>3, <1>6 DEF Within
  <2> QED BY <1>4, <1>5, <2>1, <2>2
<1>7. CASE H # {}
  <2>1. PICK u \in Uploads : u \in H BY <1>3, <1>7 DEF L
  <2>2. Holds(u, id) BY <1>1, <1>3, <2>1
  <2>3. H = {u}
    <3>1. ASSUME NEW v \in H PROVE v = u
      <4>1. v \in Uploads BY <1>3 DEF L
      <4>2. Holds(v, id) BY <1>1, <1>3, <4>1
      <4> QED BY <2>2, <4>1, <4>2 DEF TakesTurns, Holds
    <3> QED BY <2>1, <3>1
  <2>4. w[u] = up[u].got /\ up[u].got \in Nat BY <1>2, <2>1 DEF TypeOK
  <2>5. SumFunctionOnSet(w, {u}) = w[u] + SumFunctionOnSet(w, {u} \ {u})
    <3>1. IsFiniteSet({u}) /\ \A x \in {u} : w[x] \in Nat BY <2>4, FS_Singleton
    <3> QED BY <3>1, SumRemove
  <2>6. SumFunctionOnSet(w, {}) = 0 BY FS_EmptySet, SumStep
  <2>7. {u} \ {u} = {} OBVIOUS
  <2>8. SumFunctionOnSet(w, H) = up[u].got BY <2>3, <2>4, <2>5, <2>6, <2>7
  <2>9. bytes[id] <= Stored(id) + up[u].got BY <2>2 DEF Within
  <2> QED BY <1>4, <2>8, <2>9
<1> QED BY <1>6, <1>7

-----------------------------------------------------------------------------
\* The inductive invariant.
Inv == TypeOK /\ RemovalInOrder /\ TablesAgree /\ WithinCapacity /\ TakesTurns /\ NotYetReceived /\ OutcomesKnown
       /\ ReceiptsAreKept

\* Empty tables satisfy the inductive invariant.
LEMMA InitInv == Init => Inv
<1> SUFFICES ASSUME Init PROVE Inv OBVIOUS
<1> USE LegacyAssumption DEF Init
<1>1. TypeOK BY DEF TypeOK, Phases, Free, Idle
<1>2. TablesAgree /\ RemovalInOrder BY DEF TablesAgree, RemovalInOrder
<1>3. WithinCapacity BY FS_EmptySet DEF WithinCapacity
<1>4. TakesTurns /\ NotYetReceived BY DEF TakesTurns, NotYetReceived, Free, Locked
<1>5. OutcomesKnown BY DEF OutcomesKnown
<1>6. ReceiptsAreKept BY DEF ReceiptsAreKept
<1> QED BY <1>1, <1>2, <1>3, <1>4, <1>5, <1>6 DEF Inv

\* Every step keeps it.
LEMMA NextInv == Inv /\ [Next]_vars => Inv'
BY TypeStep, RemovalStep, TablesStep, CapacityStep, TurnsStep, ReceiptStep, OutcomeStep, KeptStep DEF Inv

\* The inductive invariant holds in every state of the receiver.
THEOREM Invariance == Spec => []Inv
BY InitInv, NextInv, PTL DEF Spec

\* Every table and handler of the receiver keeps its type.
THEOREM TypeCorrect == Spec => []TypeOK
<1>1. Inv => TypeOK BY DEF Inv
<1> QED BY Invariance, <1>1, PTL

\* pending, rejected and cancelled stay disjoint, a transfer with a token is neither
\* rejected nor cancelled, and it is pending unless its removal is under way or was dropped:
\* although an expired transfer is taken from one table after the other, uploads go on
\* between two of them and the request may be dropped there.
THEOREM TablesConsistent == Spec => []TablesAgree
<1>1. Inv => TablesAgree BY DEF Inv
<1> QED BY Invariance, <1>1, PTL

\* The tables never retain more transfers than the limit, those apart whose removal was
\* dropped and that were then cancelled.
THEOREM CapacityKept == Spec => []WithinCapacity
<1>1. Inv => WithinCapacity BY DEF Inv
<1> QED BY Invariance, <1>1, PTL

\* A transfer is recorded as completed or as failed, and once, however cancellation,
\* the last upload, expiry and re-use of its ID interleave.
THEOREM OutcomeUnique == Spec => []OneOutcome
<1>1. Inv => OneOutcome BY DEF Inv, OutcomesKnown, OneOutcome
<1> QED BY Invariance, <1>1, PTL

\* The history says Completed only of a transfer of which every file was received, and
\* that no cancel_transfer came through to.
THEOREM CompletionSound == Spec => []CompleteMeansReceived
<1>1. Inv => CompleteMeansReceived
  <2> SUFFICES ASSUME Inv, NEW id \in Ids, history[id]["Completed"] > 0
               PROVE  (\A f \in FilesOf(id) : kept[f] > 0) /\ id \notin cancelled
    BY DEF CompleteMeansReceived
  <2> QED BY DEF Inv, ReceiptsAreKept, OutcomesKnown
<1> QED BY Invariance, <1>1, PTL

\* A file of a transfer that has a receipt is not received again.
THEOREM IdempotentRetries == Spec => RetriesAreIdempotent
<1>1. Inv /\ [Next]_vars => [Once]_vars BY ReceivedOnce DEF Inv
<1> QED BY Invariance, <1>1, PTL DEF Spec, RetriesAreIdempotent, Once

\* Unless a handler is dropped, and until the transfer expires, transfer_bytes never exceeds
\* what was received and is being received, whatever files and sizes a transfer has and however often uploads are retried,
\* refused, stalled or interrupted.
THEOREM ProgressSound == Spec => []ProgressNotInflated
<1>1. Init => ProgressInv
  BY DEF Init, ProgressInv, GotInPhase, Within, Free
<1>2. Inv /\ Inv' /\ ProgressInv /\ [Next]_vars => ProgressInv'
  <2> SUFFICES ASSUME Inv, Inv', ProgressInv, [Next]_vars PROVE ProgressInv' OBVIOUS
  <2>1. GotInPhase' BY GotStep DEF Inv, ProgressInv
  <2>2. ASSUME drops' = 0, NEW id \in Ids PROVE Halfway(id)' \/ Within(id)'
    <3>1. drops = 0
      <4>1. drops \in Nat BY LegacyAssumption DEF Inv, TypeOK
      <4>2. drops' = drops \/ drops' = drops + 1
        BY DEF Next, DecisionStep, UploadStep, Hour, Request, Expire, accept_transfer,
               reject_transfer, cancel_transfer, RequestRefused, RequestDropped, Registered,
               Upload, Lock, UploadEnds, Open, Block, Abort, Interrupted, BodyEnd,
               CommitRefused, Commit, Drop, Discard, vars
      <4> QED BY <2>2, <4>1, <4>2
    <3> QED BY <2>2, <3>1, WithinStep, HalfwayStep DEF Inv, ProgressInv
  <2> QED BY <2>1, <2>2 DEF ProgressInv
<1>3. Inv /\ ProgressInv => ProgressNotInflated
  <2> SUFFICES ASSUME Inv, ProgressInv, drops = 0, NEW id \in Ids, id \notin Removing, bytes[id] # None
               PROVE  bytes[id] <= Counted(id)
    BY DEF ProgressNotInflated
  <2>1. Within(id) BY DEF ProgressInv, Halfway, Removing
  <2> QED BY <2>1, CountedIs DEF Inv
<1> QED BY <1>1, <1>2, <1>3, Invariance, PTL DEF Spec

=============================================================================
