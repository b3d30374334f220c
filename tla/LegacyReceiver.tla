--------------------------- MODULE LegacyReceiver ---------------------------
(***************************************************************************)
(* The v1 receiver (src/server.rs): transfer requests, decisions and       *)
(* whole-file uploads, all of it in the tables of ServerState.             *)
(*                                                                         *)
(* The mutex "decisions" orders requests, accept, reject, cancel and the   *)
(* commit of an upload.  A request first expires idle transfers: it lists  *)
(* them, then removes them one by one, from table after table, and only    *)
(* the mutex is held in between, so uploads go on and the request may be   *)
(* dropped.  Uploads of one transfer take turns on the transfer's upload   *)
(* lock; an upload is interleaved with everything else at every phase of   *)
(* its handler.                                                            *)
(*                                                                         *)
(* Simplifications:                                                        *)
(*  - the files of an ID are fixed, and requests refused without a change  *)
(*    of state (invalid, another peer, another token, an ID of a resumable *)
(*    session) are not actions, nor are the reading handlers;              *)
(*  - elsewhere tables that one handler updates one after the other change *)
(*    in one step: their locks are held for no longer than an update, and  *)
(*    a handler is dropped where it waits for the network, for "decisions" *)
(*    or for the upload lock, or while it expires transfers;               *)
(*  - a token is the number of the approval that generated it;             *)
(*  - file content is counted in blocks, and a destination is always new   *)
(*    (create_new), so only the number of files is kept.                   *)
(***************************************************************************)
EXTENDS Integers, FiniteSets, Functions

CONSTANTS
  Ids,          \* transfer IDs
  Files,        \* file IDs; each belongs to one transfer
  Session,      \* [Files -> Ids]
  Size,         \* [Files -> Nat]: declared size, in blocks
  Uploads,      \* upload handlers that may run at the same time
  None,         \* no entry in a table; nobody holds the mutex
  MaxSessions,  \* retained sessions (1024 in the code)
  MaxTokens,    \* bound on approvals in one behaviour
  MaxDrops,     \* bound on dropped handlers
  MaxBoth       \* bound on both together

ASSUME LegacyAssumption ==
  /\ IsFiniteSet(Ids) /\ IsFiniteSet(Files)
  /\ Session \in [Files -> Ids]
  /\ Size \in [Files -> Nat]
  /\ None \notin Nat \cup Ids
  /\ None \notin [id : Ids, rest : SUBSET Ids, now : Ids \cup {None}, at : 1 .. 8]
  /\ MaxSessions \in Nat /\ MaxTokens \in Nat /\ MaxDrops \in Nat /\ MaxBoth \in Nat

FilesOf(id) == {f \in Files : Session[f] = id}

VARIABLES
  pending, rejected, cancelled, completed,   \* sets of IDs
  approved,   \* approved_tokens: the token of an ID, 0 if it has none
  tokens,     \* tokens generated so far
  received,   \* received_files
  bytes,      \* transfer_bytes
  activity,   \* last_activity: none, within the last hour, or before it
  deciding,   \* a request that holds "decisions": the IDs it has yet to expire, the one
              \* it is at, and the table from which that one is removed next
  up,         \* the upload handlers
  kept,       \* files received, per file ID (history variable)
  history,    \* history records of the transfer, per outcome
  drops,
  torn        \* transfers whose removal was dropped halfway (history variable)

tables == <<pending, rejected, cancelled, completed, approved, received, bytes>>
vars == <<pending, rejected, cancelled, completed, approved, tokens, received, bytes, activity,
          deciding, up, kept, history, drops, torn>>

\* A handler waits for the upload lock, has checked its token, streams the body,
\* or waits for "decisions" with a complete file.
Phases == {"free", "queued", "checked", "body", "commit"}
Idle(u) == up[u].st = "free"
Locked  == {"checked", "body", "commit"}
Free    == [st |-> "free", f |-> None, tok |-> 0, got |-> 0]

\* Upload u is under way for transfer id: it has the Arc of its upload lock.
Serves(u, id) == ~Idle(u) /\ Session[up[u].f] = id

TypeOK ==
  /\ pending \subseteq Ids /\ rejected \subseteq Ids
  /\ cancelled \subseteq Ids /\ completed \subseteq Ids
  /\ tokens \in 0 .. MaxTokens
  /\ approved \in [Ids -> 0 .. MaxTokens]
  /\ received \in [Ids -> SUBSET Files]
  /\ bytes \in [Ids -> Nat \cup {None}]
  /\ activity \in [Ids -> {"none", "recent", "idle"}]
  /\ deciding \in [id : Ids, rest : SUBSET Ids, now : Ids \cup {None}, at : 1 .. 8] \cup {None}
  /\ up \in [Uploads -> [st : Phases, f : Files \cup {None}, tok : 0 .. MaxTokens, got : Nat]]
  /\ \A u \in Uploads : ~Idle(u) => up[u].f \in Files /\ up[u].got <= Size[up[u].f]
  /\ kept \in [Files -> Nat]
  /\ history \in [Ids -> [{"Completed", "Failed"} -> Nat]]
  /\ drops \in 0 .. MaxDrops
  /\ torn \subseteq Ids

Init ==
  /\ pending = {} /\ rejected = {} /\ cancelled = {} /\ completed = {}
  /\ approved = [id \in Ids |-> 0]
  /\ tokens = 0
  /\ received = [id \in Ids |-> {}]
  /\ bytes = [id \in Ids |-> None]
  /\ activity = [id \in Ids |-> "none"]
  /\ deciding = None
  /\ up = [u \in Uploads |-> Free]
  /\ kept = [f \in Files |-> 0]
  /\ history = [id \in Ids |-> [o \in {"Completed", "Failed"} |-> 0]]
  /\ drops = 0 /\ torn = {}

-----------------------------------------------------------------------------
(***************************************************************************)
(* Requests and decisions                                                  *)
(***************************************************************************)
\* An hour without activity.
Hour(id) ==
  /\ activity[id] = "recent"
  /\ activity' = [activity EXCEPT ![id] = "idle"]
  /\ UNCHANGED <<tables, tokens, deciding, up, kept, history, drops, torn>>

\* Transfers to expire: idle, and no upload has their lock.
Expired == {id \in Ids : activity[id] = "idle" /\ \A u \in Uploads : ~Serves(u, id)}

\* A request takes the mutex and lists what has expired.
Request(id) ==
  /\ deciding = None
  /\ deciding' = [id |-> id, rest |-> Expired, now |-> None, at |-> 1]
  /\ UNCHANGED <<tables, tokens, activity, up, kept, history, drops, torn>>

\* It removes one of them from the tables, in this order, each behind its own lock.
Expire(id) ==
  LET Without(n, S)   == IF deciding.at = n THEN S \ {id} ELSE S
      Reset(n, T, no) == IF deciding.at = n THEN [T EXCEPT ![id] = no] ELSE T
  IN
  /\ deciding # None
  /\ id \in deciding.rest /\ deciding.now \in {None, id}
  /\ pending'   = Without(1, pending)
  /\ approved'  = Reset(2, approved, 0)
  /\ rejected'  = Without(3, rejected)
  /\ cancelled' = Without(4, cancelled)
  /\ received'  = Reset(5, received, {})
  /\ bytes'     = Reset(6, bytes, None)
  /\ completed' = Without(7, completed)
  /\ activity'  = Reset(8, activity, "none")
  /\ torn'      = Without(8, torn)
  /\ deciding'  = IF deciding.at = 8
                  THEN [deciding EXCEPT !.rest = @ \ {id}, !.now = None, !.at = 1]
                  ELSE [deciding EXCEPT !.now = id, !.at = @ + 1]
  /\ UNCHANGED <<tokens, up, kept, history, drops>>

\* Used before (409), or pending already: the answer repeats what was decided.
Known(id) == id \in cancelled \cup rejected \cup pending

\* Mutant: the limit is off by one.
Full_OffByOne ==
  Cardinality(pending) + Cardinality(rejected) + Cardinality(cancelled) > MaxSessions

Full == Cardinality(pending) + Cardinality(rejected) + Cardinality(cancelled) >= MaxSessions

RequestRefused ==
  /\ deciding # None /\ deciding.rest = {}
  /\ Known(deciding.id) \/ Full
  /\ deciding' = None
  /\ UNCHANGED <<tables, tokens, activity, up, kept, history, drops, torn>>

\* The connection of a request is closed while it expires transfers or waits for a
\* lock: its future is dropped and the mutex with it, and a transfer it is at stays in
\* the tables it has not come to.
RequestDropped ==
  /\ deciding # None
  /\ drops < MaxDrops /\ tokens + drops < MaxBoth
  /\ drops' = drops + 1
  /\ deciding' = None
  /\ torn' = torn \cup ({deciding.now} \ {None})
  /\ UNCHANGED <<tables, tokens, activity, up, kept, history>>

Approve(id) ==
  /\ tokens < MaxTokens /\ tokens + drops < MaxBoth
  /\ tokens' = tokens + 1
  /\ approved' = [approved EXCEPT ![id] = tokens + 1]

\* A new transfer; a trusted host needs no decision.
Registered(trusted) ==
  /\ deciding # None /\ deciding.rest = {}
  /\ LET id == deciding.id IN
     /\ ~Known(id) /\ ~Full
     /\ pending' = pending \cup {id}
     /\ activity' = [activity EXCEPT ![id] = "recent"]
     /\ IF trusted THEN Approve(id) ELSE UNCHANGED <<tokens, approved>>
     /\ history' = [history EXCEPT ![id] = [o \in {"Completed", "Failed"} |-> 0]]
  /\ deciding' = None
  /\ UNCHANGED <<rejected, cancelled, completed, received, bytes, up, kept, drops, torn>>

\* Accepting again returns the same token.
accept_transfer(id) ==
  /\ deciding = None
  /\ id \in pending \ (completed \cup cancelled)
  /\ approved[id] = 0
  /\ Approve(id)
  /\ rejected' = rejected \ {id}
  /\ UNCHANGED <<pending, cancelled, completed, received, bytes, activity, deciding, up, kept,
                 history, drops, torn>>

reject_transfer(id) ==
  /\ deciding = None
  /\ id \in pending \ (completed \cup cancelled)
  /\ approved[id] = 0
  /\ rejected' = rejected \cup {id}
  /\ pending' = pending \ {id}
  /\ UNCHANGED <<cancelled, completed, approved, tokens, received, bytes, activity, deciding,
                 up, kept, history, drops, torn>>

\* Mutant: a completed transfer, which stays in pending_transfers, is cancelled.
cancel_transfer_Completed(id) ==
  /\ deciding = None
  /\ id \in pending \/ approved[id] # 0
  /\ cancelled' = cancelled \cup {id}
  /\ pending' = pending \ {id}
  /\ approved' = [approved EXCEPT ![id] = 0]
  /\ received' = [received EXCEPT ![id] = {}]
  /\ bytes' = [bytes EXCEPT ![id] = None]
  /\ history' = IF id \in pending THEN [history EXCEPT ![id]["Failed"] = @ + 1] ELSE history
  /\ UNCHANGED <<rejected, completed, tokens, activity, deciding, up, kept, drops, torn>>

cancel_transfer(id) ==
  /\ deciding = None
  /\ id \notin completed
  /\ id \in pending \/ approved[id] # 0
  /\ cancelled' = cancelled \cup {id}
  /\ pending' = pending \ {id}
  /\ approved' = [approved EXCEPT ![id] = 0]
  /\ received' = [received EXCEPT ![id] = {}]
  /\ bytes' = [bytes EXCEPT ![id] = None]
  /\ history' = IF id \in pending THEN [history EXCEPT ![id]["Failed"] = @ + 1] ELSE history
  /\ UNCHANGED <<rejected, completed, tokens, activity, deciding, up, kept, drops, torn>>

-----------------------------------------------------------------------------
(***************************************************************************)
(* chunk_upload_handler                                                    *)
(***************************************************************************)
Release(u) == up' = [up EXCEPT ![u] = Free]
Touch(id)  == activity' = [activity EXCEPT ![id] = "recent"]

\* POST /chunk with the token the transfer has now.
Upload(u, f) ==
  /\ Idle(u)
  /\ approved[Session[f]] # 0
  /\ up' = [up EXCEPT ![u] = [st |-> "queued", f |-> f, tok |-> approved[Session[f]], got |-> 0]]
  /\ UNCHANGED <<tables, tokens, activity, deciding, kept, history, drops, torn>>

\* Mutant: uploads of a transfer do not take turns.
Lock_NoTurn(u) ==
  LET id == Session[up[u].f] IN
  /\ up[u].st = "queued"
  /\ IF id \in cancelled \/ approved[id] # up[u].tok
     THEN Release(u)
     ELSE up' = [up EXCEPT ![u].st = "checked"]
  /\ UNCHANGED <<tables, tokens, activity, deciding, kept, history, drops, torn>>

\* Its turn on the upload lock; a cancelled transfer (410) or another token (401) ends it.
Lock(u) ==
  LET id == Session[up[u].f] IN
  /\ up[u].st = "queued"
  /\ \A v \in Uploads : Serves(v, id) => up[v].st \notin Locked
  /\ IF id \in cancelled \/ approved[id] # up[u].tok
     THEN Release(u)
     ELSE up' = [up EXCEPT ![u].st = "checked"]
  /\ UNCHANGED <<tables, tokens, activity, deciding, kept, history, drops, torn>>

\* No such transfer any more (404), or a file it has already (200).
UploadEnds(u) ==
  LET id == Session[up[u].f] IN
  /\ up[u].st = "checked"
  /\ id \notin pending \/ up[u].f \in received[id]
  /\ Release(u)
  /\ UNCHANGED <<tables, tokens, activity, deciding, kept, history, drops, torn>>

\* A new file is created, or that fails.
Open(u) ==
  LET id == Session[up[u].f] IN
  /\ up[u].st = "checked"
  /\ id \in pending /\ up[u].f \notin received[id]
  /\ Touch(id)
  /\ up' = [up EXCEPT ![u].st = "body"] \/ Release(u)
  /\ UNCHANGED <<tables, tokens, deciding, kept, history, drops, torn>>

\* The next block is written and counted.
Block(u) ==
  LET id == Session[up[u].f] IN
  /\ up[u].st = "body"
  /\ up[u].got < Size[up[u].f]
  /\ up' = [up EXCEPT ![u].got = @ + 1]
  /\ bytes' = [bytes EXCEPT ![id] = IF @ = None THEN 1 ELSE @ + 1]
  /\ UNCHANGED <<pending, rejected, cancelled, completed, approved, tokens, received, activity,
                 deciding, kept, history, drops, torn>>

rollback_file_bytes_Forgotten(id, n) == UNCHANGED bytes   \* mutant

\* rollback_file_bytes subtracts with saturation, from an entry that exists.
rollback_file_bytes(id, n) ==
  bytes' = [bytes EXCEPT ![id] = IF @ = None THEN None ELSE IF @ > n THEN @ - n ELSE 0]

\* The handler removes its file and takes its bytes back.
Discard(u) ==
  /\ Release(u)
  /\ rollback_file_bytes(Session[up[u].f], up[u].got)
  /\ UNCHANGED <<pending, rejected, cancelled, completed, approved, tokens, received, deciding,
                 kept, history, drops, torn>>

\* A stall of 120 seconds (408), too much data (413), an I/O or stream error (500).
Abort(u) ==
  /\ up[u].st = "body"
  /\ Discard(u)
  /\ UNCHANGED activity

\* Mutant: cancellation is noticed only when the body has ended.
Interrupted_Late(u) ==
  /\ up[u].st = "commit"
  /\ Session[up[u].f] \in cancelled
  /\ Discard(u)
  /\ UNCHANGED activity

\* The poll of cancelled_transfers beside the body (410).
Interrupted(u) ==
  /\ up[u].st = "body"
  /\ Session[up[u].f] \in cancelled
  /\ Discard(u)
  /\ UNCHANGED activity

\* The body ends; a short one is discarded (400).
BodyEnd(u) ==
  /\ up[u].st = "body"
  /\ \/ /\ up[u].got # Size[up[u].f]
        /\ Discard(u)
        /\ UNCHANGED activity
     \/ /\ up[u].got = Size[up[u].f]
        /\ up' = [up EXCEPT ![u].st = "commit"]
        /\ UNCHANGED <<tables, tokens, activity, deciding, kept, history, drops, torn>>

\* Cancelled in the meantime (410).
CommitRefused(u) ==
  /\ up[u].st = "commit"
  /\ deciding = None
  /\ Session[up[u].f] \in cancelled
  /\ Discard(u)
  /\ Touch(Session[up[u].f])

\* Mutant: the transfer is complete with one file missing.
Commit_Early(u) ==
  LET f    == up[u].f
      id   == Session[f]
      all  == Cardinality(received[id] \cup {f}) + 1 >= Cardinality(FilesOf(id))
      news == all /\ id \notin completed /\ id \in pending
  IN
  /\ up[u].st = "commit"
  /\ deciding = None
  /\ id \notin cancelled
  /\ Touch(id)
  /\ received' = [received EXCEPT ![id] = @ \cup {f}]
  /\ completed' = IF all THEN completed \cup {id} ELSE completed
  /\ history' = IF news THEN [history EXCEPT ![id]["Completed"] = @ + 1] ELSE history
  /\ bytes' = IF news THEN [bytes EXCEPT ![id] = None] ELSE bytes
  /\ kept' = [kept EXCEPT ![f] = @ + 1]
  /\ Release(u)
  /\ UNCHANGED <<pending, rejected, cancelled, approved, tokens, deciding, drops, torn>>

\* The file is received; with the last one the transfer is complete, and whoever
\* enters it into "completed" announces and records that.
Commit(u) ==
  LET f    == up[u].f
      id   == Session[f]
      all  == Cardinality(received[id] \cup {f}) >= Cardinality(FilesOf(id))
      news == all /\ id \notin completed /\ id \in pending
  IN
  /\ up[u].st = "commit"
  /\ deciding = None
  /\ id \notin cancelled
  /\ Touch(id)
  /\ received' = [received EXCEPT ![id] = @ \cup {f}]
  /\ completed' = IF all THEN completed \cup {id} ELSE completed
  /\ history' = IF news THEN [history EXCEPT ![id]["Completed"] = @ + 1] ELSE history
  /\ bytes' = IF news THEN [bytes EXCEPT ![id] = None] ELSE bytes
  /\ kept' = [kept EXCEPT ![f] = @ + 1]
  /\ Release(u)
  /\ UNCHANGED <<pending, rejected, cancelled, approved, tokens, deciding, drops, torn>>

\* The connection is closed, or the server is stopped: the handler's future is
\* dropped where it is, and its file stays.
Drop(u) ==
  /\ ~Idle(u)
  /\ drops < MaxDrops /\ tokens + drops < MaxBoth
  /\ drops' = drops + 1
  /\ Release(u)
  /\ UNCHANGED <<tables, tokens, activity, deciding, kept, history, torn>>

-----------------------------------------------------------------------------
DecisionStep(id) ==
  \/ Hour(id) \/ Request(id) \/ Expire(id)
  \/ accept_transfer(id) \/ reject_transfer(id) \/ cancel_transfer(id)

UploadStep(u) ==
  \/ \E f \in Files : Upload(u, f)
  \/ Lock(u) \/ UploadEnds(u) \/ Open(u) \/ Block(u) \/ Abort(u) \/ Interrupted(u)
  \/ BodyEnd(u) \/ CommitRefused(u) \/ Commit(u) \/ Drop(u)

Next ==
  \/ \E id \in Ids : DecisionStep(id)
  \/ RequestRefused \/ RequestDropped
  \/ \E trusted \in BOOLEAN : Registered(trusted)
  \/ \E u \in Uploads : UploadStep(u)

Spec == Init /\ [][Next]_vars

\* The runtime polls ready handlers, the cancellation poll runs every 25 ms, and
\* tokio's mutexes are FIFO, so that a handler that asks for "decisions" again and
\* again gets it.  Nothing is assumed of the sender, nor of the upload lock.
Fairness ==
  /\ WF_vars(\/ \E id \in Ids : Expire(id)
             \/ RequestRefused
             \/ \E trusted \in BOOLEAN : Registered(trusted))
  /\ \A u \in Uploads : /\ WF_vars(UploadEnds(u) \/ Open(u) \/ Interrupted(u))
                        /\ SF_vars(CommitRefused(u) \/ Commit(u))
FairSpec == Spec /\ Fairness

-----------------------------------------------------------------------------
(***************************************************************************)
(* Properties                                                              *)
(***************************************************************************)
\* The transfer that a request is removing.
Removing == IF deciding = None THEN {} ELSE {deciding.now}

\* The tables of ServerState are separate locks; a request removes an expired transfer
\* from one after the other and may be dropped in between.  Still a transfer is
\* pending, rejected or cancelled, never two of them; one with a token is not rejected
\* or cancelled, and it is pending unless its removal is under way or was dropped.
TablesAgree ==
  /\ pending \cap rejected = {} /\ pending \cap cancelled = {} /\ rejected \cap cancelled = {}
  /\ \A id \in Ids : approved[id] # 0 => /\ id \notin rejected \cup cancelled
                                        /\ id \in pending \cup torn \cup Removing

\* "Bound retained sessions": accept, reject and cancel move a transfer between the
\* tables after the request has counted them.  Only the token that a dropped removal
\* has left lets cancel_transfer enter a transfer that was not counted.
WithinCapacity ==
  Cardinality(pending) + Cardinality(rejected) + Cardinality(cancelled \ torn) <= MaxSessions

\* cancel_transfer and the commit of the last file race for the transfer: one
\* history record and one event, never both and never twice.
OneOutcome == \A id \in Ids : history[id]["Completed"] + history[id]["Failed"] <= 1

\* TransferComplete is announced only when every file of the transfer is in the
\* download directory, and a completed transfer is not cancelled any more.
CompleteMeansReceived ==
  \A id \in Ids : history[id]["Completed"] > 0 =>
    /\ \A f \in FilesOf(id) : kept[f] > 0
    /\ id \notin cancelled

\* Blocks of the files received, and of those being received.
Counted(id) ==
  SumFunctionOnSet(Size, received[id])
  + SumFunctionOnSet([u \in Uploads |-> up[u].got],
                     {u \in Uploads : Serves(u, id) /\ up[u].st \in Locked})

\* "a retried file doesn't inflate transfer-wide progress": the counter never
\* exceeds what was received and what is being received, so it stays within
\* the total - as long as no handler is dropped, and until the transfer expires.
ProgressNotInflated ==
  drops = 0 => \A id \in Ids \ Removing : bytes[id] # None => bytes[id] <= Counted(id)

\* "the receiver makes repeated file IDs idempotent": retries, also concurrent ones
\* and ones after a lost reply, receive a file once.
RetriesAreIdempotent ==
  [][\A f \in Files : kept'[f] > kept[f] => f \notin received[Session[f]]]_vars

\* A cancelled transfer's uploads stop, also when the body stalls.
CancelStopsUpload ==
  \A u \in Uploads : up[u].st \in Locked /\ Session[up[u].f] \in cancelled ~> up[u].st \notin Locked

\* "never prune an active upload".
ActiveNotPruned ==
  [][\A id \in Ids : activity[id] # "none" /\ activity'[id] = "none" =>
       \A u \in Uploads : ~(Serves(u, id) /\ up[u].st \in {"body", "commit"})]_vars

=============================================================================
