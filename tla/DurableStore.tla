---------------------------- MODULE DurableStore ----------------------------
(***************************************************************************)
(* The v2 receiver: durable receive sessions (src/durable.rs, with         *)
(* save_json and hash_file of src/resumable.rs).                           *)
(*                                                                         *)
(* A session is an in-memory Record behind a mutex, mirrored by a journal  *)
(* <id>.json that every change rewrites (temp file, fsync, rename, fsync   *)
(* of the directory).  An upload appends to a part file, hashes it, and    *)
(* publishes it by hard link at the first usable name of the download      *)
(* directory.  A handler that holds the record mutex is described by       *)
(* pc[id]; every "..." -> "..." move of pc is one await point of the code, *)
(* so that other sessions, cancellation, a dropped handler future, an I/O  *)
(* error or a power failure can come in between.                           *)
(*                                                                         *)
(* Simplifications:                                                        *)
(*  - the manifest of an ID is fixed, and requests that are refused        *)
(*    without a state change (wrong owner, wrong token, wrong offset,      *)
(*    unknown file, an ID of a legacy session) are not actions;            *)
(*  - file content is counted in blocks: a part is a number of blocks and  *)
(*    whether they are the right ones, and a digest stands for a content;  *)
(*  - a dropped handler's last block or link lands before its session's   *)
(*    mutex is taken again, one caller at a time waits to cancel, and      *)
(*    forget is not called meanwhile;                                      *)
(*  - directories are one level deep: a destination is in the download     *)
(*    directory (Root), which with its state directory is durable, or in a *)
(*    directory of it that upload may have to make; what others put there  *)
(*    is durable, and directories are synced, as on Unix;                  *)
(*  - accept, reject, forget and status look a session up and lock it in   *)
(*    one step, and only handlers of HTTP requests are dropped;            *)
(*  - removing a part, whose failure the code ignores, succeeds, and a     *)
(*    destination the state directory reserves (400) is not a candidate.   *)
(***************************************************************************)
EXTENDS Naturals, FiniteSets

CONSTANTS
  Ids,          \* transfer IDs
  Files,        \* file IDs; each belongs to one transfer
  Session,      \* [Files -> Ids]: the manifest a file is listed in
  Size,         \* [Files -> Nat]: declared size, in blocks
  Digest,       \* [Files -> Contents]: the SHA-256 in the manifest
  Base,         \* [Files -> Bases]: sanitized destination name
  Bases,        \* destination names before numbering
  Dirs, Root,   \* directories of the download directory, and that directory itself
  DirOf,        \* [Bases -> Dirs \cup {Root}]: where a destination is
  Contents,     \* contents a file of the download directory may have
  Foreign,      \* the content of files that others put there
  Absent,       \* no file
  NoName,       \* no destination chosen
  NoFile,       \* no file being uploaded
  NoReg,        \* no registration in progress
  MaxIndex,     \* numbered candidates per name (1000 in the code)
  MaxSessions,  \* retained sessions (1024 in the code)
  MaxCrashes, MaxDrops, MaxIoErrors   \* bounds on the faults of one behaviour

ASSUME ConstantsAssumption ==
  /\ Session \in [Files -> Ids]
  /\ Size \in [Files -> Nat]
  /\ Digest \in [Files -> Contents]
  /\ Base \in [Files -> Bases]
  /\ Root \notin Dirs
  /\ DirOf \in [Bases -> Dirs \cup {Root}]
  /\ Foreign \in Contents
  /\ Absent \notin Contents
  /\ NoFile \notin Files
  /\ MaxIndex \in Nat
  /\ MaxSessions \in Nat
  /\ {MaxCrashes, MaxDrops, MaxIoErrors} \subseteq Nat

FilesOf(id) == {f \in Files : Session[f] = id}

\* Candidate destinations: "base", "base (1)", "base (2)", ...
Names == Bases \X (0 .. MaxIndex - 1)
Candidate(f, k) == <<Base[f], k>>
DirOfName(n) == DirOf[n[1]]
NamesIn(D) == {n \in Names : DirOfName(n) \in D}

ASSUME NoNameAssumption == NoName \notin Names

Decisions == {"None", "Pending", "Accepted", "Rejected"}

\* The journalled part of a session.  decision = "None" stands for no session
\* in memory, and for no journal file on disk.
Record == [decision  : Decisions,
           cancelled : BOOLEAN,
           complete  : BOOLEAN,
           published : [Files -> Names \cup {NoName}],
           targets   : [Files -> Names \cup {NoName}]]

Fresh(decision) == [decision  |-> decision,
                    cancelled |-> FALSE,
                    complete  |-> FALSE,
                    published |-> [f \in Files |-> NoName],
                    targets   |-> [f \in Files |-> NoName]]
NoRecord == Fresh("None")

ASSUME NoRegAssumption == NoReg \notin [id : Ids, rec : Record]

\* A part file: present, number of blocks, and whether they are right so far.
Part   == [here : BOOLEAN, len : Nat, good : BOOLEAN]
NoPart == [here |-> FALSE, len |-> 0, good |-> TRUE]

Outcomes == {"Completed", "Failed", "Rejected"}
NoHistory == [o \in Outcomes |-> 0]

\* What a caller was told about a session: by a status reply, by accept_transfer
\* returning its token, by cancel_transfer returning Ok ("removed": it also
\* promises that incomplete data is gone).
Facts == {"accepted", "complete", "cancelled", "removed"}

\* Where the holder of a session's record mutex is.  The states in Persisting
\* wait for save_json to write the current record.
Uploading  == {"body", "verify", "pick", "target", "link", "sync", "commit", "finish"}
Cancelling == {"cancel", "clean"}
Persisting == {"target", "commit", "accept", "reject", "cancel"}
Phases     == {"idle", "accept", "reject"} \cup Uploading \cup Cancelling

VARIABLES
  up,        \* the receiver is running and has loaded its journals
  mem,       \* the Record in memory, NoRecord if sessions has no such ID
  token,     \* the session's CancellationToken is set
  finished,  \* Session::finished
  pc, cur, idx,  \* the holder of the record mutex: phase, file, candidate index
  waiting,   \* a caller of cancel_transfer has set the token and waits for the mutex
  reg,       \* the holder of the registration mutex: the record whose journal is being
             \* written, or NoRecord while it waits for an existing session
  journal,   \* the Record on disk, NoRecord if there is no journal
  part,      \* the part file of each file
  dirty,     \* files whose part has bytes not synced yet
  dest,      \* the content of each name of the download directory
  maker,     \* the file whose upload linked that name, until forget (history variable)
  unsynced,  \* names whose directory entry is not synced yet
  misread,   \* files that had an existing target which could not be read, until forget
             \* (history variable)
  dirs,      \* the directories of the download directory that exist
  fresh,     \* those of dirs whose own entry is not synced yet
  lost,      \* names that went with an unsynced directory (history variable)
  detached,  \* journal writes of dropped handlers that have not landed yet
  history,   \* history records of the session, per outcome
  told,      \* Facts that callers were told (history variable)
  crashes, drops, ioErrors   \* faults so far

handlerVars == <<pc, cur, idx>>
folderVars  == <<dirs, fresh, lost>>
nameVars    == <<dest, maker, unsynced, misread, folderVars>>
diskVars    == <<part, dirty, nameVars>>
faultVars   == <<crashes, drops, ioErrors>>
vars == <<up, mem, token, finished, pc, cur, idx, waiting, reg, journal, part, dirty,
          dest, maker, unsynced, misread, dirs, fresh, lost, detached, history, told,
          crashes, drops, ioErrors>>

TypeOK ==
  /\ up \in BOOLEAN
  /\ mem \in [Ids -> Record]
  /\ token \in [Ids -> BOOLEAN]
  /\ finished \in [Ids -> BOOLEAN]
  /\ pc \in [Ids -> Phases]
  /\ cur \in [Ids -> Files \cup {NoFile}]
  /\ idx \in [Ids -> Nat]
  /\ waiting \in [Ids -> BOOLEAN]
  /\ reg \in [id : Ids, rec : Record] \cup {NoReg}
  /\ journal \in [Ids -> Record]
  /\ part \in [Files -> Part]
  /\ dirty \in SUBSET Files
  /\ dest \in [Names -> Contents \cup {Absent}]
  /\ maker \in [Names -> Files \cup {NoFile}]
  /\ unsynced \in SUBSET Names
  /\ misread \in SUBSET Files
  /\ dirs \in SUBSET Dirs
  /\ fresh \in SUBSET Dirs
  /\ lost \in SUBSET Names
  /\ detached \in SUBSET [id : Ids, rec : Record]
  /\ history \in [Ids -> [Outcomes -> Nat]]
  /\ told \in [Ids -> SUBSET Facts]
  /\ {crashes, drops, ioErrors} \subseteq Nat

\* The download directory may hold any directories and files before the receiver first runs.
Init ==
  /\ up = FALSE
  /\ mem = [id \in Ids |-> NoRecord]
  /\ token = [id \in Ids |-> FALSE]
  /\ finished = [id \in Ids |-> FALSE]
  /\ pc = [id \in Ids |-> "idle"]
  /\ cur = [id \in Ids |-> NoFile]
  /\ idx = [id \in Ids |-> 0]
  /\ waiting = [id \in Ids |-> FALSE]
  /\ reg = NoReg
  /\ journal = [id \in Ids |-> NoRecord]
  /\ part = [f \in Files |-> NoPart]
  /\ dirty = {}
  /\ dirs \in SUBSET Dirs
  /\ dest \in [Names -> Contents \cup {Absent}]
  /\ \A n \in Names : dest[n] # Absent => DirOfName(n) \in dirs \cup {Root}
  /\ maker = [n \in Names |-> NoFile]
  /\ unsynced = {} /\ misread = {} /\ fresh = {} /\ lost = {}
  /\ detached = {}
  /\ history = [id \in Ids |-> NoHistory]
  /\ told = [id \in Ids |-> {}]
  /\ crashes = 0 /\ drops = 0 /\ ioErrors = 0

-----------------------------------------------------------------------------
(***************************************************************************)
(* Helpers                                                                 *)
(***************************************************************************)
Live(rec)     == rec.decision # "None"
Terminal(rec) == rec.complete \/ rec.cancelled \/ rec.decision = "Rejected"

Registering == reg # NoReg

\* The record mutex of id can be taken.
Free(id) == up /\ Live(mem[id]) /\ pc[id] = "idle"

Enter(id, phase) == pc' = [pc EXCEPT ![id] = phase] /\ UNCHANGED <<cur, idx>>
Release(id) == /\ pc'  = [pc EXCEPT ![id] = "idle"]
               /\ cur' = [cur EXCEPT ![id] = NoFile]
               /\ idx' = [idx EXCEPT ![id] = 0]

RemovePart(f) == part' = [part EXCEPT ![f] = NoPart] /\ dirty' = dirty \ {f}
RemoveParts(id) ==
  /\ part' = [f \in Files |-> IF f \in FilesOf(id) THEN NoPart ELSE part[f]]
  /\ dirty' = dirty \ FilesOf(id)

\* hash_file: the part is the whole file the manifest declares.
Matches(f) == part[f].len = Size[f] /\ part[f].good

\* checkpoints fails for a session that has a part longer than declared.
Checkpoints(id, rec) ==
  \A f \in FilesOf(id) : rec.published[f] = NoName => part[f].len <= Size[f]

RecordHistory(id, outcome) == history' = [history EXCEPT ![id][outcome] = @ + 1]

\* What a ResumeStatus tells its reader; nothing if a part is unreadable.
Snapshot(id, rec) == {fact \in Facts : Checkpoints(id, rec) /\
  \/ fact = "accepted"  /\ rec.decision = "Accepted"
  \/ fact = "complete"  /\ rec.complete
  \/ fact = "cancelled" /\ rec.cancelled}

\* persist finished: the journal is the record in memory.
Persisted(id) == journal' = [journal EXCEPT ![id] = mem[id]]

IoError == ioErrors < MaxIoErrors /\ ioErrors' = ioErrors + 1
Drop    == drops < MaxDrops /\ drops' = drops + 1

-----------------------------------------------------------------------------
(***************************************************************************)
(* register: the registration mutex is held from the checks until the      *)
(* session is inserted; the journal is written before the session is       *)
(* visible.  A trusted source is accepted at once.                         *)
(***************************************************************************)
\* Mutant: the limit is one too high.
Register_OverLimit(id, decision) ==
  /\ up /\ reg = NoReg
  /\ ~Live(mem[id])
  /\ Cardinality({i \in Ids : Live(mem[i])}) <= MaxSessions
  /\ reg' = [id |-> id, rec |-> Fresh(decision)]
  /\ UNCHANGED <<up, mem, token, finished, handlerVars, waiting, journal, diskVars,
                 detached, history, told, faultVars>>

Register(id, decision) ==
  /\ up /\ reg = NoReg
  /\ ~Live(mem[id])
  /\ Cardinality({i \in Ids : Live(mem[i])}) < MaxSessions
  /\ reg' = [id |-> id, rec |-> Fresh(decision)]
  /\ UNCHANGED <<up, mem, token, finished, handlerVars, waiting, journal, diskVars,
                 detached, history, told, faultVars>>

RegisterDone ==
  /\ Registering /\ Live(reg.rec)
  /\ reg' = NoReg
  /\ journal' = [journal EXCEPT ![reg.id] = reg.rec]
  /\ mem' = [mem EXCEPT ![reg.id] = reg.rec]
  /\ token' = [token EXCEPT ![reg.id] = FALSE]
  /\ finished' = [finished EXCEPT ![reg.id] = FALSE]
  /\ history' = [history EXCEPT ![reg.id] = NoHistory]
  /\ told' = [told EXCEPT ![reg.id] = @ \cup Snapshot(reg.id, reg.rec)]
  /\ UNCHANGED <<up, handlerVars, waiting, diskVars, detached, faultVars>>

\* A registration of an ID that has a session: the handler waits for the
\* session's mutex while it holds the registration mutex, then answers with a
\* snapshot, as status does.
RegisterAgain(id) ==
  /\ up /\ reg = NoReg
  /\ Live(mem[id])
  /\ reg' = [id |-> id, rec |-> NoRecord]
  /\ UNCHANGED <<up, mem, token, finished, handlerVars, waiting, journal, diskVars,
                 detached, history, told, faultVars>>

RegisterAgainDone ==
  /\ Registering /\ ~Live(reg.rec)
  /\ Free(reg.id)
  /\ reg' = NoReg
  /\ told' = [told EXCEPT ![reg.id] = @ \cup Snapshot(reg.id, mem[reg.id])]
  /\ UNCHANGED <<up, mem, token, finished, handlerVars, waiting, journal, diskVars,
                 detached, history, faultVars>>

\* save_json failed, before or after the rename: no session is inserted.
RegisterFails ==
  /\ Registering /\ Live(reg.rec)
  /\ IoError
  /\ reg' = NoReg
  /\ \/ UNCHANGED journal
     \/ journal' = [journal EXCEPT ![reg.id] = reg.rec]
  /\ UNCHANGED <<up, mem, token, finished, handlerVars, waiting, diskVars, detached,
                 history, told, crashes, drops>>

\* The handler is dropped while save_json runs: the write goes on by itself.
RegisterDropped ==
  /\ Registering
  /\ Drop
  /\ reg' = NoReg
  /\ detached' = IF Live(reg.rec) THEN detached \cup {reg} ELSE detached
  /\ UNCHANGED <<up, mem, token, finished, handlerVars, waiting, journal, diskVars,
                 history, told, crashes, ioErrors>>

-----------------------------------------------------------------------------
(***************************************************************************)
(* Local decisions: accept_transfer and reject_transfer                    *)
(***************************************************************************)
Accept(id) ==
  /\ Free(id)
  /\ ~Terminal(mem[id])
  /\ mem' = [mem EXCEPT ![id].decision = "Accepted"]
  /\ Enter(id, "accept")
  /\ UNCHANGED <<up, token, finished, waiting, reg, journal, diskVars, detached,
                 history, told, faultVars>>

\* Mutant: the caller gets its token before the journal is written.
AcceptDone_Unsaved(id) ==
  /\ pc[id] = "accept"
  /\ told' = [told EXCEPT ![id] = @ \cup {"accepted"}]
  /\ Release(id)
  /\ UNCHANGED <<up, mem, token, finished, waiting, reg, journal, diskVars, detached,
                 history, faultVars>>

AcceptDone(id) ==
  /\ pc[id] = "accept"
  /\ Persisted(id)
  /\ told' = [told EXCEPT ![id] = @ \cup {"accepted"}]
  /\ Release(id)
  /\ UNCHANGED <<up, mem, token, finished, waiting, reg, diskVars, detached, history,
                 faultVars>>

\* Only the decision is checked: a cancelled session that was never accepted
\* can still be rejected.
Reject(id) ==
  /\ Free(id)
  /\ mem[id].decision = "Pending"
  /\ mem' = [mem EXCEPT ![id].decision = "Rejected"]
  /\ Enter(id, "reject")
  /\ UNCHANGED <<up, token, finished, waiting, reg, journal, diskVars, detached,
                 history, told, faultVars>>

RejectDone(id) ==
  /\ pc[id] = "reject"
  /\ Persisted(id)
  /\ RecordHistory(id, "Rejected")
  /\ Release(id)
  /\ UNCHANGED <<up, mem, token, finished, waiting, reg, diskVars, detached, told,
                 faultVars>>

-----------------------------------------------------------------------------
(***************************************************************************)
(* cancel_transfer: the token is set first, without the mutex, so that an  *)
(* upload that holds the mutex stops; the rest runs under the mutex.       *)
(***************************************************************************)
\* Mutant: the token is not set before the mutex is awaited.
CancelRequest_NoToken(id) ==
  /\ up /\ Live(mem[id]) /\ ~waiting[id]
  /\ ~finished[id]
  /\ waiting' = [waiting EXCEPT ![id] = TRUE]
  /\ UNCHANGED <<up, mem, token, finished, handlerVars, reg, journal, diskVars, detached,
                 history, told, faultVars>>

CancelRequest(id) ==
  /\ up /\ Live(mem[id]) /\ ~waiting[id]
  /\ ~finished[id]
  /\ token' = [token EXCEPT ![id] = TRUE]
  /\ waiting' = [waiting EXCEPT ![id] = TRUE]
  /\ UNCHANGED <<up, mem, finished, handlerVars, reg, journal, diskVars, detached,
                 history, told, faultVars>>

\* The mutex was obtained, but the session is complete, already cancelled
\* (which answers Ok), or has an unreadable checkpoint.
CancelAnswered(id) ==
  /\ Free(id) /\ waiting[id]
  /\ mem[id].complete \/ mem[id].cancelled \/ ~Checkpoints(id, mem[id])
  /\ waiting' = [waiting EXCEPT ![id] = FALSE]
  /\ told' = [told EXCEPT ![id] =
                IF ~mem[id].complete /\ mem[id].cancelled
                THEN @ \cup {"cancelled", "removed"} ELSE @]
  /\ UNCHANGED <<up, mem, token, finished, handlerVars, reg, journal, diskVars,
                 detached, history, faultVars>>

\* Mutant: completion is not checked again under the mutex.
CancelLocked_Unchecked(id) ==
  /\ Free(id) /\ waiting[id]
  /\ ~mem[id].cancelled /\ Checkpoints(id, mem[id])
  /\ waiting' = [waiting EXCEPT ![id] = FALSE]
  /\ mem' = [mem EXCEPT ![id].cancelled = TRUE]
  /\ Enter(id, "cancel")
  /\ UNCHANGED <<up, token, finished, reg, journal, diskVars, detached, history, told,
                 faultVars>>

CancelLocked(id) ==
  /\ Free(id) /\ waiting[id]
  /\ ~mem[id].complete /\ ~mem[id].cancelled /\ Checkpoints(id, mem[id])
  /\ waiting' = [waiting EXCEPT ![id] = FALSE]
  /\ mem' = [mem EXCEPT ![id].cancelled = TRUE]
  /\ Enter(id, "cancel")
  /\ UNCHANGED <<up, token, finished, reg, journal, diskVars, detached, history, told,
                 faultVars>>

CancelPersisted(id) ==
  /\ pc[id] = "cancel"
  /\ Persisted(id)
  /\ Enter(id, "clean")
  /\ UNCHANGED <<up, mem, token, finished, waiting, reg, diskVars, detached, history,
                 told, faultVars>>

\* The parts are removed one after the other.
CancelClean(id, f) ==
  /\ pc[id] = "clean"
  /\ part[f].here
  /\ RemovePart(f)
  /\ UNCHANGED <<up, mem, token, finished, handlerVars, waiting, reg, journal,
                 nameVars, detached, history, told, faultVars>>

\* Mutant: the answer does not wait for the removal.
CancelDone_PartsLeft(id) ==
  /\ pc[id] = "clean"
  /\ RecordHistory(id, "Failed")
  /\ told' = [told EXCEPT ![id] = @ \cup {"cancelled", "removed"}]
  /\ Release(id)
  /\ UNCHANGED <<up, mem, token, finished, waiting, reg, journal, diskVars, detached,
                 faultVars>>

CancelDone(id) ==
  /\ pc[id] = "clean"
  /\ \A f \in FilesOf(id) : ~part[f].here
  /\ RecordHistory(id, "Failed")
  /\ told' = [told EXCEPT ![id] = @ \cup {"cancelled", "removed"}]
  /\ Release(id)
  /\ UNCHANGED <<up, mem, token, finished, waiting, reg, journal, diskVars, detached,
                 faultVars>>

-----------------------------------------------------------------------------
(***************************************************************************)
(* upload: stream the body into the part                                   *)
(***************************************************************************)
\* Mutant: the decision is not checked.
UploadStart_Undecided(id, f) ==
  /\ Free(id)
  /\ ~mem[id].cancelled /\ ~token[id]
  /\ mem[id].published[f] = NoName
  /\ part' = [part EXCEPT ![f].here = TRUE]
  /\ pc' = [pc EXCEPT ![id] = "body"]
  /\ cur' = [cur EXCEPT ![id] = f]
  /\ UNCHANGED <<up, mem, token, finished, idx, waiting, reg, journal, dirty, nameVars,
                 detached, history, told, faultVars>>

\* The request's offset equals the length of the part (409 otherwise); the
\* part is created if it is missing.
UploadStart(id, f) ==
  /\ Free(id)
  /\ ~mem[id].cancelled /\ ~token[id]
  /\ mem[id].decision = "Accepted"
  /\ mem[id].published[f] = NoName
  /\ Checkpoints(id, mem[id])
  /\ part' = [part EXCEPT ![f].here = TRUE]
  /\ pc' = [pc EXCEPT ![id] = "body"]
  /\ cur' = [cur EXCEPT ![id] = f]
  /\ UNCHANGED <<up, mem, token, finished, idx, waiting, reg, journal, dirty, nameVars,
                 detached, history, told, faultVars>>

\* A block arrives.  The select is biased: a set token is seen first.
Chunk(id, right) ==
  LET f == cur[id] IN
  /\ pc[id] = "body" /\ ~token[id]
  /\ part[f].len < Size[f]
  /\ part' = [part EXCEPT ![f] = [here |-> TRUE, len |-> @.len + 1, good |-> @.good /\ right]]
  /\ dirty' = dirty \cup {f}
  /\ UNCHANGED <<up, mem, token, finished, handlerVars, waiting, reg, journal,
                 nameVars, detached, history, told, faultVars>>

\* More bytes than declared: the part is discarded (413).
ChunkTooLarge(id) ==
  /\ pc[id] = "body" /\ ~token[id]
  /\ part[cur[id]].len = Size[cur[id]]
  /\ RemovePart(cur[id])
  /\ Release(id)
  /\ UNCHANGED <<up, mem, token, finished, waiting, reg, journal, nameVars,
                 detached, history, told, faultVars>>

\* The token fires while the body is awaited: the part is discarded (410).
BodyCancelled(id) ==
  /\ pc[id] = "body" /\ token[id]
  /\ RemovePart(cur[id])
  /\ Release(id)
  /\ UNCHANGED <<up, mem, token, finished, waiting, reg, journal, nameVars,
                 detached, history, told, faultVars>>

\* Timeout or transport error, or the body ends short of the declared size:
\* the synced prefix is retained.
BodyInterrupted(id) ==
  /\ pc[id] = "body" /\ ~token[id]
  /\ dirty' = dirty \ {cur[id]}
  /\ Release(id)
  /\ UNCHANGED <<up, mem, token, finished, waiting, reg, journal, part, nameVars,
                 detached, history, told, faultVars>>

\* The body ends at the declared size and the part is synced.
BodyEnd(id) ==
  /\ pc[id] = "body" /\ ~token[id]
  /\ part[cur[id]].len = Size[cur[id]]
  /\ dirty' = dirty \ {cur[id]}
  /\ Enter(id, "verify")
  /\ UNCHANGED <<up, mem, token, finished, waiting, reg, journal, part, nameVars,
                 detached, history, told, faultVars>>

\* The whole part is hashed; then the token is looked at for the last time.
VerifyFails(id) ==
  /\ pc[id] = "verify"
  /\ ~Matches(cur[id]) \/ token[id]
  /\ RemovePart(cur[id])
  /\ Release(id)
  /\ UNCHANGED <<up, mem, token, finished, waiting, reg, journal, nameVars,
                 detached, history, told, faultVars>>

\* create_receive_parent: a missing directory is made, and not synced.
MakeDir(p) ==
  /\ dirs' = dirs \cup ({p} \ {Root})
  /\ fresh' = fresh \cup ({p} \ (dirs \cup {Root}))

\* Mutant: the length alone is compared.
Verified_NoHash(id) ==
  /\ pc[id] = "verify"
  /\ part[cur[id]].len = Size[cur[id]] /\ ~token[id]
  /\ MakeDir(DirOf[Base[cur[id]]])
  /\ Enter(id, "pick")
  /\ UNCHANGED <<up, mem, token, finished, waiting, reg, journal, part, dirty, dest, maker,
                 unsynced, misread, lost, detached, history, told, faultVars>>

Verified(id) ==
  /\ pc[id] = "verify"
  /\ Matches(cur[id]) /\ ~token[id]
  /\ MakeDir(DirOf[Base[cur[id]]])
  /\ Enter(id, "pick")
  /\ UNCHANGED <<up, mem, token, finished, waiting, reg, journal, part, dirty, dest, maker,
                 unsynced, misread, lost, detached, history, told, faultVars>>

-----------------------------------------------------------------------------
(***************************************************************************)
(* upload: publish the verified part                                       *)
(***************************************************************************)
\* A recorded target is tried first, whatever the index; otherwise candidate
\* number idx.  The choice is journalled before the link is made.
PickTarget(id) ==
  LET f == cur[id] IN
  /\ pc[id] = "pick" /\ idx[id] < MaxIndex
  /\ mem' = [mem EXCEPT ![id].targets[f] =
               IF @ # NoName THEN @ ELSE Candidate(f, idx[id])]
  /\ Enter(id, "target")
  /\ UNCHANGED <<up, token, finished, waiting, reg, journal, diskVars, detached, history,
                 told, faultVars>>

\* Too many filename conflicts (409): the part is kept.
PickExhausted(id) ==
  /\ pc[id] = "pick" /\ idx[id] >= MaxIndex
  /\ Release(id)
  /\ UNCHANGED <<up, mem, token, finished, waiting, reg, journal, diskVars, detached,
                 history, told, faultVars>>

TargetPersisted(id) ==
  /\ pc[id] = "target"
  /\ Persisted(id)
  /\ Enter(id, "link")
  /\ UNCHANGED <<up, mem, token, finished, waiting, reg, diskVars, detached, history,
                 told, faultVars>>

\* hard_link fails on an existing name and never replaces it.
HardLink(f, n) ==
  /\ dest[n] = Absent
  /\ dest' = [dest EXCEPT ![n] = Digest[f]]
  /\ maker' = [maker EXCEPT ![n] = f]
  /\ unsynced' = unsynced \cup {n}

Link(id) ==
  /\ pc[id] = "link"
  /\ HardLink(cur[id], mem[id].targets[cur[id]])
  /\ Enter(id, "sync")
  /\ UNCHANGED <<up, mem, token, finished, waiting, reg, journal, part, dirty, misread,
                 folderVars, detached, history, told, faultVars>>

\* The name exists with the very content of the manifest: publication before
\* a crash, or a file that was there, is reused.
LinkReuse(id) ==
  LET f == cur[id] IN
  /\ pc[id] = "link"
  /\ dest[mem[id].targets[f]] = Digest[f]
  /\ Enter(id, "sync")
  /\ UNCHANGED <<up, mem, token, finished, waiting, reg, journal, diskVars, detached,
                 history, told, faultVars>>

\* Mutant: every existing name is a conflict.
LinkConflict_Always(id) ==
  /\ pc[id] = "link"
  /\ dest[mem[id].targets[cur[id]]] # Absent
  /\ mem' = [mem EXCEPT ![id].targets[cur[id]] = NoName]
  /\ idx' = [idx EXCEPT ![id] = @ + 1]
  /\ pc' = [pc EXCEPT ![id] = "pick"]
  /\ UNCHANGED <<up, token, finished, cur, waiting, reg, journal, diskVars, detached,
                 history, told, faultVars>>

\* The name exists with another content: forget the target, next index.
LinkConflict(id) ==
  LET f == cur[id] IN
  /\ pc[id] = "link"
  /\ dest[mem[id].targets[f]] \notin {Absent, Digest[f]}
  /\ mem' = [mem EXCEPT ![id].targets[f] = NoName]
  /\ idx' = [idx EXCEPT ![id] = @ + 1]
  /\ pc' = [pc EXCEPT ![id] = "pick"]
  /\ UNCHANGED <<up, token, finished, cur, waiting, reg, journal, diskVars, detached,
                 history, told, faultVars>>

\* The name exists but cannot be read, or not as a regular file: this is taken for
\* a conflict, even if upload linked it before a crash.
LinkUnread(id) ==
  LET f == cur[id] IN
  /\ pc[id] = "link"
  /\ dest[mem[id].targets[f]] # Absent
  /\ IoError
  /\ mem' = [mem EXCEPT ![id].targets[f] = NoName]
  /\ idx' = [idx EXCEPT ![id] = @ + 1]
  /\ pc' = [pc EXCEPT ![id] = "pick"]
  /\ misread' = misread \cup {f}
  /\ UNCHANGED <<up, token, finished, cur, waiting, reg, journal, part, dirty, dest, maker,
                 unsynced, folderVars, detached, history, told, crashes, drops>>

\* Mutant: the directory is not synced.
DirSynced_NoSync(id) ==
  LET f   == cur[id]
      pub == [mem[id].published EXCEPT ![f] = mem[id].targets[f]] IN
  /\ pc[id] = "sync"
  /\ mem' = [mem EXCEPT ![id].published = pub,
                        ![id].complete = \A g \in FilesOf(id) : pub[g] # NoName]
  /\ Enter(id, "commit")
  /\ UNCHANGED <<up, token, finished, waiting, reg, journal, diskVars, detached, history,
                 told, faultVars>>

\* The directory of the destination is synced before the receipt is recorded: its
\* entries are durable then, but its own entry only if the directory above is synced.
DirSynced(id) ==
  LET f   == cur[id]
      pub == [mem[id].published EXCEPT ![f] = mem[id].targets[f]]
      p   == DirOfName(mem[id].targets[f]) IN
  /\ pc[id] = "sync"
  /\ unsynced' = unsynced \ NamesIn({p})
  /\ fresh' = IF p = Root THEN {} ELSE fresh
  /\ mem' = [mem EXCEPT ![id].published = pub,
                        ![id].complete = \A g \in FilesOf(id) : pub[g] # NoName]
  /\ Enter(id, "commit")
  /\ UNCHANGED <<up, token, finished, waiting, reg, journal, part, dirty, dest, maker,
                 misread, dirs, lost, detached, history, told, faultVars>>

CommitPersisted(id) ==
  /\ pc[id] = "commit"
  /\ Persisted(id)
  /\ finished' = [finished EXCEPT ![id] = mem[id].complete]
  /\ Enter(id, "finish")
  /\ UNCHANGED <<up, mem, token, waiting, reg, diskVars, detached, history, told,
                 faultVars>>

UploadDone(id) ==
  /\ pc[id] = "finish"
  /\ RemovePart(cur[id])
  /\ IF mem[id].complete THEN RecordHistory(id, "Completed") ELSE UNCHANGED history
  /\ Release(id)
  /\ UNCHANGED <<up, mem, token, finished, waiting, reg, journal, nameVars,
                 detached, told, faultVars>>

-----------------------------------------------------------------------------
\* status: the reply tells what memory holds.
Status(id) ==
  /\ Free(id)
  /\ told' = [told EXCEPT ![id] = @ \cup Snapshot(id, mem[id])]
  /\ UNCHANGED <<up, mem, token, finished, handlerVars, waiting, reg, journal, diskVars,
                 detached, history, faultVars>>

(***************************************************************************)
(* forget: only for terminal sessions; parts, journal, then the session.   *)
(***************************************************************************)
Forget(id) ==
  /\ Free(id) /\ reg = NoReg /\ ~waiting[id]
  /\ Terminal(mem[id])
  /\ Live(journal[id])
  /\ RemoveParts(id)
  /\ journal' = [journal EXCEPT ![id] = NoRecord]
  /\ mem' = [mem EXCEPT ![id] = NoRecord]
  /\ token' = [token EXCEPT ![id] = FALSE]
  /\ finished' = [finished EXCEPT ![id] = FALSE]
  /\ history' = [history EXCEPT ![id] = NoHistory]
  /\ told' = [told EXCEPT ![id] = {}]
  /\ maker' = [n \in Names |-> IF maker[n] \in FilesOf(id) THEN NoFile ELSE maker[n]]
  /\ misread' = misread \ FilesOf(id)
  /\ UNCHANGED <<up, handlerVars, waiting, reg, dest, unsynced, folderVars, detached,
                 faultVars>>

\* The journal cannot be removed: the parts are gone, the session stays.
ForgetFails(id) ==
  /\ Free(id) /\ reg = NoReg /\ ~waiting[id]
  /\ Terminal(mem[id])
  /\ IoError
  /\ RemoveParts(id)
  /\ UNCHANGED <<up, mem, token, finished, handlerVars, waiting, reg, journal,
                 nameVars, detached, history, told, crashes, drops>>

-----------------------------------------------------------------------------
(***************************************************************************)
(* Faults                                                                  *)
(***************************************************************************)
\* An I/O error makes the handler return; what it changed in memory stays.
\* A failed save_json left the old journal, or the new one when only the
\* last directory sync failed.
HandlerFails(id) ==
  /\ pc[id] \in {"body", "verify", "pick", "link", "sync"} \cup Persisting
  /\ IoError
  /\ \/ UNCHANGED journal
     \/ pc[id] \in Persisting /\ Persisted(id)
  /\ Release(id)
  /\ UNCHANGED <<up, mem, token, finished, waiting, reg, diskVars, detached, history,
                 told, crashes, drops>>

\* The connection closes, or stop_server's grace period ends: the future of
\* the handler is dropped at its await point.  What it started on a blocking
\* thread is not stopped: save_json lands later, a link or the removal of a
\* published part at once or, if the machine fails first, never.
HandlerDropped(id) ==
  /\ pc[id] \in Uploading \cup Cancelling
  /\ Drop
  /\ detached' = IF pc[id] \in Persisting
                 THEN detached \cup {[id |-> id, rec |-> mem[id]]} ELSE detached
  /\ \/ UNCHANGED diskVars
     \/ /\ pc[id] = "link"
        /\ HardLink(cur[id], mem[id].targets[cur[id]])
        /\ UNCHANGED <<part, dirty, misread, folderVars>>
     \/ /\ pc[id] = "finish"
        /\ RemovePart(cur[id])
        /\ UNCHANGED nameVars
  /\ Release(id)
  /\ UNCHANGED <<up, mem, token, finished, waiting, reg, journal, history, told, crashes,
                 ioErrors>>

\* A canceller is dropped while it waits for the mutex; the token stays set.
WaiterDropped(id) ==
  /\ waiting[id]
  /\ Drop
  /\ waiting' = [waiting EXCEPT ![id] = FALSE]
  /\ UNCHANGED <<up, mem, token, finished, handlerVars, reg, journal, diskVars, detached,
                 history, told, crashes, ioErrors>>

DetachedLands(w) ==
  /\ journal' = [journal EXCEPT ![w.id] = w.rec]
  /\ detached' = detached \ {w}
  /\ UNCHANGED <<up, mem, token, finished, handlerVars, waiting, reg, diskVars, history,
                 told, faultVars>>

\* Another program, or a legacy transfer, creates a file at a free name.
OtherFile(n) ==
  /\ dest[n] = Absent
  /\ DirOfName(n) \in dirs \cup {Root}
  /\ dest' = [dest EXCEPT ![n] = Foreign]
  /\ UNCHANGED <<up, mem, token, finished, handlerVars, waiting, reg, journal, part,
                 dirty, maker, unsynced, misread, folderVars, detached, history, told,
                 faultVars>>

\* Mutant: a restart does not reload cancellation.
Start_Uncancelled ==
  /\ ~up
  /\ up' = TRUE
  /\ mem' = [id \in Ids |-> [journal[id] EXCEPT !.cancelled = FALSE]]
  /\ token' = [id \in Ids |-> FALSE]
  /\ finished' = [id \in Ids |-> journal[id].complete]
  /\ UNCHANGED <<handlerVars, waiting, reg, journal, diskVars, detached, history, told,
                 faultVars>>

\* start_server: load rebuilds the sessions from the journals.
Start ==
  /\ ~up
  /\ up' = TRUE
  /\ mem' = journal
  /\ token' = [id \in Ids |-> journal[id].cancelled]
  /\ finished' = [id \in Ids |-> journal[id].complete]
  /\ UNCHANGED <<handlerVars, waiting, reg, journal, diskVars, detached, history, told,
                 faultVars>>

Forgotten ==
  /\ mem' = [id \in Ids |-> NoRecord]
  /\ token' = [id \in Ids |-> FALSE]
  /\ finished' = [id \in Ids |-> FALSE]

\* stop_server: every handler has ended or was dropped; close clears sessions.
Stop ==
  /\ up /\ reg = NoReg
  /\ \A id \in Ids : pc[id] = "idle" /\ ~waiting[id]
  /\ up' = FALSE
  /\ Forgotten
  /\ UNCHANGED <<handlerVars, waiting, reg, journal, diskVars, detached, history, told,
                 faultVars>>

\* What a power failure may leave of a part that has bytes not synced.
Remains(p) == {[here |-> p.here, len |-> l, good |-> g] : l \in 0 .. p.len,
                                                          g \in {p.good, FALSE}}

\* Unsynced entries and part bytes may be lost, an unsynced directory with all that
\* is in it; what is left is durable.
PowerLoss ==
  /\ \E names \in SUBSET unsynced, gone \in SUBSET fresh :
       LET away == names \cup NamesIn(gone) IN
       /\ dest' = [n \in Names |-> IF n \in away THEN Absent ELSE dest[n]]
       /\ maker' = [n \in Names |-> IF n \in away THEN NoFile ELSE maker[n]]
       /\ dirs' = dirs \ gone
       /\ lost' = lost \cup NamesIn(gone)
  /\ unsynced' = {} /\ fresh' = {}
  /\ UNCHANGED misread
  /\ \E left \in [dirty -> UNION {Remains(part[f]) : f \in dirty}] :
       /\ \A f \in dirty : left[f] \in Remains(part[f])
       /\ part' = [f \in Files |-> IF f \in dirty THEN left[f] ELSE part[f]]
  /\ dirty' = {}

\* The process is killed, or the machine fails.  Journal writes under way are
\* atomic: they happened or not.
Crash ==
  /\ crashes < MaxCrashes
  /\ crashes' = crashes + 1
  /\ up' = FALSE
  /\ Forgotten
  /\ pc' = [id \in Ids |-> "idle"]
  /\ cur' = [id \in Ids |-> NoFile]
  /\ idx' = [id \in Ids |-> 0]
  /\ waiting' = [id \in Ids |-> FALSE]
  /\ reg' = NoReg
  /\ \E landed \in SUBSET {id \in Ids : pc[id] \in Persisting} :
       \/ journal' = [id \in Ids |-> IF id \in landed THEN mem[id] ELSE journal[id]]
       \/ /\ Registering /\ Live(reg.rec)
          /\ journal' = [id \in Ids |-> IF id = reg.id THEN reg.rec
                                        ELSE IF id \in landed THEN mem[id]
                                        ELSE journal[id]]
  /\ UNCHANGED diskVars \/ PowerLoss
  /\ detached' = {}
  /\ UNCHANGED <<history, told, drops, ioErrors>>

-----------------------------------------------------------------------------
\* The steps the receiver takes by itself once a handler runs.
HandlerStep(id) ==
  \/ AcceptDone(id) \/ RejectDone(id)
  \/ CancelAnswered(id) \/ CancelLocked(id) \/ CancelPersisted(id) \/ CancelDone(id)
  \/ \E f \in FilesOf(id) : CancelClean(id, f)
  \/ BodyCancelled(id) \/ VerifyFails(id) \/ Verified(id)
  \/ PickTarget(id) \/ PickExhausted(id) \/ TargetPersisted(id)
  \/ Link(id) \/ LinkReuse(id) \/ LinkConflict(id) \/ DirSynced(id)
  \/ CommitPersisted(id) \/ UploadDone(id)

\* Requests, body events and faults.
Environment(id) ==
  \/ \E d \in {"Pending", "Accepted"} : Register(id, d)
  \/ RegisterAgain(id)
  \/ Accept(id) \/ Reject(id) \/ CancelRequest(id) \/ Status(id)
  \/ Forget(id) \/ ForgetFails(id)
  \/ \E f \in FilesOf(id) : UploadStart(id, f)
  \/ \E right \in BOOLEAN : Chunk(id, right)
  \/ ChunkTooLarge(id) \/ BodyInterrupted(id) \/ BodyEnd(id)
  \/ LinkUnread(id) \/ HandlerFails(id) \/ HandlerDropped(id) \/ WaiterDropped(id)

Next ==
  \/ \E id \in Ids : HandlerStep(id) \/ Environment(id)
  \/ RegisterDone \/ RegisterAgainDone \/ RegisterFails \/ RegisterDropped
  \/ \E w \in detached : DetachedLands(w)
  \/ \E n \in Names : OtherFile(n)
  \/ Start \/ Stop \/ Crash

Spec == Init /\ [][Next]_vars

\* The runtime polls a ready handler, and tokio's mutexes are FIFO: a caller that
\* waits for one gets it after the callers before it.  Nothing is assumed of the
\* sender, whose body may stall for ever.
Fairness == /\ WF_vars(RegisterDone)
            /\ SF_vars(RegisterAgainDone)
            /\ \A id \in Ids : /\ WF_vars(HandlerStep(id))
                               /\ SF_vars(CancelAnswered(id) \/ CancelLocked(id))
FairSpec == Spec /\ Fairness

\* The 120 second limit of upload on the wait for the next chunk: a body that
\* stalls is interrupted.
IdleTimeout == \A id \in Ids : WF_vars(BodyInterrupted(id))

-----------------------------------------------------------------------------
(***************************************************************************)
(* Properties                                                              *)
(***************************************************************************)
Delivered(rec) ==
  \A f \in Files : rec.published[f] # NoName =>
    \/ /\ dest[rec.published[f]] = Digest[f]
       /\ rec.published[f] \notin unsynced
    \/ rec.published[f] \in lost

\* upload publishes and syncs before it records: every receipt, in memory, on
\* disk or in a write still under way, names a file that has the manifest's
\* content and that a power failure cannot take from its directory.  The
\* directory itself it can take, with the file, until the download directory is
\* synced: create_receive_parent does not sync what it makes.
ReceiptsAreDelivered ==
  /\ \A id \in Ids : Delivered(mem[id]) /\ Delivered(journal[id])
  /\ \A w \in detached : Delivered(w.rec)

Sound(id, rec) ==
  /\ rec.complete <=> Live(rec) /\ FilesOf(id) # {}
                       /\ \A f \in FilesOf(id) : rec.published[f] # NoName
  /\ \A f \in Files : rec.published[f] # NoName =>
       f \in FilesOf(id) /\ rec.decision = "Accepted"
  /\ rec.complete => ~rec.cancelled

\* r.complete is set exactly when all files of the manifest are published, only
\* in accepted sessions, and never together with r.cancelled - in memory, in
\* every journal a restart may load and in every write still under way.
CompleteMeansAll ==
  /\ \A id \in Ids : Sound(id, mem[id]) /\ Sound(id, journal[id])
  /\ \A w \in detached : Sound(w.id, w.rec)

\* What upload relies on at each await point: its session is still there, accepted
\* and not cancelled; from the hash to the link the part is the verified one; and
\* the name it is about to record has the verified content.  A registration in
\* progress is of an ID that still has no session.
HandlersAreSound ==
  /\ \A id \in Ids :
       /\ Live(mem[id]) => up
       /\ pc[id] # "idle" => Live(mem[id])
       /\ pc[id] \in Uploading => /\ cur[id] \in FilesOf(id)
                                 /\ mem[id].decision = "Accepted"
                                 /\ ~mem[id].cancelled
       /\ pc[id] \in {"pick", "target", "link", "sync"} => Matches(cur[id])
       /\ pc[id] \in {"target", "link", "sync"} => mem[id].targets[cur[id]] # NoName
       /\ pc[id] = "sync" => dest[mem[id].targets[cur[id]]] = Digest[cur[id]]
  /\ Registering => /\ up
                    /\ reg.rec = Fresh(reg.rec.decision)
                    /\ Live(reg.rec) => ~Live(mem[reg.id])

\* A part never outgrows the declared size (checkpoints would refuse the session
\* for good), whatever interruption, resume or crash happened.
PartWithinSize == \A f \in Files : part[f].len <= Size[f]

\* hard_link never replaces a file: what is at a name stays there, unless a
\* power failure takes back an entry, or a directory, that was not synced.
ExistingFilesAreKept ==
  [][\A n \in Names : dest[n] # Absent /\ n \notin unsynced \cup NamesIn(fresh) =>
       dest'[n] = dest[n]]_vars

\* A name appears only by an upload whose whole part matches the manifest, in a
\* session that is accepted and not cancelled at that moment.
OnlyVerifiedPublished ==
  [][\A n \in Names : maker'[n] \notin {maker[n], NoFile} =>
       LET s == mem[Session[maker'[n]]] IN
       Matches(maker'[n]) /\ s.decision = "Accepted" /\ ~s.cancelled]_vars

\* "A retry after completion does not create another destination file": no file
\* of a manifest is ever linked at two names, not even after a crash between
\* the link and the journal commit, and not by an I/O error in between - unless the
\* error hid what is at the target (LinkUnread), or a handler was dropped, whose
\* journal write may land late and bring back a target that was given up.
OneCopyPerFile ==
  drops = 0 => \A n, m \in Names :
    maker[n] = maker[m] /\ maker[n] \notin misread \cup {NoFile} => n = m

\* "Process restart reloads approval, cancellation and completion receipts":
\* what a caller was told is what a restart would load.
ToldFactsAreDurable ==
  \A id \in Ids :
    /\ "accepted"  \in told[id] => journal[id].decision = "Accepted"
    /\ "complete"  \in told[id] => journal[id].complete
    /\ "cancelled" \in told[id] => journal[id].cancelled

\* Once a caller was told that the transfer is cancelled, none of its files
\* appears in the download directory.
NothingPublishedAfterCancel ==
  [][\A n \in Names : maker'[n] \notin {maker[n], NoFile} =>
       "cancelled" \notin told[Session[maker'[n]]]]_vars

\* The receiver records a session as completed or as failed, never as both and
\* never twice.
OutcomesExclusive ==
  \A id \in Ids : history[id]["Completed"] + history[id]["Failed"] <= 1

\* cancel_transfer sets the token before it waits for the mutex, so it is
\* answered even when the body of the upload that holds the mutex stalls.  register
\* holds the registration mutex while it waits for a session's mutex, which an
\* upload may hold: new transfers and forget are blocked meanwhile, but not for
\* ever, since a stalled upload times out.
CallsAreAnswered ==
  /\ \A id \in Ids : waiting[id] ~> ~waiting[id]
  /\ IdleTimeout => (Registering ~> ~Registering)

\* A journal that says complete or cancelled keeps saying so until it is removed.
ReceiptsAreKept ==
  [][\A id \in Ids : Live(journal'[id]) =>
       /\ journal[id].complete  => journal'[id].complete
       /\ journal[id].cancelled => journal'[id].cancelled]_vars

\* The receipts a restart would find, as the abstract specification sees them.
PhaseOf(rec) == IF rec.complete THEN "Complete"
                ELSE IF rec.cancelled THEN "Cancelled" ELSE rec.decision
Receipts == INSTANCE TransferReceipts WITH
  phase    <- [id \in Ids |-> PhaseOf(journal[id])],
  receipts <- [id \in Ids |-> {f \in Files : journal[id].published[f] # NoName}]

\* The journals, read after any crash, follow the promised life of a transfer.
ReceiptsSpec == Receipts!Spec

\* "There are at most 1,024 retained v2 sessions."
SessionsWithinLimit == Cardinality({id \in Ids : Live(mem[id])}) <= MaxSessions

Undisturbed == crashes = 0 /\ drops = 0 /\ ioErrors = 0

\* "Receiver cancel_transfer(id) removes incomplete data": once it returned Ok, no
\* part is left and no late writer brings one back - unless the first call failed
\* halfway, since the second one returns Ok at once.  "History records are created
\* automatically by the engine when transfers complete or fail": a completion that
\* the sender was told of is on record, unless the upload that completed the
\* transfer was cut short after its commit.
OutcomesTakeEffect ==
  Undisturbed => \A id \in Ids :
    /\ "removed" \in told[id] => \A f \in FilesOf(id) : ~part[f].here
    /\ "complete" \in told[id] => history[id]["Completed"] > 0

\* A receipt is worth something through every crash, resume and cancellation: the
\* inductive invariant, in which the receipts rest on what upload still knows at
\* each await point.
Inv == TypeOK /\ HandlersAreSound /\ PartWithinSize /\ ReceiptsAreDelivered /\ CompleteMeansAll

=============================================================================
