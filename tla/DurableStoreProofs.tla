------------------------- MODULE DurableStoreProofs -------------------------
(* Proofs about DurableStore for every set of transfers, every bound and every *)
(* number of faults.                                                           *)
EXTENDS DurableStore, FiniteSetTheorems, TLAPS

(***************************************************************************)
(* Updating one field of one record keeps the type.                        *)
(***************************************************************************)
LEMMA RecordUpdates ==
  ASSUME NEW m \in [Ids -> Record], NEW id \in Ids
  PROVE  /\ [m EXCEPT ![id].cancelled = TRUE] \in [Ids -> Record]
         /\ \A d \in Decisions : [m EXCEPT ![id].decision = d] \in [Ids -> Record]
         /\ \A f \in Files, n \in Names \cup {NoName} :
              [m EXCEPT ![id].targets[f] = n] \in [Ids -> Record]
         /\ \A p \in [Files -> Names \cup {NoName}], b \in BOOLEAN :
              [m EXCEPT ![id].published = p, ![id].complete = b] \in [Ids -> Record]
<1>1. [m EXCEPT ![id].cancelled = TRUE] \in [Ids -> Record] BY DEF Record
<1>2. ASSUME NEW d \in Decisions PROVE [m EXCEPT ![id].decision = d] \in [Ids -> Record]
  BY DEF Record
<1>3. ASSUME NEW f \in Files, NEW n \in Names \cup {NoName}
      PROVE  [m EXCEPT ![id].targets[f] = n] \in [Ids -> Record]
  BY DEF Record
<1>4. ASSUME NEW p \in [Files -> Names \cup {NoName}], NEW b \in BOOLEAN
      PROVE  [m EXCEPT ![id].published = p, ![id].complete = b] \in [Ids -> Record]
  BY DEF Record
<1> QED BY <1>1, <1>2, <1>3, <1>4

\* Appending to, truncating or removing one part keeps the type of the parts.
LEMMA PartUpdates ==
  ASSUME NEW p \in [Files -> Part], NEW f \in Files
  PROVE  /\ [p EXCEPT ![f].here = TRUE] \in [Files -> Part]
         /\ \A right \in BOOLEAN :
              [p EXCEPT ![f] = [here |-> TRUE, len |-> p[f].len + 1,
                                good |-> p[f].good /\ right]] \in [Files -> Part]
<1>1. [p EXCEPT ![f].here = TRUE] \in [Files -> Part] BY DEF Part
<1>2. ASSUME NEW right \in BOOLEAN
      PROVE  [p EXCEPT ![f] = [here |-> TRUE, len |-> p[f].len + 1,
                               good |-> p[f].good /\ right]] \in [Files -> Part]
  <2> DEFINE good == p[f].good /\ right
  <2>1. good \in BOOLEAN OBVIOUS
  <2>2. p[f].len + 1 \in Nat BY DEF Part
  <2> HIDE DEF good
  <2>3. [here |-> TRUE, len |-> p[f].len + 1, good |-> good] \in Part
    BY <2>1, <2>2 DEF Part
  <2> QED BY <2>3 DEF good
<1> QED BY <1>1, <1>2

\* What upload knows when it links.
LEMMA LinkTarget ==
  ASSUME TypeOK, HandlersAreSound, NEW id \in Ids, pc[id] = "link"
  PROVE  /\ cur[id] \in Files /\ Session[cur[id]] = id
         /\ mem[id].targets[cur[id]] \in Names
         /\ Matches(cur[id]) /\ mem[id].decision = "Accepted" /\ ~mem[id].cancelled
<1>1. /\ cur[id] \in FilesOf(id) /\ Matches(cur[id]) /\ mem[id].targets[cur[id]] # NoName
      /\ mem[id].decision = "Accepted" /\ ~mem[id].cancelled
  BY DEF HandlersAreSound, Uploading
<1>2. cur[id] \in Files /\ Session[cur[id]] = id BY <1>1 DEF FilesOf
<1>3. mem[id].targets[cur[id]] \in Names BY <1>1, <1>2 DEF TypeOK, Record
<1> QED BY <1>1, <1>2, <1>3

\* The hard link of upload changes no type of the download directory.
LEMMA HardLinkTypes ==
  ASSUME TypeOK, NEW f \in Files, NEW n \in Names, HardLink(f, n)
  PROVE  /\ dest' \in [Names -> Contents \cup {Absent}]
         /\ maker' \in [Names -> Files \cup {NoFile}]
         /\ unsynced' \in SUBSET Names
  BY ConstantsAssumption DEF TypeOK, HardLink

\* A power failure leaves parts that are no longer than they were.
LEMMA PowerLossLeaves ==
  ASSUME TypeOK, PowerLoss
  PROVE  /\ part' \in [Files -> Part]
         /\ \A f \in Files : part'[f].len <= part[f].len
         /\ dest' \in [Names -> Contents \cup {Absent}]
         /\ maker' \in [Names -> Files \cup {NoFile}]
         /\ dirty' = {} /\ unsynced' = {} /\ misread' = misread
         /\ dirs' \in SUBSET Dirs /\ fresh' = {} /\ lost' \in SUBSET Names
<1>1. /\ dest' \in [Names -> Contents \cup {Absent}]
      /\ maker' \in [Names -> Files \cup {NoFile}]
      /\ dirty' = {} /\ unsynced' = {} /\ misread' = misread
      /\ dirs' \in SUBSET Dirs /\ fresh' = {} /\ lost' \in SUBSET Names
  BY DEF PowerLoss, TypeOK, NamesIn
<1>2. PICK left \in [dirty -> UNION {Remains(part[f]) : f \in dirty}] :
        /\ \A f \in dirty : left[f] \in Remains(part[f])
        /\ part' = [f \in Files |-> IF f \in dirty THEN left[f] ELSE part[f]]
  BY DEF PowerLoss
<1>3. ASSUME NEW f \in dirty PROVE left[f] \in Part /\ left[f].len <= part[f].len
  <2>1. part[f] \in Part BY DEF TypeOK
  <2>2. PICK l \in 0 .. part[f].len, g \in {part[f].good, FALSE} :
          left[f] = [here |-> part[f].here, len |-> l, good |-> g]
    BY <1>2 DEF Remains
  <2>3. part[f].here \in BOOLEAN /\ part[f].len \in Nat /\ part[f].good \in BOOLEAN
    BY <2>1 DEF Part
  <2>4. l \in Nat /\ l <= part[f].len BY <2>3
  <2>5. g \in BOOLEAN BY <2>3, Zenon
  <2> QED BY <2>2, <2>3, <2>4, <2>5 DEF Part
<1>4. \A f \in Files : part[f] \in Part /\ part[f].len <= part[f].len
  BY DEF TypeOK, Part
<1>5. part' \in [Files -> Part] BY <1>2, <1>3, <1>4
<1>6. \A f \in Files : part'[f].len <= part[f].len BY <1>2, <1>3, <1>4
<1> QED BY <1>1, <1>5, <1>6

\* Every value of every variable stays in its set.
LEMMA TypeStep == TypeOK /\ HandlersAreSound /\ [Next]_vars => TypeOK'
<1> SUFFICES ASSUME TypeOK, HandlersAreSound, [Next]_vars PROVE TypeOK' OBVIOUS
<1> USE ConstantsAssumption, NoNameAssumption, NoRegAssumption
<1> USE DEF TypeOK, handlerVars, diskVars, nameVars, folderVars, faultVars, Phases, Uploading, Cancelling
<1>1. ASSUME NEW id \in Ids, HandlerStep(id) PROVE TypeOK'
  <2>1. CASE AcceptDone(id) BY <2>1 DEF AcceptDone, Persisted, Release, Facts
  <2>2. CASE RejectDone(id) BY <2>2 DEF RejectDone, Persisted, Release, RecordHistory, Outcomes
  <2>3. CASE CancelAnswered(id) BY <2>3 DEF CancelAnswered, Facts
  <2>4. CASE CancelLocked(id)
    <3>1. mem' \in [Ids -> Record] BY <2>4, RecordUpdates DEF CancelLocked
    <3> QED BY <2>4, <3>1 DEF CancelLocked, Enter
  <2>5. CASE CancelPersisted(id) BY <2>5 DEF CancelPersisted, Persisted, Enter
  <2>6. CASE CancelDone(id)
    BY <2>6 DEF CancelDone, RecordHistory, Release, Outcomes, Facts
  <2>7. CASE BodyCancelled(id) BY <2>7 DEF BodyCancelled, RemovePart, Release, Part, NoPart
  <2>8. CASE VerifyFails(id) BY <2>8 DEF VerifyFails, RemovePart, Release, Part, NoPart
  <2>9. CASE Verified(id)
    <3>1. DirOf[Base[cur[id]]] \in Dirs \cup {Root}
      BY <2>9 DEF Verified, HandlersAreSound, FilesOf
    <3> QED BY <2>9, <3>1 DEF Verified, Enter, MakeDir
  <2>10. CASE PickTarget(id)
    <3>1. cur[id] \in Files BY <2>10 DEF PickTarget, HandlersAreSound, FilesOf
    <3>2. Candidate(cur[id], idx[id]) \in Names
      BY <2>10, <3>1 DEF PickTarget, Candidate, Names
    <3>3. mem[id].targets[cur[id]] \in Names \cup {NoName} BY <3>1 DEF Record
    <3>4. PICK n \in Names \cup {NoName} : mem' = [mem EXCEPT ![id].targets[cur[id]] = n]
      BY <2>10, <3>2, <3>3 DEF PickTarget
    <3>5. mem' \in [Ids -> Record] BY <3>1, <3>4, RecordUpdates, ZenonT(60)
    <3> QED BY <2>10, <3>5 DEF PickTarget, Enter
  <2>11. CASE PickExhausted(id) BY <2>11 DEF PickExhausted, Release
  <2>12. CASE TargetPersisted(id) BY <2>12 DEF TargetPersisted, Persisted, Enter
  <2>13. CASE Link(id)
    <3> QED BY <2>13, LinkTarget, HardLinkTypes DEF Link, Enter
  <2>14. CASE LinkReuse(id) BY <2>14 DEF LinkReuse, Enter
  <2>15. CASE LinkConflict(id)
    <3>1. cur[id] \in Files BY <2>15 DEF LinkConflict, HandlersAreSound, FilesOf
    <3>2. mem' \in [Ids -> Record] BY <2>15, <3>1, RecordUpdates, ZenonT(60) DEF LinkConflict
    <3> QED BY <2>15, <3>2 DEF LinkConflict
  <2>16. CASE DirSynced(id)
    <3>1. cur[id] \in Files BY <2>16 DEF DirSynced, HandlersAreSound, FilesOf
    <3>2. [mem[id].published EXCEPT ![cur[id]] = mem[id].targets[cur[id]]]
            \in [Files -> Names \cup {NoName}]
      BY <3>1 DEF Record
    <3>3. PICK p \in [Files -> Names \cup {NoName}], b \in BOOLEAN :
            mem' = [mem EXCEPT ![id].published = p, ![id].complete = b]
      <4> DEFINE p == [mem[id].published EXCEPT ![cur[id]] = mem[id].targets[cur[id]]]
      <4> DEFINE b == \A g \in FilesOf(id) : p[g] # NoName
      <4>1. b \in BOOLEAN OBVIOUS
      <4>2. mem' = [mem EXCEPT ![id].published = p, ![id].complete = b]
        BY <2>16 DEF DirSynced
      <4> HIDE DEF p, b
      <4> QED BY <4>1, <4>2, <3>2 DEF p
    <3>4. mem' \in [Ids -> Record] BY <3>3, RecordUpdates, ZenonT(60)
    <3> QED BY <2>16, <3>4 DEF DirSynced, Enter
  <2>17. CASE CommitPersisted(id) BY <2>17 DEF CommitPersisted, Persisted, Enter, Record
  <2>18. CASE UploadDone(id)
    <3>1. history' \in [Ids -> [Outcomes -> Nat]]
      <4>1. CASE mem[id].complete
        <5>1. RecordHistory(id, "Completed") BY <2>18, <4>1 DEF UploadDone
        <5> QED BY <5>1 DEF RecordHistory, Outcomes
      <4>2. CASE ~mem[id].complete BY <2>18, <4>2 DEF UploadDone
      <4> QED BY <4>1, <4>2
    <3> QED BY <2>18, <3>1 DEF UploadDone, RemovePart, Release, Part, NoPart
  <2>19. ASSUME NEW f \in FilesOf(id), CancelClean(id, f) PROVE TypeOK'
    BY <2>19 DEF CancelClean, FilesOf, RemovePart, Part, NoPart
  <2> QED BY <1>1, <2>1, <2>2, <2>3, <2>4, <2>5, <2>6, <2>7, <2>8, <2>9, <2>10, <2>11,
             <2>12, <2>13, <2>14, <2>15, <2>16, <2>17, <2>18, <2>19 DEF HandlerStep
<1>2. ASSUME NEW id \in Ids, Environment(id) PROVE TypeOK'
  <2>1. ASSUME NEW d \in {"Pending", "Accepted"}, Register(id, d) PROVE TypeOK'
    BY <2>1 DEF Register, Fresh, Record, Decisions
  <2>2. CASE RegisterAgain(id) BY <2>2 DEF RegisterAgain, NoRecord, Fresh, Record, Decisions
  <2>3. CASE Accept(id)
    <3>1. mem' \in [Ids -> Record] BY <2>3, RecordUpdates, ZenonT(60) DEF Accept, Decisions
    <3> QED BY <2>3, <3>1 DEF Accept, Enter
  <2>4. CASE Reject(id)
    <3>1. mem' \in [Ids -> Record] BY <2>4, RecordUpdates, ZenonT(60) DEF Reject, Decisions
    <3> QED BY <2>4, <3>1 DEF Reject, Enter
  <2>5. CASE CancelRequest(id) BY <2>5 DEF CancelRequest
  <2>6. CASE Status(id) BY <2>6 DEF Status, Snapshot
  <2>7. CASE Forget(id)

      BY <2>7 DEF Forget, RemoveParts, NoRecord, Fresh, Record, Decisions, NoHistory, Outcomes, Part, NoPart
  <2>8. CASE ForgetFails(id) BY <2>8 DEF ForgetFails, RemoveParts, IoError, Part, NoPart
  <2>9. ASSUME NEW f \in FilesOf(id), UploadStart(id, f) PROVE TypeOK'
    <3>1. part' \in [Files -> Part] BY <2>9, PartUpdates DEF UploadStart, FilesOf
    <3> QED BY <2>9, <3>1 DEF UploadStart, FilesOf
  <2>10. ASSUME NEW right \in BOOLEAN, Chunk(id, right) PROVE TypeOK'
    <3>1. cur[id] \in Files BY <2>10 DEF Chunk, HandlersAreSound, FilesOf
    <3>2. part' \in [Files -> Part] BY <2>10, <3>1, PartUpdates DEF Chunk
    <3> QED BY <2>10, <3>1, <3>2 DEF Chunk
  <2>11. CASE ChunkTooLarge(id) BY <2>11 DEF ChunkTooLarge, RemovePart, Release, Part, NoPart
  <2>12. CASE BodyInterrupted(id) BY <2>12 DEF BodyInterrupted, Release
  <2>13. CASE BodyEnd(id) BY <2>13 DEF BodyEnd, Enter
  <2>14. CASE HandlerFails(id)
    <3>1. journal' \in [Ids -> Record] BY <2>14 DEF HandlerFails, Persisted
    <3>2. /\ UNCHANGED <<up, mem, token, finished, waiting, reg, diskVars, detached,
                         history, told, crashes, drops>>
          /\ Release(id) /\ ioErrors' = ioErrors + 1
      BY <2>14 DEF HandlerFails, IoError
    <3> QED BY <3>1, <3>2 DEF Release
  <2>15. CASE HandlerDropped(id)
    <3>1. /\ UNCHANGED <<up, mem, token, finished, waiting, reg, journal, history, told,
                         crashes, ioErrors>>
          /\ Release(id) /\ drops' = drops + 1
          /\ detached' \in SUBSET [id : Ids, rec : Record]
      BY <2>15 DEF HandlerDropped, Drop
    <3>2. CASE UNCHANGED diskVars BY <3>1, <3>2 DEF Release
    <3>3. CASE /\ pc[id] = "link" /\ HardLink(cur[id], mem[id].targets[cur[id]])
               /\ UNCHANGED <<part, dirty, misread, folderVars>>
      BY <3>1, <3>3, LinkTarget, HardLinkTypes DEF Release
    <3>4. CASE RemovePart(cur[id]) /\ UNCHANGED nameVars
      <4>1. part' \in [Files -> Part] /\ dirty' \in SUBSET Files
        BY <3>4 DEF RemovePart, Part, NoPart
      <4> QED BY <3>1, <3>4, <4>1 DEF Release
    <3> QED BY <2>15, <3>2, <3>3, <3>4 DEF HandlerDropped
  <2>16. CASE WaiterDropped(id) BY <2>16 DEF WaiterDropped, Drop
  <2>17. CASE LinkUnread(id)
    <3>1. cur[id] \in Files BY <2>17 DEF LinkUnread, HandlersAreSound, FilesOf
    <3>2. mem' \in [Ids -> Record] BY <2>17, <3>1, RecordUpdates, ZenonT(60) DEF LinkUnread
    <3> QED BY <2>17, <3>1, <3>2 DEF LinkUnread, IoError
  <2> QED BY <1>2, <2>1, <2>2, <2>3, <2>4, <2>5, <2>6, <2>7, <2>8, <2>9, <2>10, <2>11,
             <2>12, <2>13, <2>14, <2>15, <2>16, <2>17 DEF Environment
<1>3. CASE RegisterDone
  BY <1>3 DEF RegisterDone, Registering, NoHistory, Outcomes, Snapshot
<1>4. CASE RegisterAgainDone BY <1>4 DEF RegisterAgainDone, Registering, Snapshot
<1>5. CASE RegisterFails
  <2>1. journal' \in [Ids -> Record] BY <1>5 DEF RegisterFails, Registering
  <2> QED BY <1>5, <2>1 DEF RegisterFails, IoError
<1>6. CASE RegisterDropped BY <1>6 DEF RegisterDropped, Registering, Drop
<1>7. ASSUME NEW w \in detached, DetachedLands(w) PROVE TypeOK' BY <1>7 DEF DetachedLands
<1>8. ASSUME NEW n \in Names, OtherFile(n) PROVE TypeOK' BY <1>8 DEF OtherFile
<1>9. CASE Start BY <1>9 DEF Start, Record
<1>10. CASE Stop BY <1>10 DEF Stop, Forgotten, NoRecord, Fresh, Record, Decisions
<1>11. CASE Crash
  <2>1. journal' \in [Ids -> Record] BY <1>11 DEF Crash, Registering
  <2>2. /\ dest' \in [Names -> Contents \cup {Absent}]
        /\ maker' \in [Names -> Files \cup {NoFile}]
        /\ part' \in [Files -> Part]
        /\ dirty' \in SUBSET Files /\ unsynced' \in SUBSET Names
        /\ misread' \in SUBSET Files /\ dirs' \in SUBSET Dirs /\ fresh' \in SUBSET Dirs
        /\ lost' \in SUBSET Names
    <3>1. CASE UNCHANGED diskVars BY <3>1
    <3>2. CASE PowerLoss BY <3>2, PowerLossLeaves
    <3> QED BY <1>11, <3>1, <3>2 DEF Crash
  <2>4. mem' \in [Ids -> Record] BY <1>11 DEF Crash, Forgotten, NoRecord, Fresh, Record, Decisions
  <2>5. /\ UNCHANGED <<history, told, drops, ioErrors>> /\ crashes' = crashes + 1
        /\ up' = FALSE /\ reg' = NoReg /\ detached' = {}
        /\ token' = [id \in Ids |-> FALSE] /\ finished' = [id \in Ids |-> FALSE]
        /\ pc' = [id \in Ids |-> "idle"] /\ cur' = [id \in Ids |-> NoFile]
        /\ idx' = [id \in Ids |-> 0] /\ waiting' = [id \in Ids |-> FALSE]
    BY <1>11 DEF Crash, Forgotten
  <2>6. {crashes', drops', ioErrors'} \subseteq Nat BY <2>5
  <2> QED BY <2>1, <2>2, <2>4, <2>5, <2>6
<1>12. CASE UNCHANGED vars BY <1>12 DEF vars
<1> QED BY <1>1, <1>2, <1>3, <1>4, <1>5, <1>6, <1>7, <1>8, <1>9, <1>10, <1>11, <1>12 DEF Next

\* upload appends only below the declared size, and recovery only shortens parts.
LEMMA PartStep == TypeOK /\ HandlersAreSound /\ PartWithinSize /\ [Next]_vars => PartWithinSize'
<1> SUFFICES ASSUME TypeOK, HandlersAreSound, PartWithinSize, [Next]_vars PROVE PartWithinSize' OBVIOUS
<1> USE ConstantsAssumption, NoNameAssumption, NoRegAssumption
<1> USE DEF handlerVars, diskVars, nameVars, folderVars, faultVars, PartWithinSize, TypeOK, RemovePart, RemoveParts, NoPart, Enter, Release
<1>1. ASSUME NEW id \in Ids, HandlerStep(id) PROVE PartWithinSize'
  <2>1. CASE AcceptDone(id) BY <2>1 DEF AcceptDone
  <2>2. CASE RejectDone(id) BY <2>2 DEF RejectDone
  <2>3. CASE CancelAnswered(id) BY <2>3 DEF CancelAnswered
  <2>4. CASE CancelLocked(id) BY <2>4 DEF CancelLocked
  <2>5. CASE CancelPersisted(id) BY <2>5 DEF CancelPersisted
  <2>6. CASE CancelDone(id) BY <2>6 DEF CancelDone
  <2>7. CASE BodyCancelled(id) BY <2>7 DEF BodyCancelled
  <2>8. CASE VerifyFails(id) BY <2>8 DEF VerifyFails
  <2>9. CASE Verified(id) BY <2>9 DEF Verified
  <2>10. CASE PickTarget(id) BY <2>10 DEF PickTarget
  <2>11. CASE PickExhausted(id) BY <2>11 DEF PickExhausted
  <2>12. CASE TargetPersisted(id) BY <2>12 DEF TargetPersisted
  <2>13. CASE Link(id) BY <2>13 DEF Link
  <2>14. CASE LinkReuse(id) BY <2>14 DEF LinkReuse
  <2>15. CASE LinkConflict(id) BY <2>15 DEF LinkConflict
  <2>16. CASE DirSynced(id) BY <2>16 DEF DirSynced
  <2>17. CASE CommitPersisted(id) BY <2>17 DEF CommitPersisted
  <2>18. CASE UploadDone(id) BY <2>18 DEF UploadDone
  <2>19. ASSUME NEW f \in FilesOf(id), CancelClean(id, f) PROVE PartWithinSize'
    BY <2>19 DEF CancelClean, FilesOf
  <2> QED
    BY <1>1, <2>1, <2>2, <2>3, <2>4, <2>5, <2>6, <2>7, <2>8, <2>9, <2>10, <2>11, <2>12, <2>13, <2>14, <2>15, <2>16, <2>17, <2>18, <2>19 DEF HandlerStep
<1>2. ASSUME NEW id \in Ids, Environment(id) PROVE PartWithinSize'
  <2>1. CASE RegisterAgain(id) BY <2>1 DEF RegisterAgain
  <2>2. CASE Accept(id) BY <2>2 DEF Accept
  <2>3. CASE Reject(id) BY <2>3 DEF Reject
  <2>4. CASE CancelRequest(id) BY <2>4 DEF CancelRequest
  <2>5. CASE Status(id) BY <2>5 DEF Status
  <2>6. CASE Forget(id) BY <2>6 DEF Forget
  <2>7. CASE ForgetFails(id) BY <2>7 DEF ForgetFails
  <2>8. CASE ChunkTooLarge(id) BY <2>8 DEF ChunkTooLarge
  <2>9. CASE BodyInterrupted(id) BY <2>9 DEF BodyInterrupted
  <2>10. CASE BodyEnd(id) BY <2>10 DEF BodyEnd
  <2>11. CASE HandlerFails(id) BY <2>11 DEF HandlerFails
  <2>12. CASE HandlerDropped(id) BY <2>12 DEF HandlerDropped
  <2>13. CASE WaiterDropped(id) BY <2>13 DEF WaiterDropped
  <2>14. ASSUME NEW d \in {"Pending", "Accepted"}, Register(id, d) PROVE PartWithinSize'
    BY <2>14 DEF Register
  <2>15. ASSUME NEW f \in FilesOf(id), UploadStart(id, f) PROVE PartWithinSize' BY <2>15 DEF UploadStart
  <2>16. ASSUME NEW right \in BOOLEAN, Chunk(id, right) PROVE PartWithinSize'
    <3>1. cur[id] \in Files BY <2>16 DEF Chunk, HandlersAreSound, Uploading, FilesOf
    <3>2. part[cur[id]].len \in Nat /\ Size[cur[id]] \in Nat BY <3>1 DEF Part
    <3>3. part[cur[id]].len + 1 <= Size[cur[id]] BY <2>16, <3>2 DEF Chunk
    <3> QED BY <2>16, <3>1, <3>3 DEF Chunk
  <2>17. CASE LinkUnread(id) BY <2>17 DEF LinkUnread
  <2> QED
    BY <1>2, <2>1, <2>2, <2>3, <2>4, <2>5, <2>6, <2>7, <2>8, <2>9, <2>10, <2>11, <2>12, <2>13, <2>14, <2>15, <2>16, <2>17 DEF Environment
<1>3. CASE RegisterDone BY <1>3 DEF RegisterDone
<1>4. CASE RegisterAgainDone BY <1>4 DEF RegisterAgainDone
<1>5. CASE RegisterFails BY <1>5 DEF RegisterFails
<1>6. CASE RegisterDropped BY <1>6 DEF RegisterDropped
<1>7. CASE Start BY <1>7 DEF Start
<1>8. CASE Stop BY <1>8 DEF Stop
<1>9. CASE Crash
  <2>1. CASE UNCHANGED diskVars BY <2>1
  <2>2. CASE PowerLoss
    <3>1. ASSUME NEW f \in Files PROVE part'[f].len <= Size[f]
      <4>1. part'[f].len <= part[f].len /\ part'[f] \in Part BY <2>2, PowerLossLeaves
      <4>2. part[f].len <= Size[f] /\ part[f] \in Part OBVIOUS
      <4>3. part'[f].len \in Nat /\ part[f].len \in Nat /\ Size[f] \in Nat
        BY <4>1, <4>2 DEF Part
      <4> QED BY <4>1, <4>2, <4>3
    <3> QED BY <3>1
  <2> QED BY <1>9, <2>1, <2>2 DEF Crash
<1>10. ASSUME NEW w \in detached, DetachedLands(w) PROVE PartWithinSize' BY <1>10 DEF DetachedLands
<1>11. ASSUME NEW n \in Names, OtherFile(n) PROVE PartWithinSize' BY <1>11 DEF OtherFile
<1>12. CASE UNCHANGED vars BY <1>12 DEF vars
<1> QED BY <1>1, <1>2, <1>3, <1>4, <1>5, <1>6, <1>7, <1>8, <1>9, <1>10, <1>11, <1>12 DEF Next


\* A synced entry keeps its file, unless its directory is taken away; the names that
\* went that way stay marked.
DirectoryKept ==
  /\ \A n \in Names : dest[n] # Absent /\ n \notin unsynced =>
       \/ dest'[n] = dest[n] /\ n \notin unsynced'
       \/ n \in NamesIn(fresh) \cap lost'
  /\ lost \subseteq lost'

NewNamesVerified == \A n \in Names : maker'[n] \notin {maker[n], NoFile} =>
  LET s == mem[Session[maker'[n]]] IN
  Matches(maker'[n]) /\ s.decision = "Accepted" /\ ~s.cancelled

DirectorySafe == DirectoryKept /\ NewNamesVerified

\* Only Link, DirSynced, OtherFile, Forget and Crash touch the directory, and none of
\* them replaces a synced entry; only Link makes an entry, of the verified part.
LEMMA DestStep == TypeOK /\ HandlersAreSound /\ [Next]_vars => DirectorySafe
<1> SUFFICES ASSUME TypeOK, HandlersAreSound, [Next]_vars PROVE DirectorySafe OBVIOUS
<1> USE ConstantsAssumption, NoNameAssumption, NoRegAssumption
<1> USE DEF handlerVars, diskVars, nameVars, folderVars, faultVars, DirectorySafe, DirectoryKept, NewNamesVerified, TypeOK
<1>1. ASSUME NEW id \in Ids, HandlerStep(id) PROVE DirectorySafe
  <2>1. CASE AcceptDone(id) BY <2>1 DEF AcceptDone
  <2>2. CASE RejectDone(id) BY <2>2 DEF RejectDone
  <2>3. CASE CancelAnswered(id) BY <2>3 DEF CancelAnswered
  <2>4. CASE CancelLocked(id) BY <2>4 DEF CancelLocked
  <2>5. CASE CancelPersisted(id) BY <2>5 DEF CancelPersisted
  <2>6. CASE CancelDone(id) BY <2>6 DEF CancelDone
  <2>7. CASE BodyCancelled(id) BY <2>7 DEF BodyCancelled
  <2>8. CASE VerifyFails(id) BY <2>8 DEF VerifyFails
  <2>9. CASE Verified(id) BY <2>9 DEF Verified
  <2>10. CASE PickTarget(id) BY <2>10 DEF PickTarget
  <2>11. CASE PickExhausted(id) BY <2>11 DEF PickExhausted
  <2>12. CASE TargetPersisted(id) BY <2>12 DEF TargetPersisted
  <2>13. CASE Link(id)
    <3>1. /\ pc[id] = "link" /\ HardLink(cur[id], mem[id].targets[cur[id]])
          /\ UNCHANGED lost
      BY <2>13 DEF Link
    <3> QED BY <3>1, LinkTarget DEF HardLink
  <2>14. CASE LinkReuse(id) BY <2>14 DEF LinkReuse
  <2>15. CASE LinkConflict(id) BY <2>15 DEF LinkConflict
  <2>16. CASE DirSynced(id) BY <2>16 DEF DirSynced
  <2>17. CASE CommitPersisted(id) BY <2>17 DEF CommitPersisted
  <2>18. CASE UploadDone(id) BY <2>18 DEF UploadDone
  <2>19. ASSUME NEW f \in FilesOf(id), CancelClean(id, f) PROVE DirectorySafe
    BY <2>19 DEF CancelClean
  <2> QED
    BY <1>1, <2>1, <2>2, <2>3, <2>4, <2>5, <2>6, <2>7, <2>8, <2>9, <2>10, <2>11, <2>12, <2>13, <2>14, <2>15, <2>16, <2>17, <2>18, <2>19 DEF HandlerStep
<1>2. ASSUME NEW id \in Ids, Environment(id) PROVE DirectorySafe
  <2>1. CASE RegisterAgain(id) BY <2>1 DEF RegisterAgain
  <2>2. CASE Accept(id) BY <2>2 DEF Accept
  <2>3. CASE Reject(id) BY <2>3 DEF Reject
  <2>4. CASE CancelRequest(id) BY <2>4 DEF CancelRequest
  <2>5. CASE Status(id) BY <2>5 DEF Status
  <2>6. CASE Forget(id) BY <2>6 DEF Forget
  <2>7. CASE ForgetFails(id) BY <2>7 DEF ForgetFails
  <2>8. CASE ChunkTooLarge(id) BY <2>8 DEF ChunkTooLarge
  <2>9. CASE BodyInterrupted(id) BY <2>9 DEF BodyInterrupted
  <2>10. CASE BodyEnd(id) BY <2>10 DEF BodyEnd
  <2>11. CASE HandlerFails(id) BY <2>11 DEF HandlerFails
  <2>12. CASE HandlerDropped(id)
    <3>1. CASE UNCHANGED <<dest, maker, unsynced, lost>> BY <3>1
    <3>2. CASE /\ pc[id] = "link" /\ HardLink(cur[id], mem[id].targets[cur[id]])
               /\ UNCHANGED lost
      BY <3>2, LinkTarget DEF HardLink
    <3> QED BY <2>12, <3>1, <3>2 DEF HandlerDropped
  <2>13. CASE WaiterDropped(id) BY <2>13 DEF WaiterDropped
  <2>14. ASSUME NEW d \in {"Pending", "Accepted"}, Register(id, d) PROVE DirectorySafe
    BY <2>14 DEF Register
  <2>15. ASSUME NEW f \in FilesOf(id), UploadStart(id, f) PROVE DirectorySafe BY <2>15 DEF UploadStart
  <2>16. ASSUME NEW right \in BOOLEAN, Chunk(id, right) PROVE DirectorySafe BY <2>16 DEF Chunk
  <2>17. CASE LinkUnread(id) BY <2>17 DEF LinkUnread
  <2> QED
    BY <1>2, <2>1, <2>2, <2>3, <2>4, <2>5, <2>6, <2>7, <2>8, <2>9, <2>10, <2>11, <2>12, <2>13, <2>14, <2>15, <2>16, <2>17 DEF Environment
<1>3. CASE RegisterDone BY <1>3 DEF RegisterDone
<1>4. CASE RegisterAgainDone BY <1>4 DEF RegisterAgainDone
<1>5. CASE RegisterFails BY <1>5 DEF RegisterFails
<1>6. CASE RegisterDropped BY <1>6 DEF RegisterDropped
<1>7. CASE Start BY <1>7 DEF Start
<1>8. CASE Stop BY <1>8 DEF Stop
<1>9. CASE Crash
  <2>1. CASE UNCHANGED diskVars BY <2>1
  <2>2. CASE PowerLoss BY <2>2 DEF PowerLoss, NamesIn
  <2> QED BY <1>9, <2>1, <2>2 DEF Crash
<1>10. ASSUME NEW w \in detached, DetachedLands(w) PROVE DirectorySafe BY <1>10 DEF DetachedLands
<1>11. ASSUME NEW n \in Names, OtherFile(n) PROVE DirectorySafe BY <1>11 DEF OtherFile
<1>12. CASE UNCHANGED vars BY <1>12 DEF vars
<1> QED BY <1>1, <1>2, <1>3, <1>4, <1>5, <1>6, <1>7, <1>8, <1>9, <1>10, <1>11, <1>12 DEF Next


Known(id, r) == \/ r \in {NoRecord, mem[id], journal[id]}
                \/ [id |-> id, rec |-> r] \in detached
                \/ reg = [id |-> id, rec |-> r]
Changed(id) == Accept(id) \/ Reject(id) \/ CancelLocked(id)
               \/ PickTarget(id) \/ LinkConflict(id) \/ LinkUnread(id) \/ DirSynced(id)
RecordsKnown == /\ \A id \in Ids : Known(id, mem'[id]) \/ Changed(id)
                /\ \A id \in Ids : Known(id, journal'[id])
                /\ \A w \in detached' : Known(w.id, w.rec)
\* A record, journal or write under way is either an old one of the same session,
\* or the result of the one handler that may change it.
LEMMA RecordsStep == TypeOK /\ HandlersAreSound /\ [Next]_vars => RecordsKnown
<1> SUFFICES ASSUME TypeOK, HandlersAreSound, [Next]_vars PROVE RecordsKnown OBVIOUS
<1> USE ConstantsAssumption, NoNameAssumption, NoRegAssumption
<1> USE DEF handlerVars, diskVars, nameVars, folderVars, faultVars, RecordsKnown, Known, TypeOK, Persisted, Registering, Forgotten, Enter, Release
<1>1. ASSUME NEW id \in Ids, HandlerStep(id) PROVE RecordsKnown
  <2>1. CASE AcceptDone(id) BY <2>1 DEF AcceptDone
  <2>2. CASE RejectDone(id) BY <2>2 DEF RejectDone
  <2>3. CASE CancelAnswered(id) BY <2>3 DEF CancelAnswered
  <2>4. CASE CancelLocked(id)
    <3>1. Changed(id) BY <2>4 DEF Changed
    <3>2. \A i \in Ids : i # id => mem'[i] = mem[i] BY <2>4 DEF CancelLocked
    <3>3. UNCHANGED <<journal, detached>> BY <2>4 DEF CancelLocked
    <3> QED BY <3>1, <3>2, <3>3
  <2>5. CASE CancelPersisted(id) BY <2>5 DEF CancelPersisted
  <2>6. CASE CancelDone(id) BY <2>6 DEF CancelDone
  <2>7. CASE BodyCancelled(id) BY <2>7 DEF BodyCancelled
  <2>8. CASE VerifyFails(id) BY <2>8 DEF VerifyFails
  <2>9. CASE Verified(id) BY <2>9 DEF Verified
  <2>10. CASE PickTarget(id)
    <3>1. Changed(id) BY <2>10 DEF Changed
    <3>2. \A i \in Ids : i # id => mem'[i] = mem[i] BY <2>10 DEF PickTarget
    <3>3. UNCHANGED <<journal, detached>> BY <2>10 DEF PickTarget
    <3> QED BY <3>1, <3>2, <3>3
  <2>11. CASE PickExhausted(id) BY <2>11 DEF PickExhausted
  <2>12. CASE TargetPersisted(id) BY <2>12 DEF TargetPersisted
  <2>13. CASE Link(id) BY <2>13 DEF Link
  <2>14. CASE LinkReuse(id) BY <2>14 DEF LinkReuse
  <2>15. CASE LinkConflict(id)
    <3>1. Changed(id) BY <2>15 DEF Changed
    <3>2. \A i \in Ids : i # id => mem'[i] = mem[i] BY <2>15 DEF LinkConflict
    <3>3. UNCHANGED <<journal, detached>> BY <2>15 DEF LinkConflict
    <3> QED BY <3>1, <3>2, <3>3
  <2>16. CASE DirSynced(id)
    <3>1. Changed(id) BY <2>16 DEF Changed
    <3>2. \A i \in Ids : i # id => mem'[i] = mem[i] BY <2>16 DEF DirSynced
    <3>3. UNCHANGED <<journal, detached>> BY <2>16 DEF DirSynced
    <3> QED BY <3>1, <3>2, <3>3
  <2>17. CASE CommitPersisted(id) BY <2>17 DEF CommitPersisted
  <2>18. CASE UploadDone(id) BY <2>18 DEF UploadDone
  <2>19. ASSUME NEW f \in FilesOf(id), CancelClean(id, f) PROVE RecordsKnown
    BY <2>19 DEF CancelClean
  <2> QED
    BY <1>1, <2>1, <2>2, <2>3, <2>4, <2>5, <2>6, <2>7, <2>8, <2>9, <2>10, <2>11, <2>12, <2>13, <2>14, <2>15, <2>16, <2>17, <2>18, <2>19 DEF HandlerStep
<1>2. ASSUME NEW id \in Ids, Environment(id) PROVE RecordsKnown
  <2>1. CASE RegisterAgain(id) BY <2>1 DEF RegisterAgain
  <2>2. CASE Accept(id)
    <3>1. Changed(id) BY <2>2 DEF Changed
    <3>2. \A i \in Ids : i # id => mem'[i] = mem[i] BY <2>2 DEF Accept
    <3>3. UNCHANGED <<journal, detached>> BY <2>2 DEF Accept
    <3> QED BY <3>1, <3>2, <3>3
  <2>3. CASE Reject(id)
    <3>1. Changed(id) BY <2>3 DEF Changed
    <3>2. \A i \in Ids : i # id => mem'[i] = mem[i] BY <2>3 DEF Reject
    <3>3. UNCHANGED <<journal, detached>> BY <2>3 DEF Reject
    <3> QED BY <3>1, <3>2, <3>3
  <2>4. CASE CancelRequest(id) BY <2>4 DEF CancelRequest
  <2>5. CASE Status(id) BY <2>5 DEF Status
  <2>6. CASE Forget(id) BY <2>6 DEF Forget
  <2>7. CASE ForgetFails(id) BY <2>7 DEF ForgetFails
  <2>8. CASE ChunkTooLarge(id) BY <2>8 DEF ChunkTooLarge
  <2>9. CASE BodyInterrupted(id) BY <2>9 DEF BodyInterrupted
  <2>10. CASE BodyEnd(id) BY <2>10 DEF BodyEnd
  <2>11. CASE HandlerFails(id) BY <2>11 DEF HandlerFails
  <2>12. CASE HandlerDropped(id) BY <2>12 DEF HandlerDropped
  <2>13. CASE WaiterDropped(id) BY <2>13 DEF WaiterDropped
  <2>14. ASSUME NEW d \in {"Pending", "Accepted"}, Register(id, d) PROVE RecordsKnown
    BY <2>14 DEF Register
  <2>15. ASSUME NEW f \in FilesOf(id), UploadStart(id, f) PROVE RecordsKnown BY <2>15 DEF UploadStart
  <2>16. ASSUME NEW right \in BOOLEAN, Chunk(id, right) PROVE RecordsKnown BY <2>16 DEF Chunk
  <2>17. CASE LinkUnread(id)
    <3>1. Changed(id) BY <2>17 DEF Changed
    <3>2. \A i \in Ids : i # id => mem'[i] = mem[i] BY <2>17 DEF LinkUnread
    <3>3. UNCHANGED <<journal, detached>> BY <2>17 DEF LinkUnread
    <3> QED BY <3>1, <3>2, <3>3
  <2> QED
    BY <1>2, <2>1, <2>2, <2>3, <2>4, <2>5, <2>6, <2>7, <2>8, <2>9, <2>10, <2>11, <2>12, <2>13, <2>14, <2>15, <2>16, <2>17 DEF Environment
<1>3. CASE RegisterDone BY <1>3 DEF RegisterDone
<1>4. CASE RegisterAgainDone BY <1>4 DEF RegisterAgainDone
<1>5. CASE RegisterFails BY <1>5 DEF RegisterFails
<1>6. CASE RegisterDropped BY <1>6 DEF RegisterDropped
<1>7. CASE Start BY <1>7 DEF Start
<1>8. CASE Stop BY <1>8 DEF Stop
<1>9. CASE Crash BY <1>9 DEF Crash
<1>10. ASSUME NEW w \in detached, DetachedLands(w) PROVE RecordsKnown BY <1>10 DEF DetachedLands
<1>11. ASSUME NEW n \in Names, OtherFile(n) PROVE RecordsKnown BY <1>11 DEF OtherFile
<1>12. CASE UNCHANGED vars BY <1>12 DEF vars
<1> QED BY <1>1, <1>2, <1>3, <1>4, <1>5, <1>6, <1>7, <1>8, <1>9, <1>10, <1>11, <1>12 DEF Next

\* A step of one session, or of the disk, leaves what the other handlers have checked.
LEMMA HandlerStepSound == TypeOK /\ HandlersAreSound /\ [Next]_vars => HandlersAreSound'
<1> SUFFICES ASSUME TypeOK, HandlersAreSound, [Next]_vars PROVE HandlersAreSound' OBVIOUS
<1> USE ConstantsAssumption, NoNameAssumption, NoRegAssumption
<1> USE DEF handlerVars, diskVars, nameVars, folderVars, faultVars, HandlersAreSound, TypeOK, RemovePart, RemoveParts, NoPart, Enter, Release, Free, Live, Matches, Registering, FilesOf, Forgotten, Uploading, Cancelling, Persisting, NoRecord, Fresh, Record
<1>1. ASSUME NEW id \in Ids, HandlerStep(id) PROVE HandlersAreSound'
  <2>1. CASE AcceptDone(id) BY <2>1 DEF AcceptDone
  <2>2. CASE RejectDone(id) BY <2>2 DEF RejectDone
  <2>3. CASE CancelAnswered(id) BY <2>3 DEF CancelAnswered
  <2>4. CASE CancelLocked(id) BY <2>4 DEF CancelLocked
  <2>5. CASE CancelPersisted(id) BY <2>5 DEF CancelPersisted
  <2>6. CASE CancelDone(id) BY <2>6 DEF CancelDone
  <2>7. CASE BodyCancelled(id) BY <2>7 DEF BodyCancelled
  <2>8. CASE VerifyFails(id) BY <2>8 DEF VerifyFails
  <2>9. CASE Verified(id) BY <2>9 DEF Verified
  <2>10. CASE PickTarget(id)
    <3>1. cur[id] \in Files /\ pc[id] = "pick" BY <2>10 DEF PickTarget
    <3>2. Candidate(cur[id], idx[id]) # NoName
      BY <2>10, <3>1 DEF PickTarget, Candidate, Names
    <3>3. PICK n : n # NoName /\ mem' = [mem EXCEPT ![id].targets[cur[id]] = n]
      BY <2>10, <3>2 DEF PickTarget
    <3>4. \A i \in Ids : /\ i # id => mem'[i] = mem[i]
                         /\ mem'[i].decision = mem[i].decision
                         /\ mem'[i].cancelled = mem[i].cancelled
      BY <3>3
    <3>5. mem'[id].targets[cur[id]] # NoName BY <3>1, <3>3
    <3>6. pc' = [pc EXCEPT ![id] = "target"] /\ UNCHANGED <<up, cur, part, dest, reg>>
      BY <2>10 DEF PickTarget
    <3> QED BY <3>1, <3>4, <3>5, <3>6
  <2>11. CASE PickExhausted(id) BY <2>11 DEF PickExhausted
  <2>12. CASE TargetPersisted(id) BY <2>12 DEF TargetPersisted
  <2>13. CASE Link(id) BY <2>13, LinkTarget DEF Link, HardLink
  <2>14. CASE LinkReuse(id) BY <2>14 DEF LinkReuse
  <2>15. CASE LinkConflict(id) BY <2>15 DEF LinkConflict
  <2>16. CASE DirSynced(id)
    <3>1. \A i \in Ids : /\ i # id => mem'[i] = mem[i]
                         /\ mem'[i].decision = mem[i].decision
                         /\ mem'[i].cancelled = mem[i].cancelled
                         /\ mem'[i].targets = mem[i].targets
      BY <2>16 DEF DirSynced
    <3>2. /\ pc' = [pc EXCEPT ![id] = "commit"] /\ pc[id] = "sync"
          /\ UNCHANGED <<up, cur, part, dest, reg>>
      BY <2>16 DEF DirSynced
    <3> QED BY <3>1, <3>2
  <2>17. CASE CommitPersisted(id) BY <2>17 DEF CommitPersisted
  <2>18. CASE UploadDone(id) BY <2>18 DEF UploadDone
  <2>19. ASSUME NEW f \in FilesOf(id), CancelClean(id, f) PROVE HandlersAreSound'
    BY <2>19 DEF CancelClean, FilesOf
  <2> QED
    BY <1>1, <2>1, <2>2, <2>3, <2>4, <2>5, <2>6, <2>7, <2>8, <2>9, <2>10, <2>11, <2>12, <2>13, <2>14, <2>15, <2>16, <2>17, <2>18, <2>19 DEF HandlerStep
<1>2. ASSUME NEW id \in Ids, Environment(id) PROVE HandlersAreSound'
  <2>1. CASE RegisterAgain(id)
    <3>1. UNCHANGED <<up, mem, pc, cur, part, dest>> BY <2>1 DEF RegisterAgain
    <3>2. up /\ reg' = [id |-> id, rec |-> NoRecord] BY <2>1 DEF RegisterAgain
    <3>3. reg'.id = id /\ reg'.rec = NoRecord BY <3>2
    <3> QED BY <3>1, <3>2, <3>3
  <2>2. CASE Accept(id) BY <2>2 DEF Accept
  <2>3. CASE Reject(id) BY <2>3 DEF Reject
  <2>4. CASE CancelRequest(id) BY <2>4 DEF CancelRequest
  <2>5. CASE Status(id) BY <2>5 DEF Status
  <2>6. CASE Forget(id) BY <2>6 DEF Forget
  <2>7. CASE ForgetFails(id) BY <2>7 DEF ForgetFails
  <2>8. CASE ChunkTooLarge(id) BY <2>8 DEF ChunkTooLarge
  <2>9. CASE BodyInterrupted(id) BY <2>9 DEF BodyInterrupted
  <2>10. CASE BodyEnd(id) BY <2>10 DEF BodyEnd
  <2>11. CASE HandlerFails(id) BY <2>11 DEF HandlerFails
  <2>12. CASE HandlerDropped(id)
    <3>1. UNCHANGED <<up, mem, reg>> /\ Release(id) BY <2>12 DEF HandlerDropped
    <3>2. CASE UNCHANGED diskVars BY <3>1, <3>2
    <3>3. CASE /\ pc[id] = "link" /\ HardLink(cur[id], mem[id].targets[cur[id]])
               /\ UNCHANGED <<part, dirty, misread, folderVars>>
      BY <3>1, <3>3, LinkTarget DEF HardLink
    <3>4. CASE pc[id] = "finish" /\ RemovePart(cur[id]) /\ UNCHANGED nameVars
      BY <3>1, <3>4
    <3> QED BY <2>12, <3>2, <3>3, <3>4 DEF HandlerDropped
  <2>13. CASE WaiterDropped(id) BY <2>13 DEF WaiterDropped
  <2>14. ASSUME NEW d \in {"Pending", "Accepted"}, Register(id, d) PROVE HandlersAreSound'
    <3>1. UNCHANGED <<up, mem, pc, cur, part, dest>> BY <2>14 DEF Register
    <3>2. up /\ reg' = [id |-> id, rec |-> Fresh(d)] /\ ~Live(mem[id]) BY <2>14 DEF Register
    <3>3. reg'.id = id /\ reg'.rec = Fresh(d) BY <3>2
    <3>4. Fresh(d).decision = d OBVIOUS
    <3>5. reg'.rec = Fresh(reg'.rec.decision) BY <3>3, <3>4
    <3>6. ~Live(mem'[reg'.id]) BY <3>1, <3>2, <3>3
    <3> HIDE DEF Fresh
    <3> QED BY <3>1, <3>2, <3>5, <3>6
  <2>15. ASSUME NEW f \in FilesOf(id), UploadStart(id, f) PROVE HandlersAreSound'
    BY <2>15 DEF UploadStart
  <2>16. ASSUME NEW right \in BOOLEAN, Chunk(id, right) PROVE HandlersAreSound' BY <2>16 DEF Chunk
  <2>17. CASE LinkUnread(id) BY <2>17 DEF LinkUnread
  <2> HIDE DEF HandlersAreSound, TypeOK
  <2> QED
    BY <1>2, <2>1, <2>2, <2>3, <2>4, <2>5, <2>6, <2>7, <2>8, <2>9, <2>10, <2>11, <2>12, <2>13, <2>14, <2>15, <2>16, <2>17 DEF Environment
<1>3. CASE RegisterDone BY <1>3 DEF RegisterDone
<1>4. CASE RegisterAgainDone BY <1>4 DEF RegisterAgainDone
<1>5. CASE RegisterFails BY <1>5 DEF RegisterFails
<1>6. CASE RegisterDropped BY <1>6 DEF RegisterDropped
<1>7. CASE Start BY <1>7 DEF Start
<1>8. CASE Stop BY <1>8 DEF Stop
<1>9. CASE Crash BY <1>9 DEF Crash
<1>10. ASSUME NEW w \in detached, DetachedLands(w) PROVE HandlersAreSound' BY <1>10 DEF DetachedLands
<1>11. ASSUME NEW n \in Names, OtherFile(n) PROVE HandlersAreSound' BY <1>11 DEF OtherFile
<1>12. CASE UNCHANGED vars BY <1>12 DEF vars
<1> QED BY <1>1, <1>2, <1>3, <1>4, <1>5, <1>6, <1>7, <1>8, <1>9, <1>10, <1>11, <1>12 DEF Next


\* What DirSynced records: the target as published, and complete if that was the
\* last file.
LEMMA DirSyncedRecords ==
  ASSUME NEW id \in Ids, TypeOK, HandlersAreSound, DirSynced(id)
  PROVE  LET f   == cur[id]
             n   == mem[id].targets[f]
             pub == [mem[id].published EXCEPT ![f] = n] IN
         /\ f \in FilesOf(id)
         /\ f \in Files
         /\ n \in Names
         /\ mem'[id].published = pub
         /\ mem'[id].complete <=> \A g \in FilesOf(id) : pub[g] # NoName
         /\ mem'[id].decision = mem[id].decision
         /\ mem'[id].cancelled = mem[id].cancelled
<1> USE ConstantsAssumption, NoNameAssumption
<1> DEFINE f == cur[id]
<1> DEFINE n == mem[id].targets[f]
<1> DEFINE pub == [mem[id].published EXCEPT ![f] = n]
<1> DEFINE all == \A g \in FilesOf(id) : pub[g] # NoName
<1>1. pc[id] = "sync" BY DEF DirSynced
<1>2. f \in FilesOf(id) BY <1>1 DEF HandlersAreSound, Uploading
<1>3. f \in Files BY <1>2 DEF FilesOf
<1>4. mem[id].targets \in [Files -> Names \cup {NoName}] BY DEF TypeOK, Record
<1>5. n # NoName BY <1>1 DEF HandlersAreSound
<1>6. n \in Names BY <1>3, <1>4, <1>5
<1>7. mem' = [mem EXCEPT ![id].published = pub, ![id].complete = all] BY DEF DirSynced
<1>8. mem \in [Ids -> Record] BY DEF TypeOK
<1>9. all \in BOOLEAN OBVIOUS
<1> HIDE DEF pub, all
<1>10. /\ mem'[id].published = pub
       /\ mem'[id].complete = all
       /\ mem'[id].decision = mem[id].decision
       /\ mem'[id].cancelled = mem[id].cancelled
  BY <1>7, <1>8 DEF Record
<1> QED BY <1>2, <1>3, <1>6, <1>10 DEF pub, all

\* Delivered(r)', for a record that does not change with the state.
DeliveredNext(r) ==
  \A f \in Files : r.published[f] # NoName =>
    \/ dest'[r.published[f]] = Digest[f] /\ r.published[f] \notin unsynced'
    \/ r.published[f] \in lost'

\* A receipt is added only after the link and the directory sync, and no step removes
\* or replaces a synced entry that a receipt names.
LEMMA DeliveryStep ==
  TypeOK /\ HandlersAreSound /\ ReceiptsAreDelivered /\ TypeOK' /\ [Next]_vars
    => ReceiptsAreDelivered'
<1> SUFFICES ASSUME TypeOK, HandlersAreSound, ReceiptsAreDelivered, TypeOK', [Next]_vars
             PROVE  ReceiptsAreDelivered'
  OBVIOUS
<1> USE ConstantsAssumption, NoNameAssumption, NoRegAssumption
<1>1. DirectoryKept BY DestStep DEF DirectorySafe
<1>2. RecordsKnown BY RecordsStep
<1>3. ASSUME NEW r \in Record, Delivered(r) PROVE DeliveredNext(r)
  BY <1>1, <1>3 DEF Delivered, DeliveredNext, DirectoryKept, Record
<1>4. ASSUME NEW id \in Ids, NEW r \in Record, Known(id, r) PROVE DeliveredNext(r)
  <2>1. CASE r = NoRecord BY <2>1 DEF DeliveredNext, NoRecord, Fresh
  <2>2. CASE r \in {mem[id], journal[id]} BY <2>2, <1>3 DEF ReceiptsAreDelivered
  <2>3. CASE [id |-> id, rec |-> r] \in detached
    BY <2>3, <1>3 DEF ReceiptsAreDelivered
  <2>4. CASE reg = [id |-> id, rec |-> r]
    <3>1. r = Fresh(r.decision) BY <2>4 DEF HandlersAreSound, Registering, TypeOK
    <3> QED BY <3>1 DEF DeliveredNext, Fresh
  <2> QED BY <1>4, <2>1, <2>2, <2>3, <2>4 DEF Known
<1>5. ASSUME NEW id \in Ids, Changed(id) PROVE DeliveredNext(mem'[id])
  <2>1. DeliveredNext(mem[id]) BY <1>3 DEF ReceiptsAreDelivered, TypeOK
  <2>2. ASSUME mem'[id].published = mem[id].published PROVE DeliveredNext(mem'[id])
    BY <2>1, <2>2 DEF DeliveredNext
  <2>3. CASE DirSynced(id)
    <3> DEFINE f == cur[id]
    <3> DEFINE n == mem[id].targets[f]
    <3>1. f \in Files /\ n \in Names BY <2>3, DirSyncedRecords
    <3>2. dest'[n] = Digest[f] /\ n \notin unsynced'
      BY <2>3, <3>1 DEF DirSynced, HandlersAreSound, NamesIn
    <3>3. mem'[id].published = [mem[id].published EXCEPT ![f] = n]
      BY <2>3, DirSyncedRecords
    <3>4. mem[id].published \in [Files -> Names \cup {NoName}] BY DEF TypeOK, Record
    <3> QED BY <2>1, <3>1, <3>2, <3>3, <3>4 DEF DeliveredNext
  <2>4. CASE Accept(id) \/ Reject(id) \/ CancelLocked(id) \/ PickTarget(id) \/ LinkConflict(id)
             \/ LinkUnread(id)
    <3>1. mem'[id].published = mem[id].published
      BY <2>4 DEF Accept, Reject, CancelLocked, PickTarget, LinkConflict, LinkUnread, TypeOK,
                  Record
    <3> QED BY <3>1, <2>2
  <2> QED BY <1>5, <2>3, <2>4 DEF Changed
<1>6. ASSUME NEW id \in Ids PROVE DeliveredNext(mem'[id]) /\ DeliveredNext(journal'[id])
  <2>1. mem'[id] \in Record /\ journal'[id] \in Record BY DEF TypeOK
  <2> QED BY <1>2, <1>4, <1>5, <2>1 DEF RecordsKnown
<1>7. ASSUME NEW w \in detached' PROVE DeliveredNext(w.rec)
  <2>1. w.id \in Ids /\ w.rec \in Record BY DEF TypeOK
  <2> QED BY <1>2, <1>4, <2>1 DEF RecordsKnown
<1> QED BY <1>6, <1>7 DEF ReceiptsAreDelivered, Delivered, DeliveredNext

\* Only the publication of the last file sets complete; cancellation, under the same
\* mutex, refuses a complete session.
LEMMA CompletionStep ==
  TypeOK /\ HandlersAreSound /\ CompleteMeansAll /\ TypeOK' /\ [Next]_vars
    => CompleteMeansAll'
<1> SUFFICES ASSUME TypeOK, HandlersAreSound, CompleteMeansAll, TypeOK', [Next]_vars
             PROVE  CompleteMeansAll'
  OBVIOUS
<1> USE ConstantsAssumption, NoNameAssumption, NoRegAssumption
<1>1. RecordsKnown BY RecordsStep
<1>2. ASSUME NEW id \in Ids, NEW r \in Record, Known(id, r) PROVE Sound(id, r)
  <2>1. CASE r = NoRecord BY <2>1 DEF Sound, NoRecord, Fresh, Live, FilesOf
  <2>2. CASE r \in {mem[id], journal[id]} BY <2>2 DEF CompleteMeansAll
  <2>3. CASE [id |-> id, rec |-> r] \in detached BY <2>3 DEF CompleteMeansAll
  <2>4. CASE reg = [id |-> id, rec |-> r]
    <3>1. r = Fresh(r.decision) BY <2>4 DEF HandlersAreSound, Registering, TypeOK
    <3>2. ~r.complete /\ \A f \in Files : r.published[f] = NoName BY <3>1 DEF Fresh
    <3> QED BY <3>2 DEF Sound, FilesOf
  <2> QED BY <1>2, <2>1, <2>2, <2>3, <2>4 DEF Known
<1>3. ASSUME NEW id \in Ids, Changed(id) PROVE Sound(id, mem'[id])
  <2>1. Sound(id, mem[id]) /\ mem[id] \in Record /\ mem'[id] \in Record
    BY DEF CompleteMeansAll, TypeOK
  <2>2. CASE Accept(id)
    <3>1. /\ mem'[id].published = mem[id].published /\ mem'[id].decision = "Accepted"
          /\ mem'[id].complete = mem[id].complete /\ ~mem[id].complete /\ Live(mem[id])
      BY <2>2 DEF Accept, Free, Terminal, TypeOK, Record
    <3> QED BY <2>1, <3>1 DEF Sound, Live
  <2>3. CASE Reject(id)
    <3>1. /\ mem'[id].published = mem[id].published /\ mem[id].decision = "Pending"
          /\ mem'[id].complete = mem[id].complete
      BY <2>3 DEF Reject, TypeOK, Record
    <3>2. \A f \in Files : mem[id].published[f] = NoName BY <2>1, <3>1 DEF Sound
    <3>3. ~mem[id].complete BY <2>1, <3>2 DEF Sound, FilesOf
    <3> QED BY <3>1, <3>2, <3>3 DEF Sound, FilesOf
  <2>4. CASE CancelLocked(id)
    <3>1. /\ mem'[id].published = mem[id].published
          /\ mem'[id].decision = mem[id].decision
          /\ mem'[id].complete = mem[id].complete /\ ~mem[id].complete
      BY <2>4 DEF CancelLocked, TypeOK, Record
    <3> QED BY <2>1, <3>1 DEF Sound, Live
  <2>5. CASE PickTarget(id) \/ LinkConflict(id) \/ LinkUnread(id)
    <3>1. /\ mem'[id].published = mem[id].published
          /\ mem'[id].decision = mem[id].decision
          /\ mem'[id].complete = mem[id].complete
          /\ mem'[id].cancelled = mem[id].cancelled
      BY <2>5 DEF PickTarget, LinkConflict, LinkUnread, TypeOK, Record
    <3> QED BY <2>1, <3>1 DEF Sound, Live
  <2>6. CASE DirSynced(id)
    <3> DEFINE pub == [mem[id].published EXCEPT ![cur[id]] = mem[id].targets[cur[id]]]
    <3>1. /\ cur[id] \in FilesOf(id) /\ mem[id].decision = "Accepted"
          /\ ~mem[id].cancelled
      BY <2>6 DEF DirSynced, HandlersAreSound, Uploading
    <3>2. /\ mem'[id].published = pub
          /\ mem'[id].complete <=> \A g \in FilesOf(id) : pub[g] # NoName
          /\ mem'[id].decision = mem[id].decision
          /\ mem'[id].cancelled = mem[id].cancelled
      BY <2>6, DirSyncedRecords
    <3>3. \A f \in Files : pub[f] # NoName => f \in FilesOf(id)
      BY <2>1, <3>1 DEF Sound, Record
    <3> QED BY <3>1, <3>2, <3>3 DEF Sound, Live
  <2> QED BY <1>3, <2>2, <2>3, <2>4, <2>5, <2>6 DEF Changed
<1>4. ASSUME NEW id \in Ids PROVE Sound(id, mem'[id]) /\ Sound(id, journal'[id])
  <2>1. mem'[id] \in Record /\ journal'[id] \in Record BY DEF TypeOK
  <2> QED BY <1>1, <1>2, <1>3, <2>1 DEF RecordsKnown
<1>5. ASSUME NEW w \in detached' PROVE Sound(w.id, w.rec)
  <2>1. w.id \in Ids /\ w.rec \in Record BY DEF TypeOK
  <2> QED BY <1>1, <1>2, <2>1 DEF RecordsKnown
<1> QED BY <1>4, <1>5 DEF CompleteMeansAll, Sound, Live

(***************************************************************************)
(* The inductive invariant: the receipts rest on what upload knows at each *)
(* await point (HandlersAreSound), which in turn rests on nothing else.    *)
(***************************************************************************)
\* An empty store satisfies the inductive invariant.
LEMMA InitInv == Init => Inv
<1> SUFFICES ASSUME Init PROVE Inv OBVIOUS
<1> USE ConstantsAssumption, NoNameAssumption DEF Init
<1>1. NoRecord \in Record BY DEF NoRecord, Fresh, Record, Decisions
<1>2. TypeOK
  <2>1. part \in [Files -> Part] BY DEF Part, NoPart
  <2>2. history \in [Ids -> [Outcomes -> Nat]] BY DEF NoHistory, Outcomes
  <2>3. mem \in [Ids -> Record] /\ journal \in [Ids -> Record] BY <1>1
  <2>4. /\ token \in [Ids -> BOOLEAN] /\ finished \in [Ids -> BOOLEAN]
        /\ waiting \in [Ids -> BOOLEAN] /\ pc \in [Ids -> Phases]
    BY DEF Phases
  <2>5. /\ cur \in [Ids -> Files \cup {NoFile}] /\ idx \in [Ids -> Nat]
        /\ maker \in [Names -> Files \cup {NoFile}]
        /\ told \in [Ids -> SUBSET Facts]
    OBVIOUS
  <2>6. up \in BOOLEAN /\ reg \in [id : Ids, rec : Record] \cup {NoReg} OBVIOUS
  <2>7. /\ dirty \in SUBSET Files /\ dest \in [Names -> Contents \cup {Absent}]
        /\ unsynced \in SUBSET Names /\ misread \in SUBSET Files
        /\ dirs \in SUBSET Dirs /\ fresh \in SUBSET Dirs /\ lost \in SUBSET Names
        /\ detached \in SUBSET [id : Ids, rec : Record]
    OBVIOUS
  <2>8. {crashes, drops, ioErrors} \subseteq Nat OBVIOUS
  <2> HIDE DEF Init
  <2> QED BY <2>1, <2>2, <2>3, <2>4, <2>5, <2>6, <2>7, <2>8 DEF TypeOK
<1>3. HandlersAreSound
  BY DEF HandlersAreSound, Registering, Live, NoRecord, Fresh, Uploading
<1>4. PartWithinSize BY DEF PartWithinSize, NoPart
<1>5. ReceiptsAreDelivered BY DEF ReceiptsAreDelivered, Delivered, NoRecord, Fresh
<1>6. CompleteMeansAll BY DEF CompleteMeansAll, Sound, Live, NoRecord, Fresh
<1> QED BY <1>2, <1>3, <1>4, <1>5, <1>6 DEF Inv

\* Every step keeps the inductive invariant.
LEMMA NextInv == Inv /\ [Next]_vars => Inv'
<1> SUFFICES ASSUME Inv, [Next]_vars PROVE Inv' OBVIOUS
<1>1. TypeOK' BY TypeStep DEF Inv
<1>2. HandlersAreSound' BY HandlerStepSound DEF Inv
<1>3. PartWithinSize' BY PartStep DEF Inv
<1>4. ReceiptsAreDelivered' BY <1>1, DeliveryStep DEF Inv
<1>5. CompleteMeansAll' BY <1>1, CompletionStep DEF Inv
<1> QED BY <1>1, <1>2, <1>3, <1>4, <1>5 DEF Inv

\* The inductive invariant holds in every state of the receiver.
THEOREM Invariance == Spec => []Inv
  BY InitInv, NextInv, PTL DEF Spec

\* Every variable of the receiver keeps its type.
THEOREM TypeCorrect == Spec => []TypeOK
<1>1. Inv => TypeOK BY DEF Inv
<1> QED BY <1>1, Invariance, PTL

\* Whatever crashes, drops and I/O errors happen between hashing, link, directory
\* sync and journal commit of upload, every receipt - in memory, in a journal or in a
\* journal write under way - names a file with the manifest's content whose directory
\* entry is synced, unless a power failure took the whole directory, made by upload
\* and never synced above.
THEOREM ReceiptsDelivered == Spec => []ReceiptsAreDelivered
<1>1. Inv => ReceiptsAreDelivered BY DEF Inv
<1> QED BY <1>1, Invariance, PTL

\* The complete flag of a session, in memory and in every journal a restart may load,
\* says exactly that all files of an accepted, uncancelled session are published.
THEOREM CompletionSound == Spec => []CompleteMeansAll
<1>1. Inv => CompleteMeansAll BY DEF Inv
<1> QED BY <1>1, Invariance, PTL

\* The part files upload appends to never outgrow the declared size, so checkpoints
\* never refuses a session.
THEOREM PartsWithinSize == Spec => []PartWithinSize
<1>1. Inv => PartWithinSize BY DEF Inv
<1> QED BY <1>1, Invariance, PTL

\* At each await point of upload what it checked before the await still holds.
THEOREM HandlersSound == Spec => []HandlersAreSound
<1>1. Inv => HandlersAreSound BY DEF Inv
<1> QED BY <1>1, Invariance, PTL

\* Publication by hard link never replaces a file of the download directory; only a
\* power failure takes one away, with its unsynced entry or its unsynced directory.
THEOREM FilesKept == Spec => ExistingFilesAreKept
<1>1. Inv /\ [Next]_vars =>
        [\A n \in Names : dest[n] # Absent /\ n \notin unsynced \cup NamesIn(fresh) =>
           dest'[n] = dest[n]]_vars
  BY DestStep DEF Inv, DirectorySafe, DirectoryKept
<1> QED BY <1>1, Invariance, PTL DEF Spec, ExistingFilesAreKept

\* upload makes a name only for a part that matches the manifest, while its session
\* is accepted and not cancelled.
THEOREM PublishedVerified == Spec => OnlyVerifiedPublished
<1>1. Inv /\ [Next]_vars =>
        [\A n \in Names : maker'[n] \notin {maker[n], NoFile} =>
           LET s == mem[Session[maker'[n]]] IN
           Matches(maker'[n]) /\ s.decision = "Accepted" /\ ~s.cancelled]_vars
  BY DestStep DEF Inv, DirectorySafe, NewNamesVerified
<1> QED BY <1>1, Invariance, PTL DEF Spec, OnlyVerifiedPublished

-----------------------------------------------------------------------------
(***************************************************************************)
(* What holds as long as no handler was dropped, and as long as there was  *)
(* no I/O error either.  A dropped handler's journal write may land after  *)
(* a later one, and a failed write leaves memory ahead of its journal.     *)
(***************************************************************************)
Unfaulted == drops = 0 /\ ioErrors = 0

\* A record without a session is empty.
BlankOrLive(r) == Live(r) \/ r = NoRecord
RecordsAreBlankOrLive ==
  /\ \A id \in Ids : BlankOrLive(mem[id]) /\ BlankOrLive(journal[id])
  /\ \A w \in detached : BlankOrLive(w.rec)

\* Only dropped handlers leave journal writes behind.
NoStrayWrites == drops = 0 => detached = {}

\* A name that upload made is the target that the journal has for its file, so that
\* a restart finds it again; a target is abandoned only for a name that others hold,
\* or that could not be read.
Placed(n) ==
  maker[n] # NoFile =>
    LET f == maker[n] IN
    /\ dest[n] = Digest[f]
    /\ Live(journal[Session[f]]) /\ (up => Live(mem[Session[f]]))
    /\ f \notin misread => journal[Session[f]].targets[f] = n
    /\ up /\ f \notin misread => mem[Session[f]].targets[f] = n
LinkReady(id) ==
  pc[id] = "link" => Live(journal[id]) /\ journal[id].targets = mem[id].targets
NamesAreJournalled == drops = 0 => /\ \A n \in Names : Placed(n)
                                   /\ \A id \in Ids : LinkReady(id)

\* An outcome on record is what memory and journal say, and a handler that is about
\* to record one finds none there.
Recorded(id) ==
  /\ history[id]["Completed"] + history[id]["Failed"] <= 1
  /\ history[id]["Completed"] > 0 => journal[id].complete /\ (up => mem[id].complete)
  /\ history[id]["Failed"] > 0 => journal[id].cancelled /\ (up => mem[id].cancelled)
  /\ pc[id] \in {"body", "verify", "pick", "target", "link", "sync"} =>
       mem[id].published[cur[id]] = NoName
  /\ pc[id] \in {"commit", "finish"} \cup Cancelling =>
       history[id]["Completed"] = 0 /\ history[id]["Failed"] = 0
  /\ pc[id] = "finish" => (mem[id].complete => journal[id].complete)
  /\ pc[id] = "cancel" => mem[id].cancelled
  /\ pc[id] = "clean" => mem[id].cancelled /\ journal[id].cancelled
OutcomesAreRecorded == drops = 0 => \A id \in Ids : Recorded(id)

\* The journal has what memory has, except for the change that the holder of the
\* mutex is writing.
InStep(id) ==
  /\ up /\ pc[id] \notin {"accept", "reject"} => journal[id].decision = mem[id].decision
  /\ up /\ pc[id] # "cancel" => journal[id].cancelled = mem[id].cancelled
  /\ up /\ pc[id] # "commit" => /\ journal[id].published = mem[id].published
                                /\ journal[id].complete = mem[id].complete
  /\ pc[id] = "accept" => /\ mem[id].decision = "Accepted"
                          /\ journal[id].decision \in {"Pending", "Accepted"}
  /\ pc[id] = "reject" => /\ mem[id].decision = "Rejected"
                          /\ journal[id].decision = "Pending"
  /\ pc[id] = "cancel" => mem[id].cancelled /\ ~journal[id].cancelled /\ ~mem[id].complete
  /\ pc[id] = "commit" =>
       /\ journal[id].published[cur[id]] = NoName /\ mem[id].published[cur[id]] # NoName
       /\ \A f \in Files \ {cur[id]} : mem[id].published[f] = journal[id].published[f]
JournalsAreInStep == Unfaulted => \A id \in Ids : InStep(id)

\* What a caller was told is so, in memory and in the journal.
Holds(fact, rec) == \/ fact = "accepted" /\ rec.decision = "Accepted"
                    \/ fact = "complete" /\ rec.complete
                    \/ fact \in {"cancelled", "removed"} /\ rec.cancelled
ToldTruth(id) == \A fact \in told[id] :
                   Holds(fact, journal[id]) /\ (up => Holds(fact, mem[id]))
ToldIsTrue == Unfaulted => \A id \in Ids : ToldTruth(id)

\* The sessions a restart would load are within the limit, and a registration in
\* progress has a place.
Retained == {id \in Ids : Live(journal[id])}
WithinLimit == /\ IsFiniteSet(Retained) /\ Cardinality(Retained) <= MaxSessions
               /\ Registering /\ Live(reg.rec) => Cardinality(Retained) < MaxSessions
RetainedWithinLimit == Unfaulted => WithinLimit

\* A cancelled session has no part left once its canceller is done, and a complete
\* one is on record once its upload is.
Effective(id) ==
  /\ journal[id].cancelled /\ pc[id] \notin Cancelling => \A f \in FilesOf(id) : ~part[f].here
  /\ journal[id].complete /\ pc[id] # "finish" => history[id]["Completed"] > 0
  /\ "removed" \in told[id] => pc[id] \notin Cancelling
  /\ "complete" \in told[id] => pc[id] # "finish"
EffectsAreThere == Undisturbed => \A id \in Ids : Effective(id)

FaultFree == /\ RecordsAreBlankOrLive /\ NoStrayWrites /\ NamesAreJournalled
             /\ OutcomesAreRecorded /\ JournalsAreInStep /\ ToldIsTrue /\ RetainedWithinLimit
             /\ EffectsAreThere

\* The counters of faults only grow.
FaultsGrow == /\ drops' = 0 => drops = 0
              /\ ioErrors' = 0 => ioErrors = 0
              /\ crashes' = 0 => crashes = 0
              /\ drops' = 0 => detached' \subseteq detached
LEMMA FaultsStep == TypeOK /\ [Next]_vars => FaultsGrow
<1> SUFFICES ASSUME TypeOK, [Next]_vars PROVE FaultsGrow OBVIOUS
<1> USE DEF FaultsGrow, faultVars, Drop, IoError
<1>a. drops \in Nat /\ ioErrors \in Nat /\ crashes \in Nat BY DEF TypeOK
<1>1. ASSUME NEW id \in Ids, HandlerStep(id) PROVE FaultsGrow
  <2>1. CASE AcceptDone(id) BY <2>1 DEF AcceptDone
  <2>2. CASE RejectDone(id) BY <2>2 DEF RejectDone
  <2>3. CASE CancelAnswered(id) BY <2>3 DEF CancelAnswered
  <2>4. CASE CancelLocked(id) BY <2>4 DEF CancelLocked
  <2>5. CASE CancelPersisted(id) BY <2>5 DEF CancelPersisted
  <2>6. CASE CancelDone(id) BY <2>6 DEF CancelDone
  <2>7. CASE BodyCancelled(id) BY <2>7 DEF BodyCancelled
  <2>8. CASE VerifyFails(id) BY <2>8 DEF VerifyFails
  <2>9. CASE Verified(id) BY <2>9 DEF Verified
  <2>10. CASE PickTarget(id) BY <2>10 DEF PickTarget
  <2>11. CASE PickExhausted(id) BY <2>11 DEF PickExhausted
  <2>12. CASE TargetPersisted(id) BY <2>12 DEF TargetPersisted
  <2>13. CASE Link(id) BY <2>13 DEF Link
  <2>14. CASE LinkReuse(id) BY <2>14 DEF LinkReuse
  <2>15. CASE LinkConflict(id) BY <2>15 DEF LinkConflict
  <2>16. CASE DirSynced(id) BY <2>16 DEF DirSynced
  <2>17. CASE CommitPersisted(id) BY <2>17 DEF CommitPersisted
  <2>18. CASE UploadDone(id) BY <2>18 DEF UploadDone
  <2>19. ASSUME NEW f \in FilesOf(id), CancelClean(id, f) PROVE FaultsGrow BY <2>19 DEF CancelClean
  <2> QED BY <1>1, <2>1, <2>2, <2>3, <2>4, <2>5, <2>6, <2>7, <2>8, <2>9, <2>10, <2>11,
         <2>12, <2>13, <2>14, <2>15, <2>16, <2>17, <2>18, <2>19 DEF HandlerStep
<1>2. ASSUME NEW id \in Ids, Environment(id) PROVE FaultsGrow
  <2>1. CASE RegisterAgain(id) BY <2>1 DEF RegisterAgain
  <2>2. CASE Accept(id) BY <2>2 DEF Accept
  <2>3. CASE Reject(id) BY <2>3 DEF Reject
  <2>4. CASE CancelRequest(id) BY <2>4 DEF CancelRequest
  <2>5. CASE Status(id) BY <2>5 DEF Status
  <2>6. CASE Forget(id) BY <2>6 DEF Forget
  <2>7. CASE ForgetFails(id) BY <2>7, <1>a DEF ForgetFails
  <2>8. CASE ChunkTooLarge(id) BY <2>8 DEF ChunkTooLarge
  <2>9. CASE BodyInterrupted(id) BY <2>9 DEF BodyInterrupted
  <2>10. CASE BodyEnd(id) BY <2>10 DEF BodyEnd
  <2>11. CASE HandlerFails(id) BY <2>11, <1>a DEF HandlerFails
  <2>12. CASE HandlerDropped(id) BY <2>12, <1>a DEF HandlerDropped
  <2>13. CASE WaiterDropped(id) BY <2>13, <1>a DEF WaiterDropped
  <2>14. ASSUME NEW d \in {"Pending", "Accepted"}, Register(id, d) PROVE FaultsGrow
    BY <2>14 DEF Register
  <2>15. ASSUME NEW f \in FilesOf(id), UploadStart(id, f) PROVE FaultsGrow BY <2>15 DEF UploadStart
  <2>16. ASSUME NEW right \in BOOLEAN, Chunk(id, right) PROVE FaultsGrow BY <2>16 DEF Chunk
  <2>17. CASE LinkUnread(id) BY <2>17, <1>a DEF LinkUnread
  <2> QED BY <1>2, <2>1, <2>2, <2>3, <2>4, <2>5, <2>6, <2>7, <2>8, <2>9, <2>10, <2>11,
         <2>12, <2>13, <2>14, <2>15, <2>16, <2>17 DEF Environment
<1>3. CASE RegisterDone BY <1>3 DEF RegisterDone
<1>4. CASE RegisterAgainDone BY <1>4 DEF RegisterAgainDone
<1>5. CASE RegisterFails BY <1>5, <1>a DEF RegisterFails
<1>6. CASE RegisterDropped BY <1>6, <1>a DEF RegisterDropped
<1>7. CASE Start BY <1>7 DEF Start
<1>8. CASE Stop BY <1>8 DEF Stop
<1>9. CASE Crash BY <1>9, <1>a DEF Crash
<1>10. ASSUME NEW w \in detached, DetachedLands(w) PROVE FaultsGrow BY <1>10 DEF DetachedLands
<1>11. ASSUME NEW n \in Names, OtherFile(n) PROVE FaultsGrow BY <1>11 DEF OtherFile
<1>12. CASE UNCHANGED vars BY <1>12 DEF vars
<1> QED BY <1>1, <1>2, <1>3, <1>4, <1>5, <1>6, <1>7, <1>8, <1>9, <1>10, <1>11, <1>12 DEF Next

\* A crash leaves a journal as it was, as the handler was writing it, or as the
\* registration was.
LEMMA CrashLands ==
  ASSUME Crash, NEW i \in Ids
  PROVE  \/ journal'[i] = journal[i]
         \/ journal'[i] = mem[i] /\ pc[i] \in Persisting
         \/ Registering /\ Live(reg.rec) /\ i = reg.id /\ journal'[i] = reg.rec
<1>1. PICK landed \in SUBSET {j \in Ids : pc[j] \in Persisting} :
        \/ journal' = [j \in Ids |-> IF j \in landed THEN mem[j] ELSE journal[j]]
        \/ /\ Registering /\ Live(reg.rec)
           /\ journal' = [j \in Ids |-> IF j = reg.id THEN reg.rec
                                        ELSE IF j \in landed THEN mem[j] ELSE journal[j]]
  BY DEF Crash
<1>2. i \in landed => pc[i] \in Persisting OBVIOUS
<1> QED BY <1>1, <1>2

LEMMA StrayWritesStep == TypeOK /\ NoStrayWrites /\ [Next]_vars => NoStrayWrites'
  BY FaultsStep DEF NoStrayWrites, FaultsGrow

\* No step writes half a record.
LEMMA BlankStep ==
  TypeOK /\ HandlersAreSound /\ RecordsAreBlankOrLive /\ TypeOK' /\ [Next]_vars
    => RecordsAreBlankOrLive'
<1> SUFFICES ASSUME TypeOK, HandlersAreSound, RecordsAreBlankOrLive, TypeOK', [Next]_vars
             PROVE  RecordsAreBlankOrLive'
  OBVIOUS
<1>1. RecordsKnown BY RecordsStep
<1>2. ASSUME NEW id \in Ids, NEW r \in Record, Known(id, r) PROVE BlankOrLive(r)
  <2>1. CASE r \in {NoRecord, mem[id], journal[id]}
    BY <2>1 DEF RecordsAreBlankOrLive, BlankOrLive
  <2>2. CASE [id |-> id, rec |-> r] \in detached BY <2>2 DEF RecordsAreBlankOrLive
  <2>3. CASE reg = [id |-> id, rec |-> r]
    <3>1. reg # NoReg /\ reg.rec = r BY <2>3, NoRegAssumption
    <3>2. r = Fresh(r.decision) BY <3>1 DEF HandlersAreSound, Registering
    <3> QED BY <3>2 DEF BlankOrLive, NoRecord, Live
  <2> QED BY <1>2, <2>1, <2>2, <2>3 DEF Known
<1>3. ASSUME NEW id \in Ids, Changed(id) PROVE Live(mem'[id])
  <2>1. Live(mem[id])
    BY <1>3 DEF Changed, Accept, Reject, CancelLocked, PickTarget, LinkConflict, LinkUnread,
                DirSynced, Free, HandlersAreSound
  <2>2. mem'[id].decision \in {mem[id].decision, "Accepted", "Rejected"}
    <3>1. CASE DirSynced(id) BY <3>1, DirSyncedRecords
    <3>2. CASE Accept(id) \/ Reject(id) \/ CancelLocked(id) \/ PickTarget(id) \/ LinkConflict(id)
             \/ LinkUnread(id)
      BY <3>2 DEF Accept, Reject, CancelLocked, PickTarget, LinkConflict, LinkUnread, TypeOK,
                  Record
    <3> QED BY <1>3, <3>1, <3>2 DEF Changed
  <2> QED BY <2>1, <2>2 DEF Live
<1>4. ASSUME NEW id \in Ids PROVE BlankOrLive(mem'[id]) /\ BlankOrLive(journal'[id])
  <2>1. mem'[id] \in Record /\ journal'[id] \in Record BY DEF TypeOK
  <2> QED BY <1>1, <1>2, <1>3, <2>1 DEF RecordsKnown, BlankOrLive
<1>5. ASSUME NEW w \in detached' PROVE BlankOrLive(w.rec)
  <2>1. w.id \in Ids /\ w.rec \in Record BY DEF TypeOK
  <2> QED BY <1>1, <1>2, <2>1 DEF RecordsKnown
<1> QED BY <1>4, <1>5 DEF RecordsAreBlankOrLive, BlankOrLive, Live, NoRecord, Fresh

NamesKept == (\A n \in Names : Placed(n)) /\ (\A id \in Ids : LinkReady(id))

\* A target is in the journal before the link is made, and stays there as long as
\* the name does.
LEMMA NamesStep ==
  TypeOK /\ HandlersAreSound /\ NoStrayWrites /\ RecordsAreBlankOrLive /\ NamesAreJournalled
    /\ [Next]_vars
    => NamesAreJournalled'
<1> SUFFICES ASSUME TypeOK, HandlersAreSound, NoStrayWrites, RecordsAreBlankOrLive,
                    NamesAreJournalled, [Next]_vars, drops' = 0
             PROVE  NamesKept'
  BY DEF NamesAreJournalled, NamesKept
<1>a. drops = 0 /\ detached = {} /\ NamesKept
  BY FaultsStep DEF FaultsGrow, NoStrayWrites, NamesAreJournalled, NamesKept
<1>b. drops' # drops + 1 BY <1>a
<1>c. \A id \in Ids : pc[id] # "idle" => Live(mem[id]) /\ up BY DEF HandlersAreSound
<1>d. ASSUME NEW id \in Ids, pc[id] # "idle", journal' = [journal EXCEPT ![id] = mem[id]],
             UNCHANGED <<maker, dest, misread, mem, up>>, \A i \in Ids \ {id} : pc'[i] = pc[i]
      PROVE  NamesKept'
  <2>1. \A n \in Names : Placed(n)'
    BY <1>a, <1>c, <1>d, ConstantsAssumption DEF NamesKept, Placed, TypeOK
  <2>2. \A i \in Ids : LinkReady(i)'
    BY <1>a, <1>c, <1>d DEF NamesKept, LinkReady, TypeOK
  <2> QED BY <2>1, <2>2 DEF NamesKept
<1>e. ASSUME Registering, Live(reg.rec)
      PROVE  /\ reg.id \in Ids /\ pc[reg.id] = "idle"
             /\ \A n \in Names : maker[n] # NoFile => Session[maker[n]] # reg.id
  BY <1>a, <1>e DEF HandlersAreSound, Registering, TypeOK, NamesKept, Placed
<1> USE ConstantsAssumption, NoNameAssumption, NoRegAssumption, <1>a
<1> USE DEF handlerVars, diskVars, nameVars, folderVars, faultVars, NamesKept, Placed, LinkReady, TypeOK, Enter, Release,
            Persisted, Live, Record
<1>1. ASSUME NEW id \in Ids, HandlerStep(id) PROVE NamesKept'
  <2>1. CASE AcceptDone(id) BY <2>1, <1>d DEF AcceptDone
  <2>2. CASE RejectDone(id) BY <2>2, <1>d DEF RejectDone
  <2>3. CASE CancelAnswered(id) BY <2>3 DEF CancelAnswered
  <2>4. CASE CancelLocked(id) BY <2>4 DEF CancelLocked
  <2>5. CASE CancelPersisted(id) BY <2>5, <1>d DEF CancelPersisted
  <2>6. CASE CancelDone(id) BY <2>6 DEF CancelDone
  <2>7. CASE BodyCancelled(id) BY <2>7 DEF BodyCancelled
  <2>8. CASE VerifyFails(id) BY <2>8 DEF VerifyFails
  <2>9. CASE Verified(id) BY <2>9 DEF Verified
  <2>10. CASE PickTarget(id) BY <2>10 DEF PickTarget
  <2>11. CASE PickExhausted(id) BY <2>11 DEF PickExhausted
  <2>12. CASE TargetPersisted(id) BY <2>12, <1>d DEF TargetPersisted
  <2>13. CASE Link(id)
    <3> DEFINE f == cur[id]
    <3> DEFINE n == mem[id].targets[f]
    <3>1. /\ pc[id] = "link" /\ HardLink(f, n) /\ UNCHANGED <<up, mem, journal, misread>>
          /\ pc' = [pc EXCEPT ![id] = "sync"]
      BY <2>13 DEF Link
    <3>2. /\ f \in Files /\ Session[f] = id /\ n \in Names BY <3>1, LinkTarget
    <3>3. Live(mem[id]) /\ Live(journal[id]) /\ journal[id].targets[f] = n BY <3>1, <1>c
    <3> HIDE DEF n, f
    <3>4. \A m \in Names : Placed(m)' BY <3>1, <3>2, <3>3 DEF HardLink, n
    <3>5. \A i \in Ids : LinkReady(i)' BY <3>1
    <3> QED BY <3>4, <3>5
  <2>14. CASE LinkReuse(id) BY <2>14 DEF LinkReuse
  <2>15. CASE LinkConflict(id) BY <2>15 DEF LinkConflict
  <2>16. CASE DirSynced(id)
    <3>1. /\ pc[id] = "sync" /\ pc' = [pc EXCEPT ![id] = "commit"]
          /\ UNCHANGED <<up, journal, maker, dest, misread, cur>>
          /\ \A i \in Ids \ {id} : mem'[i] = mem[i]
      BY <2>16 DEF DirSynced
    <3>2. mem'[id].targets = mem[id].targets /\ mem'[id].decision = mem[id].decision
      BY <2>16 DEF DirSynced
    <3>3. \A i \in Ids : mem'[i].targets = mem[i].targets /\ mem'[i].decision = mem[i].decision
      BY <3>1, <3>2
    <3>4. \A m \in Names : Placed(m)' BY <3>1, <3>3
    <3>5. \A i \in Ids : LinkReady(i)' BY <3>1, <3>3
    <3> QED BY <3>4, <3>5
  <2>17. CASE CommitPersisted(id) BY <2>17, <1>d DEF CommitPersisted
  <2>18. CASE UploadDone(id) BY <2>18 DEF UploadDone
  <2>19. ASSUME NEW f \in FilesOf(id), CancelClean(id, f) PROVE NamesKept' BY <2>19 DEF CancelClean
  <2> QED BY <1>1, <2>1, <2>2, <2>3, <2>4, <2>5, <2>6, <2>7, <2>8, <2>9, <2>10, <2>11,
         <2>12, <2>13, <2>14, <2>15, <2>16, <2>17, <2>18, <2>19 DEF HandlerStep
<1>2. ASSUME NEW id \in Ids, Environment(id) PROVE NamesKept'
  <2>1. CASE RegisterAgain(id) BY <2>1 DEF RegisterAgain
  <2>2. CASE Accept(id) BY <2>2 DEF Accept
  <2>3. CASE Reject(id) BY <2>3 DEF Reject
  <2>4. CASE CancelRequest(id) BY <2>4 DEF CancelRequest
  <2>5. CASE Status(id) BY <2>5 DEF Status
  <2>6. CASE Forget(id)
    <3>1. \A m \in Names : maker'[m] # NoFile => maker'[m] = maker[m] /\ Session[maker[m]] # id
      BY <2>6 DEF Forget, FilesOf
    <3>2. /\ \A i \in Ids \ {id} : journal'[i] = journal[i] /\ mem'[i] = mem[i]
          /\ UNCHANGED <<dest, up, pc>> /\ pc[id] = "idle"
          /\ \A f \in Files : Session[f] # id => (f \in misread' <=> f \in misread)
      BY <2>6 DEF Forget, Free, FilesOf
    <3>3. \A m \in Names : Placed(m)' BY <3>1, <3>2
    <3>4. \A i \in Ids : LinkReady(i)' BY <3>2
    <3> QED BY <3>3, <3>4
  <2>7. CASE ForgetFails(id) BY <2>7 DEF ForgetFails
  <2>8. CASE ChunkTooLarge(id) BY <2>8 DEF ChunkTooLarge
  <2>9. CASE BodyInterrupted(id) BY <2>9 DEF BodyInterrupted
  <2>10. CASE BodyEnd(id) BY <2>10 DEF BodyEnd
  <2>11. CASE HandlerFails(id)
    <3>1. CASE journal' = journal BY <2>11, <3>1 DEF HandlerFails
    <3>2. CASE pc[id] \in Persisting /\ Persisted(id)
      BY <2>11, <3>2, <1>d DEF HandlerFails, Persisting
    <3> QED BY <2>11, <3>1, <3>2 DEF HandlerFails
  <2>12. CASE HandlerDropped(id) BY <2>12, <1>b DEF HandlerDropped, Drop
  <2>13. CASE WaiterDropped(id) BY <2>13, <1>b DEF WaiterDropped, Drop
  <2>14. ASSUME NEW d \in {"Pending", "Accepted"}, Register(id, d) PROVE NamesKept'
    BY <2>14 DEF Register
  <2>15. ASSUME NEW f \in FilesOf(id), UploadStart(id, f) PROVE NamesKept' BY <2>15 DEF UploadStart
  <2>16. ASSUME NEW right \in BOOLEAN, Chunk(id, right) PROVE NamesKept' BY <2>16 DEF Chunk
  <2>17. CASE LinkUnread(id)
    <3>1. /\ UNCHANGED <<up, journal, maker, dest>> /\ misread' = misread \cup {cur[id]}
          /\ \A i \in Ids \ {id} : mem'[i] = mem[i]
          /\ pc' = [pc EXCEPT ![id] = "pick"]
      BY <2>17 DEF LinkUnread
    <3>2. /\ mem'[id].decision = mem[id].decision
          /\ \A f \in Files \ {cur[id]} : mem'[id].targets[f] = mem[id].targets[f]
      BY <2>17 DEF LinkUnread
    <3>3. ASSUME NEW m \in Names, maker[m] # NoFile PROVE Placed(m)'
      <4>1. PICK f \in Files, i \in Ids : f = maker[m] /\ i = Session[f] BY <3>3
      <4>2. /\ dest[m] = Digest[f] /\ Live(journal[i]) /\ (up => Live(mem[i]))
            /\ f \notin misread => journal[i].targets[f] = m
            /\ up /\ f \notin misread => mem[i].targets[f] = m
        BY <3>3, <4>1
      <4>3. mem'[i].decision = mem[i].decision BY <3>1, <3>2
      <4>4. f # cur[id] => mem'[i].targets[f] = mem[i].targets[f] BY <3>1, <3>2
      <4> QED BY ONLY <3>1, <4>1, <4>2, <4>3, <4>4 DEF Placed, Live
    <3>4. \A i \in Ids : LinkReady(i)' BY <3>1
    <3> QED BY <3>1, <3>3, <3>4
  <2> QED BY <1>2, <2>1, <2>2, <2>3, <2>4, <2>5, <2>6, <2>7, <2>8, <2>9, <2>10, <2>11,
         <2>12, <2>13, <2>14, <2>15, <2>16, <2>17 DEF Environment
<1>3. CASE RegisterDone BY <1>3, <1>e DEF RegisterDone
<1>4. CASE RegisterAgainDone BY <1>4 DEF RegisterAgainDone
<1>5. CASE RegisterFails
  <2>1. CASE journal' = journal BY <1>5, <2>1 DEF RegisterFails
  <2>2. CASE journal' = [journal EXCEPT ![reg.id] = reg.rec]
    BY <1>5, <2>2, <1>e DEF RegisterFails
  <2> QED BY <1>5, <2>1, <2>2 DEF RegisterFails
<1>6. CASE RegisterDropped BY <1>6, <1>b DEF RegisterDropped, Drop
<1>7. CASE Start BY <1>7 DEF Start
<1>8. CASE Stop BY <1>8 DEF Stop
<1>9. CASE Crash
  <2>1. /\ \A m \in Names : maker'[m] # NoFile => maker'[m] = maker[m] /\ dest'[m] = dest[m]
        /\ misread' = misread
    BY <1>9 DEF Crash, PowerLoss
  <2>2. ASSUME NEW i \in Ids
        PROVE  \/ journal'[i] = journal[i]
               \/ journal'[i] = mem[i] /\ pc[i] # "idle"
               \/ Registering /\ Live(reg.rec) /\ i = reg.id
    BY <1>9, CrashLands DEF Persisting
  <2>3. ~up' /\ \A i \in Ids : pc'[i] = "idle" BY <1>9 DEF Crash
  <2>4. ASSUME NEW m \in Names, maker'[m] # NoFile PROVE Placed(m)'
    <3>1. PICK f \in Files : f = maker[m] /\ maker'[m] = f BY <2>1, <2>4
    <3>2. PICK i \in Ids : i = Session[f] OBVIOUS
    <3>3. /\ dest[m] = Digest[f] /\ Live(journal[i]) /\ (up => Live(mem[i]))
          /\ f \notin misread => journal[i].targets[f] = m
          /\ up /\ f \notin misread => mem[i].targets[f] = m
      BY <3>1, <3>2
    <3> HIDE DEF Live
    <3>4. Live(journal'[i]) /\ (f \notin misread => journal'[i].targets[f] = m)
      <4>1. CASE journal'[i] = journal[i] BY ONLY <4>1, <3>3 DEF Live
      <4>2. CASE journal'[i] = mem[i] /\ pc[i] # "idle" BY ONLY <4>2, <3>3, <1>c DEF Live
      <4>3. CASE Registering /\ Live(reg.rec) /\ i = reg.id BY <4>3, <3>1, <3>2, <1>e
      <4> QED BY <4>1, <4>2, <4>3, <2>2
    <3> QED BY <2>1, <2>3, <2>4, <3>1, <3>2, <3>3, <3>4
  <2> QED BY <2>3, <2>4
<1>10. ASSUME NEW w \in detached, DetachedLands(w) PROVE NamesKept' BY <1>10
<1>11. ASSUME NEW n \in Names, OtherFile(n) PROVE NamesKept' BY <1>11 DEF OtherFile
<1>12. CASE UNCHANGED vars BY <1>12 DEF vars
<1> QED BY <1>1, <1>2, <1>3, <1>4, <1>5, <1>6, <1>7, <1>8, <1>9, <1>10, <1>11, <1>12 DEF Next

\* An outcome is recorded by the holder of the mutex, after the journal has it, in a
\* session that has none.
LEMMA RecordedStep ==
  Inv /\ NoStrayWrites /\ RecordsAreBlankOrLive /\ OutcomesAreRecorded /\ [Next]_vars
    => OutcomesAreRecorded'
<1> DEFINE Goal == \A id \in Ids : Recorded(id)'
<1> SUFFICES ASSUME Inv, NoStrayWrites, RecordsAreBlankOrLive, OutcomesAreRecorded,
                    [Next]_vars, drops' = 0
             PROVE  Goal
  BY DEF OutcomesAreRecorded
<1>a. drops = 0 /\ detached = {} /\ \A id \in Ids : Recorded(id)
  BY FaultsStep DEF FaultsGrow, NoStrayWrites, OutcomesAreRecorded, Inv
<1>b. drops' # drops + 1 BY <1>a
<1>c. \A id \in Ids : pc[id] # "idle" => Live(mem[id]) /\ up BY DEF HandlersAreSound, Inv
<1>d. \A id \in Ids : pc[id] \in Uploading => cur[id] \in FilesOf(id) /\ ~mem[id].cancelled
  BY DEF HandlersAreSound, Inv
<1>e. \A id \in Ids : \A f \in FilesOf(id) : mem[id].published[f] = NoName => ~mem[id].complete
  BY DEF Inv, CompleteMeansAll, Sound
<1>f. \A id \in Ids : history[id]["Completed"] \in Nat /\ history[id]["Failed"] \in Nat
  BY DEF Inv, TypeOK, Outcomes
<1>g. \A id \in Ids : /\ ~Live(mem[id]) => ~mem[id].complete /\ ~mem[id].cancelled
                      /\ ~Live(journal[id]) => ~journal[id].complete /\ ~journal[id].cancelled
  BY DEF RecordsAreBlankOrLive, BlankOrLive, NoRecord, Fresh
<1>h. /\ mem \in [Ids -> Record] /\ journal \in [Ids -> Record] /\ pc \in [Ids -> Phases]
      /\ history \in [Ids -> [Outcomes -> Nat]] /\ cur \in [Ids -> Files \cup {NoFile}]
  BY DEF Inv, TypeOK
<1>i. \A id \in Ids : FilesOf(id) \subseteq Files BY DEF FilesOf
<1> USE <1>a
<1> USE DEF handlerVars, diskVars, nameVars, folderVars, faultVars, Recorded, Enter, Release,
            Persisted, Uploading, Cancelling
<1>1. ASSUME NEW id \in Ids, HandlerStep(id) PROVE Goal
  <2>1. CASE AcceptDone(id) BY <2>1, <1>c, <1>f, <1>h DEF AcceptDone
  <2>2. CASE RejectDone(id) BY <2>2, <1>c, <1>f, <1>h DEF RejectDone, RecordHistory, Outcomes
  <2>3. CASE CancelAnswered(id) BY <2>3, <1>h DEF CancelAnswered
  <2>4. CASE CancelLocked(id) BY <2>4, <1>f, <1>h DEF CancelLocked, Free, Record
  <2>5. CASE CancelPersisted(id) BY <2>5, <1>h DEF CancelPersisted
  <2>6. CASE CancelDone(id)
    <3>1. /\ history' = [history EXCEPT ![id]["Failed"] = @ + 1] /\ UNCHANGED <<up, mem, journal>>
          /\ pc' = [pc EXCEPT ![id] = "idle"] /\ pc[id] = "clean"
          /\ cur' = [cur EXCEPT ![id] = NoFile]
      BY <2>6 DEF CancelDone, RecordHistory
    <3>2. history'[id]["Failed"] = 1 /\ history'[id]["Completed"] = 0
      BY <3>1, <1>f, <1>h DEF Outcomes
    <3>3. Recorded(id)' BY <3>1, <3>2, <1>h
    <3> QED BY <3>1, <3>3, <1>h
  <2>7. CASE BodyCancelled(id) BY <2>7, <1>h DEF BodyCancelled
  <2>8. CASE VerifyFails(id) BY <2>8, <1>h DEF VerifyFails
  <2>9. CASE Verified(id) BY <2>9, <1>h DEF Verified
  <2>10. CASE PickTarget(id) BY <2>10, <1>h DEF PickTarget
  <2>11. CASE PickExhausted(id) BY <2>11, <1>h DEF PickExhausted
  <2>12. CASE TargetPersisted(id) BY <2>12, <1>c, <1>f, <1>h DEF TargetPersisted
  <2>13. CASE Link(id) BY <2>13, <1>h DEF Link
  <2>14. CASE LinkReuse(id) BY <2>14, <1>h DEF LinkReuse
  <2>15. CASE LinkConflict(id) BY <2>15, <1>h DEF LinkConflict
  <2>16. CASE DirSynced(id)
    <3>1. /\ pc[id] = "sync" /\ pc' = [pc EXCEPT ![id] = "commit"]
          /\ UNCHANGED <<up, journal, history, cur>>
          /\ \A i \in Ids \ {id} : mem'[i] = mem[i]
      BY <2>16, <1>h DEF DirSynced
    <3>2. mem'[id].cancelled = mem[id].cancelled BY <2>16, DirSyncedRecords DEF Inv
    <3>3. ~mem[id].complete /\ ~mem[id].cancelled /\ up BY <3>1, <1>c, <1>d, <1>e
    <3>4. history[id]["Completed"] = 0 /\ history[id]["Failed"] = 0 BY <3>3, <1>f
    <3>5. Recorded(id)' BY <3>1, <3>4, <1>h
    <3> QED BY <3>1, <3>5, <1>h
  <2>17. CASE CommitPersisted(id) BY <2>17, <1>h DEF CommitPersisted
  <2>18. CASE UploadDone(id)
    <3>1. /\ pc[id] = "finish" /\ UNCHANGED <<up, mem, journal>>
          /\ pc' = [pc EXCEPT ![id] = "idle"] /\ cur' = [cur EXCEPT ![id] = NoFile]
      BY <2>18 DEF UploadDone
    <3>2. CASE mem[id].complete
      <4>1. history' = [history EXCEPT ![id]["Completed"] = @ + 1]
        BY <2>18, <3>2 DEF UploadDone, RecordHistory
      <4>2. history'[id]["Completed"] = 1 /\ history'[id]["Failed"] = 0
        BY <3>1, <4>1, <1>f, <1>h DEF Outcomes
      <4>3. Recorded(id)' BY <3>1, <3>2, <4>2, <1>h
      <4> QED BY <3>1, <4>1, <4>3, <1>h
    <3>3. CASE ~mem[id].complete BY <2>18, <3>1, <3>3, <1>h DEF UploadDone
    <3> QED BY <3>2, <3>3
  <2>19. ASSUME NEW f \in FilesOf(id), CancelClean(id, f) PROVE Goal BY <2>19, <1>h DEF CancelClean
  <2> QED BY <1>1, <2>1, <2>2, <2>3, <2>4, <2>5, <2>6, <2>7, <2>8, <2>9, <2>10, <2>11,
         <2>12, <2>13, <2>14, <2>15, <2>16, <2>17, <2>18, <2>19 DEF HandlerStep
<1>2. ASSUME NEW id \in Ids, Environment(id) PROVE Goal
  <2>1. CASE RegisterAgain(id) BY <2>1, <1>h DEF RegisterAgain
  <2>2. CASE Accept(id) BY <2>2, <1>h DEF Accept
  <2>3. CASE Reject(id) BY <2>3, <1>h DEF Reject
  <2>4. CASE CancelRequest(id) BY <2>4, <1>h DEF CancelRequest
  <2>5. CASE Status(id) BY <2>5, <1>h DEF Status
  <2>6. CASE Forget(id)
    <3>1. /\ history'[id]["Completed"] = 0 /\ history'[id]["Failed"] = 0 /\ pc[id] = "idle"
      BY <2>6, <1>h DEF Forget, NoHistory, Outcomes, Free
    <3>2. UNCHANGED <<pc, cur, up>>
          /\ \A i \in Ids \ {id} : /\ mem'[i] = mem[i] /\ journal'[i] = journal[i]
                                   /\ history'[i] = history[i]
      BY <2>6, <1>h DEF Forget
    <3>3. Recorded(id)' BY <3>1, <3>2
    <3> QED BY <3>2, <3>3
  <2>7. CASE ForgetFails(id) BY <2>7, <1>h DEF ForgetFails
  <2>8. CASE ChunkTooLarge(id) BY <2>8, <1>h DEF ChunkTooLarge
  <2>9. CASE BodyInterrupted(id) BY <2>9, <1>h DEF BodyInterrupted
  <2>10. CASE BodyEnd(id) BY <2>10, <1>h DEF BodyEnd
  <2>11. CASE HandlerFails(id)
    <3>1. CASE journal' = journal BY <2>11, <3>1, <1>h DEF HandlerFails
    <3>2. CASE pc[id] \in Persisting /\ Persisted(id)
      BY <2>11, <3>2, <1>c, <1>f, <1>h DEF HandlerFails, Persisting
    <3> QED BY <2>11, <3>1, <3>2 DEF HandlerFails
  <2>12. CASE HandlerDropped(id) BY <2>12, <1>b DEF HandlerDropped, Drop
  <2>13. CASE WaiterDropped(id) BY <2>13, <1>b DEF WaiterDropped, Drop
  <2>14. ASSUME NEW d \in {"Pending", "Accepted"}, Register(id, d) PROVE Goal
    BY <2>14, <1>h DEF Register
  <2>15. ASSUME NEW f \in FilesOf(id), UploadStart(id, f) PROVE Goal BY <2>15, <1>h DEF UploadStart
  <2>16. ASSUME NEW right \in BOOLEAN, Chunk(id, right) PROVE Goal BY <2>16, <1>h DEF Chunk
  <2>17. CASE LinkUnread(id) BY <2>17, <1>h DEF LinkUnread
  <2> QED BY <1>2, <2>1, <2>2, <2>3, <2>4, <2>5, <2>6, <2>7, <2>8, <2>9, <2>10, <2>11,
         <2>12, <2>13, <2>14, <2>15, <2>16, <2>17 DEF Environment
<1>3. CASE RegisterDone
  <2>1. PICK r \in Ids : r = reg.id /\ pc[r] = "idle" /\ up /\ ~Live(mem[r])
    BY <1>3, NoRegAssumption DEF RegisterDone, Inv, HandlersAreSound, Registering, TypeOK
  <2>2. history'[r]["Completed"] = 0 /\ history'[r]["Failed"] = 0 /\ UNCHANGED <<pc, cur, up>>
    BY <1>3, <2>1, <1>h DEF RegisterDone, NoHistory, Outcomes
  <2>3. \A i \in Ids \ {r} : /\ mem'[i] = mem[i] /\ journal'[i] = journal[i]
                             /\ history'[i] = history[i]
    BY <1>3, <2>1, <1>h DEF RegisterDone
  <2>4. Recorded(r)' BY <2>1, <2>2
  <2> QED BY <2>2, <2>3, <2>4
<1>4. CASE RegisterAgainDone BY <1>4, <1>h DEF RegisterAgainDone
<1>5. CASE RegisterFails
  <2>1. PICK r \in Ids : r = reg.id /\ pc[r] = "idle" /\ up /\ ~Live(mem[r])
    BY <1>5, NoRegAssumption DEF RegisterFails, Inv, HandlersAreSound, Registering, TypeOK
  <2>2. history[r]["Completed"] = 0 /\ history[r]["Failed"] = 0 BY <2>1, <1>f, <1>g
  <2>3. UNCHANGED <<pc, cur, up, mem, history>> /\ \A i \in Ids \ {r} : journal'[i] = journal[i]
    BY <1>5, <2>1, <1>h DEF RegisterFails
  <2>4. Recorded(r)' BY <2>1, <2>2, <2>3
  <2> QED BY <2>3, <2>4
<1>6. CASE RegisterDropped BY <1>6, <1>b DEF RegisterDropped, Drop
<1>7. CASE Start BY <1>7, <1>c, <1>h DEF Start
<1>8. CASE Stop BY <1>8, <1>h DEF Stop
<1>9. CASE Crash
  <2>1. ASSUME NEW i \in Ids
        PROVE  \/ journal'[i] = journal[i]
               \/ journal'[i] = mem[i] /\ pc[i] # "idle"
               \/ Registering /\ Live(reg.rec) /\ i = reg.id
    BY <1>9, CrashLands DEF Persisting
  <2>2. ~up' /\ (\A i \in Ids : pc'[i] = "idle") /\ history' = history BY <1>9 DEF Crash
  <2>3. ASSUME NEW i \in Ids PROVE Recorded(i)'
    <3>1. CASE journal'[i] = journal[i] BY <3>1, <2>2
    <3>2. CASE journal'[i] = mem[i] /\ pc[i] # "idle" BY <3>2, <2>2, <1>c
    <3>3. CASE Registering /\ Live(reg.rec) /\ i = reg.id
      <4>1. up /\ ~Live(mem[i]) BY <3>3 DEF Inv, HandlersAreSound
      <4>2. history[i]["Completed"] = 0 /\ history[i]["Failed"] = 0 BY <4>1, <1>f, <1>g
      <4> QED BY <4>2, <2>2
    <3> QED BY <2>1, <3>1, <3>2, <3>3
  <2> QED BY <2>3
<1>10. ASSUME NEW w \in detached, DetachedLands(w) PROVE Goal BY <1>10
<1>11. ASSUME NEW n \in Names, OtherFile(n) PROVE Goal BY <1>11, <1>h DEF OtherFile
<1>12. CASE UNCHANGED vars BY <1>12, <1>h DEF vars
<1> QED BY <1>1, <1>2, <1>3, <1>4, <1>5, <1>6, <1>7, <1>8, <1>9, <1>10, <1>11, <1>12 DEF Next

\* Without dropped handlers and I/O errors every change of a record is written before
\* the mutex is given back.
LEMMA InStepStep ==
  Inv /\ NoStrayWrites /\ RecordsAreBlankOrLive /\ OutcomesAreRecorded /\ JournalsAreInStep
    /\ [Next]_vars
    => JournalsAreInStep'
<1> DEFINE Goal == \A id \in Ids : InStep(id)'
<1> SUFFICES ASSUME Inv, NoStrayWrites, RecordsAreBlankOrLive, OutcomesAreRecorded,
                    JournalsAreInStep, [Next]_vars, Unfaulted'
             PROVE  Goal
  BY DEF JournalsAreInStep
<1>a. drops = 0 /\ detached = {} /\ \A id \in Ids : InStep(id)
  BY FaultsStep DEF FaultsGrow, NoStrayWrites, JournalsAreInStep, Inv, Unfaulted
<1>b. drops' # drops + 1 /\ ioErrors' # ioErrors + 1
  BY FaultsStep DEF FaultsGrow, Inv, Unfaulted
<1>c. \A id \in Ids : pc[id] # "idle" => Live(mem[id]) /\ up BY DEF HandlersAreSound, Inv
<1>d. \A id \in Ids : pc[id] \in {"body", "verify", "pick", "target", "link", "sync"} =>
                        mem[id].published[cur[id]] = NoName
  BY <1>a DEF OutcomesAreRecorded, Recorded
<1>h. /\ mem \in [Ids -> Record] /\ journal \in [Ids -> Record] /\ pc \in [Ids -> Phases]
      /\ cur \in [Ids -> Files \cup {NoFile}]
  BY DEF Inv, TypeOK
<1> USE <1>a
<1> USE DEF handlerVars, diskVars, nameVars, folderVars, faultVars, InStep, Enter, Release, Persisted
<1>1. ASSUME NEW id \in Ids, HandlerStep(id) PROVE Goal
  <2>1. CASE AcceptDone(id) BY <2>1, <1>h DEF AcceptDone
  <2>2. CASE RejectDone(id) BY <2>2, <1>h DEF RejectDone
  <2>3. CASE CancelAnswered(id) BY <2>3, <1>h DEF CancelAnswered
  <2>4. CASE CancelLocked(id) BY <2>4, <1>h DEF CancelLocked, Free, Terminal, Record, Live
  <2>5. CASE CancelPersisted(id) BY <2>5, <1>h DEF CancelPersisted
  <2>6. CASE CancelDone(id) BY <2>6, <1>h DEF CancelDone
  <2>7. CASE BodyCancelled(id) BY <2>7, <1>h DEF BodyCancelled
  <2>8. CASE VerifyFails(id) BY <2>8, <1>h DEF VerifyFails
  <2>9. CASE Verified(id) BY <2>9, <1>h DEF Verified
  <2>10. CASE PickTarget(id) BY <2>10, <1>h DEF PickTarget, Record
  <2>11. CASE PickExhausted(id) BY <2>11, <1>h DEF PickExhausted
  <2>12. CASE TargetPersisted(id) BY <2>12, <1>h DEF TargetPersisted
  <2>13. CASE Link(id) BY <2>13, <1>h DEF Link
  <2>14. CASE LinkReuse(id) BY <2>14, <1>h DEF LinkReuse
  <2>15. CASE LinkConflict(id) BY <2>15, <1>h DEF LinkConflict, Record
  <2>16. CASE DirSynced(id)
    <3>1. /\ pc[id] = "sync" /\ pc' = [pc EXCEPT ![id] = "commit"]
          /\ UNCHANGED <<up, journal, cur>>
          /\ \A i \in Ids \ {id} : mem'[i] = mem[i]
      BY <2>16, <1>h DEF DirSynced
    <3>2. PICK f \in Files : f = cur[id] /\ mem[id].targets[f] # NoName
      BY <2>16, DirSyncedRecords, NoNameAssumption DEF Inv
    <3>3. /\ mem'[id].published = [mem[id].published EXCEPT ![f] = mem[id].targets[f]]
          /\ mem'[id].decision = mem[id].decision
          /\ mem'[id].cancelled = mem[id].cancelled
      BY <2>16, <3>2, DirSyncedRecords DEF Inv
    <3>4. mem[id].published \in [Files -> Names \cup {NoName}] BY <1>h DEF Record
    <3>5. journal[id].published = mem[id].published /\ mem[id].published[f] = NoName
      BY <3>1, <3>2, <1>c, <1>d
    <3>6. InStep(id)' BY <3>1, <3>2, <3>3, <3>4, <3>5, <1>h
    <3> QED BY <3>1, <3>6, <1>h
  <2>17. CASE CommitPersisted(id) BY <2>17, <1>h DEF CommitPersisted
  <2>18. CASE UploadDone(id) BY <2>18, <1>h DEF UploadDone
  <2>19. ASSUME NEW f \in FilesOf(id), CancelClean(id, f) PROVE Goal BY <2>19, <1>h DEF CancelClean
  <2> QED BY <1>1, <2>1, <2>2, <2>3, <2>4, <2>5, <2>6, <2>7, <2>8, <2>9, <2>10, <2>11,
         <2>12, <2>13, <2>14, <2>15, <2>16, <2>17, <2>18, <2>19 DEF HandlerStep
<1>2. ASSUME NEW id \in Ids, Environment(id) PROVE Goal
  <2>1. CASE RegisterAgain(id) BY <2>1, <1>h DEF RegisterAgain
  <2>2. CASE Accept(id) BY <2>2, <1>h DEF Accept, Free, Terminal, Record, Decisions, Live
  <2>3. CASE Reject(id) BY <2>3, <1>h DEF Reject, Free, Terminal, Record, Live
  <2>4. CASE CancelRequest(id) BY <2>4, <1>h DEF CancelRequest
  <2>5. CASE Status(id) BY <2>5, <1>h DEF Status
  <2>6. CASE Forget(id) BY <2>6, <1>h DEF Forget, Free
  <2>7. CASE ForgetFails(id) BY <2>7, <1>b DEF ForgetFails, IoError
  <2>8. CASE ChunkTooLarge(id) BY <2>8, <1>h DEF ChunkTooLarge
  <2>9. CASE BodyInterrupted(id) BY <2>9, <1>h DEF BodyInterrupted
  <2>10. CASE BodyEnd(id) BY <2>10, <1>h DEF BodyEnd
  <2>11. CASE HandlerFails(id) BY <2>11, <1>b DEF HandlerFails, IoError
  <2>12. CASE HandlerDropped(id) BY <2>12, <1>b DEF HandlerDropped, Drop
  <2>13. CASE WaiterDropped(id) BY <2>13, <1>b DEF WaiterDropped, Drop
  <2>14. ASSUME NEW d \in {"Pending", "Accepted"}, Register(id, d) PROVE Goal
    BY <2>14, <1>h DEF Register
  <2>15. ASSUME NEW f \in FilesOf(id), UploadStart(id, f) PROVE Goal
    BY <2>15, <1>h DEF UploadStart, Free
  <2>16. ASSUME NEW right \in BOOLEAN, Chunk(id, right) PROVE Goal BY <2>16, <1>h DEF Chunk
  <2>17. CASE LinkUnread(id) BY <2>17, <1>b DEF LinkUnread, IoError
  <2> QED BY <1>2, <2>1, <2>2, <2>3, <2>4, <2>5, <2>6, <2>7, <2>8, <2>9, <2>10, <2>11,
         <2>12, <2>13, <2>14, <2>15, <2>16, <2>17 DEF Environment
<1>3. CASE RegisterDone
  <2>1. PICK r \in Ids : r = reg.id /\ pc[r] = "idle"
    BY <1>3, NoRegAssumption DEF RegisterDone, Inv, HandlersAreSound, Registering, TypeOK
  <2>2. /\ mem'[r] = reg.rec /\ journal'[r] = reg.rec /\ UNCHANGED <<pc, cur, up>>
        /\ \A i \in Ids \ {r} : mem'[i] = mem[i] /\ journal'[i] = journal[i]
    BY <1>3, <2>1, <1>h DEF RegisterDone
  <2>3. InStep(r)' BY <2>1, <2>2
  <2> QED BY <2>2, <2>3
<1>4. CASE RegisterAgainDone BY <1>4, <1>h DEF RegisterAgainDone
<1>5. CASE RegisterFails BY <1>5, <1>b DEF RegisterFails, IoError
<1>6. CASE RegisterDropped BY <1>6, <1>b DEF RegisterDropped, Drop
<1>7. CASE Start BY <1>7, <1>c, <1>h DEF Start
<1>8. CASE Stop BY <1>8, <1>h DEF Stop
<1>9. CASE Crash
  <2>1. ~up' /\ (\A i \in Ids : pc'[i] = "idle") BY <1>9 DEF Crash
  <2> QED BY <2>1
<1>10. ASSUME NEW w \in detached, DetachedLands(w) PROVE Goal BY <1>10
<1>11. ASSUME NEW n \in Names, OtherFile(n) PROVE Goal BY <1>11, <1>h DEF OtherFile
<1>12. CASE UNCHANGED vars BY <1>12, <1>h DEF vars
<1> QED BY <1>1, <1>2, <1>3, <1>4, <1>5, <1>6, <1>7, <1>8, <1>9, <1>10, <1>11, <1>12 DEF Next

\* A caller is told only what the journal has, and no handler takes that back.
LEMMA ToldStep ==
  Inv /\ NoStrayWrites /\ RecordsAreBlankOrLive /\ OutcomesAreRecorded /\ JournalsAreInStep
    /\ ToldIsTrue /\ [Next]_vars
    => ToldIsTrue'
<1> DEFINE Goal == \A id \in Ids : ToldTruth(id)'
<1> SUFFICES ASSUME Inv, NoStrayWrites, RecordsAreBlankOrLive, OutcomesAreRecorded,
                    JournalsAreInStep, ToldIsTrue, [Next]_vars, Unfaulted'
             PROVE  Goal
  BY DEF ToldIsTrue
<1>a. /\ drops = 0 /\ detached = {} /\ \A id \in Ids : ToldTruth(id)
      /\ \A id \in Ids : InStep(id)
  BY FaultsStep DEF FaultsGrow, NoStrayWrites, JournalsAreInStep, ToldIsTrue, Inv, Unfaulted
<1>b. drops' # drops + 1 /\ ioErrors' # ioErrors + 1
  BY FaultsStep DEF FaultsGrow, Inv, Unfaulted
<1>c. \A id \in Ids : pc[id] # "idle" => Live(mem[id]) /\ up BY DEF HandlersAreSound, Inv
<1>d. \A id \in Ids : pc[id] = "sync" => ~mem[id].complete
  <2>1. \A id \in Ids : pc[id] = "sync" => mem[id].published[cur[id]] = NoName
                                           /\ cur[id] \in FilesOf(id)
    BY <1>a DEF OutcomesAreRecorded, Recorded, Inv, HandlersAreSound, Uploading
  <2> QED BY <2>1 DEF Inv, CompleteMeansAll, Sound
<1>e. ASSUME NEW id \in Ids, up, ~Live(mem[id]) PROVE told[id] = {}
  <2>1. mem[id] = NoRecord BY <1>e DEF RecordsAreBlankOrLive, BlankOrLive
  <2> QED BY <1>a, <1>e, <2>1 DEF ToldTruth, Holds, NoRecord, Fresh
<1>f. ASSUME NEW id \in Ids, NEW r, NEW fact \in Snapshot(id, r) PROVE Holds(fact, r)
  BY DEF Snapshot, Holds
<1>g. ASSUME NEW id \in Ids, Free(id), NEW fact, Holds(fact, mem[id]) PROVE Holds(fact, journal[id])
  BY <1>a, <1>g DEF Free, InStep, Holds
<1>h. /\ mem \in [Ids -> Record] /\ journal \in [Ids -> Record] /\ pc \in [Ids -> Phases]
      /\ told \in [Ids -> SUBSET Facts]
  BY DEF Inv, TypeOK
<1> USE <1>a
<1> USE DEF handlerVars, diskVars, nameVars, folderVars, faultVars, ToldTruth, Enter, Release, Persisted
<1>1. ASSUME NEW id \in Ids, HandlerStep(id) PROVE Goal
  <2>1. CASE AcceptDone(id)
    <3>1. up /\ mem[id].decision = "Accepted" BY <2>1, <1>c DEF AcceptDone, InStep
    <3> QED BY <2>1, <3>1, <1>h DEF AcceptDone, Holds
  <2>2. CASE RejectDone(id) BY <2>2, <1>c, <1>h DEF RejectDone
  <2>3. CASE CancelAnswered(id)
    <3>1. UNCHANGED <<up, mem, journal>> /\ Free(id) BY <2>3 DEF CancelAnswered
    <3>2. ASSUME NEW fact \in told'[id], fact \notin told[id] PROVE Holds(fact, mem[id])
      BY <2>3, <3>2, <1>h DEF CancelAnswered, Holds
    <3>3. \A i \in Ids \ {id} : told'[i] = told[i] BY <2>3, <1>h DEF CancelAnswered
    <3> QED BY <3>1, <3>2, <3>3, <1>g
  <2>4. CASE CancelLocked(id) BY <2>4, <1>h DEF CancelLocked, Holds, Record
  <2>5. CASE CancelPersisted(id) BY <2>5, <1>c, <1>h DEF CancelPersisted
  <2>6. CASE CancelDone(id)
    <3>1. /\ up /\ mem[id].cancelled /\ journal[id].cancelled
      BY <2>6, <1>c DEF CancelDone, OutcomesAreRecorded, Recorded
    <3> QED BY <2>6, <3>1, <1>h DEF CancelDone, Holds
  <2>7. CASE BodyCancelled(id) BY <2>7, <1>h DEF BodyCancelled
  <2>8. CASE VerifyFails(id) BY <2>8, <1>h DEF VerifyFails
  <2>9. CASE Verified(id) BY <2>9, <1>h DEF Verified
  <2>10. CASE PickTarget(id) BY <2>10, <1>h DEF PickTarget, Holds, Record
  <2>11. CASE PickExhausted(id) BY <2>11, <1>h DEF PickExhausted
  <2>12. CASE TargetPersisted(id) BY <2>12, <1>c, <1>h DEF TargetPersisted
  <2>13. CASE Link(id) BY <2>13, <1>h DEF Link
  <2>14. CASE LinkReuse(id) BY <2>14, <1>h DEF LinkReuse
  <2>15. CASE LinkConflict(id) BY <2>15, <1>h DEF LinkConflict, Holds, Record
  <2>16. CASE DirSynced(id)
    <3>1. /\ pc[id] = "sync" /\ UNCHANGED <<up, journal, told>>
          /\ \A i \in Ids \ {id} : mem'[i] = mem[i]
      BY <2>16, <1>h DEF DirSynced
    <3>2. /\ mem'[id].decision = mem[id].decision
          /\ mem'[id].cancelled = mem[id].cancelled
          /\ ~mem[id].complete
      BY <2>16, <3>1, <1>d, DirSyncedRecords DEF Inv
    <3>3. ToldTruth(id)' BY <3>1, <3>2 DEF Holds
    <3> QED BY <3>1, <3>3
  <2>17. CASE CommitPersisted(id) BY <2>17, <1>c, <1>h DEF CommitPersisted
  <2>18. CASE UploadDone(id) BY <2>18, <1>h DEF UploadDone
  <2>19. ASSUME NEW f \in FilesOf(id), CancelClean(id, f) PROVE Goal BY <2>19, <1>h DEF CancelClean
  <2> QED BY <1>1, <2>1, <2>2, <2>3, <2>4, <2>5, <2>6, <2>7, <2>8, <2>9, <2>10, <2>11,
         <2>12, <2>13, <2>14, <2>15, <2>16, <2>17, <2>18, <2>19 DEF HandlerStep
<1>2. ASSUME NEW id \in Ids, Environment(id) PROVE Goal
  <2>1. CASE RegisterAgain(id) BY <2>1, <1>h DEF RegisterAgain
  <2>2. CASE Accept(id) BY <2>2, <1>h DEF Accept, Holds, Record
  <2>3. CASE Reject(id) BY <2>3, <1>h DEF Reject, Holds, Record, Free
  <2>4. CASE CancelRequest(id) BY <2>4, <1>h DEF CancelRequest
  <2>5. CASE Status(id)
    <3>1. UNCHANGED <<up, mem, journal>> /\ Free(id) BY <2>5 DEF Status
    <3>2. /\ told'[id] = told[id] \cup Snapshot(id, mem[id])
          /\ \A i \in Ids \ {id} : told'[i] = told[i]
      BY <2>5, <1>h DEF Status
    <3> QED BY <3>1, <3>2, <1>f, <1>g
  <2>6. CASE Forget(id) BY <2>6, <1>h DEF Forget
  <2>7. CASE ForgetFails(id) BY <2>7, <1>b DEF ForgetFails, IoError
  <2>8. CASE ChunkTooLarge(id) BY <2>8, <1>h DEF ChunkTooLarge
  <2>9. CASE BodyInterrupted(id) BY <2>9, <1>h DEF BodyInterrupted
  <2>10. CASE BodyEnd(id) BY <2>10, <1>h DEF BodyEnd
  <2>11. CASE HandlerFails(id) BY <2>11, <1>b DEF HandlerFails, IoError
  <2>12. CASE HandlerDropped(id) BY <2>12, <1>b DEF HandlerDropped, Drop
  <2>13. CASE WaiterDropped(id) BY <2>13, <1>b DEF WaiterDropped, Drop
  <2>14. ASSUME NEW d \in {"Pending", "Accepted"}, Register(id, d) PROVE Goal
    BY <2>14, <1>h DEF Register
  <2>15. ASSUME NEW f \in FilesOf(id), UploadStart(id, f) PROVE Goal BY <2>15, <1>h DEF UploadStart
  <2>16. ASSUME NEW right \in BOOLEAN, Chunk(id, right) PROVE Goal BY <2>16, <1>h DEF Chunk
  <2>17. CASE LinkUnread(id) BY <2>17, <1>b DEF LinkUnread, IoError
  <2> QED BY <1>2, <2>1, <2>2, <2>3, <2>4, <2>5, <2>6, <2>7, <2>8, <2>9, <2>10, <2>11,
         <2>12, <2>13, <2>14, <2>15, <2>16, <2>17 DEF Environment
<1>3. CASE RegisterDone
  <2>1. PICK r \in Ids : r = reg.id /\ up /\ ~Live(mem[r])
    BY <1>3, NoRegAssumption DEF RegisterDone, Inv, HandlersAreSound, Registering, TypeOK
  <2>2. /\ mem'[r] = reg.rec /\ journal'[r] = reg.rec /\ UNCHANGED up
        /\ told'[r] = told[r] \cup Snapshot(r, reg.rec)
        /\ \A i \in Ids \ {r} : mem'[i] = mem[i] /\ journal'[i] = journal[i] /\ told'[i] = told[i]
    BY <1>3, <2>1, <1>h DEF RegisterDone
  <2>3. ToldTruth(r)' BY <2>1, <2>2, <1>e, <1>f
  <2> QED BY <2>2, <2>3
<1>4. CASE RegisterAgainDone
  <2>1. PICK r \in Ids : r = reg.id /\ Free(r)
    BY <1>4, NoRegAssumption DEF RegisterAgainDone, Inv, Registering, TypeOK
  <2>2. /\ UNCHANGED <<up, mem, journal>>
        /\ told'[r] = told[r] \cup Snapshot(r, mem[r])
        /\ \A i \in Ids \ {r} : told'[i] = told[i]
    BY <1>4, <2>1, <1>h DEF RegisterAgainDone
  <2>3. ToldTruth(r)' BY <2>1, <2>2, <1>f, <1>g
  <2> QED BY <2>2, <2>3
<1>5. CASE RegisterFails BY <1>5, <1>b DEF RegisterFails, IoError
<1>6. CASE RegisterDropped BY <1>6, <1>b DEF RegisterDropped, Drop
<1>7. CASE Start BY <1>7, <1>h DEF Start
<1>8. CASE Stop BY <1>8, <1>h DEF Stop
<1>9. CASE Crash
  <2>1. ~up' /\ told' = told BY <1>9 DEF Crash
  <2>2. ASSUME NEW i \in Ids PROVE ToldTruth(i)'
    <3>1. CASE journal'[i] = journal[i] BY <3>1, <2>1
    <3>2. CASE journal'[i] = mem[i] /\ pc[i] \in Persisting
      BY <3>2, <2>1, <1>c DEF Persisting
    <3>3. CASE Registering /\ Live(reg.rec) /\ i = reg.id
      <4>1. up /\ ~Live(mem[i]) BY <3>3 DEF Inv, HandlersAreSound
      <4> QED BY <4>1, <2>1, <1>e
    <3> QED BY <1>9, CrashLands, <3>1, <3>2, <3>3
  <2> QED BY <2>2
<1>10. ASSUME NEW w \in detached, DetachedLands(w) PROVE Goal BY <1>10
<1>11. ASSUME NEW n \in Names, OtherFile(n) PROVE Goal BY <1>11, <1>h DEF OtherFile
<1>12. CASE UNCHANGED vars BY <1>12, <1>h DEF vars
<1> QED BY <1>1, <1>2, <1>3, <1>4, <1>5, <1>6, <1>7, <1>8, <1>9, <1>10, <1>11, <1>12 DEF Next

\* A session is added only by the registration that found a place for it, and while
\* that one holds the registration mutex no other does.
LEMMA LimitStep ==
  Inv /\ NoStrayWrites /\ JournalsAreInStep /\ RetainedWithinLimit /\ [Next]_vars
    => RetainedWithinLimit'
<1> SUFFICES ASSUME Inv, NoStrayWrites, JournalsAreInStep, RetainedWithinLimit, [Next]_vars,
                    Unfaulted'
             PROVE  WithinLimit'
  BY DEF RetainedWithinLimit
<1>a. drops = 0 /\ detached = {} /\ WithinLimit /\ \A id \in Ids : InStep(id)
  BY FaultsStep DEF FaultsGrow, NoStrayWrites, JournalsAreInStep, RetainedWithinLimit, Inv,
                    Unfaulted
<1>b. drops' # drops + 1 /\ ioErrors' # ioErrors + 1
  BY FaultsStep DEF FaultsGrow, Inv, Unfaulted
<1>c. \A id \in Ids : pc[id] # "idle" => Live(mem[id]) /\ up BY DEF HandlersAreSound, Inv
<1>d. ASSUME up PROVE \A id \in Ids : Live(mem[id]) <=> Live(journal[id])
  BY <1>a, <1>d DEF InStep, Live
<1>h. mem \in [Ids -> Record] /\ journal \in [Ids -> Record] BY DEF Inv, TypeOK
<1>e. ASSUME Retained' = Retained, reg' \in {reg, NoReg} PROVE WithinLimit'
  BY <1>a, <1>e DEF WithinLimit, Registering
<1>f. ASSUME journal' = journal, reg' \in {reg, NoReg} PROVE WithinLimit'
  BY <1>e, <1>f DEF Retained
<1>g. ASSUME NEW id \in Ids, pc[id] # "idle", journal' = [journal EXCEPT ![id] = mem[id]],
             reg' = reg
      PROVE  WithinLimit'
  <2>1. Live(journal[id]) /\ Live(journal'[id]) BY <1>c, <1>d, <1>g, <1>h
  <2>2. Retained' = Retained BY <1>g, <1>h, <2>1 DEF Retained
  <2> QED BY <1>e, <1>g, <2>2
<1>i. ASSUME NEW r \in Ids, WithinLimit, Registering, Live(reg.rec), reg' = NoReg,
             Retained' \subseteq Retained \cup {r}
      PROVE  WithinLimit'
  <2> DEFINE S == Retained
             T == Retained'
  <2>1. IsFiniteSet(S) /\ Cardinality(S) < MaxSessions BY <1>i DEF WithinLimit
  <2>2. IsFiniteSet(S \cup {r}) /\ Cardinality(S \cup {r}) <= MaxSessions
    <3>1. /\ IsFiniteSet(S \cup {r})
          /\ Cardinality(S \cup {r}) = IF r \in S THEN Cardinality(S) ELSE Cardinality(S) + 1
      BY <2>1, FS_AddElement
    <3>2. Cardinality(S) \in Nat BY <2>1, FS_CardinalityType
    <3> HIDE DEF S
    <3> QED BY <2>1, <3>1, <3>2, ConstantsAssumption
  <2>3. T \subseteq S \cup {r} BY <1>i
  <2>4. IsFiniteSet(T) /\ Cardinality(T) <= Cardinality(S \cup {r}) BY <2>2, <2>3, FS_Subset
  <2>5. Cardinality(T) \in Nat /\ Cardinality(S \cup {r}) \in Nat
    BY <2>2, <2>4, FS_CardinalityType
  <2>6. IsFiniteSet(T) /\ Cardinality(T) <= MaxSessions
    <3> HIDE DEF S, T
    <3> QED BY <2>2, <2>4, <2>5, ConstantsAssumption
  <2> QED BY <1>i, <2>6 DEF WithinLimit, Registering
<1> USE DEF handlerVars, diskVars, nameVars, folderVars, faultVars, Persisted
<1>1. ASSUME NEW id \in Ids, HandlerStep(id) PROVE WithinLimit'
  <2>1. CASE AcceptDone(id) BY <2>1, <1>g DEF AcceptDone
  <2>2. CASE RejectDone(id) BY <2>2, <1>g DEF RejectDone
  <2>3. CASE CancelAnswered(id) BY <2>3, <1>f DEF CancelAnswered
  <2>4. CASE CancelLocked(id) BY <2>4, <1>f DEF CancelLocked
  <2>5. CASE CancelPersisted(id) BY <2>5, <1>g DEF CancelPersisted
  <2>6. CASE CancelDone(id) BY <2>6, <1>f DEF CancelDone
  <2>7. CASE BodyCancelled(id) BY <2>7, <1>f DEF BodyCancelled
  <2>8. CASE VerifyFails(id) BY <2>8, <1>f DEF VerifyFails
  <2>9. CASE Verified(id) BY <2>9, <1>f DEF Verified
  <2>10. CASE PickTarget(id) BY <2>10, <1>f DEF PickTarget
  <2>11. CASE PickExhausted(id) BY <2>11, <1>f DEF PickExhausted
  <2>12. CASE TargetPersisted(id) BY <2>12, <1>g DEF TargetPersisted
  <2>13. CASE Link(id) BY <2>13, <1>f DEF Link
  <2>14. CASE LinkReuse(id) BY <2>14, <1>f DEF LinkReuse
  <2>15. CASE LinkConflict(id) BY <2>15, <1>f DEF LinkConflict
  <2>16. CASE DirSynced(id) BY <2>16, <1>f DEF DirSynced
  <2>17. CASE CommitPersisted(id) BY <2>17, <1>g DEF CommitPersisted
  <2>18. CASE UploadDone(id) BY <2>18, <1>f DEF UploadDone
  <2>19. ASSUME NEW f \in FilesOf(id), CancelClean(id, f) PROVE WithinLimit'
    BY <2>19, <1>f DEF CancelClean
  <2> QED BY <1>1, <2>1, <2>2, <2>3, <2>4, <2>5, <2>6, <2>7, <2>8, <2>9, <2>10, <2>11,
         <2>12, <2>13, <2>14, <2>15, <2>16, <2>17, <2>18, <2>19 DEF HandlerStep
<1>2. ASSUME NEW id \in Ids, Environment(id) PROVE WithinLimit'
  <2>1. CASE RegisterAgain(id)
    <3>1. journal' = journal /\ reg' = [id |-> id, rec |-> NoRecord]
      BY <2>1 DEF RegisterAgain
    <3>2. Retained' = Retained /\ ~Live(reg'.rec) BY <3>1 DEF Retained, NoRecord, Fresh, Live
    <3> QED BY <3>2, <1>a DEF WithinLimit
  <2>2. CASE Accept(id) BY <2>2, <1>f DEF Accept
  <2>3. CASE Reject(id) BY <2>3, <1>f DEF Reject
  <2>4. CASE CancelRequest(id) BY <2>4, <1>f DEF CancelRequest
  <2>5. CASE Status(id) BY <2>5, <1>f DEF Status
  <2>6. CASE Forget(id)
    <3>1. reg = NoReg /\ reg' = NoReg /\ Retained' \subseteq Retained
      BY <2>6, <1>h DEF Forget, Retained, NoRecord, Fresh, Live
    <3>2. IsFiniteSet(Retained) /\ Cardinality(Retained) <= MaxSessions BY <1>a DEF WithinLimit
    <3>3. IsFiniteSet(Retained') /\ Cardinality(Retained') <= Cardinality(Retained)
      BY <3>1, <3>2, FS_Subset
    <3>4. Cardinality(Retained') \in Nat /\ Cardinality(Retained) \in Nat
      BY <3>2, <3>3, FS_CardinalityType
    <3>5. Cardinality(Retained') <= MaxSessions BY <3>2, <3>3, <3>4, ConstantsAssumption
    <3> QED BY <3>1, <3>3, <3>5 DEF WithinLimit, Registering
  <2>7. CASE ForgetFails(id) BY <2>7, <1>b DEF ForgetFails, IoError
  <2>8. CASE ChunkTooLarge(id) BY <2>8, <1>f DEF ChunkTooLarge
  <2>9. CASE BodyInterrupted(id) BY <2>9, <1>f DEF BodyInterrupted
  <2>10. CASE BodyEnd(id) BY <2>10, <1>f DEF BodyEnd
  <2>11. CASE HandlerFails(id) BY <2>11, <1>b DEF HandlerFails, IoError
  <2>12. CASE HandlerDropped(id) BY <2>12, <1>b DEF HandlerDropped, Drop
  <2>13. CASE WaiterDropped(id) BY <2>13, <1>b DEF WaiterDropped, Drop
  <2>14. ASSUME NEW d \in {"Pending", "Accepted"}, Register(id, d) PROVE WithinLimit'
    <3>1. /\ up /\ journal' = journal /\ reg' = [id |-> id, rec |-> Fresh(d)]
          /\ Cardinality({i \in Ids : Live(mem[i])}) < MaxSessions
      BY <2>14 DEF Register
    <3>2. Retained = {i \in Ids : Live(mem[i])} /\ Retained' = Retained
      BY <3>1, <1>d DEF Retained
    <3> QED BY <3>1, <3>2, <1>a DEF WithinLimit
  <2>15. ASSUME NEW f \in FilesOf(id), UploadStart(id, f) PROVE WithinLimit'
    BY <2>15, <1>f DEF UploadStart
  <2>16. ASSUME NEW right \in BOOLEAN, Chunk(id, right) PROVE WithinLimit' BY <2>16, <1>f DEF Chunk
  <2>17. CASE LinkUnread(id) BY <2>17, <1>b DEF LinkUnread, IoError
  <2> QED BY <1>2, <2>1, <2>2, <2>3, <2>4, <2>5, <2>6, <2>7, <2>8, <2>9, <2>10, <2>11,
         <2>12, <2>13, <2>14, <2>15, <2>16, <2>17 DEF Environment
<1>3. CASE RegisterDone
  <2>1. PICK r \in Ids : r = reg.id BY <1>3 DEF RegisterDone, Inv, Registering, TypeOK
  <2>2. Retained' \subseteq Retained \cup {r} BY <1>3, <2>1, <1>h DEF RegisterDone, Retained
  <2> QED BY <1>3, <2>1, <2>2, <1>a, <1>i DEF RegisterDone
<1>4. CASE RegisterAgainDone BY <1>4, <1>f DEF RegisterAgainDone
<1>5. CASE RegisterFails BY <1>5, <1>b DEF RegisterFails, IoError
<1>6. CASE RegisterDropped BY <1>6, <1>b DEF RegisterDropped, Drop
<1>7. CASE Start BY <1>7, <1>f DEF Start
<1>8. CASE Stop BY <1>8, <1>f DEF Stop
<1>9. CASE Crash
  <2>1. ASSUME NEW i \in Ids, Live(journal'[i]), ~Live(journal[i])
        PROVE  Registering /\ Live(reg.rec) /\ i = reg.id
    BY <1>9, <2>1, <1>c, <1>d, CrashLands DEF Persisting
  <2>2. ASSUME NEW i \in Ids, Live(journal[i]) PROVE Live(journal'[i])
    <3>1. CASE journal'[i] = mem[i] /\ pc[i] \in Persisting BY <3>1, <1>c DEF Persisting
    <3>2. CASE Registering /\ Live(reg.rec) /\ i = reg.id /\ journal'[i] = reg.rec BY <3>2
    <3> QED BY <1>9, <2>2, <3>1, <3>2, CrashLands
  <2>3. reg' = NoReg BY <1>9 DEF Crash
  <2>4. CASE Registering /\ Live(reg.rec)
    <3>1. PICK r \in Ids : r = reg.id BY <2>4 DEF Inv, Registering, TypeOK
    <3>2. Retained' \subseteq Retained \cup {r} BY <2>1, <3>1 DEF Retained
    <3> QED BY <2>3, <2>4, <3>1, <3>2, <1>a, <1>i
  <2>5. CASE ~(Registering /\ Live(reg.rec))
    <3>1. Retained' = Retained BY <2>1, <2>2, <2>5 DEF Retained
    <3> QED BY <2>3, <3>1, <1>e
  <2> QED BY <2>4, <2>5
<1>10. ASSUME NEW w \in detached, DetachedLands(w) PROVE WithinLimit' BY <1>10, <1>a
<1>11. ASSUME NEW n \in Names, OtherFile(n) PROVE WithinLimit' BY <1>11, <1>f DEF OtherFile
<1>12. CASE UNCHANGED vars BY <1>12, <1>f DEF vars
<1> QED BY <1>1, <1>2, <1>3, <1>4, <1>5, <1>6, <1>7, <1>8, <1>9, <1>10, <1>11, <1>12 DEF Next

\* The removal of the parts and the record of a completion come before anybody is told,
\* and a cancelled session takes no upload.
LEMMA EffectsStep ==
  Inv /\ NoStrayWrites /\ OutcomesAreRecorded /\ JournalsAreInStep /\ ToldIsTrue
    /\ EffectsAreThere /\ [Next]_vars
    => EffectsAreThere'
<1> DEFINE Goal == \A id \in Ids : Effective(id)'
<1> SUFFICES ASSUME Inv, NoStrayWrites, OutcomesAreRecorded, JournalsAreInStep, ToldIsTrue,
                    EffectsAreThere, [Next]_vars, Undisturbed'
             PROVE  Goal
  BY DEF EffectsAreThere
<1>a. /\ drops = 0 /\ detached = {}
      /\ \A id \in Ids : InStep(id) /\ ToldTruth(id) /\ Effective(id)
  BY FaultsStep DEF FaultsGrow, NoStrayWrites, JournalsAreInStep, ToldIsTrue, EffectsAreThere,
                    Inv, Unfaulted, Undisturbed
<1>b. drops' # drops + 1 /\ ioErrors' # ioErrors + 1 /\ crashes' # crashes + 1
  BY FaultsStep DEF FaultsGrow, Inv, Undisturbed
<1>c. \A id \in Ids : pc[id] # "idle" => Live(mem[id]) /\ up BY DEF HandlersAreSound, Inv
<1>d. \A id \in Ids : pc[id] \in Uploading =>
        cur[id] \in FilesOf(id) /\ cur[id] \in Files /\ ~mem[id].cancelled
  BY DEF HandlersAreSound, Inv, FilesOf
<1>e. ASSUME NEW id \in Ids, pc[id] \in Uploading PROVE ~journal[id].cancelled
  BY <1>a, <1>c, <1>d, <1>e DEF InStep, Uploading
<1>f. ASSUME NEW id \in Ids, pc[id] = "commit" PROVE "complete" \notin told[id]
  <2>1. journal[id].published[cur[id]] = NoName /\ cur[id] \in FilesOf(id)
    BY <1>a, <1>d, <1>f DEF InStep, Uploading
  <2>2. ~journal[id].complete BY <2>1 DEF Inv, CompleteMeansAll, Sound
  <2> QED BY <1>a, <2>2 DEF ToldTruth, Holds
<1>g. \A id, i \in Ids : \A f \in FilesOf(id) : f \in FilesOf(i) => i = id BY DEF FilesOf
<1>h. /\ mem \in [Ids -> Record] /\ journal \in [Ids -> Record] /\ pc \in [Ids -> Phases]
      /\ told \in [Ids -> SUBSET Facts] /\ part \in [Files -> Part]
      /\ history \in [Ids -> [Outcomes -> Nat]]
  BY DEF Inv, TypeOK
<1>i. ASSUME NEW f \in Files, RemovePart(f)
      PROVE  \A g \in Files : ~part[g].here => ~part'[g].here
  BY <1>h, <1>i DEF RemovePart, NoPart
<1>j. \A id \in Ids : FilesOf(id) \subseteq Files BY DEF FilesOf
<1> USE <1>a
<1> USE DEF handlerVars, diskVars, nameVars, folderVars, faultVars, Effective, Enter, Release, Persisted, Cancelling
<1>1. ASSUME NEW id \in Ids, HandlerStep(id) PROVE Goal
  <2>1. CASE AcceptDone(id)
    <3>1. up /\ journal[id].cancelled = mem[id].cancelled /\ journal[id].complete = mem[id].complete
      BY <2>1, <1>c DEF AcceptDone, InStep
    <3>2. \A i \in Ids : history'[i]["Completed"] = history[i]["Completed"]
      BY <2>1, <1>h DEF AcceptDone, RecordHistory, Outcomes
    <3> QED BY <2>1, <3>1, <3>2, <1>h DEF AcceptDone
  <2>2. CASE RejectDone(id)
    <3>1. up /\ journal[id].cancelled = mem[id].cancelled /\ journal[id].complete = mem[id].complete
      BY <2>2, <1>c DEF RejectDone, InStep
    <3>2. \A i \in Ids : history'[i]["Completed"] = history[i]["Completed"]
      BY <2>2, <1>h DEF RejectDone, RecordHistory, Outcomes
    <3> QED BY <2>2, <3>1, <3>2, <1>h DEF RejectDone
  <2>3. CASE CancelAnswered(id)
    <3>1. pc[id] = "idle" /\ UNCHANGED <<pc, journal, part, history>>
          /\ \A i \in Ids \ {id} : told'[i] = told[i]
      BY <2>3, <1>h DEF CancelAnswered, Free
    <3> QED BY <3>1
  <2>4. CASE CancelLocked(id)
    <3>1. up /\ pc[id] = "idle" /\ ~mem[id].cancelled BY <2>4 DEF CancelLocked, Free
    <3>2. "removed" \notin told[id] BY <3>1 DEF ToldTruth, Holds
    <3> QED BY <2>4, <3>1, <3>2, <1>h DEF CancelLocked, InStep
  <2>5. CASE CancelPersisted(id)
    <3>1. ~mem[id].complete BY <2>5 DEF CancelPersisted, InStep
    <3> QED BY <2>5, <3>1, <1>h DEF CancelPersisted
  <2>6. CASE CancelDone(id)
    <3>1. \A i \in Ids : history'[i]["Completed"] = history[i]["Completed"]
      BY <2>6, <1>h DEF CancelDone, RecordHistory, Outcomes
    <3> QED BY <2>6, <3>1, <1>h DEF CancelDone
  <2>7. CASE BodyCancelled(id)
    <3>1. \A g \in Files : ~part[g].here => ~part'[g].here
      BY <2>7, <1>d, <1>i DEF BodyCancelled, Uploading
    <3>2. ~journal[id].cancelled BY <2>7, <1>e DEF BodyCancelled, Uploading
    <3> QED BY <2>7, <3>1, <3>2, <1>h, <1>j DEF BodyCancelled
  <2>8. CASE VerifyFails(id)
    <3>1. \A g \in Files : ~part[g].here => ~part'[g].here
      BY <2>8, <1>d, <1>i DEF VerifyFails, Uploading
    <3>2. ~journal[id].cancelled BY <2>8, <1>e DEF VerifyFails, Uploading
    <3> QED BY <2>8, <3>1, <3>2, <1>h, <1>j DEF VerifyFails
  <2>9. CASE Verified(id) BY <2>9, <1>h DEF Verified
  <2>10. CASE PickTarget(id) BY <2>10, <1>h DEF PickTarget
  <2>11. CASE PickExhausted(id) BY <2>11, <1>h DEF PickExhausted
  <2>12. CASE TargetPersisted(id)
    <3>1. up /\ journal[id].cancelled = mem[id].cancelled /\ journal[id].complete = mem[id].complete
      BY <2>12, <1>c DEF TargetPersisted, InStep
    <3>2. \A i \in Ids : history'[i]["Completed"] = history[i]["Completed"]
      BY <2>12, <1>h DEF TargetPersisted, RecordHistory, Outcomes
    <3> QED BY <2>12, <3>1, <3>2, <1>h DEF TargetPersisted
  <2>13. CASE Link(id) BY <2>13, <1>h DEF Link
  <2>14. CASE LinkReuse(id) BY <2>14, <1>h DEF LinkReuse
  <2>15. CASE LinkConflict(id) BY <2>15, <1>h DEF LinkConflict
  <2>16. CASE DirSynced(id) BY <2>16, <1>h DEF DirSynced
  <2>17. CASE CommitPersisted(id)
    <3>1. /\ pc[id] = "commit" /\ ~mem[id].cancelled /\ "complete" \notin told[id]
      BY <2>17, <1>d, <1>f DEF CommitPersisted, Uploading
    <3> QED BY <2>17, <3>1, <1>h DEF CommitPersisted
  <2>18. CASE UploadDone(id)
    <3>1. /\ pc[id] = "finish" /\ UNCHANGED <<journal, told>> /\ pc' = [pc EXCEPT ![id] = "idle"]
          /\ journal[id].complete = mem[id].complete
      BY <2>18, <1>c DEF UploadDone, InStep
    <3>2. \A g \in Files : ~part[g].here => ~part'[g].here
      BY <2>18, <3>1, <1>d, <1>i DEF UploadDone, Uploading
    <3>3. ~journal[id].cancelled BY <3>1, <1>e DEF Uploading
    <3>4. /\ mem[id].complete => history'[id]["Completed"] = history[id]["Completed"] + 1
          /\ \A i \in Ids \ {id} : history'[i] = history[i]
      BY <2>18, <1>h DEF UploadDone, RecordHistory, Outcomes
    <3>5. history[id]["Completed"] \in Nat BY <1>h DEF Outcomes
    <3>6. Effective(id)' BY <3>1, <3>3, <3>4, <3>5, <1>h
    <3> QED BY <3>1, <3>2, <3>4, <3>6, <1>h, <1>j
  <2>19. ASSUME NEW f \in FilesOf(id), CancelClean(id, f) PROVE Goal
    <3>1. \A g \in Files : ~part[g].here => ~part'[g].here
      BY <2>19, <1>i, <1>j DEF CancelClean
    <3> QED BY <2>19, <3>1, <1>h, <1>j DEF CancelClean
  <2> QED BY <1>1, <2>1, <2>2, <2>3, <2>4, <2>5, <2>6, <2>7, <2>8, <2>9, <2>10, <2>11,
         <2>12, <2>13, <2>14, <2>15, <2>16, <2>17, <2>18, <2>19 DEF HandlerStep
<1>2. ASSUME NEW id \in Ids, Environment(id) PROVE Goal
  <2>1. CASE RegisterAgain(id) BY <2>1, <1>h DEF RegisterAgain
  <2>2. CASE Accept(id)
    <3>1. /\ pc[id] = "idle" /\ pc' = [pc EXCEPT ![id] = "accept"]
          /\ UNCHANGED <<journal, told, part, history>>
      BY <2>2 DEF Accept, Free
    <3> QED BY <3>1, <1>h
  <2>3. CASE Reject(id)
    <3>1. /\ pc[id] = "idle" /\ pc' = [pc EXCEPT ![id] = "reject"]
          /\ UNCHANGED <<journal, told, part, history>>
      BY <2>3 DEF Reject, Free
    <3> QED BY <3>1, <1>h
  <2>4. CASE CancelRequest(id) BY <2>4, <1>h DEF CancelRequest
  <2>5. CASE Status(id)
    <3>1. pc[id] = "idle" /\ UNCHANGED <<pc, journal, part, history>>
          /\ \A i \in Ids \ {id} : told'[i] = told[i]
      BY <2>5, <1>h DEF Status, Free
    <3> QED BY <3>1
  <2>6. CASE Forget(id)
    <3>1. /\ pc[id] = "idle" /\ UNCHANGED pc /\ \A g \in Files : ~part[g].here => ~part'[g].here
          /\ ~journal'[id].cancelled /\ ~journal'[id].complete
          /\ \A i \in Ids \ {id} : /\ journal'[i] = journal[i] /\ told'[i] = told[i]
                                   /\ history'[i] = history[i]
      BY <2>6, <1>h DEF Forget, Free, RemoveParts, NoPart, NoRecord, Fresh
    <3> QED BY <3>1, <1>j
  <2>7. CASE ForgetFails(id) BY <2>7, <1>b DEF ForgetFails, IoError
  <2>8. CASE ChunkTooLarge(id)
    <3>1. \A g \in Files : ~part[g].here => ~part'[g].here
      BY <2>8, <1>d, <1>i DEF ChunkTooLarge, Uploading
    <3>2. ~journal[id].cancelled BY <2>8, <1>e DEF ChunkTooLarge, Uploading
    <3> QED BY <2>8, <3>1, <3>2, <1>h, <1>j DEF ChunkTooLarge
  <2>9. CASE BodyInterrupted(id) BY <2>9, <1>e, <1>h DEF BodyInterrupted, Uploading
  <2>10. CASE BodyEnd(id) BY <2>10, <1>e, <1>h DEF BodyEnd, Uploading
  <2>11. CASE HandlerFails(id) BY <2>11, <1>b DEF HandlerFails, IoError
  <2>12. CASE HandlerDropped(id) BY <2>12, <1>b DEF HandlerDropped, Drop
  <2>13. CASE WaiterDropped(id) BY <2>13, <1>b DEF WaiterDropped, Drop
  <2>14. ASSUME NEW d \in {"Pending", "Accepted"}, Register(id, d) PROVE Goal
    BY <2>14, <1>h DEF Register
  <2>15. ASSUME NEW f \in FilesOf(id), UploadStart(id, f) PROVE Goal
    <3>1. ~journal[id].cancelled /\ pc[id] = "idle" BY <2>15 DEF UploadStart, Free, InStep
    <3>2. /\ \A g \in Files \ {f} : part'[g] = part[g]
          /\ pc' = [pc EXCEPT ![id] = "body"] /\ UNCHANGED <<journal, told, history>>
      BY <2>15, <1>h DEF UploadStart
    <3>3. Effective(id)' BY <3>1, <3>2, <1>h
    <3> QED BY <3>2, <3>3, <1>g, <1>h, <1>j
  <2>16. ASSUME NEW right \in BOOLEAN, Chunk(id, right) PROVE Goal
    <3>1. /\ ~journal[id].cancelled /\ pc[id] = "body" /\ cur[id] \in FilesOf(id)
      BY <2>16, <1>d, <1>e DEF Chunk, Uploading
    <3>2. /\ \A g \in Files \ {cur[id]} : part'[g] = part[g]
          /\ UNCHANGED <<pc, journal, told, history>>
      BY <2>16, <1>h DEF Chunk
    <3>3. Effective(id)' BY <3>1, <3>2
    <3> QED BY <3>1, <3>2, <3>3, <1>g, <1>j
  <2>17. CASE LinkUnread(id) BY <2>17, <1>b DEF LinkUnread, IoError
  <2> QED BY <1>2, <2>1, <2>2, <2>3, <2>4, <2>5, <2>6, <2>7, <2>8, <2>9, <2>10, <2>11,
         <2>12, <2>13, <2>14, <2>15, <2>16, <2>17 DEF Environment
<1>3. CASE RegisterDone
  <2>1. PICK r \in Ids : /\ r = reg.id /\ pc[r] = "idle"
                           /\ reg.rec = Fresh(reg.rec.decision)
    BY <1>3, NoRegAssumption DEF RegisterDone, Inv, HandlersAreSound, Registering, TypeOK
  <2>2. /\ ~journal'[r].cancelled /\ ~journal'[r].complete /\ UNCHANGED <<pc, part>>
        /\ \A i \in Ids \ {r} : /\ journal'[i] = journal[i] /\ told'[i] = told[i]
                                /\ history'[i] = history[i]
    BY <1>3, <2>1, <1>h DEF RegisterDone, Fresh
  <2>3. Effective(r)' BY <2>1, <2>2
  <2> QED BY <2>2, <2>3
<1>4. CASE RegisterAgainDone
  <2>1. PICK r \in Ids : r = reg.id /\ pc[r] = "idle"
    BY <1>4, NoRegAssumption DEF RegisterAgainDone, Inv, Registering, TypeOK, Free
  <2>2. UNCHANGED <<pc, journal, part, history>> /\ \A i \in Ids \ {r} : told'[i] = told[i]
    BY <1>4, <2>1, <1>h DEF RegisterAgainDone
  <2> QED BY <2>1, <2>2
<1>5. CASE RegisterFails BY <1>5, <1>b DEF RegisterFails, IoError
<1>6. CASE RegisterDropped BY <1>6, <1>b DEF RegisterDropped, Drop
<1>7. CASE Start BY <1>7, <1>h DEF Start
<1>8. CASE Stop BY <1>8, <1>h DEF Stop
<1>9. CASE Crash BY <1>9, <1>b DEF Crash
<1>10. ASSUME NEW w \in detached, DetachedLands(w) PROVE Goal BY <1>10
<1>11. ASSUME NEW n \in Names, OtherFile(n) PROVE Goal BY <1>11, <1>h DEF OtherFile
<1>12. CASE UNCHANGED vars BY <1>12, <1>h DEF vars
<1> QED BY <1>1, <1>2, <1>3, <1>4, <1>5, <1>6, <1>7, <1>8, <1>9, <1>10, <1>11, <1>12 DEF Next

-----------------------------------------------------------------------------
\* All of it together.
LEMMA FaultFreeInit == Init => FaultFree
<1> SUFFICES ASSUME Init PROVE FaultFree OBVIOUS
<1>1. \A id \in Ids : mem[id] = NoRecord /\ journal[id] = NoRecord /\ pc[id] = "idle"
                      /\ told[id] = {} /\ history[id] = NoHistory /\ up = FALSE
  BY DEF Init
<1>2. ~Live(NoRecord) /\ ~NoRecord.cancelled /\ ~NoRecord.complete
  BY DEF NoRecord, Fresh, Live
<1>3. RecordsAreBlankOrLive BY <1>1 DEF RecordsAreBlankOrLive, BlankOrLive, Init
<1>4. NoStrayWrites /\ NamesAreJournalled
  BY <1>1 DEF NoStrayWrites, NamesAreJournalled, Placed, LinkReady, Init
<1>5. OutcomesAreRecorded
  <2>1. NoHistory["Completed"] = 0 /\ NoHistory["Failed"] = 0 BY DEF NoHistory, Outcomes
  <2> QED BY <1>1, <2>1 DEF OutcomesAreRecorded, Recorded, Cancelling
<1>6. JournalsAreInStep BY <1>1 DEF JournalsAreInStep, InStep
<1>7. ToldIsTrue BY <1>1 DEF ToldIsTrue, ToldTruth
<1>8. RetainedWithinLimit
  <2>1. Retained = {} BY <1>1, <1>2 DEF Retained
  <2>2. reg = NoReg BY DEF Init
  <2> QED BY <2>1, <2>2, FS_EmptySet, ConstantsAssumption
          DEF RetainedWithinLimit, WithinLimit, Registering
<1>9. EffectsAreThere BY <1>1, <1>2 DEF EffectsAreThere, Effective
<1> QED BY <1>3, <1>4, <1>5, <1>6, <1>7, <1>8, <1>9 DEF FaultFree

LEMMA FaultFreeStep == Inv /\ FaultFree /\ [Next]_vars => FaultFree'
<1> SUFFICES ASSUME Inv, FaultFree, [Next]_vars PROVE FaultFree' OBVIOUS
<1>1. TypeOK' BY NextInv DEF Inv
<1>2. TypeOK /\ HandlersAreSound BY DEF Inv
<1>3. RecordsAreBlankOrLive' BY <1>1, <1>2, BlankStep DEF FaultFree
<1>4. NoStrayWrites' BY <1>2, StrayWritesStep DEF FaultFree
<1>5. NamesAreJournalled' BY <1>2, NamesStep DEF FaultFree
<1>6. OutcomesAreRecorded' BY RecordedStep DEF FaultFree
<1>7. JournalsAreInStep' BY InStepStep DEF FaultFree
<1>8. ToldIsTrue' BY ToldStep DEF FaultFree
<1>9. RetainedWithinLimit' BY LimitStep DEF FaultFree
<1>10. EffectsAreThere' BY EffectsStep DEF FaultFree
<1> QED BY <1>3, <1>4, <1>5, <1>6, <1>7, <1>8, <1>9, <1>10 DEF FaultFree

\* The second inductive invariant, on top of Inv: what memory, journals, directory,
\* history and callers agree on as long as the faults that would part them are absent.
THEOREM FaultFreeInvariance == Spec => [](Inv /\ FaultFree)
<1>1. Init => Inv /\ FaultFree BY InitInv, FaultFreeInit
<1>2. Inv /\ FaultFree /\ [Next]_vars => (Inv /\ FaultFree)' BY NextInv, FaultFreeStep
<1> QED BY <1>1, <1>2, PTL DEF Spec

\* As long as no handler is dropped, upload links no file of a manifest at two names,
\* whatever crashes or fails between the link and the commit and however the sender
\* retries: the target is journalled before the link, and a restart tries it first.
\* Only a failed read of that target, which upload takes for a conflict, is excepted.
THEOREM OneCopy == Spec => []OneCopyPerFile
<1>1. Inv /\ FaultFree => OneCopyPerFile
  <2> SUFFICES ASSUME FaultFree, drops = 0, NEW n \in Names, NEW m \in Names,
                      maker[n] = maker[m], maker[n] \notin misread \cup {NoFile}
               PROVE  n = m
    BY DEF OneCopyPerFile
  <2>1. Placed(n) /\ Placed(m) BY DEF FaultFree, NamesAreJournalled
  <2>2. maker[n] # NoFile /\ maker[n] \notin misread OBVIOUS
  <2>3. PICK f : f = maker[n] /\ f = maker[m] OBVIOUS
  <2>4. journal[Session[f]].targets[f] = n BY <2>1, <2>2, <2>3 DEF Placed
  <2>5. journal[Session[f]].targets[f] = m BY <2>1, <2>2, <2>3 DEF Placed
  <2> QED BY <2>4, <2>5
<1> QED BY <1>1, FaultFreeInvariance, PTL

\* As long as no handler is dropped, RecordHistory is called at most once per session
\* with Completed or Failed, over crashes, restarts and failed journal writes.  (The
\* upload that is dropped after its commit never records its completion, and a stale
\* journal it left may let the session be cancelled later.)
THEOREM ExclusiveOutcomes == Spec => [](drops = 0 => OutcomesExclusive)
<1>1. Inv /\ FaultFree => (drops = 0 => OutcomesExclusive)
  BY DEF FaultFree, OutcomesAreRecorded, Recorded, OutcomesExclusive
<1> QED BY <1>1, FaultFreeInvariance, PTL

\* As long as no handler is dropped and no write fails, what status, accept_transfer
\* and cancel_transfer told a caller is what load would find after a crash at any
\* moment.
THEOREM ToldIsDurable == Spec => [](Unfaulted => ToldFactsAreDurable)
<1>1. Inv /\ FaultFree => (Unfaulted => ToldFactsAreDurable)
  BY DEF FaultFree, ToldIsTrue, ToldTruth, Holds, ToldFactsAreDurable
<1> QED BY <1>1, FaultFreeInvariance, PTL

\* register counts the sessions under the registration mutex and keeps it until the
\* new one is inserted, so that they stay within the limit for any number of IDs and
\* over restarts.  (A dropped or failed registration may leave a journal that a
\* restart loads on top of a full table.)
THEOREM LimitKept == Spec => [](Unfaulted => SessionsWithinLimit)
<1>1. Inv /\ FaultFree => (Unfaulted => SessionsWithinLimit)
  <2> SUFFICES ASSUME Inv, FaultFree, Unfaulted PROVE SessionsWithinLimit OBVIOUS
  <2> DEFINE L == {id \in Ids : Live(mem[id])}
  <2>1. WithinLimit BY DEF FaultFree, RetainedWithinLimit
  <2>2. L \subseteq Retained
    <3> SUFFICES ASSUME NEW id \in Ids, Live(mem[id]) PROVE Live(journal[id])
      BY DEF Retained
    <3>1. up BY DEF Inv, HandlersAreSound
    <3>2. InStep(id) BY DEF FaultFree, JournalsAreInStep
    <3> QED BY <3>1, <3>2 DEF InStep, Live
  <2>3. IsFiniteSet(Retained) /\ Cardinality(Retained) <= MaxSessions BY <2>1 DEF WithinLimit
  <2>4. /\ Cardinality(L) <= Cardinality(Retained)
        /\ Cardinality(L) \in Nat /\ Cardinality(Retained) \in Nat
    BY <2>2, <2>3, FS_Subset, FS_CardinalityType
  <2>5. Cardinality(L) <= MaxSessions BY <2>3, <2>4, ConstantsAssumption
  <2> QED BY <2>5 DEF SessionsWithinLimit
<1> QED BY <1>1, FaultFreeInvariance, PTL

\* Without faults, cancel_transfer answers Ok only once every part of the session is
\* gone, and none comes back; and the sender learns of a completion only once it is in
\* the history.
THEOREM EffectsTaken == Spec => []OutcomesTakeEffect
<1>1. Inv /\ FaultFree => OutcomesTakeEffect
  <2> SUFFICES ASSUME FaultFree, Undisturbed, NEW id \in Ids
               PROVE  /\ "removed" \in told[id] => \A f \in FilesOf(id) : ~part[f].here
                      /\ "complete" \in told[id] => history[id]["Completed"] > 0
    BY DEF OutcomesTakeEffect
  <2>1. Effective(id) /\ ToldTruth(id)
    BY DEF FaultFree, EffectsAreThere, ToldIsTrue, Unfaulted, Undisturbed
  <2> QED BY <2>1 DEF Effective, ToldTruth, Holds
<1> QED BY <1>1, FaultFreeInvariance, PTL

-----------------------------------------------------------------------------
(***************************************************************************)
(* Behaviours without dropped handlers and I/O errors: nothing appears     *)
(* after a cancellation, and the journals implement TransferReceipts.      *)
(***************************************************************************)
\* What a step may do to the journal of a session.
JournalMoves(i) ==
  \/ journal'[i] = journal[i]
  \/ journal'[i] = mem[i] /\ pc[i] \in Persisting
  \/ Registering /\ Live(reg.rec) /\ i = reg.id /\ journal'[i] = reg.rec
  \/ Free(i) /\ Terminal(mem[i]) /\ journal'[i] = NoRecord
  \/ \E w \in detached : i = w.id /\ journal'[i] = w.rec

\* A registration starts as pending or accepted, and only the fault actions, which
\* the bounds limit, count faults.
AsksOnce == Registering => reg.rec.decision \in {"None", "Pending", "Accepted"}
FaultsBounded == drops <= MaxDrops /\ ioErrors <= MaxIoErrors
Ledger == AsksOnce /\ FaultsBounded

LEMMA JournalStep ==
  TypeOK /\ Ledger /\ [Next]_vars => Ledger' /\ \A i \in Ids : JournalMoves(i)
<1> DEFINE Goal == Ledger' /\ \A i \in Ids : JournalMoves(i)
<1> SUFFICES ASSUME TypeOK, Ledger, [Next]_vars PROVE Goal OBVIOUS
<1>a. drops \in Nat /\ ioErrors \in Nat /\ MaxDrops \in Nat /\ MaxIoErrors \in Nat
  BY ConstantsAssumption DEF TypeOK
<1>b. journal \in [Ids -> Record] /\ pc \in [Ids -> Phases] BY DEF TypeOK
<1>c. ASSUME UNCHANGED <<reg, faultVars>> PROVE Ledger'
  BY <1>c DEF Ledger, AsksOnce, Registering, FaultsBounded, faultVars
<1>d. ASSUME reg' = NoReg, UNCHANGED <<drops, ioErrors>> PROVE Ledger'
  BY <1>d DEF Ledger, AsksOnce, Registering, FaultsBounded
<1>e. ASSUME UNCHANGED journal PROVE \A i \in Ids : JournalMoves(i)
  BY <1>e DEF JournalMoves
<1>f. ASSUME NEW id \in Ids, pc[id] \in Persisting, Persisted(id)
      PROVE  \A i \in Ids : JournalMoves(i)
  BY <1>b, <1>f DEF Persisted, JournalMoves
<1>g. ASSUME Registering, Live(reg.rec), journal' = [journal EXCEPT ![reg.id] = reg.rec]
      PROVE  \A i \in Ids : JournalMoves(i)
  BY <1>b, <1>g DEF JournalMoves
<1>h. ASSUME IoError, UNCHANGED drops, reg' \in {reg, NoReg} PROVE Ledger'
  BY <1>a, <1>h DEF IoError, Ledger, AsksOnce, Registering, FaultsBounded
<1>i. ASSUME Drop, UNCHANGED ioErrors, reg' \in {reg, NoReg} PROVE Ledger'
  BY <1>a, <1>i DEF Drop, Ledger, AsksOnce, Registering, FaultsBounded
<1>1. ASSUME NEW id \in Ids, HandlerStep(id) PROVE Goal
  <2>1. CASE AcceptDone(id) BY <2>1, <1>c, <1>f DEF AcceptDone, Persisting
  <2>2. CASE RejectDone(id) BY <2>2, <1>c, <1>f DEF RejectDone, Persisting
  <2>3. CASE CancelAnswered(id) BY <2>3, <1>c, <1>e DEF CancelAnswered
  <2>4. CASE CancelLocked(id) BY <2>4, <1>c, <1>e DEF CancelLocked
  <2>5. CASE CancelPersisted(id) BY <2>5, <1>c, <1>f DEF CancelPersisted, Persisting
  <2>6. CASE CancelDone(id) BY <2>6, <1>c, <1>e DEF CancelDone
  <2>7. CASE BodyCancelled(id) BY <2>7, <1>c, <1>e DEF BodyCancelled
  <2>8. CASE VerifyFails(id) BY <2>8, <1>c, <1>e DEF VerifyFails
  <2>9. CASE Verified(id) BY <2>9, <1>c, <1>e DEF Verified
  <2>10. CASE PickTarget(id) BY <2>10, <1>c, <1>e DEF PickTarget
  <2>11. CASE PickExhausted(id) BY <2>11, <1>c, <1>e DEF PickExhausted
  <2>12. CASE TargetPersisted(id) BY <2>12, <1>c, <1>f DEF TargetPersisted, Persisting
  <2>13. CASE Link(id) BY <2>13, <1>c, <1>e DEF Link
  <2>14. CASE LinkReuse(id) BY <2>14, <1>c, <1>e DEF LinkReuse
  <2>15. CASE LinkConflict(id) BY <2>15, <1>c, <1>e DEF LinkConflict
  <2>16. CASE DirSynced(id) BY <2>16, <1>c, <1>e DEF DirSynced
  <2>17. CASE CommitPersisted(id) BY <2>17, <1>c, <1>f DEF CommitPersisted, Persisting
  <2>18. CASE UploadDone(id) BY <2>18, <1>c, <1>e DEF UploadDone
  <2>19. ASSUME NEW f \in FilesOf(id), CancelClean(id, f) PROVE Goal
    BY <2>19, <1>c, <1>e DEF CancelClean
  <2> QED BY <1>1, <2>1, <2>2, <2>3, <2>4, <2>5, <2>6, <2>7, <2>8, <2>9, <2>10, <2>11,
         <2>12, <2>13, <2>14, <2>15, <2>16, <2>17, <2>18, <2>19 DEF HandlerStep
<1>2. ASSUME NEW id \in Ids, Environment(id) PROVE Goal
  <2>1. CASE RegisterAgain(id)
    BY <2>1, <1>e DEF RegisterAgain, Ledger, AsksOnce, FaultsBounded, faultVars, NoRecord, Fresh
  <2>2. CASE Accept(id) BY <2>2, <1>c, <1>e DEF Accept
  <2>3. CASE Reject(id) BY <2>3, <1>c, <1>e DEF Reject
  <2>4. CASE CancelRequest(id) BY <2>4, <1>c, <1>e DEF CancelRequest
  <2>5. CASE Status(id) BY <2>5, <1>c, <1>e DEF Status
  <2>6. CASE Forget(id) BY <2>6, <1>b, <1>c DEF Forget, JournalMoves
  <2>7. CASE ForgetFails(id) BY <2>7, <1>e, <1>h DEF ForgetFails
  <2>8. CASE ChunkTooLarge(id) BY <2>8, <1>c, <1>e DEF ChunkTooLarge
  <2>9. CASE BodyInterrupted(id) BY <2>9, <1>c, <1>e DEF BodyInterrupted
  <2>10. CASE BodyEnd(id) BY <2>10, <1>c, <1>e DEF BodyEnd
  <2>11. CASE HandlerFails(id) BY <2>11, <1>e, <1>f, <1>h DEF HandlerFails
  <2>12. CASE HandlerDropped(id) BY <2>12, <1>e, <1>i DEF HandlerDropped
  <2>13. CASE WaiterDropped(id) BY <2>13, <1>e, <1>i DEF WaiterDropped
  <2>14. ASSUME NEW d \in {"Pending", "Accepted"}, Register(id, d) PROVE Goal
    BY <2>14, <1>e DEF Register, Ledger, AsksOnce, FaultsBounded, faultVars, Fresh
  <2>15. ASSUME NEW f \in FilesOf(id), UploadStart(id, f) PROVE Goal
    BY <2>15, <1>c, <1>e DEF UploadStart
  <2>16. ASSUME NEW right \in BOOLEAN, Chunk(id, right) PROVE Goal BY <2>16, <1>c, <1>e DEF Chunk
  <2>17. CASE LinkUnread(id) BY <2>17, <1>e, <1>h DEF LinkUnread
  <2> QED BY <1>2, <2>1, <2>2, <2>3, <2>4, <2>5, <2>6, <2>7, <2>8, <2>9, <2>10, <2>11,
         <2>12, <2>13, <2>14, <2>15, <2>16, <2>17 DEF Environment
<1>3. CASE RegisterDone BY <1>3, <1>d, <1>g DEF RegisterDone, faultVars
<1>4. CASE RegisterAgainDone BY <1>4, <1>d, <1>e DEF RegisterAgainDone, faultVars
<1>5. CASE RegisterFails BY <1>5, <1>e, <1>g, <1>h DEF RegisterFails
<1>6. CASE RegisterDropped BY <1>6, <1>e, <1>i DEF RegisterDropped
<1>7. CASE Start BY <1>7, <1>c, <1>e DEF Start
<1>8. CASE Stop BY <1>8, <1>c, <1>e DEF Stop, faultVars
<1>9. CASE Crash BY <1>9, <1>d, CrashLands DEF Crash, JournalMoves
<1>10. ASSUME NEW w \in detached, DetachedLands(w) PROVE Goal
  BY <1>10, <1>b, <1>c DEF DetachedLands, JournalMoves
<1>11. ASSUME NEW n \in Names, OtherFile(n) PROVE Goal BY <1>11, <1>c, <1>e DEF OtherFile
<1>12. CASE UNCHANGED vars BY <1>12, <1>c, <1>e DEF vars, faultVars
<1> QED BY <1>1, <1>2, <1>3, <1>4, <1>5, <1>6, <1>7, <1>8, <1>9, <1>10, <1>11, <1>12 DEF Next

\* The journal as the abstract specification sees it, in the words of DurableStore.
ReceiptsOf(rec) == {f \in Files : rec.published[f] # NoName}
Promised(i) ==
  LET old == journal[i]
      new == journal'[i] IN
  \/ PhaseOf(new) = PhaseOf(old) /\ ReceiptsOf(new) = ReceiptsOf(old)
  \/ /\ PhaseOf(old) = "None" /\ PhaseOf(new) \in {"Pending", "Accepted"}
     /\ ReceiptsOf(new) = ReceiptsOf(old)
  \/ /\ PhaseOf(old) = "Pending" /\ PhaseOf(new) \in {"Accepted", "Rejected"}
     /\ ReceiptsOf(new) = ReceiptsOf(old)
  \/ /\ PhaseOf(old) \in {"Pending", "Accepted", "Rejected"} /\ PhaseOf(new) = "Cancelled"
     /\ ReceiptsOf(new) = ReceiptsOf(old)
  \/ /\ PhaseOf(old) \in {"Rejected", "Cancelled", "Complete"} /\ PhaseOf(new) = "None"
     /\ ReceiptsOf(new) = {}
  \/ \E f \in FilesOf(i) :
       /\ f \notin ReceiptsOf(old) /\ ReceiptsOf(new) = ReceiptsOf(old) \cup {f}
       /\ PhaseOf(old) = "Accepted"
       /\ PhaseOf(new) = IF ReceiptsOf(new) = FilesOf(i) THEN "Complete" ELSE "Accepted"

\* The phases and receipts that the refinement mapping shows.
LEMMA PromisedImplements ==
  ASSUME \A i \in Ids : Promised(i)
  PROVE  Receipts!Next
<1> DEFINE ph == [id \in Ids |-> PhaseOf(journal[id])]
           rc == [id \in Ids |-> {f \in Files : journal[id].published[f] # NoName}]
<1> SUFFICES ASSUME NEW i \in Ids
             PROVE  \/ Receipts!Same(i) \/ Receipts!Open(i) \/ Receipts!Approve(i)
                    \/ Receipts!Refuse(i) \/ Receipts!Cancel(i) \/ Receipts!Forget(i)
                    \/ \E f \in Receipts!FilesOf(i) : Receipts!Receive(i, f)
  BY DEF Receipts!Next
<1>1. /\ ph[i] = PhaseOf(journal[i]) /\ ph'[i] = PhaseOf(journal'[i])
      /\ rc[i] = ReceiptsOf(journal[i]) /\ rc'[i] = ReceiptsOf(journal'[i])
      /\ Receipts!FilesOf(i) = FilesOf(i)
  BY DEF ReceiptsOf, Receipts!FilesOf, FilesOf
<1>2. Promised(i) OBVIOUS
<1> HIDE DEF ph, rc
<1> USE DEF Receipts!Move
<1>3. CASE ph'[i] = ph[i] /\ rc'[i] = rc[i] BY <1>3 DEF Receipts!Same, ph, rc
<1>4. CASE ph[i] = "None" /\ ph'[i] \in {"Pending", "Accepted"} /\ rc'[i] = rc[i]
  BY <1>4 DEF Receipts!Open, ph, rc
<1>5. CASE ph[i] = "Pending" /\ ph'[i] \in {"Accepted", "Rejected"} /\ rc'[i] = rc[i]
  BY <1>5 DEF Receipts!Approve, Receipts!Refuse, ph, rc
<1>6. CASE /\ ph[i] \in {"Pending", "Accepted", "Rejected"} /\ ph'[i] = "Cancelled"
           /\ rc'[i] = rc[i]
  BY <1>6 DEF Receipts!Cancel, ph, rc
<1>7. CASE /\ ph[i] \in {"Rejected", "Cancelled", "Complete"} /\ ph'[i] = "None"
           /\ rc'[i] = {}
  BY <1>7 DEF Receipts!Forget, ph, rc
<1>8. ASSUME NEW f \in FilesOf(i),
             f \notin rc[i], rc'[i] = rc[i] \cup {f}, ph[i] = "Accepted",
             ph'[i] = IF rc'[i] = FilesOf(i) THEN "Complete" ELSE "Accepted"
      PROVE  Receipts!Receive(i, f)
  BY <1>1, <1>8 DEF Receipts!Receive, ph, rc
<1> QED BY <1>1, <1>2, <1>3, <1>4, <1>5, <1>6, <1>7, <1>8 DEF Promised

\* What the holder of the mutex writes moves the session along its life.
LEMMA WrittenIsPromised ==
  ASSUME Inv, NEW i \in Ids, InStep(i), pc[i] \in Persisting, journal'[i] = mem[i]
  PROVE  Promised(i)
<1>a. /\ up /\ Live(mem[i]) /\ mem[i] \in Record /\ journal[i] \in Record
      /\ Sound(i, mem[i]) /\ Sound(i, journal[i])
  BY DEF Inv, HandlersAreSound, TypeOK, CompleteMeansAll, Persisting
<1>b. mem[i].decision \in Decisions /\ journal[i].decision \in Decisions
  BY <1>a DEF Record
<1>1. CASE pc[i] = "accept" \/ pc[i] = "reject"
  <2>1. /\ journal[i].cancelled = mem[i].cancelled /\ journal[i].complete = mem[i].complete
        /\ journal[i].published = mem[i].published
    BY <1>a, <1>1 DEF InStep
  <2>2. \/ mem[i].decision = journal[i].decision
        \/ journal[i].decision = "Pending" /\ mem[i].decision \in {"Accepted", "Rejected"}
    BY <1>1 DEF InStep
  <2>3. ReceiptsOf(journal'[i]) = ReceiptsOf(journal[i]) BY <2>1 DEF ReceiptsOf
  <2> QED BY <2>1, <2>2, <2>3 DEF Promised, PhaseOf
<1>2. CASE pc[i] = "cancel"
  <2>1. /\ mem[i].cancelled /\ ~journal[i].cancelled /\ ~mem[i].complete
        /\ ~journal[i].complete
        /\ journal[i].decision = mem[i].decision /\ journal[i].published = mem[i].published
    BY <1>a, <1>2 DEF InStep
  <2>2. ReceiptsOf(journal'[i]) = ReceiptsOf(journal[i]) BY <2>1 DEF ReceiptsOf
  <2> QED BY <1>a, <1>b, <2>1, <2>2 DEF Promised, PhaseOf, Live, Decisions
<1>3. CASE pc[i] = "target"
  <2>1. /\ journal[i].cancelled = mem[i].cancelled /\ journal[i].complete = mem[i].complete
        /\ journal[i].published = mem[i].published
        /\ journal[i].decision = mem[i].decision
    BY <1>a, <1>3 DEF InStep
  <2>2. ReceiptsOf(journal'[i]) = ReceiptsOf(journal[i]) BY <2>1 DEF ReceiptsOf
  <2> QED BY <2>1, <2>2 DEF Promised, PhaseOf
<1>4. CASE pc[i] = "commit"
  <2>1. /\ journal[i].published[cur[i]] = NoName /\ mem[i].published[cur[i]] # NoName
        /\ \A f \in Files \ {cur[i]} : mem[i].published[f] = journal[i].published[f]
        /\ journal[i].decision = mem[i].decision /\ journal[i].cancelled = mem[i].cancelled
    BY <1>a, <1>4 DEF InStep
  <2>2. /\ cur[i] \in FilesOf(i) /\ cur[i] \in Files
        /\ mem[i].decision = "Accepted" /\ ~mem[i].cancelled
    BY <1>4 DEF Inv, HandlersAreSound, Uploading, FilesOf
  <2>3. ~journal[i].complete BY <1>a, <2>1, <2>2 DEF Sound
  <2>4. ReceiptsOf(mem[i]) = ReceiptsOf(journal[i]) \cup {cur[i]} BY <2>1, <2>2 DEF ReceiptsOf
  <2>5. cur[i] \notin ReceiptsOf(journal[i]) BY <2>1 DEF ReceiptsOf
  <2>6. ReceiptsOf(mem[i]) \subseteq FilesOf(i) BY <1>a DEF Sound, ReceiptsOf
  <2>7. mem[i].complete <=> ReceiptsOf(mem[i]) = FilesOf(i)
    <3>1. FilesOf(i) # {} BY <2>2
    <3>2. mem[i].complete <=> \A f \in FilesOf(i) : mem[i].published[f] # NoName
      BY <1>a, <3>1 DEF Sound
    <3>3. FilesOf(i) \subseteq Files BY DEF FilesOf
    <3> QED BY <2>6, <3>2, <3>3 DEF ReceiptsOf
  <2>8. PhaseOf(journal[i]) = "Accepted" BY <2>1, <2>2, <2>3 DEF PhaseOf
  <2>9. PhaseOf(mem[i]) = IF ReceiptsOf(mem[i]) = FilesOf(i) THEN "Complete" ELSE "Accepted"
    BY <2>2, <2>7 DEF PhaseOf
  <2> QED BY <2>2, <2>4, <2>5, <2>8, <2>9 DEF Promised
<1> QED BY <1>1, <1>2, <1>3, <1>4 DEF Persisting

LEMMA StepIsPromised ==
  Inv /\ FaultFree /\ Ledger /\ Unfaulted /\ [Next]_vars => \A i \in Ids : Promised(i)
<1> SUFFICES ASSUME Inv, FaultFree, Ledger, Unfaulted, [Next]_vars, NEW i \in Ids
             PROVE  Promised(i)
  OBVIOUS
<1>1. JournalMoves(i) BY JournalStep DEF Inv
<1>2. detached = {} /\ InStep(i) /\ BlankOrLive(journal[i])
  BY DEF FaultFree, NoStrayWrites, JournalsAreInStep, RecordsAreBlankOrLive, Unfaulted
<1>a. \A d \in Decisions : /\ PhaseOf(Fresh(d)) = d /\ ReceiptsOf(Fresh(d)) = {}
                           /\ Fresh(d).decision = d
  BY DEF PhaseOf, ReceiptsOf, Fresh
<1>b. PhaseOf(NoRecord) = "None" /\ ReceiptsOf(NoRecord) = {}
  BY <1>a DEF NoRecord, Decisions
<1>3. CASE journal'[i] = journal[i] BY <1>3 DEF Promised
<1>4. CASE journal'[i] = mem[i] /\ pc[i] \in Persisting BY <1>2, <1>4, WrittenIsPromised
<1>5. CASE Registering /\ Live(reg.rec) /\ i = reg.id /\ journal'[i] = reg.rec
  <2>1. up /\ reg.rec = Fresh(reg.rec.decision) /\ ~Live(mem[i])
    BY <1>5 DEF Inv, HandlersAreSound
  <2>2. reg.rec.decision \in {"Pending", "Accepted"}
    BY <1>5 DEF Ledger, AsksOnce, Live
  <2>3. pc[i] = "idle" BY <2>1 DEF Inv, HandlersAreSound
  <2>4. journal[i] = NoRecord BY <1>2, <2>1, <2>3 DEF InStep, Live, BlankOrLive
  <2>5. PhaseOf(journal'[i]) \in {"Pending", "Accepted"} /\ ReceiptsOf(journal'[i]) = {}
    BY <1>a, <1>5, <2>1, <2>2 DEF Decisions
  <2> QED BY <1>b, <2>4, <2>5 DEF Promised
<1>6. CASE Free(i) /\ Terminal(mem[i]) /\ journal'[i] = NoRecord
  <2>1. /\ journal[i].decision = mem[i].decision /\ journal[i].cancelled = mem[i].cancelled
        /\ journal[i].complete = mem[i].complete
    BY <1>2, <1>6 DEF InStep, Free
  <2>2. PhaseOf(journal[i]) \in {"Rejected", "Cancelled", "Complete"}
    BY <1>6, <2>1 DEF Terminal, PhaseOf
  <2> QED BY <1>6, <1>b, <2>2 DEF Promised
<1> QED BY <1>1, <1>2, <1>3, <1>4, <1>5, <1>6 DEF JournalMoves

\* register writes its first journal without an outcome, and the faults that happen stay
\* within their bounds.
THEOREM LedgerInvariance == Spec => []Ledger
<1>1. Init => Ledger
  BY ConstantsAssumption DEF Init, Ledger, AsksOnce, Registering, FaultsBounded
<1>2. TypeOK /\ Ledger /\ [Next]_vars => Ledger' BY JournalStep
<1> QED BY <1>1, <1>2, TypeCorrect, PTL DEF Spec

\* Without a budget of faults there are none.
LEMMA NoFaults ==
  ASSUME MaxDrops = 0, MaxIoErrors = 0, TypeOK, Ledger
  PROVE  Unfaulted
<1>1. drops \in Nat /\ ioErrors \in Nat BY DEF TypeOK
<1> QED BY <1>1 DEF Ledger, FaultsBounded, Unfaulted

\* If no handler is dropped and no write fails, the journals that a restart would load,
\* read at any moment and after any crash, follow the life of a transfer that
\* TransferReceipts promises: register asks once, files are received only while the
\* approval stands, a terminal phase is left only through forget.
THEOREM Refinement == ASSUME MaxDrops = 0, MaxIoErrors = 0 PROVE Spec => ReceiptsSpec
<1>1. Init => Receipts!Init
  <2> SUFFICES ASSUME Init PROVE Receipts!Init OBVIOUS
  <2>1. \A id \in Ids : journal[id] = NoRecord BY DEF Init
  <2>2. /\ PhaseOf(NoRecord) = "None" /\ \A f \in Files : NoRecord.published[f] = NoName
    BY DEF NoRecord, Fresh, PhaseOf
  <2> QED BY <2>1, <2>2 DEF Receipts!Init
<1>2. Inv /\ FaultFree /\ Ledger /\ [Next]_vars => [Receipts!Next]_(Receipts!vars)
  BY NoFaults, StepIsPromised, PromisedImplements DEF Inv
<1> QED BY <1>1, <1>2, FaultFreeInvariance, LedgerInvariance, PTL
        DEF Spec, ReceiptsSpec, Receipts!Spec

\* If no handler is dropped and no write fails, a caller who was told that the transfer
\* is cancelled will see none of its files appear, in this run of the receiver or after
\* any restart.
THEOREM CancelledStaysOut ==
  ASSUME MaxDrops = 0, MaxIoErrors = 0
  PROVE  Spec => NothingPublishedAfterCancel
<1>1. Inv /\ FaultFree /\ Ledger /\ [Next]_vars =>
        [\A n \in Names : maker'[n] \notin {maker[n], NoFile} =>
           "cancelled" \notin told[Session[maker'[n]]]]_vars
  <2> SUFFICES ASSUME Inv, FaultFree, Ledger, [Next]_vars, NEW n \in Names,
                      maker'[n] \notin {maker[n], NoFile},
                      "cancelled" \in told[Session[maker'[n]]]
               PROVE  FALSE
    OBVIOUS
  <2>1. TypeOK' BY NextInv DEF Inv
  <2>2. PICK f \in Files : f = maker'[n] BY <2>1 DEF TypeOK
  <2>3. Session[f] \in Ids BY ConstantsAssumption
  <2>4. mem[Session[f]].decision = "Accepted" /\ ~mem[Session[f]].cancelled
    BY <2>2, DestStep DEF Inv, DirectorySafe, NewNamesVerified
  <2>5. up BY <2>3, <2>4 DEF Inv, HandlersAreSound, Live
  <2>6. ToldTruth(Session[f]) BY <2>3, NoFaults DEF FaultFree, ToldIsTrue, Inv
  <2> QED BY <2>2, <2>4, <2>5, <2>6 DEF ToldTruth, Holds
<1> QED BY <1>1, FaultFreeInvariance, LedgerInvariance, PTL DEF Spec, NothingPublishedAfterCancel

-----------------------------------------------------------------------------
(***************************************************************************)
(* Behaviours without dropped handlers: I/O errors and crashes alone never *)
(* take a journalled outcome back.                                         *)
(***************************************************************************)
\* The outcomes that one record has, another one has too.
Covers(new, old) == /\ old.complete  => new.complete
                    /\ old.cancelled => new.cancelled

\* Memory may be ahead of the journal, by as many changes as failed to be written, but
\* it never lacks an outcome that the journal has: what is written next keeps it.
Ahead == up => \A id \in Ids : Covers(mem[id], journal[id])
MemoryIsAhead == drops = 0 => Ahead

\* A handler changes a record only towards an outcome.
LEMMA MemoryGrows ==
  ASSUME Inv, NEW id \in Ids, Changed(id)
  PROVE  /\ Covers(mem'[id], mem[id])
         /\ \A i \in Ids \ {id} : mem'[i] = mem[i]
         /\ UNCHANGED <<journal, up>>
<1>a. mem \in [Ids -> Record] BY DEF Inv, TypeOK
<1>1. CASE Accept(id) BY <1>a, <1>1 DEF Accept, Covers, Record
<1>2. CASE Reject(id) BY <1>a, <1>2 DEF Reject, Covers, Record
<1>3. CASE CancelLocked(id) BY <1>a, <1>3 DEF CancelLocked, Covers, Record
<1>4. CASE PickTarget(id) BY <1>a, <1>4 DEF PickTarget, Covers, Record
<1>5. CASE LinkConflict(id) BY <1>a, <1>5 DEF LinkConflict, Covers, Record
<1>6. CASE DirSynced(id)
  <2>1. UNCHANGED <<journal, up>> /\ \A i \in Ids \ {id} : mem'[i] = mem[i]
    BY <1>a, <1>6 DEF DirSynced
  <2>2. PICK f \in Files : f = cur[id] /\ f \in FilesOf(id) /\ mem[id].targets[f] # NoName
    BY <1>6, DirSyncedRecords, NoNameAssumption DEF Inv
  <2> DEFINE pub == [mem[id].published EXCEPT ![cur[id]] = mem[id].targets[cur[id]]]
  <2>3. /\ mem'[id].complete <=> \A g \in FilesOf(id) : pub[g] # NoName
        /\ mem'[id].cancelled = mem[id].cancelled
    BY <1>6, DirSyncedRecords DEF Inv
  <2>4. mem[id].complete => \A g \in FilesOf(id) : mem[id].published[g] # NoName
    BY DEF Inv, CompleteMeansAll, Sound
  <2>5. mem[id].published \in [Files -> Names \cup {NoName}] BY <1>a DEF Record
  <2>6. \A g \in FilesOf(id) : mem[id].published[g] # NoName => pub[g] # NoName
    BY <2>2, <2>5 DEF FilesOf
  <2> QED BY <2>1, <2>3, <2>4, <2>6 DEF Covers
<1>7. CASE LinkUnread(id) BY <1>a, <1>7 DEF LinkUnread, Covers, Record
<1> QED BY <1>1, <1>2, <1>3, <1>4, <1>5, <1>6, <1>7 DEF Changed

\* Changes go to memory first, and only what memory has is written.
LEMMA AheadStep ==
  Inv /\ RecordsAreBlankOrLive /\ NoStrayWrites /\ MemoryIsAhead /\ [Next]_vars
    => MemoryIsAhead'
<1> DEFINE Goal == Ahead'
<1> SUFFICES ASSUME Inv, RecordsAreBlankOrLive, NoStrayWrites, MemoryIsAhead, [Next]_vars,
                    drops' = 0
             PROVE  Goal
  BY DEF MemoryIsAhead
<1>a. drops = 0 /\ detached = {} /\ Ahead
  BY FaultsStep DEF FaultsGrow, NoStrayWrites, MemoryIsAhead, Inv
<1>b. mem \in [Ids -> Record] /\ journal \in [Ids -> Record] BY DEF Inv, TypeOK
<1>c. ASSUME UNCHANGED <<up, mem, journal>> PROVE Goal BY <1>a, <1>c DEF Ahead, Covers
<1>d. ASSUME NEW id \in Ids, Changed(id) PROVE Goal
  BY <1>a, <1>d, MemoryGrows DEF Ahead, Covers
<1>e. ASSUME NEW id \in Ids, Persisted(id), UNCHANGED <<up, mem>> PROVE Goal
  BY <1>a, <1>b, <1>e DEF Persisted, Ahead, Covers
<1>f. ASSUME ~up' PROVE Goal BY <1>f DEF Ahead
<1>g. ASSUME UNCHANGED <<up, mem>>, Registering, Live(reg.rec),
             journal' = [journal EXCEPT ![reg.id] = reg.rec]
      PROVE  Goal
  <2>1. PICK r \in Ids : r = reg.id /\ ~reg.rec.complete /\ ~reg.rec.cancelled
    <3>1. reg.id \in Ids BY <1>g DEF Inv, TypeOK, Registering
    <3>2. reg.rec = Fresh(reg.rec.decision) BY <1>g DEF Inv, HandlersAreSound
    <3>3. ~reg.rec.complete /\ ~reg.rec.cancelled BY <3>2 DEF Fresh
    <3> QED BY <3>1, <3>3
  <2>2. journal'[r] = reg.rec /\ \A i \in Ids \ {r} : journal'[i] = journal[i]
    BY <1>b, <1>g, <2>1
  <2> QED BY <1>a, <1>g, <2>1, <2>2 DEF Ahead, Covers
<1>1. ASSUME NEW id \in Ids, HandlerStep(id) PROVE Goal
  <2>1. CASE AcceptDone(id) BY <2>1, <1>e DEF AcceptDone
  <2>2. CASE RejectDone(id) BY <2>2, <1>e DEF RejectDone
  <2>3. CASE CancelAnswered(id) BY <2>3, <1>c DEF CancelAnswered
  <2>4. CASE CancelLocked(id) BY <2>4, <1>d DEF Changed
  <2>5. CASE CancelPersisted(id) BY <2>5, <1>e DEF CancelPersisted
  <2>6. CASE CancelDone(id) BY <2>6, <1>c DEF CancelDone
  <2>7. CASE BodyCancelled(id) BY <2>7, <1>c DEF BodyCancelled
  <2>8. CASE VerifyFails(id) BY <2>8, <1>c DEF VerifyFails
  <2>9. CASE Verified(id) BY <2>9, <1>c DEF Verified
  <2>10. CASE PickTarget(id) BY <2>10, <1>d DEF Changed
  <2>11. CASE PickExhausted(id) BY <2>11, <1>c DEF PickExhausted
  <2>12. CASE TargetPersisted(id) BY <2>12, <1>e DEF TargetPersisted
  <2>13. CASE Link(id) BY <2>13, <1>c DEF Link
  <2>14. CASE LinkReuse(id) BY <2>14, <1>c DEF LinkReuse
  <2>15. CASE LinkConflict(id) BY <2>15, <1>d DEF Changed
  <2>16. CASE DirSynced(id) BY <2>16, <1>d DEF Changed
  <2>17. CASE CommitPersisted(id) BY <2>17, <1>e DEF CommitPersisted
  <2>18. CASE UploadDone(id) BY <2>18, <1>c DEF UploadDone
  <2>19. ASSUME NEW f \in FilesOf(id), CancelClean(id, f) PROVE Goal
    BY <2>19, <1>c DEF CancelClean
  <2> QED BY <1>1, <2>1, <2>2, <2>3, <2>4, <2>5, <2>6, <2>7, <2>8, <2>9, <2>10, <2>11,
         <2>12, <2>13, <2>14, <2>15, <2>16, <2>17, <2>18, <2>19 DEF HandlerStep
<1>2. ASSUME NEW id \in Ids, Environment(id) PROVE Goal
  <2>1. CASE RegisterAgain(id) BY <2>1, <1>c DEF RegisterAgain
  <2>2. CASE Accept(id) BY <2>2, <1>d DEF Changed
  <2>3. CASE Reject(id) BY <2>3, <1>d DEF Changed
  <2>4. CASE CancelRequest(id) BY <2>4, <1>c DEF CancelRequest
  <2>5. CASE Status(id) BY <2>5, <1>c DEF Status
  <2>6. CASE Forget(id)
    <3>1. /\ mem'[id] = journal'[id] /\ UNCHANGED up
          /\ \A i \in Ids \ {id} : mem'[i] = mem[i] /\ journal'[i] = journal[i]
      BY <2>6, <1>b DEF Forget
    <3> QED BY <1>a, <3>1 DEF Ahead, Covers
  <2>7. CASE ForgetFails(id) BY <2>7, <1>c DEF ForgetFails
  <2>8. CASE ChunkTooLarge(id) BY <2>8, <1>c DEF ChunkTooLarge
  <2>9. CASE BodyInterrupted(id) BY <2>9, <1>c DEF BodyInterrupted
  <2>10. CASE BodyEnd(id) BY <2>10, <1>c DEF BodyEnd
  <2>11. CASE HandlerFails(id) BY <2>11, <1>c, <1>e DEF HandlerFails
  <2>12. CASE HandlerDropped(id) BY <2>12, <1>c DEF HandlerDropped
  <2>13. CASE WaiterDropped(id) BY <2>13, <1>c DEF WaiterDropped
  <2>14. ASSUME NEW d \in {"Pending", "Accepted"}, Register(id, d) PROVE Goal
    BY <2>14, <1>c DEF Register
  <2>15. ASSUME NEW f \in FilesOf(id), UploadStart(id, f) PROVE Goal
    BY <2>15, <1>c DEF UploadStart
  <2>16. ASSUME NEW right \in BOOLEAN, Chunk(id, right) PROVE Goal BY <2>16, <1>c DEF Chunk
  <2>17. CASE LinkUnread(id) BY <2>17, <1>d DEF Changed
  <2> QED BY <1>2, <2>1, <2>2, <2>3, <2>4, <2>5, <2>6, <2>7, <2>8, <2>9, <2>10, <2>11,
         <2>12, <2>13, <2>14, <2>15, <2>16, <2>17 DEF Environment
<1>3. CASE RegisterDone
  <2>1. PICK r \in Ids : r = reg.id
    BY <1>3 DEF RegisterDone, Inv, TypeOK, Registering
  <2>2. /\ mem'[r] = journal'[r] /\ UNCHANGED up
        /\ \A i \in Ids \ {r} : mem'[i] = mem[i] /\ journal'[i] = journal[i]
    BY <1>3, <2>1, <1>b DEF RegisterDone
  <2> QED BY <1>a, <2>2 DEF Ahead, Covers
<1>4. CASE RegisterAgainDone BY <1>4, <1>c DEF RegisterAgainDone
<1>5. CASE RegisterFails BY <1>5, <1>c, <1>g DEF RegisterFails
<1>6. CASE RegisterDropped BY <1>6, <1>c DEF RegisterDropped
<1>7. CASE Start BY <1>7 DEF Start, Ahead, Covers
<1>8. CASE Stop BY <1>8, <1>f DEF Stop
<1>9. CASE Crash BY <1>9, <1>f DEF Crash
<1>10. ASSUME NEW w \in detached, DetachedLands(w) PROVE Goal BY <1>10, <1>a
<1>11. ASSUME NEW n \in Names, OtherFile(n) PROVE Goal BY <1>11, <1>c DEF OtherFile
<1>12. CASE UNCHANGED vars BY <1>12, <1>c DEF vars
<1> QED BY <1>1, <1>2, <1>3, <1>4, <1>5, <1>6, <1>7, <1>8, <1>9, <1>10, <1>11, <1>12 DEF Next

\* If no handler is dropped, a journal that says complete or cancelled says so until forget
\* removes it, however many writes of save_json fail and wherever the process dies: only a
\* write that a dropped handler left behind, as in the run dropped_registration, can lose
\* an outcome.
THEOREM OutcomesKept == ASSUME MaxDrops = 0 PROVE Spec => ReceiptsAreKept
<1> DEFINE Kept == \A id \in Ids : Live(journal'[id]) => Covers(journal'[id], journal[id])
<1>1. Init => MemoryIsAhead BY DEF Init, MemoryIsAhead, Ahead
<1>2. Inv /\ FaultFree /\ MemoryIsAhead /\ [Next]_vars => MemoryIsAhead'
  BY AheadStep DEF FaultFree
<1>3. Inv /\ FaultFree /\ Ledger /\ MemoryIsAhead /\ [Next]_vars => [Kept]_vars
  <2> SUFFICES ASSUME Inv, FaultFree, Ledger, MemoryIsAhead, [Next]_vars, NEW i \in Ids,
                      Live(journal'[i])
               PROVE  Covers(journal'[i], journal[i])
    OBVIOUS
  <2>1. drops = 0 BY DEF Inv, TypeOK, Ledger, FaultsBounded
  <2>2. detached = {} /\ Ahead /\ BlankOrLive(mem[i])
    BY <2>1 DEF FaultFree, NoStrayWrites, MemoryIsAhead, RecordsAreBlankOrLive
  <2>3. JournalMoves(i) BY JournalStep DEF Inv
  <2>4. CASE journal'[i] = journal[i] BY <2>4 DEF Covers
  <2>5. CASE journal'[i] = mem[i] /\ pc[i] \in Persisting
    <3>1. up BY <2>5 DEF Inv, HandlersAreSound, Persisting
    <3> QED BY <2>2, <2>5, <3>1 DEF Ahead
  <2>6. CASE Registering /\ Live(reg.rec) /\ i = reg.id /\ journal'[i] = reg.rec
    <3>1. up /\ ~Live(mem[i]) BY <2>6 DEF Inv, HandlersAreSound
    <3>2. ~mem[i].complete /\ ~mem[i].cancelled
      BY <2>2, <3>1 DEF BlankOrLive, Live, NoRecord, Fresh
    <3> QED BY <2>2, <3>1, <3>2 DEF Ahead, Covers
  <2>7. journal'[i] # NoRecord BY DEF Live, NoRecord, Fresh
  <2> QED BY <2>2, <2>3, <2>4, <2>5, <2>6, <2>7 DEF JournalMoves
<1>4. [Kept]_vars => [\A id \in Ids : Live(journal'[id]) =>
                        /\ journal[id].complete  => journal'[id].complete
                        /\ journal[id].cancelled => journal'[id].cancelled]_vars
  BY DEF Covers
<1> QED BY <1>1, <1>2, <1>3, <1>4, FaultFreeInvariance, LedgerInvariance, PTL
        DEF Spec, ReceiptsAreKept

=============================================================================
