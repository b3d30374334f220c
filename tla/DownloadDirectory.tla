------------------------- MODULE DownloadDirectory -------------------------
(***************************************************************************)
(* Where received files go.  v1 uploads (chunk_upload_handler) and v2      *)
(* publications (durable::upload) share one download directory, in which   *)
(* the user puts files of his own: a target is made from what the sender   *)
(* announced (receive_target), its directories are created one by one      *)
(* (create_receive_parent), and up to 1,000 names are tried until one is   *)
(* free.  v1 writes under that name from the start and removes the file if *)
(* the upload fails; v2 links a verified part and accepts a name that      *)
(* holds the right content already.                                        *)
(*                                                                         *)
(* A name is a sequence: <<"a">>, and <<"a", 1>> for "a (1)".  A path is a *)
(* sequence of names below the download directory.  How a v2 part is       *)
(* received and journalled is in DurableStore; here it is verified, and    *)
(* its recorded target is not undone by a late journal write.              *)
(***************************************************************************)
EXTENDS Integers, Sequences, SequencesExt, FiniteSets

CONSTANTS
  V1, V2,       \* the files that are sent with each protocol
  Relative,     \* per file: the components of relative_path, <<>> if there is none
  Name,         \* per file: its name, a component too
  FileId,       \* per file: its ID, as a component
  Blocks,
  Data,         \* per file: its blocks
  Skipped,      \* components that sanitize_relative_path drops: "", ".", "..", "C:"
  Names,        \* what clean may return
  Clean,        \* per component: the name that clean makes of it, or NoName
  NoName, NoPath,
  Fallback,     \* the name "file"
  Reserved,     \* ".gosh-transfer" in all its spellings
  MaxNames,     \* 1,000 candidates
  ForeignData,  \* what the user's own files hold
  MaxForeign,   \* bound on the user's own files
  MaxDrops,     \* bound on handlers that are dropped
  MaxMisreads   \* bound on existing targets that cannot be read

VARIABLES
  disk,      \* what is at each path
  up,        \* per file: its handler
  target,    \* v1: file_path of the handler; v2: r.targets and r.published
  finished,  \* the files whose sender was told so
  borrowed,  \* v2 files that were published as a file v1 was still writing
  left,      \* paths of the unfinished files of dropped handlers, and of own links that
             \* could not be read
  foreign, drops, misreads

vars == <<disk, up, target, finished, borrowed, left, foreign, drops, misreads>>

Files == V1 \cup V2

-----------------------------------------------------------------------------
(***************************************************************************)
(* Names and targets                                                       *)
(***************************************************************************)
sanitize_file_name(name, fallback) ==
  CASE Clean[name] # NoName     -> Clean[name]
    [] Clean[fallback] # NoName -> Clean[fallback]
    [] OTHER                    -> Fallback

\* Component by component: dropped, or cleaned by itself.
sanitize_relative_path(path) ==
  LET result[n \in 0 .. Len(path)] ==
        IF n = 0 THEN <<>>
        ELSE IF path[n] \in Skipped THEN result[n - 1]
        ELSE Append(result[n - 1], IF Clean[path[n]] # NoName THEN Clean[path[n]] ELSE Fallback)
  IN  result[Len(path)]

\* The target as a path: a relative path of which something is left, else the name.
receive_target(f) ==
  LET sanitized == sanitize_relative_path(Relative[f])
  IN  IF sanitized # <<>> THEN sanitized ELSE <<sanitize_file_name(Name[f], FileId[f])>>

reserved_target(f) == receive_target(f)[1] \in Reserved

Parent(f) == Front(receive_target(f))

Candidate(name, i) == IF i = 0 THEN name ELSE Append(name, i)

CandidatePath(f, i) == Append(Parent(f), Candidate(Last(receive_target(f)), i))

Above(path) == {SubSeq(path, 1, k) : k \in 1 .. Len(path) - 1}

Paths == UNION {Above(receive_target(f)) \cup {CandidatePath(f, i) : i \in 0 .. MaxNames - 1} :
                f \in Files}

User == "user"

ASSUME DownloadAssumption ==
  /\ V1 \cap V2 = {}
  /\ User \notin Files
  /\ NoPath \notin Paths
  /\ MaxNames \in Nat \ {0} /\ MaxForeign \in Nat
  /\ MaxDrops \in Nat /\ MaxMisreads \in Nat
  /\ \A f \in Files : Data[f] \in Seq(Blocks)
  /\ ForeignData \subseteq Seq(Blocks)

\* What is not dropped can be cleaned; ".gosh-transfer" does not look like a later candidate.
ASSUME TargetAssumption ==
  /\ Fallback \in Names
  /\ \A c \in DOMAIN Clean : Clean[c] \in Names \cup {NoName}
  /\ \A f \in Files : /\ Relative[f] \in Seq(DOMAIN Clean \cup Skipped)
                      /\ Name[f] \in DOMAIN Clean /\ FileId[f] \in DOMAIN Clean
  /\ \A n \in Names : \A i \in 1 .. MaxNames - 1 : Append(n, i) \notin Reserved

-----------------------------------------------------------------------------
Nothing == [kind |-> "nothing", own |-> User, data |-> <<>>]
Dir     == [kind |-> "dir",     own |-> User, data |-> <<>>]
Symlink == [kind |-> "symlink", own |-> User, data |-> <<>>]
FileOf(f, data) == [kind |-> "file", own |-> f, data |-> data]

Idle == [pc |-> "idle", depth |-> 0, i |-> 0]

TypeOK ==
  /\ disk \in [Paths -> [kind : {"nothing", "dir", "symlink", "file"}, own : Files \cup {User},
                        data : Seq(Blocks)]]
  /\ up \in [Files -> [pc : {"idle", "mkdir", "try", "link", "compare", "body", "linked"},
                       depth : Nat, i : 0 .. MaxNames - 1]]
  /\ target \in [Files -> Paths \cup {NoPath}]
  /\ finished \subseteq Files /\ borrowed \subseteq V2
  /\ left \subseteq Paths
  /\ foreign \in 0 .. MaxForeign /\ drops \in 0 .. MaxDrops
  /\ misreads \in 0 .. MaxMisreads

Init ==
  /\ disk = [p \in Paths |-> Nothing]
  /\ up = [f \in Files |-> Idle]
  /\ target = [f \in Files |-> NoPath]
  /\ finished = {} /\ borrowed = {} /\ left = {}
  /\ foreign = 0 /\ drops = 0 /\ misreads = 0

Goto(f, label) == up' = [up EXCEPT ![f].pc = label]

\* The handler returns.
Ends(f) == up' = [up EXCEPT ![f] = Idle]

\* An upload, or the retry of one, of a file that is not finished; a reserved target
\* is refused.
Begin(f) ==
  /\ up[f].pc = "idle"
  /\ f \notin finished
  /\ ~reserved_target(f)
  /\ up' = [up EXCEPT ![f] = [pc |-> "mkdir", depth |-> 1, i |-> 0]]
  /\ UNCHANGED <<disk, target, finished, borrowed, left, foreign, drops, misreads>>

\* Mutant: whatever exists is taken for a directory.
create_receive_parent_Trusting(f) ==
  LET path == SubSeq(receive_target(f), 1, up[f].depth)
  IN  /\ up[f].pc = "mkdir"
      /\ IF up[f].depth = Len(receive_target(f))
         THEN Goto(f, "try") /\ UNCHANGED disk
         ELSE /\ disk' = IF disk[path] = Nothing THEN [disk EXCEPT ![path] = Dir] ELSE disk
              /\ up' = [up EXCEPT ![f].depth = @ + 1]
      /\ UNCHANGED <<target, finished, borrowed, left, foreign, drops, misreads>>

\* The next directory is created or found; anything else in its place is an error.
create_receive_parent(f) ==
  LET path == SubSeq(receive_target(f), 1, up[f].depth)
  IN  /\ up[f].pc = "mkdir"
      /\ IF up[f].depth = Len(receive_target(f))
         THEN Goto(f, "try") /\ UNCHANGED disk
         ELSE /\ disk' = IF disk[path] = Nothing THEN [disk EXCEPT ![path] = Dir] ELSE disk
              /\ IF disk'[path] = Dir
                 THEN up' = [up EXCEPT ![f].depth = @ + 1]
                 ELSE Ends(f)
      /\ UNCHANGED <<target, finished, borrowed, left, foreign, drops, misreads>>

\* The name is taken: the next one, or "Too many filename conflicts".
NextName(f) ==
  IF up[f].i + 1 = MaxNames
  THEN Ends(f)
  ELSE up' = [up EXCEPT ![f].pc = "try", ![f].i = @ + 1]

-----------------------------------------------------------------------------
(***************************************************************************)
(* v1: chunk_upload_handler from open_unique_file on                       *)
(***************************************************************************)
\* Mutant: the file is opened without create_new.
open_unique_file_Truncates(f) ==
  LET path == CandidatePath(f, up[f].i)
  IN  /\ f \in V1
      /\ up[f].pc = "try"
      /\ IF disk[path].kind \in {"nothing", "file"}
         THEN /\ disk' = [disk EXCEPT ![path] = FileOf(f, <<>>)]
              /\ target' = [target EXCEPT ![f] = path]
              /\ Goto(f, "body")
         ELSE NextName(f) /\ UNCHANGED <<disk, target>>
      /\ UNCHANGED <<finished, borrowed, left, foreign, drops, misreads>>

\* create_new: the file is created here, or the name is taken.
open_unique_file(f) ==
  LET path == CandidatePath(f, up[f].i)
  IN  /\ f \in V1
      /\ up[f].pc = "try"
      /\ IF disk[path] = Nothing
         THEN /\ disk' = [disk EXCEPT ![path] = FileOf(f, <<>>)]
              /\ target' = [target EXCEPT ![f] = path]
              /\ Goto(f, "body")
         ELSE NextName(f) /\ UNCHANGED <<disk, target>>
      /\ UNCHANGED <<finished, borrowed, left, foreign, drops, misreads>>

Write(f) ==
  /\ f \in V1
  /\ up[f].pc = "body"
  /\ LET got == Len(disk[target[f]].data)
     IN  /\ got < Len(Data[f])
         /\ disk' = [disk EXCEPT ![target[f]].data = Append(@, Data[f][got + 1])]
  /\ UNCHANGED <<up, target, finished, borrowed, left, foreign, drops, misreads>>

\* A body that ends, stalls or breaks too soon, is too long or cannot be written, and
\* a transfer that was cancelled: remove_file.
Rollback(f) ==
  /\ f \in V1
  /\ up[f].pc = "body"
  /\ disk' = [disk EXCEPT ![target[f]] = Nothing]
  /\ target' = [target EXCEPT ![f] = NoPath]
  /\ Ends(f)
  /\ UNCHANGED <<finished, borrowed, left, foreign, drops, misreads>>

\* The file has its size and gets its receipt.
Commit(f) ==
  /\ f \in V1
  /\ up[f].pc = "body"
  /\ Len(disk[target[f]].data) = Len(Data[f])
  /\ finished' = finished \cup {f}
  /\ Ends(f)
  /\ UNCHANGED <<disk, target, borrowed, left, foreign, drops, misreads>>

-----------------------------------------------------------------------------
(***************************************************************************)
(* v2: durable::upload from the verified part on                           *)
(***************************************************************************)
\* Mutant: a retry forgets the target of the attempt before.
PickTarget_Fresh(f) ==
  /\ f \in V2
  /\ up[f].pc = "try"
  /\ target' = [target EXCEPT ![f] = CandidatePath(f, up[f].i)]
  /\ Goto(f, "link")
  /\ UNCHANGED <<disk, finished, borrowed, left, foreign, drops, misreads>>

\* The target that was recorded before, else the next candidate, is recorded.
PickTarget(f) ==
  /\ f \in V2
  /\ up[f].pc = "try"
  /\ target' = [target EXCEPT ![f] = IF @ # NoPath THEN @ ELSE CandidatePath(f, up[f].i)]
  /\ Goto(f, "link")
  /\ UNCHANGED <<disk, finished, borrowed, left, foreign, drops, misreads>>

\* hard_link never replaces.
Link(f) ==
  /\ up[f].pc = "link"
  /\ IF disk[target[f]] = Nothing
     THEN disk' = [disk EXCEPT ![target[f]] = FileOf(f, Data[f])] /\ Goto(f, "linked")
     ELSE UNCHANGED disk /\ Goto(f, "compare")
  /\ UNCHANGED <<target, finished, borrowed, left, foreign, drops, misreads>>

\* A v1 handler has the file open.
Written(p) == \E g \in V1 : up[g].pc = "body" /\ target[g] = p

\* Mutant: the size decides.
Matches_BySize(f, entry) == entry.kind = "file" /\ Len(entry.data) = Len(Data[f])

\* A regular file with the digest and size of f.
Matches(f, entry) == entry.kind = "file" /\ entry.data = Data[f]

\* What is found there is taken for the published file, or the target is forgotten and
\* the next name is tried - also if what is there, the upload's own link perhaps,
\* cannot be read.
Compare(f) ==
  LET e == disk[target[f]]
  IN  /\ up[f].pc = "compare"
      /\ \/ /\ Matches(f, e)
            /\ borrowed' = IF Written(target[f]) THEN borrowed \cup {f} ELSE borrowed
            /\ Goto(f, "linked")
            /\ UNCHANGED <<target, left, misreads>>
         \/ /\ \/ ~Matches(f, e) /\ UNCHANGED <<left, misreads>>
               \/ /\ misreads < MaxMisreads /\ misreads' = misreads + 1
                  /\ left' = IF e.own = f THEN left \cup {target[f]} ELSE left
            /\ target' = [target EXCEPT ![f] = NoPath]
            /\ NextName(f)
            /\ UNCHANGED borrowed
      /\ UNCHANGED <<disk, finished, foreign, drops>>

\* r.published, after the directory is synced.
Publish(f) ==
  /\ up[f].pc = "linked"
  /\ finished' = finished \cup {f}
  /\ Ends(f)
  /\ UNCHANGED <<disk, target, borrowed, left, foreign, drops, misreads>>

-----------------------------------------------------------------------------
\* A handler is dropped, or an I/O error ends that of a v2 file: v1 leaves its
\* unfinished file, v2 its part and the recorded target.
Drop(f) ==
  /\ up[f].pc # "idle"
  /\ drops < MaxDrops
  /\ drops' = drops + 1
  /\ Ends(f)
  /\ IF f \in V1 /\ target[f] # NoPath
     THEN left' = left \cup {target[f]} /\ target' = [target EXCEPT ![f] = NoPath]
     ELSE UNCHANGED <<left, target>>
  /\ UNCHANGED <<disk, finished, borrowed, foreign, misreads>>

\* The user or another program creates a file or a symbolic link.
UserFile(p) ==
  /\ foreign < MaxForeign
  /\ foreign' = foreign + 1
  /\ disk[p] = Nothing
  /\ \A q \in Above(p) : disk[q] = Dir
  /\ \E e \in {Symlink} \cup {FileOf(User, data) : data \in ForeignData} :
       disk' = [disk EXCEPT ![p] = e]
  /\ UNCHANGED <<up, target, finished, borrowed, left, drops, misreads>>

Step(f) ==
  \/ create_receive_parent(f)
  \/ open_unique_file(f) \/ Write(f) \/ Commit(f)
  \/ PickTarget(f) \/ Link(f) \/ Compare(f) \/ Publish(f)

Next ==
  \/ \E f \in Files : Begin(f) \/ Step(f) \/ Rollback(f) \/ Drop(f)
  \/ \E p \in Paths : UserFile(p)

Spec == Init /\ [][Next]_vars

-----------------------------------------------------------------------------
(***************************************************************************)
(* Properties                                                              *)
(***************************************************************************)
\* Whatever a sender announces, files and directories appear below the download
\* directory through real directories only, never behind a symbolic link (the check
\* in create_receive_parent), and never in the state directory (reserved_target).
Confined ==
  \A p \in Paths : disk[p] = Dir \/ disk[p].own # User
    => /\ p[1] \notin Reserved
       /\ \A q \in Above(p) : disk[q] = Dir

\* "Existing destinations are never overwritten": only the v1 upload that created a
\* file changes or removes it, and only before it is finished.
FilesAreKept ==
  [][\A p \in Paths : disk[p] # Nothing /\ disk'[p] # disk[p]
       => \E g \in V1 : g \notin finished /\ up[g].pc = "body" /\ target[g] = p /\ disk[p].own = g]_vars

\* A file whose sender was told that it is received is where it was put, complete; a
\* v1 file is its own, a v2 file may be one with the same content - unless it was a
\* file that a v1 upload was still writing.
FinishedIsIntact ==
  \A f \in finished \ borrowed :
    LET e == disk[target[f]]
    IN  e.kind = "file" /\ e.data = Data[f] /\ (f \in V1 => e.own = f)

\* Attempts that fail and are repeated leave nothing behind: a file the receiver has
\* created is the one its upload writes, has linked or has finished - or that of a
\* dropped v1 handler, or a link that durable::upload could not read when it found it
\* again.  So a v2 file is there twice only if such a read failed.
NothingLeftOver ==
  \A p \in Paths : disk[p].kind = "file" /\ disk[p].own # User
    => target[disk[p].own] = p \/ p \in left

-----------------------------------------------------------------------------
(***************************************************************************)
(* What makes the properties inductive                                     *)
(***************************************************************************)
\* What a handler has in hand: v1 a file of its own from open_unique_file on, v2 a
\* recorded target; between two attempts v1 has nothing.
Handlers ==
  \A f \in Files :
    /\ up[f].pc # "idle" => f \notin finished
    /\ up[f].pc = "body" => /\ f \in V1 /\ target[f] \in Paths
                            /\ disk[target[f]].kind = "file" /\ disk[target[f]].own = f
    /\ up[f].pc \in {"link", "compare", "linked"} => f \in V2 /\ target[f] \in Paths
    /\ f \in V1 /\ up[f].pc # "body" /\ f \notin finished => target[f] = NoPath
    /\ f \in finished => target[f] \in Paths

\* The receiver's files hold the beginning of what was sent, those of v2 all of it.
Contents ==
  \A p \in Paths : disk[p].kind = "file" /\ disk[p].own # User =>
    /\ Len(disk[p].data) <= Len(Data[disk[p].own])
    /\ \A i \in 1 .. Len(disk[p].data) : disk[p].data[i] = Data[disk[p].own][i]
    /\ disk[p].own \in V2 => disk[p].data = Data[disk[p].own]

\* FinishedIsIntact, from the comparison or the link on; nobody writes there.
Settled ==
  \A f \in Files \ borrowed : f \in finished \/ up[f].pc = "linked" =>
    /\ disk[target[f]].kind = "file" /\ disk[target[f]].data = Data[f]
    /\ f \in V1 => disk[target[f]].own = f
    /\ ~Written(target[f])

\* create_receive_parent has made sure of the directories above a target.
Opened ==
  \A f \in Files :
    /\ up[f].pc # "idle" => ~reserved_target(f)
    /\ up[f].pc = "mkdir" => /\ up[f].depth \in 1 .. Len(receive_target(f))
                             /\ \A k \in 1 .. up[f].depth - 1 : disk[SubSeq(receive_target(f), 1, k)] = Dir
    /\ up[f].pc \notin {"idle", "mkdir"} => \A q \in Above(receive_target(f)) : disk[q] = Dir
    /\ target[f] # NoPath => \E i \in 0 .. MaxNames - 1 : target[f] = CandidatePath(f, i)

Inv == TypeOK /\ Handlers /\ Contents /\ Settled /\ NothingLeftOver /\ Opened /\ Confined

=============================================================================
