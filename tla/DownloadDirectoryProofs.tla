---------------------- MODULE DownloadDirectoryProofs ----------------------
(***************************************************************************)
(* Proofs about DownloadDirectory, for any files, names and contents.      *)
(***************************************************************************)
EXTENDS DownloadDirectory, SequenceTheorems, WellFoundedInduction, TLAPS

-----------------------------------------------------------------------------
(***************************************************************************)
(* Targets                                                                 *)
(***************************************************************************)
\* A set of naturals has a least element: induction, as an argument about the least
\* counterexample.
LEMMA LeastElement ==
  ASSUME NEW T \in SUBSET Nat, T # {}
  PROVE  \E n \in T : \A m \in T : n <= m
<1> DEFINE Less == {ss \in Nat \X Nat : ss[1] < ss[2]}
<1>1. IsWellFoundedOn(Less, Nat) BY NatLessThanWellFounded, Zenon DEF OpToRel
<1> HIDE DEF Less
<1>2. PICK n \in T : \A m \in T : ~(<<m, n>> \in Less) BY <1>1, WFMin
<1>3. ASSUME NEW m \in T PROVE n <= m
  <2>1. ASSUME NEW a \in Nat, NEW b \in Nat, a < b PROVE <<a, b>> \in Less BY <2>1 DEF Less
  <2>2. m \in Nat /\ n \in Nat OBVIOUS
  <2>3. ~(<<m, n>> \in Less) BY <1>2, Zenon
  <2>4. ~(m < n) BY <2>1, <2>2, <2>3, Zenon
  <2> QED BY <2>2, <2>4
<1> QED BY <1>2, <1>3

Component(c) == IF Clean[c] # NoName THEN Clean[c] ELSE Fallback

\* g[i] is what the loop has made of the first i components, for i up to n.
IsResult(path, n, g) ==
  g = [i \in 0 .. n |-> IF i = 0 THEN <<>>
                        ELSE IF path[i] \in Skipped THEN g[i - 1]
                        ELSE Append(g[i - 1], Component(path[i]))]

LEMMA ComponentIsName ==
  ASSUME NEW c \in DOMAIN Clean \cup Skipped, c \notin Skipped
  PROVE  Component(c) \in Names
  BY TargetAssumption DEF Component

\* The loop has a result: the one for n - 1 components is continued by one.
LEMMA ResultExists ==
  ASSUME NEW path \in Seq(DOMAIN Clean \cup Skipped)
  PROVE  \A n \in 0 .. Len(path) : \E g \in [0 .. n -> Seq(Names)] : IsResult(path, n, g)
<1> DEFINE Bad == {n \in 0 .. Len(path) : ~ \E g \in [0 .. n -> Seq(Names)] : IsResult(path, n, g)}
<1>1. SUFFICES ASSUME Bad # {} PROVE FALSE OBVIOUS
<1>0. Len(path) \in Nat OBVIOUS
<1>2. Bad \in SUBSET Nat BY <1>0
<1>3. PICK n \in Bad : \A m \in Bad : n <= m BY <1>1, <1>2, LeastElement
<1>4. n \in 0 .. Len(path) BY <1>3
<1>5. n # 0
  <2> DEFINE g == [i \in 0 .. 0 |-> <<>>]
  <2>1. g \in [0 .. 0 -> Seq(Names)] BY EmptySeq
  <2>2. IsResult(path, 0, g) BY DEF IsResult
  <2> QED BY <1>3, <2>1, <2>2
<1>6. n - 1 \in 0 .. Len(path) /\ n - 1 \notin Bad
  <2> HIDE DEF Bad
  <2> QED BY <1>0, <1>2, <1>3, <1>4, <1>5
<1>7. PICK g \in [0 .. n - 1 -> Seq(Names)] : IsResult(path, n - 1, g) BY <1>6
<1> DEFINE e == IF path[n] \in Skipped THEN g[n - 1] ELSE Append(g[n - 1], Component(path[n]))
           h == [i \in 0 .. n |-> IF i = n THEN e ELSE g[i]]
<1>8. e \in Seq(Names)
  <2>1. g[n - 1] \in Seq(Names) BY <1>0, <1>4, <1>5, <1>7
  <2>2. path[n] \in DOMAIN Clean \cup Skipped BY <1>0, <1>4, <1>5
  <2>3. path[n] \notin Skipped => Component(path[n]) \in Names BY <2>2, ComponentIsName
  <2> QED BY <2>1, <2>3, AppendProperties
<1>9. h \in [0 .. n -> Seq(Names)]
  <2> HIDE DEF e
  <2> QED BY <1>0, <1>4, <1>5, <1>7, <1>8
<1>10. ASSUME NEW i \in 0 .. n
       PROVE  h[i] = IF i = 0 THEN <<>> ELSE IF path[i] \in Skipped THEN h[i - 1]
                     ELSE Append(h[i - 1], Component(path[i]))
  <2>1. CASE i = n
    <3>1. n - 1 \in 0 .. n /\ n - 1 # n BY <1>0, <1>4, <1>5
    <3>2. h[n - 1] = g[n - 1] /\ h[n] = e BY <3>1
    <3> QED BY <1>5, <2>1, <3>2
  <2>2. CASE i # n
    <3>1. i \in 0 .. n - 1 BY <1>0, <1>4, <2>2
    <3>2. h[i] = g[i] BY <2>2
    <3>3. i # 0 => i - 1 \in 0 .. n /\ i - 1 # n BY <1>0, <1>4, <3>1
    <3>4. i # 0 => h[i - 1] = g[i - 1] BY <3>3
    <3>5. g[i] = IF i = 0 THEN <<>> ELSE IF path[i] \in Skipped THEN g[i - 1]
                 ELSE Append(g[i - 1], Component(path[i]))
      BY <1>7, <3>1 DEF IsResult
    <3> QED BY <3>2, <3>4, <3>5
  <2> QED BY <2>1, <2>2
<1>11. IsResult(path, n, h)
  <2> DEFINE k == [i \in 0 .. n |-> IF i = 0 THEN <<>> ELSE IF path[i] \in Skipped THEN h[i - 1]
                                    ELSE Append(h[i - 1], Component(path[i]))]
  <2>1. h = [i \in 0 .. n |-> h[i]] OBVIOUS
  <2> HIDE DEF h
  <2>2. h = k BY <1>10, <2>1
  <2> QED BY <2>2 DEF IsResult
<1> QED BY <1>3, <1>9, <1>11

\* Whatever path was announced, clean names are left of it.
LEMMA SanitizedIsClean ==
  ASSUME NEW path \in Seq(DOMAIN Clean \cup Skipped)
  PROVE  sanitize_relative_path(path) \in Seq(Names)
<1> DEFINE r == CHOOSE g : IsResult(path, Len(path), g)
<1>0. Len(path) \in Nat OBVIOUS
<1>1. sanitize_relative_path(path) = r[Len(path)]
  BY Zenon DEF sanitize_relative_path, IsResult, Component
<1>2. \E g : IsResult(path, Len(path), g) BY <1>0, ResultExists
<1>3. IsResult(path, Len(path), r) BY <1>2
<1> HIDE DEF r
<1> DEFINE Bad == {n \in 0 .. Len(path) : r[n] \notin Seq(Names)}
<1>4. SUFFICES ASSUME Bad # {} PROVE FALSE BY <1>0, <1>1
<1>5. Bad \in SUBSET Nat BY <1>0
<1>6. PICK n \in Bad : \A m \in Bad : n <= m
  <2> HIDE DEF Bad
  <2> QED BY <1>4, <1>5, LeastElement
<1>7. r[n] = IF n = 0 THEN <<>> ELSE IF path[n] \in Skipped THEN r[n - 1]
             ELSE Append(r[n - 1], Component(path[n]))
  BY <1>3, <1>6 DEF IsResult
<1>8. n # 0 BY <1>6, <1>7, EmptySeq
<1>9. r[n - 1] \in Seq(Names) /\ path[n] \in DOMAIN Clean \cup Skipped
  <2>1. n - 1 \in 0 .. Len(path) /\ n \in 1 .. Len(path) /\ ~(n <= n - 1) BY <1>0, <1>6, <1>8
  <2> QED BY <1>6, <2>1
<1>10. path[n] \notin Skipped => Component(path[n]) \in Names BY <1>9, ComponentIsName
<1>11. r[n] \notin Seq(Names) BY <1>6
<1> QED BY <1>7, <1>8, <1>9, <1>10, <1>11, AppendProperties

\* receive_target yields a path of clean names, at least one, for every relative path and
\* name a sender may announce: a path that sanitizes to nothing is replaced by the name.
THEOREM TargetsAreClean == \A f \in Files : receive_target(f) \in Seq(Names) \ {<<>>}
<1> SUFFICES ASSUME NEW f \in Files PROVE receive_target(f) \in Seq(Names) \ {<<>>} OBVIOUS
<1>1. sanitize_relative_path(Relative[f]) \in Seq(Names) BY TargetAssumption, SanitizedIsClean
<1>2. sanitize_file_name(Name[f], FileId[f]) \in Names
  BY TargetAssumption, Zenon DEF sanitize_file_name
<1>3. ASSUME NEW n \in Names PROVE <<n>> \in Seq(Names) /\ <<n>> # <<>> OBVIOUS
<1> QED BY <1>1, <1>2, <1>3 DEF receive_target

-----------------------------------------------------------------------------
(***************************************************************************)
(* Paths                                                                   *)
(***************************************************************************)
\* A target has a first component, and its length is a number.
LEMMA TargetLength ==
  ASSUME NEW f \in Files
  PROVE  Len(receive_target(f)) \in Nat \ {0} /\ receive_target(f) \in Seq(Names)
BY TargetsAreClean, EmptySeq

\* Every candidate is a path.
LEMMA CandidateIsPath ==
  ASSUME NEW f \in Files, NEW i \in 0 .. MaxNames - 1
  PROVE  CandidatePath(f, i) \in Paths
BY DEF Paths

\* So is every directory above a target.
LEMMA PrefixIsPath ==
  ASSUME NEW f \in Files, NEW k \in 1 .. Len(receive_target(f)) - 1
  PROVE  SubSeq(receive_target(f), 1, k) \in Paths /\ SubSeq(receive_target(f), 1, k) \in Above(receive_target(f))
BY DEF Paths, Above

\* A prefix of a prefix, and the first component of one.
LEMMA PrefixOfPrefix ==
  ASSUME NEW f \in Files, NEW d \in 1 .. Len(receive_target(f)), NEW k \in 1 .. d
  PROVE  /\ SubSeq(SubSeq(receive_target(f), 1, d), 1, k) = SubSeq(receive_target(f), 1, k)
         /\ SubSeq(receive_target(f), 1, d)[1] = receive_target(f)[1]
         /\ Len(SubSeq(receive_target(f), 1, d)) = d
<1> DEFINE t == receive_target(f)
<1>1. t \in Seq(Names) /\ Len(t) \in Nat
  BY TargetLength
<1>2. /\ SubSeq(t, 1, d) \in Seq(Names) /\ Len(SubSeq(t, 1, d)) = d
      /\ \A j \in 1 .. d : SubSeq(t, 1, d)[j] = t[j]
  BY <1>1
<1>3. /\ SubSeq(t, 1, k) \in Seq(Names) /\ Len(SubSeq(t, 1, k)) = k
      /\ \A j \in 1 .. k : SubSeq(t, 1, k)[j] = t[j]
  BY <1>1
<1> DEFINE u == SubSeq(t, 1, d)
<1>4. /\ SubSeq(u, 1, k) \in Seq(Names) /\ Len(SubSeq(u, 1, k)) = k
      /\ \A j \in 1 .. k : SubSeq(u, 1, k)[j] = u[j]
  <2> HIDE DEF t, u
  <2>1. u \in Seq(Names) /\ Len(u) = d
    BY <1>2 DEF u
  <2> QED BY <2>1
<1>5. SubSeq(u, 1, k) = SubSeq(t, 1, k)
  <2>1. \A j \in 1 .. k : SubSeq(u, 1, k)[j] = SubSeq(t, 1, k)[j]
    BY <1>2, <1>3, <1>4
  <2> HIDE DEF t, u
  <2> QED BY <2>1, <1>3, <1>4, SeqEqual
<1> QED BY <1>2, <1>5

\* A candidate lies in the same directory as the target, and not in a reserved one.
LEMMA CandidateAbove ==
  ASSUME NEW f \in Files, NEW i \in 0 .. MaxNames - 1
  PROVE  /\ Above(CandidatePath(f, i)) = Above(receive_target(f))
         /\ ~reserved_target(f) => CandidatePath(f, i)[1] \notin Reserved
<1> DEFINE t == receive_target(f)
           c == CandidatePath(f, i)
           Wide == Names \cup {Candidate(Last(t), i)}
<1>1. t \in Seq(Names) /\ Len(t) \in Nat \ {0} /\ t \in Seq(Wide)
  BY TargetLength, SeqMonotonic
<1>2. /\ Front(t) \in Seq(Wide) /\ Len(Front(t)) = Len(t) - 1
      /\ \A j \in 1 .. Len(t) - 1 : Front(t)[j] = t[j]
  <2> HIDE DEF t, Wide
  <2> DEFINE n == Len(t) - 1
  <2>1. n \in Nat /\ \A j \in 1 .. n : t[j] \in Wide
    BY <1>1
  <2>2. /\ SubSeq(t, 1, n) \in Seq(Wide)
        /\ Len(SubSeq(t, 1, n)) = IF 1 <= n THEN n - 1 + 1 ELSE 0
        /\ \A j \in 1 .. n - 1 + 1 : SubSeq(t, 1, n)[j] = t[1 + j - 1]
    <3> HIDE DEF n
    <3> QED BY <2>1, SubSeqProperties
  <2>3. Len(SubSeq(t, 1, n)) = n /\ \A j \in 1 .. n : SubSeq(t, 1, n)[j] = t[j]
    <3> HIDE DEF n
    <3>1. \A j \in 1 .. n : j \in 1 .. n - 1 + 1 /\ 1 + j - 1 = j
      BY <2>1
    <3> QED BY <2>1, <2>2, <3>1
  <2>4. Front(t) = SubSeq(t, 1, n)
    BY DEF Front
  <2> QED BY <2>2, <2>3, <2>4
<1>3. /\ c \in Seq(Wide) /\ Len(c) = Len(t)
      /\ \A j \in 1 .. Len(t) - 1 : c[j] = t[j]
      /\ c[Len(t)] = Candidate(Last(t), i)
  <2> DEFINE fr == Front(t)
             la == Candidate(Last(t), i)
  <2>1. c = Append(fr, la)
    BY DEF CandidatePath, Parent
  <2>2. fr \in Seq(Wide) /\ la \in Wide /\ Len(fr) = Len(t) - 1
    BY <1>2
  <2>3. Append(fr, la) \in Seq(Wide) /\ Len(Append(fr, la)) = Len(fr) + 1
        /\ (\A j \in 1 .. Len(fr) : Append(fr, la)[j] = fr[j]) /\ Append(fr, la)[Len(fr) + 1] = la
    <3> HIDE DEF fr, la, Wide
    <3> QED BY <2>2, AppendProperties
  <2> HIDE DEF c, fr, t, Wide
  <2> QED BY <2>1, <2>2, <2>3, <1>1, <1>2 DEF fr
<1>4. ASSUME NEW k \in 1 .. Len(t) - 1
      PROVE  SubSeq(c, 1, k) = SubSeq(t, 1, k)
  <2> HIDE DEF c, t, Wide
  <2>1. /\ SubSeq(t, 1, k) \in Seq(Wide) /\ Len(SubSeq(t, 1, k)) = k
        /\ \A j \in 1 .. k : SubSeq(t, 1, k)[j] = t[j]
    BY <1>1
  <2>2. /\ SubSeq(c, 1, k) \in Seq(Wide) /\ Len(SubSeq(c, 1, k)) = k
        /\ \A j \in 1 .. k : SubSeq(c, 1, k)[j] = c[j]
    BY <1>1, <1>3
  <2>3. \A j \in 1 .. k : SubSeq(c, 1, k)[j] = SubSeq(t, 1, k)[j]
    BY <2>1, <2>2, <1>1, <1>3
  <2> QED BY <2>1, <2>2, <2>3, SeqEqual
<1>5. Above(c) = Above(t)
  BY <1>3, <1>4 DEF Above
<1>6. ASSUME t[1] \notin Reserved
      PROVE  c[1] \notin Reserved
  <2>1. CASE Len(t) = 1
    <3>1. c[1] = Candidate(t[1], i)
      BY <2>1, <1>3 DEF Last
    <3>2. t[1] \in Names
      BY <1>1, <2>1
    <3> QED BY <3>1, <3>2, <1>6, TargetAssumption, DownloadAssumption DEF Candidate
  <2>2. CASE Len(t) # 1
    BY <2>2, <1>1, <1>3, <1>6
  <2> QED BY <2>1, <2>2
<1> QED BY <1>5, <1>6 DEF reserved_target

\* What is above a path is a path.
LEMMA PathsClosed ==
  ASSUME NEW q \in Paths, NEW r \in Above(q)
  PROVE  r \in Paths
<1>1. PICK f \in Files : q \in Above(receive_target(f)) \cup {CandidatePath(f, i) : i \in 0 .. MaxNames - 1}
  BY DEF Paths
<1>2. CASE q \in Above(receive_target(f))
  <2>1. PICK d \in 1 .. Len(receive_target(f)) - 1 : q = SubSeq(receive_target(f), 1, d)
    BY <1>2 DEF Above
  <2>2. Len(receive_target(f)) \in Nat
    BY TargetLength
  <2>3. d \in 1 .. Len(receive_target(f)) /\ Len(q) = d
    BY <2>1, <2>2, PrefixOfPrefix
  <2>4. PICK k \in 1 .. d - 1 : r = SubSeq(q, 1, k)
    BY <2>3 DEF Above
  <2>5. k \in 1 .. d /\ k \in 1 .. Len(receive_target(f)) - 1
    BY <2>2, <2>3
  <2>6. r = SubSeq(receive_target(f), 1, k)
    BY <2>1, <2>3, <2>4, <2>5, PrefixOfPrefix
  <2> QED BY <2>5, <2>6, PrefixIsPath
<1>3. CASE q \in {CandidatePath(f, i) : i \in 0 .. MaxNames - 1}
  BY <1>3, CandidateAbove DEF Paths
<1> QED BY <1>1, <1>2, <1>3

-----------------------------------------------------------------------------
(***************************************************************************)
(* Types                                                                   *)
(***************************************************************************)
Entries == [kind : {"nothing", "dir", "symlink", "file"}, own : Files \cup {User}, data : Seq(Blocks)]
Uploads == [pc : {"idle", "mkdir", "try", "link", "compare", "body", "linked"},
            depth : Nat, i : 0 .. MaxNames - 1]

\* Entries of every kind have their type.
LEMMA EntryTypes ==
  /\ Nothing \in Entries /\ Dir \in Entries /\ Symlink \in Entries
  /\ \A f \in Files \cup {User} : \A d \in Seq(Blocks) : FileOf(f, d) \in Entries
BY EmptySeq DEF Nothing, Dir, Symlink, FileOf, Entries

\* The handler of a step has its type after it.
LEMMA HandlerTypes ==
  ASSUME up \in [Files -> Uploads], NEW f \in Files
  PROVE  /\ up[f].i \in 0 .. MaxNames - 1
         /\ Ends(f) => up' \in [Files -> Uploads]
         /\ NextName(f) => up' \in [Files -> Uploads]
         /\ Goto(f, "try") \/ Goto(f, "link") \/ Goto(f, "compare") \/ Goto(f, "body") \/ Goto(f, "linked")
              => up' \in [Files -> Uploads]
<1>1. MaxNames \in Nat \ {0}
  BY DownloadAssumption
<1>2. up[f] \in Uploads /\ up[f].i \in 0 .. MaxNames - 1
  BY DEF Uploads
<1>3. Ends(f) => up' \in [Files -> Uploads]
  BY <1>1 DEF Ends, Idle, Uploads
<1>4. NextName(f) => up' \in [Files -> Uploads]
  <2>1. up[f].i + 1 # MaxNames => up[f].i + 1 \in 0 .. MaxNames - 1
    BY <1>1, <1>2
  <2>2. up[f].i + 1 # MaxNames => [up[f] EXCEPT !.pc = "try", !.i = @ + 1] \in Uploads
    BY <1>2, <2>1 DEF Uploads
  <2> QED BY <1>3, <2>2 DEF NextName
<1>5. Goto(f, "try") \/ Goto(f, "link") \/ Goto(f, "compare") \/ Goto(f, "body") \/ Goto(f, "linked")
        => up' \in [Files -> Uploads]
  BY <1>2 DEF Goto, Uploads
<1> QED BY <1>2, <1>3, <1>4, <1>5

\* The type invariant in these terms.
LEMMA TypeParts ==
  TypeOK <=> /\ disk \in [Paths -> Entries]
             /\ up \in [Files -> Uploads]
             /\ target \in [Files -> Paths \cup {NoPath}]
             /\ finished \subseteq Files /\ borrowed \subseteq V2 /\ left \subseteq Paths
             /\ foreign \in 0 .. MaxForeign /\ drops \in 0 .. MaxDrops
             /\ misreads \in 0 .. MaxMisreads
BY DEF TypeOK, Entries, Uploads

\* Every action keeps the types.
LEMMA TypeStep ==
  ASSUME Inv, [Next]_vars
  PROVE  TypeOK'
<1> USE DEF Inv
<1>a. /\ disk \in [Paths -> Entries]
      /\ up \in [Files -> Uploads]
      /\ target \in [Files -> Paths \cup {NoPath}]
      /\ finished \subseteq Files /\ borrowed \subseteq V2 /\ left \subseteq Paths
      /\ foreign \in 0 .. MaxForeign /\ drops \in 0 .. MaxDrops
      /\ misreads \in 0 .. MaxMisreads
  BY TypeParts
<1>b. SUFFICES /\ (disk \in [Paths -> Entries])'
               /\ (up \in [Files -> Uploads])'
               /\ (target \in [Files -> Paths \cup {NoPath}])'
               /\ (finished \subseteq Files)' /\ (borrowed \subseteq V2)' /\ (left \subseteq Paths)'
               /\ (foreign \in 0 .. MaxForeign)' /\ (drops \in 0 .. MaxDrops)'
               /\ (misreads \in 0 .. MaxMisreads)'
  BY TypeParts, PTL
<1> DEFINE Goal == /\ (disk \in [Paths -> Entries])'
                    /\ (up \in [Files -> Uploads])'
                    /\ (target \in [Files -> Paths \cup {NoPath}])'
                    /\ (finished \subseteq Files)' /\ (borrowed \subseteq V2)' /\ (left \subseteq Paths)'
                    /\ (foreign \in 0 .. MaxForeign)' /\ (drops \in 0 .. MaxDrops)'
                    /\ (misreads \in 0 .. MaxMisreads)'
<1>1. ASSUME NEW f \in Files, Begin(f)
      PROVE  Goal
  BY <1>1, <1>a, DownloadAssumption DEF Begin, Uploads
<1>2. ASSUME NEW f \in Files, create_receive_parent(f)
      PROVE  Goal
  <2>1. disk' \in [Paths -> Entries]
    BY <1>2, <1>a, EntryTypes DEF create_receive_parent
  <2>2. up' \in [Files -> Uploads]
    <3>1. Goto(f, "try") \/ Ends(f) \/ up' = [up EXCEPT ![f].depth = @ + 1]
      BY <1>2 DEF create_receive_parent
    <3>2. CASE Goto(f, "try") \/ Ends(f) BY <3>2, <1>a, HandlerTypes
    <3>3. CASE up' = [up EXCEPT ![f].depth = @ + 1] BY <3>3, <1>a DEF Uploads
    <3> QED BY <3>1, <3>2, <3>3
  <2> QED BY <1>2, <1>a, <2>1, <2>2 DEF create_receive_parent
<1>3. ASSUME NEW f \in Files, open_unique_file(f)
      PROVE  Goal
  <2>1. up[f].i \in 0 .. MaxNames - 1 /\ CandidatePath(f, up[f].i) \in Paths
    BY <1>a, HandlerTypes, CandidateIsPath
  <2>2. disk' \in [Paths -> Entries]
    <3>1. FileOf(f, <<>>) \in Entries
      BY EntryTypes, EmptySeq
    <3> QED BY <1>3, <1>a, <2>1, <3>1 DEF open_unique_file
  <2>3. up' \in [Files -> Uploads]
    BY <1>3, <1>a, HandlerTypes DEF open_unique_file
  <2> QED BY <1>3, <1>a, <2>1, <2>2, <2>3 DEF open_unique_file
<1>4. ASSUME NEW f \in Files, Write(f)
      PROVE  Goal
  <2>1. /\ f \in V1 /\ target[f] \in Paths /\ disk[target[f]] \in Entries
        /\ Len(disk[target[f]].data) < Len(Data[f])
    BY <1>4, <1>a DEF Write, Handlers
  <2>2. disk[target[f]].data \in Seq(Blocks) /\ Data[f] \in Seq(Blocks)
    BY <2>1, DownloadAssumption DEF Entries, Files
  <2>3. Len(disk[target[f]].data) + 1 \in 1 .. Len(Data[f])
    BY <2>1, <2>2, LenProperties
  <2>4. Append(disk[target[f]].data, Data[f][Len(disk[target[f]].data) + 1]) \in Seq(Blocks)
    BY <2>2, <2>3, AppendProperties, ElementOfSeq
  <2>5. disk' \in [Paths -> Entries]
    BY <1>4, <1>a, <2>1, <2>4 DEF Write, Entries
  <2> QED BY <1>4, <1>a, <2>5 DEF Write
<1>5. ASSUME NEW f \in Files, Rollback(f)
      PROVE  Goal
  <2>1. disk' \in [Paths -> Entries]
    BY <1>5, <1>a, EntryTypes DEF Rollback
  <2>2. up' \in [Files -> Uploads]
    BY <1>5, <1>a, HandlerTypes DEF Rollback
  <2> QED BY <1>5, <1>a, <2>1, <2>2 DEF Rollback
<1>6. ASSUME NEW f \in Files, Commit(f)
      PROVE  Goal
  BY <1>6, <1>a, HandlerTypes DEF Commit
<1>7. ASSUME NEW f \in Files, PickTarget(f)
      PROVE  Goal
  <2>1. up[f].i \in 0 .. MaxNames - 1 /\ CandidatePath(f, up[f].i) \in Paths
    BY <1>a, HandlerTypes, CandidateIsPath
  <2>2. up' \in [Files -> Uploads]
    BY <1>7, <1>a, HandlerTypes DEF PickTarget
  <2> QED BY <1>7, <1>a, <2>1, <2>2 DEF PickTarget
<1>8. ASSUME NEW f \in Files, Link(f)
      PROVE  Goal
  <2>1. disk' \in [Paths -> Entries]
    BY <1>8, <1>a, EntryTypes, DownloadAssumption DEF Link
  <2>2. up' \in [Files -> Uploads]
    BY <1>8, <1>a, HandlerTypes DEF Link
  <2> QED BY <1>8, <1>a, <2>1, <2>2 DEF Link
<1>9. ASSUME NEW f \in Files, Compare(f)
      PROVE  Goal
  <2>1. up' \in [Files -> Uploads]
    BY <1>9, <1>a, HandlerTypes DEF Compare
  <2>2. f \in V2 /\ target[f] \in Paths
    BY <1>9 DEF Compare, Handlers
  <2>3. misreads' \in 0 .. MaxMisreads
    BY <1>9, <1>a, DownloadAssumption DEF Compare
  <2> QED BY <1>9, <1>a, <2>1, <2>2, <2>3 DEF Compare
<1>10. ASSUME NEW f \in Files, Publish(f)
      PROVE  Goal
  BY <1>10, <1>a, HandlerTypes DEF Publish
<1>11. ASSUME NEW f \in Files, Drop(f)
      PROVE  Goal
  <2>1. up' \in [Files -> Uploads]
    BY <1>11, <1>a, HandlerTypes DEF Drop
  <2> QED BY <1>11, <1>a, <2>1, DownloadAssumption DEF Drop
<1>12. ASSUME NEW p \in Paths, UserFile(p)
      PROVE  Goal
  <2>1. disk' \in [Paths -> Entries]
    BY <1>12, <1>a, EntryTypes, DownloadAssumption DEF UserFile
  <2> QED BY <1>12, <1>a, <2>1, DownloadAssumption DEF UserFile
<1>13. CASE UNCHANGED vars
  BY <1>13, <1>a DEF vars
<1> QED
  BY <1>1, <1>2, <1>3, <1>4, <1>5, <1>6, <1>7, <1>8, <1>9, <1>10, <1>11, <1>12, <1>13 DEF Next, Step

-----------------------------------------------------------------------------
(***************************************************************************)
(* The steps                                                               *)
(***************************************************************************)
\* Where the handler of a step is afterwards; the others stay where they are.
LEMMA HandlerMoves ==
  ASSUME TypeOK, NEW f \in Files
  PROVE  /\ Ends(f) => up'[f].pc = "idle" /\ \A g \in Files \ {f} : up'[g] = up[g]
         /\ NextName(f) => up'[f].pc \in {"idle", "try"} /\ \A g \in Files \ {f} : up'[g] = up[g]
         /\ \A l : Goto(f, l) => up'[f].pc = l /\ \A g \in Files \ {f} : up'[g] = up[g]
<1>1. up \in [Files -> Uploads]
  BY TypeParts
<1>2. up[f] \in Uploads
  BY <1>1
<1>3. Ends(f) => up'[f].pc = "idle" /\ \A g \in Files \ {f} : up'[g] = up[g]
  BY <1>1 DEF Ends, Idle
<1>4. \A l : Goto(f, l) => up'[f].pc = l /\ \A g \in Files \ {f} : up'[g] = up[g]
  BY <1>1, <1>2 DEF Goto, Uploads
<1>5. NextName(f) => up'[f].pc \in {"idle", "try"} /\ \A g \in Files \ {f} : up'[g] = up[g]
  BY <1>1, <1>2, <1>3 DEF NextName, Uploads
<1> QED BY <1>3, <1>4, <1>5

\* The handler of a step has returned or goes on to one of these points.
LEMMA UpStep ==
  ASSUME Inv, NEW f \in Files, Begin(f) \/ Step(f) \/ Rollback(f) \/ Drop(f)
  PROVE  \A g \in Files \ {f} : up'[g] = up[g]
BY HandlerMoves, TypeParts DEF Inv, Begin, Step, create_receive_parent, open_unique_file, Write, Rollback, Commit,
   PickTarget, Link, Compare, Publish, Drop

\* A step changes the disk only where nothing was, or where the v1 upload that created
\* the file is still writing it.
LEMMA DiskStep ==
  ASSUME Inv, [Next]_vars, NEW q \in Paths
  PROVE  \/ disk'[q] = disk[q]
         \/ disk[q] = Nothing
         \/ \E g \in V1 : g \notin finished /\ up[g].pc = "body" /\ target[g] = q
                         /\ disk[q].kind = "file" /\ disk[q].own = g
<1>a. disk \in [Paths -> Entries]
  BY TypeParts DEF Inv
<1>b. \A f \in Files : up[f].pc = "body" => /\ f \in V1 /\ f \notin finished /\ target[f] \in Paths
                                            /\ disk[target[f]].kind = "file" /\ disk[target[f]].own = f
  BY DEF Inv, Handlers
<1>1. ASSUME NEW f \in Files, create_receive_parent(f)
      PROVE  disk'[q] = disk[q] \/ disk[q] = Nothing
  BY <1>1, <1>a DEF create_receive_parent
<1>2. ASSUME NEW f \in Files, open_unique_file(f)
      PROVE  disk'[q] = disk[q] \/ disk[q] = Nothing
  BY <1>2, <1>a DEF open_unique_file
<1>3. ASSUME NEW f \in Files, Write(f) \/ Rollback(f)
      PROVE  up[f].pc = "body" /\ (disk'[q] = disk[q] \/ target[f] = q)
  BY <1>3, <1>a DEF Write, Rollback
<1>4. ASSUME NEW f \in Files, Link(f)
      PROVE  disk'[q] = disk[q] \/ disk[q] = Nothing
  BY <1>4, <1>a DEF Link
<1>5. ASSUME NEW p \in Paths, UserFile(p)
      PROVE  disk'[q] = disk[q] \/ disk[q] = Nothing
  BY <1>5, <1>a DEF UserFile
<1>6. ASSUME NEW f \in Files, Begin(f) \/ Commit(f) \/ PickTarget(f) \/ Compare(f) \/ Publish(f) \/ Drop(f)
      PROVE  disk'[q] = disk[q]
  BY <1>6 DEF Begin, Commit, PickTarget, Compare, Publish, Drop
<1>7. CASE UNCHANGED vars
  BY <1>7 DEF vars
<1> QED BY <1>b, <1>1, <1>2, <1>3, <1>4, <1>5, <1>6, <1>7 DEF Next, Step

\* Every action leaves its handler with what Handlers says of its next point.
LEMMA HandlersStep ==
  ASSUME Inv, [Next]_vars
  PROVE  Handlers'
<1> DEFINE H(g) == /\ up[g].pc # "idle" => g \notin finished
                   /\ up[g].pc = "body" => /\ g \in V1 /\ target[g] \in Paths
                                           /\ disk[target[g]].kind = "file" /\ disk[target[g]].own = g
                   /\ up[g].pc \in {"link", "compare", "linked"} => g \in V2 /\ target[g] \in Paths
                   /\ g \in V1 /\ up[g].pc # "body" /\ g \notin finished => target[g] = NoPath
                   /\ g \in finished => target[g] \in Paths
<1>a. /\ TypeOK /\ disk \in [Paths -> Entries] /\ up \in [Files -> Uploads]
      /\ target \in [Files -> Paths \cup {NoPath}] /\ \A g \in Files : H(g)
  BY TypeParts DEF Inv, Handlers
<1>b. Nothing.kind # "file" /\ V1 \cap V2 = {} /\ Files = V1 \cup V2 /\ NoPath \notin Paths
  BY DownloadAssumption DEF Nothing, Files
<1>c. ASSUME NEW g \in Files, up[g].pc = "body", target'[g] = target[g], up'[g] = up[g], disk'[target[g]] = disk[target[g]],
             g \notin finished'
      PROVE  H(g)'
  BY <1>a, <1>c
<1>d. ASSUME NEW g \in Files, up[g].pc # "body", target'[g] = target[g], up'[g] = up[g],
             g \in finished <=> g \in finished'
      PROVE  H(g)'
  BY <1>a, <1>d
<1>1. ASSUME NEW f \in Files, Begin(f)
      PROVE  \A g \in Files : H(g)'
  BY <1>1, <1>a, <1>b DEF Begin, Idle
<1>2. ASSUME NEW f \in Files, create_receive_parent(f)
      PROVE  \A g \in Files : H(g)'
  <2>1. up'[f].pc \in {"idle", "mkdir", "try"} /\ target' = target /\ finished' = finished /\ up[f].pc = "mkdir"
    BY <1>2, <1>a, HandlerMoves DEF create_receive_parent, Uploads
  <2>2. H(f)'
    BY <2>1, <1>a, <1>b
  <2>3. ASSUME NEW g \in Files \ {f} PROVE H(g)'
    <3>1. up'[g] = up[g]
      BY <1>2, UpStep DEF Step
    <3>2. CASE up[g].pc = "body"
      <4>1. disk'[target[g]] = disk[target[g]]
        <5>1. target[g] \in Paths /\ disk[target[g]].kind = "file"
          BY <3>2, <1>a
        <5>2. \A q \in Paths : disk'[q] = disk[q] \/ disk[q] = Nothing
          BY <1>2, <1>a DEF create_receive_parent
        <5> QED BY <5>1, <5>2, <1>b
      <4> QED BY <4>1, <3>1, <3>2, <2>1, <1>a, <1>c
    <3> QED BY <3>1, <3>2, <2>1, <1>d
  <2> QED BY <2>2, <2>3
<1>3. ASSUME NEW f \in Files, open_unique_file(f)
      PROVE  \A g \in Files : H(g)'
  <2>1. /\ up'[f].pc \in {"idle", "try", "body"} /\ finished' = finished /\ up[f].pc = "try" /\ f \in V1
        /\ up[f].i \in 0 .. MaxNames - 1
        /\ \A g \in Files \ {f} : target'[g] = target[g]
    BY <1>3, <1>a, HandlerMoves, HandlerTypes DEF open_unique_file
  <2> DEFINE path == CandidatePath(f, up[f].i)
  <2>2. path \in Paths
    BY <2>1, CandidateIsPath
  <2>5. ASSUME NEW g \in Files \ {f} PROVE H(g)'
    <3>1. up'[g] = up[g]
      BY <1>3, UpStep DEF Step
    <3>2. CASE up[g].pc = "body"
      <4>1. disk'[target[g]] = disk[target[g]]
        BY <3>2, <2>2, <1>3, <1>a, <1>b DEF open_unique_file
      <4> QED BY <4>1, <3>1, <3>2, <2>1, <1>a, <1>c
    <3> QED BY <3>1, <3>2, <2>1, <1>d
  <2>6. H(f)'
    <3>1. CASE disk[path] = Nothing
      <4>1. target'[f] = path /\ disk'[path] = FileOf(f, <<>>) /\ up'[f].pc = "body"
        BY <3>1, <2>2, <1>3, <1>a, HandlerMoves DEF open_unique_file
      <4> QED BY <4>1, <2>1, <2>2, <1>a DEF FileOf
    <3>2. CASE disk[path] # Nothing
      <4>1. target'[f] = target[f] /\ up'[f].pc \in {"idle", "try"}
        BY <3>2, <1>3, <1>a, HandlerMoves DEF open_unique_file
      <4> QED BY <4>1, <2>1, <1>a
    <3> QED BY <3>1, <3>2
  <2> QED BY <2>5, <2>6
<1>4. ASSUME NEW f \in Files, Write(f)
      PROVE  \A g \in Files : H(g)'
  <2>4. H(f)'
    <3>1. up[f].pc = "body" /\ up' = up /\ target' = target /\ finished' = finished /\ disk[target[f]] \in Entries
      BY <1>4, <1>a DEF Write
    <3>2. disk'[target[f]].kind = disk[target[f]].kind /\ disk'[target[f]].own = disk[target[f]].own
      BY <3>1, <1>4, <1>a DEF Write, Entries
    <3> QED BY <3>1, <3>2, <1>a
  <2>5. ASSUME NEW g \in Files \ {f} PROVE H(g)'
    <3>1. up'[g] = up[g] /\ target'[g] = target[g] /\ (g \in finished <=> g \in finished')
      BY <1>4, <1>a, UpStep DEF Step, Write
    <3>2. CASE up[g].pc = "body"
      <4>1. disk'[target[g]] = disk[target[g]]
        BY <3>2, <1>4, <1>a, <1>b DEF Write
      <4> QED BY <4>1, <3>1, <3>2, <1>a, <1>c
    <3> QED BY <3>1, <3>2, <1>d
  <2> QED BY <2>4, <2>5
<1>5. ASSUME NEW f \in Files, Rollback(f)
      PROVE  \A g \in Files : H(g)'
  <2>4. H(f)'
    <3>1. up'[f].pc = "idle" /\ target'[f] = NoPath /\ f \notin finished'
      BY <1>5, <1>a, HandlerMoves DEF Rollback
    <3> QED BY <3>1
  <2>5. ASSUME NEW g \in Files \ {f} PROVE H(g)'
    <3>1. up'[g] = up[g] /\ target'[g] = target[g] /\ (g \in finished <=> g \in finished')
      BY <1>5, <1>a, UpStep DEF Step, Rollback
    <3>2. CASE up[g].pc = "body"
      <4>1. disk'[target[g]] = disk[target[g]]
        BY <3>2, <1>5, <1>a, <1>b DEF Rollback
      <4> QED BY <4>1, <3>1, <3>2, <1>a, <1>c
    <3> QED BY <3>1, <3>2, <1>d
  <2> QED BY <2>4, <2>5
<1>6. ASSUME NEW f \in Files, Commit(f)
      PROVE  \A g \in Files : H(g)'
  <2>4. H(f)'
    <3>1. up'[f].pc = "idle" /\ target'[f] \in Paths /\ f \in finished'
      BY <1>6, <1>a, HandlerMoves DEF Commit
    <3> QED BY <3>1
  <2>5. ASSUME NEW g \in Files \ {f} PROVE H(g)'
    <3>1. up'[g] = up[g] /\ target'[g] = target[g] /\ (g \in finished <=> g \in finished')
      BY <1>6, <1>a, UpStep DEF Step, Commit
    <3>2. CASE up[g].pc = "body"
      <4>1. disk'[target[g]] = disk[target[g]]
        BY <3>2, <1>6, <1>a, <1>b DEF Commit
      <4> QED BY <4>1, <3>1, <3>2, <1>a, <1>c
    <3> QED BY <3>1, <3>2, <1>d
  <2> QED BY <2>4, <2>5
<1>7. ASSUME NEW f \in Files, PickTarget(f)
      PROVE  \A g \in Files : H(g)'
  <2>4. H(f)'
    <3>1. CandidatePath(f, up[f].i) \in Paths
      BY <1>a, HandlerTypes, CandidateIsPath
    <3>2. up'[f].pc = "link" /\ target'[f] \in Paths /\ f \notin finished' /\ f \in V2
      BY <3>1, <1>7, <1>a, HandlerMoves DEF PickTarget
    <3> QED BY <3>2, <1>b
  <2>5. ASSUME NEW g \in Files \ {f} PROVE H(g)'
    <3>1. up'[g] = up[g] /\ target'[g] = target[g] /\ (g \in finished <=> g \in finished')
      BY <1>7, <1>a, UpStep DEF Step, PickTarget
    <3>2. CASE up[g].pc = "body"
      <4>1. disk'[target[g]] = disk[target[g]]
        BY <3>2, <1>7, <1>a, <1>b DEF PickTarget
      <4> QED BY <4>1, <3>1, <3>2, <1>a, <1>c
    <3> QED BY <3>1, <3>2, <1>d
  <2> QED BY <2>4, <2>5
<1>8. ASSUME NEW f \in Files, Link(f)
      PROVE  \A g \in Files : H(g)'
  <2>4. H(f)'
    <3>1. up'[f].pc \in {"linked", "compare"} /\ target'[f] = target[f] /\ target[f] \in Paths /\ f \in V2 /\ f \notin finished'
      BY <1>8, <1>a, HandlerMoves DEF Link
    <3> QED BY <3>1, <1>b
  <2>5. ASSUME NEW g \in Files \ {f} PROVE H(g)'
    <3>1. up'[g] = up[g] /\ target'[g] = target[g] /\ (g \in finished <=> g \in finished')
      BY <1>8, <1>a, UpStep DEF Step, Link
    <3>2. CASE up[g].pc = "body"
      <4>1. disk'[target[g]] = disk[target[g]]
        BY <3>2, <1>8, <1>a, <1>b DEF Link
      <4> QED BY <4>1, <3>1, <3>2, <1>a, <1>c
    <3> QED BY <3>1, <3>2, <1>d
  <2> QED BY <2>4, <2>5
<1>9. ASSUME NEW f \in Files, Compare(f)
      PROVE  \A g \in Files : H(g)'
  <2>4. H(f)'
    <3>1. \/ up'[f].pc = "linked" /\ target'[f] = target[f]
          \/ up'[f].pc \in {"idle", "try"}
      BY <1>9, <1>a, HandlerMoves DEF Compare
    <3>2. target[f] \in Paths /\ f \in V2 /\ f \notin finished'
      BY <1>9, <1>a DEF Compare
    <3> QED BY <3>1, <3>2, <1>b
  <2>5. ASSUME NEW g \in Files \ {f} PROVE H(g)'
    <3>1. up'[g] = up[g] /\ target'[g] = target[g] /\ (g \in finished <=> g \in finished')
      BY <1>9, <1>a, UpStep DEF Step, Compare
    <3>2. CASE up[g].pc = "body"
      <4>1. disk'[target[g]] = disk[target[g]]
        BY <3>2, <1>9, <1>a, <1>b DEF Compare
      <4> QED BY <4>1, <3>1, <3>2, <1>a, <1>c
    <3> QED BY <3>1, <3>2, <1>d
  <2> QED BY <2>4, <2>5
<1>10. ASSUME NEW f \in Files, Publish(f)
      PROVE  \A g \in Files : H(g)'
  <2>4. H(f)'
    <3>1. up'[f].pc = "idle" /\ target'[f] \in Paths /\ f \in finished'
      BY <1>10, <1>a, HandlerMoves DEF Publish
    <3> QED BY <3>1
  <2>5. ASSUME NEW g \in Files \ {f} PROVE H(g)'
    <3>1. up'[g] = up[g] /\ target'[g] = target[g] /\ (g \in finished <=> g \in finished')
      BY <1>10, <1>a, UpStep DEF Step, Publish
    <3>2. CASE up[g].pc = "body"
      <4>1. disk'[target[g]] = disk[target[g]]
        BY <3>2, <1>10, <1>a, <1>b DEF Publish
      <4> QED BY <4>1, <3>1, <3>2, <1>a, <1>c
    <3> QED BY <3>1, <3>2, <1>d
  <2> QED BY <2>4, <2>5
<1>11. ASSUME NEW f \in Files, Drop(f)
      PROVE  \A g \in Files : H(g)'
  <2>4. H(f)'
    <3>1. up'[f].pc = "idle" /\ f \notin finished' /\ (f \in V1 => target'[f] = NoPath)
      BY <1>11, <1>a, HandlerMoves DEF Drop
    <3> QED BY <3>1
  <2>5. ASSUME NEW g \in Files \ {f} PROVE H(g)'
    <3>1. up'[g] = up[g] /\ target'[g] = target[g] /\ (g \in finished <=> g \in finished')
      BY <1>11, <1>a, UpStep DEF Step, Drop
    <3>2. CASE up[g].pc = "body"
      <4>1. disk'[target[g]] = disk[target[g]]
        BY <3>2, <1>11, <1>a, <1>b DEF Drop
      <4> QED BY <4>1, <3>1, <3>2, <1>a, <1>c
    <3> QED BY <3>1, <3>2, <1>d
  <2> QED BY <2>4, <2>5
<1>12. ASSUME NEW p \in Paths, UserFile(p)
      PROVE  \A g \in Files : H(g)'
  BY <1>12, <1>a, <1>b DEF UserFile
<1>13. ASSUME UNCHANGED vars
       PROVE  \A g \in Files : H(g)'
  BY <1>13, <1>a DEF vars
<1>14. \A g \in Files : H(g)'
  BY <1>1, <1>2, <1>3, <1>4, <1>5, <1>6, <1>7, <1>8, <1>9, <1>10, <1>11, <1>12, <1>13 DEF Next, Step
<1> QED BY <1>14 DEF Handlers

\* Every action keeps the contents of the receiver's files.
LEMMA ContentsStep ==
  ASSUME Inv, [Next]_vars
  PROVE  Contents'
<1> DEFINE C(e) == e.kind = "file" /\ e.own # User =>
                     /\ Len(e.data) <= Len(Data[e.own])
                     /\ \A i \in 1 .. Len(e.data) : e.data[i] = Data[e.own][i]
                     /\ e.own \in V2 => e.data = Data[e.own]
<1>a. /\ TypeOK /\ disk \in [Paths -> Entries] /\ target \in [Files -> Paths \cup {NoPath}]
      /\ \A q \in Paths : C(disk[q])
  BY TypeParts DEF Inv, Contents
<1>b. V1 \cap V2 = {} /\ Files = V1 \cup V2 /\ User \notin Files /\ \A f \in Files : Data[f] \in Seq(Blocks)
  BY DownloadAssumption DEF Files
<1>c. C(Nothing) /\ C(Dir) /\ C(Symlink) /\ \A d : C(FileOf(User, d))
  BY DEF Nothing, Dir, Symlink, FileOf
<1>d. ASSUME NEW f \in V1 PROVE C(FileOf(f, <<>>))
  <2>1. Len(<<>>) = 0 /\ Len(Data[f]) \in Nat /\ f \notin V2
    BY <1>b, LenProperties
  <2> QED BY <2>1 DEF FileOf
<1>e. ASSUME NEW f \in V2 PROVE C(FileOf(f, Data[f]))
  <2>1. Len(Data[f]) \in Nat
    BY <1>b, LenProperties
  <2> QED BY <2>1 DEF FileOf
<1>f. ASSUME NEW f \in Files, Write(f)
      PROVE  C(disk'[target[f]]) /\ target[f] \in Paths
  <2> DEFINE d == disk[target[f]].data
  <2>1. /\ f \in V1 /\ target[f] \in Paths /\ disk[target[f]].kind = "file" /\ disk[target[f]].own = f
        /\ disk[target[f]] \in Entries /\ Len(d) < Len(Data[f])
    BY <1>f, <1>a DEF Inv, Handlers, Write
  <2>2. d \in Seq(Blocks) /\ Data[f] \in Seq(Blocks) /\ Len(d) \in Nat /\ Len(Data[f]) \in Nat
    BY <2>1, <1>b, LenProperties DEF Entries
  <2>3. Data[f][Len(d) + 1] \in Blocks
    BY <2>1, <2>2, ElementOfSeq
  <2>4. /\ disk'[target[f]].kind = "file" /\ disk'[target[f]].own = f
        /\ disk'[target[f]].data = Append(d, Data[f][Len(d) + 1])
    BY <1>f, <1>a, <2>1 DEF Write, Entries
  <2>5. \A i \in 1 .. Len(d) : d[i] = Data[f][i]
    BY <2>1, <1>a, <1>b
  <2> HIDE DEF d
  <2>6. LET a == Append(d, Data[f][Len(d) + 1])
        IN  Len(a) = Len(d) + 1 /\ \A i \in 1 .. Len(d) + 1 : a[i] = Data[f][i]
    BY <2>2, <2>3, <2>5, AppendProperties
  <2>7. f \notin V2
    BY <2>1, <1>b
  <2> QED BY <2>1, <2>2, <2>4, <2>6, <2>7
<1> HIDE DEF C
<1>1. ASSUME NEW f \in Files, Begin(f) \/ Commit(f) \/ PickTarget(f) \/ Compare(f) \/ Publish(f) \/ Drop(f)
      PROVE  \A q \in Paths : C(disk'[q])
  BY <1>1, <1>a DEF Begin, Commit, PickTarget, Compare, Publish, Drop
<1>2. ASSUME NEW f \in Files, create_receive_parent(f)
      PROVE  \A q \in Paths : C(disk'[q])
  BY <1>2, <1>a, <1>c DEF create_receive_parent
<1>3. ASSUME NEW f \in Files, open_unique_file(f)
      PROVE  \A q \in Paths : C(disk'[q])
  BY <1>3, <1>a, <1>d DEF open_unique_file
<1>4. ASSUME NEW f \in Files, Write(f)
      PROVE  \A q \in Paths : C(disk'[q])
  <2>1. \A q \in Paths : q # target[f] => disk'[q] = disk[q]
    BY <1>4, <1>a DEF Write
  <2> QED BY <2>1, <1>4, <1>a, <1>f
<1>5. ASSUME NEW f \in Files, Rollback(f)
      PROVE  \A q \in Paths : C(disk'[q])
  BY <1>5, <1>a, <1>c DEF Rollback
<1>6. ASSUME NEW f \in Files, Link(f)
      PROVE  \A q \in Paths : C(disk'[q])
  <2>1. f \in V2
    BY <1>6 DEF Inv, Handlers, Link
  <2> QED BY <1>6, <1>a, <1>e, <2>1 DEF Link
<1>7. ASSUME NEW p \in Paths, UserFile(p)
      PROVE  \A q \in Paths : C(disk'[q])
  BY <1>7, <1>a, <1>c DEF UserFile
<1>8. ASSUME UNCHANGED vars
      PROVE  \A q \in Paths : C(disk'[q])
  BY <1>8, <1>a DEF vars
<1>9. \A q \in Paths : C(disk'[q])
  BY <1>1, <1>2, <1>3, <1>4, <1>5, <1>6, <1>7, <1>8 DEF Next, Step
<1> QED BY <1>9 DEF C, Contents

\* A v1 upload begins to write only where nothing was.
LEMMA BodyStep ==
  ASSUME Inv, [Next]_vars, NEW h \in Files, up'[h].pc = "body"
  PROVE  (up[h].pc = "body" /\ target'[h] = target[h]) \/ disk[target'[h]] = Nothing
<1> DEFINE Goal == (up[h].pc = "body" /\ target'[h] = target[h]) \/ disk[target'[h]] = Nothing
<1>a. /\ TypeOK /\ up \in [Files -> Uploads] /\ target \in [Files -> Paths \cup {NoPath}]
  BY TypeParts DEF Inv
<1>1. ASSUME NEW f \in Files, h # f, Begin(f) \/ Step(f) \/ Rollback(f) \/ Drop(f)
      PROVE  Goal
  <2>1. up'[h] = up[h]
    BY <1>1, UpStep
  <2>2. target'[h] = target[h]
    BY <1>1, <1>a DEF Begin, Step, create_receive_parent, open_unique_file, Write, Rollback, Commit,
       PickTarget, Link, Compare, Publish, Drop
  <2> QED BY <2>1, <2>2
<1>2. ASSUME open_unique_file(h)
      PROVE  Goal
  BY <1>2, <1>a, HandlerMoves DEF open_unique_file
<1>3. ASSUME Write(h)
      PROVE  Goal
  BY <1>3 DEF Write
<1>4. ~(create_receive_parent(h) \/ Begin(h))
  <2>1. Begin(h) => up'[h].pc = "mkdir"
    BY <1>a DEF Begin
  <2>2. create_receive_parent(h) => up'[h].pc \in {"try", "mkdir", "idle"}
    BY <1>a, HandlerMoves DEF create_receive_parent, Uploads
  <2> QED BY <2>1, <2>2
<1>5. ~(Rollback(h) \/ Commit(h) \/ PickTarget(h) \/ Link(h) \/ Compare(h) \/ Publish(h) \/ Drop(h))
  BY <1>a, HandlerMoves DEF Rollback, Commit, PickTarget, Link, Compare, Publish, Drop
<1>6. ASSUME NEW p \in Paths, UserFile(p)
      PROVE  Goal
  BY <1>6 DEF UserFile
<1>7. ASSUME UNCHANGED vars
      PROVE  Goal
  BY <1>7 DEF vars
<1> QED BY <1>1, <1>2, <1>3, <1>4, <1>5, <1>6, <1>7 DEF Next, Step

\* A file that nobody writes stays so.
LEMMA UnwrittenStep ==
  ASSUME Inv, [Next]_vars, NEW q \in Paths, disk[q].kind = "file", ~Written(q)
  PROVE  disk'[q] = disk[q] /\ ~Written(q)'
<1>1. disk[q] # Nothing
  BY DEF Nothing
<1>2. disk'[q] = disk[q]
  BY <1>1, DiskStep DEF Written
<1>3. ASSUME NEW h \in V1, up'[h].pc = "body", target'[h] = q
      PROVE  FALSE
  BY <1>1, <1>3, BodyStep DEF Written, Files
<1> QED BY <1>2, <1>3 DEF Written

\* Every action keeps what is settled, and settles only what is complete.
LEMMA SettledStep ==
  ASSUME Inv, [Next]_vars
  PROVE  Settled'
<1> DEFINE Done(g) == (g \in finished \/ up[g].pc = "linked") /\ g \notin borrowed
           Good(g) == /\ disk[target[g]].kind = "file" /\ disk[target[g]].data = Data[g]
                      /\ g \in V1 => disk[target[g]].own = g
                      /\ ~Written(target[g])
<1>a. /\ TypeOK /\ up \in [Files -> Uploads] /\ target \in [Files -> Paths \cup {NoPath}]
      /\ disk \in [Paths -> Entries]
      /\ \A g \in Files : Done(g) => Good(g) /\ target[g] \in Paths
  BY TypeParts DEF Inv, Settled, Handlers
<1>b. V1 \cap V2 = {} /\ Files = V1 \cup V2 /\ Nothing.kind # "file"
  BY DownloadAssumption DEF Files, Nothing
<1>c. ASSUME NEW g \in Files, Done(g), target'[g] = target[g]
      PROVE  Good(g)'
  <2>1. Good(g) /\ target[g] \in Paths
    BY <1>c, <1>a
  <2>2. PICK q \in Paths : q = target[g]
    BY <2>1
  <2>3. ~Written(q) /\ disk[q].kind = "file"
    BY <2>1, <2>2
  <2>4. disk'[q] = disk[q] /\ ~Written(q)'
    BY <2>3, UnwrittenStep
  <2> QED BY <1>c, <2>1, <2>2, <2>4 DEF Written
<1>d. ASSUME NEW f \in Files, NEW g \in Files, g # f, Done(g)', Begin(f) \/ Step(f) \/ Rollback(f) \/ Drop(f)
      PROVE  Good(g)'
  <2>1. up'[g] = up[g]
    BY <1>d, UpStep
  <2>2. target'[g] = target[g] /\ (g \in finished' => g \in finished) /\ (g \in borrowed => g \in borrowed')
    BY <1>d, <1>a DEF Begin, Step, create_receive_parent, open_unique_file, Write, Rollback, Commit,
       PickTarget, Link, Compare, Publish, Drop
  <2> QED BY <1>c, <1>d, <2>1, <2>2
<1>1. ASSUME NEW f \in Files, Begin(f), Done(f)'
      PROVE  Good(f)'
  <2>1. up'[f].pc = "mkdir"
    BY <1>1, <1>a DEF Begin
  <2> QED BY <2>1, <1>1, <1>c DEF Begin
<1>2. ASSUME NEW f \in Files, create_receive_parent(f), Done(f)'
      PROVE  Good(f)'
  <2>1. up'[f].pc \in {"try", "mkdir", "idle"}
    BY <1>2, <1>a, HandlerMoves DEF create_receive_parent, Uploads
  <2> QED BY <2>1, <1>2, <1>c DEF create_receive_parent
<1>3. ASSUME NEW f \in Files, open_unique_file(f) \/ Write(f) \/ Rollback(f) \/ Drop(f) \/ PickTarget(f), Done(f)'
      PROVE  FALSE
  <2>1. f \notin finished' /\ up'[f].pc # "linked"
    BY <1>3, <1>a, HandlerMoves DEF open_unique_file, Write, Rollback, Drop, PickTarget, Inv, Handlers
  <2> QED BY <2>1, <1>3
<1>4. ASSUME NEW f \in Files, Commit(f)
      PROVE  Good(f)'
  <2>1. /\ f \in V1 /\ target[f] \in Paths /\ disk[target[f]].kind = "file" /\ disk[target[f]].own = f
        /\ target' = target /\ disk' = disk /\ Len(disk[target[f]].data) = Len(Data[f])
        /\ f # User /\ Data[f] \in Seq(Blocks)
    BY <1>4, DownloadAssumption DEF Commit, Inv, Handlers, Files
  <2>2. disk[target[f]].data \in Seq(Blocks)
    BY <2>1, <1>a DEF Entries
  <2>3. \A i \in 1 .. Len(disk[target[f]].data) : disk[target[f]].data[i] = Data[f][i]
    BY <2>1 DEF Inv, Contents
  <2>4. disk[target[f]].data = Data[f]
    BY <2>1, <2>2, <2>3, SeqEqual
  <2>5. ASSUME NEW h \in V1, up'[h].pc = "body", target'[h] = target[f]
        PROVE  FALSE
    <3>1. h # f
      BY <1>4, <1>a, <2>5, HandlerMoves DEF Commit
    <3>2. up[h].pc = "body" /\ target[h] = target[f]
      BY <3>1, <2>5, <2>1, <1>4, UpStep DEF Step, Files
    <3> QED BY <3>1, <3>2, <2>1 DEF Inv, Handlers, Files
  <2> QED BY <2>1, <2>4, <2>5 DEF Written
<1>5. ASSUME NEW f \in Files, Link(f), Done(f)'
      PROVE  Good(f)'
  <2>1. f \in V2 /\ f \notin V1 /\ f \notin finished' /\ target' = target /\ target[f] \in Paths
    BY <1>5, <1>b DEF Link, Inv, Handlers
  <2>2. disk[target[f]] = Nothing /\ disk'[target[f]] = FileOf(f, Data[f])
    BY <1>5, <2>1, <1>a, HandlerMoves DEF Link
  <2>3. ASSUME NEW h \in V1, up'[h].pc = "body", target'[h] = target[f]
        PROVE  FALSE
    <3>1. up[h].pc = "body" /\ target[h] = target[f]
      BY <2>1, <2>3, <1>5, UpStep DEF Step, Files
    <3> QED BY <3>1, <2>2, <1>b DEF Inv, Handlers
  <2> QED BY <2>1, <2>2, <2>3 DEF Written, FileOf
<1>6. ASSUME NEW f \in Files, Compare(f), Done(f)'
      PROVE  Good(f)'
  <2>1. f \in V2 /\ f \notin V1 /\ f \notin finished' /\ target[f] \in Paths /\ disk' = disk
    BY <1>6, <1>b DEF Compare, Inv, Handlers
  <2>2. Matches(f, disk[target[f]]) /\ ~Written(target[f]) /\ target' = target
    BY <1>6, <2>1, <1>a, HandlerMoves DEF Compare
  <2>3. ASSUME NEW h \in V1, up'[h].pc = "body", target'[h] = target[f]
        PROVE  FALSE
    <3>1. up[h].pc = "body" /\ target[h] = target[f]
      BY <2>1, <2>2, <2>3, <1>6, UpStep DEF Step, Files
    <3> QED BY <3>1, <2>2 DEF Written
  <2> QED BY <2>1, <2>2, <2>3 DEF Written, Matches
<1>7. ASSUME NEW f \in Files, Publish(f), Done(f)'
      PROVE  Good(f)'
  BY <1>7, <1>c DEF Publish
<1>8. ASSUME NEW f \in Files, Begin(f) \/ Step(f) \/ Rollback(f) \/ Drop(f), Done(f)'
      PROVE  Good(f)'
  BY <1>8, <1>1, <1>2, <1>3, <1>4, <1>5, <1>6, <1>7 DEF Step
<1>9. ASSUME NEW g \in Files, Done(g)', (\E p \in Paths : UserFile(p)) \/ UNCHANGED vars
      PROVE  Good(g)'
  BY <1>9, <1>c DEF UserFile, vars
<1>10. \A g \in Files : Done(g)' => Good(g)'
  BY <1>d, <1>8, <1>9 DEF Next
<1> QED BY <1>10 DEF Settled

\* Every action accounts for the files it creates, and gives up no target that holds one.
LEMMA LeftOverStep ==
  ASSUME Inv, [Next]_vars
  PROVE  NothingLeftOver'
<1> DEFINE N(q) == disk[q].kind = "file" /\ disk[q].own # User => target[disk[q].own] = q \/ q \in left
<1>a. /\ TypeOK /\ disk \in [Paths -> Entries] /\ target \in [Files -> Paths \cup {NoPath}]
      /\ \A q \in Paths : N(q)
  BY TypeParts DEF Inv, NothingLeftOver
<1>b. V1 \cap V2 = {} /\ Files = V1 \cup V2 /\ User \notin Files /\ Nothing.kind # "file" /\ NoPath \notin Paths
  BY DownloadAssumption DEF Files, Nothing
<1>c. \A q \in Paths : disk[q].kind = "file" /\ disk[q].own # User => disk[q].own \in Files
  BY <1>a DEF Entries
<1>1. ASSUME NEW f \in Files, Begin(f) \/ Commit(f) \/ Publish(f)
      PROVE  \A q \in Paths : N(q)'
  BY <1>1, <1>a DEF Begin, Commit, Publish
<1>2. ASSUME NEW f \in Files, create_receive_parent(f)
      PROVE  \A q \in Paths : N(q)'
  <2>1. \A q \in Paths : disk'[q] = disk[q] \/ disk'[q] = Dir
    BY <1>2, <1>a DEF create_receive_parent
  <2>2. target' = target /\ left' = left
    BY <1>2 DEF create_receive_parent
  <2> QED BY <2>1, <2>2, <1>a DEF Dir
<1>3. ASSUME NEW f \in Files, open_unique_file(f)
      PROVE  \A q \in Paths : N(q)'
  <2>1. f \in V1 /\ target[f] = NoPath /\ left' = left
    BY <1>3 DEF open_unique_file, Inv, Handlers
  <2>2. \A q \in Paths : disk[q].kind = "file" /\ disk[q].own = f => q \in left
    BY <2>1, <1>a, <1>b
  <2> DEFINE path == CandidatePath(f, up[f].i)
  <2>3. CASE disk[path] = Nothing
    <3>1. up \in [Files -> Uploads]
      BY <1>a, TypeParts
    <3>2. CandidatePath(f, up[f].i) \in Paths
      BY <3>1, HandlerTypes, CandidateIsPath
    <3>3. PICK c \in Paths : c = CandidatePath(f, up[f].i)
      BY <3>2
    <3>4. /\ target' = [target EXCEPT ![f] = c]
          /\ disk' = [disk EXCEPT ![c] = FileOf(f, <<>>)]
      BY <2>3, <1>3, <3>3 DEF open_unique_file
    <3>5. ASSUME NEW q \in Paths, q # c PROVE N(q)'
      BY <3>4, <3>5, <2>1, <2>2, <1>a, <1>c
    <3>6. N(c)'
      BY <3>4, <1>a DEF FileOf
    <3> QED BY <3>5, <3>6
  <2>4. CASE disk[path] # Nothing
    BY <2>4, <2>1, <1>3, <1>a DEF open_unique_file
  <2> QED BY <2>3, <2>4
<1>4. ASSUME NEW f \in Files, Write(f)
      PROVE  \A q \in Paths : N(q)'
  <2>1. \A q \in Paths : disk'[q].kind = disk[q].kind /\ disk'[q].own = disk[q].own
    BY <1>4, <1>a DEF Write, Entries
  <2> QED BY <2>1, <1>4, <1>a DEF Write
<1>5. ASSUME NEW f \in Files, Rollback(f)
      PROVE  \A q \in Paths : N(q)'
  BY <1>5, <1>a, <1>b, <1>c DEF Rollback
<1>6. ASSUME NEW f \in Files, PickTarget(f)
      PROVE  \A q \in Paths : N(q)'
  BY <1>6, <1>a, <1>b, <1>c DEF PickTarget
<1>7. ASSUME NEW f \in Files, Link(f)
      PROVE  \A q \in Paths : N(q)'
  BY <1>7, <1>a DEF Link, FileOf
<1>8. ASSUME NEW f \in Files, Compare(f)
      PROVE  \A q \in Paths : N(q)'
  <2> DEFINE e == disk[target[f]]
  <2>1. f \in V2 /\ target[f] \in Paths /\ disk' = disk /\ left \subseteq left'
    BY <1>8 DEF Compare, Inv, Handlers
  <2>2. \/ target' = target
        \/ e.kind = "file" /\ e.own = f => target[f] \in left'
    <3>1. CASE Matches(f, e)
      BY <1>8, <3>1 DEF Compare
    <3>2. CASE ~Matches(f, e)
      <4>1. ~(e.kind = "file" /\ e.own = f)
        BY <2>1, <3>2, <1>b DEF Matches, Inv, Contents
      <4> QED BY <4>1
    <3> QED BY <3>1, <3>2
  <2>3. \A g \in Files \ {f} : target'[g] = target[g]
    BY <1>8, <1>a DEF Compare
  <2>4. CASE target' = target
    BY <2>1, <2>4, <1>a
  <2>5. CASE e.kind = "file" /\ e.own = f => target[f] \in left'
    BY <2>1, <2>3, <2>5, <1>a, <1>c
  <2> QED BY <2>2, <2>4, <2>5
<1>9. ASSUME NEW f \in Files, Drop(f)
      PROVE  \A q \in Paths : N(q)'
  BY <1>9, <1>a, <1>c DEF Drop
<1>10. ASSUME NEW p \in Paths, UserFile(p)
       PROVE  \A q \in Paths : N(q)'
  <2>1. \A q \in Paths : disk'[q] = disk[q] \/ disk'[q].own = User
    BY <1>10, <1>a DEF UserFile, FileOf, Symlink
  <2> QED BY <2>1, <1>10, <1>a DEF UserFile
<1>11. ASSUME UNCHANGED vars
       PROVE  \A q \in Paths : N(q)'
  BY <1>11, <1>a DEF vars
<1>12. \A q \in Paths : N(q)'
  BY <1>1, <1>2, <1>3, <1>4, <1>5, <1>6, <1>7, <1>8, <1>9, <1>10, <1>11 DEF Next, Step
<1> QED BY <1>12 DEF NothingLeftOver

\* A directory stays one.
LEMMA DirsStay ==
  ASSUME Inv, [Next]_vars, NEW q \in Paths, disk[q] = Dir
  PROVE  disk'[q] = Dir
BY DiskStep DEF Dir, Nothing

\* Every action keeps what create_receive_parent has established.
LEMMA OpenedStep ==
  ASSUME Inv, [Next]_vars
  PROVE  Opened'
<1> DEFINE R(g) == Len(receive_target(g))
           A(g) == \A q \in Above(receive_target(g)) : disk[q] = Dir
           K(g) == \A k \in 1 .. up[g].depth - 1 : disk[SubSeq(receive_target(g), 1, k)] = Dir
           T(g) == target[g] # NoPath => \E i \in 0 .. MaxNames - 1 : target[g] = CandidatePath(g, i)
           O(g) == /\ up[g].pc # "idle" => ~reserved_target(g)
                   /\ up[g].pc = "mkdir" => up[g].depth \in 1 .. R(g) /\ K(g)
                   /\ up[g].pc \notin {"idle", "mkdir"} => A(g)
                   /\ T(g)
<1>a. /\ TypeOK /\ disk \in [Paths -> Entries] /\ up \in [Files -> Uploads]
      /\ target \in [Files -> Paths \cup {NoPath}] /\ \A g \in Files : O(g)
  BY TypeParts DEF Inv, Opened
<1>b. ASSUME NEW g \in Files, A(g) PROVE A(g)'
  BY <1>b, DirsStay DEF Paths
<1>c. ASSUME NEW g \in Files, up[g].pc = "mkdir"
      PROVE  /\ \A k \in 1 .. up[g].depth - 1 : disk'[SubSeq(receive_target(g), 1, k)] = Dir
             /\ R(g) \in Nat \ {0} /\ up[g].depth \in 1 .. R(g)
             /\ up[g].depth = R(g) => A(g)
  <2>1. R(g) \in Nat \ {0} /\ up[g].depth \in 1 .. R(g) /\ K(g)
    BY <1>a, <1>c, TargetLength
  <2>2. ASSUME NEW k \in 1 .. up[g].depth - 1
        PROVE  disk'[SubSeq(receive_target(g), 1, k)] = Dir
    <3>1. k \in 1 .. R(g) - 1
      BY <2>1
    <3>2. SubSeq(receive_target(g), 1, k) \in Paths
      BY <3>1, PrefixIsPath
    <3> QED BY <3>2, <2>1, DirsStay
  <2>3. up[g].depth = R(g) => A(g)
    BY <2>1 DEF Above
  <2> QED BY <2>1, <2>2, <2>3
<1>d. ASSUME NEW g \in Files, up'[g] = up[g], target'[g] = target[g]
      PROVE  O(g)'
  <2>1. CASE up[g].pc = "mkdir"
    BY <1>a, <1>c, <1>d, <2>1
  <2>2. CASE up[g].pc # "mkdir"
    BY <1>a, <1>b, <1>d, <2>2
  <2> QED BY <2>1, <2>2
<1>e. ASSUME NEW f \in Files, NEW g \in Files, g # f, Begin(f) \/ Step(f) \/ Rollback(f) \/ Drop(f)
      PROVE  O(g)'
  <2>1. up'[g] = up[g]
    BY <1>e, UpStep
  <2>2. target'[g] = target[g]
    BY <1>e, <1>a DEF Begin, Step, create_receive_parent, open_unique_file, Write, Rollback, Commit,
       PickTarget, Link, Compare, Publish, Drop
  <2> QED BY <1>d, <2>1, <2>2
<1>f. ASSUME NEW f \in Files, up[f].pc \notin {"idle", "mkdir"}, up'[f].pc # "mkdir",
             \/ target'[f] \in {target[f], NoPath}
             \/ \E i \in 0 .. MaxNames - 1 : target'[f] = CandidatePath(f, i)
      PROVE  O(f)'
  BY <1>a, <1>b, <1>f
<1>1. ASSUME NEW f \in Files, Begin(f)
      PROVE  O(f)'
  <2>1. up'[f].pc = "mkdir" /\ up'[f].depth = 1 /\ target' = target /\ ~reserved_target(f)
    BY <1>1, <1>a DEF Begin
  <2>2. R(f) \in Nat \ {0}
    BY TargetLength
  <2>3. up'[f].depth \in 1 .. R(f) /\ K(f)'
    BY <2>1, <2>2
  <2> QED BY <2>1, <2>3, <1>a
<1>2. ASSUME NEW f \in Files, create_receive_parent(f)
      PROVE  O(f)'
  <2> DEFINE d == up[f].depth
             path == SubSeq(receive_target(f), 1, d)
  <2>1. up[f].pc = "mkdir" /\ target' = target /\ ~reserved_target(f) /\ T(f)' /\ d \in Nat
    BY <1>2, <1>a DEF create_receive_parent, Uploads
  <2>2. CASE d = R(f)
    <3>1. up'[f].pc = "try"
      BY <2>2, <1>2, <1>a, HandlerMoves DEF create_receive_parent
    <3>2. A(f)'
      BY <2>1, <2>2, <1>b, <1>c
    <3> QED BY <3>1, <3>2, <2>1
  <2>3. CASE d # R(f) /\ disk'[path] = Dir
    <3>1. up'[f].pc = "mkdir" /\ up'[f].depth = d + 1
      BY <2>1, <2>3, <1>2, <1>a DEF create_receive_parent, Uploads
    <3>2. d + 1 \in 1 .. R(f) /\ \A k \in 1 .. d : k = d \/ k \in 1 .. d - 1
      BY <2>1, <2>3, <1>c
    <3>3. \A k \in 1 .. d : disk'[SubSeq(receive_target(f), 1, k)] = Dir
      BY <2>1, <2>3, <3>2, <1>c
    <3>4. K(f)'
      BY <3>1, <3>3, <2>1
    <3> QED BY <3>1, <3>2, <3>4, <2>1
  <2>4. CASE d # R(f) /\ disk'[path] # Dir
    <3>1. up'[f].pc = "idle"
      BY <2>4, <1>2, <1>a, HandlerMoves DEF create_receive_parent
    <3> QED BY <3>1, <2>1
  <2> QED BY <2>2, <2>3, <2>4
<1>3. ASSUME NEW f \in Files, open_unique_file(f) \/ PickTarget(f)
      PROVE  O(f)'
  <2>1. up[f].pc = "try" /\ up'[f].pc # "mkdir" /\ up[f].i \in 0 .. MaxNames - 1
    BY <1>3, <1>a, HandlerMoves, HandlerTypes DEF open_unique_file, PickTarget
  <2>2. target'[f] \in {target[f], CandidatePath(f, up[f].i)}
    BY <1>3, <1>a DEF open_unique_file, PickTarget
  <2> QED BY <2>1, <2>2, <1>f
<1>4. ASSUME NEW f \in Files, Write(f) \/ Rollback(f) \/ Commit(f) \/ Link(f) \/ Compare(f) \/ Publish(f)
      PROVE  O(f)'
  <2>1. up[f].pc \in {"body", "link", "compare", "linked"} /\ up'[f].pc # "mkdir"
    BY <1>4, <1>a, HandlerMoves DEF Write, Rollback, Commit, Link, Compare, Publish
  <2>2. target'[f] \in {target[f], NoPath}
    BY <1>4, <1>a DEF Write, Rollback, Commit, Link, Compare, Publish
  <2> QED BY <2>1, <2>2, <1>f
<1>5. ASSUME NEW f \in Files, Drop(f)
      PROVE  O(f)'
  <2>1. up'[f].pc = "idle" /\ target'[f] \in {target[f], NoPath}
    BY <1>5, <1>a, HandlerMoves DEF Drop
  <2> QED BY <2>1, <1>a
<1>6. ASSUME NEW g \in Files, (\E p \in Paths : UserFile(p)) \/ UNCHANGED vars
      PROVE  O(g)'
  BY <1>6, <1>d DEF UserFile, vars
<1>7. \A g \in Files : O(g)'
  BY <1>e, <1>1, <1>2, <1>3, <1>4, <1>5, <1>6 DEF Next, Step
<1> QED BY <1>7 DEF Opened

\* Nothing is created elsewhere.
LEMMA ConfinedStep ==
  ASSUME Inv, [Next]_vars
  PROVE  Confined'
<1> DEFINE Ours(e) == e = Dir \/ e.own # User
           Safe(q) == q[1] \notin Reserved /\ \A r \in Above(q) : disk[r] = Dir
<1>a. /\ TypeOK /\ disk \in [Paths -> Entries] /\ up \in [Files -> Uploads]
      /\ \A q \in Paths : Ours(disk[q]) => Safe(q)
  BY TypeParts DEF Inv, Confined
<1>b. ASSUME NEW q \in Paths, NEW r \in Above(q) PROVE r \in Paths
  BY PathsClosed
<1>c. ASSUME NEW q \in Paths, Safe(q) PROVE Safe(q)'
  BY <1>b, <1>c, DirsStay
<1>d. ASSUME NEW f \in Files, up[f].pc \notin {"idle", "mkdir"}, NEW i \in 0 .. MaxNames - 1
      PROVE  Safe(CandidatePath(f, i))
  BY <1>d, CandidateAbove DEF Inv, Opened
<1>e. ~Ours(Nothing) /\ ~Ours(Symlink) /\ \A d : ~Ours(FileOf(User, d))
  BY DEF Nothing, Symlink, FileOf, Dir
<1> HIDE DEF Ours
<1>1. ASSUME NEW f \in Files, Begin(f) \/ Commit(f) \/ PickTarget(f) \/ Compare(f) \/ Publish(f) \/ Drop(f),
             NEW q \in Paths, Ours(disk'[q])
      PROVE  Safe(q)
  BY <1>1, <1>a DEF Begin, Commit, PickTarget, Compare, Publish, Drop
<1>2. ASSUME NEW f \in Files, create_receive_parent(f), NEW q \in Paths, Ours(disk'[q])
      PROVE  Safe(q)
  <2> DEFINE d == up[f].depth
             path == SubSeq(receive_target(f), 1, d)
  <2>1. CASE disk'[q] = disk[q]
    BY <2>1, <1>2, <1>a
  <2>2. CASE disk'[q] # disk[q]
    <3>1. up[f].pc = "mkdir" /\ q = path
      BY <2>2, <1>2, <1>a DEF create_receive_parent
    <3>2. /\ ~reserved_target(f) /\ d \in 1 .. Len(receive_target(f))
          /\ \A k \in 1 .. d - 1 : disk[SubSeq(receive_target(f), 1, k)] = Dir
      BY <3>1 DEF Inv, Opened
    <3>3. path[1] = receive_target(f)[1] /\ Len(path) = d
      BY <3>2, PrefixOfPrefix
    <3>4. ASSUME NEW r \in Above(path) PROVE disk[r] = Dir
      <4>1. PICK k \in 1 .. d - 1 : r = SubSeq(path, 1, k)
        BY <3>3, <3>4 DEF Above
      <4>2. k \in 1 .. d
        BY <3>2
      <4>3. r = SubSeq(receive_target(f), 1, k)
        BY <4>1, <4>2, <3>2, PrefixOfPrefix
      <4> QED BY <4>3, <3>2
    <3> QED BY <3>1, <3>2, <3>3, <3>4 DEF reserved_target
  <2> QED BY <2>1, <2>2
<1>3. ASSUME NEW f \in Files, open_unique_file(f), NEW q \in Paths, Ours(disk'[q])
      PROVE  Safe(q)
  <2>1. up[f].pc = "try" /\ up[f].i \in 0 .. MaxNames - 1
    BY <1>3, <1>a, HandlerTypes DEF open_unique_file
  <2>2. disk'[q] = disk[q] \/ q = CandidatePath(f, up[f].i)
    BY <1>3, <1>a DEF open_unique_file
  <2> QED BY <1>3, <1>a, <1>d, <2>1, <2>2
<1>4. ASSUME NEW f \in Files, Write(f) \/ Rollback(f), NEW q \in Paths, Ours(disk'[q])
      PROVE  Safe(q)
  <2>1. disk'[q] = disk[q] \/ disk'[q] = Nothing \/ (disk[q].own = f /\ f # User)
    BY <1>4, <1>a, DownloadAssumption DEF Write, Rollback, Inv, Handlers
  <2> QED BY <1>4, <1>a, <1>e, <2>1 DEF Ours
<1>5. ASSUME NEW f \in Files, Link(f), NEW q \in Paths, Ours(disk'[q])
      PROVE  Safe(q)
  <2>1. up[f].pc = "link" /\ (disk'[q] = disk[q] \/ q = target[f])
    BY <1>5, <1>a DEF Link
  <2>2. PICK i \in 0 .. MaxNames - 1 : target[f] = CandidatePath(f, i)
    BY <2>1, DownloadAssumption DEF Inv, Opened, Handlers
  <2> QED BY <1>5, <1>a, <1>d, <2>1, <2>2
<1>6. ASSUME NEW p \in Paths, UserFile(p), NEW q \in Paths, Ours(disk'[q])
      PROVE  Safe(q)
  <2>1. disk'[q] = disk[q] \/ disk'[q] = Symlink \/ \E d : disk'[q] = FileOf(User, d)
    BY <1>6, <1>a DEF UserFile
  <2> QED BY <1>6, <1>a, <1>e, <2>1
<1>7. ASSUME UNCHANGED vars, NEW q \in Paths, Ours(disk'[q])
      PROVE  Safe(q)
  BY <1>7, <1>a DEF vars
<1>8. \A q \in Paths : Ours(disk'[q]) => Safe(q)
  BY <1>1, <1>2, <1>3, <1>4, <1>5, <1>6, <1>7 DEF Next, Step
<1>9. \A q \in Paths : Ours(disk'[q]) => Safe(q)'
  BY <1>8, <1>c
<1> QED BY <1>9 DEF Confined, Ours

-----------------------------------------------------------------------------
(***************************************************************************)
(* The theorems                                                            *)
(***************************************************************************)
\* Initially nothing is there and nobody does anything.
LEMMA InitInv == Init => Inv
<1> SUFFICES ASSUME Init PROVE Inv
  OBVIOUS
<1> USE DownloadAssumption DEF Init
<1>1. TypeOK
  <2>1. Idle \in Uploads
    BY DEF Idle, Uploads
  <2> QED BY <2>1, EntryTypes, TypeParts
<1>2. Handlers /\ Opened
  BY DEF Handlers, Opened, Idle
<1>3. Contents /\ NothingLeftOver /\ Confined
  BY DEF Contents, NothingLeftOver, Confined, Nothing, Dir
<1>4. Settled
  BY DEF Settled, Idle
<1> QED BY <1>1, <1>2, <1>3, <1>4 DEF Inv

\* The invariant holds in every reachable state.
THEOREM Invariance == Spec => []Inv
<1>1. ASSUME Inv, [Next]_vars PROVE Inv'

    BY <1>1, TypeStep, HandlersStep, ContentsStep, SettledStep, LeftOverStep, OpenedStep, ConfinedStep DEF Inv
<1> QED BY InitInv, <1>1, PTL DEF Spec

\* Entries, handlers and targets keep their types; in particular the search for a
\* name never runs past the last candidate.
THEOREM TypeCorrect == Spec => []TypeOK
BY Invariance, PTL DEF Inv

\* chunk_upload_handler and durable::upload create nothing in the state directory or
\* behind a symbolic link, for any announced names.
THEOREM AlwaysConfined == Spec => []Confined
BY Invariance, PTL DEF Inv

\* What a sender was told is received stays in the download directory with its
\* content, unless v2 took a file that a v1 upload was still writing.
THEOREM FinishedStaysIntact == Spec => []FinishedIsIntact
<1>1. Inv => FinishedIsIntact
  BY DEF Inv, Settled, FinishedIsIntact, TypeOK
<1> QED BY Invariance, <1>1, PTL

\* Failed and repeated attempts of both protocols leave no file behind, except the
\* file of a dropped v1 handler and a link of v2's own that it could not read again.
THEOREM NothingIsLeftOver == Spec => []NothingLeftOver
BY Invariance, PTL DEF Inv

\* No step replaces, changes or removes a file, except the v1 upload that created it
\* and is not finished.
THEOREM FilesStay == Spec => FilesAreKept
<1>1. ASSUME Inv, [Next]_vars
      PROVE  \A p \in Paths : disk[p] # Nothing /\ disk'[p] # disk[p]
               => \E g \in V1 : g \notin finished /\ up[g].pc = "body" /\ target[g] = p /\ disk[p].own = g
  BY <1>1, DiskStep
<1>2. Inv /\ [Next]_vars => [\A p \in Paths : disk[p] # Nothing /\ disk'[p] # disk[p]
        => \E g \in V1 : g \notin finished /\ up[g].pc = "body" /\ target[g] = p /\ disk[p].own = g]_vars
  BY <1>1
<1> QED BY Invariance, <1>2, PTL DEF Spec, FilesAreKept

=============================================================================
