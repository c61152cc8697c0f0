---------------------------- MODULE LevelsProofs ----------------------------
(***************************************************************************)
(* Theorems about Levels.tla, for every set of keys, values and tombstones *)
(* and every value of its bounds.                                          *)
(*                                                                         *)
(* Type correctness needs no assumption on the clock.  That tracked files  *)
(* exist and that L1 stays disjoint needs StrictClock: with a clock that   *)
(* repeats a reading the output of a merge may replace one of its inputs,  *)
(* which compact then removes.                                             *)
(***************************************************************************)
EXTENDS Levels, LevelManagerProofs

-----------------------------------------------------------------------------
\* Every variable keeps its type, whatever the clock does: after compact_merge
\* the lists are empty and the job names an output file.
THEOREM LevelsTypeCorrect == LevelSpec => []LevelTypeOK
<1>1. LevelInit => LevelTypeOK
  BY LevelInitTypeOK
<1>2. LevelTypeOK /\ [LevelNext]_levelVars => LevelTypeOK'
  <2> SUFFICES ASSUME LevelTypeOK, [LevelNext]_levelVars
               PROVE  LevelTypeOK'
    OBVIOUS
  <2>1. ASSUME NEW t \in FlushTables, flush(t)
        PROVE  LevelTypeOK'
    <3>1. PICK s \in Stamps :
             /\ now(s)
             /\ disk0' = [disk0 EXCEPT ![s] = t]
             /\ add_l0_file(s)
      BY <2>1 DEF flush
    <3>2. l0' \in Seq(Stamps) /\ Idle
      BY <3>1, AppendProperties DEF LevelTypeOK, add_l0_file
    <3>3. disk0' \in Directory
      BY <3>1, LevelsAssumption DEF LevelTypeOK, Directory
    <3>4. clock' \in Stamps
      BY <3>1 DEF now
    <3>5. UNCHANGED <<disk1, l1, job, ioVars>>
      BY <2>1 DEF flush
    <3> QED BY <3>2, <3>3, <3>4, <3>5 DEF LevelTypeOK, Idle, ioVars
  <2>2. CASE compact_begin \/ compact_end
    BY <2>2, CompactPreservesType
  <2>3. CASE UNCHANGED levelVars
    BY <2>3 DEF levelVars, ioVars, LevelTypeOK, Idle
  <2> QED BY <2>1, <2>2, <2>3 DEF LevelNext
<1> QED
  BY <1>1, <1>2, PTL DEF LevelSpec

-----------------------------------------------------------------------------
(***************************************************************************)
(* Safety under a strict clock.                                            *)
(***************************************************************************)

\* No two of them overlap, so they can be searched in any order.
Disjoint(paths) ==
    \A i, j \in DOMAIN paths : i # j =>
        ~ranges_overlap(Present(disk1[paths[i]]), Present(disk1[paths[j]]))

\* The inductive invariant: what is installed at the end of a compaction is
\* on disk, and disjoint if no scan was cut short, when the merge has been
\* written, and stays so.
LevelsInv ==
    /\ FilesInv
    /\ ~short => Disjoint(l1)
    /\ ~Idle /\ ~short => Disjoint(ToInstall)

\* The heart of compact: sets that each meet A, and like A do not meet U, lie
\* with A on one side of U, so whatever is made of their members misses U too.
LEMMA UnionStaysApart ==
    ASSUME NEW A \in SUBSET Int, NEW U \in SUBSET Int, NEW O \in SUBSET Int,
           NEW J, NEW B \in [J -> SUBSET Int],
           ~ranges_overlap(A, U),
           \A j \in J : ranges_overlap(A, B[j]) /\ ~ranges_overlap(U, B[j]),
           \A x \in O : x \in A \/ \E j \in J : x \in B[j]
    PROVE  ~ranges_overlap(O, U)
<1>1. CASE \A a \in A, u \in U : a < u
  <2>1. ASSUME NEW j \in J, NEW b \in B[j], NEW u \in U
        PROVE  b < u
    <3>1. PICK a \in A, c \in B[j] : c <= a
      BY DEF ranges_overlap
    <3>2. c \in Int /\ a \in Int /\ b \in Int /\ u \in Int
      OBVIOUS
    <3>3. c <= u
      BY <1>1, <3>1, <3>2
    <3>4. ~(u <= b)
      BY <3>3 DEF ranges_overlap
    <3> QED BY <3>2, <3>4
  <2>2. \A x \in O, u \in U : x < u
    BY <1>1, <2>1
  <2>3. \A x \in O, u \in U : ~(u <= x)
    BY <2>2
  <2> QED BY <2>3 DEF ranges_overlap
<1>2. CASE \A a \in A, u \in U : u < a
  <2>1. ASSUME NEW j \in J, NEW b \in B[j], NEW u \in U
        PROVE  u < b
    <3>1. PICK a \in A, c \in B[j] : a <= c
      BY DEF ranges_overlap
    <3>2. c \in Int /\ a \in Int /\ b \in Int /\ u \in Int
      OBVIOUS
    <3>3. u <= c
      BY <1>2, <3>1, <3>2
    <3>4. ~(b <= u)
      BY <3>3 DEF ranges_overlap
    <3> QED BY <3>2, <3>4
  <2>2. \A x \in O, u \in U : u < x
    BY <1>2, <2>1
  <2>3. \A x \in O, u \in U : ~(x <= u)
    BY <2>2
  <2> QED BY <2>3 DEF ranges_overlap
<1>3. \/ \A a \in A, u \in U : a < u
      \/ \A a \in A, u \in U : u < a
  <2>1. \/ \A a \in A, u \in U : ~(a <= u)
        \/ \A a \in A, u \in U : ~(u <= a)
    BY DEF ranges_overlap
  <2> QED BY <2>1
<1> QED
  BY <1>1, <1>2, <1>3

\* The merge of L0 with the L1 files it overlaps misses every other L1 file.
LEMMA OutputMissesUntouched ==
    ASSUME LevelsInv, ~short, L0Scannable(Files), L1Scannable(Files),
           NEW u \in DOMAIN l1 \ Overlapping(Files)
    PROVE  ~ranges_overlap(Present(merge_sstables(MergeInputs(Files, Files))),
                           Present(disk1[l1[u]]))
<1> DEFINE A == UNION {Present(disk0[l0[i]]) : i \in DOMAIN l0}
           B == [i \in Overlapping(Files) |-> Present(disk1[l1[i]])]
           U == Present(disk1[l1[u]])
           O == Present(merge_sstables(MergeInputs(Files, Files)))
<1>1. /\ A \in SUBSET Int /\ U \in SUBSET Int /\ O \in SUBSET Int
      /\ B \in [Overlapping(Files) -> SUBSET Int]
  BY TablesAssumption DEF Present
<1>2. ~ranges_overlap(A, U)
  BY DEF Overlapping, Files
<1>3. ASSUME NEW i \in Overlapping(Files)
      PROVE  ranges_overlap(A, B[i]) /\ ~ranges_overlap(U, B[i])
  <2>1. i \in DOMAIN l1 /\ i # u
    BY DEF Overlapping, Files
  <2>2. ~ranges_overlap(U, B[i])
    BY <2>1 DEF LevelsInv, Disjoint
  <2>3. ranges_overlap(A, B[i])
    BY DEF Overlapping, Files
  <2> QED BY <2>2, <2>3
<1>4. ASSUME NEW x \in O
      PROVE  x \in A \/ \E i \in Overlapping(Files) : x \in B[i]
  <2>1. /\ MergeInputs(Files, Files) \in Seq(Table)
        /\ \A n \in DOMAIN MergeInputs(Files, Files) :
              \/ \E i \in DOMAIN l0 : MergeInputs(Files, Files)[n] = Files.d0[l0[i]]
              \/ \E i \in Overlapping(Files) :
                    MergeInputs(Files, Files)[n] = Files.d1[l1[i]]
    BY MergeInputsProperties, FilesIsView DEF LevelsInv, FilesInv, LevelTypeOK
  <2>2. PICK n \in DOMAIN MergeInputs(Files, Files) :
           x \in Present(MergeInputs(Files, Files)[n])
    BY <2>1, MergeProperties
  <2> QED BY <2>1, <2>2, FilesIsView
<1> HIDE DEF A, B, U, O
<1>5. ~ranges_overlap(O, U)
  BY <1>1, <1>2, <1>3, <1>4, UnionStaysApart
<1> QED
  BY <1>5 DEF O, U

\* And if no scan was ever cut short, the list to install is disjoint.
LEMMA MergePreservesDisjoint ==
    ASSUME StrictClock, LevelsInv, ~short, compact_merge
    PROVE  Disjoint(ToInstall)'
<1> DEFINE last == Len(Untouched(Files)) + 1
           T == merge_sstables(MergeInputs(Files, Files))
<1>1. /\ L0Scannable(Files) /\ L1Scannable(Files) /\ compact_passes(Files, Files)
      /\ Disjoint(l1) /\ FilesInv /\ LevelTypeOK
  BY DEF LevelsInv, FilesInv, compact_merge, compact_passes
<1>2. PICK s \in Stamps :
         /\ disk1'[s] = T
         /\ DOMAIN ToInstall' = DOMAIN Untouched(Files) \cup {last}
         /\ \A n \in DOMAIN Untouched(Files) : ToInstall'[n] = Untouched(Files)[n]
         /\ ToInstall'[last] = s
         /\ \A i \in DOMAIN l1 : disk1'[l1[i]] = disk1[l1[i]]
  BY <1>1, PassesProperties, FilesIsView
<1> HIDE DEF last, T
<1>3. /\ \A n \in DOMAIN Untouched(Files) :
            \E i \in DOMAIN l1 \ Overlapping(Files) : Untouched(Files)[n] = l1[i]
      /\ \A m, n \in DOMAIN Untouched(Files) : m # n =>
            \E i, j \in DOMAIN l1 \ Overlapping(Files) :
               i # j /\ Untouched(Files)[m] = l1[i] /\ Untouched(Files)[n] = l1[j]
  BY <1>1, SplitProperties DEF LevelTypeOK
<1>4. ASSUME NEW m \in DOMAIN Untouched(Files)
      PROVE  /\ ~ranges_overlap(Present(disk1'[s]), Present(disk1'[Untouched(Files)[m]]))
             /\ ~ranges_overlap(Present(disk1'[Untouched(Files)[m]]), Present(disk1'[s]))
  <2>1. PICK i \in DOMAIN l1 \ Overlapping(Files) : Untouched(Files)[m] = l1[i]
    BY <1>3
  <2>2. ~ranges_overlap(Present(T), Present(disk1[l1[i]]))
    BY <1>1, OutputMissesUntouched DEF T
  <2>3. disk1'[s] = T /\ disk1'[Untouched(Files)[m]] = disk1[l1[i]]
    BY <1>2, <2>1
  <2> QED BY <2>2, <2>3 DEF ranges_overlap
<1>5. ASSUME NEW m \in DOMAIN ToInstall', NEW n \in DOMAIN ToInstall', m # n
      PROVE  ~ranges_overlap(Present(disk1'[ToInstall'[m]]),
                             Present(disk1'[ToInstall'[n]]))
  <2>1. CASE m = last \/ n = last
    BY <1>2, <1>4, <1>5, <2>1
  <2>2. CASE m \in DOMAIN Untouched(Files) /\ n \in DOMAIN Untouched(Files)
    <3>1. PICK i \in DOMAIN l1, j \in DOMAIN l1 :
             i # j /\ Untouched(Files)[m] = l1[i] /\ Untouched(Files)[n] = l1[j]
      BY <1>3, <1>5, <2>2
    <3>2. ~ranges_overlap(Present(disk1[l1[i]]), Present(disk1[l1[j]]))
      BY <1>1, <3>1 DEF Disjoint
    <3> QED BY <1>2, <2>2, <3>1, <3>2
  <2> QED BY <1>2, <2>1, <2>2
<1> QED
  BY <1>5 DEF Disjoint

\* A flush adds a file, and its name behind those of L0.
LEMMA FlushPreservesFiles ==
    ASSUME StrictClock, FilesInv, NEW t \in FlushTables, flush(t), LevelTypeOK'
    PROVE  FilesInv' /\ Idle' /\ UNCHANGED <<disk1, l1, short>>
<1>1. PICK s \in Stamps :
         /\ now(s)
         /\ disk0' = [disk0 EXCEPT ![s] = t]
         /\ add_l0_file(s)
         /\ UNCHANGED <<disk1, l1, job, ioVars>>
  BY DEF flush
<1>2. Idle' /\ l0' = Append(l0, s)
  BY <1>1 DEF add_l0_file, Idle
<1>3. clock' = s /\ clock < s /\ clock \in Int /\ s \in Int
  <2>1. clock' = s /\ clock < s
    BY <1>1, StrictNow DEF FilesInv
  <2> QED BY <2>1 DEF FilesInv, LevelTypeOK, Stamps
<1>4. \A i \in DOMAIN l1 : l1[i] \in Int
  <2>1. l1 \in Seq(Stamps)
    BY DEF FilesInv, LevelTypeOK
  <2>2. \A i \in DOMAIN l1 : l1[i] \in Stamps
    BY <2>1, LenProperties, ElementOfSeq
  <2> QED BY <2>2 DEF Stamps
<1>5. HaveFiles(l1)'
  BY <1>1, <1>3, <1>4 DEF FilesInv, HaveFiles
<1>6. \A i \in DOMAIN l0' : disk0'[l0'[i]] # NoFile
  <2>1. /\ l0' \in Seq(Stamps) /\ Len(l0') = Len(l0) + 1
        /\ \A i \in 1..Len(l0) : l0'[i] = l0[i]
        /\ l0'[Len(l0) + 1] = s
    BY <1>2, AppendProperties DEF FilesInv, LevelTypeOK
  <2>2. /\ DOMAIN l0 = 1..Len(l0) /\ Len(l0) \in Nat
        /\ DOMAIN l0' = 1..Len(l0')
    BY <2>1, LenProperties DEF FilesInv, LevelTypeOK
  <2>3. \A x \in Stamps : disk0[x] # NoFile => disk0'[x] # NoFile
    <3>1. t # NoFile
      BY LevelsAssumption, TablesAssumption
    <3> QED BY <1>1, <3>1 DEF FilesInv, LevelTypeOK, Directory
  <2>4. disk0'[s] # NoFile
    BY <1>1, LevelsAssumption, TablesAssumption
       DEF FilesInv, LevelTypeOK, Directory
  <2> TAKE i \in DOMAIN l0'
  <2>5. CASE i \in DOMAIN l0
    <3>1. l0[i] \in Stamps /\ disk0[l0[i]] # NoFile
      BY <2>2, <2>5, ElementOfSeq DEF FilesInv, LevelTypeOK
    <3> QED BY <2>1, <2>2, <2>3, <2>5, <3>1
  <2>6. CASE i = Len(l0) + 1
    BY <2>1, <2>4, <2>6
  <2> QED BY <2>1, <2>2, <2>5, <2>6
<1> QED
  BY <1>1, <1>2, <1>5, <1>6 DEF FilesInv, ioVars

\* The inductive step, one action at a time.
LEMMA LevelsInvStep ==
    ASSUME StrictClock, LevelsInv, [LevelNext]_levelVars, LevelTypeOK'
    PROVE  LevelsInv'
<1>1. CASE compact_begin \/ compact_end
  <2>1. FilesInv'
    BY <1>1, CompactPreservesFiles DEF LevelsInv
  <2>2. CASE compact_l0_error \/ compact_l1_error
    <3>1. Idle' /\ (l1' = <<>> \/ l1' = l1) /\ disk1' = disk1 /\ short' = short
      BY <2>2 DEF compact_l0_error, compact_l1_error, io_error, ioVars, Idle
    <3> QED BY <2>1, <3>1 DEF LevelsInv, Disjoint
  <2>3. CASE compact_merge \/ compact_merge_short
    <3>1. l1' = <<>>
      BY <2>3 DEF compact_merge, compact_merge_short, compact_passes
    <3>2. ~short' => Disjoint(ToInstall)'
      <4>1. ~short' => compact_merge /\ ~short
        BY <2>3 DEF compact_merge, compact_merge_short, short_scan, ioVars
      <4> QED BY <4>1, MergePreservesDisjoint
    <3> QED BY <2>1, <3>1, <3>2 DEF LevelsInv, Disjoint
  <2>4. CASE remove_l0_input \/ remove_l1_input
    <3>1. ~Idle /\ l1' = l1
      BY <2>4, JobProperties DEF remove_l0_input, remove_l1_input, Idle
    <3>2. l1' = <<>>
      BY <3>1 DEF LevelsInv, FilesInv, LevelTypeOK
    <3>3. ~short' => Disjoint(ToInstall)'
      BY <2>4, <3>1, RemoveKeepsInstalled DEF LevelsInv, Disjoint
    <3> QED BY <2>1, <3>2, <3>3 DEF LevelsInv, Disjoint
  <2>5. CASE compact_install
    <3>1. ~Idle /\ Idle' /\ l1' = ToInstall /\ disk1' = disk1 /\ short' = short
      BY <2>5 DEF compact_install, Idle, ToInstall, ioVars
    <3> QED BY <2>1, <3>1 DEF LevelsInv, Disjoint
  <2> QED BY <1>1, <2>2, <2>3, <2>4, <2>5 DEF compact_begin, compact_end
<1>2. ASSUME NEW t \in FlushTables, flush(t)
      PROVE  LevelsInv'
  BY <1>2, FlushPreservesFiles DEF LevelsInv, Disjoint
<1>3. CASE UNCHANGED levelVars
  <2>1. UNCHANGED <<disk0, disk1, l0, l1, job, clock, faults, short>>
    BY <1>3 DEF levelVars, ioVars
  <2>2. FilesInv'
    <3>1. LevelTypeOK'
      BY <2>1 DEF LevelsInv, FilesInv, LevelTypeOK
    <3>2. HaveFiles(l1)' /\ (~Idle' => HaveFiles(ToInstall)' /\ KeptApart')
      BY <2>1 DEF LevelsInv, FilesInv, Idle, HaveFiles, ToInstall, KeptApart
    <3> QED BY <2>1, <3>1, <3>2 DEF LevelsInv, FilesInv
  <2> QED BY <2>1, <2>2 DEF LevelsInv, Idle, Disjoint, KeptApart, ToInstall
<1> QED
  BY <1>1, <1>2, <1>3 DEF LevelNext

\* Under a strict clock every state of Levels satisfies the invariant.
THEOREM LevelsInvariant ==
    ASSUME StrictClock
    PROVE  LevelSpec => []LevelsInv
<1>1. LevelInit => LevelsInv
  <2> SUFFICES ASSUME LevelInit PROVE LevelsInv
    OBVIOUS
  <2>1. Idle /\ l0 = <<>> /\ l1 = <<>>
    BY DEF LevelInit, Idle
  <2>2. LevelTypeOK
    BY LevelInitTypeOK
  <2> QED BY <2>1, <2>2 DEF LevelsInv, FilesInv, HaveFiles, Disjoint
<1>2. LevelsInv /\ LevelTypeOK' /\ [LevelNext]_levelVars => LevelsInv'
  BY LevelsInvStep
<1> QED
  BY <1>1, <1>2, LevelsTypeCorrect, PTL DEF LevelSpec

\* Until a scan is cut short, compact keeps the key ranges of L1 disjoint: what
\* get relies on when it stops at the first L1 file that holds the key.
THEOREM LevelsL1Disjoint ==
    ASSUME StrictClock
    PROVE  LevelSpec => []L1Disjoint
<1>1. LevelsInv => L1Disjoint
  BY DEF LevelsInv, Disjoint, L1Disjoint
<1> QED
  BY <1>1, LevelsInvariant, PTL

\* A path that the LevelManager tracks always has a file, failed removals and
\* failed merges included.
THEOREM LevelsTrackedFilesExist ==
    ASSUME StrictClock
    PROVE  LevelSpec => []TrackedFilesExist
<1>1. LevelsInv => TrackedFilesExist
  BY DEF LevelsInv, FilesInv, HaveFiles, TrackedFilesExist
<1> QED
  BY <1>1, LevelsInvariant, PTL

\* From the merge to its installation no removal takes a file of the list
\* about to be installed.
THEOREM LevelsMergeIsInstallable ==
    ASSUME StrictClock
    PROVE  LevelSpec => []MergeIsInstallable
<1>1. LevelsInv => MergeIsInstallable
  BY DEF LevelsInv, FilesInv, HaveFiles, MergeIsInstallable
<1> QED
  BY <1>1, LevelsInvariant, PTL

-----------------------------------------------------------------------------
(***************************************************************************)
(* A merge changes no read of a key that only one L0 file holds.           *)
(***************************************************************************)
\* No file of L1 holds a tombstone.
L1WithoutTombstones ==
    \A s \in Stamps : disk1[s] # NoFile =>
        \A k \in Keys : disk1[s][k] \notin Tombstones

\* A merge writes none.
LEMMA MergeWithoutTombstones ==
    ASSUME NEW ts, NEW k \in Keys
    PROVE  merge_sstables(ts)[k] \notin Tombstones
  BY TablesAssumption DEF merge_sstables, Answer, is_tombstone

\* Nothing but a merge writes to L1.
LEMMA L1WithoutTombstonesStep ==
    ASSUME LevelTypeOK, L1WithoutTombstones, [LevelNext]_levelVars
    PROVE  L1WithoutTombstones'
<1>1. CASE disk1' = disk1
  BY <1>1 DEF L1WithoutTombstones
<1>2. ASSUME NEW s \in Stamps, disk1' = [disk1 EXCEPT ![s] = NoFile]
      PROVE  L1WithoutTombstones'
  BY <1>2 DEF L1WithoutTombstones, LevelTypeOK, Directory
<1>3. ASSUME NEW s \in Stamps, NEW ts, disk1' = [disk1 EXCEPT ![s] = merge_sstables(ts)]
      PROVE  L1WithoutTombstones'
  <2> DEFINE T == merge_sstables(ts)
  <2>1. \A k \in Keys : T[k] \notin Tombstones
    BY MergeWithoutTombstones
  <2> HIDE DEF T
  <2> QED BY <1>3, <2>1 DEF L1WithoutTombstones, LevelTypeOK, Directory, T
<1>4. CASE compact_merge \/ compact_merge_short
  <2>1. PICK r, v : compact_passes(r, v)
    BY <1>4 DEF compact_merge, compact_merge_short
  <2>2. PICK s \in Stamps : write_output(s, merge_sstables(MergeInputs(r, v)))
    BY <2>1 DEF compact_passes
  <2> QED BY <1>3, <2>2 DEF write_output
<1>5. CASE remove_l1_input
  <2>1. Head(job.todo1) \in Stamps
    <3>1. job.todo1 \in Seq(Stamps) /\ job.todo1 # <<>>
      BY <1>5 DEF remove_l1_input, LevelTypeOK
    <3> QED BY <3>1, HeadTailProperties
  <2> QED BY <1>1, <1>2, <1>5, <2>1 DEF remove_l1_input
<1>6. \/ disk1' = disk1 \/ compact_merge \/ compact_merge_short \/ remove_l1_input
  BY DEF LevelNext, flush, compact_begin, compact_end, compact_l0_error, compact_l1_error,
         remove_l0_input, compact_install, levelVars
<1> QED BY <1>1, <1>4, <1>5, <1>6

\* No two files of L1 hold the same key.
LEMMA OneInL1 ==
    ASSUME LevelsInv, ~short, NEW k \in Keys
    PROVE  \A i, j \in DOMAIN l1 :
              disk1[l1[i]][k] # Absent /\ disk1[l1[j]][k] # Absent => i = j
<1> SUFFICES ASSUME NEW i \in DOMAIN l1, NEW j \in DOMAIN l1, i # j,
                    disk1[l1[i]][k] # Absent, disk1[l1[j]][k] # Absent
             PROVE  FALSE
  OBVIOUS
<1>1. k \in Present(disk1[l1[i]]) /\ k \in Present(disk1[l1[j]]) /\ k <= k
  BY TablesAssumption DEF Present
<1>2. ~ranges_overlap(Present(disk1[l1[i]]), Present(disk1[l1[j]]))
  BY DEF LevelsInv, Disjoint
<1> QED BY <1>1, <1>2 DEF ranges_overlap

\* Of a key that at most one L0 file holds a merge keeps what a search finds.
\* As no file of L1 holds a tombstone, a search answers with its record as it
\* stands.
LEMMA MergeKeepsUncontested ==
    ASSUME StrictClock, LevelsInv, LevelTypeOK', FilesInv', L1WithoutTombstones',
           compact_merge, ~short, NEW k \in Keys, Uncontested(k)
    PROVE  Answer(search_levels(k)) = Installed(ToInstall, k)'
<1>1. /\ FilesInv /\ disk0 \in Directory /\ disk1 \in Directory
      /\ l0 \in Seq(Stamps) /\ l1 \in Seq(Stamps)
      /\ ToSet(l0) \in SUBSET Stamps /\ ToSet(l1) \in SUBSET Stamps
      /\ \A s \in ToSet(l0) : disk0[s] # NoFile
      /\ \A s \in ToSet(l1) : disk1[s] # NoFile
  <2>1. /\ FilesInv /\ disk0 \in Directory /\ disk1 \in Directory
        /\ l0 \in Seq(Stamps) /\ l1 \in Seq(Stamps) /\ HaveFiles(l1)
        /\ \A i \in DOMAIN l0 : disk0[l0[i]] # NoFile
    BY DEF LevelsInv, FilesInv, LevelTypeOK
  <2>2. /\ \A i \in DOMAIN l0 : l0[i] \in Stamps
        /\ \A i \in DOMAIN l1 : l1[i] \in Stamps
    BY <2>1, LenProperties, ElementOfSeq
  <2> QED BY <2>1, <2>2 DEF HaveFiles, ToSet
<1>2. PICK x0 : OneRecord(disk0, ToSet(l0), k, x0)
  <2>1. \A s, t \in ToSet(l0) : disk0[s][k] # Absent /\ disk0[t][k] # Absent => s = t
    BY DEF Uncontested, ToSet
  <2> QED BY <1>1, <2>1, OneRecordExists
<1>3. PICK x1 : OneRecord(disk1, ToSet(l1), k, x1)
  <2>1. \A s, t \in ToSet(l1) : disk1[s][k] # Absent /\ disk1[t][k] # Absent => s = t
    BY OneInL1 DEF ToSet
  <2> QED BY <1>1, <2>1, OneRecordExists
<1>4. search_levels(k) = IF x0 # Absent THEN x0 ELSE x1
  <2>1. Reverse(l0) \in Seq(Stamps) /\ ToSet(Reverse(l0)) = ToSet(l0)
    BY <1>1, ReverseMembers
  <2>2. /\ tables_of(disk0, Reverse(l0)) \in Seq(Table)
        /\ FirstRecord(tables_of(disk0, Reverse(l0)), k) = x0
    BY <1>1, <1>2, <2>1, OneRecordFound
  <2>3. /\ tables_of(disk1, l1) \in Seq(Table)
        /\ FirstRecord(tables_of(disk1, l1), k) = x1
    BY <1>1, <1>3, OneRecordFound
  <2> QED BY <2>2, <2>3, FirstRecordConcat DEF search_levels, L1Tables
<1>5. PICK y : OneRecord(disk1', ToSet(ToInstall'), k, y) /\ Answer(y) = Answer(search_levels(k))
  BY <1>1, <1>2, <1>3, <1>4, MergeOne
<1>6. /\ ToInstall' \in Seq(Stamps) /\ disk1' \in Directory
      /\ \A s \in ToSet(ToInstall') : s \in Stamps /\ disk1'[s] # NoFile
  <2>1. ~Idle'
    BY <1>1, MergeStep DEF Merges
  <2>2. /\ job'.untouched \in Seq(Stamps) /\ job'.output \in Stamps
        /\ disk1' \in Directory /\ HaveFiles(ToInstall)'
    BY <2>1 DEF FilesInv, LevelTypeOK
  <2>3. ToInstall' \in Seq(Stamps)
    BY <2>2, AppendProperties DEF ToInstall
  <2>4. \A i \in DOMAIN ToInstall' : ToInstall'[i] \in Stamps
    BY <2>3, LenProperties, ElementOfSeq
  <2> QED BY <2>2, <2>3, <2>4 DEF HaveFiles, ToSet
<1>7. Installed(ToInstall, k)' = y
  BY <1>5, <1>6, OneRecordFound DEF Installed
<1>8. y \notin Tombstones
  <2>1. CASE y = Absent
    BY <2>1, TablesAssumption
  <2>2. CASE y # Absent
    <3>1. PICK s \in ToSet(ToInstall') : disk1'[s][k] = y
      BY <1>5, <2>2 DEF OneRecord
    <3> QED BY <1>6, <3>1 DEF L1WithoutTombstones
  <2> QED BY <2>1, <2>2
<1> QED BY <1>5, <1>7, <1>8 DEF Answer, is_tombstone

\* Under a strict clock a compaction that no short scan went into changes no
\* read of a key that at most one L0 file holds, for any tables and files.
THEOREM LevelsKeepUncontested ==
    ASSUME StrictClock
    PROVE  LevelSpec => CompactionKeepsUncontested
<1>1. LevelInit => L1WithoutTombstones
  BY DEF LevelInit, L1WithoutTombstones
<1>2. LevelTypeOK /\ L1WithoutTombstones /\ [LevelNext]_levelVars => L1WithoutTombstones'
  BY L1WithoutTombstonesStep
<1>3. LevelsInv /\ LevelsInv' /\ L1WithoutTombstones /\ [LevelNext]_levelVars
        => [Idle /\ ~Idle' /\ ~short' =>
              \A k \in Keys : Uncontested(k) =>
                 Answer(search_levels(k)) = Installed(ToInstall, k)']_levelVars
  <2> SUFFICES ASSUME LevelsInv, LevelsInv', L1WithoutTombstones, [LevelNext]_levelVars,
                      Idle, ~Idle', ~short'
               PROVE  \A k \in Keys : Uncontested(k) =>
                         Answer(search_levels(k)) = Installed(ToInstall, k)'
    OBVIOUS
  <2>1. compact_merge /\ ~short
    <3>1. CASE compact_begin \/ compact_end
      <4>1. ~compact_merge_short
        BY DEF compact_merge_short, short_scan
      <4>2. ~compact_l0_error /\ ~compact_l1_error
        BY DEF compact_l0_error, compact_l1_error, Idle
      <4>3. ~remove_l0_input /\ ~remove_l1_input /\ ~compact_install
        BY JobProperties DEF remove_l0_input, remove_l1_input, compact_install, Idle
      <4>4. compact_merge
        BY <3>1, <4>1, <4>2, <4>3 DEF compact_begin, compact_end
      <4> QED BY <4>4 DEF compact_merge, ioVars
    <3>2. ASSUME NEW t \in FlushTables, flush(t)
          PROVE  FALSE
      BY <3>2 DEF flush, Idle
    <3>3. CASE UNCHANGED levelVars
      BY <3>3 DEF levelVars, Idle
    <3> QED BY <3>1, <3>2, <3>3 DEF LevelNext
  <2>2. LevelTypeOK' /\ FilesInv' /\ L1WithoutTombstones'
    BY <1>2 DEF LevelsInv, FilesInv
  <2> QED BY <2>1, <2>2, MergeKeepsUncontested
<1> QED
  BY <1>1, <1>2, <1>3, LevelsInvariant, LevelsTypeCorrect, PTL
     DEF LevelSpec, CompactionKeepsUncontested
=============================================================================
