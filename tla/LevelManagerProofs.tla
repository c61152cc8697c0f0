------------------------- MODULE LevelManagerProofs -------------------------
(***************************************************************************)
(* Lemmas about the operations of LevelManager.tla, whoever calls them: the*)
(* caller of Levels.tla or the engine of Lsm.tla.                          *)
(***************************************************************************)
EXTENDS LevelManager, TablesProofs

-----------------------------------------------------------------------------
(***************************************************************************)
(* Lemmas about the state.                                                 *)
(***************************************************************************)

\* The contents of a list of files that exist are a sequence of tables.
LEMMA TablesOfType ==
    ASSUME NEW disk \in Directory, NEW paths \in Seq(Stamps),
           \A i \in DOMAIN paths : disk[paths[i]] # NoFile
    PROVE  /\ tables_of(disk, paths) \in Seq(Table)
           /\ DOMAIN tables_of(disk, paths) = DOMAIN paths
           /\ \A i \in DOMAIN paths : tables_of(disk, paths)[i] = disk[paths[i]]
<1>1. DOMAIN paths = 1..Len(paths) /\ Len(paths) \in Nat
  BY LenProperties
<1>2. \A i \in DOMAIN paths : disk[paths[i]] \in Table
  <2> TAKE i \in DOMAIN paths
  <2>1. paths[i] \in Stamps
    BY <1>1, ElementOfSeq
  <2> QED BY <2>1 DEF Directory
<1>3. tables_of(disk, paths) \in [1..Len(paths) -> Table]
  BY <1>1, <1>2 DEF tables_of
<1>4. tables_of(disk, paths) \in Seq(Table)
  BY <1>1, <1>3, SeqDef
<1> QED
  BY <1>4 DEF tables_of

\* What a pass sees, cut short or not, has the type of the directory, and
\* where there is a file it sees a table.
Views == {Files} \cup ShortViews

LEMMA FilesIsView == Files \in Views /\ Files.d0 = disk0 /\ Files.d1 = disk1
  BY DEF Views, Files

LEMMA ViewProperties ==
    ASSUME disk0 \in Directory, disk1 \in Directory,
           l0 \in Seq(Stamps), l1 \in Seq(Stamps),
           L0Scannable(Files), L1Scannable(Files),
           NEW v \in Views
    PROVE  /\ v.d0 \in Directory /\ v.d1 \in Directory
           /\ \A i \in DOMAIN l0 : v.d0[l0[i]] # NoFile
           /\ \A i \in DOMAIN l1 : v.d1[l1[i]] # NoFile
<1>1. /\ \A i \in DOMAIN l0 : l0[i] \in Stamps /\ disk0[l0[i]] # NoFile
      /\ \A i \in DOMAIN l1 : l1[i] \in Stamps /\ disk1[l1[i]] # NoFile
  BY LenProperties, ElementOfSeq DEF L0Scannable, L1Scannable, Scannable, Files
<1>2. CASE v = Files
  BY <1>1, <1>2 DEF Files
<1>3. ASSUME NEW s \in Stamps, NEW t \in Cuts(disk0[s]), disk0[s] # NoFile
      PROVE  t \in Table /\ t # NoFile
  <2>1. t \in Table
    BY <1>3 DEF Cuts, Directory, Table
  <2> QED BY <2>1, TablesAssumption
<1>4. ASSUME NEW s \in Stamps, NEW t \in Cuts(disk1[s]), disk1[s] # NoFile
      PROVE  t \in Table /\ t # NoFile
  <2>1. t \in Table
    BY <1>4 DEF Cuts, Directory, Table
  <2> QED BY <2>1, TablesAssumption
<1>5. ASSUME NEW i \in DOMAIN l0, v \in CutInL0(i)
      PROVE  /\ v.d0 \in Directory /\ v.d1 \in Directory
             /\ \A n \in DOMAIN l0 : v.d0[l0[n]] # NoFile
             /\ \A n \in DOMAIN l1 : v.d1[l1[n]] # NoFile
  <2>1. PICK t \in Cuts(disk0[l0[i]]) : v = [Files EXCEPT !.d0[l0[i]] = t]
    BY <1>5 DEF CutInL0
  <2>2. v.d0 = [disk0 EXCEPT ![l0[i]] = t] /\ v.d1 = disk1
    BY <2>1 DEF Files
  <2>3. t \in Table /\ t # NoFile
    BY <1>1, <1>3
  <2> QED BY <1>1, <2>2, <2>3 DEF Directory
<1>6. ASSUME NEW i \in DOMAIN l1, v \in CutInL1(i)
      PROVE  /\ v.d0 \in Directory /\ v.d1 \in Directory
             /\ \A n \in DOMAIN l0 : v.d0[l0[n]] # NoFile
             /\ \A n \in DOMAIN l1 : v.d1[l1[n]] # NoFile
  <2>1. PICK t \in Cuts(disk1[l1[i]]) : v = [Files EXCEPT !.d1[l1[i]] = t]
    BY <1>6 DEF CutInL1
  <2>2. v.d1 = [disk1 EXCEPT ![l1[i]] = t] /\ v.d0 = disk0
    BY <2>1 DEF Files
  <2>3. t \in Table /\ t # NoFile
    BY <1>1, <1>4
  <2> QED BY <1>1, <2>2, <2>3 DEF Directory
<1>7. v \in ShortViews => \/ \E i \in DOMAIN l0 : v \in CutInL0(i)
                          \/ \E i \in DOMAIN l1 : v \in CutInL1(i)
  BY DEF ShortViews
<1>8. CASE v \in ShortViews
  BY <1>5, <1>6, <1>7, <1>8
<1> QED
  BY <1>2, <1>8 DEF Views

\* The merge reads tables, each of an L0 file or of an overlapping L1 file.
LEMMA MergeInputsProperties ==
    ASSUME disk0 \in Directory, disk1 \in Directory,
           l0 \in Seq(Stamps), l1 \in Seq(Stamps),
           L0Scannable(Files), L1Scannable(Files),
           NEW r \in Views, NEW v \in Views
    PROVE  /\ MergeInputs(r, v) \in Seq(Table)
           /\ \A n \in DOMAIN MergeInputs(r, v) :
                 \/ \E i \in DOMAIN l0 : MergeInputs(r, v)[n] = v.d0[l0[i]]
                 \/ \E i \in Overlapping(r) : MergeInputs(r, v)[n] = v.d1[l1[i]]
<1> DEFINE T0 == tables_of(v.d0, l0)
           T1 == tables_of(v.d1, l1)
           M1 == Pick(T1, Overlapping(r))
           M  == MergeInputs(r, v)
<1>1. /\ T0 \in Seq(Table)
      /\ DOMAIN T0 = DOMAIN l0
      /\ \A i \in DOMAIN l0 : T0[i] = v.d0[l0[i]]
  BY ViewProperties, TablesOfType
<1>2. /\ T1 \in Seq(Table)
      /\ DOMAIN T1 = DOMAIN l1
      /\ \A i \in DOMAIN l1 : T1[i] = v.d1[l1[i]]
  BY ViewProperties, TablesOfType
<1> HIDE DEF T0, T1
<1>3. Overlapping(r) \in SUBSET DOMAIN T1
  BY <1>2 DEF Overlapping
<1>4. /\ M1 \in Seq(Table)
      /\ \A n \in DOMAIN M1 : \E i \in Overlapping(r) : M1[n] = T1[i]
  BY <1>2, <1>3, PickProperties
<1>5. \A n \in DOMAIN M1 : \E i \in Overlapping(r) : M1[n] = v.d1[l1[i]]
  BY <1>2, <1>3, <1>4
<1>6. M = T0 \o M1
  BY DEF MergeInputs, T0, T1
<1> HIDE DEF M1, M
<1>7. M \in Seq(Table)
  BY <1>1, <1>4, <1>6, ConcatProperties
<1>8. ASSUME NEW n \in DOMAIN M
      PROVE  \/ n \in DOMAIN T0 /\ M[n] = T0[n]
             \/ \E m \in DOMAIN M1 : M[n] = M1[m]
  <2>1. /\ DOMAIN T0 = 1..Len(T0) /\ Len(T0) \in Nat
        /\ DOMAIN M1 = 1..Len(M1) /\ Len(M1) \in Nat
        /\ DOMAIN M = 1..Len(M)
    BY <1>1, <1>4, <1>7, LenProperties
  <2>2. /\ Len(M) = Len(T0) + Len(M1)
        /\ \A i \in 1 .. Len(T0) + Len(M1) :
              M[i] = IF i <= Len(T0) THEN T0[i] ELSE M1[i - Len(T0)]
    BY <1>1, <1>4, <1>6, ConcatProperties
  <2>3. n \in 1 .. Len(T0) + Len(M1)
    BY <2>1, <2>2
  <2>4. CASE n <= Len(T0)
    BY <2>1, <2>2, <2>3, <2>4
  <2>5. CASE ~(n <= Len(T0))
    <3>1. n - Len(T0) \in DOMAIN M1
      BY <2>1, <2>3, <2>5
    <3> QED BY <2>2, <2>3, <2>5, <3>1
  <2> QED BY <2>4, <2>5
<1>9. ASSUME NEW n \in DOMAIN M
      PROVE  \/ \E i \in DOMAIN l0 : M[n] = v.d0[l0[i]]
             \/ \E i \in Overlapping(r) : M[n] = v.d1[l1[i]]
  BY <1>1, <1>5, <1>8
<1> QED
  BY <1>7, <1>9 DEF M

\* What compact leaves alone is some of L1, each file once and none of those
\* it merges; what it merges is the rest.
LEMMA SplitProperties ==
    ASSUME l1 \in Seq(Stamps), NEW r
    PROVE  /\ Pick(l1, Overlapping(r)) \in Seq(Stamps)
           /\ \A n \in DOMAIN Pick(l1, Overlapping(r)) :
                 \E i \in Overlapping(r) : Pick(l1, Overlapping(r))[n] = l1[i]
           /\ Untouched(r) \in Seq(Stamps)
           /\ \A n \in DOMAIN Untouched(r) :
                 \E i \in DOMAIN l1 \ Overlapping(r) : Untouched(r)[n] = l1[i]
           /\ \A m, n \in DOMAIN Untouched(r) : m # n =>
                 \E i, j \in DOMAIN l1 \ Overlapping(r) :
                    i # j /\ Untouched(r)[m] = l1[i] /\ Untouched(r)[n] = l1[j]
<1>1. Overlapping(r) \in SUBSET DOMAIN l1
  BY DEF Overlapping
<1>3. /\ Pick(l1, Overlapping(r)) \in Seq(Stamps)
      /\ \A n \in DOMAIN Pick(l1, Overlapping(r)) :
            \E i \in Overlapping(r) : Pick(l1, Overlapping(r))[n] = l1[i]
  BY <1>1, PickProperties
<1> DEFINE I == DOMAIN l1 \ Overlapping(r)
<1>2. I \in SUBSET DOMAIN l1
  OBVIOUS
<1> HIDE DEF I
<1>4. /\ Pick(l1, I) \in Seq(Stamps)
      /\ \A n \in DOMAIN Pick(l1, I) :
            Sorted(I)[n] \in I /\ Pick(l1, I)[n] = l1[Sorted(I)[n]]
      /\ \A m, n \in DOMAIN Pick(l1, I) : Sorted(I)[m] = Sorted(I)[n] => m = n
  BY <1>2, PickProperties
<1>5. Untouched(r) = Pick(l1, I)
  BY DEF Untouched, I
<1> USE <1>5
<1>6. \A n \in DOMAIN Untouched(r) : \E i \in I : Untouched(r)[n] = l1[i]
  BY <1>4
<1>7. \A m, n \in DOMAIN Untouched(r) : m # n =>
         \E i, j \in I : i # j /\ Untouched(r)[m] = l1[i] /\ Untouched(r)[n] = l1[j]
  BY <1>4
<1> QED
  BY <1>3, <1>4, <1>6, <1>7 DEF I

-----------------------------------------------------------------------------
(***************************************************************************)
(* Type correctness.                                                       *)
(***************************************************************************)

\* The record of a compaction under way, and what a removal makes of it.
LEMMA JobProperties ==
    /\ NoJob \in [todo0 : Seq(Stamps), todo1 : Seq(Stamps),
                  untouched : Seq(Stamps), output : Stamps \cup {0}]
    /\ NoJob.todo0 = <<>> /\ NoJob.todo1 = <<>> /\ NoJob.output = 0
  BY EmptySeq DEF NoJob

\* An empty directory and empty levels have their types.
LEMMA LevelInitTypeOK == LevelInit => LevelTypeOK
<1> SUFFICES ASSUME LevelInit PROVE LevelTypeOK
  OBVIOUS
<1>1. disk0 \in Directory /\ disk1 \in Directory
  BY DEF LevelInit, Directory
<1>2. faults \in 0..MaxFaults
  BY LevelAssumption DEF LevelInit
<1>3. short \in BOOLEAN
  BY DEF LevelInit
<1>4. /\ l0 \in Seq(Stamps) /\ l1 \in Seq(Stamps)
      /\ job = NoJob /\ Idle
      /\ clock \in Stamps \cup {0}
  BY EmptySeq DEF LevelInit, Idle
<1> QED
  BY <1>1, <1>2, <1>3, <1>4, JobProperties DEF LevelTypeOK

\* A compaction that merges, whatever its passes see, leaves a state of the
\* right type.
LEMMA PassesPreserveType ==
    ASSUME LevelTypeOK, L0Scannable(Files), L1Scannable(Files),
           NEW r \in Views, NEW v \in Views,
           compact_passes(r, v),
           faults' \in 0..MaxFaults, short' \in BOOLEAN
    PROVE  LevelTypeOK'
<1>1. PICK s \in Stamps :
         /\ now(s)
         /\ write_output(s, merge_sstables(MergeInputs(r, v)))
         /\ job' = [todo0 |-> l0, todo1 |-> Pick(l1, Overlapping(r)),
                    untouched |-> Untouched(r), output |-> s]
  BY DEF compact_passes
<1>2. merge_sstables(MergeInputs(r, v)) \in Table
  <2>1. MergeInputs(r, v) \in Seq(Table)
    BY MergeInputsProperties DEF LevelTypeOK
  <2> QED BY <2>1, MergeProperties
<1>3. disk0' \in Directory /\ disk1' \in Directory
  BY <1>1, <1>2 DEF LevelTypeOK, compact_passes, write_output, Directory
<1>4. /\ l0' = <<>> /\ l1' = <<>>
      /\ l0' \in Seq(Stamps) /\ l1' \in Seq(Stamps)
  BY EmptySeq DEF compact_passes, drain_l0
<1>5. /\ job' \in [todo0 : Seq(Stamps), todo1 : Seq(Stamps),
                   untouched : Seq(Stamps), output : Stamps \cup {0}]
      /\ job'.output # 0
  <2>1. Pick(l1, Overlapping(r)) \in Seq(Stamps) /\ Untouched(r) \in Seq(Stamps)
    BY SplitProperties DEF LevelTypeOK
  <2>2. s # 0
    BY DEF Stamps
  <2> QED BY <1>1, <2>1, <2>2 DEF LevelTypeOK
<1>6. clock' \in Stamps \cup {0}
  BY <1>1 DEF LevelTypeOK, now
<1> QED
  BY <1>3, <1>4, <1>5, <1>6 DEF LevelTypeOK

\* A failed compaction drains lists and changes nothing else but faults.
LEMMA ErrorPreservesType ==
    ASSUME LevelTypeOK, compact_l0_error \/ compact_l1_error
    PROVE  LevelTypeOK'
<1>1. l0' \in Seq(Stamps) /\ l1' \in Seq(Stamps)
  BY EmptySeq DEF LevelTypeOK, compact_l0_error, compact_l1_error, drain_l0
<1>2. faults' \in 0..MaxFaults /\ short' \in BOOLEAN
  BY LevelAssumption
     DEF LevelTypeOK, compact_l0_error, compact_l1_error, io_error, ioVars
<1>3. job' = job /\ Idle /\ Idle'
  BY DEF compact_l0_error, compact_l1_error, Idle
<1>4. disk0' = disk0 /\ disk1' = disk1 /\ clock' = clock
  BY DEF compact_l0_error, compact_l1_error
<1> QED
  BY <1>1, <1>2, <1>3, <1>4 DEF LevelTypeOK

\* A removal takes one input off its list.
LEMMA RemovePreservesType ==
    ASSUME LevelTypeOK, remove_l0_input \/ remove_l1_input
    PROVE  LevelTypeOK'
<1>1. CASE remove_l0_input
  <2>1. Head(job.todo0) \in Stamps /\ Tail(job.todo0) \in Seq(Stamps)
    BY <1>1, HeadTailProperties DEF LevelTypeOK, remove_l0_input
  <2>2. ~Idle
    BY <1>1, JobProperties DEF remove_l0_input, Idle
  <2>3. disk0' \in Directory /\ disk1' \in Directory
    BY <1>1, <2>1 DEF LevelTypeOK, remove_l0_input, Directory, io_error
  <2>4. faults' \in 0..MaxFaults /\ short' \in BOOLEAN
    BY <1>1, LevelAssumption DEF LevelTypeOK, remove_l0_input, io_error, ioVars
  <2>5. /\ job' \in [todo0 : Seq(Stamps), todo1 : Seq(Stamps),
                     untouched : Seq(Stamps), output : Stamps \cup {0}]
        /\ job'.output = job.output
    BY <1>1, <2>1 DEF LevelTypeOK, remove_l0_input
  <2>6. UNCHANGED <<l0, l1, clock>>
    BY <1>1 DEF remove_l0_input
  <2> QED BY <2>2, <2>3, <2>4, <2>5, <2>6 DEF LevelTypeOK
<1>2. CASE remove_l1_input
  <2>1. Head(job.todo1) \in Stamps /\ Tail(job.todo1) \in Seq(Stamps)
    BY <1>2, HeadTailProperties DEF LevelTypeOK, remove_l1_input
  <2>2. ~Idle
    BY <1>2, JobProperties DEF remove_l1_input, Idle
  <2>3. disk0' \in Directory /\ disk1' \in Directory
    BY <1>2, <2>1 DEF LevelTypeOK, remove_l1_input, Directory, io_error
  <2>4. faults' \in 0..MaxFaults /\ short' \in BOOLEAN
    BY <1>2, LevelAssumption DEF LevelTypeOK, remove_l1_input, io_error, ioVars
  <2>5. /\ job' \in [todo0 : Seq(Stamps), todo1 : Seq(Stamps),
                     untouched : Seq(Stamps), output : Stamps \cup {0}]
        /\ job'.output = job.output
    BY <1>2, <2>1 DEF LevelTypeOK, remove_l1_input
  <2>6. UNCHANGED <<l0, l1, clock>>
    BY <1>2 DEF remove_l1_input
  <2> QED BY <2>2, <2>3, <2>4, <2>5, <2>6 DEF LevelTypeOK
<1> QED
  BY <1>1, <1>2

\* Every step of compact keeps the types.
LEMMA CompactPreservesType ==
    ASSUME LevelTypeOK, compact_begin \/ compact_end
    PROVE  LevelTypeOK'
<1>1. CASE compact_merge \/ compact_merge_short
  <2>1. faults' \in 0..MaxFaults /\ short' \in BOOLEAN
    <3>1. CASE compact_merge
      BY <3>1 DEF LevelTypeOK, compact_merge, ioVars
    <3>2. CASE compact_merge_short
      BY <3>2, LevelAssumption DEF LevelTypeOK, compact_merge_short, short_scan
    <3> QED BY <1>1, <3>1, <3>2
  <2>2. L0Scannable(Files) /\ L1Scannable(Files)
    BY <1>1 DEF compact_merge, compact_merge_short, compact_passes
  <2>3. \E r, v \in Views : compact_passes(r, v)
    BY <1>1 DEF compact_merge, compact_merge_short, Views
  <2> QED BY <2>1, <2>2, <2>3, PassesPreserveType
<1>2. CASE compact_install
  <2>1. Append(job.untouched, job.output) \in Seq(Stamps)
    <3>1. job.untouched \in Seq(Stamps) /\ job.output \in Stamps
      BY <1>2 DEF LevelTypeOK, compact_install
    <3> QED BY <3>1, AppendProperties
  <2>2. UNCHANGED <<disk0, disk1, l0, clock, ioVars>> /\ job' = NoJob
    BY <1>2 DEF compact_install
  <2>3. l1' \in Seq(Stamps)
    BY <1>2, <2>1 DEF compact_install
  <2> QED BY <2>2, <2>3, JobProperties DEF LevelTypeOK, Idle, ioVars
<1> QED
  BY <1>1, <1>2, ErrorPreservesType, RemovePreservesType
     DEF compact_begin, compact_end

-----------------------------------------------------------------------------
(***************************************************************************)
(* The files under a strict clock.                                         *)
(***************************************************************************)

\* A list of L1 files: named no later than now, on disk, no two the same.
HaveFiles(paths) ==
    /\ \A i \in DOMAIN paths : paths[i] <= clock /\ disk1[paths[i]] # NoFile
    /\ \A i, j \in DOMAIN paths : i # j => paths[i] # paths[j]

\* No file still to be removed is one that will be installed.
KeptApart ==
    \A m \in DOMAIN job.todo1, n \in DOMAIN ToInstall : job.todo1[m] # ToInstall[n]

\* Tracked files exist, and so do those about to be installed.
FilesInv ==
    /\ LevelTypeOK
    /\ \A i \in DOMAIN l0 : disk0[l0[i]] # NoFile
    /\ HaveFiles(l1)
    /\ ~Idle => HaveFiles(ToInstall) /\ KeptApart

\* Readings of a strict clock grow.
LEMMA StrictNow ==
    ASSUME StrictClock, LevelTypeOK, NEW s \in Stamps, now(s)
    PROVE  clock < s /\ clock' = s /\ clock \in Int /\ s \in Int
  BY DEF StrictClock, LevelTypeOK, now, Stamps

\* What a merge under a strict clock does to the files, whatever its passes
\* see: its output replaces none of them, and what is to be installed is the
\* untouched files followed by the output.
LEMMA PassesProperties ==
    ASSUME StrictClock, FilesInv, L0Scannable(Files), L1Scannable(Files),
           NEW r \in Views, NEW v \in Views, compact_passes(r, v)
    PROVE  \E s \in Stamps :
             /\ clock < s /\ clock' = s
             /\ disk1' = [disk1 EXCEPT ![s] = merge_sstables(MergeInputs(r, v))]
             /\ disk1'[s] = merge_sstables(MergeInputs(r, v)) /\ disk1'[s] # NoFile
             /\ job'.todo1 = Pick(l1, Overlapping(r))
             /\ DOMAIN ToInstall' = DOMAIN Untouched(r) \cup {Len(Untouched(r)) + 1}
             /\ Len(Untouched(r)) + 1 \notin DOMAIN Untouched(r)
             /\ \A n \in DOMAIN Untouched(r) : ToInstall'[n] = Untouched(r)[n]
             /\ ToInstall'[Len(Untouched(r)) + 1] = s
             /\ \A i \in DOMAIN l1 :
                   /\ l1[i] \in Int /\ l1[i] <= clock /\ l1[i] < s
                   /\ disk1'[l1[i]] = disk1[l1[i]] /\ disk1[l1[i]] # NoFile
<1>1. PICK s \in Stamps :
         /\ now(s)
         /\ write_output(s, merge_sstables(MergeInputs(r, v)))
         /\ job' = [todo0 |-> l0, todo1 |-> Pick(l1, Overlapping(r)),
                    untouched |-> Untouched(r), output |-> s]
  BY DEF compact_passes
<1> DEFINE T == merge_sstables(MergeInputs(r, v))
<1>2. LevelTypeOK /\ HaveFiles(l1)
  BY DEF FilesInv
<1>3. clock < s /\ clock' = s /\ clock \in Int /\ s \in Int
  BY <1>1, <1>2, StrictNow DEF LevelTypeOK, Stamps
<1>4. disk1' = [disk1 EXCEPT ![s] = T] /\ disk1 \in Directory /\ T # NoFile
  <2>1. T \in Table
    BY <1>2, MergeInputsProperties, MergeProperties DEF LevelTypeOK
  <2> QED BY <1>1, <1>2, <2>1, TablesAssumption DEF write_output, LevelTypeOK
<1> HIDE DEF T
<1>5. ASSUME NEW i \in DOMAIN l1
      PROVE  /\ l1[i] \in Int /\ l1[i] <= clock /\ l1[i] < s
             /\ disk1'[l1[i]] = disk1[l1[i]]
             /\ disk1[l1[i]] # NoFile
  <2>1. l1[i] \in Stamps
    BY <1>2, LenProperties, ElementOfSeq DEF LevelTypeOK
  <2>2. l1[i] <= clock /\ disk1[l1[i]] # NoFile
    BY <1>2 DEF HaveFiles
  <2> QED BY <1>3, <1>4, <2>1, <2>2 DEF Stamps, Directory
<1>6. Untouched(r) \in Seq(Stamps)
  BY <1>2, SplitProperties DEF LevelTypeOK
<1>7. ToInstall' = Append(Untouched(r), s) /\ job'.todo1 = Pick(l1, Overlapping(r))
  BY <1>1 DEF ToInstall
<1>8. /\ DOMAIN ToInstall' = DOMAIN Untouched(r) \cup {Len(Untouched(r)) + 1}
      /\ Len(Untouched(r)) + 1 \notin DOMAIN Untouched(r)
      /\ \A n \in DOMAIN Untouched(r) : ToInstall'[n] = Untouched(r)[n]
      /\ ToInstall'[Len(Untouched(r)) + 1] = s
  <2>1. /\ Append(Untouched(r), s) \in Seq(Stamps)
        /\ Len(Append(Untouched(r), s)) = Len(Untouched(r)) + 1
        /\ \A i \in 1..Len(Untouched(r)) : Append(Untouched(r), s)[i] = Untouched(r)[i]
        /\ Append(Untouched(r), s)[Len(Untouched(r)) + 1] = s
    BY <1>6, AppendProperties
  <2>2. /\ DOMAIN Untouched(r) = 1..Len(Untouched(r)) /\ Len(Untouched(r)) \in Nat
        /\ DOMAIN Append(Untouched(r), s) = 1..Len(Append(Untouched(r), s))
    BY <1>6, <2>1, LenProperties
  <2> QED BY <1>7, <2>1, <2>2
<1>9. disk1'[s] = T /\ disk1'[s] # NoFile
  BY <1>4 DEF Directory
<1> QED
  BY <1>3, <1>4, <1>5, <1>7, <1>8, <1>9 DEF T

\* A merge leaves a list to install whose files are on disk, none of them one
\* of the inputs still to be removed.
LEMMA PassesPreserveFiles ==
    ASSUME StrictClock, FilesInv, L0Scannable(Files), L1Scannable(Files),
           NEW r \in Views, NEW v \in Views, compact_passes(r, v)
    PROVE  HaveFiles(ToInstall)' /\ KeptApart'
<1> DEFINE last == Len(Untouched(r)) + 1
<1>1. PICK s \in Stamps :
         /\ clock < s /\ clock' = s
         /\ disk1'[s] # NoFile
         /\ job'.todo1 = Pick(l1, Overlapping(r))
         /\ DOMAIN ToInstall' = DOMAIN Untouched(r) \cup {last}
         /\ \A n \in DOMAIN Untouched(r) : ToInstall'[n] = Untouched(r)[n]
         /\ ToInstall'[last] = s
         /\ \A i \in DOMAIN l1 :
               /\ l1[i] \in Int /\ l1[i] <= clock /\ l1[i] < s
               /\ disk1'[l1[i]] = disk1[l1[i]] /\ disk1[l1[i]] # NoFile
  BY PassesProperties
<1> HIDE DEF last
<1>2. clock \in Int /\ s \in Int /\ HaveFiles(l1)
  BY DEF FilesInv, LevelTypeOK, Stamps
<1>3. /\ \A n \in DOMAIN Pick(l1, Overlapping(r)) :
            \E i \in Overlapping(r) : Pick(l1, Overlapping(r))[n] = l1[i]
      /\ \A n \in DOMAIN Untouched(r) :
            \E i \in DOMAIN l1 \ Overlapping(r) : Untouched(r)[n] = l1[i]
      /\ \A m, n \in DOMAIN Untouched(r) : m # n =>
            \E i, j \in DOMAIN l1 \ Overlapping(r) :
               i # j /\ Untouched(r)[m] = l1[i] /\ Untouched(r)[n] = l1[j]
  BY SplitProperties DEF FilesInv, LevelTypeOK
<1>4. ASSUME NEW n \in DOMAIN ToInstall'
      PROVE  ToInstall'[n] <= clock' /\ disk1'[ToInstall'[n]] # NoFile
  <2>1. CASE n = last
    BY <1>1, <1>2, <2>1
  <2>2. CASE n \in DOMAIN Untouched(r)
    <3>1. PICK i \in DOMAIN l1 : Untouched(r)[n] = l1[i]
      BY <1>3, <2>2
    <3> QED BY <1>1, <1>2, <2>2, <3>1
  <2> QED BY <1>1, <2>1, <2>2
<1>5. ASSUME NEW n \in DOMAIN Untouched(r)
      PROVE  Untouched(r)[n] # s
  <2>1. PICK i \in DOMAIN l1 : Untouched(r)[n] = l1[i]
    BY <1>3
  <2> QED BY <1>1, <1>2, <2>1
<1>6. ASSUME NEW m \in DOMAIN ToInstall', NEW n \in DOMAIN ToInstall', m # n
      PROVE  ToInstall'[m] # ToInstall'[n]
  <2>1. CASE m = last \/ n = last
    BY <1>1, <1>5, <1>6, <2>1
  <2>2. CASE m \in DOMAIN Untouched(r) /\ n \in DOMAIN Untouched(r)
    <3>1. PICK i \in DOMAIN l1, j \in DOMAIN l1 :
             i # j /\ Untouched(r)[m] = l1[i] /\ Untouched(r)[n] = l1[j]
      BY <1>3, <1>6, <2>2
    <3>2. l1[i] # l1[j]
      BY <1>2, <3>1 DEF HaveFiles
    <3> QED BY <1>1, <2>2, <3>1, <3>2
  <2> QED BY <1>1, <2>1, <2>2
<1>7. ASSUME NEW m \in DOMAIN job'.todo1, NEW n \in DOMAIN ToInstall'
      PROVE  job'.todo1[m] # ToInstall'[n]
  <2>1. PICK i \in Overlapping(r) : job'.todo1[m] = l1[i]
    BY <1>1, <1>3
  <2>2. i \in DOMAIN l1
    BY DEF Overlapping
  <2>3. CASE n = last
    BY <1>1, <1>2, <2>1, <2>2, <2>3
  <2>4. CASE n \in DOMAIN Untouched(r)
    <3>1. PICK j \in DOMAIN l1 \ Overlapping(r) : Untouched(r)[n] = l1[j]
      BY <1>3, <2>4
    <3>2. l1[i] # l1[j]
      BY <1>2, <2>2, <3>1 DEF HaveFiles
    <3> QED BY <1>1, <2>1, <2>4, <3>1, <3>2
  <2> QED BY <1>1, <2>3, <2>4
<1> QED
  BY <1>4, <1>6, <1>7 DEF HaveFiles, KeptApart

\* Taking an input off disk leaves alone every file to be installed.
LEMMA RemoveKeepsInstalled ==
    ASSUME FilesInv, remove_l0_input \/ remove_l1_input
    PROVE  /\ ToInstall' = ToInstall /\ short' = short /\ KeptApart'
           /\ \A n \in DOMAIN ToInstall : disk1'[ToInstall[n]] = disk1[ToInstall[n]]
           /\ HaveFiles(ToInstall)'
<1>1. ~Idle
  BY JobProperties DEF remove_l0_input, remove_l1_input, Idle
<1>2. /\ HaveFiles(ToInstall) /\ KeptApart /\ LevelTypeOK
  BY <1>1 DEF FilesInv
<1>3. ToInstall' = ToInstall /\ clock' = clock /\ short' = short
  BY <1>2 DEF remove_l0_input, remove_l1_input, ToInstall, LevelTypeOK, io_error, ioVars
<1>4. CASE remove_l0_input
  <2>1. disk1' = disk1 /\ job'.todo1 = job.todo1
    BY <1>2, <1>4 DEF remove_l0_input, LevelTypeOK
  <2> QED BY <1>2, <1>3, <2>1 DEF HaveFiles, KeptApart
<1>5. CASE remove_l1_input
  <2>1. /\ job.todo1 \in Seq(Stamps) /\ job.todo1 # <<>>
        /\ job'.todo1 = Tail(job.todo1)
    BY <1>2, <1>5 DEF remove_l1_input, LevelTypeOK
  <2>2. \A m \in DOMAIN job'.todo1 :
           \E i \in DOMAIN job.todo1 : job'.todo1[m] = job.todo1[i]
    <3>1. /\ Tail(job.todo1) \in Seq(Stamps)
          /\ Len(Tail(job.todo1)) = Len(job.todo1) - 1
          /\ \A m \in 1..Len(Tail(job.todo1)) : Tail(job.todo1)[m] = job.todo1[m + 1]
      BY <2>1, HeadTailProperties
    <3>2. /\ DOMAIN job.todo1 = 1..Len(job.todo1) /\ Len(job.todo1) \in Nat
          /\ DOMAIN Tail(job.todo1) = 1..Len(Tail(job.todo1))
      BY <2>1, <3>1, LenProperties
    <3> TAKE m \in DOMAIN job'.todo1
    <3>3. m + 1 \in DOMAIN job.todo1 /\ job'.todo1[m] = job.todo1[m + 1]
      BY <2>1, <3>1, <3>2
    <3> QED BY <3>3
  <2>3. 1 \in DOMAIN job.todo1 /\ Head(job.todo1) = job.todo1[1]
    <3>1. Len(job.todo1) \in Nat \ {0} /\ DOMAIN job.todo1 = 1..Len(job.todo1)
      BY <2>1, EmptySeq, LenProperties
    <3> QED BY <2>1, <3>1
  <2>4. \A n \in DOMAIN ToInstall : disk1'[ToInstall[n]] = disk1[ToInstall[n]]
    <3> TAKE n \in DOMAIN ToInstall
    <3>1. ToInstall[n] # Head(job.todo1)
      BY <1>2, <2>3 DEF KeptApart
    <3>2. \/ disk1' = [disk1 EXCEPT ![Head(job.todo1)] = NoFile]
          \/ disk1' = disk1
      BY <1>5 DEF remove_l1_input
    <3>3. ToInstall[n] \in Stamps /\ disk1 \in Directory
      <4>1. ToInstall \in Seq(Stamps)
        <5>1. job.untouched \in Seq(Stamps) /\ job.output \in Stamps
          BY <1>1, <1>2 DEF LevelTypeOK
        <5> QED BY <5>1, AppendProperties DEF ToInstall
      <4> QED BY <1>2, <4>1, LenProperties, ElementOfSeq DEF LevelTypeOK
    <3> QED BY <3>1, <3>2, <3>3 DEF Directory
  <2>5. KeptApart'
    BY <1>2, <1>3, <2>2 DEF KeptApart
  <2>6. HaveFiles(ToInstall)'
    BY <1>2, <1>3, <2>4 DEF HaveFiles
  <2> QED BY <1>3, <2>4, <2>5, <2>6
<1> QED
  BY <1>4, <1>5

\* Every step of compact keeps the tracked files, and those it will install.
LEMMA CompactPreservesFiles ==
    ASSUME StrictClock, FilesInv, compact_begin \/ compact_end
    PROVE  FilesInv'
<1>1. LevelTypeOK'
  BY CompactPreservesType DEF FilesInv
<1>2. CASE compact_l0_error \/ compact_l1_error
  <2>1. Idle' /\ l0' = <<>> /\ (l1' = <<>> \/ l1' = l1)
    BY <1>2 DEF compact_l0_error, compact_l1_error, drain_l0, Idle
  <2>2. disk1' = disk1 /\ clock' = clock
    BY <1>2 DEF compact_l0_error, compact_l1_error
  <2>3. HaveFiles(l1)'
    BY <2>1, <2>2 DEF FilesInv, HaveFiles
  <2> QED BY <1>1, <2>1, <2>3 DEF FilesInv
<1>3. CASE compact_merge \/ compact_merge_short
  <2>1. /\ l0' = <<>> /\ l1' = <<>>
        /\ L0Scannable(Files) /\ L1Scannable(Files)
    BY <1>3 DEF compact_merge, compact_merge_short, compact_passes, drain_l0
  <2>2. HaveFiles(l1)'
    BY <2>1 DEF HaveFiles
  <2>3. HaveFiles(ToInstall)' /\ KeptApart'
    <3>1. \E r, v \in Views : compact_passes(r, v)
      BY <1>3 DEF compact_merge, compact_merge_short, Views
    <3> QED BY <2>1, <3>1, PassesPreserveFiles
  <2> QED BY <1>1, <2>1, <2>2, <2>3 DEF FilesInv
<1>4. CASE remove_l0_input \/ remove_l1_input
  <2>1. ~Idle /\ l0' = l0 /\ l1' = l1
    BY <1>4, JobProperties DEF remove_l0_input, remove_l1_input, Idle
  <2>2. l0' = <<>> /\ l1' = <<>>
    BY <2>1 DEF FilesInv, LevelTypeOK
  <2>3. HaveFiles(l1)'
    BY <2>2 DEF HaveFiles
  <2> QED BY <1>1, <1>4, <2>2, <2>3, RemoveKeepsInstalled DEF FilesInv
<1>5. CASE compact_install
  <2>1. ~Idle /\ Idle' /\ l1' = ToInstall
    BY <1>5 DEF compact_install, Idle, ToInstall
  <2>2. UNCHANGED <<disk0, disk1, l0, clock>>
    BY <1>5 DEF compact_install
  <2>3. HaveFiles(l1)'
    BY <2>1, <2>2 DEF FilesInv, HaveFiles
  <2> QED BY <1>1, <2>1, <2>2, <2>3 DEF FilesInv
<1> QED
  BY <1>2, <1>3, <1>4, <1>5 DEF compact_begin, compact_end

-----------------------------------------------------------------------------
(***************************************************************************)
(* L0, and the names that the clock has given.                             *)
(***************************************************************************)

\* The files that L0 tracks or a compaction has yet to remove, and those of L1
\* that a compaction has yet to remove.
Listed0 ==
    {l0[i] : i \in DOMAIN l0} \cup {job.todo0[i] : i \in DOMAIN job.todo0}

Listed1 == {job.todo1[i] : i \in DOMAIN job.todo1}

\* No file, and no entry of L0, is named later than now.
Dated ==
    /\ \A s \in Stamps : disk0[s] # NoFile => s <= clock
    /\ \A s \in Stamps : disk1[s] # NoFile => s <= clock
    /\ \A s \in Stamps : s \in Listed0 => s <= clock

\* The head of a list and the members of its tail are members of the list.
LEMMA TailMembers ==
    ASSUME NEW T, NEW s \in Seq(T), s # <<>>
    PROVE  /\ 1 \in DOMAIN s /\ Head(s) = s[1] /\ Head(s) \in T
           /\ \A m \in DOMAIN Tail(s) : \E i \in DOMAIN s : Tail(s)[m] = s[i]
<1>1. /\ Head(s) \in T /\ Tail(s) \in Seq(T)
      /\ Len(Tail(s)) = Len(s) - 1
      /\ \A m \in 1..Len(Tail(s)) : Tail(s)[m] = s[m + 1]
  BY HeadTailProperties
<1>2. /\ DOMAIN s = 1..Len(s) /\ Len(s) \in Nat \ {0}
      /\ DOMAIN Tail(s) = 1..Len(Tail(s))
  BY <1>1, EmptySeq, LenProperties
<1>3. \A m \in DOMAIN Tail(s) : m + 1 \in DOMAIN s /\ Tail(s)[m] = s[m + 1]
  BY <1>1, <1>2
<1> QED BY <1>1, <1>2, <1>3

\* compact takes L0 files off the list and off the disk, those on the list
\* only, and adds none.
LEMMA CompactOnL0 ==
    ASSUME LevelTypeOK, compact_begin \/ compact_end
    PROVE  /\ \A p \in Stamps : p \in Listed0' => p \in Listed0
           /\ \A p \in Stamps : p \notin Listed0 => disk0'[p] = disk0[p]
           /\ \A p \in Stamps : disk0'[p] # NoFile => disk0[p] = disk0'[p]
<1>1. CASE compact_l0_error \/ compact_l1_error
  <2>1. l0' = <<>> /\ job' = job /\ disk0' = disk0
    BY <1>1 DEF compact_l0_error, compact_l1_error, drain_l0
  <2> QED BY <2>1 DEF Listed0
<1>2. CASE compact_merge \/ compact_merge_short
  <2>1. l0' = <<>> /\ job'.todo0 = l0 /\ disk0' = disk0
    BY <1>2 DEF compact_merge, compact_merge_short, compact_passes, drain_l0
  <2> QED BY <2>1 DEF Listed0
<1>3. CASE remove_l0_input
  <2>1. /\ job.todo0 \in Seq(Stamps) /\ job.todo0 # <<>> /\ disk0 \in Directory
        /\ job'.todo0 = Tail(job.todo0) /\ l0' = l0
        /\ disk0' = disk0 \/ disk0' = [disk0 EXCEPT ![Head(job.todo0)] = NoFile]
    BY <1>3 DEF remove_l0_input, LevelTypeOK
  <2>2. /\ 1 \in DOMAIN job.todo0 /\ Head(job.todo0) = job.todo0[1]
        /\ \A m \in DOMAIN job'.todo0 :
              \E i \in DOMAIN job.todo0 : job'.todo0[m] = job.todo0[i]
    BY <2>1, TailMembers
  <2>3. \A p \in Stamps : p = Head(job.todo0) => p \in Listed0
    BY <2>2 DEF Listed0
  <2>4. \A p \in Stamps : \/ disk0'[p] = disk0[p]
                          \/ p = Head(job.todo0) /\ disk0'[p] = NoFile
    BY <2>1 DEF Directory
  <2> QED BY <2>1, <2>2, <2>3, <2>4 DEF Listed0
<1>4. CASE remove_l1_input \/ compact_install
  <2>1. l0' = l0 /\ disk0' = disk0 /\ (job'.todo0 = job.todo0 \/ job'.todo0 = <<>>)
    BY <1>4, JobProperties DEF remove_l1_input, compact_install, LevelTypeOK
  <2> QED BY <2>1 DEF Listed0
<1> QED BY <1>1, <1>2, <1>3, <1>4 DEF compact_begin, compact_end

\* Under a strict clock compact names its output last of all.
LEMMA CompactDated ==
    ASSUME StrictClock, FilesInv, Dated, compact_begin \/ compact_end
    PROVE  Dated' /\ clock <= clock'
<1>1. LevelTypeOK /\ clock \in Int
  BY DEF FilesInv, LevelTypeOK, Stamps
<1>2. \/ clock' = clock /\ \A s \in Stamps : disk1'[s] # NoFile => disk1[s] # NoFile
      \/ \E s \in Stamps : /\ clock < s /\ clock' = s
                           /\ \A p \in Stamps \ {s} : disk1'[p] = disk1[p]
  <2>1. CASE compact_l0_error \/ compact_l1_error \/ remove_l0_input \/ compact_install
    BY <2>1 DEF compact_l0_error, compact_l1_error, remove_l0_input, compact_install
  <2>2. CASE compact_merge \/ compact_merge_short
    <3>1. PICK r \in Views, v \in Views : compact_passes(r, v)
      BY <2>2 DEF compact_merge, compact_merge_short, Views
    <3>2. L0Scannable(Files) /\ L1Scannable(Files)
      BY <2>2 DEF compact_merge, compact_merge_short, compact_passes
    <3> DEFINE t == merge_sstables(MergeInputs(r, v))
    <3>3. \E s \in Stamps : /\ clock < s /\ clock' = s
                            /\ disk1' = [disk1 EXCEPT ![s] = t]
      BY <3>1, <3>2, PassesProperties
    <3> HIDE DEF t
    <3> QED BY <1>1, <3>3 DEF LevelTypeOK, Directory
  <2>3. CASE remove_l1_input
    BY <1>1, <2>3 DEF remove_l1_input, LevelTypeOK, Directory
  <2> QED BY <2>1, <2>2, <2>3 DEF compact_begin, compact_end
<1>3. clock' \in Int /\ clock <= clock'
  BY <1>1, <1>2 DEF Stamps
<1>4. \A s \in Stamps : disk1'[s] # NoFile => s <= clock'
  BY <1>1, <1>2 DEF Dated, Stamps
<1>5. \A s \in Stamps : (disk0'[s] # NoFile => s <= clock) /\ (s \in Listed0' => s <= clock)
  BY <1>1, CompactOnL0 DEF Dated
<1>6. \A s \in Stamps : (disk0'[s] # NoFile => s <= clock') /\ (s \in Listed0' => s <= clock')
  BY <1>1, <1>3, <1>5 DEF Stamps
<1> QED BY <1>3, <1>4, <1>6 DEF Dated

-----------------------------------------------------------------------------
(***************************************************************************)
(* The records.                                                            *)
(***************************************************************************)

\* Every record of a table is one of those that G allows its key.
Within(t, G) == \A k \in Keys : t[k] # Absent => t[k] \in G[k]

FilesWithin(G) ==
    \A s \in Stamps :
        /\ disk0[s] # NoFile => Within(disk0[s], G)
        /\ disk1[s] # NoFile => Within(disk1[s], G)

\* What a pass sees of a file is some of its records.
LEMMA ViewWithin ==
    ASSUME disk0 \in Directory, disk1 \in Directory,
           l0 \in Seq(Stamps), l1 \in Seq(Stamps),
           L0Scannable(Files), L1Scannable(Files),
           NEW G, FilesWithin(G), NEW v \in Views
    PROVE  /\ \A i \in DOMAIN l0 : Within(v.d0[l0[i]], G)
           /\ \A i \in DOMAIN l1 : Within(v.d1[l1[i]], G)
<1>1. /\ \A i \in DOMAIN l0 : l0[i] \in Stamps /\ disk0[l0[i]] # NoFile
      /\ \A i \in DOMAIN l1 : l1[i] \in Stamps /\ disk1[l1[i]] # NoFile
  BY LenProperties, ElementOfSeq DEF L0Scannable, L1Scannable, Scannable, Files
<1>2. /\ \A i \in DOMAIN l0 : Within(disk0[l0[i]], G)
      /\ \A i \in DOMAIN l1 : Within(disk1[l1[i]], G)
  BY <1>1 DEF FilesWithin
<1>3. CASE v = Files
  BY <1>2, <1>3 DEF Files
<1>4. ASSUME NEW d, Within(d, G), NEW t \in Cuts(d)
      PROVE  Within(t, G)
  BY <1>4 DEF Cuts, Within
<1>5. ASSUME NEW i \in DOMAIN l0, v \in CutInL0(i)
      PROVE  /\ \A n \in DOMAIN l0 : Within(v.d0[l0[n]], G)
             /\ \A n \in DOMAIN l1 : Within(v.d1[l1[n]], G)
  <2>1. PICK t \in Cuts(disk0[l0[i]]) : v = [Files EXCEPT !.d0[l0[i]] = t]
    BY <1>5 DEF CutInL0
  <2>2. v.d0 = [disk0 EXCEPT ![l0[i]] = t] /\ v.d1 = disk1
    BY <2>1 DEF Files
  <2>3. Within(t, G)
    BY <1>2, <1>4
  <2>4. \A n \in DOMAIN l0 : v.d0[l0[n]] = t \/ v.d0[l0[n]] = disk0[l0[n]]
    BY <1>1, <2>2 DEF Directory
  <2> QED BY <1>2, <2>2, <2>3, <2>4
<1>6. ASSUME NEW i \in DOMAIN l1, v \in CutInL1(i)
      PROVE  /\ \A n \in DOMAIN l0 : Within(v.d0[l0[n]], G)
             /\ \A n \in DOMAIN l1 : Within(v.d1[l1[n]], G)
  <2>1. PICK t \in Cuts(disk1[l1[i]]) : v = [Files EXCEPT !.d1[l1[i]] = t]
    BY <1>6 DEF CutInL1
  <2>2. v.d1 = [disk1 EXCEPT ![l1[i]] = t] /\ v.d0 = disk0
    BY <2>1 DEF Files
  <2>3. Within(t, G)
    BY <1>2, <1>4
  <2>4. \A n \in DOMAIN l1 : v.d1[l1[n]] = t \/ v.d1[l1[n]] = disk1[l1[n]]
    BY <1>1, <2>2 DEF Directory
  <2> QED BY <1>2, <2>2, <2>3, <2>4
<1>7. v \in ShortViews => \/ \E i \in DOMAIN l0 : v \in CutInL0(i)
                          \/ \E i \in DOMAIN l1 : v \in CutInL1(i)
  BY DEF ShortViews
<1> QED BY <1>3, <1>5, <1>6, <1>7 DEF Views

\* So are the records of a merge.
LEMMA MergeWithin ==
    ASSUME disk0 \in Directory, disk1 \in Directory,
           l0 \in Seq(Stamps), l1 \in Seq(Stamps),
           L0Scannable(Files), L1Scannable(Files),
           NEW G, FilesWithin(G), NEW r \in Views, NEW v \in Views
    PROVE  /\ Within(merge_sstables(MergeInputs(r, v)), G)
           /\ \A n \in DOMAIN MergeInputs(r, v) : Within(MergeInputs(r, v)[n], G)
<1> DEFINE M == MergeInputs(r, v)
<1>1. /\ M \in Seq(Table)
      /\ \A n \in DOMAIN M : \/ \E i \in DOMAIN l0 : M[n] = v.d0[l0[i]]
                             \/ \E i \in Overlapping(r) : M[n] = v.d1[l1[i]]
  BY MergeInputsProperties
<1>2. Overlapping(r) \subseteq DOMAIN l1
  BY DEF Overlapping
<1> HIDE DEF M
<1>3. \A n \in DOMAIN M : Within(M[n], G)
  BY <1>1, <1>2, ViewWithin
<1>4. Within(merge_sstables(M), G)
  BY <1>1, <1>3, MergeRecords DEF Within
<1> QED BY <1>3, <1>4 DEF M

\* compact invents no record, even if its scans are cut short.
LEMMA CompactWithin ==
    ASSUME LevelTypeOK, NEW G, FilesWithin(G), compact_begin \/ compact_end
    PROVE  FilesWithin(G)'
<1>1. \A s \in Stamps : disk0'[s] # NoFile => Within(disk0'[s], G)
  BY CompactOnL0 DEF FilesWithin
<1>2. \A s \in Stamps : disk1'[s] # NoFile => Within(disk1'[s], G)
  <2>1. CASE compact_l0_error \/ compact_l1_error \/ remove_l0_input \/ compact_install
    BY <2>1 DEF compact_l0_error, compact_l1_error, remove_l0_input,
                compact_install, FilesWithin
  <2>2. CASE compact_merge \/ compact_merge_short
    <3>1. PICK r \in Views, v \in Views : compact_passes(r, v)
      BY <2>2 DEF compact_merge, compact_merge_short, Views
    <3> DEFINE T == merge_sstables(MergeInputs(r, v))
    <3>2. \E s \in Stamps : disk1' = [disk1 EXCEPT ![s] = T]
      BY <3>1 DEF compact_passes, write_output
    <3>3. Within(T, G)
      <4>1. L0Scannable(Files) /\ L1Scannable(Files)
        BY <2>2 DEF compact_merge, compact_merge_short, compact_passes
      <4> QED BY <4>1, MergeWithin DEF LevelTypeOK
    <3> HIDE DEF T
    <3>4. \A s \in Stamps : disk1'[s] = T \/ disk1'[s] = disk1[s]
      BY <3>2 DEF LevelTypeOK, Directory
    <3> QED BY <3>3, <3>4 DEF FilesWithin
  <2>3. CASE remove_l1_input
    <3>1. \A s \in Stamps : disk1'[s] = NoFile \/ disk1'[s] = disk1[s]
      BY <2>3 DEF remove_l1_input, LevelTypeOK, Directory
    <3> QED BY <3>1 DEF FilesWithin
  <2> QED BY <2>1, <2>2, <2>3 DEF compact_begin, compact_end
<1> QED BY <1>1, <1>2 DEF FilesWithin

\* The merge leaves out none of the files it is to read.
LEMMA MergeInputsComplete ==
    ASSUME disk0 \in Directory, disk1 \in Directory,
           l0 \in Seq(Stamps), l1 \in Seq(Stamps),
           L0Scannable(Files), L1Scannable(Files),
           NEW r \in Views, NEW v \in Views
    PROVE  /\ \A i \in DOMAIN l0 :
                 \E n \in DOMAIN MergeInputs(r, v) : MergeInputs(r, v)[n] = v.d0[l0[i]]
           /\ \A i \in Overlapping(r) :
                 \E n \in DOMAIN MergeInputs(r, v) : MergeInputs(r, v)[n] = v.d1[l1[i]]
<1> DEFINE T0 == tables_of(v.d0, l0)
           T1 == tables_of(v.d1, l1)
           M1 == Pick(T1, Overlapping(r))
           M  == MergeInputs(r, v)
<1>1. /\ T0 \in Seq(Table)
      /\ DOMAIN T0 = DOMAIN l0
      /\ \A i \in DOMAIN l0 : T0[i] = v.d0[l0[i]]
  BY ViewProperties, TablesOfType
<1>2. /\ T1 \in Seq(Table)
      /\ DOMAIN T1 = DOMAIN l1
      /\ \A i \in DOMAIN l1 : T1[i] = v.d1[l1[i]]
  BY ViewProperties, TablesOfType
<1>3. M = T0 \o M1
  BY DEF MergeInputs
<1> HIDE DEF T0, T1
<1>4. Overlapping(r) \in SUBSET DOMAIN T1
  BY <1>2 DEF Overlapping
<1>5. M1 \in Seq(Table)
  BY <1>2, <1>4, PickProperties
<1>6. \A i \in Overlapping(r) : \E n \in DOMAIN M1 : M1[n] = T1[i]
  BY <1>2, <1>4, PickComplete
<1> HIDE DEF M1, M
<1>7. /\ DOMAIN T0 = 1..Len(T0) /\ Len(T0) \in Nat
      /\ DOMAIN M1 = 1..Len(M1) /\ Len(M1) \in Nat
  BY <1>1, <1>5, LenProperties
<1>8. /\ DOMAIN M = 1 .. Len(T0) + Len(M1)
      /\ \A i \in 1 .. Len(T0) + Len(M1) :
            M[i] = IF i <= Len(T0) THEN T0[i] ELSE M1[i - Len(T0)]
  <2>1. /\ M \in Seq(Table) /\ Len(M) = Len(T0) + Len(M1)
        /\ \A i \in 1 .. Len(T0) + Len(M1) :
              M[i] = IF i <= Len(T0) THEN T0[i] ELSE M1[i - Len(T0)]
    BY <1>1, <1>3, <1>5, ConcatProperties
  <2> QED BY <2>1, LenProperties
<1>9. \A n \in DOMAIN T0 : n \in DOMAIN M /\ M[n] = T0[n]
  BY <1>7, <1>8
<1>10. \A n \in DOMAIN M1 : Len(T0) + n \in DOMAIN M /\ M[Len(T0) + n] = M1[n]
  BY <1>7, <1>8
<1>11. \A i \in Overlapping(r) : \E n \in DOMAIN M : M[n] = v.d1[l1[i]]
  BY <1>2, <1>4, <1>6, <1>10
<1>12. \A i \in DOMAIN l0 : \E n \in DOMAIN M : M[n] = v.d0[l0[i]]
  BY <1>1, <1>9
<1> QED BY <1>11, <1>12 DEF M

\* A file that holds one of V under k and that no compaction is about to remove.
Stays0(s, k, V) ==
    /\ disk0[s] # NoFile /\ disk0[s][k] \in V
    /\ \A i \in DOMAIN job.todo0 : job.todo0[i] # s

Stays1(s, k, V) == disk1[s] # NoFile /\ disk1[s][k] \in V /\ s \notin Listed1

InFiles(k, V) == \E s \in Stamps : Stays0(s, k, V) \/ Stays1(s, k, V)

\* A merge that sees all of its inputs keeps a record of k, if the files hold no
\* other records of k than those of V, none of them a tombstone: in its output,
\* or in a file that it does not touch.
LEMMA MergeKeepsRecord ==
    ASSUME StrictClock, FilesInv, Dated, NEW k \in Keys,
           NEW V \in SUBSET (Values \ Tombstones),
           NEW G, FilesWithin(G), G[k] \subseteq V,
           InFiles(k, V), compact_merge
    PROVE  InFiles(k, V)'
<1> DEFINE M == MergeInputs(Files, Files)
           T == merge_sstables(M)
<1>1. /\ Files \in Views /\ Files.d0 = disk0 /\ Files.d1 = disk1
      /\ compact_passes(Files, Files) /\ LevelTypeOK
      /\ L0Scannable(Files) /\ L1Scannable(Files)
  BY FilesIsView DEF compact_merge, compact_passes, FilesInv
<1>2. PICK s \in Stamps :
         /\ clock < s /\ clock' = s /\ disk1' = [disk1 EXCEPT ![s] = T]
         /\ disk1'[s] = T /\ disk1'[s] # NoFile
         /\ job'.todo1 = Pick(l1, Overlapping(Files))
         /\ \A i \in DOMAIN l1 : l1[i] \in Int /\ l1[i] < s
  BY <1>1, PassesProperties
<1>3. disk0' = disk0 /\ job'.todo0 = l0
  BY <1>1 DEF compact_passes
<1>4. /\ M \in Seq(Table)
      /\ \A n \in DOMAIN M : Within(M[n], G)
      /\ \A i \in DOMAIN l0 : \E n \in DOMAIN M : M[n] = disk0[l0[i]]
      /\ \A i \in Overlapping(Files) : \E n \in DOMAIN M : M[n] = disk1[l1[i]]
  <2>1. M \in Seq(Table)
    BY <1>1, MergeInputsProperties DEF LevelTypeOK
  <2>2. \A n \in DOMAIN M : Within(M[n], G)
    BY <1>1, MergeWithin DEF LevelTypeOK
  <2>3. /\ \A i \in DOMAIN l0 : \E n \in DOMAIN M : M[n] = Files.d0[l0[i]]
        /\ \A i \in Overlapping(Files) : \E n \in DOMAIN M : M[n] = Files.d1[l1[i]]
    BY <1>1, MergeInputsComplete DEF LevelTypeOK
  <2> HIDE DEF M
  <2> QED BY <1>1, <2>1, <2>2, <2>3
<1> HIDE DEF M
<1>5. (\E n \in DOMAIN M : M[n][k] \in V) => T[k] \in V
  <2>1. \A n \in DOMAIN M : M[n][k] \in V \cup {Absent}
    BY <1>4 DEF Within
  <2> QED BY <1>4, <2>1, MergeRecords
<1> HIDE DEF T
<1>6. \A n \in DOMAIN job'.todo1 : \E i \in Overlapping(Files) : job'.todo1[n] = l1[i]
  BY <1>1, <1>2, SplitProperties DEF LevelTypeOK
<1>7. s \notin Listed1'
  <2>1. Overlapping(Files) \subseteq DOMAIN l1 /\ s \in Int
    BY DEF Overlapping, Stamps
  <2>2. \A i \in Overlapping(Files) : l1[i] # s
    BY <1>2, <2>1
  <2> QED BY <1>6, <2>2 DEF Listed1
<1>8. T[k] \in V => InFiles(k, V)'
  BY <1>2, <1>7 DEF InFiles, Stays1
<1>9. PICK p \in Stamps : Stays0(p, k, V) \/ Stays1(p, k, V)
  BY DEF InFiles
<1>10. CASE Stays0(p, k, V)
  <2>1. CASE \E i \in DOMAIN l0 : l0[i] = p
    BY <1>4, <1>5, <1>8, <1>10, <2>1 DEF Stays0
  <2>2. CASE \A i \in DOMAIN l0 : l0[i] # p
    BY <1>3, <1>10, <2>2 DEF Stays0, InFiles
  <2> QED BY <2>1, <2>2
<1>11. CASE Stays1(p, k, V)
  <2>1. CASE \E i \in Overlapping(Files) : l1[i] = p
    BY <1>4, <1>5, <1>8, <1>11, <2>1 DEF Stays1
  <2>2. CASE \A i \in Overlapping(Files) : l1[i] # p
    <3>1. p \notin Listed1'
      BY <1>6, <2>2 DEF Listed1
    <3>2. p # s
      BY <1>1, <1>2, <1>11 DEF Stays1, Dated, LevelTypeOK, Stamps
    <3>3. disk1'[p] = disk1[p]
      BY <1>1, <1>2, <3>2 DEF LevelTypeOK, Directory
    <3> QED BY <1>11, <3>1, <3>3 DEF Stays1, InFiles
  <2> QED BY <2>1, <2>2
<1> QED BY <1>9, <1>10, <1>11

\* So does every step of compact, if no scan is cut short.
LEMMA CompactKeepsRecord ==
    ASSUME StrictClock, FilesInv, Dated, NEW k \in Keys,
           NEW V \in SUBSET (Values \ Tombstones),
           NEW G, FilesWithin(G), G[k] \subseteq V,
           InFiles(k, V), compact_begin \/ compact_end, ~compact_merge_short
    PROVE  InFiles(k, V)'
<1>1. PICK p \in Stamps : Stays0(p, k, V) \/ Stays1(p, k, V)
  BY DEF InFiles
<1>2. LevelTypeOK
  BY DEF FilesInv
<1>3. CASE compact_l0_error \/ compact_l1_error
  <2>1. disk0' = disk0 /\ disk1' = disk1 /\ job' = job
    BY <1>3 DEF compact_l0_error, compact_l1_error
  <2> QED BY <1>1, <2>1 DEF InFiles, Stays0, Stays1, Listed1
<1>4. CASE remove_l0_input
  <2>1. /\ job.todo0 \in Seq(Stamps) /\ job.todo0 # <<>> /\ disk0 \in Directory
        /\ job'.todo0 = Tail(job.todo0) /\ job'.todo1 = job.todo1 /\ disk1' = disk1
        /\ disk0' = disk0 \/ disk0' = [disk0 EXCEPT ![Head(job.todo0)] = NoFile]
    BY <1>2, <1>4 DEF remove_l0_input, LevelTypeOK
  <2>2. /\ 1 \in DOMAIN job.todo0 /\ Head(job.todo0) = job.todo0[1]
        /\ \A m \in DOMAIN job'.todo0 :
              \E i \in DOMAIN job.todo0 : job'.todo0[m] = job.todo0[i]
    BY <2>1, TailMembers
  <2>3. \A q \in Stamps : q # Head(job.todo0) => disk0'[q] = disk0[q]
    BY <2>1 DEF Directory
  <2>4. Stays0(p, k, V) => Stays0(p, k, V)'
    BY <2>2, <2>3 DEF Stays0
  <2>5. Stays1(p, k, V) => Stays1(p, k, V)'
    BY <2>1 DEF Stays1, Listed1
  <2> QED BY <1>1, <2>4, <2>5 DEF InFiles
<1>5. CASE remove_l1_input
  <2>1. /\ job.todo1 \in Seq(Stamps) /\ job.todo1 # <<>> /\ disk1 \in Directory
        /\ job'.todo1 = Tail(job.todo1) /\ job'.todo0 = job.todo0 /\ disk0' = disk0
        /\ disk1' = disk1 \/ disk1' = [disk1 EXCEPT ![Head(job.todo1)] = NoFile]
    BY <1>2, <1>5 DEF remove_l1_input, LevelTypeOK
  <2>2. /\ 1 \in DOMAIN job.todo1 /\ Head(job.todo1) = job.todo1[1]
        /\ \A m \in DOMAIN job'.todo1 :
              \E i \in DOMAIN job.todo1 : job'.todo1[m] = job.todo1[i]
    BY <2>1, TailMembers
  <2>3. \A q \in Stamps : q # Head(job.todo1) => disk1'[q] = disk1[q]
    BY <2>1 DEF Directory
  <2>4. Stays1(p, k, V) => Stays1(p, k, V)'
    BY <2>2, <2>3 DEF Stays1, Listed1
  <2>5. Stays0(p, k, V) => Stays0(p, k, V)'
    BY <2>1 DEF Stays0
  <2> QED BY <1>1, <2>4, <2>5 DEF InFiles
<1>6. CASE compact_install
  <2>1. disk0' = disk0 /\ disk1' = disk1 /\ job'.todo0 = <<>> /\ job'.todo1 = <<>>
    BY <1>6, JobProperties DEF compact_install
  <2> QED BY <1>1, <2>1 DEF InFiles, Stays0, Stays1, Listed1
<1> QED
  BY <1>3, <1>4, <1>5, <1>6, MergeKeepsRecord DEF compact_begin, compact_end

-----------------------------------------------------------------------------
(***************************************************************************)
(* Searches, and files that no list may lose.                              *)
(***************************************************************************)

\* The tables of the files of a level.
LEMMA TablesMembers ==
    ASSUME NEW disk \in Directory, NEW paths \in Seq(Stamps),
           \A s \in ToSet(paths) : disk[s] # NoFile
    PROVE  /\ tables_of(disk, paths) \in Seq(Table)
           /\ ToSet(tables_of(disk, paths)) = {disk[s] : s \in ToSet(paths)}
<1>1. \A i \in DOMAIN paths : disk[paths[i]] # NoFile
  BY DEF ToSet
<1>2. /\ tables_of(disk, paths) \in Seq(Table)
      /\ DOMAIN tables_of(disk, paths) = DOMAIN paths
      /\ \A i \in DOMAIN paths : tables_of(disk, paths)[i] = disk[paths[i]]
  BY <1>1, TablesOfType
<1> QED BY <1>2 DEF ToSet

\* A search through L0 from its end and then L1 finds a record of V if the
\* files hold no others of the key, and one of them does.
LEMMA SearchFinds ==
    ASSUME NEW d0 \in Directory, NEW d1 \in Directory,
           NEW p0 \in Seq(Stamps), NEW p1 \in Seq(Stamps),
           NEW k \in Keys, NEW V \in SUBSET Values,
           \A s \in ToSet(p0) : d0[s] # NoFile /\ d0[s][k] \in V \cup {Absent},
           \A s \in ToSet(p1) : d1[s] # NoFile /\ d1[s][k] \in V \cup {Absent}
    PROVE  LET T0 == tables_of(d0, Reverse(p0))
               T1 == tables_of(d1, p1)
           IN  /\ T0 \in Seq(Table) /\ T1 \in Seq(Table)
               /\ \/ \E s \in ToSet(p0) : d0[s][k] \in V
                  \/ \E s \in ToSet(p1) : d1[s][k] \in V
                  => FirstRecord(T0 \o T1, k) \in V
<1> DEFINE T0 == tables_of(d0, Reverse(p0))
           T1 == tables_of(d1, p1)
<1>1. Reverse(p0) \in Seq(Stamps) /\ ToSet(Reverse(p0)) = ToSet(p0)
  BY ReverseMembers
<1>2. T0 \in Seq(Table) /\ ToSet(T0) = {d0[s] : s \in ToSet(p0)}
  <2>1. \A s \in ToSet(Reverse(p0)) : d0[s] # NoFile
    BY <1>1
  <2> QED BY <1>1, <2>1, TablesMembers
<1>3. T1 \in Seq(Table) /\ ToSet(T1) = {d1[s] : s \in ToSet(p1)}
  <2>1. \A s \in ToSet(p1) : d1[s] # NoFile
    OBVIOUS
  <2> QED BY <2>1, TablesMembers
<1> HIDE DEF T0, T1
<1>4. T0 \o T1 \in Seq(Table) /\ ToSet(T0 \o T1) = ToSet(T0) \cup ToSet(T1)
  BY <1>2, <1>3, ConcatMembers, ConcatProperties
<1>5. \A t \in ToSet(T0 \o T1) : t[k] \in V \cup {Absent}
  BY <1>2, <1>3, <1>4
<1>6. ASSUME \/ \E s \in ToSet(p0) : d0[s][k] \in V
             \/ \E s \in ToSet(p1) : d1[s][k] \in V
      PROVE  FirstRecord(T0 \o T1, k) \in V
  <2>1. \E t \in ToSet(T0 \o T1) : t[k] \in V
    BY <1>2, <1>3, <1>4, <1>6
  <2> QED BY <1>4, <1>5, <2>1, FirstRecordIn
<1> QED BY <1>2, <1>3, <1>6 DEF T0, T1

Live == Values \ Tombstones

\* Every file has a record, and is in a list: in L0 or about to be removed; in
\* L1, about to be installed there or about to be removed.
NoneEmpty ==
    \A s \in Stamps : /\ disk0[s] # NoFile => Present(disk0[s]) # {}
                      /\ disk1[s] # NoFile => Present(disk1[s]) # {}

Accounted1 == IF Idle THEN ToSet(l1) ELSE ToSet(ToInstall) \cup Listed1

\* Then compact can scan its inputs: it fails only if an I/O call does.
LEMMA ScansSucceed ==
    ASSUME FilesInv, NoneEmpty
    PROVE  L0Scannable(Files) /\ (Idle => L1Scannable(Files))
<1>1. /\ \A i \in DOMAIN l0 : l0[i] \in Stamps /\ disk0[l0[i]] # NoFile
      /\ \A i \in DOMAIN l1 : l1[i] \in Stamps /\ disk1[l1[i]] # NoFile
  BY LenProperties, ElementOfSeq DEF FilesInv, LevelTypeOK, HaveFiles
<1> QED BY <1>1 DEF NoneEmpty, L0Scannable, L1Scannable, Scannable, Files

LEMMA CompactWithoutFaults ==
    ASSUME FilesInv, NoneEmpty, faults = 0, faults' = 0, compact_begin
    PROVE  Idle /\ l0 # <<>> /\ compact_merge
<1>1. ~io_error /\ ~short_scan
  BY DEF io_error, short_scan
<1>2. L0Scannable(Files) /\ (Idle => L1Scannable(Files))
  BY ScansSucceed
<1> QED
  BY <1>1, <1>2 DEF compact_begin, compact_l0_error, compact_l1_error,
                    compact_merge_short, compact_merge, compact_passes

\* The output of a merge has a record if none of its inputs' is a tombstone.
LEMMA CompactNoneEmpty ==
    ASSUME StrictClock, FilesInv, NoneEmpty, faults = 0, faults' = 0,
           NEW G, FilesWithin(G), \A k \in Keys : G[k] \subseteq Live,
           compact_begin \/ compact_end
    PROVE  NoneEmpty'
<1>1. LevelTypeOK
  BY DEF FilesInv
<1>2. CASE compact_begin
  <2> DEFINE M == MergeInputs(Files, Files)
             T == merge_sstables(M)
  <2>1. /\ compact_merge /\ l0 # <<>> /\ L0Scannable(Files) /\ L1Scannable(Files)
        /\ compact_passes(Files, Files) /\ disk0' = disk0
        /\ Files \in Views /\ Files.d0 = disk0
    BY <1>2, CompactWithoutFaults, ScansSucceed, FilesIsView
       DEF compact_merge, compact_passes
  <2>2. PICK s \in Stamps : disk1' = [disk1 EXCEPT ![s] = T]
    BY <2>1, PassesProperties
  <2>3. /\ M \in Seq(Table) /\ \A n \in DOMAIN M : Within(M[n], G)
        /\ \A i \in DOMAIN l0 : \E n \in DOMAIN M : M[n] = disk0[l0[i]]
    <3>1. M \in Seq(Table)
      BY <1>1, <2>1, MergeInputsProperties DEF LevelTypeOK
    <3>2. \A n \in DOMAIN M : Within(M[n], G)
      BY <1>1, <2>1, MergeWithin DEF LevelTypeOK
    <3>3. \A i \in DOMAIN l0 : \E n \in DOMAIN M : M[n] = Files.d0[l0[i]]
      BY <1>1, <2>1, MergeInputsComplete DEF LevelTypeOK
    <3> HIDE DEF M
    <3> QED BY <2>1, <3>1, <3>2, <3>3
  <2>4. 1 \in DOMAIN l0 /\ l0[1] \in Stamps /\ disk0[l0[1]] # NoFile
    <3>1. Len(l0) \in Nat /\ DOMAIN l0 = 1..Len(l0) /\ Len(l0) # 0
      BY <1>1, <2>1, LenProperties, EmptySeq DEF LevelTypeOK
    <3>2. 1 \in DOMAIN l0
      BY <3>1
    <3> QED BY <1>1, <3>1, <3>2, ElementOfSeq DEF FilesInv, LevelTypeOK
  <2>5. PICK k \in Keys : disk0[l0[1]][k] # Absent
    BY <2>4 DEF NoneEmpty, Present
  <2> HIDE DEF M
  <2>6. \A n \in DOMAIN M : M[n][k] \in Live \cup {Absent}
    BY <2>3 DEF Within
  <2>7. \E n \in DOMAIN M : M[n][k] \in Live
    BY <2>3, <2>4, <2>5, <2>6
  <2>8. T[k] \in Live
    BY <2>3, <2>6, <2>7, MergeRecords DEF Live
  <2> HIDE DEF T
  <2>9. Present(T) # {}
    BY <2>8, TablesAssumption DEF Present, Live
  <2>10. \A p \in Stamps : disk1'[p] = T \/ disk1'[p] = disk1[p]
    BY <1>1, <2>2 DEF LevelTypeOK, Directory
  <2> QED BY <2>1, <2>9, <2>10 DEF NoneEmpty
<1>3. CASE compact_end
  <2>1. \A s \in Stamps : /\ disk0'[s] = disk0[s] \/ disk0'[s] = NoFile
                          /\ disk1'[s] = disk1[s] \/ disk1'[s] = NoFile
    BY <1>1, <1>3 DEF compact_end, remove_l0_input, remove_l1_input, compact_install,
                      LevelTypeOK, Directory
  <2> QED BY <2>1 DEF NoneEmpty
<1> QED BY <1>2, <1>3

\* A member of a list is its head or a member of its tail.
LEMMA HeadOrTail ==
    ASSUME NEW T, NEW s \in Seq(T), s # <<>>
    PROVE  \A i \in DOMAIN s :
              s[i] = Head(s) \/ \E m \in DOMAIN Tail(s) : Tail(s)[m] = s[i]
<1>1. /\ Tail(s) \in Seq(T) /\ Len(Tail(s)) = Len(s) - 1
      /\ \A m \in 1..Len(Tail(s)) : Tail(s)[m] = s[m + 1]
  BY HeadTailProperties
<1>2. /\ DOMAIN s = 1..Len(s) /\ Len(s) \in Nat \ {0}
      /\ DOMAIN Tail(s) = 1..Len(Tail(s)) /\ Head(s) = s[1]
  BY <1>1, EmptySeq, LenProperties
<1>3. \A i \in DOMAIN s : i # 1 =>
         i - 1 \in DOMAIN Tail(s) /\ Tail(s)[i - 1] = s[i]
  BY <1>1, <1>2
<1> QED BY <1>2, <1>3

\* compact loses sight of no file that it does not delete.
LEMMA CompactAccounts ==
    ASSUME StrictClock, FilesInv, NoneEmpty, faults = 0, faults' = 0,
           \A s \in Stamps : disk1[s] # NoFile => s \in Accounted1,
           compact_begin \/ compact_end
    PROVE  /\ \A s \in Stamps : disk0'[s] # NoFile /\ s \in Listed0 => s \in Listed0'
           /\ \A s \in Stamps : disk1'[s] # NoFile => s \in Accounted1'
<1>1. LevelTypeOK
  BY DEF FilesInv
<1>2. CASE compact_begin
  <2>1. /\ Idle /\ compact_passes(Files, Files) /\ Files \in Views
        /\ L0Scannable(Files) /\ L1Scannable(Files) /\ disk0' = disk0
        /\ l0' = <<>> /\ job'.todo0 = l0 /\ job.todo0 = <<>>
    BY <1>2, CompactWithoutFaults, ScansSucceed, FilesIsView, JobProperties
       DEF compact_merge, compact_passes, drain_l0, Idle
  <2>2. PICK s \in Stamps :
          /\ disk1' = [disk1 EXCEPT ![s] = merge_sstables(MergeInputs(Files, Files))]
          /\ job'.todo1 = Pick(l1, Overlapping(Files))
          /\ DOMAIN ToInstall' =
                DOMAIN Untouched(Files) \cup {Len(Untouched(Files)) + 1}
          /\ \A n \in DOMAIN Untouched(Files) : ToInstall'[n] = Untouched(Files)[n]
          /\ ToInstall'[Len(Untouched(Files)) + 1] = s
    BY <2>1, PassesProperties
  <2>3. \A p \in Stamps : p # s => disk1'[p] = disk1[p]
    BY <1>1, <2>2 DEF LevelTypeOK, Directory
  <2>4. ~Idle'
    BY <2>1, JobProperties DEF compact_passes, Idle, NoJob, Stamps
  <2>5. s \in ToSet(ToInstall)'
    BY <2>2 DEF ToSet
  <2>6. ASSUME NEW i \in DOMAIN l1
        PROVE  l1[i] \in Listed1' \/ l1[i] \in ToSet(ToInstall)'
    <3>1. /\ Overlapping(Files) \in SUBSET DOMAIN l1 /\ l1 \in Seq(Stamps)
          /\ DOMAIN l1 \ Overlapping(Files) \in SUBSET DOMAIN l1
      BY <1>1 DEF Overlapping, LevelTypeOK
    <3>2. CASE i \in Overlapping(Files)
      <4>1. \E n \in DOMAIN Pick(l1, Overlapping(Files)) :
               Pick(l1, Overlapping(Files))[n] = l1[i]
        BY <3>1, <3>2, PickComplete
      <4> QED BY <2>2, <4>1 DEF Listed1
    <3>3. CASE i \notin Overlapping(Files)
      <4> DEFINE I == DOMAIN l1 \ Overlapping(Files)
      <4>1. i \in I /\ I \in SUBSET DOMAIN l1
        BY <3>1, <3>3
      <4> HIDE DEF I
      <4>2. \E n \in DOMAIN Pick(l1, I) : Pick(l1, I)[n] = l1[i]
        BY <3>1, <4>1, PickComplete
      <4>3. \E n \in DOMAIN Untouched(Files) : Untouched(Files)[n] = l1[i]
        BY <4>2 DEF Untouched, I
      <4> QED BY <2>2, <4>3 DEF ToSet
    <3> QED BY <3>2, <3>3
  <2>7. \A p \in Stamps : disk1'[p] # NoFile => p \in Accounted1'
    <3> TAKE p \in Stamps
    <3>1. CASE p = s
      BY <2>4, <2>5, <3>1 DEF Accounted1
    <3>2. CASE p # s
      <4>1. disk1'[p] # NoFile => \E i \in DOMAIN l1 : l1[i] = p
        BY <2>1, <2>3, <3>2 DEF Accounted1, ToSet
      <4> QED BY <2>4, <2>6, <4>1 DEF Accounted1
    <3> QED BY <3>1, <3>2
  <2>8. \A p \in Stamps : p \in Listed0 => p \in Listed0'
    BY <2>1 DEF Listed0
  <2> QED BY <2>7, <2>8
<1>3. CASE remove_l0_input
  <2>1. /\ job.todo0 \in Seq(Stamps) /\ job.todo0 # <<>> /\ disk0 \in Directory
        /\ disk0' = [disk0 EXCEPT ![Head(job.todo0)] = NoFile] /\ disk1' = disk1
        /\ job'.todo0 = Tail(job.todo0) /\ job'.todo1 = job.todo1
        /\ ToInstall' = ToInstall /\ l0' = l0
    BY <1>1, <1>3 DEF remove_l0_input, io_error, LevelTypeOK, ToInstall
  <2>2. ~Idle /\ ~Idle'
    BY <1>1, <1>3, JobProperties DEF remove_l0_input, LevelTypeOK, Idle
  <2>3. \A s \in Stamps : disk0'[s] # NoFile /\ s \in Listed0 => s \in Listed0'
    <3> TAKE s \in Stamps
    <3>1. disk0'[s] # NoFile => s # Head(job.todo0)
      BY <2>1 DEF Directory
    <3>2. \A i \in DOMAIN job.todo0 :
             job.todo0[i] = Head(job.todo0)
                \/ \E m \in DOMAIN Tail(job.todo0) : Tail(job.todo0)[m] = job.todo0[i]
      BY <2>1, HeadOrTail
    <3> QED BY <2>1, <3>1, <3>2 DEF Listed0
  <2>4. Listed1' = Listed1
    BY <2>1 DEF Listed1
  <2> QED BY <2>1, <2>2, <2>3, <2>4 DEF Accounted1
<1>4. CASE remove_l1_input
  <2>1. /\ job.todo1 \in Seq(Stamps) /\ job.todo1 # <<>> /\ disk1 \in Directory
        /\ disk1' = [disk1 EXCEPT ![Head(job.todo1)] = NoFile] /\ disk0' = disk0
        /\ job'.todo1 = Tail(job.todo1) /\ job'.todo0 = job.todo0
        /\ ToInstall' = ToInstall /\ l0' = l0
    BY <1>1, <1>4 DEF remove_l1_input, io_error, LevelTypeOK, ToInstall
  <2>2. ~Idle /\ ~Idle'
    BY <1>1, <1>4, JobProperties DEF remove_l1_input, LevelTypeOK, Idle
  <2>3. \A s \in Stamps : disk1'[s] # NoFile /\ s \in Listed1 => s \in Listed1'
    <3> TAKE s \in Stamps
    <3>1. disk1'[s] # NoFile => s # Head(job.todo1)
      BY <2>1 DEF Directory
    <3>2. \A i \in DOMAIN job.todo1 :
             job.todo1[i] = Head(job.todo1)
                \/ \E m \in DOMAIN Tail(job.todo1) : Tail(job.todo1)[m] = job.todo1[i]
      BY <2>1, HeadOrTail
    <3> QED BY <2>1, <3>1, <3>2 DEF Listed1
  <2>4. Listed0' = Listed0
    BY <2>1 DEF Listed0
  <2>5. \A s \in Stamps : disk1'[s] # NoFile => disk1[s] # NoFile
    BY <2>1 DEF Directory
  <2> QED BY <2>1, <2>2, <2>3, <2>4, <2>5 DEF Accounted1
<1>5. CASE compact_install
  <2>1. /\ ~Idle /\ Idle' /\ l1' = ToInstall /\ l0' = l0 /\ disk0' = disk0
        /\ disk1' = disk1 /\ job.todo0 = <<>> /\ job.todo1 = <<>>
        /\ job'.todo0 = <<>>
    BY <1>5, JobProperties DEF compact_install, Idle, ToInstall
  <2>2. Listed0' = Listed0 /\ Listed1 = {}
    BY <2>1 DEF Listed0, Listed1
  <2> QED BY <2>1, <2>2 DEF Accounted1
<1> QED BY <1>2, <1>3, <1>4, <1>5 DEF compact_end

-----------------------------------------------------------------------------
(***************************************************************************)
(* The one record of a key, and what a merge makes of it.                  *)
(***************************************************************************)

\* x is the only record that the files in S have of k, Absent if none has one.
OneRecord(disk, S, k, x) ==
    /\ x \in Values \cup {Absent}
    /\ \A s \in S : disk[s][k] \in {x, Absent}
    /\ x # Absent => \E s \in S : disk[s][k] = x

\* There is one if no two of the files have the key.
LEMMA OneRecordExists ==
    ASSUME NEW disk \in Directory, NEW S \in SUBSET Stamps, NEW k \in Keys,
           \A s \in S : disk[s] # NoFile,
           \A s, t \in S : disk[s][k] # Absent /\ disk[t][k] # Absent => s = t
    PROVE  \E x : OneRecord(disk, S, k, x)
<1>1. \A s \in S : disk[s][k] \in Values \cup {Absent}
  BY DEF Directory, Table
<1>2. CASE \A s \in S : disk[s][k] = Absent
  <2>1. OneRecord(disk, S, k, Absent)
    BY <1>2 DEF OneRecord
  <2> QED BY <2>1
<1>3. ASSUME NEW s \in S, disk[s][k] # Absent
      PROVE  \E x : OneRecord(disk, S, k, x)
  <2>1. OneRecord(disk, S, k, disk[s][k])
    BY <1>1, <1>3 DEF OneRecord
  <2> QED BY <2>1
<1> QED BY <1>2, <1>3

\* It is what a search of a list of those files finds.
LEMMA OneRecordFound ==
    ASSUME NEW disk \in Directory, NEW paths \in Seq(Stamps), NEW k \in Keys, NEW x,
           \A s \in ToSet(paths) : disk[s] # NoFile,
           OneRecord(disk, ToSet(paths), k, x)
    PROVE  /\ tables_of(disk, paths) \in Seq(Table)
           /\ FirstRecord(tables_of(disk, paths), k) = x
<1> DEFINE ts == tables_of(disk, paths)
<1>1. ts \in Seq(Table) /\ ToSet(ts) = {disk[s] : s \in ToSet(paths)}
  BY TablesMembers
<1> HIDE DEF ts
<1>2. /\ x \in Values \cup {Absent}
      /\ \A t \in ToSet(ts) : t[k] \in {x, Absent}
      /\ x # Absent => \E t \in ToSet(ts) : t[k] = x
  BY <1>1 DEF OneRecord
<1>3. FirstRecord(ts, k) = x
  BY <1>1, <1>2, FirstRecordOnly
<1> QED BY <1>1, <1>3 DEF ts

\* A merge: O is what it takes of L1, all files that share a key with L0, and s
\* its output; a record of L0 goes before one of O.
Merges(s, O, out) ==
    /\ clock < s /\ s \notin ToSet(l1) /\ O \subseteq ToSet(l1)
    /\ disk0' = disk0 /\ disk1' = [disk1 EXCEPT ![s] = out] /\ disk1'[s] = out
    /\ Idle /\ ~Idle'
    /\ job'.todo0 = l0 /\ ToSet(job'.todo1) = O
    /\ ToSet(ToInstall') = (ToSet(l1) \ O) \cup {s}
    /\ \A p \in ToSet(l0), q \in ToSet(l1), k \in Keys :
          disk0[p][k] # Absent /\ disk1[q][k] # Absent => q \in O
    /\ \A k \in Keys : \A x0, x1 :
          OneRecord(disk0, ToSet(l0), k, x0)
              /\ (x0 = Absent => OneRecord(disk1, O, k, x1))
          => out[k] = Answer(IF x0 # Absent THEN x0 ELSE x1)

LEMMA MergeStep ==
    ASSUME StrictClock, FilesInv, compact_merge
    PROVE  \E s \in Stamps, O \in SUBSET Stamps, out \in Table : Merges(s, O, out)
<1> DEFINE T0 == tables_of(disk0, l0)
           T1 == tables_of(disk1, l1)
           I == Overlapping(Files)
           J == DOMAIN l1 \ I
           O == {l1[i] : i \in I}
           M1 == Pick(T1, I)
           M == MergeInputs(Files, Files)
           out == merge_sstables(M)
<1>1. /\ L0Scannable(Files) /\ L1Scannable(Files) /\ compact_passes(Files, Files)
      /\ LevelTypeOK /\ Idle /\ Files \in Views
      /\ disk0 \in Directory /\ disk1 \in Directory
      /\ l0 \in Seq(Stamps) /\ l1 \in Seq(Stamps)
      /\ \A i \in DOMAIN l0 : disk0[l0[i]] # NoFile
      /\ \A i \in DOMAIN l1 : l1[i] \in Stamps /\ disk1[l1[i]] # NoFile
      /\ \A i, j \in DOMAIN l1 : i # j => l1[i] # l1[j]
  <2>1. /\ L0Scannable(Files) /\ L1Scannable(Files) /\ compact_passes(Files, Files)
        /\ LevelTypeOK /\ Idle /\ HaveFiles(l1)
        /\ \A i \in DOMAIN l0 : disk0[l0[i]] # NoFile
    BY DEF FilesInv, compact_merge, compact_passes
  <2>2. \A i \in DOMAIN l1 : l1[i] \in Stamps
    BY <2>1, LenProperties, ElementOfSeq DEF LevelTypeOK
  <2> QED BY <2>1, <2>2, FilesIsView DEF HaveFiles, LevelTypeOK
<1>2. /\ I \in SUBSET DOMAIN l1 /\ J \in SUBSET DOMAIN l1
      /\ O \in SUBSET Stamps /\ O \subseteq ToSet(l1)
      /\ ToSet(l1) \ O = {l1[i] : i \in J}
  <2>1. I \in SUBSET DOMAIN l1
    BY DEF Overlapping
  <2> QED BY <1>1, <2>1 DEF ToSet
<1>3. PICK s \in Stamps :
         /\ clock < s
         /\ disk1' = [disk1 EXCEPT ![s] = out] /\ disk1'[s] = out
         /\ job'.todo1 = Pick(l1, I)
         /\ DOMAIN ToInstall' = DOMAIN Untouched(Files) \cup {Len(Untouched(Files)) + 1}
         /\ \A n \in DOMAIN Untouched(Files) : ToInstall'[n] = Untouched(Files)[n]
         /\ ToInstall'[Len(Untouched(Files)) + 1] = s
         /\ \A i \in DOMAIN l1 : l1[i] \in Int /\ l1[i] < s
  <2> HIDE DEF I, M
  <2>1. \E s \in Stamps :
             /\ clock < s /\ clock' = s
             /\ disk1' = [disk1 EXCEPT ![s] = out]
             /\ disk1'[s] = out /\ disk1'[s] # NoFile
             /\ job'.todo1 = Pick(l1, I)
             /\ DOMAIN ToInstall' = DOMAIN Untouched(Files) \cup {Len(Untouched(Files)) + 1}
             /\ Len(Untouched(Files)) + 1 \notin DOMAIN Untouched(Files)
             /\ \A n \in DOMAIN Untouched(Files) : ToInstall'[n] = Untouched(Files)[n]
             /\ ToInstall'[Len(Untouched(Files)) + 1] = s
             /\ \A i \in DOMAIN l1 :
                   /\ l1[i] \in Int /\ l1[i] <= clock /\ l1[i] < s
                   /\ disk1'[l1[i]] = disk1[l1[i]] /\ disk1[l1[i]] # NoFile
    BY <1>1, PassesProperties DEF I, M
  <2> HIDE DEF out
  <2> QED BY <2>1, Zenon
<1>4. s \notin ToSet(l1)
  <2>1. s \in Int
    BY DEF Stamps
  <2> QED BY <1>3, <2>1 DEF ToSet
<1>5. disk0' = disk0 /\ job'.todo0 = l0 /\ ~Idle'
  BY <1>1, JobProperties DEF compact_passes, Idle, NoJob, Stamps
<1>6. ToSet(job'.todo1) = O
  <2>1. \A n \in DOMAIN Pick(l1, I) : \E i \in I : Pick(l1, I)[n] = l1[i]
    BY <1>1, SplitProperties
  <2>2. \A i \in I : \E n \in DOMAIN Pick(l1, I) : Pick(l1, I)[n] = l1[i]
    <3> HIDE DEF I
    <3> QED BY <1>1, <1>2, PickComplete
  <2> HIDE DEF I
  <2> QED BY <1>3, <2>1, <2>2 DEF ToSet
<1>7. ToSet(ToInstall') = (ToSet(l1) \ O) \cup {s}
  <2>1. \A n \in DOMAIN Untouched(Files) : \E i \in J : Untouched(Files)[n] = l1[i]
    BY <1>1, SplitProperties
  <2>2. \A i \in J : \E n \in DOMAIN Untouched(Files) : Untouched(Files)[n] = l1[i]
    <3>1. Untouched(Files) = Pick(l1, J)
      BY DEF Untouched
    <3> HIDE DEF J
    <3> QED BY <1>1, <1>2, <3>1, PickComplete
  <2>3. ToSet(ToInstall') = {l1[i] : i \in J} \cup {s}
    <3> HIDE DEF J
    <3> QED BY <1>3, <2>1, <2>2 DEF ToSet
  <2> QED BY <1>2, <2>3
<1>8. ASSUME NEW p \in ToSet(l0), NEW q \in ToSet(l1), NEW k \in Keys,
             disk0[p][k] # Absent, disk1[q][k] # Absent
      PROVE  q \in O
  <2>1. PICK i \in DOMAIN l0, j \in DOMAIN l1 : p = l0[i] /\ q = l1[j]
    BY DEF ToSet
  <2> DEFINE A == UNION {Present(disk0[l0[m]]) : m \in DOMAIN l0}
             B == Present(disk1[l1[j]])
  <2>2. k \in A /\ k \in B /\ k <= k
    BY <1>8, <2>1, TablesAssumption DEF Present
  <2>3. ranges_overlap(A, B)
    BY <2>2 DEF ranges_overlap
  <2>4. j \in I
    BY <2>3 DEF Overlapping, Files
  <2> QED BY <2>1, <2>4
<1>9. T0 \in Seq(Table) /\ ToSet(T0) = {disk0[p] : p \in ToSet(l0)}
  <2>1. \A p \in ToSet(l0) : disk0[p] # NoFile
    BY <1>1 DEF ToSet
  <2> QED BY <1>1, <2>1, TablesMembers
<1>10. M1 \in Seq(Table) /\ ToSet(M1) = {disk1[q] : q \in O}
  <2>1. /\ T1 \in Seq(Table) /\ DOMAIN T1 = DOMAIN l1
        /\ \A i \in DOMAIN l1 : T1[i] = disk1[l1[i]]
    BY <1>1, TablesOfType
  <2> HIDE DEF T1, I
  <2>2. I \in SUBSET DOMAIN T1
    BY <1>2, <2>1
  <2>3. /\ M1 \in Seq(Table)
        /\ \A n \in DOMAIN M1 : Sorted(I)[n] \in I /\ M1[n] = T1[Sorted(I)[n]]
    BY <2>1, <2>2, PickProperties
  <2>4. \A i \in I : \E n \in DOMAIN M1 : M1[n] = T1[i]
    BY <2>1, <2>2, PickComplete
  <2> HIDE DEF M1
  <2> QED BY <1>2, <2>1, <2>3, <2>4 DEF ToSet
<1>11. M = T0 \o M1
  BY DEF MergeInputs, Files
<1>12. out \in Table
  <2>1. M \in Seq(Table)
    BY <1>1, MergeInputsProperties
  <2> HIDE DEF M
  <2> QED BY <2>1, MergeProperties
<1>13. ASSUME NEW k \in Keys, NEW x0, NEW x1, OneRecord(disk0, ToSet(l0), k, x0),
              x0 = Absent => OneRecord(disk1, O, k, x1)
       PROVE  out[k] = Answer(IF x0 # Absent THEN x0 ELSE x1)
  <2> HIDE DEF T0, M1, O
  <2>1. FirstRecord(T0, k) = x0
    <3>1. /\ x0 \in Values \cup {Absent}
          /\ \A t \in ToSet(T0) : t[k] \in {x0, Absent}
          /\ x0 # Absent => \E t \in ToSet(T0) : t[k] = x0
      BY <1>9, <1>13 DEF OneRecord
    <3> QED BY <1>9, <3>1, FirstRecordOnly
  <2>2. x0 = Absent => FirstRecord(M1, k) = x1
    <3> SUFFICES ASSUME x0 = Absent PROVE FirstRecord(M1, k) = x1
      OBVIOUS
    <3>1. /\ x1 \in Values \cup {Absent}
          /\ \A t \in ToSet(M1) : t[k] \in {x1, Absent}
          /\ x1 # Absent => \E t \in ToSet(M1) : t[k] = x1
      BY <1>10, <1>13 DEF OneRecord
    <3> QED BY <1>10, <3>1, FirstRecordOnly
  <2>3. FirstRecord(M, k) = IF x0 # Absent THEN x0 ELSE FirstRecord(M1, k)
    BY <1>9, <1>10, <1>11, <2>1, FirstRecordConcat
  <2>4. out[k] = Answer(FirstRecord(M, k))
    BY DEF merge_sstables
  <2> QED BY <2>2, <2>3, <2>4
<1> HIDE DEF T0, T1, I, J, O, M1, M, out
<1>14. /\ \A p \in ToSet(l0), q \in ToSet(l1), k \in Keys :
              disk0[p][k] # Absent /\ disk1[q][k] # Absent => q \in O
       /\ \A k \in Keys : \A x0, x1 :
              OneRecord(disk0, ToSet(l0), k, x0)
                  /\ (x0 = Absent => OneRecord(disk1, O, k, x1))
              => out[k] = Answer(IF x0 # Absent THEN x0 ELSE x1)
  BY <1>8, <1>13
<1>15. Merges(s, O, out)
  BY <1>1, <1>2, <1>3, <1>4, <1>5, <1>6, <1>7, <1>14 DEF Merges
<1> QED BY <1>2, <1>12, <1>15

\* If L0 has one record of a key, or has none and L1 has one, the files to be
\* installed have one, that a get answers alike.
LEMMA MergeOne ==
    ASSUME StrictClock, FilesInv, compact_merge, NEW k \in Keys, NEW x0, NEW x1,
           OneRecord(disk0, ToSet(l0), k, x0),
           x0 = Absent => OneRecord(disk1, ToSet(l1), k, x1)
    PROVE  \E y : /\ OneRecord(disk1', ToSet(ToInstall'), k, y)
                  /\ Answer(y) = Answer(IF x0 # Absent THEN x0 ELSE x1)
<1>1. PICK s \in Stamps, O \in SUBSET Stamps, out \in Table : Merges(s, O, out)
  BY MergeStep
<1> USE DEF Merges
<1>2. \A x \in Values \cup {Absent} : Answer(x) \in {x, Absent} /\ Answer(Answer(x)) = Answer(x)
  BY TablesAssumption DEF Answer, is_tombstone
<1>3. \A q \in ToSet(l1) : disk1'[q] = disk1[q]
  <2>1. l1 \in Seq(Stamps) /\ disk1 \in Directory
    BY DEF FilesInv, LevelTypeOK
  <2>2. \A q \in ToSet(l1) : q \in Stamps
    BY <2>1, LenProperties, ElementOfSeq DEF ToSet
  <2> QED BY <1>1, <2>1, <2>2 DEF Directory
<1>4. CASE x0 # Absent
  <2>1. out[k] = Answer(x0) /\ x0 \in Values
    BY <1>1, <1>4 DEF OneRecord
  <2>2. \A q \in ToSet(l1) \ O : disk1[q][k] = Absent
    BY <1>1, <1>4 DEF OneRecord
  <2>3. OneRecord(disk1', ToSet(ToInstall'), k, Answer(x0))
    BY <1>1, <1>2, <1>3, <2>1, <2>2 DEF OneRecord
  <2> QED BY <1>2, <1>4, <2>1, <2>3
<1>5. CASE x0 = Absent
  <2>1. OneRecord(disk1, ToSet(l1), k, x1)
    BY <1>5
  <2>2. PICK z \in {x1, Absent} : OneRecord(disk1, O, k, z)
    <3>1. CASE \E q \in O : disk1[q][k] = x1
      BY <1>1, <2>1, <3>1 DEF OneRecord
    <3>2. CASE \A q \in O : disk1[q][k] # x1
      <4>1. OneRecord(disk1, O, k, Absent)
        BY <1>1, <2>1, <3>2 DEF OneRecord
      <4> QED BY <4>1
    <3> QED BY <3>1, <3>2
  <2>3. out[k] = Answer(z)
    BY <1>1, <1>5, <2>2, Zenon
  <2>4. CASE \E q \in ToSet(l1) \ O : disk1[q][k] = x1
    <3>1. OneRecord(disk1', ToSet(ToInstall'), k, x1)
      BY <1>1, <1>2, <1>3, <2>1, <2>2, <2>3, <2>4 DEF OneRecord
    <3> QED BY <1>5, <3>1
  <2>5. CASE \A q \in ToSet(l1) \ O : disk1[q][k] # x1
    <3>1. \A q \in ToSet(l1) \ O : disk1[q][k] = Absent
      BY <2>1, <2>5 DEF OneRecord
    <3>2. z = x1
      BY <2>1, <2>2, <2>5 DEF OneRecord
    <3>3. OneRecord(disk1', ToSet(ToInstall'), k, Answer(x1))
      BY <1>1, <1>2, <1>3, <2>1, <2>3, <3>1, <3>2 DEF OneRecord
    <3> QED BY <1>2, <1>5, <2>1, <3>3 DEF OneRecord
  <2> QED BY <2>4, <2>5
<1> QED BY <1>4, <1>5
=============================================================================
