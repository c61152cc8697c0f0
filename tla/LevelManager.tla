---------------------------- MODULE LevelManager ----------------------------
(***************************************************************************)
(* levels.rs: the files of levels 0 and 1, and compact, which merges all   *)
(* of L0 and the overlapping part of L1 into one new L1 file.              *)
(*                                                                         *)
(* A path is a level and the clock reading in its name, so a level's files *)
(* are a function from clock readings (Stamps).  compact runs under the    *)
(* write lock of the RwLock around the LevelManager from its first step to *)
(* its last; its steps are separate here because a crash, or an error, may *)
(* come between two changes of the directory.                              *)
(***************************************************************************)
EXTENDS Tables

CONSTANTS
    L0_COMPACTION_THRESHOLD,  \* files in L0 that make needs_compaction true
    MaxStamp,                 \* bound: clock readings go from 1 to MaxStamp
    ClockTicks,               \* how far the clock may move between readings
    MaxFaults                 \* bound: I/O calls that return an error

VARIABLES
    disk0, disk1,   \* the directory: the table in each l0_ and l1_ file
    l0, l1,         \* levels[0] and levels[1], the tracked paths in order
    job,            \* the compaction under way, NoJob if there is none
    clock,          \* the latest reading of SystemTime::now
    faults,         \* I/O errors so far
    short           \* history: a scan has been cut short by one

Stamps == 1..MaxStamp

ASSUME LevelAssumption ==
    /\ L0_COMPACTION_THRESHOLD \in Nat \ {0}
    /\ MaxStamp \in Nat
    /\ ClockTicks \subseteq Int
    /\ MaxFaults \in Nat

fileVars == <<disk0, disk1>>
ioVars == <<faults, short>>
levelVars == <<disk0, disk1, l0, l1, job, clock, ioVars>>

\* Every reading of the clock is later than the one before.
StrictClock == ClockTicks \subseteq Nat \ {0}

Directory == [Stamps -> Table \cup {NoFile}]

\* While a compaction is under way: the inputs still to be removed, the L1
\* files it leaves alone and the name of its output.
NoJob == [todo0 |-> <<>>, todo1 |-> <<>>, untouched |-> <<>>, output |-> 0]

Idle == job = NoJob

\* Mutant: a clock too coarse to tell two readings apart.
now_coarse(s) == s \in Stamps /\ s \in {clock, clock + 1} /\ clock' = s

\* SystemTime::now, the suffix of a new file's name.
now(s) == s \in Stamps /\ s - clock \in ClockTicks /\ clock' = s

io_error ==
    faults < MaxFaults /\ faults' = faults + 1 /\ UNCHANGED short

\* A read that fails where the code takes it for the end of the file.
short_scan ==
    faults < MaxFaults /\ faults' = faults + 1 /\ short' = TRUE

-----------------------------------------------------------------------------
(***************************************************************************)
(* The operations.                                                         *)
(***************************************************************************)
LevelInit ==
    /\ disk0 = [s \in Stamps |-> NoFile]
    /\ disk1 = [s \in Stamps |-> NoFile]
    /\ l0 = <<>> /\ l1 = <<>>
    /\ job = NoJob
    /\ clock = 0
    /\ faults = 0 /\ short = FALSE

\* add_l0_file, under the write lock.
add_l0_file(s) == Idle /\ l0' = Append(l0, s)

\* needs_compaction, under the read lock.
needs_compaction == Len(l0) >= L0_COMPACTION_THRESHOLD

\* SsTableReader::open fails without a file, key_range without a record.
Scannable(t) == t # NoFile /\ Present(t) # {}

L1Tables == tables_of(disk1, l1)

\* What a pass over the input files sees of them: all there is, unless a read
\* fails at some record, which SsTableIter takes for the end of that file.
Files == [d0 |-> disk0, d1 |-> disk1]

CutInL0(i) == {[Files EXCEPT !.d0[l0[i]] = t] : t \in Cuts(disk0[l0[i]])}
CutInL1(i) == {[Files EXCEPT !.d1[l1[i]] = t] : t \in Cuts(disk1[l1[i]])}

ShortViews ==
    UNION ({CutInL0(i) : i \in DOMAIN l0} \cup {CutInL1(i) : i \in DOMAIN l1})

L0Scannable(v) == \A i \in DOMAIN l0 : Scannable(v.d0[l0[i]])
L1Scannable(v) == \A i \in DOMAIN l1 : Scannable(v.d1[l1[i]])

\* Mutant: two files overlap if they share a key.
Overlapping_by_key(v) ==
    LET l0_keys == UNION {Present(v.d0[l0[i]]) : i \in DOMAIN l0}
    IN  {i \in DOMAIN l1 : l0_keys \cap Present(v.d1[l1[i]]) # {}}

\* The L1 files whose key range meets the combined range of L0.
Overlapping(v) ==
    LET l0_keys == UNION {Present(v.d0[l0[i]]) : i \in DOMAIN l0}
    IN  {i \in DOMAIN l1 : ranges_overlap(l0_keys, Present(v.d1[l1[i]]))}

\* The L1 files compact leaves alone; mutant: all of them.
Untouched_all(v) == l1

Untouched(v) == Pick(l1, DOMAIN l1 \ Overlapping(v))

\* What the readers given to the merge return, in their order, when r is what
\* key_range saw and v what the merge sees; mutant: L1 first.
MergeInputs_l1_first(r, v) ==
    Pick(tables_of(v.d1, l1), Overlapping(r)) \o tables_of(v.d0, l0)

MergeInputs(r, v) ==
    tables_of(v.d0, l0) \o Pick(tables_of(v.d1, l1), Overlapping(r))

\* The output gets its name by the rename that ends SsTableWriter::finish;
\* mutant: without finish there is none.
write_output_unfinished(s, t) == disk1' = disk1

write_output(s, t) == disk1' = [disk1 EXCEPT ![s] = t]

\* L0 is emptied before anything is read; mutant: it is only iterated over.
drain_l0_iter == UNCHANGED l0

drain_l0 == l0' = <<>>

\* Mutant: the lock guard outlives a failed compact.
compact_l1_error_locked ==
    /\ Idle /\ l0 # <<>> /\ L0Scannable(Files)
    /\ \/ ~L1Scannable(Files) /\ UNCHANGED ioVars
       \/ io_error
    /\ l0' = <<>> /\ l1' = <<>>
    /\ job' = [NoJob EXCEPT !.output = 1]
    /\ UNCHANGED <<disk0, disk1, clock>>

\* Opening or scanning an L0 file fails: L0 has already been drained.
compact_l0_error ==
    /\ Idle /\ l0 # <<>>
    /\ \/ ~L0Scannable(Files) /\ UNCHANGED ioVars
       \/ io_error
    /\ drain_l0
    /\ UNCHANGED <<disk0, disk1, l1, job, clock>>

\* Opening or scanning an L1 file fails, or the merge does: the Drain that
\* was walking L1, and the list of untouched files, are dropped as well.
compact_l1_error ==
    /\ Idle /\ l0 # <<>> /\ L0Scannable(Files)
    /\ \/ ~L1Scannable(Files) /\ UNCHANGED ioVars
       \/ io_error
    /\ drain_l0 /\ l1' = <<>>
    /\ UNCHANGED <<disk0, disk1, job, clock>>

\* Two passes over the inputs: key_range to choose them, then the merge, L0
\* readers in list order before the overlapping L1 readers.
compact_passes(r, v) ==
    /\ Idle /\ l0 # <<>> /\ L0Scannable(r) /\ L1Scannable(r)
    /\ \E s \in Stamps :
         /\ now(s)
         /\ write_output(s, merge_sstables(MergeInputs(r, v)))
         /\ job' = [todo0 |-> l0, todo1 |-> Pick(l1, Overlapping(r)),
                    untouched |-> Untouched(r), output |-> s]
    /\ drain_l0 /\ l1' = <<>>
    /\ UNCHANGED disk0

compact_merge == compact_passes(Files, Files) /\ UNCHANGED ioVars

\* A read fails in one pass, and compact goes on as if the file ended there.
compact_merge_short ==
    /\ short_scan
    /\ L0Scannable(Files) /\ L1Scannable(Files)
    /\ \E v \in ShortViews : compact_passes(v, Files) \/ compact_passes(Files, v)

\* fs::remove_file(path).ok() on the next input: an error is ignored.
remove_l0_input ==
    /\ job.todo0 # <<>>
    /\ \/ /\ disk0' = [disk0 EXCEPT ![Head(job.todo0)] = NoFile]
          /\ UNCHANGED ioVars
       \/ io_error /\ UNCHANGED disk0
    /\ job' = [job EXCEPT !.todo0 = Tail(@)]
    /\ UNCHANGED <<disk1, l0, l1, clock>>

remove_l1_input ==
    /\ job.todo0 = <<>> /\ job.todo1 # <<>>
    /\ \/ /\ disk1' = [disk1 EXCEPT ![Head(job.todo1)] = NoFile]
          /\ UNCHANGED ioVars
       \/ io_error /\ UNCHANGED disk1
    /\ job' = [job EXCEPT !.todo1 = Tail(@)]
    /\ UNCHANGED <<disk0, l0, l1, clock>>

\* The untouched files and the output become L1; compact returns.
compact_install ==
    /\ ~Idle /\ job.todo0 = <<>> /\ job.todo1 = <<>>
    /\ l1' = Append(job.untouched, job.output)
    /\ job' = NoJob
    /\ UNCHANGED <<disk0, disk1, l0, clock, ioVars>>

compact_begin ==
    compact_l0_error \/ compact_l1_error \/ compact_merge \/ compact_merge_short
compact_end == remove_l0_input \/ remove_l1_input \/ compact_install

\* Mutant: L0 is searched from its oldest file.
search_levels_oldest(k) == FirstRecord(tables_of(disk0, l0) \o L1Tables, k)

\* The search of Lsm::get below the MemTable: L0 from its end, then L1.
search_levels(k) == FirstRecord(tables_of(disk0, Reverse(l0)) \o L1Tables, k)

\* discover_levels: what a directory scan finds, each level sorted by name.
Found(disk) == Sorted({s \in Stamps : disk[s] # NoFile})

discover_levels == l0' = Found(disk0) /\ l1' = Found(disk1)

-----------------------------------------------------------------------------
\* Every variable has its type; compact, which leaves L0 empty, is the only
\* place where a path is neither tracked nor deleted.
LevelTypeOK ==
    /\ disk0 \in Directory /\ disk1 \in Directory
    /\ l0 \in Seq(Stamps) /\ l1 \in Seq(Stamps)
    /\ job \in [todo0 : Seq(Stamps), todo1 : Seq(Stamps),
                untouched : Seq(Stamps), output : Stamps \cup {0}]
    /\ ~Idle => job.output # 0 /\ l0 = <<>> /\ l1 = <<>>
    /\ clock \in Stamps \cup {0}
    /\ faults \in 0..MaxFaults /\ short \in BOOLEAN

\* As long as no scan was cut short, the files tracked in L1 have disjoint key
\* ranges, so at most one of them can hold a key (lsm.rs get stops at the first
\* L1 file that does).  A file without records has no range.  Broken by a
\* compact that merges too few L1 files, or keeps one that it merged.
L1Disjoint ==
    ~short => \A i, j \in DOMAIN l1 : i # j =>
        ~ranges_overlap(Present(disk1[l1[i]]), Present(disk1[l1[j]]))

\* No operation of the LevelManager makes a tracked path one without a file:
\* compact removes only what it merged and installs only what exists, even if
\* removals fail, so that get never fails with Io on a path it was given.
TrackedFilesExist ==
    /\ \A i \in DOMAIN l0 : disk0[l0[i]] # NoFile
    /\ \A i \in DOMAIN l1 : disk1[l1[i]] # NoFile

\* The list that compact_install will put in place.
ToInstall == Append(job.untouched, job.output)

\* While the inputs are being removed every file of the list to be installed
\* stays on disk, so nothing is lost between the merge and its installation.
MergeIsInstallable ==
    ~Idle => \A i \in DOMAIN ToInstall : disk1[ToInstall[i]] # NoFile
=============================================================================
