# Tabula in TLA+

Tabula (the `tabula` crate) is a small LSM-tree storage engine: an in-memory
table, a write-ahead log, immutable sorted files on two levels, a background
merge, and one engine struct that many threads share. This directory holds a
TLA+ model of it, TLC configurations that check the model on small instances,
and TLAPS proofs of what holds for every instance. Line references are to the
repository's files (`src/lsm.rs` and so on).

## 1. Inventory

| Component | State | Operations | Who calls it |
|---|---|---|---|
| MemTable, `memtable.rs`, `types.rs` | a BTreeMap; a delete is a record with a sentinel value | `get`, `set`, `delete`, `size_bytes`, `flush`, `scan` | the engine, under an RwLock |
| WAL, `wal.rs` | a file open in append mode | `open`, `append(sync)`, `truncate`, `replay` | the engine, under a Mutex |
| SSTable writer, `sstable/writer.rs` | a `.tmp` file, its index and filter | `new`, `add`, `finish` (ends in a rename) | `MemTable::flush`, the merge |
| SSTable reader, `sstable/reader.rs` | footer, index and filter of one file | `open`, `get`, `get_raw`, `iter` | `Lsm::get`, `compact`, the merge |
| Bloom filter, `bloom.rs` | a bit array | `insert`, `may_contain`, `to_bytes`, `from_bytes` | writer and reader |
| Merge, `compaction.rs` | a heap with one record per input | `merge_sstables` | `LevelManager::compact` |
| LevelManager, `levels.rs` | lists of tracked paths, L0 and L1 | `add_l0_file`, `needs_compaction`, `compact` | the engine, under an RwLock |
| Engine, `lsm.rs` | all of the above, a shutdown flag, the compaction thread | `open`, `set`, `get`, `delete`, the thread's loop, `Drop` | client threads |

How they interact. `set` and `delete` append to the WAL under its mutex, give
the mutex back, insert into the MemTable under its write lock and, if that made
the table large enough, flush: name a new file by the clock, take the WAL mutex,
swap the MemTable for an empty one, write the old one to the file, truncate the
WAL, release the mutex, and only then take the LevelManager's write lock to track
the file. `get` reads the MemTable under its read lock, lets go, and searches
the levels under the LevelManager's read lock: L0 from the end of its list, then
L1. The compaction thread sleeps, polls under the read lock and compacts under
the write lock: drain L0, read the key ranges, drain L1 into overlapping and
untouched files, merge, rename the output into place, remove the inputs, install
the untouched files and the output. `open` replays the WAL into a MemTable and
tracks whatever files the directory holds, sorted by name.

What is hard. The locks of a write are taken one after the other and not
together, so threads interleave inside every call. The state is spread over a
log, files and lists in memory that change one at a time, with a kill possible
between any two changes. Almost any I/O call can fail, and several failures
leave through `?` in the middle of a change. What makes each part correct:

* WAL: replay returns what was appended since the last truncate, in order,
  and loses nothing that was acknowledged.
* SSTables and the merge: a file holds exactly the records given to it; a merge
  holds per key the newest record, and no deleted key comes back.
* LevelManager: tracked files exist; L1 files do not overlap; a compaction
  changes no read.
* Engine: it is a dictionary that survives its process; no interleaving loses a
  record; calls, `Drop` and compaction come to an end.

`PROJECT.json` lists the hazards line by line, with the properties that would
catch each one going wrong, or why none does yet.

## 2. Modules

| Module | Contents |
|---|---|
| `Tables` | tables (key to record), `insert`, `ranges_overlap`, the search through a list of files, `merge_sstables` by its result |
| `LevelManager` | the directory, L0, L1, and every step and error return of `compact` |
| `Bloom`, `SsTable` | the filter; an SSTable with its checkpoints, written by `add` and searched by `get_raw` |
| `MergeLoop` | `merge_sstables` step by step: two passes, the heap, the writer |
| `AtomicMerge` | the merge as the LevelManager sees it: one step to the merged table |
| `Levels` | LevelManager driven by a caller that flushes and compacts at will |
| `Wal` | the log as a sequence of frames, `append`, `truncate`, `replay`, power loss |
| `WalSession` | one log through many sessions |
| `WalEntry` | `encode`, `decode`, the checksum and the loop of `replay`, on bytes |
| `WalBytes` | the log of `WalSession` and the bytes each of its frames left in the file |
| `Lsm` | the engine: client threads, the flush, the compaction thread, `open`, `Drop`, kills; it extends `Wal` and `LevelManager` |
| `KVStore` | the abstract specification: one dictionary that survives everything |
| `LsmProperties` | invariants, the refinement to `KVStore`, fairness and liveness |
| `LsmFreshness` | what several writers of one key are promised, and the exceptions |
| `MCMerge`, `MCLevels`, `MCWal`, `MCLsm`, `MCFresh` | constants for TLC |
| `TablesProofs`, `LogProofs` | lemmas about sequences and sets, the operators of `Tables`, the steps of `Wal` |
| `LevelManagerProofs`, `LevelsProofs` | what every step of the LevelManager keeps; the theorems about `Levels` |
| `WalProofs` | the theorems about `WalSession` and `WalBytes` |
| `MergeProofs`, `LsmProofs` | the theorems about `MergeLoop` and flushed files, and about the engine |
| `FreshProofs` | the theorems about `LsmFreshness` |

Correspondence with the code:

* A table is a function from integer keys to records, `Absent` where there is
  none. A value is told apart from every other (in `Lsm` by the number of the
  write call that made it), and is a tombstone or not.
* An SSTable of `SsTable` keeps the order of its records, its checkpoints and
  its filter; offsets are record numbers, the interval between checkpoints is in
  bytes. Everywhere else an SSTable is a table, which the run `merge` and the
  proofs justify twice: lookups in a file find exactly its table, and `MergeLoop`
  implements the operator `merge_sstables` of `Tables`. Which of several entries with
  the smallest key the `BinaryHeap` gives out first is left open, as in the code.
* `disk0` and `disk1` are the `l0_` and `l1_` files of the directory, by the
  clock reading in the name. A file is whole or not there: the writer fills a
  `.tmp` file that nothing reads, and renames it. `l0` and `l1` are
  `LevelManager::levels`; deeper levels are never made.
* `compact` is one action up to the rename of its output (`compact_merge`), one
  per removed input, and one for the installation, because a kill may come
  between them; no other thread can, since the write lock is held (`~Idle`).
  Its error returns are `compact_l0_error` and `compact_l1_error`: they leave
  what had been drained drained. A read error inside a scan is no error return
  in the code: `SsTableIter::next` ends the scan (`compact_merge_short`, one
  such pass per compaction). The history variable `short` remembers that.
* In `Lsm` a thread's `pc` is the next thing it does. The WAL mutex is held
  from `flush_swap` to `flush_truncate` and read off the `pc`s (`WalFree`), the
  LevelManager's write lock from `compact_merge` to the installation (`~Idle`);
  every other critical section of the code is one action, which takes its lock
  and gives it back. The MemTable's lock is always of this kind. `proc` tells a running
  process from one in `Drop` and one that is gone.
* `size_bytes` adds up bytes: `Bytes` gives each value's, with those of its key,
  so that overwriting a key with a longer value can start a flush.
* `truncate` empties the file before its seek. If the seek fails, the flush fails
  and the log is empty all the same; `flush_error` has this outcome, one for a
  failed `set_len`, and one for a failed write of the SSTable.
* The log of `Wal` is a sequence of frames, and a frame that was written in
  part is `Torn`. `truncate` syncs nothing: `stale` keeps what the file held before
  each truncate since the last sync, and a power loss may bring any of it
  back, cut anywhere behind what was synced then. `WalBytes` says what each frame left in the file: an encoded
  entry, or a beginning of one, with nothing between them. `WalEntry` has
  bytes of `CellBits` bits, lengths and checksums of `WordCells` bytes and the
  polynomial of the checksum as constants (8, 4 and CRC-32 in the code); a byte
  is the set of its one bits and exclusive or is a difference of sets. That a
  torn frame never decodes is thus a property (`BytesReplayAsFrames`) and not
  an assumption, except behind a torn or oversized frame, where a checksum may
  match by accident.
* `hist`, `acked` and `got` in `Lsm`, `before`, `inMem`, `inHands` and `mishaps`
  in `LsmFreshness`, `promised`, `durable` and `floor` in `WalSession` are
  history: no guard of the code's steps reads them except through `Len(hist)`,
  which numbers the writes. (`stale` and `shadows` are no history but the disk.)

A definition whose name is that of another with a suffix and whose comment
says "Mutant" is a plausible bug in that definition. No specification uses it;
substituted for the original, it breaks the property named for it in
`PROJECT.json`.

## 3. Runs

| Run | Question | Bounds |
|---|---|---|
| `levels` | Does the LevelManager keep L1 disjoint and its files on disk, and does a merge keep reads, for any flushes, compactions and one I/O error or scan cut short? | 3 keys, 8 tables (single keys, both ends of the range, tombstones), 6 file names |
| `merge` | Does the heap merge end with what the merge operator says, in a file that lookups find their way in? | 3 keys, 3 inputs of 6 kinds, records of 1 and 3 bytes, a checkpoint every 2 bytes, 8-bit hashes, 1 I/O error or scan cut short |
| `wal` | What does replay return after kills, power losses that may undo truncations, failed appends, truncations, and is it the same from bytes? | 3 appends, any number of sessions, truncations and power losses; 2-bit bytes, 2-byte words, a CRC-4; puts and deletes, an empty key, a key one byte too long for its length field |
| `lsm_sequential` | Is the engine a durable dictionary for one caller, before any compaction? | 2 keys, 4 writes, of one and (the second) two bytes, flush at 2 bytes, 1 kill or clean restart |
| `lsm_compacting` | Can a key that was set vanish, or a stale value come back, with compaction, torn appends and a restart? | 1 caller, 2 keys, sets and gets, 4 writes, of one and (the second) two bytes, flush at 2 bytes, compaction at 1 file, 6 file names, 1 I/O error, appends torn by the kill, 1 restart |
| `lsm_shared` | Can two writers of one key make a get, or a restart, answer with a value that was overtaken? | 2 callers that set one key, one of which gets it, 5 writes, of one and (the second and fourth) two bytes, flush at 2 bytes, compaction at 2 files, 3 file names, 1 I/O error, a kill imagined at every moment |
| `lsm_concurrent` | Can any interleaving of two writers and the compaction thread lose a record, lose a file or stop someone? | 2 keys, 2 writes, compaction at 1 file, 1 I/O error or scan cut short, 1 restart |

The bounds. In `merge` three inputs are the least for a group of equal keys to
lose two members in either order; the sizes put checkpoints on neighbouring
records, on every other one and on the first alone; the hashes give the filters
false positives and true negatives, and they wrap. Elsewhere, three keys are the
least for a file to lie between the ends of another one. Six names allow four
flushes and two compactions, so that a compaction meets both overlapping and
untouched L1 files and the output of an earlier compaction; the second merge of
tombstones only is among them. The code's thresholds (4 MiB, 4 files) are
constants: what happens at a threshold happens at a small one, and a threshold
of one file lets the compaction thread run between any two steps of two writers.
Two writes by two threads are enough for every pair of positions inside `set`
and `flush_memtable`, a second flush of an already empty MemTable included. In
`lsm_shared` the two long writes start two flushes that overlap, and the short
ones before, between and behind them are acknowledged while they are in a MemTable
only, with the shared key in both MemTables and in both files; one caller reads
that key at every moment. In `lsm_compacting` the threshold lets the MemTable, and so
the log, hold acknowledged records when a kill tears an append. In `wal` the three
appends are enough for entries before, in and behind a torn or oversized one; the
small word makes the oversized key short enough to enumerate. `MaxFaults` and `MaxRestarts` bound how
often, never where, an error or a kill happens. `CHECK_DEADLOCK FALSE` in the
`Levels` runs and in `merge`: a caller that has used up the file names stops, a
merge ends.

What the passing runs show, beyond types:

* `ImplementsAtomicMerge`: the output is there at once at the end, and holds per
  key the record of the first input that returned one, without tombstones.
  `HeapHoldsHeads` is the reason: between two keys the heap holds the next
  record of every input, and nothing to come sorts at or below what was written.
* `LookupsAreExact`: filter, checkpoints and bounded scan together find a file's
  records and no others, also in a file whose filter was sized for no keys because
  the counting pass was cut short (m = 0, k = 0: no division by m).
* `TrackedFilesExist`, `MergeIsInstallable`: whatever the order of flushes,
  compactions, failed removals, failed merges and short scans. `L1Disjoint`
  and `CompactionKeepsUncontested`: until a scan is cut short, after which
  neither holds.
* `CompactionKeepsUncontested`: a merge changes no read of a key that at most
  one L0 file holds; tombstones hide what they must, and are dropped only with it.
* `ReplayIsInOrder`, `TornTailLosesNothing`: replay is an ordered part of what
  was appended since the latest truncate that no power loss undid, and all of what
  was promised as long as nothing was appended after a torn frame.
* `ImplementsKVStore`: each step of the engine is a step of `KVStore` or none. A
  write takes effect at its WAL append; kills and restarts change nothing.
  `AlwaysRecoverable` is the reason: log and files hold the last value of each
  key between them at every moment.
* `AnswersWereWritten`: what a get returns was set under its key; no marker of a
  deletion gets out and no record changes its key.
* `BytesReplayAsFrames`, `AlteredDataIsCaught`: replaying the bytes, cut
  anywhere by a kill or a power loss, gives what the frames say; one altered byte
  of a key, value or checksum is always caught.
* `KeysNeverVanish`: however compaction is cut short, until an I/O call fails or
  something is appended behind a torn entry (which the run `wal_tear` is about).
* `ReadsAreFresh`, `RecoveredIsFresh`: a get, or a restart at any moment, answers
  with a value that no write acknowledged before had overtaken, but for the
  exceptions below.
* `SoleSetIsKept`: a record of the only set of a key is always in the
  caller's hands, in a MemTable (the current or a swapped-out one) or in a file,
  as long as the process lives and no I/O call has failed.
* `CallsReturn`, `DropReturns`, `L0IsCompacted`: nobody waits for ever for the WAL
  mutex, the LevelManager's lock or the compaction thread, also after a failed flush
  or compaction. The order in which locks are nested is not checked: the model
  takes and gives back the MemTable's lock in one step, so that it could not
  show a deadlock over it. (The code nests locks in one place, the MemTable's
  in the WAL's, `lsm.rs:267-270`.)

The exceptions of `LsmFreshness` are the steps of the code that put records out
of order or out of reach: where they happen the code goes wrong, and no
property says more of it. Each was found needed: without it, the run named is
violated, for `outrun` the run `lsm_shared` with 4 writes, 4 names, compaction at
one file and no I/O error, which passes with it. (`outrun` came out of the proof
of `RecoveredFresh`, not out of a run.)

| Exception | The step | Needed in |
|---|---|---|
| (`OutOfSight`, no marker) | a get that has left the MemTable misses the writes a flush has in its hands, from the swap to `add_l0_file`; it may miss no others (`lsm.rs:270`) | `lsm_shared` |
| `wiped` | a flush swaps between another thread's append and insert, then truncates (`lsm.rs:276`) | `lsm_shared` |
| `crossed` | two flushed files wait to be added to L0, in any order (`lsm.rs:279`) | `lsm_shared` |
| `misnamed` | the later MemTable goes to the file with the earlier name (`lsm.rs:256`) | `lsm_shared` |
| `dropped`, `forgotten` | a flush fails and drops its MemTable; the next one truncates the log that still had it (`lsm.rs:275-276`) | `lsm_shared`; `dropped` in `lsm_compacting` too |
| `torn` | an entry is appended behind a torn one (`wal.rs:133`); remembered for good | both |
| `contested` | a merge meets two L0 records of a key and keeps the older (`levels.rs:105`) | both |
| `outrun` | a merge takes a file while an older one that shares a key with it is not tracked yet (`levels.rs:105`) | `lsm_shared` as varied above |
| `drained` | a compaction fails after it drained the levels (`levels.rs:67`) | both |
| `cut` | a kill while the inputs of a merge are removed: the inputs left are found again, and L1 may overlap (`levels.rs:116`) | `lsm_compacting` |
| `kept` | the removal of an input fails, unnoticed (`levels.rs:117`) | `lsm_compacting` |
| `scan` | a read error ends a scan and the merge leaves records out (`reader.rs:37`) | `lsm_compacting` |
| `lost` | the process was reopened on one of those | `lsm_compacting` |

Five runs expect a violation, each of a sentence in a comment, a document or a test:

| Run | Property | What the code does |
|---|---|---|
| `levels_newest` | `CompactionKeepsNewest` | the merge gets L0 oldest first and keeps the first: of two L0 records of a key the older survives (`levels.rs:105`; README.md:21) |
| `levels_failed` | `FailedCompactionHidesNothing` | L0 is drained before it is read; an SSTable without records makes `compact` fail and hides every file drained with it (`levels.rs:67`; comment `lsm.rs:8-11`) |
| `wal_tear` | `PromisedIsReplayed` | nothing cuts a torn tail off, and later entries behind it are not replayed (`wal.rs:133`; comment `wal.rs:189-192`) |
| `lsm_lost` | `AckedSurvivesKill` | a flush truncates the entry of a set that has not inserted yet; acknowledged, then lost by a kill (`lsm.rs:276`; test comment `lsm.rs:395-397`) |
| `lsm_window` | `SetsAreRead` | between the swap and `add_l0_file` a flushed key reads as absent (`lsm.rs:270`; test comment `lsm.rs:519-520`) |

These are why the passing properties are worded as they are: `lsm_sequential`
has one caller and no compaction, freshness has exceptions, `KeysNeverVanish`
stops at an append behind a torn entry, `SoleSetIsKept` is about records and not
about reads.

Fairness. `LsmFairSpec` assumes weak fairness of each client's steps inside a
call (the operating system runs threads, and locks are not starved by one other
thread), of the compaction thread's loop (it wakes from its sleep), and of the
join in `Drop`. Calls need not begin, the process need not end, and `open` need
not happen. `MergeSpec` assumes that the one thread of the merge runs on. No
fairness separates the outcomes of a step: an I/O error remains possible, never
obliged.

## 4. Proofs

All theorems hold for every value of the constants that the modules' named
ASSUMEs admit: keys are integers, tombstones are values, `Absent` and `NoFile`
are neither, bounds are naturals; words have a positive number of bits, and the
CRC polynomial its top one. Some need `StrictClock` as well (each reading
of the clock is later than the last): with a repeated reading the output of a
merge replaces one of its inputs and is then removed as an input (TLC shows it
in nine steps with `ClockTicks` = {0, 1}).

**Lemmas.** `TablesProofs`: least members of sets, elements of sequences;
`Sorted` lists a finite set without repetitions, `Pick` selects from a sequence,
two complementary `Pick`s lose nothing, a search finds a record of one of its
files, a merge is a table whose records come from its inputs. The induction theorems
of the library take operators as parameters, which the provers here cannot
instantiate; `UpTo` and `FoldIsDefined` do their work on sets: a set of numbers that
contains 0 and, with each number below n, the next one, contains all up to n, since
it has no least non-member; and so a fold over a sequence has a value at each of
its prefixes. `LogProofs`: replay
is a prefix of the log without torn frames, and what `append`, `truncate` and
`power_loss` do to the log.

**LevelManager** (`LevelManagerProofs`, used by the two specifications that
contain it). Between the merge and the installation `l1` is empty, and the files
that will be L1 are in local variables of `compact`. `FilesInv` therefore says of
that list (`ToInstall`) what it says of `l1`: on disk, no two equal; and that
no file still to be removed is in it. `Dated` adds that nothing is named later
than now, so that a new name is new.

**Levels** (`LevelsProofs`): `LevelsTypeCorrect`, and under `StrictClock`
`LevelsL1Disjoint`, `LevelsTrackedFilesExist`, `LevelsMergeIsInstallable`, with
every I/O error and short scan. For disjointness the invariant says that no two
files of `l1`, or of the list to be installed, overlap until a scan is cut short.
The merge is the hard step: its output is made of L0 and of L1 files that meet
the range of L0, and `UnionStaysApart` shows that such a union lies on the same
side of an untouched file as L0 does, which is where ranges being intervals
matters: with overlap by common keys the theorem is false, and that is the
mutant of `L1Disjoint`. `LevelsKeepUncontested` adds that no L1 file holds a
tombstone (`L1WithoutTombstones`: every L1 file is the output of a merge). With
disjointness, at most one L1 file has a record of a key, so that the order of L1
does not matter, and what the merge keeps of a key that at most one L0 file holds
is that file's record, or else L1's; a tombstone it drops hid nothing else.

**WalSession** (`WalProofs`): `SessionTypeCorrect`, `SessionReplayInOrder` and
`SessionTornTail`. The invariant `SessionInv` says that the whole frames of the
log are numbered upwards and above the last truncate (`Ascending`, `Current`),
that everything promised is somewhere in the log (`Held`), and in its synced part
if a synced append covers it (`HeldDurably`), which a power loss needs. It does not
say that nothing else is there: an append whose sync failed leaves a whole frame
that was not promised. The files that a power loss may bring back are ordered
too, and exist only while nothing is owed to a sync (`OldFilesOrdered`).

**WalBytes** (`WalProofs`), for every width of bytes and words, every polynomial
with its top bit and every payload:

* `BytesInvariant`, `BytesAreASession`: a whole frame is an encoded entry and a torn
  one a beginning of one (`ChunksOfFrames`), whatever a power loss cuts; and the log
  in bytes behaves as `WalSession`, so that its theorems hold of it.
* `AlteredDataAlwaysCaught`. A round of the checksum is injective: shifting leaves the
  top bit free, so that the top bit of the result tells whether the polynomial was
  folded in. Two bodies that differ in one byte therefore have different
  checksums, and lengths that are not touched make `decode` compare those; an
  altered checksum is another word.
* `BytesAlwaysReplayAsFrames`. An encoding with anything behind it decodes to its
  entry and its length; each beginning of one fails a length test; so each round of
  `replay` moves by one frame, by induction over the frames up to the first
  unreadable one. The hypothesis `OversizedRejected` is about entries whose
  length is cut by the cast to `u32` and about nothing else: the beginning of
  such an entry can be long enough for the shorter length it states, and then only the
  checksum stands against it. If every payload fits, the hypothesis holds of
  itself; `MCWal`, where one does not, has TLC evaluate it.

**MergeLoop** (`MergeProofs`), for any number and length of inputs, any order of
equal keys and a read error anywhere:

* `HeapHoldsHeadsAlways`, `MergeTypesAlways`. The invariant says what each source
  has in the heap, in the group or to come (`SourcesApart`) and that what was
  written is below the group, and the group below what is to come (`KeysAscend`).
* `MergeImplementsAtomicMerge`. `MergingInv` says that there are readings of the
  inputs, each the whole table or a scan cut short, of which everything was
  returned up to the group, and that the output holds exactly the records that
  the merge operator chooses among those readings for the keys passed so far. The
  readings are existential because a scan cut short is only known to be one when
  it ends. Every step then stutters in `AtomicMerge` but the last one, which is
  `Merge`, and the read error, which is `ReadError`.
* `MergeLookupsAreExact`. `LookupsInv` says of the writer what `Readable` says of
  a file: its checkpoints are positions of its records that go up, and every
  key added is in the filter, whatever size the filter was given.

`FlushedTableIsFound` says the same of the files of a flush: for every finite table,
the file that `flush_file` writes has exactly its records, and `get_raw` finds them.
`flush_file` is a fold over the sorted keys. By induction on the records written so
far, the file ascends, is readable, and ends below the next key (`NewIsBuilt` is the
base and `AddKeepsBuilt` the step). The theorems above rest on this for their inputs.

**The engine** (`LsmProofs`), for any number of clients, calls, kills, restarts
and faults:

* `LsmTypeCorrect`. Types alone are not inductive: a thread's local variables
  have to fit its `pc` (`ThreadsFit`).
* `EngineFilesExist`, `EngineMergeInstallable`, under `StrictClock`. `FlushInv`
  is what threads add to `FilesInv`: the file of a flush is on disk exactly
  once it is written, its path is in no list and no other thread has it; so
  no compaction can remove it before it is tracked, and no flush can write
  over a tracked file.
* `AnswersWritten`, with any clock. `RecordsInv` says of each of the places
  records are in (MemTable, swapped-out MemTables, files, log, calls under
  way, answers) that they are there under the key they were written under.
  `CompactWithin` is its step for merges, cut-short scans included.
* `SoleSetKept`, under `StrictClock`, until an I/O call fails or the process
  ends. `SoleInv` lists the places a record of an only set can be in; it needs both
  earlier invariants: no flush may write over a file (`FlushInv`), and the record
  is the only one of its key wherever it is (`RecordsInv`), which is why a
  merge, which keeps some record of each key, keeps this one
  (`MergeKeepsRecord`: every file drained is an input or untouched, and no
  input is removed before the output exists).

Three theorems hold under `StrictClock` for one caller (`OneCaller`), along every
behaviour on which nothing was appended behind a torn entry and no I/O call failed
so far (`[]Untroubled`), two of them on those on which L0 does not reach the
threshold either (`[]Calm`). That is what `lsm_sequential` is about. Each part
is needed: behind a torn frame nothing is replayed; a flush that fails loses its
MemTable to gets; of two callers one can truncate what the other has appended
and not yet inserted, or the log and the MemTable get their records in different
orders; a compaction keeps the older of two L0 records.

* `LogRebuildsMem`. `LoggedInv` says for each `pc` what replaying the log gives:
  the MemTable between calls; the MemTable with the entry on top before the insert;
  what the flush has in its hands until the truncation; nothing after it.
* `CalmIsRecoverable`, `CalmIsKVStore`. `DictInv` adds that L1 is empty, that the
  files are named and listed in the order of the calls in them
  (`Chronological`), and that for each key the newest of MemTable, files and flush
  in progress is the record of the last call (`Recalled`). A call is a step of
  `KVStore` at its WAL append, and each other step a stutter.

**Several callers** (`FreshProofs`): `RecoveredFresh` and `ReadsFresh`, under
`StrictClock`, for any number of callers and calls, any kills, restarts and faults;
and `NoKeyVanishes` for one caller.
A call is *due* once its record was inserted, whether or not it returns Ok.
`FreshInv` says always (`CallInv`) that a call is over before only later ones begin
and that one flush at a time holds the WAL mutex, and, unless an exception of
`OnDisk` has happened,

* `LogOrdered`: the log is the last calls in the order of their appends, with
  those that are not inserted yet among them;
* `Quiet`: while a flush holds the mutex, nothing is between the log and the
  MemTable, the MemTable is empty, and the file of the flush is named last;
* `MemFresh`: no due call has overtaken what is in the MemTable or in the
  flush's hands;
* `Caught`: the key of every due call in the log is in one of these two, so that
  truncating the log loses no call that a file does not have;
* `L1Known`: the L1 files in the directory are those tracked, or about to be, and
  inputs still to be removed;
* `DiskFresh`: what the files answer is fresh if one asks only about the calls that
  have left the log.

`RecoveredIsFresh` follows because replay puts on top of the files whatever the last
frame of the key says, and a key without a frame has no due call in the log. Each
exception is used once, by the lemma of the step it names.

`ReadsFresh` is about the process that lives on, which other exceptions trouble
(`InMemory`: `crossed` and `dropped` do, `wiped`, `misnamed`, `cut` and `kept` do
not). `ReadInv` looks for a key where a search would: the MemTable, the flush that
holds the WAL mutex, the one file that waits to be added, L0 from the end of its
list, then L1 or what a compaction will install as L1. Each place is fresh for the
due calls that are in no place before it (`FlightFresh`, `LevelsFresh`), and the keys
of the calls in the MemTable or in a flush's hands are there (`InPlace`, by the
histories `inMem` and `inHands`). A get that has missed the MemTable has no call of its
key there (`Missed`), so that what the levels answer is overtaken by none of the
calls acknowledged when it began but those in hands. Each step moves one table
along this way by one place. At `open` the files are all there is, and `ReadInv`
follows from `FreshInv`, since a process that is down has no exception but `lost`
and `torn`. Both invariants were checked with TLC, on the instances of
`lsm_shared` (1 323 940 states) and `lsm_compacting` (1 039 425), beside the proofs.

`NoKeyVanishes` is for a caller that does not delete (`NoDeletes`: after a
deletion, absent is a right answer), with compaction at any moment and kills in
the middle of it. `VanishInv`, of `LsmProofs`, needs no order among files: every key
whose call has begun is in the log or in some file (`Covered`), a file that is in the
directory is tracked or about to be (`Tracked`), and no merge input is removed
before the output that covers its keys exists. `EngineKeyInv` says that it holds
until the exception `torn` happens or an I/O call fails; both are for good.

**Only model-checked**: liveness (`MergeEnds`, `CallsReturn`, `DropReturns`,
`L0IsCompacted`), which is out of the prover's reach. Of the other properties of the
passing runs each is a theorem, `BytesReplayAsFrames` under the hypothesis above,
and those of one caller on the behaviours said.

## 5. Not modelled

* `main.rs`, `bin/profile_flush.rs`, the benchmarks: callers only.
* The byte format of SSTables, their 32-bit lengths included, and the two hash
  functions of the filter (any functions of the keys); `MemTable::scan`
  and `SsTableReader::get`, which the engine does not call.
* I/O errors of `get` and `open`: they return an error and change no state.
* Power loss in the engine: it would take SSTables and renames, which the code does
  not sync, in an order nothing states. Of the log alone it is modelled,
  truncations that were not synced included (`WalSession`).
* The MemTable's lock and the nesting of locks: see `CallsReturn` in section 3.
* A second `Lsm` on the same directory, and a compaction thread that outlives
  its `Lsm` (`mem::forget`).
* A user value equal to the tombstone sentinel.

## 6. Plan

Done: every module above, its runs, and the proofs of section 4. Left, in this
order:

1. The locks themselves: a module with one step per lock taken and given back,
   whose threads hold guards of the MemTable's lock too, and a run that no two of
   them wait for each other and that each gets on.
2. Larger instances: `lsm_shared` with a restart and as many writes is beyond five
   minutes; the restart is covered by `RecoveredIsFresh` as a state predicate, by
   `lsm_compacting` for one writer, and by the proofs of both freshness properties.
3. Power loss between the rename of an SSTable and the truncation of the log, should
   the code come to say what it expects of the file system.
