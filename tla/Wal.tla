-------------------------------- MODULE Wal --------------------------------
(***************************************************************************)
(* wal.rs: the write-ahead log.  The file is a sequence of frames.  A frame*)
(* that decode accepts is the entry it decodes to; the bytes a write left  *)
(* behind when it stopped halfway are one Torn frame, which the length and *)
(* checksum tests of decode reject.                                        *)
(***************************************************************************)
EXTENDS Integers, Sequences, FiniteSets, SequencesExt, FiniteSetsExt

CONSTANTS
    Entries,  \* what can be appended
    Torn      \* bytes that do not decode

ASSUME WalAssumption == Torn \notin Entries

VARIABLES
    log,      \* the frames in the file, as the operating system sees it
    synced    \* how many of them a sync_data has put on the disk

walVars == <<log, synced>>

Frames == Entries \cup {Torn}

WalInit == log = <<>> /\ synced = 0

\* Mutant: append syncs whatever its flag says, or never.
append_syncing(e, sync) == log' = Append(log, e) /\ synced' = Len(log')

append_unsynced(e, sync) == log' = Append(log, e) /\ UNCHANGED synced

\* Wal::append: the file is open in append mode, so the frame goes to the end
\* whatever the end looks like; sync=true waits for sync_data.
append(e, sync) ==
    /\ log' = Append(log, e)
    /\ synced' = IF sync THEN Len(log') ELSE synced

\* write_all stops halfway: the caller gets an error, the bytes stay.
append_torn == log' = Append(log, Torn) /\ UNCHANGED synced

\* Mutant: the file is rewound but not cut.
truncate_rewind == UNCHANGED log /\ synced' = 0

\* Wal::truncate: set_len(0).  The seek behind it moves nothing in a file that
\* is open in append mode; if it fails, the caller gets an error and the file
\* is empty all the same.
truncate == log' = <<>> /\ synced' = 0

\* Wal::replay: the entries up to the first frame that does not decode.
TornFrames(frames) == {i \in DOMAIN frames : frames[i] = Torn}

replay(frames) ==
    IF TornFrames(frames) = {} THEN frames
    ELSE SubSeq(frames, 1, Min(TornFrames(frames)) - 1)

\* What a power loss may leave of a file whose first m frames are synced: the
\* rest may be cut off anywhere, also inside a frame.
Leavings(frames, m) ==
    {SubSeq(frames, 1, n) : n \in m..Len(frames)}
        \cup {Append(SubSeq(frames, 1, n), Torn) : n \in m..Len(frames) - 1}

\* The file is found with what a power loss left of frames.
power_loss(frames, m) == log' \in Leavings(frames, m) /\ synced' = Len(log')
=============================================================================
