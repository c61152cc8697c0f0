------------------------------ MODULE WalBytes ------------------------------
(***************************************************************************)
(* The log of WalSession in bytes: what each frame of Wal.tla stands for.  *)
(* A whole frame is an encoded entry, a Torn one the beginning of one, and *)
(* the file is all of them in a row: nothing in it says where a frame ends.*)
(***************************************************************************)
EXTENDS WalSession, WalEntry

CONSTANT Payload   \* Payload[n]: the WalEntry the n-th append appends

ASSUME PayloadAssumption == \A n \in Entries : Payload[n] \in WalEntries

VARIABLES
    chunks,    \* chunks[i]: the cells that frame i left in the file
    shadows    \* the elements of stale, with their chunks

bytesVars == <<sessionVars, chunks, shadows>>

file == FlattenSeq(chunks)

\* write_all got somewhere, and not to the end.
Beginnings(code) == {SubSeq(code, 1, n) : n \in 1..Len(code) - 1}

BytesInit == SessionInit /\ chunks = <<>> /\ shadows = {}

\* The frame just added to the log, in cells.
AddChunk ==
    LET code == encode(Payload[appends'])
    IN  \E cells \in IF Last(log') = Torn THEN Beginnings(code) ELSE {code} :
            chunks' = Append(chunks, cells)

\* What a power loss left of frames and their cells; it may have cut the last.
CutChunks(frames, cells) ==
    LET n == Len(log')
    IN  /\ n <= Len(frames)
        /\ \/ log' = SubSeq(frames, 1, n) /\ chunks' = SubSeq(cells, 1, n)
           \/ /\ n > 0 /\ log' = Append(SubSeq(frames, 1, n - 1), Torn)
              /\ \E rest \in Beginnings(cells[n]) :
                   chunks' = Append(SubSeq(cells, 1, n - 1), rest)

Shadow == [frames |-> log, floor |-> floor, chunks |-> chunks]

BytesNext ==
    \/ wal_open /\ UNCHANGED <<chunks, shadows>>
    \/ \E sync \in BOOLEAN : /\ append_ok(sync) /\ AddChunk
                             /\ shadows' = IF sync THEN {} ELSE shadows
    \/ append_failed /\ AddChunk /\ UNCHANGED shadows
    \/ wal_truncate /\ chunks' = <<>> /\ shadows' = shadows \cup {Shadow}
    \/ /\ kill /\ UNCHANGED shadows
       /\ IF log' = log THEN UNCHANGED chunks ELSE AddChunk
    \/ /\ blackout /\ shadows' = {}
       /\ \/ floor' = floor /\ CutChunks(log, chunks)
          \/ \E s \in shadows : floor' = s.floor /\ CutChunks(s.frames, s.chunks)

BytesSpec == BytesInit /\ [][BytesNext]_bytesVars

-----------------------------------------------------------------------------
\* Frames that decode does not give back: torn ones, and entries with a key or
\* value whose length does not survive the cast to u32.
Unreadable ==
    {i \in DOMAIN log : log[i] = Torn \/ ~Fits(Payload[log[i]])}

Payloads(frames) == [i \in DOMAIN frames |-> Payload[frames[i]]]

\* The one thing about entries that do not fit that replay needs: what a write
\* of one leaves when it stops halfway does not decode by accident.
OversizedRejected ==
    \A n \in Entries : ~Fits(Payload[n]) =>
        \A cells \in Beginnings(encode(Payload[n])) : is_err(decode(cells))

\* Replaying the bytes gives what Wal.tla's replay says of the frames: every
\* entry in front of the first unreadable frame, and nothing else if that frame is
\* torn and ends the file.  (Behind a torn or oversized frame a checksum may match
\* by accident; what precedes is not affected.)
BytesReplayAsFrames ==
    LET readable == IF Unreadable = {} THEN log
                    ELSE SubSeq(log, 1, Min(Unreadable) - 1)
        entries == replay_bytes(file)
    IN  /\ IsPrefix(Payloads(readable), entries)
        /\ Unreadable \subseteq TornFrames(log) \cap {Len(log)} =>
               entries = Payloads(readable)

\* wal.rs, in encode: "any change to any of them is caught on decode", for
\* changes to one byte of key, value or checksum: an entry in the log never
\* reads as another one.  (One whose lengths do not fit never reads as itself.)
AlteredDataIsCaught ==
    log # <<>> /\ Last(log) # Torn /\ Fits(Payload[Last(log)]) =>
        LET code == Last(chunks)
            e == Payload[Last(log)]
            lengths == 2..1 + WordCells \cup
                {1 + WordCells + Len(e.key) + i :
                    i \in IF e.op = PUT THEN 1..WordCells ELSE {}}
        IN  \A i \in DOMAIN code \ ({1} \cup lengths) : \A cell \in Cells \ {code[i]} :
                is_err(decode([code EXCEPT ![i] = cell]))
=============================================================================
