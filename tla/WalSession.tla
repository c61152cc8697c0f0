----------------------------- MODULE WalSession -----------------------------
(***************************************************************************)
(* One WAL file through any number of sessions: a caller that holds the    *)
(* mutex appends with and without sync and truncates, the process is killed*)
(* or the machine loses power, the file is opened again.                   *)
(***************************************************************************)
EXTENDS Wal

CONSTANT MaxAppends   \* bound: calls of append

\* The n-th append appends n.
ASSUME SessionAssumption ==
    /\ MaxAppends \in Nat
    /\ Entries = 1..MaxAppends

VARIABLES
    opened,    \* whether a process has the file open
    appends,   \* calls of append so far
    promised,  \* history: entries whose append returned Ok and that no
               \* truncate or power loss has given leave to drop
    durable,   \* history: those of them a later sync=true append covers too
    floor,     \* history: the value of appends at the latest truncate
    stale      \* what the file held before each truncate since the last sync:
               \* truncate syncs nothing, so the disk may hold that still

sessionVars == <<walVars, opened, appends, promised, durable, floor, stale>>

SessionInit ==
    /\ WalInit
    /\ opened = FALSE
    /\ appends = 0 /\ floor = 0
    /\ promised = {} /\ durable = {}
    /\ stale = {}

\* Wal::open does not look at the contents: a torn tail stays where it is.
wal_open ==
    /\ ~opened /\ opened' = TRUE
    /\ UNCHANGED <<walVars, appends, promised, durable, floor, stale>>

append_ok(sync) ==
    /\ opened /\ appends < MaxAppends
    /\ append(appends + 1, sync)
    /\ appends' = appends + 1
    /\ promised' = promised \cup {appends + 1}
    /\ durable' = IF sync THEN promised' ELSE durable
    /\ stale' = IF sync THEN {} ELSE stale
    /\ UNCHANGED <<opened, floor>>

\* write_all fails halfway, or sync_data fails after all of it.
append_failed ==
    /\ opened /\ appends < MaxAppends
    /\ append_torn \/ append(appends + 1, FALSE)
    /\ appends' = appends + 1
    /\ UNCHANGED <<opened, promised, durable, floor, stale>>

\* Whether truncate returns Ok or the error of its seek.
wal_truncate ==
    /\ opened
    /\ truncate
    /\ stale' = stale \cup {[frames |-> log, synced |-> synced, floor |-> floor]}
    /\ promised' = {} /\ durable' = {} /\ floor' = appends
    /\ UNCHANGED <<opened, appends>>

\* A kill, between two calls or inside the write of an append.
kill ==
    /\ opened /\ opened' = FALSE
    /\ \/ UNCHANGED <<walVars, appends>>
       \/ appends < MaxAppends /\ append_torn /\ appends' = appends + 1
    /\ UNCHANGED <<promised, durable, floor, stale>>

\* A power loss, also of a machine whose process was killed before: it may drop
\* what was appended with sync=false, and it may undo truncates.
blackout ==
    /\ opened' = FALSE
    /\ \/ power_loss(log, synced) /\ floor' = floor
       \/ \E s \in stale : power_loss(s.frames, s.synced) /\ floor' = s.floor
    /\ promised' = durable /\ stale' = {}
    /\ UNCHANGED <<appends, durable>>

SessionNext ==
    \/ wal_open
    \/ \E sync \in BOOLEAN : append_ok(sync)
    \/ append_failed
    \/ wal_truncate
    \/ kill
    \/ blackout

SessionSpec == SessionInit /\ [][SessionNext]_sessionVars

-----------------------------------------------------------------------------
\* Files that a power loss may bring back.
OldFiles ==
    {s \in [frames : Seq(Frames), synced : Nat, floor : 0..appends] :
        s.synced <= Len(s.frames) /\ Len(s.frames) <= appends - s.floor}

\* Every variable has its type; the file has at most one frame for every append
\* since the truncate, and the synced part is part of it.
SessionTypeOK ==
    /\ log \in Seq(Frames) /\ synced \in 0..Len(log)
    /\ Len(log) <= appends - floor
    /\ opened \in BOOLEAN
    /\ appends \in 0..MaxAppends /\ floor \in 0..appends
    /\ promised \in SUBSET (1..appends) /\ durable \in SUBSET promised
    /\ stale \subseteq OldFiles

\* Replay returns entries in the order of their appends, each once, and none
\* from before the latest truncate that no power loss undid, whatever was torn
\* or cut in between.
ReplayIsInOrder ==
    LET es == replay(log)
    IN  /\ \A i, j \in DOMAIN es : i < j => es[i] < es[j]
        /\ \A i \in DOMAIN es : es[i] > floor

\* As long as nothing follows a torn frame, replay returns every entry it
\* must: all that were acknowledged, or after a power loss all that a sync
\* covered.
TornTailLosesNothing ==
    TornFrames(log) \subseteq {Len(log)} => promised \subseteq ToSet(replay(log))

\* wal.rs, on stopping at a frame that does not decode: "only the tail can
\* plausibly be an in-progress write"; so that what is dropped was never
\* acknowledged.
PromisedIsReplayed == promised \subseteq ToSet(replay(log))
=============================================================================
