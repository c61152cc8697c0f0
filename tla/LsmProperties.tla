---------------------------- MODULE LsmProperties ----------------------------
(***************************************************************************)
(* What is to be true of the engine of Lsm.tla.                            *)
(***************************************************************************)
EXTENDS Lsm

\* What get would return for k if the process died now and were reopened.
Recovered(k) ==
    Answer(FirstRecord(
        <<Rebuild(replay(log))>>
            \o tables_of(disk0, Reverse(Found(disk0)))
            \o tables_of(disk1, Found(disk1)), k))

-----------------------------------------------------------------------------
Threads == [pc : Stages,
            entry : [key : Keys \cup {0}, value : Values \cup {Absent}],
            path : Stamps \cup {0}, old_mem : Table, seen : SUBSET (1..MaxWrites)]

\* Every variable has its type; the levels are empty while the process is
\* down, and L0 and L1 are while a compaction holds their files.
LsmTypeOK ==
    /\ LevelTypeOK
    /\ log \in Seq(Frames) /\ synced = 0
    /\ proc = "down" => Idle /\ l0 = <<>> /\ l1 = <<>>
    /\ proc \in {"up", "closing", "down"}
    /\ mem \in Table
    /\ th \in [Clients -> Threads]
    /\ compactor \in {"check", "poll", "compact", "removing", "exited"}
    /\ restarts \in 0..MaxRestarts
    /\ hist \in Seq([key : Keys, tomb : BOOLEAN])
    /\ Len(hist) <= MaxWrites
    /\ acked \subseteq DOMAIN hist
    /\ got \in [Clients -> [key : Keys \cup {0}, seen : SUBSET (1..MaxWrites),
                            value : Values \cup {Absent, NoFile}]]

-----------------------------------------------------------------------------
(***************************************************************************)
(* One caller at a time, no compaction: a durable dictionary.              *)
(***************************************************************************)
\* The value of the last write call on k.
LastWrite(k) ==
    LET W == {n \in DOMAIN hist : hist[n].key = k}
    IN  IF W = {} \/ hist[Max(W)].tomb THEN Absent ELSE Record(Max(W), FALSE)

KV == INSTANCE KVStore WITH
        store  <- [k \in Keys |-> LastWrite(k)],
        answer <- [c \in Clients |-> got[c].value]

\* The engine implements KVStore.  A write takes effect when it is appended to
\* the WAL; flushing, a kill at any point and reopening change nothing, and
\* every get returns the last value written before it.
ImplementsKVStore == KV!KVSpec

\* At every moment a kill and a reopen would bring back the last value
\* written under each key: the WAL, the files and their order by name always
\* hold it between them, also between the rename and the truncate of a flush.
AlwaysRecoverable == \A k \in Keys : Recovered(k) = LastWrite(k)

\* Between calls, replaying the log gives exactly the MemTable: the two are
\* filled, swapped and emptied together, and reopening keeps them so.
ReplayRebuildsMem ==
    proc = "up" /\ (\A c \in Clients : th[c].pc = "idle") =>
        Rebuild(replay(log)) = mem

-----------------------------------------------------------------------------
(***************************************************************************)
(* Many callers.                                                           *)
(***************************************************************************)

\* The record is in the MemTable, in one being flushed or in a file.
Stored(k, v) ==
    \/ mem[k] = v
    \/ \E c \in Clients : th[c].old_mem[k] = v
    \/ \E s \in Stamps : disk0[s] # NoFile /\ disk0[s][k] = v
    \/ \E s \in Stamps : disk1[s] # NoFile /\ disk1[s][k] = v

\* The only set on a key is, from its WAL append on, in the caller's hands or
\* stored: no interleaving of swaps, flushes, truncates, removals and installs
\* lets its record slip through, as long as the process lives and no I/O call
\* has failed.
SoleSetIsKept ==
    restarts = 0 /\ faults = 0 =>
        \A n \in DOMAIN hist :
            LET k == hist[n].key
            IN  ~hist[n].tomb /\ (\A m \in DOMAIN hist \ {n} : hist[m].key # k) =>
                    \/ Stored(k, Record(n, FALSE))
                    \/ \E c \in Clients :
                          th[c].pc = "insert" /\ th[c].entry.value.ver = n

\* What a get returns was set, under the key it asked for: no record crosses
\* from one key to another and no marker of a deletion gets out, whatever
\* flushes, merges, failing reads, kills and replays it has been through.
AnswersWereWritten ==
    \A c \in Clients :
        \/ got[c].value \in {Absent, NoFile}
        \/ \E n \in DOMAIN hist :
              /\ hist[n].key = got[c].key /\ ~hist[n].tomb
              /\ got[c].value = Record(n, FALSE)

(***************************************************************************)
(* One caller that never deletes, with compaction, kills and reopening.    *)
(***************************************************************************)

\* Once a set of k has returned Ok, k has a value after a kill and a reopen,
\* whenever the kill comes.
AckedSurvivesKill == \A n \in acked : Recovered(hist[n].key) \in Values

\* Once a set of k has returned Ok, every get of k called later finds a value.
SetsAreRead ==
    \A c \in Clients : \A n \in got[c].seen :
        hist[n].key = got[c].key => got[c].value \in Values

(***************************************************************************)
(* Liveness.                                                               *)
(***************************************************************************)

\* Every thread that can take a step of a call it has begun takes it, the
\* compaction thread is scheduled, and Drop gets to its join.
Fairness ==
    /\ \A c \in Clients : WF_lsmVars(ContinueCall(c))
    /\ WF_lsmVars(CompactorNext)
    /\ WF_lsmVars(join)

LsmFairSpec == LsmSpec /\ Fairness

\* Every call returns, unless the process dies under it.
CallsReturn == \A c \in Clients : (th[c].pc # "idle") ~> (th[c].pc = "idle")

\* L0 does not stay at the compaction threshold.
L0IsCompacted == needs_compaction ~> (~needs_compaction \/ proc # "up")

\* Drop returns: the compaction thread sees the flag and exits.
DropReturns == (proc = "closing") ~> (proc = "down")
=============================================================================
