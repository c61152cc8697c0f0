---------------------------- MODULE LsmFreshness ----------------------------
(***************************************************************************)
(* What the engine of Lsm.tla promises about values when several callers   *)
(* write one key: an answer is fresh if no acknowledged write had overtaken*)
(* it.  The promise has exceptions.  Each is a step of the code that puts  *)
(* records out of order or out of reach; a history variable remembers which*)
(* of them have happened, and the properties say that nothing else does.   *)
(***************************************************************************)
EXTENDS LsmProperties

VARIABLES
    before,   \* history: before[n] is the write calls over when the n-th began
    inMem,    \* history: the write calls that have written to the MemTable
    inHands,  \* history: inHands[c]: those to the MemTable client c is flushing
    mishaps   \* history: the exceptions that still have an effect

freshVars == <<lsmVars, before, inMem, inHands, mishaps>>

-----------------------------------------------------------------------------
(***************************************************************************)
(* The exceptions, as predicates of a step.                                *)
(***************************************************************************)
Moves(c, from, to) == th[c].pc = from /\ th'[c].pc = to

\* lsm.rs:276.  A flush takes the MemTable while another write is in the WAL,
\* which the flush will truncate, and not yet in the MemTable.
Wiped ==
    \E c, d \in Clients : Moves(c, "swap", "write") /\ th[d].pc = "insert"

\* lsm.rs:279.  Two flushed files wait to be added to L0, in any order.
Crossed ==
    \E c, d \in Clients : Moves(c, "truncate", "add") /\ th[d].pc = "add"

\* lsm.rs:256.  The MemTable taken last goes to a file that is not named last.
Misnamed ==
    \E c \in Clients : Moves(c, "swap", "write")
        /\ \E s \in Stamps : s > th[c].path /\ disk0[s] # NoFile

\* lsm.rs:275.  A flush fails and its MemTable is gone; the log has it still.
Dropped ==
    \E c \in Clients :
        th[c].pc \in {"write", "truncate"} /\ th'[c].pc = "idle" /\ proc' = "up"

\* wal.rs:145.  A later flush empties the log.
Forgotten == "dropped" \in mishaps /\ log # <<>> /\ log' = <<>>

\* wal.rs:133.  An entry is appended behind one that was cut short.
TornOver == log # <<>> /\ Last(log) = Torn /\ Len(log') > Len(log)

\* levels.rs:105.  A merge meets two L0 records of a key and keeps the older.
Contested ==
    Idle /\ ~Idle' /\ \E k \in Keys : \E i, j \in DOMAIN l0 :
        i # j /\ disk0[l0[i]][k] # Absent /\ disk0[l0[j]][k] # Absent

\* levels.rs:105.  A merge takes a file that was flushed after one that is not
\* tracked yet, with a key of that one.
Outrun ==
    Idle /\ ~Idle' /\ \E s \in ToSet(l0), t \in Stamps \ ToSet(l0) :
        t < s /\ disk0[t] # NoFile /\ \E k \in Keys :
            disk0[s][k] # Absent /\ disk0[t][k] # Absent

\* levels.rs:67.  A compaction fails and tracks no longer what it had drained.
DrainedAway == Idle /\ Idle' /\ l0 # <<>> /\ l0' = <<>> /\ proc' # "down"

\* levels.rs:116.  The process dies while a merge's inputs are being removed.
CutShort == ~Idle /\ proc' = "down"

\* reader.rs:37.  A read error ends a scan, and the merge leaves records out.
CutScan == ~short /\ short'

\* levels.rs:117.  The removal of a merged input fails, and nothing is said.
Kept == ~Idle /\ faults' # faults

Mark(mishap, happens) == IF happens THEN {mishap} ELSE {}

Mishaps ==
    UNION {Mark("wiped", Wiped), Mark("crossed", Crossed),
           Mark("misnamed", Misnamed), Mark("dropped", Dropped),
           Mark("forgotten", Forgotten), Mark("torn", TornOver),
           Mark("contested", Contested), Mark("outrun", Outrun),
           Mark("drained", DrainedAway), Mark("cut", CutShort),
           Mark("scan", CutScan), Mark("kept", Kept)}

\* Exceptions that reopening finds in the directory, and those that change
\* what the running process reads.  "lost" stands for the former once the
\* process has been reopened on them; a restart heals all others.  "torn" is
\* remembered for good: what it loses may be all that was written of a key.
OnDisk == {"wiped", "misnamed", "forgotten", "torn", "contested", "outrun",
           "drained", "cut", "scan", "kept", "lost"}
InMemory == {"crossed", "dropped", "contested", "drained", "scan", "lost"}

Remembered(M) ==
    IF proc' # "down" THEN M
    ELSE Mark("lost", M \cap OnDisk # {}) \cup (M \cap {"torn"})

-----------------------------------------------------------------------------
FreshInit ==
    /\ LsmInit
    /\ before = <<>> /\ inMem = {} /\ inHands = [c \in Clients |-> {}]
    /\ mishaps = {}

\* The write calls that some thread is still busy with.
UnderWay ==
    {th[c].entry.value.ver :
        c \in {d \in Clients : th[d].pc \notin {"idle", "levels"}}}

Inserting == {c \in Clients : th[c].pc = "insert" /\ th'[c].pc # "insert"}

\* The write calls behind the next MemTable: a process that ends has none, one
\* that opens those of the log, and a flush leaves an empty one.
NextInMem ==
    IF proc' = "down" THEN {}
    ELSE IF proc = "down" THEN {e.value.ver : e \in ToSet(replay(log))}
    ELSE IF \E c \in Clients : Moves(c, "swap", "write") THEN {}
    ELSE inMem \cup {th[c].entry.value.ver : c \in Inserting}

\* A flush that adds its file, or fails, has nothing in its hands any more.
NextInHands ==
    [c \in Clients |->
        IF th'[c].pc \notin {"write", "truncate", "add"} THEN {}
        ELSE IF th[c].pc = "swap" THEN inMem
        ELSE inHands[c]]

FreshNext ==
    /\ LsmNext
    /\ before' = IF hist' = hist THEN before
                 ELSE Append(before, DOMAIN hist \ UnderWay)
    /\ inMem' = NextInMem
    /\ inHands' = NextInHands
    /\ mishaps' = Remembered(mishaps \cup Mishaps)

FreshSpec == FreshInit /\ [][FreshNext]_freshVars

-----------------------------------------------------------------------------
\* The m-th write call is one of seen, and began after the n-th, on the same
\* key, was over.
Overtaken(n, seen) ==
    \E m \in seen : hist[m].key = hist[n].key /\ n \in before[m]

\* What a read of k may answer if the calls in seen had returned Ok before it
\* began: the value of any write that none of them has overtaken.
FreshAnswers(k, seen) ==
    {Answer(Record(n, hist[n].tomb)) :
        n \in {i \in DOMAIN hist : hist[i].key = k /\ ~Overtaken(i, seen)}}
    \cup {a \in {Absent} : \A m \in seen : hist[m].key # k}

\* The write calls whose records are in no place that a get in the levels
\* looks at: a flush has taken them and does not track their file yet.
OutOfSight(c) == IF th[c].pc = "levels" THEN UNION {inHands[d] : d \in Clients} ELSE {}

\* Whoever writes a key, in whatever order the log, the MemTable and L0 get
\* the records, a get never answers with a value, or the absence of one, that
\* a write acknowledged before the get began had overtaken; except that a get
\* that has left the MemTable misses the writes a flush has in its hands while
\* it looks into the levels, and after the exceptions InMemory.
ReadsAreFresh ==
    [][\A c \in Clients :
         \/ got'[c] = got[c]
         \/ mishaps \cap InMemory # {}
         \/ got'[c].value \in FreshAnswers(got'[c].key, got'[c].seen \ OutOfSight(c))
      ]_freshVars

\* What a kill and a reopen would bring back is fresh too, at every moment
\* outside a compaction and also right after a flush that failed, except
\* after the exceptions OnDisk: concurrent writes to a key may change places
\* in a restart, an overtaken one does not come back.
RecoveredIsFresh ==
    Idle /\ mishaps \cap OnDisk = {} =>
        \A k \in Keys : Recovered(k) \in FreshAnswers(k, acked)

\* With one caller that never deletes: once a set of a key has returned Ok, a
\* kill and a reopen bring back a value of it at every moment, and a get called
\* later finds one, as long as no I/O call fails and no entry was appended
\* behind a torn one: however compaction is cut short and however often the
\* process is killed, a record of the key is left where discover_levels looks.
KeysNeverVanish ==
    faults = 0 /\ "torn" \notin mishaps => AckedSurvivesKill /\ SetsAreRead
=============================================================================
