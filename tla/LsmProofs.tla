----------------------------- MODULE LsmProofs -----------------------------
(***************************************************************************)
(* Theorems about the engine of Lsm.tla, for every number of client        *)
(* threads, every set of calls and every value of its bounds.              *)
(***************************************************************************)
EXTENDS LsmProperties, LevelManagerProofs, LogProofs

-----------------------------------------------------------------------------
(***************************************************************************)
(* What the operators of the engine return.                                *)
(***************************************************************************)

\* The value of a write call is one of Values, and not Absent.
LEMMA RecordTyped ==
    ASSUME NEW n \in 1..MaxWrites, NEW d \in BOOLEAN
    PROVE  /\ Record(n, d) \in Values /\ Record(n, d) # Absent
           /\ Record(n, d).ver = n /\ Record(n, d).tomb = d
<1>1. Values = [ver : 1..MaxWrites, tomb : BOOLEAN]
  BY LsmAssumption
<1>2. Record(n, d) \in Values /\ Record(n, d).ver = n /\ Record(n, d).tomb = d
  BY <1>1 DEF Record
<1> QED BY <1>2, TablesAssumption

\* A table rebuilt from the log holds entries of the log.
LEMMA RebuildProperties ==
    ASSUME log \in Seq(Frames)
    PROVE  /\ Rebuild(replay(log)) \in Table
           /\ \A k \in Keys : Rebuild(replay(log))[k] # Absent =>
                 \E i \in DOMAIN log :
                    /\ log[i] # Torn /\ log[i].key = k
                    /\ Rebuild(replay(log))[k] = log[i].value
<1> DEFINE es == replay(log)
           W(k) == {i \in DOMAIN es : es[i].key = k}
<1>1. /\ es \in Seq(Frames) /\ Len(es) <= Len(log)
      /\ \A i \in DOMAIN es : es[i] = log[i] /\ log[i] # Torn
  BY ReplayProperties
<1>2. /\ Len(es) \in Nat /\ DOMAIN es = 1..Len(es)
      /\ Len(log) \in Nat /\ DOMAIN log = 1..Len(log)
  BY <1>1, LenProperties
<1>3. \A i \in DOMAIN es : i \in DOMAIN log /\ log[i] \in Entries
  BY <1>1, <1>2, ElementOfSeq DEF Frames
<1>4. \A e \in Entries : e.key \in Keys /\ e.value \in Values
  BY LsmAssumption
<1>5. Rebuild(es) = [k \in Keys |-> IF W(k) = {} THEN Absent ELSE es[Max(W(k))].value]
  BY DEF Rebuild
<1>6. ASSUME NEW k \in Keys, W(k) # {}
      PROVE  Max(W(k)) \in W(k)
  BY <1>2, <1>6, MaxProperties
<1> HIDE DEF es
<1>7. ASSUME NEW k \in Keys, Rebuild(es)[k] # Absent
      PROVE  \E i \in DOMAIN log : /\ log[i] # Torn /\ log[i].key = k
                                   /\ Rebuild(es)[k] = log[i].value
  <2>1. W(k) # {} /\ Rebuild(es)[k] = es[Max(W(k))].value
    BY <1>5, <1>7
  <2>2. Max(W(k)) \in DOMAIN es /\ es[Max(W(k))].key = k
    BY <1>6, <2>1
  <2> QED BY <1>1, <1>3, <2>1, <2>2
<1>8. Rebuild(es) \in Table
  <2> SUFFICES ASSUME NEW k \in Keys PROVE Rebuild(es)[k] \in Values \cup {Absent}
    BY <1>5 DEF Table
  <2>1. CASE W(k) = {}
    BY <1>5, <2>1
  <2>2. CASE W(k) # {}
    <3>1. Max(W(k)) \in DOMAIN es
      BY <1>6, <2>2
    <3> QED BY <1>1, <1>3, <1>4, <1>5, <2>2, <3>1
  <2> QED BY <2>1, <2>2
<1> QED BY <1>7, <1>8 DEF es

\* What discover_levels finds of a level: its files, each once.
LEMMA FoundProperties ==
    ASSUME NEW disk \in Directory
    PROVE  /\ Found(disk) \in Seq(Stamps)
           /\ \A i \in DOMAIN Found(disk) : disk[Found(disk)[i]] # NoFile
           /\ \A i, j \in DOMAIN Found(disk) : i # j => Found(disk)[i] # Found(disk)[j]
<1> DEFINE S == {s \in Stamps : disk[s] # NoFile}
<1>1. S \subseteq Int /\ IsFiniteSet(S)
  <2>1. IsFiniteSet(Stamps) /\ Stamps \subseteq Int
    BY FS_Interval, LevelAssumption DEF Stamps
  <2> QED BY <2>1, FS_Subset
<1>2. /\ Cardinality(S) \in Nat
      /\ Sorted(S) \in [1..Cardinality(S) -> S]
      /\ \A m, n \in 1..Cardinality(S) : Sorted(S)[m] = Sorted(S)[n] => m = n
  BY <1>1, SortedProperties
<1>3. Found(disk) = Sorted(S)
  BY DEF Found
<1>4. S \subseteq Stamps /\ \A s \in S : disk[s] # NoFile
  OBVIOUS
<1> HIDE DEF S
<1>5. Found(disk) \in [1..Cardinality(S) -> Stamps]
  BY <1>2, <1>3, <1>4
<1>6. Found(disk) \in Seq(Stamps)
  BY <1>2, <1>5, SeqDef
<1> QED BY <1>2, <1>3, <1>4, <1>6

\* A search finds nothing, a path without a file, or a record of a file.
LEMMA SearchOrigin ==
    ASSUME LevelTypeOK, NEW k \in Keys
    PROVE  \/ search_levels(k) \in {Absent, NoFile}
           \/ \E disk \in {disk0, disk1}, s \in Stamps :
                 /\ disk[s] # NoFile /\ disk[s] \in Table /\ disk[s][k] # Absent
                 /\ search_levels(k) = disk[s][k]
<1> DEFINE F == Table \cup {NoFile}
<1>1. ASSUME NEW disk \in Directory, NEW paths \in Seq(Stamps)
      PROVE  /\ tables_of(disk, paths) \in Seq(F)
             /\ \A i \in DOMAIN tables_of(disk, paths) :
                   \E s \in Stamps : tables_of(disk, paths)[i] = disk[s]
  <2>1. Len(paths) \in Nat /\ DOMAIN paths = 1..Len(paths)
    BY LenProperties
  <2>2. \A i \in DOMAIN paths : paths[i] \in Stamps /\ disk[paths[i]] \in F
    BY <2>1, ElementOfSeq DEF Directory
  <2>3. /\ tables_of(disk, paths) \in [1..Len(paths) -> F]
        /\ \A i \in 1..Len(paths) : tables_of(disk, paths)[i] = disk[paths[i]]
    BY <2>1, <2>2 DEF tables_of
  <2> QED BY <2>1, <2>2, <2>3, SeqDef
<1>2. Reverse(l0) \in Seq(Stamps)
  <2>1. Len(l0) \in Nat /\ \A i \in 1..Len(l0) : l0[i] \in Stamps
    BY LenProperties, ElementOfSeq DEF LevelTypeOK
  <2>2. \A i \in 1..Len(l0) : (Len(l0) - i) + 1 \in 1..Len(l0)
    BY <2>1
  <2>3. Reverse(l0) \in [1..Len(l0) -> Stamps]
    BY <2>1, <2>2 DEF Reverse
  <2> QED BY <2>1, <2>3, SeqDef
<1> DEFINE T0 == tables_of(disk0, Reverse(l0))
           ts == T0 \o L1Tables
<1>3. /\ T0 \in Seq(F) /\ \A i \in DOMAIN T0 : \E s \in Stamps : T0[i] = disk0[s]
      /\ L1Tables \in Seq(F)
      /\ \A i \in DOMAIN L1Tables : \E s \in Stamps : L1Tables[i] = disk1[s]
  BY <1>1, <1>2 DEF LevelTypeOK, L1Tables
<1> HIDE DEF T0, F
<1>4. ts \in Seq(F)
  BY <1>3, ConcatProperties
<1>5. ASSUME NEW i \in DOMAIN ts
      PROVE  \E disk \in {disk0, disk1}, s \in Stamps : ts[i] = disk[s]
  <2>1. /\ Len(T0) \in Nat /\ DOMAIN T0 = 1..Len(T0)
        /\ Len(L1Tables) \in Nat /\ DOMAIN L1Tables = 1..Len(L1Tables)
        /\ DOMAIN ts = 1 .. Len(T0) + Len(L1Tables)
        /\ ts[i] = IF i <= Len(T0) THEN T0[i] ELSE L1Tables[i - Len(T0)]
    <3>1. /\ Len(ts) = Len(T0) + Len(L1Tables)
          /\ \A n \in 1 .. Len(T0) + Len(L1Tables) :
                ts[n] = IF n <= Len(T0) THEN T0[n] ELSE L1Tables[n - Len(T0)]
      BY <1>3, ConcatProperties
    <3>2. /\ Len(T0) \in Nat /\ DOMAIN T0 = 1..Len(T0)
          /\ Len(L1Tables) \in Nat /\ DOMAIN L1Tables = 1..Len(L1Tables)
          /\ DOMAIN ts = 1..Len(ts)
      BY <1>3, <1>4, LenProperties
    <3> QED BY <3>1, <3>2
  <2> HIDE DEF ts
  <2>2. CASE i <= Len(T0)
    BY <1>3, <2>1, <2>2
  <2>3. CASE ~(i <= Len(T0))
    <3>1. i - Len(T0) \in DOMAIN L1Tables
      BY <2>1, <2>3
    <3> QED BY <1>3, <2>1, <2>3, <3>1
  <2> QED BY <2>2, <2>3
<1>6. search_levels(k) = FirstRecord(ts, k)
  BY DEF search_levels, T0
<1> HIDE DEF ts
<1>7. \/ FirstRecord(ts, k) \in {Absent, NoFile}
      \/ \E i \in DOMAIN ts :
            /\ ts[i] # NoFile /\ ts[i] \in Table /\ ts[i][k] # Absent
            /\ FirstRecord(ts, k) = ts[i][k]
  BY <1>4, FirstRecordOrigin DEF F
<1> QED BY <1>5, <1>6, <1>7

LEMMA SearchTyped ==
    ASSUME LevelTypeOK, NEW k \in Keys
    PROVE  Answer(search_levels(k)) \in Values \cup {Absent, NoFile}
<1>1. search_levels(k) \in Values \cup {Absent, NoFile}
  BY SearchOrigin DEF Table
<1> QED BY <1>1 DEF Answer

-----------------------------------------------------------------------------
(***************************************************************************)
(* Type correctness.                                                       *)
(***************************************************************************)

\* A thread at rest has no locals; one in a call has a key, and if it writes a
\* value that a write call has made; one that flushes has a path.
FlushStages == {"swap", "write", "truncate", "add"}

ThreadsFit ==
    \A c \in Clients :
        /\ th[c].pc = "idle" => th[c] = Resting
        /\ th[c].pc # "idle" => proc = "up" /\ th[c].entry.key \in Keys
        /\ th[c].pc \notin {"idle", "levels"} =>
              th[c].entry.value \in Values /\ th[c].entry.value.ver \in DOMAIN hist
        /\ th[c].pc \in FlushStages => th[c].path \in Stamps

TypeInv == LsmTypeOK /\ ThreadsFit

LEMMA RestingTyped ==
    /\ EmptyTable \in Table
    /\ Resting \in Threads /\ Resting.pc = "idle" /\ Resting.old_mem = EmptyTable
<1>1. EmptyTable \in Table
  BY DEF EmptyTable, Table
<1>2. NoEntry \in [key : Keys \cup {0}, value : Values \cup {Absent}]
  BY DEF NoEntry
<1> QED BY <1>1, <1>2 DEF Resting, Threads, Stages

\* One thread gets the locals t and the others keep theirs.
LEMMA ThreadMoves ==
    ASSUME TypeInv, NEW c \in Clients, NEW t \in Threads,
           th' = [th EXCEPT ![c] = t], proc' = proc, DOMAIN hist \subseteq DOMAIN hist',
           t.pc = "idle" => t = Resting,
           t.pc # "idle" => proc = "up" /\ t.entry.key \in Keys,
           t.pc \notin {"idle", "levels"} =>
              t.entry.value \in Values /\ t.entry.value.ver \in DOMAIN hist',
           t.pc \in FlushStages => t.path \in Stamps
    PROVE  th' \in [Clients -> Threads] /\ ThreadsFit'
<1>1. th \in [Clients -> Threads]
  BY DEF TypeInv, LsmTypeOK
<1>2. /\ th' \in [Clients -> Threads] /\ th'[c] = t
      /\ \A d \in Clients \ {c} : th'[d] = th[d]
  BY <1>1
<1>3. ASSUME NEW d \in Clients
      PROVE  /\ th'[d].pc = "idle" => th'[d] = Resting
             /\ th'[d].pc # "idle" => proc' = "up" /\ th'[d].entry.key \in Keys
             /\ th'[d].pc \notin {"idle", "levels"} =>
                   /\ th'[d].entry.value \in Values
                   /\ th'[d].entry.value.ver \in DOMAIN hist'
             /\ th'[d].pc \in FlushStages => th'[d].path \in Stamps
  <2>1. CASE d = c
    BY <1>2, <2>1
  <2>2. CASE d # c
    BY <1>2, <2>2 DEF TypeInv, ThreadsFit
  <2> QED BY <2>1, <2>2
<1> QED BY <1>2, <1>3 DEF ThreadsFit

\* Nothing of the LevelManager changes.
LEMMA LevelsStay ==
    ASSUME LevelTypeOK, UNCHANGED levelVars
    PROVE  /\ LevelTypeOK'
           /\ UNCHANGED <<disk0, disk1, l0, l1, job, clock, faults, short>>
           /\ Idle' = Idle
  BY DEF LevelTypeOK, levelVars, ioVars, Idle

\* An I/O call fails, and nothing else of the LevelManager changes.
LEMMA ErrorStays ==
    ASSUME LevelTypeOK, io_error, UNCHANGED <<disk0, disk1, l0, l1, job, clock>>
    PROVE  LevelTypeOK' /\ Idle' = Idle
  BY LevelAssumption DEF LevelTypeOK, io_error, Idle

\* set and delete number the call and append its entry to the log.
LEMMA WriteTyped ==
    ASSUME TypeInv, NEW c \in Clients, NEW k \in Keys, NEW d \in BOOLEAN,
           write_wal(c, k, d)
    PROVE  TypeInv'
<1> DEFINE n == Len(hist) + 1
           e == [key |-> k, value |-> Record(n, d)]
           t == [th[c] EXCEPT !.pc = "insert", !.entry = e]
<1>1. /\ th \in [Clients -> Threads] /\ log \in Seq(Frames)
      /\ hist \in Seq([key : Keys, tomb : BOOLEAN]) /\ Len(hist) < MaxWrites
      /\ MaxWrites \in Nat /\ LevelTypeOK
  BY LsmAssumption DEF TypeInv, LsmTypeOK, write_wal
<1>2. /\ hist' = Append(hist, [key |-> k, tomb |-> d])
      /\ hist' \in Seq([key : Keys, tomb : BOOLEAN])
      /\ Len(hist') = n /\ DOMAIN hist' = 1..n /\ DOMAIN hist = 1..n - 1
      /\ n \in 1..MaxWrites
  <2>1. [key |-> k, tomb |-> d] \in [key : Keys, tomb : BOOLEAN]
    OBVIOUS
  <2>2. hist' = Append(hist, [key |-> k, tomb |-> d])
    BY DEF write_wal
  <2> QED BY <1>1, <2>1, <2>2, AppendProperties, LenProperties
<1>3. Record(n, d) \in Values /\ Record(n, d).ver = n
  BY <1>2, RecordTyped
<1> HIDE DEF n
<1>4. e \in Entries /\ e.key = k /\ e.value = Record(n, d)
  BY <1>3, LsmAssumption
<1>5. /\ log' = Append(log, e) /\ synced' = synced /\ th' = [th EXCEPT ![c] = t]
      /\ UNCHANGED <<levelVars, proc, mem, compactor, restarts, acked, got>>
      /\ proc = "up"
  BY <1>1 DEF write_wal, append, n, At
<1>6. log' \in Seq(Frames)
  BY <1>1, <1>4, <1>5, AppendedLog DEF Frames
<1>7. /\ t \in Threads /\ t.pc = "insert" /\ t.entry = e
  <2>1. th[c] \in Threads
    BY <1>1
  <2>2. e \in [key : Keys \cup {0}, value : Values \cup {Absent}]
    BY <1>3
  <2> HIDE DEF e
  <2> QED BY <2>1, <2>2 DEF Threads, Stages
<1> HIDE DEF t, e
<1>8. th' \in [Clients -> Threads] /\ ThreadsFit'
  <2>1. DOMAIN hist \subseteq DOMAIN hist' /\ n \in DOMAIN hist'
    BY <1>2
  <2>2. /\ t.entry.key \in Keys /\ t.entry.value \in Values
        /\ t.entry.value.ver \in DOMAIN hist'
    BY <1>3, <1>4, <1>7, <2>1
  <2>3. t.pc # "idle" /\ t.pc \notin FlushStages
    BY <1>7 DEF FlushStages
  <2> QED BY <1>5, <1>7, <2>1, <2>2, <2>3, ThreadMoves
<1>9. acked' \subseteq DOMAIN hist'
  BY <1>2, <1>5 DEF TypeInv, LsmTypeOK
<1>10. LevelTypeOK' /\ (proc' = "down" => Idle' /\ l0' = <<>> /\ l1' = <<>>)
  BY <1>1, <1>5, LevelsStay
<1> QED
  BY <1>1, <1>2, <1>5, <1>6, <1>8, <1>9, <1>10 DEF TypeInv, LsmTypeOK

\* The steps that change nothing but a thread's stage and locals, and what it
\* has acknowledged and read, if the new ones have their types.
LEMMA StepTyped ==
    ASSUME TypeInv, NEW c \in Clients, NEW t \in Threads,
           th' = [th EXCEPT ![c] = t], UNCHANGED <<proc, hist, compactor, restarts>>,
           t.pc = "idle" => t = Resting,
           t.pc # "idle" => proc = "up" /\ t.entry.key \in Keys,
           t.pc \notin {"idle", "levels"} =>
              t.entry.value \in Values /\ t.entry.value.ver \in DOMAIN hist,
           t.pc \in FlushStages => t.path \in Stamps,
           LevelTypeOK', proc = "up",
           log' \in Seq(Frames), synced' = 0, mem' \in Table,
           acked' \subseteq DOMAIN hist,
           got' \in [Clients -> [key : Keys \cup {0}, seen : SUBSET (1..MaxWrites),
                                value : Values \cup {Absent, NoFile}]]
    PROVE  TypeInv'
<1>1. th' \in [Clients -> Threads] /\ ThreadsFit'
  BY ThreadMoves
<1> QED
  BY <1>1 DEF TypeInv, LsmTypeOK

\* Nothing but a thread, what is acknowledged and what was read changes.
OnlyThread ==
    UNCHANGED <<walVars, levelVars, proc, mem, compactor, restarts, hist>>

LEMMA OnlyThreadTyped ==
    ASSUME TypeInv, OnlyThread
    PROVE  /\ LevelTypeOK' /\ log' \in Seq(Frames) /\ synced' = 0 /\ mem' \in Table
           /\ UNCHANGED <<proc, hist, compactor, restarts>>
  BY LevelsStay DEF TypeInv, LsmTypeOK, OnlyThread, walVars

\* A call that is over leaves its thread at rest; Ok acknowledges the write.
LEMMA ReturnProperties ==
    ASSUME TypeInv, NEW c \in Clients, ReturnOk(c) \/ ReturnError(c),
           th[c].pc \notin {"idle", "levels"}
    PROVE  th' = [th EXCEPT ![c] = Resting] /\ acked' \subseteq DOMAIN hist
<1>1. th[c].entry.value.ver \in DOMAIN hist /\ acked \subseteq DOMAIN hist
  BY DEF TypeInv, ThreadsFit, LsmTypeOK
<1> QED BY <1>1 DEF ReturnOk, ReturnError

\* The stage of a thread is replaced.
LEMMA GoProperties ==
    ASSUME TypeInv, NEW c \in Clients, NEW stage \in Stages, Go(c, stage)
    PROVE  /\ [th[c] EXCEPT !.pc = stage] \in Threads
           /\ [th[c] EXCEPT !.pc = stage].pc = stage
           /\ [th[c] EXCEPT !.pc = stage].entry = th[c].entry
           /\ [th[c] EXCEPT !.pc = stage].path = th[c].path
           /\ [th[c] EXCEPT !.pc = stage].old_mem = th[c].old_mem
           /\ th' = [th EXCEPT ![c] = [th[c] EXCEPT !.pc = stage]]
<1>1. th[c] \in Threads
  BY DEF TypeInv, LsmTypeOK
<1>2. th' = [th EXCEPT ![c] = [th[c] EXCEPT !.pc = stage]]
  BY DEF Go
<1> QED BY <1>1, <1>2 DEF Threads

\* A thread in a write call has what its later steps need.
LEMMA InCall ==
    ASSUME TypeInv, NEW c \in Clients, th[c].pc \notin {"idle", "levels"}
    PROVE  /\ th[c] \in Threads /\ proc = "up"
           /\ th[c].entry.key \in Keys /\ th[c].entry.value \in Values
           /\ th[c].entry.value.ver \in DOMAIN hist
           /\ th[c].old_mem \in Table /\ th[c].path \in Stamps \cup {0}
           /\ th[c].pc \in FlushStages => th[c].path \in Stamps
<1>1. th[c] \in Threads
  BY DEF TypeInv, LsmTypeOK
<1> QED BY <1>1 DEF TypeInv, ThreadsFit, Threads

LEMMA InsertTyped ==
    ASSUME TypeInv, NEW c \in Clients, insert_mem(c)
    PROVE  TypeInv'
<1>1. th[c].pc = "insert" /\ proc = "up" /\ UNCHANGED <<got, hist, proc, compactor, restarts>>
  BY DEF insert_mem, At
<1>2. /\ mem' \in Table /\ LevelTypeOK' /\ log' \in Seq(Frames) /\ synced' = 0
  <2>1. mem' = insert(mem, th[c].entry.key, th[c].entry.value)
    BY DEF insert_mem
  <2>2. mem \in Table /\ th[c].entry.key \in Keys /\ th[c].entry.value \in Values
    BY <1>1, InCall DEF TypeInv, LsmTypeOK
  <2>3. mem' \in Table
    BY <2>1, <2>2 DEF insert, Table
  <2> QED BY <2>3, LevelsStay DEF TypeInv, LsmTypeOK, insert_mem, walVars
<1>3. CASE Go(c, "path") /\ UNCHANGED acked
  <2> DEFINE t == [th[c] EXCEPT !.pc = "path"]
  <2>1. /\ t \in Threads /\ t.pc = "path" /\ t.entry = th[c].entry
        /\ th' = [th EXCEPT ![c] = t]
    BY <1>3, GoProperties DEF Stages
  <2>2. /\ th[c].entry.key \in Keys /\ th[c].entry.value \in Values
        /\ th[c].entry.value.ver \in DOMAIN hist
    BY <1>1, InCall
  <2> HIDE DEF t
  <2> QED BY <1>1, <1>2, <1>3, <2>1, <2>2, StepTyped DEF TypeInv, LsmTypeOK, FlushStages
<1>4. CASE ReturnOk(c)
  <2>1. th' = [th EXCEPT ![c] = Resting] /\ acked' \subseteq DOMAIN hist
    BY <1>1, <1>4, ReturnProperties
  <2> QED BY <1>1, <1>2, <2>1, RestingTyped, StepTyped DEF TypeInv, LsmTypeOK, FlushStages
<1> QED BY <1>3, <1>4 DEF insert_mem

LEMMA PathTyped ==
    ASSUME TypeInv, NEW c \in Clients, next_sstable_path(c)
    PROVE  TypeInv'
<1>1. PICK s \in Stamps : now(s) /\ th' = [th EXCEPT ![c].pc = "swap", ![c].path = s]
  BY DEF next_sstable_path
<1> DEFINE t == [th[c] EXCEPT !.pc = "swap", !.path = s]
<1>2. /\ th[c].pc = "path" /\ proc = "up"
      /\ UNCHANGED <<walVars, fileVars, l0, l1, job, ioVars, proc, mem, compactor,
                     restarts, hist, acked, got>>
  BY DEF next_sstable_path, At
<1>3. /\ th[c] \in Threads /\ th[c].entry.key \in Keys /\ th[c].entry.value \in Values
      /\ th[c].entry.value.ver \in DOMAIN hist
  BY <1>2, InCall
<1>4. th' = [th EXCEPT ![c] = t]
  BY <1>1
<1>5. t \in Threads /\ t.pc = "swap" /\ t.path = s /\ t.entry = th[c].entry
  BY <1>3 DEF Threads, Stages
<1>6. LevelTypeOK' /\ log' \in Seq(Frames) /\ synced' = 0 /\ mem' \in Table
  BY <1>1, <1>2 DEF TypeInv, LsmTypeOK, LevelTypeOK, now, walVars, fileVars, ioVars, Idle
<1> HIDE DEF t
<1> QED
  BY <1>2, <1>3, <1>4, <1>5, <1>6, StepTyped DEF TypeInv, LsmTypeOK

LEMMA SwapTyped ==
    ASSUME TypeInv, NEW c \in Clients, flush_swap(c)
    PROVE  TypeInv'
<1> DEFINE t == [th[c] EXCEPT !.pc = "write", !.old_mem = mem]
<1>1. /\ th[c].pc = "swap" /\ proc = "up" /\ mem' = EmptyTable
      /\ th' = [th EXCEPT ![c].pc = "write", ![c].old_mem = mem]
      /\ UNCHANGED <<walVars, levelVars, proc, compactor, restarts, hist, acked, got>>
  BY DEF flush_swap, At
<1>2. /\ th[c] \in Threads /\ th[c].entry.key \in Keys /\ th[c].entry.value \in Values
      /\ th[c].entry.value.ver \in DOMAIN hist /\ th[c].path \in Stamps
  BY <1>1, InCall DEF FlushStages
<1>3. th' = [th EXCEPT ![c] = t]
  BY <1>1
<1>4. t \in Threads /\ t.pc = "write" /\ t.path = th[c].path /\ t.entry = th[c].entry
  <2>1. mem \in Table
    BY DEF TypeInv, LsmTypeOK
  <2> QED BY <1>2, <2>1 DEF Threads, Stages
<1>5. LevelTypeOK' /\ log' \in Seq(Frames) /\ synced' = 0 /\ mem' \in Table
  BY <1>1, RestingTyped, LevelsStay DEF TypeInv, LsmTypeOK, walVars
<1> HIDE DEF t
<1> QED
  BY <1>1, <1>2, <1>3, <1>4, <1>5, StepTyped DEF TypeInv, LsmTypeOK

LEMMA FlushWriteTyped ==
    ASSUME TypeInv, NEW c \in Clients, flush_write(c)
    PROVE  TypeInv'
<1> DEFINE t == [th[c] EXCEPT !.pc = "truncate", !.old_mem = EmptyTable]
<1>1. /\ th[c].pc = "write" /\ proc = "up"
      /\ disk0' = [disk0 EXCEPT ![th[c].path] = th[c].old_mem]
      /\ th' = [th EXCEPT ![c].pc = "truncate", ![c].old_mem = EmptyTable]
      /\ UNCHANGED <<walVars, disk1, l0, l1, job, clock, ioVars, proc, mem,
                     compactor, restarts, hist, acked, got>>
  BY DEF flush_write, At
<1>2. /\ th[c] \in Threads /\ th[c].entry.key \in Keys /\ th[c].entry.value \in Values
      /\ th[c].entry.value.ver \in DOMAIN hist /\ th[c].path \in Stamps
      /\ th[c].old_mem \in Table
  BY <1>1, InCall DEF FlushStages
<1>3. th' = [th EXCEPT ![c] = t]
  BY <1>1
<1>4. t \in Threads /\ t.pc = "truncate" /\ t.path = th[c].path /\ t.entry = th[c].entry
  BY <1>2, RestingTyped DEF Threads, Stages
<1>5. LevelTypeOK' /\ log' \in Seq(Frames) /\ synced' = 0 /\ mem' \in Table
  <2>1. disk0' \in Directory
    BY <1>1, <1>2 DEF TypeInv, LsmTypeOK, LevelTypeOK, Directory
  <2> QED BY <1>1, <2>1 DEF TypeInv, LsmTypeOK, LevelTypeOK, Idle, ioVars, walVars
<1> HIDE DEF t
<1> QED
  BY <1>1, <1>2, <1>3, <1>4, <1>5, StepTyped DEF TypeInv, LsmTypeOK

LEMMA FlushEndTyped ==
    ASSUME TypeInv, NEW c \in Clients,
           flush_truncate(c) \/ flush_error(c) \/ flush_add(c)
    PROVE  TypeInv'
<1>1. /\ th[c].pc \in FlushStages /\ proc = "up" /\ th[c].pc \notin {"idle", "levels"}
      /\ UNCHANGED <<proc, mem, compactor, restarts, hist, got>>
  BY DEF flush_truncate, flush_error, flush_add, At, FlushStages
<1>2. /\ th[c].entry.key \in Keys /\ th[c].entry.value \in Values
      /\ th[c].entry.value.ver \in DOMAIN hist /\ th[c].path \in Stamps
  BY <1>1, InCall
<1>3. CASE flush_truncate(c)
  <2> DEFINE t == [th[c] EXCEPT !.pc = "add"]
  <2>1. /\ t \in Threads /\ t.pc = "add" /\ t.entry = th[c].entry /\ t.path = th[c].path
        /\ th' = [th EXCEPT ![c] = t]
    BY <1>3, GoProperties DEF flush_truncate, Stages
  <2>2. log' \in Seq(Frames) /\ synced' = 0 /\ acked' = acked
    BY <1>3, EmptySeq DEF flush_truncate, truncate
  <2>3. LevelTypeOK'
    BY <1>3, LevelsStay DEF flush_truncate, TypeInv, LsmTypeOK
  <2> HIDE DEF t
  <2> QED BY <1>1, <1>2, <2>1, <2>2, <2>3, StepTyped DEF TypeInv, LsmTypeOK
<1>4. CASE flush_error(c) \/ flush_add(c)
  <2>1. th' = [th EXCEPT ![c] = Resting] /\ acked' \subseteq DOMAIN hist
    BY <1>1, <1>4, ReturnProperties DEF flush_error, flush_add
  <2>2. LevelTypeOK'
    <3>1. CASE flush_error(c)
      BY <3>1, ErrorStays DEF flush_error, TypeInv, LsmTypeOK
    <3>2. CASE flush_add(c)
      <4>1. l0' \in Seq(Stamps) /\ Idle
        BY <1>2, <3>2, AppendProperties
           DEF flush_add, add_l0_file, TypeInv, LsmTypeOK, LevelTypeOK
      <4> QED BY <3>2, <4>1 DEF flush_add, TypeInv, LsmTypeOK, LevelTypeOK, Idle, ioVars
    <3> QED BY <1>4, <3>1, <3>2
  <2>3. log' \in Seq(Frames) /\ synced' = 0
    BY <1>4, EmptySeq DEF flush_error, flush_add, walVars, truncate, TypeInv, LsmTypeOK
  <2> QED BY <1>1, <2>1, <2>2, <2>3, RestingTyped, StepTyped
             DEF TypeInv, LsmTypeOK, FlushStages
<1> QED BY <1>3, <1>4

\* A torn append puts one torn frame at the end of the log.
LEMMA TornTyped ==
    ASSUME log \in Seq(Frames), synced = 0, append_torn
    PROVE  log' \in Seq(Frames) /\ synced' = 0
  BY AppendedLog DEF append_torn, Frames

\* A thread at rest, or in a get, that takes a step of get.
LEMMA GetTyped ==
    ASSUME TypeInv, NEW c \in Clients, NEW k \in Keys, get(c, k)
    PROVE  TypeInv'
<1>1. /\ th[c] \in Threads /\ proc = "up" /\ mem \in Table
      /\ acked \subseteq DOMAIN hist /\ acked' = acked
      /\ got \in [Clients -> [key : Keys \cup {0}, seen : SUBSET (1..MaxWrites),
                              value : Values \cup {Absent, NoFile}]]
      /\ OnlyThread
  BY DEF TypeInv, LsmTypeOK, get, At, OnlyThread
<1>2. acked \in SUBSET (1..MaxWrites)
  <2>1. hist \in Seq([key : Keys, tomb : BOOLEAN]) /\ Len(hist) <= MaxWrites
    BY DEF TypeInv, LsmTypeOK
  <2>2. DOMAIN hist \subseteq 1..MaxWrites
    BY <2>1, LenProperties, LsmAssumption
  <2> QED BY <1>1, <2>2
<1>3. CASE /\ got' = [got EXCEPT ![c] =
                        [key |-> k, seen |-> acked, value |-> Answer(mem[k])]]
           /\ UNCHANGED th
  <2>1. Answer(mem[k]) \in Values \cup {Absent, NoFile}
    BY <1>1 DEF Answer, Table
  <2>2. got' \in [Clients -> [key : Keys \cup {0}, seen : SUBSET (1..MaxWrites),
                              value : Values \cup {Absent, NoFile}]]
    BY <1>1, <1>2, <1>3, <2>1
  <2>3. th' = [th EXCEPT ![c] = th[c]]
    BY <1>3 DEF TypeInv, LsmTypeOK
  <2>4. th[c].pc = "idle" /\ th[c] = Resting
    BY DEF get, At, TypeInv, ThreadsFit
  <2> QED
    BY <1>1, <2>2, <2>3, <2>4, OnlyThreadTyped, StepTyped DEF FlushStages
<1>4. CASE /\ th' = [th EXCEPT ![c].pc = "levels", ![c].entry.key = k, ![c].seen = acked]
           /\ UNCHANGED got
  <2> DEFINE t == [th[c] EXCEPT !.pc = "levels", !.entry.key = k, !.seen = acked]
  <2>1. th' = [th EXCEPT ![c] = t]
    BY <1>4
  <2>2. t \in Threads /\ t.pc = "levels" /\ t.entry.key = k
    BY <1>1, <1>2 DEF Threads, Stages
  <2> HIDE DEF t
  <2> QED
    BY <1>1, <1>4, <2>1, <2>2, OnlyThreadTyped, StepTyped DEF FlushStages
<1> QED BY <1>3, <1>4 DEF get

LEMMA GetLevelsTyped ==
    ASSUME TypeInv, NEW c \in Clients, get_levels(c)
    PROVE  TypeInv'
<1>1. /\ th[c] \in Threads /\ th[c].pc = "levels" /\ proc = "up"
      /\ acked \subseteq DOMAIN hist /\ acked' = acked /\ LevelTypeOK
      /\ got \in [Clients -> [key : Keys \cup {0}, seen : SUBSET (1..MaxWrites),
                              value : Values \cup {Absent, NoFile}]]
      /\ OnlyThread /\ th' = [th EXCEPT ![c] = Resting]
      /\ th[c].entry.key \in Keys
  BY DEF TypeInv, LsmTypeOK, ThreadsFit, get_levels, At, OnlyThread
<1> DEFINE v == Answer(search_levels(th[c].entry.key))
<1>2. v \in Values \cup {Absent, NoFile}
  BY <1>1, SearchTyped
<1>3. got' = [got EXCEPT ![c] = [key |-> th[c].entry.key, seen |-> th[c].seen, value |-> v]]
  BY DEF get_levels
<1>4. th[c].seen \in SUBSET (1..MaxWrites)
  BY <1>1 DEF Threads
<1> HIDE DEF v
<1>5. got' \in [Clients -> [key : Keys \cup {0}, seen : SUBSET (1..MaxWrites),
                            value : Values \cup {Absent, NoFile}]]
  BY <1>1, <1>2, <1>3, <1>4
<1> QED
  BY <1>1, <1>5, RestingTyped, OnlyThreadTyped, StepTyped DEF FlushStages

LEMMA WriteErrorTyped ==
    ASSUME TypeInv, NEW c \in Clients, write_wal_error(c)
    PROVE  TypeInv'
<1>1. /\ append_torn /\ io_error
      /\ UNCHANGED <<disk0, disk1, l0, l1, job, clock, proc, mem, th, compactor,
                     restarts, hist, acked, got>>
  BY DEF write_wal_error
<1>2. log' \in Seq(Frames) /\ synced' = 0
  BY <1>1, TornTyped DEF TypeInv, LsmTypeOK
<1>3. LevelTypeOK' /\ Idle' = Idle
  BY <1>1, ErrorStays DEF TypeInv, LsmTypeOK
<1> QED BY <1>1, <1>2, <1>3 DEF TypeInv, LsmTypeOK, ThreadsFit

-----------------------------------------------------------------------------
\* The compaction thread changes its stage and the levels.
LEMMA CompactorTyped ==
    ASSUME TypeInv, CompactorNext
    PROVE  TypeInv'
<1>1. /\ proc # "down"
      /\ UNCHANGED <<walVars, proc, mem, th, restarts, hist, acked, got>>
      /\ compactor' \in {"check", "poll", "compact", "removing", "exited"}
  BY DEF CompactorNext, compactor_check, compactor_poll, compactor_begin,
         compactor_remove, compactor_install, Compactor
<1>2. UNCHANGED levelVars \/ compact_begin \/ compact_end
  BY DEF CompactorNext, compactor_check, compactor_poll, compactor_begin,
         compactor_remove, compactor_install, compact_begin, compact_end
<1>3. LevelTypeOK'
  BY <1>2, LevelsStay, CompactPreservesType DEF TypeInv, LsmTypeOK
<1> QED BY <1>1, <1>3 DEF TypeInv, LsmTypeOK, ThreadsFit, walVars

-----------------------------------------------------------------------------
(***************************************************************************)
(* The process.                                                            *)
(***************************************************************************)
LEMMA ForgetTyped ==
    ASSUME TypeInv, Forget, log' \in Seq(Frames), synced' = 0,
           restarts' \in 0..MaxRestarts
    PROVE  TypeInv'
<1>1. /\ proc' = "down" /\ mem' = EmptyTable /\ compactor' = "exited"
      /\ th' = [c \in Clients |-> Resting]
      /\ l0' = <<>> /\ l1' = <<>> /\ job' = NoJob
      /\ UNCHANGED <<disk0, disk1, clock, faults, short, hist, acked, got>>
  BY DEF Forget, fileVars, ioVars
<1>2. LevelTypeOK' /\ Idle'
  BY <1>1, EmptySeq, JobProperties DEF TypeInv, LsmTypeOK, LevelTypeOK, Idle
<1>3. th' \in [Clients -> Threads] /\ ThreadsFit'
  <2>1. \A c \in Clients : th'[c] = Resting
    BY <1>1
  <2> QED BY <1>1, <2>1, RestingTyped DEF ThreadsFit, FlushStages
<1> QED BY <1>1, <1>2, <1>3, RestingTyped DEF TypeInv, LsmTypeOK

LEMMA OpenTyped ==
    ASSUME TypeInv, open
    PROVE  TypeInv'
<1>1. /\ proc = "down" /\ proc' = "up" /\ compactor' = "check"
      /\ mem' = Rebuild(replay(log)) /\ l0' = Found(disk0) /\ l1' = Found(disk1)
      /\ UNCHANGED <<log, synced, disk0, disk1, job, clock, faults, short, th,
                     restarts, hist, acked, got>>
  BY DEF open, discover_levels, walVars, fileVars, ioVars
<1>2. Idle /\ Idle'
  BY <1>1 DEF TypeInv, LsmTypeOK, Idle
<1>3. LevelTypeOK'
  BY <1>1, <1>2, FoundProperties DEF TypeInv, LsmTypeOK, LevelTypeOK
<1>4. mem' \in Table
  BY <1>1, RebuildProperties DEF TypeInv, LsmTypeOK
<1> QED BY <1>1, <1>3, <1>4 DEF TypeInv, LsmTypeOK, ThreadsFit

LEMMA ProcessTyped ==
    ASSUME TypeInv, ProcessNext
    PROVE  TypeInv'
<1>1. CASE open
  BY <1>1, OpenTyped
<1>2. CASE drop
  <2>1. LevelTypeOK' /\ restarts' \in 0..MaxRestarts
    BY <1>2, LevelsStay, LsmAssumption DEF drop, TypeInv, LsmTypeOK
  <2> QED BY <1>2, <2>1 DEF drop, TypeInv, LsmTypeOK, ThreadsFit, walVars
<1>3. CASE join
  BY <1>3, ForgetTyped DEF join, walVars, TypeInv, LsmTypeOK
<1>4. CASE crash
  <2>1. restarts' \in 0..MaxRestarts /\ Forget
    BY <1>4, LsmAssumption DEF crash, TypeInv, LsmTypeOK
  <2>2. log' \in Seq(Frames) /\ synced' = 0
    BY <1>4, TornTyped DEF crash, walVars, TypeInv, LsmTypeOK
  <2> QED BY <2>1, <2>2, ForgetTyped
<1> QED BY <1>1, <1>2, <1>3, <1>4 DEF ProcessNext

-----------------------------------------------------------------------------
LEMMA TypeInvInitially == LsmInit => TypeInv
<1> SUFFICES ASSUME LsmInit PROVE TypeInv
  OBVIOUS
<1>1. LevelTypeOK /\ Idle /\ l0 = <<>> /\ l1 = <<>>
  BY LevelInitTypeOK DEF LsmInit, LevelInit, Idle
<1>2. log \in Seq(Frames) /\ synced = 0
  BY EmptySeq DEF LsmInit, WalInit
<1>3. th \in [Clients -> Threads] /\ ThreadsFit
  <2>1. th = [c \in Clients |-> Resting]
    BY DEF LsmInit
  <2> QED BY <2>1, RestingTyped DEF ThreadsFit, FlushStages
<1>4. /\ restarts \in 0..MaxRestarts /\ hist \in Seq([key : Keys, tomb : BOOLEAN])
      /\ Len(hist) <= MaxWrites /\ acked \subseteq DOMAIN hist
  BY EmptySeq, LsmAssumption DEF LsmInit
<1>5. /\ proc = "down" /\ compactor = "exited" /\ mem \in Table
      /\ got \in [Clients -> [key : Keys \cup {0}, seen : SUBSET (1..MaxWrites),
                              value : Values \cup {Absent, NoFile}]]
  BY RestingTyped DEF LsmInit
<1> QED BY <1>1, <1>2, <1>3, <1>4, <1>5 DEF TypeInv, LsmTypeOK

LEMMA TypeInvStays == TypeInv /\ [LsmNext]_lsmVars => TypeInv'
<1> SUFFICES ASSUME TypeInv, [LsmNext]_lsmVars PROVE TypeInv'
  OBVIOUS
<1>1. ASSUME NEW c \in Clients, BeginCall(c) PROVE TypeInv'
  <2>1. CASE \E k \in Keys : set(c, k) \/ delete(c, k) \/ get(c, k)
    <3>1. PICK k \in Keys : set(c, k) \/ delete(c, k) \/ get(c, k)
      BY <2>1
    <3> QED BY <3>1, WriteTyped, GetTyped DEF set, delete
  <2>2. CASE write_wal_error(c)
    BY <2>2, WriteErrorTyped
  <2> QED BY <1>1, <2>1, <2>2 DEF BeginCall
<1>2. ASSUME NEW c \in Clients, ContinueCall(c) PROVE TypeInv'
  BY <1>2, InsertTyped, PathTyped, SwapTyped, FlushWriteTyped, FlushEndTyped,
     GetLevelsTyped DEF ContinueCall
<1>3. CASE UNCHANGED lsmVars
  <2>1. LevelTypeOK'
    BY <1>3, LevelsStay DEF lsmVars, TypeInv, LsmTypeOK
  <2> QED BY <1>3, <2>1 DEF lsmVars, levelVars, walVars, TypeInv, LsmTypeOK,
                            ThreadsFit, Idle
<1> QED BY <1>1, <1>2, <1>3, CompactorTyped, ProcessTyped DEF LsmNext

\* Every reachable state of the engine has its type; the levels are empty
\* whenever the process is down, and no thread is in a call unless it is up.
THEOREM LsmTypeCorrect == LsmSpec => []LsmTypeOK
<1>1. LsmSpec => []TypeInv
  BY TypeInvInitially, TypeInvStays, PTL DEF LsmSpec
<1>2. TypeInv => LsmTypeOK
  BY DEF TypeInv
<1> QED BY <1>1, <1>2, PTL

-----------------------------------------------------------------------------
(***************************************************************************)
(* The files under a strict clock.                                         *)
(***************************************************************************)

\* A MemTable swapped out is held until its file is written.  The file of a
\* flush is on disk once it is written; its path is in no list and no other
\* flush has it.
FlushInv ==
    \A c \in Clients :
        /\ th[c].pc # "write" => th[c].old_mem = EmptyTable
        /\ th[c].pc \in FlushStages =>
              /\ th[c].path <= clock /\ th[c].path \notin Listed0
              /\ (disk0[th[c].path] = NoFile) <=> (th[c].pc \in {"swap", "write"})
              /\ \A d \in Clients \ {c} :
                    th[d].pc \in FlushStages => th[d].path # th[c].path

EngineFilesInv == TypeInv /\ FilesInv /\ Dated /\ FlushInv

\* Nothing of the levels changes but the clock, and that only grows.
LEMMA LevelsFrame ==
    ASSUME FilesInv, Dated, LevelTypeOK', UNCHANGED <<disk0, disk1, l0, l1, job>>,
           clock <= clock'
    PROVE  /\ FilesInv' /\ Dated'
           /\ Listed0' = Listed0
<1>1. clock \in Int /\ clock' \in Int /\ LevelTypeOK
  BY DEF FilesInv, LevelTypeOK, Stamps
<1>2. ASSUME NEW paths \in Seq(Stamps), HaveFiles(paths), paths' = paths
      PROVE  HaveFiles(paths)'
  <2>1. \A i \in DOMAIN paths : paths[i] \in Stamps
    BY LenProperties, ElementOfSeq
  <2>2. \A i \in DOMAIN paths : paths[i] \in Int
    BY <2>1 DEF Stamps
  <2> QED BY <1>1, <1>2, <2>2 DEF HaveFiles
<1>3. HaveFiles(l1)' /\ (\A i \in DOMAIN l0' : disk0'[l0'[i]] # NoFile)
  BY <1>1, <1>2 DEF FilesInv, LevelTypeOK
<1>4. ~Idle => HaveFiles(ToInstall)'
  <2> SUFFICES ASSUME ~Idle PROVE HaveFiles(ToInstall)'
    OBVIOUS
  <2>1. ToInstall \in Seq(Stamps) /\ ToInstall' = ToInstall
    <3>1. job.untouched \in Seq(Stamps) /\ job.output \in Stamps
      BY <1>1 DEF LevelTypeOK
    <3> QED BY <3>1, AppendProperties DEF ToInstall
  <2> QED BY <1>2, <2>1 DEF FilesInv
<1>5. ~Idle' => ~Idle /\ KeptApart'
  BY DEF Idle, FilesInv, KeptApart, ToInstall
<1>6. Dated' /\ Listed0' = Listed0
  BY <1>1 DEF Dated, Listed0, Stamps
<1> QED BY <1>3, <1>4, <1>5, <1>6 DEF FilesInv

\* One thread moves; the files of the flushes of the others are left alone.
LEMMA FlushMoves ==
    ASSUME TypeInv, FlushInv, TypeInv', NEW c \in Clients, NEW t \in Threads,
           th' = [th EXCEPT ![c] = t], clock <= clock',
           t.pc # "write" => t.old_mem = EmptyTable,
           \A d \in Clients \ {c} : th[d].pc \in FlushStages =>
              th[d].path \notin Listed0' /\ disk0'[th[d].path] = disk0[th[d].path],
           t.pc \in FlushStages =>
              /\ t.path <= clock' /\ t.path \notin Listed0'
              /\ (disk0'[t.path] = NoFile) <=> (t.pc \in {"swap", "write"})
              /\ \A d \in Clients \ {c} :
                    th[d].pc \in FlushStages => th[d].path # t.path
    PROVE  FlushInv'
<1>1. /\ th'[c] = t /\ \A d \in Clients \ {c} : th'[d] = th[d]
      /\ clock \in Int /\ clock' \in Int
  BY DEF TypeInv, LsmTypeOK, LevelTypeOK, Stamps
<1>2. \A d \in Clients : th[d].pc \in FlushStages => th[d].path \in Int
  BY DEF TypeInv, ThreadsFit, Stamps
<1>3. ASSUME NEW d \in Clients \ {c}
      PROVE  /\ th'[d].pc # "write" => th'[d].old_mem = EmptyTable
             /\ th'[d].pc \in FlushStages =>
                  /\ th'[d].path <= clock' /\ th'[d].path \notin Listed0'
                  /\ (disk0'[th'[d].path] = NoFile) <=> (th'[d].pc \in {"swap", "write"})
                  /\ \A e \in Clients \ {d} :
                        th'[e].pc \in FlushStages => th'[e].path # th'[d].path
  <2>1. th'[d] = th[d]
    BY <1>1
  <2>2. th[d].pc \in FlushStages =>
          /\ th[d].path <= clock'
          /\ \A e \in Clients \ {d} : th'[e].pc \in FlushStages => th'[e].path # th[d].path
    BY <1>1, <1>2 DEF FlushInv
  <2> QED BY <2>1, <2>2 DEF FlushInv
<1>4. /\ th'[c].pc # "write" => th'[c].old_mem = EmptyTable
      /\ th'[c].pc \in FlushStages =>
           /\ th'[c].path <= clock' /\ th'[c].path \notin Listed0'
           /\ (disk0'[th'[c].path] = NoFile) <=> (th'[c].pc \in {"swap", "write"})
           /\ \A e \in Clients \ {c} :
                 th'[e].pc \in FlushStages => th'[e].path # th'[c].path
  BY <1>1
<1> QED BY <1>3, <1>4 DEF FlushInv

\* A thread moves and the levels stay as they are.
LEMMA FilesStay ==
    ASSUME EngineFilesInv, TypeInv', NEW c \in Clients, NEW t \in Threads,
           th' = [th EXCEPT ![c] = t],
           UNCHANGED <<disk0, disk1, l0, l1, job, clock>>,
           t.pc # "write" => t.old_mem = EmptyTable,
           t.pc \in FlushStages =>
              /\ th[c].pc \in FlushStages /\ t.path = th[c].path
              /\ (t.pc \in {"swap", "write"}) <=> (th[c].pc \in {"swap", "write"})
    PROVE  EngineFilesInv'
<1>1. clock <= clock' /\ LevelTypeOK'
  BY DEF EngineFilesInv, TypeInv, LsmTypeOK, LevelTypeOK, Stamps
<1>2. FilesInv' /\ Dated' /\ Listed0' = Listed0
  BY <1>1, LevelsFrame DEF EngineFilesInv
<1>3. ASSUME t.pc \in FlushStages
      PROVE  /\ t.path <= clock' /\ t.path \notin Listed0'
             /\ (disk0'[t.path] = NoFile) <=> (t.pc \in {"swap", "write"})
             /\ \A d \in Clients \ {c} :
                   th[d].pc \in FlushStages => th[d].path # t.path
  BY <1>2, <1>3 DEF EngineFilesInv, FlushInv
<1>4. \A d \in Clients \ {c} : th[d].pc \in FlushStages =>
         th[d].path \notin Listed0' /\ disk0'[th[d].path] = disk0[th[d].path]
  BY <1>2 DEF EngineFilesInv, FlushInv
<1>5. FlushInv'
  BY <1>1, <1>3, <1>4, FlushMoves DEF EngineFilesInv
<1> QED BY <1>2, <1>5 DEF EngineFilesInv

\* Begin a call, insert, swap, truncate, fail, search the levels.
LEMMA CalmStepsFiles ==
    ASSUME EngineFilesInv, TypeInv', NEW c \in Clients,
           \/ BeginCall(c) \/ insert_mem(c) \/ flush_swap(c) \/ flush_truncate(c)
           \/ flush_error(c) \/ get_levels(c)
    PROVE  EngineFilesInv'
<1>1. /\ th \in [Clients -> Threads] /\ th[c] \in Threads
      /\ th[c].pc # "write" => th[c].old_mem = EmptyTable
      /\ mem \in Table
  BY DEF EngineFilesInv, TypeInv, LsmTypeOK, FlushInv
<1>2. UNCHANGED <<disk0, disk1, l0, l1, job, clock>>
  BY DEF BeginCall, set, delete, get, write_wal, write_wal_error, insert_mem,
         flush_swap, flush_truncate, flush_error, get_levels, levelVars
<1>3. \/ th' = th
      \/ th' = [th EXCEPT ![c] = Resting]
      \/ \E e : /\ th' = [th EXCEPT ![c].pc = "insert", ![c].entry = e]
                /\ th[c].pc = "idle"
      \/ \E k : /\ th' = [th EXCEPT ![c].pc = "levels", ![c].entry.key = k,
                                    ![c].seen = acked]
                /\ th[c].pc = "idle"
      \/ th' = [th EXCEPT ![c].pc = "path"] /\ th[c].pc = "insert"
      \/ /\ th' = [th EXCEPT ![c].pc = "write", ![c].old_mem = mem]
         /\ th[c].pc = "swap"
      \/ th' = [th EXCEPT ![c].pc = "add"] /\ th[c].pc = "truncate"
  BY DEF BeginCall, set, delete, get, write_wal, write_wal_error, insert_mem,
         flush_swap, flush_truncate, flush_error, get_levels, At, Go,
         ReturnOk, ReturnError
<1>4. th'[c] \in Threads
  BY DEF TypeInv, LsmTypeOK
<1>5. th' = [th EXCEPT ![c] = th'[c]]
  BY <1>1, <1>3
<1>6. /\ th'[c].pc # "write" => th'[c].old_mem = EmptyTable
      /\ th'[c].pc \in FlushStages =>
           /\ th[c].pc \in FlushStages /\ th'[c].path = th[c].path
           /\ (th'[c].pc \in {"swap", "write"}) <=> (th[c].pc \in {"swap", "write"})
  <2>1. CASE th' = th
    BY <1>1, <2>1
  <2>2. CASE th' = [th EXCEPT ![c] = Resting]
    BY <1>1, <2>2, RestingTyped DEF FlushStages
  <2>3. CASE \E e : /\ th' = [th EXCEPT ![c].pc = "insert", ![c].entry = e]
                    /\ th[c].pc = "idle"
    BY <1>1, <2>3 DEF FlushStages, Threads
  <2>4. CASE \E k : /\ th' = [th EXCEPT ![c].pc = "levels", ![c].entry.key = k,
                                        ![c].seen = acked]
                    /\ th[c].pc = "idle"
    BY <1>1, <2>4 DEF FlushStages, Threads
  <2>5. CASE th' = [th EXCEPT ![c].pc = "path"] /\ th[c].pc = "insert"
    BY <1>1, <2>5 DEF FlushStages, Threads
  <2>6. CASE /\ th' = [th EXCEPT ![c].pc = "write", ![c].old_mem = mem]
             /\ th[c].pc = "swap"
    BY <1>1, <2>6 DEF FlushStages, Threads
  <2>7. CASE th' = [th EXCEPT ![c].pc = "add"] /\ th[c].pc = "truncate"
    BY <1>1, <2>7 DEF FlushStages, Threads
  <2> QED BY <1>3, <2>1, <2>2, <2>3, <2>4, <2>5, <2>6, <2>7
<1> DEFINE t == th'[c]
<1> HIDE DEF t
<1> QED BY <1>2, <1>4, <1>5, <1>6, FilesStay DEF t

\* A new path is later than every other.
LEMMA PathFiles ==
    ASSUME StrictClock, EngineFilesInv, TypeInv', NEW c \in Clients,
           next_sstable_path(c)
    PROVE  EngineFilesInv'
<1>1. PICK s \in Stamps : now(s) /\ th' = [th EXCEPT ![c].pc = "swap", ![c].path = s]
  BY DEF next_sstable_path
<1>2. /\ th[c].pc = "path" /\ th[c] \in Threads /\ th[c].old_mem = EmptyTable
      /\ UNCHANGED <<disk0, disk1, l0, l1, job>>
  BY DEF next_sstable_path, At, fileVars, EngineFilesInv, TypeInv, LsmTypeOK, FlushInv
<1> DEFINE t == [th[c] EXCEPT !.pc = "swap", !.path = s]
<1>3. /\ t \in Threads /\ t.pc = "swap" /\ t.path = s /\ t.old_mem = EmptyTable
      /\ th' = [th EXCEPT ![c] = t]
  BY <1>1, <1>2 DEF Threads, Stages
<1>4. clock < s /\ clock' = s /\ clock \in Int /\ s \in Int
  <2>1. LevelTypeOK
    BY DEF EngineFilesInv, TypeInv, LsmTypeOK
  <2> QED BY <1>1, <2>1, StrictNow
<1>5. FilesInv' /\ Dated' /\ Listed0' = Listed0
  BY <1>2, <1>4, LevelsFrame DEF EngineFilesInv, TypeInv, LsmTypeOK
<1>6. disk0[s] = NoFile /\ s \notin Listed0
  BY <1>4 DEF EngineFilesInv, Dated
<1>7. \A d \in Clients \ {c} : th[d].pc \in FlushStages =>
         /\ th[d].path \notin Listed0' /\ disk0'[th[d].path] = disk0[th[d].path]
         /\ th[d].path # s
  BY <1>2, <1>4, <1>5 DEF EngineFilesInv, FlushInv
<1> HIDE DEF t
<1>8. FlushInv'
  <2>1. /\ t.path <= clock' /\ t.path \notin Listed0'
        /\ (disk0'[t.path] = NoFile) <=> (t.pc \in {"swap", "write"})
        /\ \A d \in Clients \ {c} :
              th[d].pc \in FlushStages => th[d].path # t.path
    BY <1>2, <1>3, <1>4, <1>5, <1>6, <1>7
  <2>2. TypeInv /\ FlushInv /\ clock <= clock'
    BY <1>4 DEF EngineFilesInv
  <2> QED BY <1>3, <1>7, <2>1, <2>2, FlushMoves
<1> QED BY <1>5, <1>8 DEF EngineFilesInv

\* A flush writes its file, which is not tracked yet.
LEMMA FlushWriteFiles ==
    ASSUME EngineFilesInv, TypeInv', NEW c \in Clients, flush_write(c)
    PROVE  EngineFilesInv'
<1> DEFINE p == th[c].path
           t == [th[c] EXCEPT !.pc = "truncate", !.old_mem = EmptyTable]
<1>1. /\ th[c].pc = "write" /\ th[c] \in Threads /\ p \in Stamps
      /\ p <= clock /\ p \notin Listed0 /\ th[c].old_mem \in Table
      /\ \A d \in Clients \ {c} : th[d].pc \in FlushStages => th[d].path # p
  BY InCall DEF flush_write, At, EngineFilesInv, FlushInv, FlushStages
<1>2. /\ disk0' = [disk0 EXCEPT ![p] = th[c].old_mem] /\ disk0 \in Directory
      /\ UNCHANGED <<disk1, l0, l1, job, clock>>
      /\ th' = [th EXCEPT ![c].pc = "truncate", ![c].old_mem = EmptyTable]
  BY DEF flush_write, EngineFilesInv, TypeInv, LsmTypeOK, LevelTypeOK
<1>3. /\ t \in Threads /\ t.pc = "truncate" /\ t.path = p /\ t.old_mem = EmptyTable
      /\ th' = [th EXCEPT ![c] = t]
  BY <1>1, <1>2, RestingTyped DEF Threads, Stages
<1> HIDE DEF p, t
<1>4. /\ disk0'[p] = th[c].old_mem /\ disk0'[p] # NoFile
      /\ \A q \in Stamps \ {p} : disk0'[q] = disk0[q]
  BY <1>1, <1>2, TablesAssumption DEF Directory
<1>5. Listed0' = Listed0 /\ Idle' = Idle /\ LevelTypeOK' /\ clock \in Int
  BY <1>2 DEF Listed0, Idle, TypeInv, LsmTypeOK, EngineFilesInv, LevelTypeOK, Stamps
<1>6. FilesInv'
  <2>1. \A i \in DOMAIN l0 : disk0'[l0[i]] # NoFile
    <3>1. \A i \in DOMAIN l0 : l0[i] \in Stamps
      BY LenProperties, ElementOfSeq DEF EngineFilesInv, FilesInv, LevelTypeOK
    <3> QED BY <1>4, <3>1 DEF EngineFilesInv, FilesInv
  <2> QED BY <1>2, <1>5, <2>1 DEF EngineFilesInv, FilesInv, HaveFiles, KeptApart, ToInstall
<1>7. Dated'
  BY <1>1, <1>2, <1>4, <1>5 DEF EngineFilesInv, Dated
<1>8. \A d \in Clients \ {c} : th[d].pc \in FlushStages =>
         th[d].path \notin Listed0' /\ disk0'[th[d].path] = disk0[th[d].path]
  BY <1>1, <1>4, <1>5 DEF EngineFilesInv, FlushInv, TypeInv, ThreadsFit
<1>9. FlushInv'
  <2>1. /\ t.path <= clock' /\ t.path \notin Listed0'
        /\ (disk0'[t.path] = NoFile) <=> (t.pc \in {"swap", "write"})
        /\ \A d \in Clients \ {c} :
              th[d].pc \in FlushStages => th[d].path # t.path
    BY <1>1, <1>2, <1>3, <1>4, <1>5
  <2>2. TypeInv /\ FlushInv /\ clock <= clock'
    BY <1>2, <1>5 DEF EngineFilesInv
  <2> QED BY <1>3, <1>8, <2>1, <2>2, FlushMoves
<1> QED BY <1>6, <1>7, <1>9 DEF EngineFilesInv

\* A flush that is over has its file tracked.
LEMMA FlushAddFiles ==
    ASSUME EngineFilesInv, TypeInv', NEW c \in Clients, flush_add(c)
    PROVE  EngineFilesInv'
<1> DEFINE p == th[c].path
<1>1. /\ th[c].pc = "add" /\ p \in Stamps /\ p <= clock /\ disk0[p] # NoFile
      /\ \A d \in Clients \ {c} : th[d].pc \in FlushStages => th[d].path # p
  BY InCall DEF flush_add, At, EngineFilesInv, FlushInv, FlushStages
<1>2. /\ Idle /\ l0' = Append(l0, p) /\ l0 \in Seq(Stamps)
      /\ UNCHANGED <<disk0, disk1, l1, job, clock>>
      /\ th' = [th EXCEPT ![c] = Resting]
  BY DEF flush_add, add_l0_file, ReturnOk, EngineFilesInv, TypeInv, LsmTypeOK, LevelTypeOK
<1> HIDE DEF p
<1>3. /\ DOMAIN l0' = DOMAIN l0 \cup {Len(l0) + 1} /\ l0'[Len(l0) + 1] = p
      /\ \A i \in DOMAIN l0 : l0'[i] = l0[i]
  <2>1. Len(l0) \in Nat /\ DOMAIN l0 = 1..Len(l0)
    BY <1>2, LenProperties
  <2>2. /\ l0' \in Seq(Stamps) /\ Len(l0') = Len(l0) + 1
        /\ \A i \in 1..Len(l0) : l0'[i] = l0[i]
        /\ l0'[Len(l0) + 1] = p
    BY <1>1, <1>2, AppendProperties
  <2> QED BY <2>1, <2>2, LenProperties
<1>4. Listed0' = Listed0 \cup {p}
  BY <1>2, <1>3 DEF Listed0
<1>5. FilesInv'
  <2>1. LevelTypeOK' /\ Idle'
    BY <1>2 DEF TypeInv, LsmTypeOK, Idle
  <2> QED BY <1>1, <1>2, <1>3, <2>1 DEF EngineFilesInv, FilesInv, HaveFiles
<1>6. Dated'
  BY <1>1, <1>2, <1>4 DEF EngineFilesInv, Dated
<1>7. clock <= clock'
  BY <1>2 DEF EngineFilesInv, TypeInv, LsmTypeOK, LevelTypeOK, Stamps
<1>8. \A d \in Clients \ {c} : th[d].pc \in FlushStages =>
         th[d].path \notin Listed0' /\ disk0'[th[d].path] = disk0[th[d].path]
  BY <1>1, <1>2, <1>4 DEF EngineFilesInv, FlushInv
<1>9. FlushInv'
  BY <1>2, <1>7, <1>8, RestingTyped, FlushMoves DEF EngineFilesInv, FlushStages
<1> QED BY <1>5, <1>6, <1>9 DEF EngineFilesInv

\* No step of the compaction thread touches the file of a flush.
LEMMA CompactorFiles ==
    ASSUME StrictClock, EngineFilesInv, TypeInv', CompactorNext
    PROVE  EngineFilesInv'
<1>1. th' = th
  BY DEF CompactorNext, compactor_check, compactor_poll, compactor_begin,
         compactor_remove, compactor_install, Compactor
<1>2. UNCHANGED levelVars \/ compact_begin \/ compact_end
  BY DEF CompactorNext, compactor_check, compactor_poll, compactor_begin,
         compactor_remove, compactor_install, compact_begin, compact_end
<1>3. /\ FilesInv' /\ Dated' /\ clock <= clock'
      /\ \A p \in Stamps : p \notin Listed0 => p \notin Listed0' /\ disk0'[p] = disk0[p]
  <2>1. CASE UNCHANGED levelVars
    <3>1. /\ UNCHANGED <<disk0, disk1, l0, l1, job, clock>> /\ LevelTypeOK'
          /\ clock <= clock'
      BY <2>1 DEF levelVars, TypeInv, LsmTypeOK, EngineFilesInv, LevelTypeOK, Stamps
    <3> QED BY <3>1, LevelsFrame DEF EngineFilesInv
  <2>2. CASE compact_begin \/ compact_end
    BY <2>2, CompactPreservesFiles, CompactDated, CompactOnL0
       DEF EngineFilesInv, FilesInv
  <2> QED BY <1>2, <2>1, <2>2
<1>4. \A c \in Clients : th[c].pc \in FlushStages => th[c].path \in Stamps
  BY DEF EngineFilesInv, TypeInv, ThreadsFit
<1>5. clock \in Int /\ clock' \in Int /\ \A p \in Stamps : p \in Int
  BY DEF EngineFilesInv, TypeInv, LsmTypeOK, LevelTypeOK, Stamps
<1>6. \A c \in Clients : th[c].pc \in FlushStages =>
         /\ th[c].path <= clock' /\ th[c].path \notin Listed0'
         /\ disk0'[th[c].path] = disk0[th[c].path]
  BY <1>3, <1>4, <1>5 DEF EngineFilesInv, FlushInv
<1>7. FlushInv'
  BY <1>1, <1>6 DEF EngineFilesInv, FlushInv
<1> QED BY <1>3, <1>7 DEF EngineFilesInv

\* While every thread rests there is nothing to say of flushes.
LEMMA RestFiles ==
    ASSUME \A c \in Clients : th[c] = Resting
    PROVE  FlushInv
  BY RestingTyped DEF FlushInv, FlushStages

LEMMA ForgetFiles ==
    ASSUME EngineFilesInv, TypeInv', Forget
    PROVE  EngineFilesInv'
<1>1. /\ th' = [c \in Clients |-> Resting]
      /\ l0' = <<>> /\ l1' = <<>> /\ job' = NoJob
      /\ UNCHANGED <<disk0, disk1, clock>>
  BY DEF Forget, fileVars
<1>2. FlushInv'
  <2>1. \A c \in Clients : th'[c] = Resting
    BY <1>1
  <2> QED BY <2>1, RestingTyped DEF FlushInv, FlushStages
<1>3. Listed0' = {}
  BY <1>1, JobProperties DEF Listed0
<1>4. Dated'
  BY <1>1, <1>3 DEF EngineFilesInv, Dated
<1>5. FilesInv'
  BY <1>1 DEF TypeInv, LsmTypeOK, FilesInv, HaveFiles, Idle
<1> QED BY <1>2, <1>4, <1>5 DEF EngineFilesInv

LEMMA OpenFiles ==
    ASSUME EngineFilesInv, TypeInv', open
    PROVE  EngineFilesInv'
<1>1. /\ th' = th /\ l0' = Found(disk0) /\ l1' = Found(disk1) /\ job' = job
      /\ UNCHANGED <<disk0, disk1, clock>> /\ proc = "down" /\ job = NoJob
      /\ disk0 \in Directory /\ disk1 \in Directory
  BY DEF open, discover_levels, fileVars, EngineFilesInv, TypeInv, LsmTypeOK,
         LevelTypeOK, Idle
<1>2. FlushInv'
  <2>1. \A c \in Clients : th'[c] = Resting
    BY <1>1 DEF EngineFilesInv, TypeInv, ThreadsFit
  <2> QED BY <2>1, RestingTyped DEF FlushInv, FlushStages
<1>3. /\ \A i \in DOMAIN l0' : l0'[i] \in Stamps /\ disk0[l0'[i]] # NoFile
      /\ \A i \in DOMAIN l1' : l1'[i] \in Stamps /\ disk1[l1'[i]] # NoFile
      /\ \A i, j \in DOMAIN l1' : i # j => l1'[i] # l1'[j]
  <2>1. l0' \in Seq(Stamps) /\ l1' \in Seq(Stamps)
    BY <1>1, FoundProperties
  <2>2. /\ \A i \in DOMAIN l0' : l0'[i] \in Stamps
        /\ \A i \in DOMAIN l1' : l1'[i] \in Stamps
    BY <2>1, LenProperties, ElementOfSeq
  <2> QED BY <1>1, <2>2, FoundProperties
<1>4. Dated'
  <2>1. \A s \in Listed0' : s \in Stamps /\ disk0[s] # NoFile
    BY <1>1, <1>3, JobProperties DEF Listed0
  <2> QED BY <1>1, <2>1 DEF EngineFilesInv, Dated
<1>5. FilesInv'
  BY <1>1, <1>3 DEF TypeInv, LsmTypeOK, EngineFilesInv, Dated, FilesInv, HaveFiles, Idle
<1> QED BY <1>2, <1>4, <1>5 DEF EngineFilesInv

LEMMA EngineFilesInitially == LsmInit => EngineFilesInv
<1> SUFFICES ASSUME LsmInit PROVE EngineFilesInv
  OBVIOUS
<1>1. TypeInv
  BY TypeInvInitially
<1>2. /\ th = [c \in Clients |-> Resting] /\ l0 = <<>> /\ l1 = <<>> /\ job = NoJob
      /\ \A s \in Stamps : disk0[s] = NoFile /\ disk1[s] = NoFile
  BY DEF LsmInit, LevelInit
<1>3. FlushInv
  BY <1>2, RestFiles
<1>4. Listed0 = {}
  BY <1>2, JobProperties DEF Listed0
<1>5. Dated
  BY <1>2, <1>4 DEF Dated
<1>6. FilesInv
  BY <1>1, <1>2 DEF TypeInv, LsmTypeOK, FilesInv, HaveFiles, Idle
<1> QED BY <1>1, <1>3, <1>5, <1>6 DEF EngineFilesInv

LEMMA EngineFilesStay ==
    ASSUME StrictClock
    PROVE  EngineFilesInv /\ [LsmNext]_lsmVars => EngineFilesInv'
<1> SUFFICES ASSUME EngineFilesInv, [LsmNext]_lsmVars PROVE EngineFilesInv'
  OBVIOUS
<1>1. TypeInv'
  BY TypeInvStays DEF EngineFilesInv
<1>2. ASSUME NEW c \in Clients, BeginCall(c) \/ ContinueCall(c)
      PROVE  EngineFilesInv'
  BY <1>1, <1>2, CalmStepsFiles, PathFiles, FlushWriteFiles, FlushAddFiles
     DEF ContinueCall
<1>3. CASE CompactorNext
  BY <1>1, <1>3, CompactorFiles
<1>4. CASE join \/ crash
  BY <1>1, <1>4, ForgetFiles DEF join, crash
<1>5. CASE open
  BY <1>1, <1>5, OpenFiles
<1>6. CASE drop \/ UNCHANGED lsmVars
  <2>1. UNCHANGED <<disk0, disk1, l0, l1, job, clock, th>>
    BY <1>6 DEF drop, lsmVars, levelVars
  <2>2. LevelTypeOK' /\ clock <= clock'
    BY <1>1, <2>1 DEF TypeInv, LsmTypeOK, EngineFilesInv, LevelTypeOK, Stamps
  <2>3. FilesInv' /\ Dated' /\ Listed0' = Listed0
    BY <2>1, <2>2, LevelsFrame DEF EngineFilesInv
  <2>4. FlushInv'
    BY <2>1, <2>3 DEF EngineFilesInv, FlushInv
  <2> QED BY <1>1, <2>3, <2>4 DEF EngineFilesInv
<1> QED BY <1>2, <1>3, <1>4, <1>5, <1>6 DEF LsmNext, ProcessNext

\* Whatever client threads, compaction, failing I/O calls and kills do, no
\* tracked path is one without a file, as long as the clock is strict: a get
\* never fails on a path it was given.
THEOREM EngineFilesExist ==
    ASSUME StrictClock
    PROVE  LsmSpec => []TrackedFilesExist
<1>1. LsmSpec => []EngineFilesInv
  BY EngineFilesInitially, EngineFilesStay, PTL DEF LsmSpec
<1>2. EngineFilesInv => TrackedFilesExist
  BY DEF EngineFilesInv, FilesInv, HaveFiles, TrackedFilesExist
<1> QED BY <1>1, <1>2, PTL

\* Nor is anything of what a compaction is about to install missing.
THEOREM EngineMergeInstallable ==
    ASSUME StrictClock
    PROVE  LsmSpec => []MergeIsInstallable
<1>1. LsmSpec => []EngineFilesInv
  BY EngineFilesInitially, EngineFilesStay, PTL DEF LsmSpec
<1>2. EngineFilesInv => MergeIsInstallable
  BY DEF EngineFilesInv, FilesInv, HaveFiles, MergeIsInstallable
<1> QED BY <1>1, <1>2, PTL

-----------------------------------------------------------------------------
(***************************************************************************)
(* The records.                                                            *)
(***************************************************************************)

\* The records that write calls have made, by key.
Written ==
    [k \in Keys |->
        {Record(n, hist[n].tomb) : n \in {m \in DOMAIN hist : hist[m].key = k}}]

\* No record is anywhere but under the key it was written under.
RecordsInv ==
    /\ Within(mem, Written)
    /\ \A c \in Clients : Within(th[c].old_mem, Written)
    /\ FilesWithin(Written)
    /\ \A i \in DOMAIN log : log[i] # Torn => log[i].value \in Written[log[i].key]
    /\ \A c \in Clients : th[c].pc \notin {"idle", "levels"} =>
          th[c].entry.value \in Written[th[c].entry.key]
    /\ \A c \in Clients : got[c].value \notin {Absent, NoFile} =>
          /\ got[c].key \in Keys
          /\ got[c].value \in Written[got[c].key] \ Tombstones

EngineRecordsInv == TypeInv /\ RecordsInv

LEMMA WithinGrows ==
    ASSUME NEW t, NEW G, NEW H, Within(t, G), \A k \in Keys : G[k] \subseteq H[k]
    PROVE  Within(t, H)
  BY DEF Within

LEMMA EmptyWithin == \A G : Within(EmptyTable, G)
  BY DEF Within, EmptyTable

\* A step that writes nothing new, if what it changes keeps to what is written.
LEMMA RecordsFrame ==
    ASSUME EngineRecordsInv, TypeInv', hist' = hist,
           Within(mem', Written), FilesWithin(Written)',
           \A i \in DOMAIN log' : log'[i] # Torn => log'[i].value \in Written[log'[i].key],
           \A c \in Clients :
              /\ Within(th'[c].old_mem, Written)
              /\ th'[c].pc \notin {"idle", "levels"} =>
                    th'[c].entry.value \in Written[th'[c].entry.key],
           \A c \in Clients : got'[c].value \notin {Absent, NoFile} =>
              /\ got'[c].key \in Keys
              /\ got'[c].value \in Written[got'[c].key] \ Tombstones
    PROVE  EngineRecordsInv'
<1>1. Written' = Written
  BY DEF Written
<1> QED BY <1>1 DEF EngineRecordsInv, RecordsInv

\* A write call is on a key, and has a number and a kind.
LEMMA CallTyped ==
    ASSUME TypeInv
    PROVE  \A n \in DOMAIN hist :
              n \in 1..MaxWrites /\ hist[n].key \in Keys /\ hist[n].tomb \in BOOLEAN
<1>1. /\ hist \in Seq([key : Keys, tomb : BOOLEAN]) /\ Len(hist) <= MaxWrites
      /\ Len(hist) \in Nat /\ DOMAIN hist = 1..Len(hist) /\ MaxWrites \in Nat
  BY LenProperties, LsmAssumption DEF TypeInv, LsmTypeOK
<1>2. \A n \in DOMAIN hist : hist[n] \in [key : Keys, tomb : BOOLEAN]
  BY <1>1, ElementOfSeq
<1> QED BY <1>1, <1>2

\* A write call adds one record to those written.
LEMMA WriteHistory ==
    ASSUME TypeInv, NEW c \in Clients, NEW k \in Keys, NEW d \in BOOLEAN,
           write_wal(c, k, d)
    PROVE  LET n == Len(hist) + 1
           IN  /\ n \in Nat /\ n \notin DOMAIN hist /\ DOMAIN hist' = DOMAIN hist \cup {n}
               /\ hist'[n] = [key |-> k, tomb |-> d]
               /\ \A m \in DOMAIN hist : hist'[m] = hist[m]
               /\ \A q \in Keys : Written[q] \subseteq Written'[q]
               /\ Record(n, d) \in Written'[k]
<1> DEFINE n == Len(hist) + 1
<1>1. /\ hist \in Seq([key : Keys, tomb : BOOLEAN])
      /\ hist' = Append(hist, [key |-> k, tomb |-> d])
      /\ [key |-> k, tomb |-> d] \in [key : Keys, tomb : BOOLEAN]
  BY DEF TypeInv, LsmTypeOK, write_wal
<1>2. /\ Len(hist) \in Nat /\ DOMAIN hist = 1..Len(hist)
      /\ DOMAIN hist' = 1..n /\ hist'[n] = [key |-> k, tomb |-> d]
      /\ \A m \in 1..Len(hist) : hist'[m] = hist[m]
  BY <1>1, AppendProperties, LenProperties
<1>3. /\ n \in Nat /\ n \notin DOMAIN hist /\ DOMAIN hist' = DOMAIN hist \cup {n}
      /\ \A m \in DOMAIN hist : hist'[m] = hist[m]
  BY <1>2
<1> HIDE DEF n
<1>4. Record(n, d) \in Written'[k]
  <2>1. n \in {m \in DOMAIN hist' : hist'[m].key = k} /\ hist'[n].tomb = d
    BY <1>2, <1>3
  <2>2. Written'[k] = {Record(m, hist'[m].tomb) : m \in {i \in DOMAIN hist' : hist'[i].key = k}}
    BY DEF Written
  <2> QED BY <2>1, <2>2
<1>5. ASSUME NEW q \in Keys
      PROVE  Written[q] \subseteq Written'[q]
  <2> SUFFICES ASSUME NEW r \in Written[q] PROVE r \in Written'[q]
    OBVIOUS
  <2>1. PICK m \in DOMAIN hist : hist[m].key = q /\ r = Record(m, hist[m].tomb)
    BY DEF Written
  <2>2. m \in DOMAIN hist' /\ hist'[m] = hist[m]
    BY <1>3
  <2> QED BY <2>1, <2>2 DEF Written
<1> QED BY <1>2, <1>3, <1>4, <1>5 DEF n

LEMMA WriteRecords ==
    ASSUME EngineRecordsInv, NEW c \in Clients, NEW k \in Keys, NEW d \in BOOLEAN,
           write_wal(c, k, d)
    PROVE  EngineRecordsInv'
<1> DEFINE n == Len(hist) + 1
           e == [key |-> k, value |-> Record(n, d)]
<1>1. /\ \A q \in Keys : Written[q] \subseteq Written'[q]
      /\ Record(n, d) \in Written'[k]
  BY WriteHistory DEF EngineRecordsInv
<1> HIDE DEF n
<1>2. /\ log' = Append(log, e) /\ th' = [th EXCEPT ![c].pc = "insert", ![c].entry = e]
      /\ th[c].pc = "idle"
      /\ UNCHANGED <<disk0, disk1, mem, got>>
  BY DEF write_wal, append, At, levelVars, n
<1>3. /\ th \in [Clients -> Threads] /\ log \in Seq(Frames) /\ TypeInv'
  BY WriteTyped DEF EngineRecordsInv, TypeInv, LsmTypeOK
<1>4. e.key = k /\ e.value = Record(n, d) /\ e \in Frames
  <2>1. n \in 1..MaxWrites
    <3>1. Len(hist) \in Nat /\ Len(hist) < MaxWrites
      BY LenProperties DEF EngineRecordsInv, TypeInv, LsmTypeOK, write_wal
    <3> QED BY <3>1, LsmAssumption DEF n
  <2>2. Record(n, d) \in Values
    BY <2>1, RecordTyped
  <2> QED BY <2>2, LsmAssumption DEF Frames
<1>5. Within(mem', Written')
  BY <1>1, <1>2, WithinGrows DEF EngineRecordsInv, RecordsInv
<1>6. FilesWithin(Written)'
  BY <1>1, <1>2, WithinGrows DEF EngineRecordsInv, RecordsInv, FilesWithin
<1> HIDE DEF e
<1>7. \A i \in DOMAIN log' : log'[i] # Torn => log'[i].value \in Written'[log'[i].key]
  <2> SUFFICES ASSUME NEW i \in DOMAIN log', log'[i] # Torn
               PROVE  log'[i].value \in Written'[log'[i].key]
    OBVIOUS
  <2>1. /\ Len(log) \in Nat /\ DOMAIN log = 1..Len(log)
        /\ DOMAIN log' = 1..Len(log) + 1
        /\ \A j \in 1..Len(log) : log'[j] = log[j]
        /\ log'[Len(log) + 1] = e
    BY <1>2, <1>3, <1>4, AppendedLog, LenProperties
  <2>2. CASE i = Len(log) + 1
    BY <1>1, <1>4, <2>1, <2>2
  <2>3. CASE i \in DOMAIN log
    <3>1. log[i] \in Entries
      BY <1>3, <2>1, <2>3, ElementOfSeq DEF Frames
    <3>2. log[i].key \in Keys
      BY <3>1, LsmAssumption
    <3> QED BY <1>1, <2>1, <2>3, <3>2 DEF EngineRecordsInv, RecordsInv
  <2> QED BY <2>1, <2>2, <2>3
<1>8. ASSUME NEW b \in Clients
      PROVE  /\ Within(th'[b].old_mem, Written')
             /\ th'[b].pc \notin {"idle", "levels"} =>
                   th'[b].entry.value \in Written'[th'[b].entry.key]
  <2>1. th'[b].old_mem = th[b].old_mem
    BY <1>2, <1>3 DEF Threads
  <2>2. Within(th'[b].old_mem, Written')
    BY <1>1, <2>1, WithinGrows DEF EngineRecordsInv, RecordsInv
  <2>3. CASE b = c
    BY <1>1, <1>2, <1>3, <1>4, <2>2, <2>3 DEF Threads
  <2>4. CASE b # c
    <3>1. th'[b] = th[b]
      BY <1>2, <1>3, <2>4
    <3>2. th[b].pc # "idle" => th[b].entry.key \in Keys
      BY DEF EngineRecordsInv, TypeInv, ThreadsFit
    <3> QED BY <1>1, <2>2, <3>1, <3>2 DEF EngineRecordsInv, RecordsInv
  <2> QED BY <2>3, <2>4
<1>9. \A b \in Clients : got'[b].value \notin {Absent, NoFile} =>
         /\ got'[b].key \in Keys
         /\ got'[b].value \in Written'[got'[b].key] \ Tombstones
  BY <1>1, <1>2 DEF EngineRecordsInv, RecordsInv
<1> QED
  BY <1>3, <1>5, <1>6, <1>7, <1>8, <1>9 DEF EngineRecordsInv, RecordsInv

\* The log after a torn append.
LEMMA TornRecords ==
    ASSUME EngineRecordsInv, append_torn
    PROVE  \A i \in DOMAIN log' :
              log'[i] # Torn => log'[i].value \in Written[log'[i].key]
<1>1. log \in Seq(Frames) /\ Torn \in Frames /\ log' = Append(log, Torn)
  BY DEF EngineRecordsInv, TypeInv, LsmTypeOK, append_torn, Frames
<1>2. /\ Len(log) \in Nat /\ DOMAIN log = 1..Len(log)
      /\ DOMAIN log' = 1..Len(log) + 1
      /\ \A j \in 1..Len(log) : log'[j] = log[j]
      /\ log'[Len(log) + 1] = Torn
  BY <1>1, AppendedLog, LenProperties
<1>3. \A i \in DOMAIN log' : i = Len(log) + 1 \/ i \in DOMAIN log
  BY <1>2
<1> QED BY <1>2, <1>3 DEF EngineRecordsInv, RecordsInv

\* A get answers with a record of the MemTable or of a file, or without one.
LEMMA GetRecords ==
    ASSUME EngineRecordsInv, TypeInv', NEW c \in Clients,
           (\E k \in Keys : get(c, k)) \/ get_levels(c)
    PROVE  EngineRecordsInv'
<1> DEFINE Answered(k, v) ==
             /\ got' = [got EXCEPT ![c] = [key |-> k, seen |-> got'[c].seen, value |-> v]]
             /\ v \in {Absent, NoFile} \cup (Written[k] \ Tombstones)
<1>1. /\ UNCHANGED <<log, disk0, disk1, mem, hist>> /\ mem \in Table /\ LevelTypeOK
      /\ th \in [Clients -> Threads]
      /\ got \in [Clients -> [key : Keys \cup {0}, seen : SUBSET (1..MaxWrites),
                              value : Values \cup {Absent, NoFile}]]
  BY DEF get, get_levels, walVars, levelVars, EngineRecordsInv, TypeInv, LsmTypeOK
<1>2. ASSUME NEW k \in Keys, NEW v \in Written[k] \cup {Absent, NoFile}
      PROVE  Answer(v) \in {Absent, NoFile} \cup (Written[k] \ Tombstones)
  BY <1>2 DEF Answer, is_tombstone
<1>3. got' = got \/ \E k \in Keys : \E v : Answered(k, v)
  <2>1. ASSUME NEW k \in Keys, get(c, k)
        PROVE  got' = got \/ Answered(k, Answer(mem[k]))
    <3>1. mem[k] \in Written[k] \cup {Absent, NoFile}
      BY DEF EngineRecordsInv, RecordsInv, Within
    <3> QED BY <1>1, <1>2, <2>1, <3>1 DEF get
  <2>2. CASE get_levels(c)
    <3> DEFINE k == th[c].entry.key
    <3>1. k \in Keys
      BY <2>2 DEF get_levels, At, EngineRecordsInv, TypeInv, ThreadsFit
    <3> HIDE DEF k
    <3>2. search_levels(k) \in Written[k] \cup {Absent, NoFile}
      BY <1>1, <3>1, SearchOrigin DEF EngineRecordsInv, RecordsInv, FilesWithin, Within
    <3>3. Answered(k, Answer(search_levels(k)))
      BY <1>1, <1>2, <2>2, <3>1, <3>2 DEF get_levels, k
    <3> QED BY <3>1, <3>3
  <2> QED BY <2>1, <2>2
<1>4. \A b \in Clients : got'[b].value \notin {Absent, NoFile} =>
         /\ got'[b].key \in Keys
         /\ got'[b].value \in Written[got'[b].key] \ Tombstones
  BY <1>1, <1>3 DEF EngineRecordsInv, RecordsInv
<1>5. \A b \in Clients :
         /\ th'[b].old_mem = th[b].old_mem \/ th'[b].old_mem = EmptyTable
         /\ th'[b].pc \notin {"idle", "levels"} => th'[b] = th[b]
  <2>1. CASE get_levels(c)
    BY <1>1, <2>1, RestingTyped DEF get_levels
  <2>2. ASSUME NEW k \in Keys, get(c, k)
        PROVE  \/ th' = th
               \/ th' = [th EXCEPT ![c].pc = "levels", ![c].entry.key = k,
                                   ![c].seen = acked]
    BY <2>2 DEF get
  <2>3. CASE \E k \in Keys : get(c, k)
    <3>1. CASE th' = th
      BY <3>1
    <3>2. CASE \E k : th' = [th EXCEPT ![c].pc = "levels", ![c].entry.key = k,
                                       ![c].seen = acked]
      <4>1. PICK k : th' = [th EXCEPT ![c].pc = "levels", ![c].entry.key = k,
                                      ![c].seen = acked]
        BY <3>2
      <4>2. \A b \in Clients \ {c} : th'[b] = th[b]
        BY <1>1, <4>1
      <4>3. th'[c].old_mem = th[c].old_mem /\ th'[c].pc = "levels"
        BY <1>1, <4>1 DEF Threads
      <4> QED BY <4>2, <4>3
    <3> QED BY <2>2, <2>3, <3>1, <3>2
  <2> QED BY <2>1, <2>3
<1>6. \A b \in Clients :
         /\ Within(th'[b].old_mem, Written)
         /\ th'[b].pc \notin {"idle", "levels"} =>
               th'[b].entry.value \in Written[th'[b].entry.key]
  BY <1>5, EmptyWithin DEF EngineRecordsInv, RecordsInv
<1>7. FilesWithin(Written)'
  BY <1>1 DEF EngineRecordsInv, RecordsInv, FilesWithin, Written
<1> QED
  BY <1>1, <1>4, <1>6, <1>7, RecordsFrame DEF EngineRecordsInv, RecordsInv

\* A thread goes on with its call, or leaves it.
LEMMA CallRecords ==
    ASSUME EngineRecordsInv, TypeInv', NEW c \in Clients, ContinueCall(c)
    PROVE  EngineRecordsInv'
<1>1. /\ th \in [Clients -> Threads] /\ th[c] \in Threads
      /\ Within(mem, Written) /\ FilesWithin(Written)
      /\ Within(th[c].old_mem, Written)
      /\ \A i \in DOMAIN log : log[i] # Torn => log[i].value \in Written[log[i].key]
      /\ \A b \in Clients : th[b].pc \notin {"idle", "levels"} =>
            th[b].entry.value \in Written[th[b].entry.key]
      /\ disk0 \in Directory
  BY DEF EngineRecordsInv, RecordsInv, TypeInv, LsmTypeOK, LevelTypeOK
<1>2. CASE get_levels(c)
  BY <1>2, GetRecords
<1>3. ASSUME ~get_levels(c)
      PROVE  EngineRecordsInv'
  <2>1. /\ hist' = hist /\ got' = got
        /\ th[c].pc \notin {"idle", "levels"}
    BY <1>3 DEF ContinueCall, insert_mem, next_sstable_path, flush_swap, flush_write,
                flush_truncate, flush_error, flush_add, At
  <2>2. Written' = Written
    BY <2>1 DEF Written
  <2>3. Within(mem', Written)
    <3>1. mem' = mem \/ mem' = EmptyTable
             \/ mem' = insert(mem, th[c].entry.key, th[c].entry.value)
      BY <1>3 DEF ContinueCall, insert_mem, next_sstable_path, flush_swap, flush_write,
                  flush_truncate, flush_error, flush_add
    <3>2. mem \in Table /\ th[c].entry.value \in Written[th[c].entry.key]
      BY <1>1, <2>1 DEF EngineRecordsInv, TypeInv, LsmTypeOK
    <3>3. Within(insert(mem, th[c].entry.key, th[c].entry.value), Written)
      BY <1>1, <3>2 DEF Within, insert, Table
    <3> QED BY <1>1, <3>1, <3>3, EmptyWithin
  <2>4. \A i \in DOMAIN log' : log'[i] # Torn => log'[i].value \in Written[log'[i].key]
    <3>1. log' = log \/ log' = <<>>
      BY <1>3 DEF ContinueCall, insert_mem, next_sstable_path, flush_swap, flush_write,
                  flush_truncate, flush_error, flush_add, walVars, truncate
    <3> QED BY <1>1, <3>1
  <2>5. FilesWithin(Written)'
    <3>1. disk1' = disk1 /\ (disk0' = disk0
             \/ disk0' = [disk0 EXCEPT ![th[c].path] = th[c].old_mem])
      BY <1>3 DEF ContinueCall, insert_mem, next_sstable_path, flush_swap, flush_write,
                  flush_truncate, flush_error, flush_add, levelVars, fileVars
    <3>2. \A s \in Stamps : disk0'[s] = disk0[s] \/ disk0'[s] = th[c].old_mem
      BY <1>1, <3>1 DEF Directory
    <3> QED BY <1>1, <2>2, <3>1, <3>2 DEF FilesWithin
  <2>6. \A b \in Clients :
           /\ Within(th'[b].old_mem, Written)
           /\ th'[b].pc \notin {"idle", "levels"} =>
                 th'[b].entry.value \in Written[th'[b].entry.key]
    <3>1. \/ th' = [th EXCEPT ![c] = Resting]
          \/ \E stage : th' = [th EXCEPT ![c].pc = stage]
          \/ \E s : th' = [th EXCEPT ![c].pc = "swap", ![c].path = s]
          \/ th' = [th EXCEPT ![c].pc = "write", ![c].old_mem = mem]
          \/ th' = [th EXCEPT ![c].pc = "truncate", ![c].old_mem = EmptyTable]
      <4>1. CASE insert_mem(c) \/ flush_truncate(c) \/ flush_error(c) \/ flush_add(c)
        BY <4>1 DEF insert_mem, flush_truncate, flush_error, flush_add, Go,
                    ReturnOk, ReturnError
      <4>2. CASE next_sstable_path(c) \/ flush_swap(c) \/ flush_write(c)
        BY <4>2 DEF next_sstable_path, flush_swap, flush_write
      <4> QED BY <1>3, <4>1, <4>2 DEF ContinueCall
    <3>2. \A b \in Clients \ {c} : th'[b] = th[b]
      BY <1>1, <3>1
    <3>3. \/ th'[c] = Resting
          \/ /\ th'[c].entry = th[c].entry
             /\ th'[c].old_mem \in {th[c].old_mem, mem, EmptyTable}
      BY <1>1, <3>1 DEF Threads
    <3>4. Within(th'[c].old_mem, Written)
      BY <1>1, <3>3, EmptyWithin, RestingTyped
    <3>5. th'[c].pc \notin {"idle", "levels"} =>
             th'[c].entry.value \in Written[th'[c].entry.key]
      BY <1>1, <2>1, <3>3, RestingTyped
    <3> QED BY <3>2, <3>4, <3>5 DEF EngineRecordsInv, RecordsInv
  <2> QED
    BY <2>1, <2>3, <2>4, <2>5, <2>6, RecordsFrame DEF EngineRecordsInv, RecordsInv
<1> QED BY <1>2, <1>3

\* The compaction thread and the process move records about.
LEMMA CompactorRecords ==
    ASSUME EngineRecordsInv, TypeInv', CompactorNext
    PROVE  EngineRecordsInv'
<1>1. UNCHANGED <<log, mem, th, hist, got>>
  BY DEF CompactorNext, compactor_check, compactor_poll, compactor_begin,
         compactor_remove, compactor_install, Compactor, walVars
<1>2. UNCHANGED levelVars \/ compact_begin \/ compact_end
  BY DEF CompactorNext, compactor_check, compactor_poll, compactor_begin,
         compactor_remove, compactor_install, compact_begin, compact_end
<1>3. /\ Written' = Written /\ LevelTypeOK /\ FilesWithin(Written)
  BY <1>1 DEF Written, EngineRecordsInv, RecordsInv, TypeInv, LsmTypeOK
<1>4. FilesWithin(Written)'
  <2>1. CASE UNCHANGED levelVars
    BY <1>3, <2>1 DEF levelVars, FilesWithin
  <2>2. CASE compact_begin \/ compact_end
    <3> DEFINE G == Written
    <3>1. \A s \in Stamps :
            /\ disk0'[s] # NoFile => Within(disk0'[s], Written)
            /\ disk1'[s] # NoFile => Within(disk1'[s], Written)
      BY <1>3, <2>2, CompactWithin DEF FilesWithin
    <3> QED BY <1>3, <3>1 DEF FilesWithin
  <2> QED BY <1>2, <2>1, <2>2
<1> QED BY <1>1, <1>4, RecordsFrame DEF EngineRecordsInv, RecordsInv

LEMMA ProcessRecords ==
    ASSUME EngineRecordsInv, TypeInv', ProcessNext
    PROVE  EngineRecordsInv'
<1>1. UNCHANGED <<disk0, disk1, hist, got>>
  BY DEF ProcessNext, open, drop, join, crash, Forget, fileVars, levelVars
<1>2. FilesWithin(Written)'
  BY <1>1 DEF FilesWithin, Written, EngineRecordsInv, RecordsInv
<1>3. Within(mem', Written)
  <2>1. CASE open
    <3>1. \A k \in Keys : mem'[k] # Absent =>
             \E i \in DOMAIN log : /\ log[i] # Torn /\ log[i].key = k
                                   /\ mem'[k] = log[i].value
      BY <2>1, RebuildProperties DEF open, EngineRecordsInv, TypeInv, LsmTypeOK
    <3> QED BY <3>1 DEF Within, EngineRecordsInv, RecordsInv
  <2>2. CASE drop
    BY <2>2 DEF drop, EngineRecordsInv, RecordsInv
  <2>3. CASE join \/ crash
    BY <2>3, EmptyWithin DEF join, crash, Forget
  <2> QED BY <2>1, <2>2, <2>3 DEF ProcessNext
<1>4. \A i \in DOMAIN log' : log'[i] # Torn => log'[i].value \in Written[log'[i].key]
  <2>1. log' = log \/ append_torn
    BY DEF ProcessNext, open, drop, join, crash, walVars
  <2> QED BY <2>1, TornRecords DEF EngineRecordsInv, RecordsInv
<1>5. \A c \in Clients :
         /\ Within(th'[c].old_mem, Written)
         /\ th'[c].pc \notin {"idle", "levels"} =>
               th'[c].entry.value \in Written[th'[c].entry.key]
  <2>1. th' = th \/ th' = [c \in Clients |-> Resting]
    BY DEF ProcessNext, open, drop, join, crash, Forget
  <2> QED BY <2>1, EmptyWithin, RestingTyped DEF EngineRecordsInv, RecordsInv
<1> QED
  BY <1>1, <1>2, <1>3, <1>4, <1>5, RecordsFrame DEF EngineRecordsInv, RecordsInv

LEMMA RecordsInitially == LsmInit => EngineRecordsInv
<1> SUFFICES ASSUME LsmInit PROVE EngineRecordsInv
  OBVIOUS
<1>1. TypeInv /\ mem = EmptyTable /\ th = [c \in Clients |-> Resting] /\ log = <<>>
  BY TypeInvInitially DEF LsmInit, WalInit
<1>2. \A c \in Clients : got[c].value = Absent
  BY DEF LsmInit
<1>3. FilesWithin(Written)
  BY DEF LsmInit, LevelInit, FilesWithin
<1> QED
  BY <1>1, <1>2, <1>3, EmptyWithin, RestingTyped DEF EngineRecordsInv, RecordsInv

LEMMA RecordsStay == EngineRecordsInv /\ [LsmNext]_lsmVars => EngineRecordsInv'
<1> SUFFICES ASSUME EngineRecordsInv, [LsmNext]_lsmVars PROVE EngineRecordsInv'
  OBVIOUS
<1>1. TypeInv'
  BY TypeInvStays DEF EngineRecordsInv
<1>2. ASSUME NEW c \in Clients, BeginCall(c) PROVE EngineRecordsInv'
  <2>1. CASE \E k \in Keys : get(c, k)
    BY <1>1, <2>1, GetRecords
  <2>2. CASE \E k \in Keys : set(c, k) \/ delete(c, k)
    <3>1. PICK k \in Keys, d \in BOOLEAN : write_wal(c, k, d)
      BY <2>2 DEF set, delete
    <3> QED BY <3>1, WriteRecords
  <2>3. CASE write_wal_error(c)
    <3>1. /\ append_torn /\ UNCHANGED <<disk0, disk1, mem, th, hist, got>>
      BY <2>3 DEF write_wal_error
    <3>2. FilesWithin(Written)'
      BY <3>1 DEF FilesWithin, Written, EngineRecordsInv, RecordsInv
    <3> QED BY <1>1, <3>1, <3>2, TornRecords, RecordsFrame
            DEF EngineRecordsInv, RecordsInv
  <2> QED BY <1>2, <2>1, <2>2, <2>3 DEF BeginCall
<1>3. CASE UNCHANGED lsmVars
  <2>1. UNCHANGED <<disk0, disk1, mem, th, hist, got, log>>
    BY <1>3 DEF lsmVars, levelVars, walVars
  <2>2. FilesWithin(Written)'
    BY <2>1 DEF FilesWithin, Written, EngineRecordsInv, RecordsInv
  <2> QED BY <1>1, <2>1, <2>2, RecordsFrame DEF EngineRecordsInv, RecordsInv
<1> QED
  BY <1>1, <1>2, <1>3, CallRecords, CompactorRecords, ProcessRecords DEF LsmNext

\* Whatever the interleaving, the faults, the kills and the clock, a get
\* answers with a value that a set of its key wrote, or with none.
THEOREM AnswersWritten == LsmSpec => []AnswersWereWritten
<1>1. LsmSpec => []EngineRecordsInv
  BY RecordsInitially, RecordsStay, PTL DEF LsmSpec
<1>2. EngineRecordsInv => AnswersWereWritten
  <2> SUFFICES ASSUME EngineRecordsInv, NEW c \in Clients,
                      got[c].value \notin {Absent, NoFile}
               PROVE  \E n \in DOMAIN hist :
                         /\ hist[n].key = got[c].key /\ ~hist[n].tomb
                         /\ got[c].value = Record(n, FALSE)
    BY DEF AnswersWereWritten
  <2>1. /\ got[c].key \in Keys
        /\ got[c].value \in Written[got[c].key] \ Tombstones
    BY DEF EngineRecordsInv, RecordsInv
  <2>2. PICK n \in DOMAIN hist : /\ hist[n].key = got[c].key
                                 /\ got[c].value = Record(n, hist[n].tomb)
    BY <2>1 DEF Written
  <2>3. /\ hist \in Seq([key : Keys, tomb : BOOLEAN]) /\ Len(hist) \in Nat
        /\ Len(hist) <= MaxWrites /\ MaxWrites \in Nat
    BY LenProperties, LsmAssumption DEF EngineRecordsInv, TypeInv, LsmTypeOK
  <2>4. n \in 1..MaxWrites /\ hist[n].tomb \in BOOLEAN
    <3>1. DOMAIN hist = 1..Len(hist) /\ n \in 1..Len(hist)
      BY <2>2, <2>3, LenProperties
    <3>2. hist[n] \in [key : Keys, tomb : BOOLEAN]
      BY <2>3, <3>1, ElementOfSeq
    <3> QED BY <2>3, <3>1, <3>2
  <2>5. Record(n, hist[n].tomb) \in Values /\ Record(n, hist[n].tomb).tomb = hist[n].tomb
    BY <2>4, RecordTyped
  <2>6. ~hist[n].tomb
    BY <2>1, <2>2, <2>5, LsmAssumption
  <2> QED BY <2>2, <2>4, <2>6
<1> QED BY <1>1, <1>2, PTL

-----------------------------------------------------------------------------
(***************************************************************************)
(* The only set on a key.                                                  *)
(***************************************************************************)
\* The records of files, but for those of which a compaction has made a copy.
FileRecords == [k \in Keys |-> {v \in Values : InFiles(k, {v})}]

Sole(n) == ~hist[n].tomb /\ \A m \in DOMAIN hist \ {n} : hist[m].key # hist[n].key

\* Where the record of the n-th write call may be.
Preserved(n) ==
    \/ mem[hist[n].key] = Record(n, FALSE)
    \/ \E c \in Clients : th[c].old_mem[hist[n].key] = Record(n, FALSE)
    \/ Record(n, FALSE) \in FileRecords[hist[n].key]
    \/ \E c \in Clients : th[c].pc = "insert" /\ th[c].entry.value.ver = n

SoleInv ==
    restarts = 0 /\ faults = 0 =>
        /\ proc # "closing"
        /\ proc = "down" => hist = <<>>
        /\ \A n \in DOMAIN hist : Sole(n) => Preserved(n)

EngineSoleInv == EngineFilesInv /\ EngineRecordsInv /\ SoleInv

\* The record of the only set on a key is the only one of that key.
LEMMA SoleWritten ==
    ASSUME TypeInv, NEW n \in DOMAIN hist, Sole(n)
    PROVE  /\ hist[n].key \in Keys
           /\ Written[hist[n].key] = {Record(n, FALSE)}
           /\ Record(n, FALSE) \in Values \ Tombstones
           /\ Record(n, FALSE) # Absent /\ Record(n, FALSE).ver = n
<1>1. /\ hist \in Seq([key : Keys, tomb : BOOLEAN]) /\ Len(hist) \in Nat
      /\ Len(hist) <= MaxWrites /\ MaxWrites \in Nat
  BY LenProperties, LsmAssumption DEF TypeInv, LsmTypeOK
<1>2. n \in 1..MaxWrites /\ hist[n].key \in Keys
  <2>1. DOMAIN hist = 1..Len(hist)
    BY <1>1, LenProperties
  <2>2. hist[n] \in [key : Keys, tomb : BOOLEAN]
    BY <1>1, <2>1, ElementOfSeq
  <2> QED BY <1>1, <2>1, <2>2
<1>3. /\ Record(n, FALSE) \in Values /\ Record(n, FALSE) # Absent
      /\ Record(n, FALSE).ver = n /\ Record(n, FALSE).tomb = FALSE
  BY <1>2, RecordTyped
<1>4. Record(n, FALSE) \notin Tombstones
  BY <1>3, LsmAssumption
<1>5. {m \in DOMAIN hist : hist[m].key = hist[n].key} = {n} /\ hist[n].tomb = FALSE
  <2>1. hist[n].tomb \in BOOLEAN
    <3>1. DOMAIN hist = 1..Len(hist)
      BY <1>1, LenProperties
    <3>2. hist[n] \in [key : Keys, tomb : BOOLEAN]
      BY <1>1, <3>1, ElementOfSeq
    <3> QED BY <3>2
  <2> QED BY <2>1 DEF Sole
<1>6. Written[hist[n].key] = {Record(n, FALSE)}
  <2>1. Written[hist[n].key] =
           {Record(m, hist[m].tomb) : m \in {i \in DOMAIN hist : hist[i].key = hist[n].key}}
    BY <1>2 DEF Written
  <2> QED BY <1>5, <2>1
<1> QED BY <1>2, <1>3, <1>4, <1>6

\* A step of a process that stays up keeps the invariant if it keeps records.
LEMMA SoleFrame ==
    ASSUME EngineSoleInv, hist' = hist, proc' = proc, restarts' = restarts,
           faults' = 0 => faults = 0,
           ASSUME NEW n \in DOMAIN hist, Sole(n), Preserved(n), faults' = 0
           PROVE  Preserved(n)'
    PROVE  SoleInv'
<1> SUFFICES ASSUME restarts' = 0, faults' = 0
             PROVE  /\ proc' # "closing" /\ (proc' = "down" => hist' = <<>>)
                    /\ \A n \in DOMAIN hist' : Sole(n)' => Preserved(n)'
  BY DEF SoleInv
<1>1. \A n \in DOMAIN hist' : Sole(n)' <=> Sole(n)
  BY DEF Sole
<1>2. /\ proc # "closing" /\ (proc = "down" => hist = <<>>)
      /\ \A n \in DOMAIN hist : Sole(n) => Preserved(n)
  BY DEF EngineSoleInv, SoleInv
<1> QED BY <1>1, <1>2

\* A write call puts its record in the caller's hands.
LEMMA WriteSole ==
    ASSUME EngineSoleInv, NEW c \in Clients, NEW k \in Keys, NEW d \in BOOLEAN,
           write_wal(c, k, d)
    PROVE  SoleInv'
<1>1. PICK n \in Nat :
         /\ n = Len(hist) + 1
         /\ n \notin DOMAIN hist /\ DOMAIN hist' = DOMAIN hist \cup {n}
         /\ \A m \in DOMAIN hist : hist'[m] = hist[m]
  BY WriteHistory DEF EngineSoleInv, EngineRecordsInv
<1> DEFINE e == [key |-> k, value |-> Record(n, d)]
<1>2. /\ th' = [th EXCEPT ![c].pc = "insert", ![c].entry = e]
      /\ proc = "up" /\ proc' = "up" /\ th[c].pc = "idle"
      /\ UNCHANGED <<disk0, disk1, job, mem, restarts, faults>>
  BY <1>1 DEF write_wal, At, levelVars, ioVars
<1>3. th \in [Clients -> Threads]
  BY DEF EngineSoleInv, EngineRecordsInv, TypeInv, LsmTypeOK
<1>4. /\ th'[c].pc = "insert" /\ th'[c].entry = e /\ th'[c].old_mem = th[c].old_mem
      /\ \A b \in Clients \ {c} : th'[b] = th[b]
  BY <1>2, <1>3 DEF Threads
<1>5. e.value.ver = n
  BY DEF Record
<1> HIDE DEF e
<1>6. Preserved(n)'
  BY <1>4, <1>5 DEF Preserved
<1>7. ASSUME NEW m \in DOMAIN hist, Sole(m)', restarts = 0, faults = 0
      PROVE  Preserved(m)'
  <2>1. Sole(m)
    BY <1>1, <1>7 DEF Sole
  <2>2. Preserved(m) /\ hist'[m] = hist[m]
    BY <1>1, <1>7, <2>1 DEF EngineSoleInv, SoleInv
  <2>3. FileRecords' = FileRecords
    BY <1>2 DEF FileRecords, InFiles, Stays0, Stays1, Listed1
  <2>4. \A b \in Clients :
           /\ th'[b].old_mem = th[b].old_mem
           /\ th[b].pc = "insert" => th'[b] = th[b]
    BY <1>2, <1>4
  <2> QED BY <1>2, <2>2, <2>3, <2>4 DEF Preserved
<1> QED BY <1>1, <1>2, <1>6, <1>7 DEF SoleInv

\* The steps that leave records, MemTables and callers' hands alone.
LEMMA StillSole ==
    ASSUME EngineSoleInv, UNCHANGED <<hist, proc, restarts, mem, disk0, disk1, job>>,
           faults' = 0 => faults = 0,
           \A b \in Clients :
              /\ th[b].pc = "insert" => th'[b] = th[b]
              /\ th'[b].old_mem = th[b].old_mem
    PROVE  SoleInv'
<1>1. FileRecords' = FileRecords
  BY DEF FileRecords, InFiles, Stays0, Stays1, Listed1
<1>2. ASSUME NEW n \in DOMAIN hist, Sole(n), Preserved(n), faults' = 0
      PROVE  Preserved(n)'
  BY <1>1, <1>2 DEF Preserved
<1> QED BY <1>2, SoleFrame

\* insert puts the record in the MemTable, over no record of another call.
LEMMA InsertSole ==
    ASSUME EngineSoleInv, NEW c \in Clients, insert_mem(c)
    PROVE  SoleInv'
<1>1. /\ th[c].pc = "insert" /\ mem' = insert(mem, th[c].entry.key, th[c].entry.value)
      /\ UNCHANGED <<hist, proc, restarts, faults, disk0, disk1, job>>
      /\ th' = [th EXCEPT ![c] = Resting] \/ th' = [th EXCEPT ![c].pc = "path"]
  BY DEF insert_mem, At, levelVars, ioVars, ReturnOk, Go
<1>2. /\ th \in [Clients -> Threads] /\ th[c] \in Threads /\ mem \in Table
      /\ th[c].entry.value \in Written[th[c].entry.key]
      /\ th[c].entry.key \in Keys /\ th[c].old_mem = EmptyTable /\ TypeInv
  BY <1>1, InCall DEF EngineSoleInv, EngineFilesInv, EngineRecordsInv, RecordsInv,
                      FlushInv, TypeInv, LsmTypeOK
<1>3. FileRecords' = FileRecords
  BY <1>1 DEF FileRecords, InFiles, Stays0, Stays1, Listed1
<1>4. \A b \in Clients \ {c} : th'[b] = th[b]
  BY <1>1, <1>2
<1>5. ASSUME NEW n \in DOMAIN hist, Sole(n), Preserved(n), faults' = 0
      PROVE  Preserved(n)'
  <2> DEFINE R == Record(n, FALSE)
  <2>1. /\ hist[n].key \in Keys /\ Written[hist[n].key] = {R}
        /\ R # Absent /\ R.ver = n
    BY <1>2, <1>5, SoleWritten
  <2> HIDE DEF R
  <2>2. th[c].entry.key = hist[n].key => mem'[hist[n].key] = R
    BY <1>1, <1>2, <2>1 DEF insert, Table
  <2>3. th[c].entry.key # hist[n].key => mem'[hist[n].key] = mem[hist[n].key]
    BY <1>1, <1>2, <2>1 DEF insert, Table
  <2>4. th[c].entry.value.ver = n => th[c].entry.key = hist[n].key
    <3>1. PICK m \in DOMAIN hist : /\ hist[m].key = th[c].entry.key
                                   /\ th[c].entry.value = Record(m, hist[m].tomb)
      BY <1>2 DEF Written
    <3>2. th[c].entry.value.ver = m
      BY <3>1 DEF Record
    <3> QED BY <3>1, <3>2
  <2>5. th[c].old_mem[hist[n].key] # R
    BY <1>2, <2>1 DEF EmptyTable
  <2>6. CASE mem[hist[n].key] = R \/ th[c].entry.value.ver = n
    BY <1>1, <2>2, <2>3, <2>4, <2>6 DEF Preserved, R
  <2>7. CASE R \in FileRecords[hist[n].key]
    BY <1>1, <1>3, <2>7 DEF Preserved, R
  <2>8. CASE \E b \in Clients : th[b].old_mem[hist[n].key] = R
    <3>1. PICK b \in Clients \ {c} : th[b].old_mem[hist[n].key] = R
      BY <2>5, <2>8
    <3> QED BY <1>1, <1>4, <3>1 DEF Preserved, R
  <2>9. CASE \E b \in Clients \ {c} : th[b].pc = "insert" /\ th[b].entry.value.ver = n
    BY <1>4, <2>9 DEF Preserved
  <2> QED BY <1>5, <2>6, <2>7, <2>8, <2>9 DEF Preserved, R
<1> QED BY <1>1, <1>5, SoleFrame

\* A swap moves the MemTable to a flush that had none.
LEMMA SwapSole ==
    ASSUME EngineSoleInv, NEW c \in Clients, flush_swap(c)
    PROVE  SoleInv'
<1>1. /\ th[c].pc = "swap"
      /\ th' = [th EXCEPT ![c].pc = "write", ![c].old_mem = mem]
      /\ UNCHANGED <<hist, proc, restarts, faults, disk0, disk1, job>>
  BY DEF flush_swap, At, levelVars, ioVars
<1>2. /\ th \in [Clients -> Threads] /\ th[c] \in Threads
      /\ th[c].old_mem = EmptyTable /\ TypeInv
  BY <1>1 DEF EngineSoleInv, EngineFilesInv, FlushInv, TypeInv, LsmTypeOK
<1>3. FileRecords' = FileRecords
  BY <1>1 DEF FileRecords, InFiles, Stays0, Stays1, Listed1
<1>4. /\ th'[c].old_mem = mem /\ \A b \in Clients \ {c} : th'[b] = th[b]
  BY <1>1, <1>2 DEF Threads
<1>5. ASSUME NEW n \in DOMAIN hist, Sole(n), Preserved(n), faults' = 0
      PROVE  Preserved(n)'
  <2>1. th[c].old_mem[hist[n].key] # Record(n, FALSE)
    BY <1>2, <1>5, SoleWritten DEF EmptyTable
  <2>2. CASE mem[hist[n].key] = Record(n, FALSE)
    BY <1>1, <1>4, <2>2 DEF Preserved
  <2>3. CASE Record(n, FALSE) \in FileRecords[hist[n].key]
    BY <1>1, <1>3, <2>3 DEF Preserved
  <2>4. CASE \E b \in Clients : th[b].old_mem[hist[n].key] = Record(n, FALSE)
    <3>1. PICK b \in Clients \ {c} : th[b].old_mem[hist[n].key] = Record(n, FALSE)
      BY <2>1, <2>4
    <3> QED BY <1>1, <1>4, <3>1 DEF Preserved
  <2>5. CASE \E b \in Clients : th[b].pc = "insert" /\ th[b].entry.value.ver = n
    BY <1>1, <1>4, <2>5 DEF Preserved
  <2> QED BY <1>5, <2>2, <2>3, <2>4, <2>5 DEF Preserved
<1> QED BY <1>1, <1>5, SoleFrame

\* A written file takes over from the flush, and replaces no other.
LEMMA FlushWriteSole ==
    ASSUME EngineSoleInv, NEW c \in Clients, flush_write(c)
    PROVE  SoleInv'
<1>1. /\ th[c].pc = "write" /\ disk0' = [disk0 EXCEPT ![th[c].path] = th[c].old_mem]
      /\ th' = [th EXCEPT ![c].pc = "truncate", ![c].old_mem = EmptyTable]
      /\ UNCHANGED <<hist, proc, restarts, faults, disk1, job, mem>>
  BY DEF flush_write, At, ioVars
<1>2. PICK p \in Stamps : p = th[c].path
  BY <1>1, InCall DEF EngineSoleInv, EngineFilesInv, FlushStages
<1>3. /\ p \notin Listed0 /\ disk0[p] = NoFile /\ disk0 \in Directory
      /\ th \in [Clients -> Threads] /\ th[c] \in Threads
      /\ th[c].old_mem \in Table /\ TypeInv
  BY <1>1, <1>2, InCall DEF EngineSoleInv, EngineFilesInv, FlushInv, FlushStages,
                            TypeInv, LsmTypeOK, LevelTypeOK
<1>4. /\ disk0'[p] = th[c].old_mem /\ disk0'[p] # NoFile
      /\ \A s \in Stamps \ {p} : disk0'[s] = disk0[s]
  BY <1>1, <1>2, <1>3, TablesAssumption DEF Directory
<1>5. \A b \in Clients \ {c} : th'[b] = th[b]
  BY <1>1, <1>3
<1>6. ASSUME NEW k \in Keys, NEW v \in Values,
             InFiles(k, {v}) \/ th[c].old_mem[k] = v
      PROVE  InFiles(k, {v})'
  <2>1. ASSUME NEW s \in Stamps, Stays0(s, k, {v}) PROVE Stays0(s, k, {v})'
    BY <1>1, <1>3, <1>4, <2>1 DEF Stays0
  <2>2. ASSUME NEW s \in Stamps, Stays1(s, k, {v}) PROVE Stays1(s, k, {v})'
    BY <1>1, <2>2 DEF Stays1, Listed1
  <2>3. th[c].old_mem[k] = v => Stays0(p, k, {v})'
    BY <1>1, <1>3, <1>4 DEF Stays0, Listed0
  <2> QED BY <1>6, <2>1, <2>2, <2>3 DEF InFiles
<1>7. \A k \in Keys : \A v \in Values :
         v \in FileRecords[k] \/ th[c].old_mem[k] = v => v \in FileRecords'[k]
  BY <1>6 DEF FileRecords
<1>8. ASSUME NEW n \in DOMAIN hist, Sole(n), Preserved(n), faults' = 0
      PROVE  Preserved(n)'
  <2>1. hist[n].key \in Keys /\ Record(n, FALSE) \in Values
    BY <1>3, <1>8, SoleWritten
  <2>2. CASE mem[hist[n].key] = Record(n, FALSE)
    BY <1>1, <2>2 DEF Preserved
  <2>3. CASE \/ Record(n, FALSE) \in FileRecords[hist[n].key]
             \/ th[c].old_mem[hist[n].key] = Record(n, FALSE)
    <3>1. Record(n, FALSE) \in FileRecords'[hist[n].key]
      BY <1>7, <2>1, <2>3
    <3> QED BY <1>1, <3>1 DEF Preserved
  <2>4. CASE \E b \in Clients \ {c} : th[b].old_mem[hist[n].key] = Record(n, FALSE)
    BY <1>1, <1>5, <2>4 DEF Preserved
  <2>5. CASE \E b \in Clients : th[b].pc = "insert" /\ th[b].entry.value.ver = n
    BY <1>1, <1>5, <2>5 DEF Preserved
  <2>6. (\E b \in Clients : th[b].old_mem[hist[n].key] = Record(n, FALSE)) =>
           \/ th[c].old_mem[hist[n].key] = Record(n, FALSE)
           \/ \E b \in Clients \ {c} : th[b].old_mem[hist[n].key] = Record(n, FALSE)
    OBVIOUS
  <2> QED BY <1>8, <2>2, <2>3, <2>4, <2>5, <2>6 DEF Preserved
<1> QED BY <1>1, <1>8, SoleFrame

\* A compaction that sees all of its inputs keeps the record in a file.
LEMMA CompactorSole ==
    ASSUME StrictClock, EngineSoleInv, CompactorNext
    PROVE  SoleInv'
<1>1. UNCHANGED <<hist, proc, restarts, mem, th>>
  BY DEF CompactorNext, compactor_check, compactor_poll, compactor_begin,
         compactor_remove, compactor_install, Compactor
<1>2. UNCHANGED levelVars \/ compact_begin \/ compact_end
  BY DEF CompactorNext, compactor_check, compactor_poll, compactor_begin,
         compactor_remove, compactor_install, compact_begin, compact_end
<1>3. faults \in Nat /\ TypeInv /\ FilesInv /\ Dated /\ FilesWithin(Written)
  BY DEF EngineSoleInv, EngineFilesInv, EngineRecordsInv, RecordsInv, TypeInv,
         LsmTypeOK, LevelTypeOK
<1>4. faults' = 0 => faults = 0 /\ ~compact_merge_short
  <2>1. compact_merge_short => faults' = faults + 1
    BY DEF compact_merge_short, short_scan
  <2>2. faults' = faults \/ faults' = faults + 1
    BY <1>2 DEF levelVars, ioVars, compact_begin, compact_end, compact_l0_error,
                compact_l1_error, compact_merge, compact_merge_short, short_scan,
                remove_l0_input, remove_l1_input, compact_install, io_error
  <2> QED BY <1>3, <2>1, <2>2
<1>5. ASSUME NEW k \in Keys, NEW v \in Values \ Tombstones,
             Written[k] = {v}, v \in FileRecords[k], faults' = 0
      PROVE  v \in FileRecords'[k]
  <2>1. InFiles(k, {v})
    BY <1>5 DEF FileRecords
  <2>2. CASE UNCHANGED levelVars
    <3>1. UNCHANGED <<disk0, disk1, job>>
      BY <2>2 DEF levelVars
    <3> QED BY <1>5, <3>1 DEF FileRecords, InFiles, Stays0, Stays1, Listed1
  <2>3. CASE compact_begin \/ compact_end
    <3>1. InFiles(k, {v})'
      BY <1>3, <1>4, <1>5, <2>1, <2>3, CompactKeepsRecord
    <3> QED BY <3>1 DEF FileRecords
  <2> QED BY <1>2, <2>2, <2>3
<1>6. ASSUME NEW n \in DOMAIN hist, Sole(n), Preserved(n), faults' = 0
      PROVE  Preserved(n)'
  <2>1. /\ hist[n].key \in Keys /\ Written[hist[n].key] = {Record(n, FALSE)}
        /\ Record(n, FALSE) \in Values \ Tombstones
    BY <1>3, <1>6, SoleWritten
  <2>2. Record(n, FALSE) \in FileRecords[hist[n].key] =>
           Record(n, FALSE) \in FileRecords'[hist[n].key]
    BY <1>5, <1>6, <2>1
  <2> QED BY <1>1, <1>6, <2>2 DEF Preserved
<1> QED BY <1>1, <1>4, <1>6, SoleFrame

LEMMA SoleInitially == LsmInit => EngineSoleInv
<1> SUFFICES ASSUME LsmInit PROVE EngineSoleInv
  OBVIOUS
<1>1. proc = "down" /\ hist = <<>>
  BY DEF LsmInit
<1>2. SoleInv
  BY <1>1 DEF SoleInv
<1> QED BY <1>2, EngineFilesInitially, RecordsInitially DEF EngineSoleInv

LEMMA SoleStays ==
    ASSUME StrictClock
    PROVE  EngineSoleInv /\ [LsmNext]_lsmVars => EngineSoleInv'
<1> SUFFICES ASSUME EngineSoleInv, [LsmNext]_lsmVars PROVE EngineSoleInv'
  OBVIOUS
<1>1. EngineFilesInv' /\ EngineRecordsInv'
  BY EngineFilesStay, RecordsStay DEF EngineSoleInv
<1>2. /\ restarts \in Nat /\ faults \in Nat /\ th \in [Clients -> Threads]
      /\ \A b \in Clients : th[b].pc # "write" => th[b].old_mem = EmptyTable
  BY LsmAssumption DEF EngineSoleInv, EngineFilesInv, FlushInv, TypeInv, LsmTypeOK,
                       LevelTypeOK
<1>3. ASSUME NEW c \in Clients, BeginCall(c) PROVE SoleInv'
  <2>1. CASE \E k \in Keys : set(c, k) \/ delete(c, k)
    <3>1. PICK k \in Keys, d \in BOOLEAN : write_wal(c, k, d)
      BY <2>1 DEF set, delete
    <3> QED BY <3>1, WriteSole
  <2>2. ASSUME NEW k \in Keys, get(c, k) PROVE SoleInv'
    <3>1. /\ UNCHANGED <<hist, proc, restarts, mem, disk0, disk1, job, faults>>
          /\ th[c].pc = "idle"
          /\ \/ th' = th
             \/ th' = [th EXCEPT ![c].pc = "levels", ![c].entry.key = k, ![c].seen = acked]
      BY <2>2 DEF get, At, levelVars, ioVars
    <3>2. \A b \in Clients :
             /\ th[b].pc = "insert" => th'[b] = th[b]
             /\ th'[b].old_mem = th[b].old_mem
      BY <1>2, <3>1 DEF Threads
    <3> QED BY <3>1, <3>2, StillSole
  <2>3. CASE write_wal_error(c)
    BY <1>2, <2>3 DEF write_wal_error, io_error, SoleInv
  <2> QED BY <1>3, <2>1, <2>2, <2>3 DEF BeginCall
<1>4. ASSUME NEW c \in Clients, ContinueCall(c) PROVE SoleInv'
  <2>1. CASE next_sstable_path(c) \/ flush_truncate(c) \/ flush_add(c) \/ get_levels(c)
    <3>1. /\ UNCHANGED <<hist, proc, restarts, mem, disk0, disk1, job, faults>>
          /\ th[c].pc \notin {"insert", "write"}
          /\ \/ th' = [th EXCEPT ![c] = Resting]
             \/ \E s : th' = [th EXCEPT ![c].pc = "swap", ![c].path = s]
             \/ th' = [th EXCEPT ![c].pc = "add"]
      BY <2>1 DEF next_sstable_path, flush_truncate, flush_add, get_levels, At, Go,
                  ReturnOk, levelVars, ioVars, fileVars
    <3>2. th'[c].old_mem = th[c].old_mem
      BY <1>2, <3>1, RestingTyped DEF Threads
    <3>3. \A b \in Clients \ {c} : th'[b] = th[b]
      BY <1>2, <3>1
    <3> QED BY <3>1, <3>2, <3>3, StillSole
  <2>2. CASE flush_error(c)
    BY <1>2, <2>2 DEF flush_error, io_error, SoleInv
  <2> QED BY <1>4, <2>1, <2>2, InsertSole, SwapSole, FlushWriteSole DEF ContinueCall
<1>5. CompactorNext => SoleInv'
  BY CompactorSole
<1>6. ASSUME ProcessNext PROVE SoleInv'
  <2>1. CASE drop \/ crash
    BY <1>2, <2>1 DEF drop, crash, SoleInv
  <2>2. CASE join
    BY <2>2 DEF join, Forget, ioVars, EngineSoleInv, SoleInv
  <2>3. CASE open
    <3>1. UNCHANGED <<restarts, faults, hist>> /\ proc = "down" /\ proc' = "up"
      BY <2>3 DEF open, ioVars
    <3>2. restarts = 0 /\ faults = 0 => DOMAIN hist = {}
      BY <3>1 DEF EngineSoleInv, SoleInv
    <3> QED BY <3>1, <3>2 DEF SoleInv
  <2> QED BY <1>6, <2>1, <2>2, <2>3 DEF ProcessNext
<1>7. ASSUME UNCHANGED lsmVars PROVE SoleInv'
  <2>1. /\ UNCHANGED <<hist, proc, restarts, mem, disk0, disk1, job>>
        /\ faults' = faults /\ th' = th
    BY <1>7 DEF lsmVars, levelVars, ioVars
  <2> QED BY <2>1, StillSole
<1>8. SoleInv'
  BY <1>3, <1>4, <1>5, <1>6, <1>7 DEF LsmNext
<1> QED BY <1>1, <1>8 DEF EngineSoleInv

\* The record of the only set on a key is in the caller's hands, a MemTable or
\* a file at every moment, for any number of threads and any interleaving of
\* swaps, flushes, truncates and compactions, while no I/O call has failed and
\* the process lives.
THEOREM SoleSetKept ==
    ASSUME StrictClock
    PROVE  LsmSpec => []SoleSetIsKept
<1>1. LsmSpec => []EngineSoleInv
  BY SoleInitially, SoleStays, PTL DEF LsmSpec
<1>2. EngineSoleInv => SoleSetIsKept
  <2> SUFFICES ASSUME EngineSoleInv, restarts = 0, faults = 0,
                      NEW n \in DOMAIN hist, Sole(n)
               PROVE  \/ Stored(hist[n].key, Record(n, FALSE))
                      \/ \E c \in Clients :
                            th[c].pc = "insert" /\ th[c].entry.value.ver = n
    BY DEF SoleSetIsKept, Sole
  <2>1. Preserved(n)
    BY DEF EngineSoleInv, SoleInv
  <2>2. hist[n].key \in Keys /\ Record(n, FALSE) \in Values
    BY SoleWritten DEF EngineSoleInv, EngineRecordsInv
  <2>3. Record(n, FALSE) \in FileRecords[hist[n].key] =>
           Stored(hist[n].key, Record(n, FALSE))
    BY <2>2 DEF FileRecords, InFiles, Stays0, Stays1, Stored
  <2> QED BY <2>1, <2>3 DEF Preserved, Stored
<1> QED BY <1>1, <1>2, PTL

-----------------------------------------------------------------------------
(***************************************************************************)
(* One caller: the log and the MemTable.                                    *)
(***************************************************************************)

\* What open rebuilds from one more entry is the MemTable after its insert.
LEMMA RebuildAppend ==
    ASSUME NEW es \in Seq(Entries), NEW e \in Entries
    PROVE  Rebuild(Append(es, e)) = insert(Rebuild(es), e.key, e.value)
<1> DEFINE n == Len(es)
           fs == Append(es, e)
           W(k) == {i \in DOMAIN es : es[i].key = k}
           V(k) == {i \in DOMAIN fs : fs[i].key = k}
<1>1. /\ n \in Nat /\ DOMAIN es = 1..n /\ DOMAIN fs = 1 .. n + 1
      /\ fs[n + 1] = e /\ \A i \in 1..n : fs[i] = es[i]
  BY AppendProperties, LenProperties
<1> HIDE DEF n, fs
<1>2. e.key \in Keys
  BY LsmAssumption
<1>3. /\ Rebuild(es) = [k \in Keys |-> IF W(k) = {} THEN Absent ELSE es[Max(W(k))].value]
      /\ Rebuild(fs) = [k \in Keys |-> IF V(k) = {} THEN Absent ELSE fs[Max(V(k))].value]
  BY DEF Rebuild
<1>4. Rebuild(fs)[e.key] = e.value
  <2>1. n + 1 \in V(e.key) /\ V(e.key) \subseteq 1 .. n + 1 /\ \A x \in V(e.key) : x <= n + 1
    BY <1>1
  <2>2. Max(V(e.key)) = n + 1
    <3>1. n + 1 \in Nat
      BY <1>1
    <3> HIDE DEF V
    <3> QED BY <2>1, <3>1, MaxIs
  <2> QED BY <1>1, <1>2, <1>3, <2>1, <2>2
<1>5. ASSUME NEW k \in Keys, k # e.key PROVE Rebuild(fs)[k] = Rebuild(es)[k]
  <2>1. V(k) = W(k)
    BY <1>1, <1>5
  <2>2. W(k) # {} => Max(W(k)) \in 1..n
    <3>1. W(k) \subseteq 1..n
      BY <1>1
    <3> HIDE DEF W
    <3> QED BY <1>1, <3>1, MaxProperties
  <2> HIDE DEF V, W
  <2> QED BY <1>1, <1>3, <2>1, <2>2
<1>6. Rebuild(fs) = [Rebuild(es) EXCEPT ![e.key] = e.value]
  <2>1. /\ Rebuild(fs) = [k \in Keys |-> Rebuild(fs)[k]]
        /\ Rebuild(es) = [k \in Keys |-> Rebuild(es)[k]]
    BY <1>3
  <2> QED BY <1>2, <1>4, <1>5, <2>1
<1> QED BY <1>6 DEF insert, fs

\* An empty log gives an empty MemTable.
LEMMA RebuildEmpty == Rebuild(<<>>) = EmptyTable
<1>1. \A k \in Keys : {i \in DOMAIN <<>> : <<>>[i].key = k} = {}
  OBVIOUS
<1> QED BY <1>1 DEF Rebuild, EmptyTable

\* One thread at a time calls the store, as in the binary and most of the tests.
OneCaller == \E c : Clients = {c}

\* Nothing was appended behind a torn entry and no I/O call has failed.
Untroubled == TornFrames(log) \subseteq {Len(log)} /\ faults = 0

\* What open would rebuild from the log.
Replayed == Rebuild(replay(log))

\* Where the log's records are in memory, or in the file just written.  A get
\* goes on to the levels because the MemTable has no record of its key, and a
\* flush goes on because the MemTable has a record.
Replays(c) ==
    /\ th[c].pc = "insert" =>
          insert(mem, th[c].entry.key, th[c].entry.value) = Replayed
    /\ th[c].pc = "write" => mem = EmptyTable /\ th[c].old_mem = Replayed
    /\ th[c].pc = "truncate" => mem = EmptyTable /\ disk0[th[c].path] = Replayed
    /\ th[c].pc \notin {"insert", "write", "truncate"} => mem = Replayed
    /\ th[c].pc = "levels" => mem[th[c].entry.key] = Absent
    /\ th[c].pc \in {"path", "swap", "write"} => Present(Replayed) # {}

LoggedInv == proc = "up" => \A c \in Clients : Replays(c)

EngineLoggedInv == EngineFilesInv /\ LoggedInv

\* A log that is appended to, and stays untroubled, was whole; a torn append
\* adds nothing to what it replays.
LEMMA UntroubledAppend ==
    ASSUME TypeInv, Untroubled', NEW f \in Frames, log' = Append(log, f)
    PROVE  /\ log \in Seq(Entries) /\ replay(log) = log
           /\ f # Torn => replay(log') = log'
           /\ f = Torn => Replayed' = Replayed
<1>1. log \in Seq(Frames)
  BY DEF TypeInv, LsmTypeOK
<1>2. /\ log' \in Seq(Frames) /\ DOMAIN log' = 1 .. Len(log) + 1
      /\ Len(log') = Len(log) + 1 /\ \A i \in 1..Len(log) : log'[i] = log[i]
  BY <1>1, AppendedLog
<1>3. Len(log) \in Nat /\ DOMAIN log = 1..Len(log) /\ log = [i \in 1..Len(log) |-> log[i]]
  BY <1>1, LenProperties
<1>4. TornFrames(log) = {}
  <2> SUFFICES ASSUME NEW i \in 1..Len(log), log[i] = Torn PROVE FALSE
    BY <1>3 DEF TornFrames
  <2>1. i \in DOMAIN log' /\ log'[i] = Torn
    BY <1>2, <1>3
  <2>2. i = Len(log')
    BY <2>1 DEF Untroubled, TornFrames
  <2> QED BY <1>2, <1>3, <2>2
<1>5. /\ replay(log) = log
      /\ f # Torn => replay(log') = log'
      /\ f = Torn => replay(log') = log
  BY <1>1, <1>4, AppendReplay
<1>6. log \in Seq(Entries)
  <2>1. \A i \in 1..Len(log) : log[i] \in Entries
    BY <1>1, <1>3, <1>4, ElementOfSeq DEF Frames, TornFrames
  <2> QED BY <1>3, <2>1, IsASeq
<1>7. replay(log') = replay(log) => Replayed' = Replayed
  BY DEF Replayed
<1> QED BY <1>5, <1>6, <1>7

\* A process that ends, by a kill that may cut an append short or not, leaves
\* what the log replays.
LEMMA EndReplayed ==
    ASSUME TypeInv, Untroubled', join \/ crash
    PROVE  Forget /\ Replayed' = Replayed
<1>1. Forget /\ (log' = log \/ append_torn)
  BY DEF join, crash, walVars
<1>2. Torn \in Frames
  BY DEF Frames
<1> QED BY <1>1, <1>2, UntroubledAppend DEF append_torn, Replayed

LEMMA ReplayedTyped ==
    ASSUME TypeInv
    PROVE  Replayed \in Table
  BY RebuildProperties DEF TypeInv, LsmTypeOK, Replayed

\* An empty log replays nothing.
LEMMA ReplayedEmpty ==
    ASSUME log' = <<>>
    PROVE  Replayed' = EmptyTable
<1>1. replay(log') = <<>>
  BY DEF replay, TornFrames
<1> QED BY <1>1, RebuildEmpty DEF Replayed

\* The number of the next write call makes a record.
LEMMA NextRecord ==
    ASSUME TypeInv, NEW c \in Clients, NEW k \in Keys, NEW d \in BOOLEAN,
           write_wal(c, k, d)
    PROVE  /\ Len(hist) + 1 \in 1..MaxWrites
           /\ Record(Len(hist) + 1, d) \in Values /\ Record(Len(hist) + 1, d) # Absent
<1>1. Len(hist) \in Nat /\ Len(hist) < MaxWrites /\ MaxWrites \in Nat
  BY LenProperties, LsmAssumption DEF TypeInv, LsmTypeOK, write_wal
<1> QED BY <1>1, RecordTyped

\* A write call inserts into what would be rebuilt what its caller is about to
\* insert into the MemTable.
LEMMA WriteReplayed ==
    ASSUME TypeInv, Untroubled', NEW c \in Clients, NEW k \in Keys,
           NEW d \in BOOLEAN, write_wal(c, k, d)
    PROVE  /\ Replayed' = insert(Replayed, k, Record(Len(hist) + 1, d))
           /\ Replayed'[k] = Record(Len(hist) + 1, d)
           /\ \A q \in Keys \ {k} : Replayed'[q] = Replayed[q]
<1> DEFINE R == Record(Len(hist) + 1, d)
           e == [key |-> k, value |-> R]
<1>1. log' = Append(log, e)
  BY DEF write_wal, append
<1>2. R \in Values
  BY NextRecord
<1> HIDE DEF R
<1>3. e \in Entries /\ e.key = k /\ e.value = R
  BY <1>2, LsmAssumption
<1> HIDE DEF e
<1>4. Replayed \in Table /\ replay(log) = log /\ log \in Seq(Entries) /\ replay(log') = log'
  <2>1. e \in Frames /\ e # Torn
    BY <1>3, WalAssumption DEF Frames
  <2> QED BY <1>1, <2>1, ReplayedTyped, UntroubledAppend
<1>5. Replayed' = insert(Replayed, k, R)
  <2>1. Rebuild(Append(log, e)) = insert(Rebuild(log), e.key, e.value)
    BY <1>3, <1>4, RebuildAppend
  <2> QED BY <1>1, <1>3, <1>4, <2>1 DEF Replayed
<1>6. Replayed'[k] = R /\ \A q \in Keys \ {k} : Replayed'[q] = Replayed[q]
  BY <1>4, <1>5 DEF insert, Table
<1> QED BY <1>5, <1>6 DEF R

LEMMA LoggedWrite ==
    ASSUME EngineLoggedInv, Untroubled', NEW c \in Clients, Clients = {c},
           NEW k \in Keys, NEW d \in BOOLEAN, write_wal(c, k, d)
    PROVE  LoggedInv'
<1> DEFINE R == Record(Len(hist) + 1, d)
           e == [key |-> k, value |-> R]
<1>1. /\ th[c].pc = "idle" /\ th' = [th EXCEPT ![c].pc = "insert", ![c].entry = e]
      /\ proc = "up" /\ mem' = mem
  BY DEF write_wal, At
<1>2. TypeInv /\ th \in [Clients -> Threads]
  BY DEF EngineLoggedInv, EngineFilesInv, TypeInv, LsmTypeOK
<1>3. th'[c].pc = "insert" /\ th'[c].entry.key = k /\ th'[c].entry.value = R
  BY <1>1, <1>2 DEF Threads
<1>4. mem = Replayed /\ Replayed' = insert(Replayed, k, R)
  BY <1>1, <1>2, WriteReplayed DEF EngineLoggedInv, LoggedInv, Replays
<1> HIDE DEF R
<1> QED BY <1>1, <1>3, <1>4 DEF LoggedInv, Replays

LEMMA LoggedCall ==
    ASSUME EngineLoggedInv, NEW c \in Clients, Clients = {c},
           (\E k \in Keys : get(c, k)) \/ get_levels(c) \/ insert_mem(c)
    PROVE  LoggedInv'
<1>1. /\ th \in [Clients -> Threads] /\ th[c] \in Threads /\ Replays(c)
      /\ log' = log /\ proc = "up"
  BY DEF EngineLoggedInv, LoggedInv, EngineFilesInv, TypeInv, LsmTypeOK, get, get_levels,
         insert_mem, walVars, At
<1>2. Replayed' = Replayed
  BY <1>1 DEF Replayed
<1>3. ASSUME NEW k \in Keys, get(c, k) PROVE Replays(c)'
  <2>1. /\ th[c].pc = "idle" /\ mem' = mem
        /\ \/ th' = th
           \/ /\ mem[k] = Absent
              /\ th' = [th EXCEPT ![c].pc = "levels", ![c].entry.key = k,
                                  ![c].seen = acked]
    BY <1>3 DEF get, At
  <2>2. mem = Replayed
    BY <1>1, <2>1 DEF Replays
  <2>3. \/ th'[c].pc = "idle"
        \/ th'[c].pc = "levels" /\ th'[c].entry.key = k /\ mem[k] = Absent
    BY <1>1, <2>1 DEF Threads
  <2> QED BY <1>2, <2>1, <2>2, <2>3 DEF Replays
<1>4. ASSUME get_levels(c) PROVE Replays(c)'
  <2>1. th[c].pc = "levels" /\ mem' = mem /\ th' = [th EXCEPT ![c] = Resting]
    BY <1>4 DEF get_levels, At
  <2>2. mem = Replayed /\ th'[c].pc = "idle"
    BY <1>1, <2>1, RestingTyped DEF Replays
  <2> QED BY <1>2, <2>1, <2>2 DEF Replays
<1>5. ASSUME insert_mem(c) PROVE Replays(c)'
  <2>1. /\ th[c].pc = "insert" /\ mem' = insert(mem, th[c].entry.key, th[c].entry.value)
        /\ \/ th' = [th EXCEPT ![c] = Resting]
           \/ /\ th' = [th EXCEPT ![c].pc = "path"]
              /\ size_bytes(mem') >= FLUSH_THRESHOLD
    BY <1>5 DEF insert_mem, At, ReturnOk, Go
  <2>2. /\ mem' = Replayed
        /\ \/ th'[c].pc = "idle"
           \/ th'[c].pc = "path" /\ size_bytes(mem') >= FLUSH_THRESHOLD
    BY <1>1, <2>1, RestingTyped DEF Replays, Threads
  <2>3. size_bytes(mem') >= FLUSH_THRESHOLD => Present(mem') # {}
    <3>1. Present(mem') = {} => size_bytes(mem') = 0
      BY FS_EmptySet DEF size_bytes
    <3> QED BY <3>1, LsmAssumption
  <2> QED BY <1>2, <2>2, <2>3 DEF Replays
<1> QED BY <1>1, <1>3, <1>4, <1>5 DEF LoggedInv

LEMMA LoggedFlush ==
    ASSUME EngineLoggedInv, NEW c \in Clients, Clients = {c},
           \/ next_sstable_path(c) \/ flush_swap(c) \/ flush_write(c)
           \/ flush_truncate(c) \/ flush_add(c)
    PROVE  LoggedInv'
<1>1. /\ th \in [Clients -> Threads] /\ th[c] \in Threads /\ Replays(c) /\ TypeInv
      /\ proc = "up"
  BY DEF EngineLoggedInv, LoggedInv, EngineFilesInv, TypeInv, LsmTypeOK, next_sstable_path,
         flush_swap, flush_write, flush_truncate, flush_add, At
<1>2. log' = log => Replayed' = Replayed
  BY DEF Replayed
<1>3. ASSUME next_sstable_path(c) PROVE Replays(c)'
  <2>1. /\ th[c].pc = "path" /\ mem' = mem /\ log' = log
        /\ \E s : th' = [th EXCEPT ![c].pc = "swap", ![c].path = s]
    BY <1>3 DEF next_sstable_path, At, walVars
  <2>2. th'[c].pc = "swap"
    BY <1>1, <2>1 DEF Threads
  <2> QED BY <1>1, <1>2, <2>1, <2>2 DEF Replays
<1>4. ASSUME flush_swap(c) PROVE Replays(c)'
  <2>1. /\ th[c].pc = "swap" /\ mem' = EmptyTable /\ log' = log
        /\ th' = [th EXCEPT ![c].pc = "write", ![c].old_mem = mem]
    BY <1>4 DEF flush_swap, At, walVars
  <2>2. th'[c].pc = "write" /\ th'[c].old_mem = mem
    BY <1>1, <2>1 DEF Threads
  <2> QED BY <1>1, <1>2, <2>1, <2>2 DEF Replays
<1>5. ASSUME flush_write(c) PROVE Replays(c)'
  <2>1. /\ th[c].pc = "write" /\ mem' = mem /\ log' = log
        /\ disk0' = [disk0 EXCEPT ![th[c].path] = th[c].old_mem]
        /\ th' = [th EXCEPT ![c].pc = "truncate", ![c].old_mem = EmptyTable]
    BY <1>5 DEF flush_write, At, walVars
  <2>2. th[c].path \in Stamps /\ disk0 \in Directory
    BY <1>1, <2>1 DEF TypeInv, ThreadsFit, LsmTypeOK, LevelTypeOK, FlushStages
  <2>3. /\ th'[c].pc = "truncate" /\ th'[c].path = th[c].path
        /\ disk0'[th[c].path] = th[c].old_mem
    BY <1>1, <2>1, <2>2 DEF Threads, Directory
  <2> QED BY <1>1, <1>2, <2>1, <2>3 DEF Replays
<1>6. ASSUME flush_truncate(c) PROVE Replays(c)'
  <2>1. /\ th[c].pc = "truncate" /\ mem' = mem /\ log' = <<>>
        /\ th' = [th EXCEPT ![c].pc = "add"]
    BY <1>6 DEF flush_truncate, At, truncate, Go
  <2>2. th'[c].pc = "add"
    BY <1>1, <2>1 DEF Threads
  <2>3. Replayed' = EmptyTable
    BY <2>1, ReplayedEmpty
  <2> QED BY <1>1, <2>1, <2>2, <2>3 DEF Replays
<1>7. ASSUME flush_add(c) PROVE Replays(c)'
  <2>1. th[c].pc = "add" /\ mem' = mem /\ log' = log /\ th' = [th EXCEPT ![c] = Resting]
    BY <1>7 DEF flush_add, At, ReturnOk, walVars
  <2>2. th'[c].pc = "idle"
    BY <1>1, <2>1, RestingTyped
  <2> QED BY <1>1, <1>2, <2>1, <2>2 DEF Replays
<1> QED BY <1>1, <1>3, <1>4, <1>5, <1>6, <1>7 DEF LoggedInv

\* No compaction touches the file of a flush.
LEMMA LoggedCompactor ==
    ASSUME EngineLoggedInv, CompactorNext
    PROVE  LoggedInv'
<1>1. UNCHANGED <<log, proc, mem, th>> /\ TypeInv /\ LevelTypeOK
  BY DEF CompactorNext, compactor_check, compactor_poll, compactor_begin,
         compactor_remove, compactor_install, Compactor, walVars, EngineLoggedInv,
         EngineFilesInv, TypeInv, LsmTypeOK
<1>2. UNCHANGED levelVars \/ compact_begin \/ compact_end
  BY DEF CompactorNext, compactor_check, compactor_poll, compactor_begin,
         compactor_remove, compactor_install, compact_begin, compact_end
<1>3. \A p \in Stamps : p \notin Listed0 => disk0'[p] = disk0[p]
  BY <1>1, <1>2, CompactOnL0 DEF levelVars
<1>4. \A c \in Clients : th[c].pc = "truncate" => disk0'[th[c].path] = disk0[th[c].path]
  BY <1>1, <1>3 DEF EngineLoggedInv, EngineFilesInv, FlushInv, TypeInv, ThreadsFit,
                    FlushStages
<1>5. Replayed' = Replayed
  BY <1>1 DEF Replayed
<1> QED BY <1>1, <1>4, <1>5 DEF EngineLoggedInv, LoggedInv, Replays

LEMMA LoggedProcess ==
    ASSUME EngineLoggedInv, ProcessNext
    PROVE  LoggedInv'
<1>1. CASE open
  <2>1. /\ proc = "down" /\ mem' = Replayed /\ log' = log /\ th' = th
    BY <1>1 DEF open, walVars, Replayed
  <2>2. Replayed' = Replayed /\ \A c \in Clients : th[c].pc = "idle"
    BY <2>1 DEF Replayed, EngineLoggedInv, EngineFilesInv, TypeInv, ThreadsFit
  <2> QED BY <2>1, <2>2 DEF LoggedInv, Replays
<1>2. CASE drop \/ join \/ crash
  BY <1>2 DEF drop, join, crash, Forget, LoggedInv
<1> QED BY <1>1, <1>2 DEF ProcessNext

LEMMA LoggedStays ==
    ASSUME StrictClock, OneCaller
    PROVE  EngineLoggedInv /\ Untroubled /\ Untroubled' /\ [LsmNext]_lsmVars =>
              EngineLoggedInv'
<1> SUFFICES ASSUME EngineLoggedInv, Untroubled, Untroubled', [LsmNext]_lsmVars
             PROVE  EngineLoggedInv'
  OBVIOUS
<1>1. EngineFilesInv'
  BY EngineFilesStay DEF EngineLoggedInv
<1>2. ASSUME NEW c \in Clients, BeginCall(c) \/ ContinueCall(c) PROVE LoggedInv'
  <2>1. Clients = {c}
    BY DEF OneCaller
  <2>2. ~io_error
    BY DEF Untroubled, io_error
  <2>3. ASSUME NEW k \in Keys, set(c, k) \/ delete(c, k) PROVE LoggedInv'
    BY <2>1, <2>3, LoggedWrite DEF set, delete
  <2> QED
    BY <1>2, <2>1, <2>2, <2>3, LoggedCall, LoggedFlush
       DEF BeginCall, ContinueCall, write_wal_error, flush_error
<1>3. ASSUME UNCHANGED lsmVars PROVE LoggedInv'
  BY <1>3 DEF lsmVars, walVars, levelVars, EngineLoggedInv, LoggedInv, Replays, Replayed
<1> QED
  BY <1>1, <1>2, <1>3, LoggedCompactor, LoggedProcess DEF LsmNext, EngineLoggedInv

LEMMA LoggedInitially == LsmInit => EngineLoggedInv
  BY EngineFilesInitially DEF LsmInit, EngineLoggedInv, LoggedInv

LEMMA LoggedHolds ==
    ASSUME StrictClock, OneCaller
    PROVE  LsmSpec /\ []Untroubled => []EngineLoggedInv
<1>1. EngineLoggedInv /\ Untroubled /\ Untroubled' /\ [LsmNext]_lsmVars => EngineLoggedInv'
  BY LoggedStays
<1> QED BY <1>1, LoggedInitially, PTL DEF LsmSpec

\* With one caller, as long as nothing is appended behind a torn entry and no
\* I/O call fails, the log rebuilds exactly the MemTable between calls, whatever flushes, compactions,
\* kills and reopenings came before.
THEOREM LogRebuildsMem ==
    ASSUME StrictClock, OneCaller
    PROVE  LsmSpec /\ []Untroubled => []ReplayRebuildsMem
<1>1. EngineLoggedInv => ReplayRebuildsMem
  BY DEF EngineLoggedInv, LoggedInv, Replays, ReplayRebuildsMem, Replayed, OneCaller
<1> QED BY <1>1, LoggedHolds, PTL

-----------------------------------------------------------------------------
(***************************************************************************)
(* One caller, no compaction: a durable dictionary.                         *)
(***************************************************************************)

\* The files of a level that hold k, and the record of the newest of them.
FilesWith(disk, k) == {s \in Stamps : disk[s] # NoFile /\ disk[s][k] # Absent}

Newest(disk, k) ==
    IF FilesWith(disk, k) = {} THEN Absent ELSE disk[Max(FilesWith(disk, k))][k]

LEMMA NewestIs ==
    ASSUME NEW disk \in Directory, NEW k \in Keys, NEW s \in FilesWith(disk, k),
           \A p \in FilesWith(disk, k) : p <= s
    PROVE  Newest(disk, k) = disk[s][k]
<1>1. FilesWith(disk, k) \subseteq 1..MaxStamp /\ MaxStamp \in Nat
  BY LevelAssumption DEF FilesWith, Stamps
<1>2. Max(FilesWith(disk, k)) = s
  BY <1>1, MaxIs
<1> QED BY <1>2 DEF Newest

\* A search through all files of a level, given in ascending order, from the
\* last to the first, finds the record of the newest file that has one.
LEMMA SearchIsNewest ==
    ASSUME NEW disk \in Directory, NEW paths \in Seq(Stamps), NEW k \in Keys,
           \A i, j \in DOMAIN paths : i < j => paths[i] < paths[j],
           \A s \in Stamps : disk[s] # NoFile <=> \E i \in DOMAIN paths : paths[i] = s
    PROVE  /\ tables_of(disk, Reverse(paths)) \in Seq(Table)
           /\ FirstRecord(tables_of(disk, Reverse(paths)), k) = Newest(disk, k)
<1> DEFINE n == Len(paths)
           T == tables_of(disk, Reverse(paths))
<1>1. /\ n \in Nat /\ DOMAIN paths = 1..n
      /\ \A i \in 1..n : paths[i] \in Stamps
  BY LenProperties, ElementOfSeq
<1>2. \A i \in 1..n : disk[paths[i]] # NoFile /\ disk[paths[i]] \in Table
  BY <1>1 DEF Directory
<1>3. \A i \in 1..n : (n - i) + 1 \in 1..n
  BY <1>1
<1>4. /\ T = [i \in 1..n |-> disk[paths[(n - i) + 1]]]
  BY <1>1, <1>3 DEF Reverse, tables_of
<1>5. T \in Seq(Table) /\ DOMAIN T = 1..n
  <2>1. T \in [1..n -> Table]
    BY <1>2, <1>3, <1>4
  <2> QED BY <1>1, <2>1, SeqDef
<1>6. \A i \in 1..n : T[(n - i) + 1] = disk[paths[i]]
  BY <1>1, <1>3, <1>4
<1> HIDE DEF n, T
<1>7. CASE FilesWith(disk, k) = {}
  <2>1. \A i \in DOMAIN T : T[i][k] = Absent
    BY <1>1, <1>2, <1>3, <1>4, <1>5, <1>7 DEF FilesWith
  <2> QED BY <1>5, <1>7, <2>1, FirstRecordProperties DEF Newest, T
<1>8. CASE FilesWith(disk, k) # {}
  <2> DEFINE s == Max(FilesWith(disk, k))
  <2>1. s \in FilesWith(disk, k) /\ \A p \in FilesWith(disk, k) : p <= s
    BY <1>8, LevelAssumption, MaxProperties DEF FilesWith, Stamps
  <2> HIDE DEF s
  <2>2. PICK m \in 1..n : paths[m] = s
    BY <1>1, <2>1 DEF FilesWith
  <2> DEFINE q == (n - m) + 1
  <2>3. ASSUME NEW j \in DOMAIN T, j < q PROVE T[j][k] = Absent
    <3>1. (n - j) + 1 \in 1..n /\ m < (n - j) + 1
      BY <1>1, <1>5, <2>3
    <3>2. paths[m] < paths[(n - j) + 1]
      BY <1>1, <3>1
    <3>3. paths[(n - j) + 1] \notin FilesWith(disk, k)
      <4>1. paths[(n - j) + 1] \in Int /\ s \in Int
        BY <1>1, <2>2, <3>1 DEF Stamps
      <4> QED BY <2>1, <2>2, <3>2, <4>1
    <3> QED BY <1>1, <1>2, <1>4, <1>5, <3>1, <3>3 DEF FilesWith
  <2>4. q \in DOMAIN T /\ T[q] = disk[s] /\ disk[s][k] # Absent
    BY <1>3, <1>5, <1>6, <2>1, <2>2 DEF FilesWith
  <2> HIDE DEF q
  <2>5. FirstRecord(T, k) = disk[s][k]
    <3>1. T[q][k] # Absent /\ q \in DOMAIN T
      BY <2>4
    <3>2. FirstRecord(T, k) = T[q][k]
      BY <1>5, <2>3, <3>1, FirstRecordAt
    <3> QED BY <2>4, <3>2
  <2> QED BY <1>5, <1>8, <2>5 DEF Newest, T, s
<1> QED BY <1>7, <1>8

\* Besides, L0 has not grown to the compaction threshold.
Calm == Untroubled /\ ~needs_compaction

WritesOf(k) == {n \in DOMAIN hist : hist[n].key = k}

\* The record of the last write call on k.
LastRecord(k) ==
    IF WritesOf(k) = {} THEN Absent
    ELSE Record(Max(WritesOf(k)), hist[Max(WritesOf(k))].tomb)

Uncompacted ==
    /\ Idle /\ l1 = <<>> /\ \A s \in Stamps : disk1[s] = NoFile
    /\ compactor \in {"check", "poll", "exited"}

\* L0 is in the order of its names, and lists every file but the one a flush
\* has written and not added yet, which is later than all of them.
Chronological ==
    /\ \A i, j \in DOMAIN l0 : i < j => l0[i] < l0[j]
    /\ proc = "up" => \A s \in Stamps : disk0[s] # NoFile =>
          \/ \E i \in DOMAIN l0 : l0[i] = s
          \/ \E c \in Clients : th[c].pc \in {"truncate", "add"} /\ th[c].path = s
    /\ \A c \in Clients : th[c].pc \in FlushStages =>
          \A s \in Stamps : disk0[s] # NoFile => s <= th[c].path

\* The log and the files hold the last record of every key between them.
Recalled ==
    \A k \in Keys :
        LastRecord(k) = IF Replayed[k] # Absent THEN Replayed[k] ELSE Newest(disk0, k)

DictInv == Uncompacted /\ Chronological /\ Recalled

EngineDictInv == EngineLoggedInv /\ DictInv

\* The last record of each key after a write call.
LEMMA WriteLast ==
    ASSUME TypeInv, NEW c \in Clients, NEW k \in Keys, NEW d \in BOOLEAN,
           write_wal(c, k, d)
    PROVE  /\ Len(hist) + 1 \in 1..MaxWrites
           /\ LastRecord(k)' = Record(Len(hist) + 1, d)
           /\ LastWrite(k)' = IF d THEN Absent ELSE Record(Len(hist) + 1, FALSE)
           /\ \A q \in Keys \ {k} :
                 LastRecord(q)' = LastRecord(q) /\ LastWrite(q)' = LastWrite(q)
<1> DEFINE n == Len(hist) + 1
<1>1. /\ hist \in Seq([key : Keys, tomb : BOOLEAN]) /\ Len(hist) < MaxWrites
      /\ hist' = Append(hist, [key |-> k, tomb |-> d]) /\ MaxWrites \in Nat
      /\ [key |-> k, tomb |-> d] \in [key : Keys, tomb : BOOLEAN]
  BY LsmAssumption DEF TypeInv, LsmTypeOK, write_wal
<1>2. /\ Len(hist) \in Nat /\ DOMAIN hist = 1..Len(hist)
      /\ DOMAIN hist' = 1..n /\ hist'[n] = [key |-> k, tomb |-> d]
      /\ \A m \in 1..Len(hist) : hist'[m] = hist[m]
  BY <1>1, AppendProperties, LenProperties
<1>3. n \in 1..MaxWrites /\ n \in Nat /\ n \notin 1..Len(hist) /\ n = Len(hist) + 1
  BY <1>1, <1>2
<1> HIDE DEF n
<1>4. LastRecord(k)' = Record(n, d) /\ LastWrite(k)' = IF d THEN Absent ELSE Record(n, FALSE)
  <2>1. /\ n \in WritesOf(k)' /\ WritesOf(k)' \subseteq 1..n
        /\ \A x \in WritesOf(k)' : x <= n
    BY <1>2, <1>3 DEF WritesOf
  <2>2. Max(WritesOf(k)') = n
    BY <1>3, <2>1, MaxIs
  <2>3. {m \in DOMAIN hist' : hist'[m].key = k} = WritesOf(k)'
    BY DEF WritesOf
  <2>4. WritesOf(k)' # {} /\ hist'[n].tomb = d
    BY <1>2, <2>1
  <2>5. LastRecord(k)' = Record(n, d)
    BY <2>2, <2>4 DEF LastRecord
  <2>6. LastWrite(k)' = IF d THEN Absent ELSE Record(n, FALSE)
    BY <2>2, <2>3, <2>4 DEF LastWrite
  <2> QED BY <2>5, <2>6
<1>5. ASSUME NEW q \in Keys \ {k}
      PROVE  LastRecord(q)' = LastRecord(q) /\ LastWrite(q)' = LastWrite(q)
  <2>1. WritesOf(q)' = WritesOf(q)
    BY <1>2, <1>3 DEF WritesOf
  <2>2. WritesOf(q) # {} => Max(WritesOf(q)) \in 1..Len(hist)
    <3>1. WritesOf(q) \subseteq 1..Len(hist)
      BY <1>2 DEF WritesOf
    <3> QED BY <1>2, <3>1, MaxProperties
  <2> QED BY <1>2, <2>1, <2>2 DEF LastRecord, LastWrite, WritesOf
<1> QED BY <1>3, <1>4, <1>5 DEF n

\* While what the log replays, the calls and the files of L0 stay as they are.
LEMMA RememberedFrame ==
    ASSUME UNCHANGED log \/ Replayed' = Replayed
    PROVE  /\ Replayed' = Replayed
           /\ Recalled /\ UNCHANGED <<hist, disk0>> => Recalled'
<1>1. Replayed' = Replayed
  BY DEF Replayed
<1>2. hist' = hist => \A k \in Keys : LastRecord(k)' = LastRecord(k)
  BY DEF LastRecord, WritesOf
<1> QED BY <1>1, <1>2 DEF Recalled

LEMMA ChronologicalFrame ==
    ASSUME Chronological, NEW c \in Clients, Clients = {c},
           UNCHANGED <<l0, disk0, proc>>,
           th[c].pc \in {"truncate", "add"} =>
              th'[c].pc \in {"truncate", "add"} /\ th'[c].path = th[c].path,
           th'[c].pc \in FlushStages =>
              th[c].pc \in FlushStages /\ th'[c].path = th[c].path
    PROVE  Chronological'
<1>1. ASSUME proc' = "up", NEW s \in Stamps, disk0'[s] # NoFile
      PROVE  \/ \E i \in DOMAIN l0' : l0'[i] = s
             \/ \E b \in Clients : th'[b].pc \in {"truncate", "add"} /\ th'[b].path = s
  BY <1>1 DEF Chronological
<1>2. \A b \in Clients : th'[b].pc \in FlushStages =>
         \A s \in Stamps : disk0'[s] # NoFile => s <= th'[b].path
  BY DEF Chronological
<1> QED BY <1>1, <1>2 DEF Chronological

\* A thread moves and the log, the levels and the calls stay as they are.
LEMMA DictFrame ==
    ASSUME DictInv, NEW c \in Clients, Clients = {c},
           UNCHANGED <<log, levelVars, proc, compactor, hist>>,
           th[c].pc \in {"truncate", "add"} =>
              th'[c].pc \in {"truncate", "add"} /\ th'[c].path = th[c].path,
           th'[c].pc \in FlushStages =>
              th[c].pc \in FlushStages /\ th'[c].path = th[c].path
    PROVE  DictInv'
<1>1. UNCHANGED <<disk0, disk1, l0, l1, job>>
  BY DEF levelVars
<1>2. Recalled' /\ Chronological'
  BY <1>1, RememberedFrame, ChronologicalFrame DEF DictInv
<1>3. Uncompacted'
  BY <1>1 DEF DictInv, Uncompacted, Idle
<1> QED BY <1>2, <1>3 DEF DictInv

\* A write call: the log holds one more record, the last of its key.
LEMMA WriteDict ==
    ASSUME EngineDictInv, Calm, Calm', NEW c \in Clients, Clients = {c},
           NEW k \in Keys, NEW d \in BOOLEAN, write_wal(c, k, d)
    PROVE  DictInv'
<1> DEFINE R == Record(Len(hist) + 1, d)
<1>1. /\ th[c].pc = "idle"
      /\ th' = [th EXCEPT ![c].pc = "insert", ![c].entry = [key |-> k, value |-> R]]
      /\ UNCHANGED <<levelVars, proc, compactor>>
      /\ UNCHANGED <<disk0, disk1, l0, l1, job>>
  BY DEF write_wal, At, levelVars
<1>2. TypeInv /\ th \in [Clients -> Threads] /\ DictInv
  BY DEF EngineDictInv, EngineLoggedInv, EngineFilesInv, TypeInv, LsmTypeOK
<1>3. LastRecord(k)' = R /\ \A q \in Keys \ {k} : LastRecord(q)' = LastRecord(q)
  BY <1>2, WriteLast
<1>4. R # Absent
  BY <1>2, NextRecord
<1>5. Replayed'[k] = R /\ \A q \in Keys \ {k} : Replayed'[q] = Replayed[q]
  BY <1>2, WriteReplayed DEF Calm
<1>6. th'[c].pc = "insert"
  BY <1>1, <1>2 DEF Threads
<1> HIDE DEF R
<1>7. Recalled'
  BY <1>1, <1>2, <1>3, <1>4, <1>5 DEF Recalled, DictInv
<1>8. Chronological'
  BY <1>1, <1>2, <1>6, ChronologicalFrame DEF DictInv, FlushStages
<1>9. Uncompacted'
  BY <1>1, <1>2 DEF DictInv, Uncompacted, Idle
<1> QED BY <1>7, <1>8, <1>9 DEF DictInv

\* A get, an insert into the MemTable, and the swap of a flush.
LEMMA CallDict ==
    ASSUME EngineDictInv, NEW c \in Clients, Clients = {c},
           (\E k \in Keys : get(c, k)) \/ get_levels(c) \/ insert_mem(c) \/ flush_swap(c)
    PROVE  DictInv'
<1>1. /\ th \in [Clients -> Threads] /\ th[c] \in Threads /\ DictInv
      /\ UNCHANGED <<log, levelVars, proc, compactor, hist>>
  BY DEF EngineDictInv, EngineLoggedInv, EngineFilesInv, TypeInv, LsmTypeOK, get,
         get_levels, insert_mem, flush_swap, walVars, At
<1>2. th[c].pc \in {"idle", "levels", "insert", "swap"}
  BY DEF get, get_levels, insert_mem, flush_swap, At
<1>3. CASE flush_swap(c)
  <2>1. /\ th[c].pc = "swap"
        /\ th' = [th EXCEPT ![c].pc = "write", ![c].old_mem = mem]
    BY <1>3 DEF flush_swap, At
  <2>2. th'[c].pc = "write" /\ th'[c].path = th[c].path
    BY <1>1, <2>1 DEF Threads
  <2> QED BY <1>1, <2>1, <2>2, DictFrame DEF FlushStages
<1>4. CASE ~flush_swap(c)
  <2>1. \/ th[c].pc = "idle" /\ th' = th
        \/ th' = [th EXCEPT ![c] = Resting]
        \/ th' = [th EXCEPT ![c].pc = "path"]
        \/ \E k \in Keys : th' = [th EXCEPT ![c].pc = "levels", ![c].entry.key = k,
                                           ![c].seen = acked]
    BY <1>4 DEF get, get_levels, insert_mem, At, ReturnOk, Go
  <2>2. th'[c].pc \in {"idle", "levels", "path"}
    <3>1. ASSUME NEW k \in Keys,
                 th' = [th EXCEPT ![c].pc = "levels", ![c].entry.key = k, ![c].seen = acked]
          PROVE  th'[c].pc = "levels"
      BY <1>1, <3>1 DEF Threads
    <3>2. th' = [th EXCEPT ![c] = Resting] => th'[c].pc = "idle"
      BY <1>1, RestingTyped
    <3>3. th' = [th EXCEPT ![c].pc = "path"] => th'[c].pc = "path"
      BY <1>1 DEF Threads
    <3> QED BY <2>1, <3>1, <3>2, <3>3
  <2>3. th[c].pc \in {"idle", "levels", "insert"}
    BY <1>4 DEF get, get_levels, insert_mem, At
  <2> QED BY <1>1, <2>2, <2>3, DictFrame DEF FlushStages
<1> QED BY <1>3, <1>4

\* A flush takes a name later than that of every file.
LEMMA PathDict ==
    ASSUME StrictClock, EngineDictInv, NEW c \in Clients, Clients = {c},
           next_sstable_path(c)
    PROVE  DictInv'
<1>1. PICK s \in Stamps : now(s) /\ th' = [th EXCEPT ![c].pc = "swap", ![c].path = s]
  BY DEF next_sstable_path
<1>2. /\ th[c].pc = "path" /\ th[c] \in Threads /\ th \in [Clients -> Threads]
      /\ UNCHANGED <<log, disk0, disk1, l0, l1, job, proc, compactor, hist>>
      /\ DictInv
  BY DEF next_sstable_path, At, fileVars, walVars, EngineDictInv, EngineLoggedInv,
         EngineFilesInv, TypeInv,
         LsmTypeOK
<1>3. th'[c].pc = "swap" /\ th'[c].path = s
  BY <1>1, <1>2 DEF Threads
<1>4. \A p \in Stamps : disk0[p] # NoFile => p <= s
  <2>1. clock < s /\ clock \in Int
    <3>1. LevelTypeOK
      BY DEF EngineDictInv, EngineLoggedInv, EngineFilesInv, TypeInv, LsmTypeOK
    <3> QED BY <1>1, <3>1, StrictNow
  <2>2. \A p \in Stamps : disk0[p] # NoFile => p <= clock
    BY DEF EngineDictInv, EngineLoggedInv, EngineFilesInv, Dated
  <2> QED BY <2>1, <2>2 DEF Stamps
<1>5. Chronological'
  <2>1. \A p \in Stamps : disk0'[p] # NoFile => p <= th'[c].path
    BY <1>2, <1>3, <1>4
  <2>2. ASSUME proc = "up", NEW p \in Stamps, disk0[p] # NoFile
        PROVE  \E i \in DOMAIN l0 : l0[i] = p
    BY <1>2, <2>2 DEF DictInv, Chronological
  <2> QED BY <1>2, <2>1, <2>2 DEF DictInv, Chronological
<1>6. Recalled'
  BY <1>2, RememberedFrame DEF DictInv
<1> QED BY <1>2, <1>5, <1>6 DEF DictInv, Uncompacted, Idle

\* A file later than every other is written: it has the first say on the keys
\* that it holds, and none on the others.
LEMMA NewestAfterWrite ==
    ASSUME NEW disk \in Directory, NEW p \in Stamps, NEW t \in Table, NEW k \in Keys,
           \A s \in Stamps : disk[s] # NoFile => s <= p, disk[p] = NoFile
    PROVE  Newest([disk EXCEPT ![p] = t], k) =
              IF t[k] # Absent THEN t[k] ELSE Newest(disk, k)
<1> DEFINE new == [disk EXCEPT ![p] = t]
<1>1. /\ new \in Directory /\ new[p] = t /\ t # NoFile
      /\ \A s \in Stamps \ {p} : new[s] = disk[s]
  BY TablesAssumption DEF Directory
<1> HIDE DEF new
<1>2. CASE t[k] # Absent
  <2>1. p \in FilesWith(new, k) /\ \A s \in FilesWith(new, k) : s <= p
    <3>1. p <= p
      BY DEF Stamps
    <3> QED BY <1>1, <1>2, <3>1 DEF FilesWith
  <2>2. Newest(new, k) = new[p][k]
    BY <1>1, <2>1, NewestIs
  <2> QED BY <1>1, <1>2, <2>2 DEF new
<1>3. CASE t[k] = Absent
  <2>1. FilesWith(new, k) = FilesWith(disk, k) /\ p \notin FilesWith(disk, k)
    BY <1>1, <1>3 DEF FilesWith
  <2>2. FilesWith(disk, k) # {} => Max(FilesWith(disk, k)) \in Stamps \ {p}
    <3>1. FilesWith(disk, k) \subseteq 1..MaxStamp /\ MaxStamp \in Nat
      BY LevelAssumption DEF FilesWith, Stamps
    <3>2. FilesWith(disk, k) # {} => Max(FilesWith(disk, k)) \in FilesWith(disk, k)
      BY <3>1, MaxProperties
    <3> QED BY <2>1, <3>1, <3>2 DEF Stamps
  <2>3. Newest(new, k) = Newest(disk, k)
    BY <1>1, <2>1, <2>2 DEF Newest
  <2> QED BY <1>3, <2>3 DEF new
<1> QED BY <1>2, <1>3

LEMMA FlushWriteDict ==
    ASSUME EngineDictInv, NEW c \in Clients, Clients = {c}, flush_write(c)
    PROVE  DictInv'
<1> DEFINE p == th[c].path
           t == th[c].old_mem
<1>1. /\ th[c].pc = "write" /\ proc = "up" /\ disk0' = [disk0 EXCEPT ![p] = t]
      /\ th' = [th EXCEPT ![c].pc = "truncate", ![c].old_mem = EmptyTable]
      /\ UNCHANGED <<log, disk1, l0, l1, job, proc, compactor, hist>>
  BY DEF flush_write, At, walVars
<1>2. /\ th[c] \in Threads /\ th \in [Clients -> Threads] /\ DictInv
      /\ disk0 \in Directory /\ p \in Stamps /\ t \in Table /\ disk0[p] = NoFile
  BY <1>1 DEF EngineDictInv, EngineLoggedInv, EngineFilesInv, FlushInv, TypeInv, ThreadsFit, LsmTypeOK,
              LevelTypeOK, FlushStages, Threads
<1>3. \A s \in Stamps : disk0[s] # NoFile => s <= p
  BY <1>1, <1>2 DEF DictInv, Chronological, FlushStages
<1>4. th'[c].pc = "truncate" /\ th'[c].path = p
  BY <1>1, <1>2 DEF Threads
<1>5. Replayed' = Replayed /\ t = Replayed
  BY <1>1, RememberedFrame DEF EngineDictInv, EngineLoggedInv, LoggedInv, Replays
<1> HIDE DEF p, t
<1>6. Recalled'
  <2>1. \A k \in Keys : Newest(disk0, k)' = IF t[k] # Absent THEN t[k] ELSE Newest(disk0, k)
    BY <1>1, <1>2, <1>3, NewestAfterWrite
  <2>2. \A k \in Keys : LastRecord(k)' = LastRecord(k)
    BY <1>1 DEF LastRecord, WritesOf
  <2> QED BY <1>2, <1>5, <2>1, <2>2 DEF DictInv, Recalled
<1>7. \A s \in Stamps \ {p} : disk0'[s] = disk0[s]
  BY <1>1, <1>2 DEF Directory
<1>8. Chronological'
  <2>1. ASSUME NEW s \in Stamps, disk0'[s] # NoFile PROVE s <= p
    BY <1>2, <1>3, <1>7, <2>1 DEF Stamps
  <2>2. ASSUME NEW s \in Stamps, disk0'[s] # NoFile
        PROVE  s = p \/ \E i \in DOMAIN l0 : l0[i] = s
    BY <1>1, <1>2, <1>7, <2>2 DEF DictInv, Chronological
  <2> QED BY <1>1, <1>2, <1>4, <2>1, <2>2 DEF DictInv, Chronological
<1>9. Uncompacted'
  BY <1>1, <1>2 DEF DictInv, Uncompacted, Idle
<1> QED BY <1>6, <1>8, <1>9 DEF DictInv

\* The log goes when the newest file holds all of it.
LEMMA TruncateDict ==
    ASSUME EngineDictInv, NEW c \in Clients, Clients = {c}, flush_truncate(c)
    PROVE  DictInv'
<1> DEFINE p == th[c].path
<1>1. /\ th[c].pc = "truncate" /\ proc = "up" /\ log' = <<>>
      /\ th' = [th EXCEPT ![c].pc = "add"]
      /\ UNCHANGED <<levelVars, proc, compactor, hist>>
      /\ UNCHANGED <<disk0, disk1, l0, l1, job>>
  BY DEF flush_truncate, At, truncate, Go, levelVars
<1>2. /\ th[c] \in Threads /\ th \in [Clients -> Threads] /\ DictInv
      /\ disk0 \in Directory /\ p \in Stamps /\ disk0[p] # NoFile
  BY <1>1 DEF EngineDictInv, EngineLoggedInv, EngineFilesInv, FlushInv, TypeInv, ThreadsFit, LsmTypeOK,
              LevelTypeOK, FlushStages, Threads
<1>3. disk0[p] = Replayed /\ \A s \in Stamps : disk0[s] # NoFile => s <= p
  BY <1>1, <1>2
     DEF EngineDictInv, EngineLoggedInv, LoggedInv, DictInv, Replays, Chronological,
         FlushStages
<1>4. th'[c].pc = "add" /\ th'[c].path = p
  BY <1>1, <1>2 DEF Threads
<1> HIDE DEF p
<1>5. Replayed' = EmptyTable
  BY <1>1, ReplayedEmpty
<1>6. Recalled'
  <2>1. ASSUME NEW k \in Keys, Replayed[k] # Absent PROVE Newest(disk0, k) = Replayed[k]
    <3>1. p \in FilesWith(disk0, k) /\ \A s \in FilesWith(disk0, k) : s <= p
      BY <1>2, <1>3, <2>1 DEF FilesWith
    <3> QED BY <1>2, <1>3, <3>1, NewestIs
  <2>2. \A k \in Keys : LastRecord(k)' = LastRecord(k) /\ Replayed'[k] = Absent
    BY <1>1, <1>5 DEF LastRecord, WritesOf, EmptyTable
  <2> QED BY <1>1, <1>2, <2>1, <2>2 DEF DictInv, Recalled
<1>7. Chronological'
  BY <1>1, <1>2, <1>4, ChronologicalFrame DEF DictInv, FlushStages, p
<1>8. Uncompacted'
  BY <1>1, <1>2 DEF DictInv, Uncompacted, Idle
<1> QED BY <1>6, <1>7, <1>8 DEF DictInv

\* The file is added behind every other.
LEMMA AddDict ==
    ASSUME EngineDictInv, NEW c \in Clients, Clients = {c}, flush_add(c)
    PROVE  DictInv'
<1> DEFINE p == th[c].path
<1>1. /\ th[c].pc = "add" /\ proc = "up" /\ l0' = Append(l0, p)
      /\ th' = [th EXCEPT ![c] = Resting]
      /\ UNCHANGED <<log, disk0, disk1, l1, job, proc, compactor, hist>>
  BY DEF flush_add, At, add_l0_file, ReturnOk, walVars
<1>2. /\ th \in [Clients -> Threads] /\ DictInv /\ l0 \in Seq(Stamps)
      /\ p \in Stamps /\ p \notin Listed0 /\ \A i \in DOMAIN l0 : disk0[l0[i]] # NoFile
  BY <1>1 DEF EngineDictInv, EngineLoggedInv, EngineFilesInv, FilesInv, FlushInv, TypeInv, ThreadsFit,
              LsmTypeOK, LevelTypeOK, FlushStages
<1>3. \A s \in Stamps : disk0[s] # NoFile => s <= p
  BY <1>1, <1>2 DEF DictInv, Chronological, FlushStages
<1>4. th'[c].pc = "idle"
  BY <1>1, <1>2, RestingTyped
<1> HIDE DEF p
<1>5. /\ Len(l0) \in Nat /\ DOMAIN l0 = 1..Len(l0) /\ DOMAIN l0' = 1 .. Len(l0) + 1
      /\ l0'[Len(l0) + 1] = p /\ \A i \in 1..Len(l0) : l0'[i] = l0[i] /\ l0[i] \in Stamps
  <2>1. /\ l0' \in Seq(Stamps) /\ Len(l0') = Len(l0) + 1
        /\ l0'[Len(l0) + 1] = p /\ \A i \in 1..Len(l0) : l0'[i] = l0[i]
    BY <1>1, <1>2, AppendProperties
  <2> QED BY <1>2, <2>1, LenProperties, ElementOfSeq
<1>6. \A i \in 1..Len(l0) : l0[i] < p
  <2> TAKE i \in 1..Len(l0)
  <2>1. l0[i] <= p /\ l0[i] # p
    BY <1>2, <1>3, <1>5 DEF Listed0
  <2>2. l0[i] \in Int /\ p \in Int
    BY <1>2, <1>5 DEF Stamps
  <2> QED BY <2>1, <2>2
<1>7. Chronological'
  <2>1. ASSUME NEW i \in DOMAIN l0', NEW j \in DOMAIN l0', i < j PROVE l0'[i] < l0'[j]
    <3>1. i \in 1..Len(l0) /\ (j \in 1..Len(l0) \/ j = Len(l0) + 1)
      BY <1>5, <2>1
    <3> QED BY <1>2, <1>5, <1>6, <2>1, <3>1 DEF DictInv, Chronological
  <2>2. ASSUME NEW s \in Stamps, disk0[s] # NoFile PROVE \E i \in DOMAIN l0' : l0'[i] = s
    <3>1. s = p \/ \E i \in DOMAIN l0 : l0[i] = s
      BY <1>1, <1>2, <2>2 DEF DictInv, Chronological, p
    <3>2. Len(l0) + 1 \in DOMAIN l0'
      BY <1>5
    <3> QED BY <1>5, <3>1, <3>2
  <2> QED BY <1>1, <1>4, <2>1, <2>2 DEF Chronological, FlushStages
<1>8. Recalled'
  BY <1>1, <1>2, RememberedFrame DEF DictInv
<1>9. Uncompacted'
  BY <1>1, <1>2 DEF DictInv, Uncompacted, Idle
<1> QED BY <1>7, <1>8, <1>9 DEF DictInv

\* Below the threshold the compaction thread only looks.
LEMMA CompactorDict ==
    ASSUME DictInv, Calm, CompactorNext
    PROVE  DictInv'
<1>1. /\ Idle /\ job = NoJob /\ compactor \in {"check", "poll", "exited"}
      /\ ~needs_compaction
  BY DEF DictInv, Uncompacted, Idle, Calm
<1>2. compactor_check \/ compactor_poll
  BY <1>1, JobProperties
     DEF CompactorNext, compactor_begin, compactor_remove, compactor_install, Compactor
<1>3. /\ UNCHANGED <<log, proc, th, hist>> /\ UNCHANGED levelVars
      /\ compactor' \in {"check", "poll", "exited"}
  BY <1>1, <1>2 DEF compactor_check, compactor_poll, Compactor, walVars
<1>4. UNCHANGED <<disk0, disk1, l0, l1, job>>
  BY <1>3 DEF levelVars
<1>5. Recalled'
  BY <1>3, <1>4, RememberedFrame DEF DictInv
<1> QED BY <1>3, <1>4, <1>5 DEF DictInv, Uncompacted, Idle, Chronological

\* A process that ends takes only memory with it.
LEMMA ForgetDict ==
    ASSUME DictInv, Forget, Replayed' = Replayed
    PROVE  DictInv'
<1>1. /\ proc' = "down" /\ compactor' = "exited" /\ l0' = <<>> /\ l1' = <<>>
      /\ job' = NoJob /\ th' = [c \in Clients |-> Resting]
      /\ UNCHANGED <<disk0, disk1, hist>>
  BY DEF Forget, fileVars
<1>2. Recalled'
  BY <1>1, RememberedFrame DEF DictInv
<1>3. Uncompacted'
  BY <1>1 DEF DictInv, Uncompacted, Idle
<1>4. \A c \in Clients : th'[c].pc \notin FlushStages
  BY <1>1, RestingTyped DEF FlushStages
<1>5. Chronological'
  BY <1>1, <1>4 DEF Chronological
<1> QED BY <1>1, <1>2, <1>3, <1>5 DEF DictInv

\* What a directory scan finds of a level: all of its files, in the order of
\* their names.
LEMMA FoundOrder ==
    ASSUME NEW disk \in Directory
    PROVE  /\ \A i, j \in DOMAIN Found(disk) : i < j => Found(disk)[i] < Found(disk)[j]
           /\ \A s \in Stamps :
                 disk[s] # NoFile <=> \E i \in DOMAIN Found(disk) : Found(disk)[i] = s
<1> DEFINE S == {s \in Stamps : disk[s] # NoFile}
<1>1. S \subseteq Int /\ IsFiniteSet(S)
  <2>1. IsFiniteSet(Stamps) /\ Stamps \subseteq Int
    BY FS_Interval, LevelAssumption DEF Stamps
  <2> QED BY <2>1, FS_Subset
<1>2. /\ Sorted(S) \in [1..Cardinality(S) -> S]
      /\ \A m, n \in 1..Cardinality(S) : m < n => Sorted(S)[m] < Sorted(S)[n]
      /\ \A x \in S : \E n \in 1..Cardinality(S) : Sorted(S)[n] = x
  BY <1>1, SortedProperties, SortedOrder
<1>3. Found(disk) = Sorted(S)
  BY DEF Found
<1>4. \A s \in Stamps : s \in S <=> disk[s] # NoFile
  OBVIOUS
<1> HIDE DEF S
<1> QED BY <1>2, <1>3, <1>4

\* A level without files is found empty.
LEMMA FoundEmpty ==
    ASSUME NEW disk \in Directory, \A s \in Stamps : disk[s] = NoFile
    PROVE  Found(disk) = <<>>
<1>1. /\ Found(disk) \in Seq(Stamps)
      /\ \A i \in DOMAIN Found(disk) : disk[Found(disk)[i]] # NoFile
  BY FoundProperties
<1>2. Len(Found(disk)) \in Nat /\ DOMAIN Found(disk) = 1..Len(Found(disk))
  BY <1>1, LenProperties
<1>3. ASSUME Len(Found(disk)) # 0 PROVE FALSE
  <2>1. 1 \in DOMAIN Found(disk)
    BY <1>2, <1>3
  <2>2. Found(disk)[1] \in Stamps
    BY <1>1, <1>2, <2>1, ElementOfSeq
  <2> QED BY <1>1, <2>1, <2>2
<1> QED BY <1>1, <1>3, EmptySeq

\* Reopening finds the files in the order in which they were written.
LEMMA OpenDict ==
    ASSUME EngineDictInv, TypeInv, open
    PROVE  DictInv'
<1>1. /\ proc = "down" /\ proc' = "up" /\ compactor' = "check"
      /\ l0' = Found(disk0) /\ l1' = Found(disk1)
      /\ UNCHANGED <<log, disk0, disk1, job, th, hist>>
  BY DEF open, discover_levels, walVars, fileVars
<1>2. /\ disk0 \in Directory /\ disk1 \in Directory /\ DictInv
      /\ \A c \in Clients : th[c].pc = "idle"
  BY <1>1 DEF EngineDictInv, TypeInv, ThreadsFit, LsmTypeOK, LevelTypeOK
<1>3. Recalled'
  BY <1>1, <1>2, RememberedFrame DEF DictInv
<1>4. l1' = <<>>
  BY <1>1, <1>2, FoundEmpty DEF DictInv, Uncompacted
<1>5. Uncompacted'
  BY <1>1, <1>2, <1>4 DEF DictInv, Uncompacted, Idle
<1>6. Chronological'
  <2>1. /\ \A i, j \in DOMAIN l0' : i < j => l0'[i] < l0'[j]
        /\ \A s \in Stamps : disk0[s] # NoFile => \E i \in DOMAIN l0' : l0'[i] = s
    BY <1>1, <1>2, FoundOrder
  <2> QED BY <1>1, <1>2, <2>1 DEF Chronological, FlushStages
<1> QED BY <1>3, <1>5, <1>6 DEF DictInv

LEMMA DictInitially == LsmInit => EngineDictInv
<1> SUFFICES ASSUME LsmInit PROVE EngineDictInv
  OBVIOUS
<1>1. /\ log = <<>> /\ hist = <<>> /\ proc = "down" /\ compactor = "exited"
      /\ l0 = <<>> /\ l1 = <<>> /\ job = NoJob /\ th = [c \in Clients |-> Resting]
      /\ \A s \in Stamps : disk0[s] = NoFile /\ disk1[s] = NoFile
  BY DEF LsmInit, WalInit, LevelInit
<1>2. Uncompacted /\ Chronological
  <2>1. \A c \in Clients : th[c].pc \notin FlushStages
    BY <1>1, RestingTyped DEF FlushStages
  <2> QED BY <1>1, <2>1 DEF Uncompacted, Chronological, Idle
<1>3. Recalled
  <2>1. Replayed = EmptyTable
    <3>1. replay(<<>>) = <<>>
      BY DEF replay, TornFrames
    <3> QED BY <1>1, <3>1, RebuildEmpty DEF Replayed
  <2>2. \A k \in Keys : LastRecord(k) = Absent /\ Newest(disk0, k) = Absent
    BY <1>1 DEF LastRecord, WritesOf, Newest, FilesWith
  <2> QED BY <2>1, <2>2 DEF Recalled, EmptyTable
<1> QED BY <1>1, <1>2, <1>3, LoggedInitially DEF EngineDictInv, DictInv

LEMMA DictStays ==
    ASSUME StrictClock, OneCaller
    PROVE  EngineDictInv /\ Calm /\ Calm' /\ [LsmNext]_lsmVars => EngineDictInv'
<1> SUFFICES ASSUME EngineDictInv, Calm, Calm', [LsmNext]_lsmVars PROVE EngineDictInv'
  OBVIOUS
<1>1. EngineLoggedInv' /\ TypeInv
  BY LoggedStays DEF EngineDictInv, EngineLoggedInv, EngineFilesInv, Calm
<1>2. faults = 0 /\ faults' = 0
  BY DEF Calm, Untroubled
<1>3. ASSUME NEW c \in Clients, BeginCall(c) \/ ContinueCall(c) PROVE DictInv'
  <2>1. Clients = {c}
    BY DEF OneCaller
  <2>2. ~io_error
    BY <1>2 DEF io_error
  <2>3. ASSUME NEW k \in Keys, set(c, k) \/ delete(c, k) PROVE DictInv'
    BY <2>1, <2>3, WriteDict DEF set, delete
  <2> QED
    BY <1>3, <2>1, <2>2, <2>3, CallDict, PathDict, FlushWriteDict, TruncateDict,
       AddDict
       DEF BeginCall, ContinueCall, write_wal_error, flush_error
<1>4. ASSUME CompactorNext PROVE DictInv'
  BY <1>4, CompactorDict DEF EngineDictInv
<1>5. ASSUME ProcessNext PROVE DictInv'
  <2>1. CASE open
    BY <1>1, <2>1, OpenDict
  <2>2. CASE drop
    <3>1. /\ UNCHANGED <<log, levelVars, th, hist, compactor>> /\ proc' = "closing"
          /\ \A c \in Clients : th[c].pc = "idle"
      BY <2>2 DEF drop, walVars
    <3>2. UNCHANGED <<disk0, disk1, l0, l1, job>>
      BY <3>1 DEF levelVars
    <3>3. Recalled' /\ Uncompacted'
      BY <3>1, <3>2, RememberedFrame DEF EngineDictInv, DictInv, Uncompacted, Idle
    <3>4. Chronological'
      BY <3>1, <3>2 DEF EngineDictInv, DictInv, Chronological, FlushStages
    <3> QED BY <3>1, <3>3, <3>4 DEF DictInv
  <2>3. CASE join \/ crash
    <3>1. Forget /\ Replayed' = Replayed
      BY <1>1, <2>3, EndReplayed DEF Calm
    <3> QED BY <3>1, ForgetDict DEF EngineDictInv
  <2> QED BY <1>5, <2>1, <2>2, <2>3 DEF ProcessNext
<1>6. ASSUME UNCHANGED lsmVars PROVE DictInv'
  <2>1. /\ UNCHANGED <<log, proc, th, hist, compactor>>
        /\ UNCHANGED <<disk0, disk1, l0, l1, job>>
    BY <1>6 DEF lsmVars, walVars, levelVars
  <2>2. Recalled'
    BY <2>1, RememberedFrame DEF EngineDictInv, DictInv
  <2> QED BY <2>1, <2>2 DEF EngineDictInv, DictInv, Uncompacted, Idle, Chronological
<1> QED BY <1>1, <1>3, <1>4, <1>5, <1>6 DEF LsmNext, EngineDictInv

\* What a caller sees of the last record is the value last written.
LEMMA LastWriteIs ==
    ASSUME TypeInv, NEW k \in Keys
    PROVE  LastWrite(k) = Answer(LastRecord(k))
<1> DEFINE m == Max(WritesOf(k))
<1>1. /\ hist \in Seq([key : Keys, tomb : BOOLEAN]) /\ Len(hist) \in Nat
      /\ DOMAIN hist = 1..Len(hist) /\ Len(hist) <= MaxWrites /\ MaxWrites \in Nat
  BY LenProperties, LsmAssumption DEF TypeInv, LsmTypeOK
<1>2. LastWrite(k) = IF WritesOf(k) = {} \/ hist[m].tomb THEN Absent ELSE Record(m, FALSE)
  BY DEF LastWrite, WritesOf
<1>3. LastRecord(k) = IF WritesOf(k) = {} THEN Absent ELSE Record(m, hist[m].tomb)
  BY DEF LastRecord
<1>4. CASE WritesOf(k) = {}
  BY <1>2, <1>3, <1>4, TablesAssumption DEF Answer, is_tombstone
<1>5. CASE WritesOf(k) # {}
  <2>1. m \in 1..Len(hist)
    <3>1. WritesOf(k) \subseteq 1..Len(hist)
      BY <1>1 DEF WritesOf
    <3> QED BY <1>1, <1>5, <3>1, MaxProperties
  <2>2. hist[m].tomb \in BOOLEAN /\ m \in 1..MaxWrites
    <3>1. hist[m] \in [key : Keys, tomb : BOOLEAN]
      BY <1>1, <2>1, ElementOfSeq
    <3> QED BY <1>1, <2>1, <3>1
  <2>3. /\ Record(m, hist[m].tomb) \in Values
        /\ Record(m, hist[m].tomb).tomb = hist[m].tomb
    BY <2>2, RecordTyped
  <2>4. is_tombstone(Record(m, hist[m].tomb)) <=> hist[m].tomb
    BY <2>2, <2>3, LsmAssumption DEF is_tombstone
  <2>5. ~hist[m].tomb => Record(m, hist[m].tomb) = Record(m, FALSE)
    BY <2>2
  <2> HIDE DEF m
  <2> QED BY <1>2, <1>3, <1>5, <2>4, <2>5 DEF Answer
<1> QED BY <1>4, <1>5

\* A miss in the MemTable is answered from the newest file with the key.
LEMMA SearchDict ==
    ASSUME EngineDictInv, NEW k \in Keys, proc = "up",
           \A c \in Clients : th[c].pc \notin {"truncate", "add"}
    PROVE  search_levels(k) = Newest(disk0, k)
<1>1. /\ disk0 \in Directory /\ l0 \in Seq(Stamps) /\ l1 = <<>>
      /\ \A i, j \in DOMAIN l0 : i < j => l0[i] < l0[j]
      /\ \A s \in Stamps : disk0[s] # NoFile => \E i \in DOMAIN l0 : l0[i] = s
      /\ \A i \in DOMAIN l0 : disk0[l0[i]] # NoFile
  BY DEF EngineDictInv, EngineLoggedInv, DictInv, Uncompacted, Chronological,
         EngineFilesInv, FilesInv, TypeInv, LsmTypeOK, LevelTypeOK
<1> DEFINE T == tables_of(disk0, Reverse(l0))
<1>2. T \in Seq(Table) /\ FirstRecord(T, k) = Newest(disk0, k)
  BY <1>1, SearchIsNewest
<1>3. L1Tables = <<>>
  BY <1>1 DEF L1Tables, tables_of
<1>4. T \o L1Tables = T
  <2> HIDE DEF T
  <2> QED BY <1>2, <1>3, ConcatEmptySeq
<1> QED BY <1>2, <1>4 DEF search_levels

\* What a kill and a reopen would bring back.
LEMMA RecoveredDict ==
    ASSUME EngineDictInv, Calm, NEW k \in Keys
    PROVE  Recovered(k) = LastWrite(k)
<1> DEFINE T == tables_of(disk0, Reverse(Found(disk0)))
           T1 == tables_of(disk1, Found(disk1))
<1>1. /\ disk0 \in Directory /\ disk1 \in Directory /\ TypeInv
      /\ \A s \in Stamps : disk1[s] = NoFile
      /\ LastRecord(k) = IF Replayed[k] # Absent THEN Replayed[k] ELSE Newest(disk0, k)
  BY DEF EngineDictInv, EngineLoggedInv, DictInv, Uncompacted, Recalled,
         EngineFilesInv, TypeInv,
         LsmTypeOK, LevelTypeOK
<1>2. Found(disk0) \in Seq(Stamps) /\ Found(disk1) = <<>>
  BY <1>1, FoundProperties, FoundEmpty
<1>3. T \in Seq(Table) /\ FirstRecord(T, k) = Newest(disk0, k)
  BY <1>1, <1>2, FoundOrder, SearchIsNewest
<1>4. T1 = <<>>
  BY <1>2 DEF tables_of
<1>5. Replayed \in Table
  BY <1>1, ReplayedTyped
<1> HIDE DEF T, T1
<1>6. <<Replayed>> \o T \in Seq(Table)
  <2>1. <<Replayed>> \in Seq(Table)
    BY <1>5
  <2> QED BY <1>3, <2>1, ConcatProperties
<1>7. (<<Replayed>> \o T) \o T1 = <<Replayed>> \o T
  BY <1>4, <1>6, ConcatEmptySeq
<1>8. FirstRecord(<<Replayed>> \o T, k) = LastRecord(k)
  BY <1>1, <1>3, <1>5, FirstRecordPrefix
<1>9. Recovered(k) = Answer(FirstRecord((<<Replayed>> \o T) \o T1, k))
  BY DEF Recovered, T, T1, Replayed
<1> QED BY <1>1, <1>7, <1>8, <1>9, LastWriteIs

\* The state before any call, as KVStore sees it, and each step: a write call
\* is a Put or a Remove, a get that returns a Get, any other step a stutter.
LEMMA KVInitially ==
    ASSUME LsmInit
    PROVE  KV!KVInit
<1>1. hist = <<>> /\ \A c \in Clients : got[c].value = Absent
  BY DEF LsmInit
<1>2. \A k \in Keys : LastWrite(k) = Absent
  BY <1>1 DEF LastWrite
<1> QED BY <1>1, <1>2 DEF KV!KVInit

LEMMA KVWrite ==
    ASSUME TypeInv, NEW c \in Clients, NEW k \in Keys, NEW d \in BOOLEAN,
           write_wal(c, k, d)
    PROVE  KV!KVNext
<1> DEFINE R == Record(Len(hist) + 1, FALSE)
           old == [q \in Keys |-> LastWrite(q)]
           new == [q \in Keys |-> LastWrite(q)']
<1>1. /\ Len(hist) + 1 \in 1..MaxWrites
      /\ LastWrite(k)' = IF d THEN Absent ELSE R
      /\ \A q \in Keys \ {k} : LastWrite(q)' = LastWrite(q)
  BY WriteLast
<1>2. R \in Values /\ R \notin Tombstones
  <2>1. R \in Values /\ R.tomb = FALSE
    BY <1>1, RecordTyped
  <2> QED BY <2>1, LsmAssumption
<1> HIDE DEF R
<1>3. new = [old EXCEPT ![k] = IF d THEN Absent ELSE R]
  BY <1>1
<1>4. [b \in Clients |-> got[b].value]' = [b \in Clients |-> got[b].value]
  BY DEF write_wal
<1>5. KV!Remove(k) \/ KV!Put(k, R)
  BY <1>3, <1>4 DEF KV!Remove, KV!Put
<1> QED BY <1>2, <1>5 DEF KV!KVNext

LEMMA KVGet ==
    ASSUME EngineDictInv, NEW c \in Clients, Clients = {c}, NEW k \in Keys,
           get(c, k) \/ (get_levels(c) /\ k = th[c].entry.key)
    PROVE  KV!KVNext \/ UNCHANGED KV!kvVars
<1> DEFINE old == [q \in Keys |-> LastWrite(q)]
<1>1. /\ hist' = hist /\ TypeInv /\ DictInv /\ proc = "up" /\ Replays(c)
      /\ got \in [Clients -> [key : Keys \cup {0}, seen : SUBSET (1..MaxWrites),
                              value : Values \cup {Absent, NoFile}]]
  BY DEF get, get_levels, At, EngineDictInv, EngineLoggedInv, LoggedInv, EngineFilesInv,
         TypeInv, LsmTypeOK
<1>2. [q \in Keys |-> LastWrite(q)]' = old
  BY <1>1 DEF LastWrite
<1>3. LastWrite(k) = Answer(LastRecord(k))
  BY <1>1, LastWriteIs
<1>4. LastRecord(k) = IF Replayed[k] # Absent THEN Replayed[k] ELSE Newest(disk0, k)
  BY <1>1 DEF DictInv, Recalled
<1>5. ASSUME NEW m, got' = [got EXCEPT ![c] = [key |-> k, seen |-> m,
                                              value |-> LastWrite(k)]]
      PROVE  KV!KVNext
  <2> DEFINE ans == [b \in Clients |-> got[b].value]
  <2>1. ans' = [ans EXCEPT ![c] = old[k]]
    BY <1>1, <1>5
  <2>2. KV!Get(c, k)
    BY <1>2, <2>1 DEF KV!Get
  <2> QED BY <2>2 DEF KV!KVNext
<1>6. CASE get(c, k)
  <2>1. th[c].pc = "idle"
    BY <1>6 DEF get, At
  <2>2. mem = Replayed
    BY <1>1, <2>1 DEF Replays
  <2>3. CASE mem[k] # Absent
    <3>1. got' = [got EXCEPT ![c] = [key |-> k, seen |-> acked, value |-> Answer(mem[k])]]
      BY <1>6, <2>3 DEF get
    <3> QED BY <1>3, <1>4, <1>5, <2>2, <2>3, <3>1
  <2>4. CASE mem[k] = Absent
    <3>1. got' = got
      BY <1>6, <2>4 DEF get
    <3>2. [b \in Clients |-> got[b].value]' = [b \in Clients |-> got[b].value]
      BY <3>1
    <3> QED BY <1>2, <3>2 DEF KV!kvVars
  <2> QED BY <2>3, <2>4
<1>7. CASE get_levels(c) /\ k = th[c].entry.key
  <2>1. th[c].pc = "levels" /\ \A b \in Clients : th[b].pc = "levels"
    BY <1>7 DEF get_levels, At
  <2>2. mem = Replayed /\ mem[k] = Absent
    BY <1>1, <1>7, <2>1 DEF Replays
  <2>3. search_levels(k) = Newest(disk0, k)
    BY <1>1, <2>1, SearchDict
  <2>4. got' = [got EXCEPT ![c] = [key |-> k, seen |-> th[c].seen,
                                   value |-> Answer(search_levels(k))]]
    BY <1>7 DEF get_levels
  <2> QED BY <1>3, <1>4, <1>5, <2>2, <2>3, <2>4
<1> QED BY <1>6, <1>7

LEMMA KVStep ==
    ASSUME OneCaller, EngineDictInv, [LsmNext]_lsmVars
    PROVE  KV!KVNext \/ UNCHANGED KV!kvVars
<1>1. ASSUME UNCHANGED <<hist, got>> PROVE UNCHANGED KV!kvVars
  <2>1. [q \in Keys |-> LastWrite(q)]' = [q \in Keys |-> LastWrite(q)]
    BY <1>1 DEF LastWrite
  <2>2. [b \in Clients |-> got[b].value]' = [b \in Clients |-> got[b].value]
    BY <1>1
  <2> QED BY <2>1, <2>2 DEF KV!kvVars
<1>2. TypeInv
  BY DEF EngineDictInv, EngineLoggedInv, EngineFilesInv
<1>3. ASSUME NEW c \in Clients, NEW k \in Keys, set(c, k) \/ delete(c, k)
      PROVE  KV!KVNext
  BY <1>2, <1>3, KVWrite DEF set, delete
<1>4. ASSUME NEW c \in Clients, NEW k \in Keys, get(c, k)
      PROVE  KV!KVNext \/ UNCHANGED KV!kvVars
  BY <1>4, KVGet DEF OneCaller
<1>5. ASSUME NEW c \in Clients, get_levels(c)
      PROVE  KV!KVNext \/ UNCHANGED KV!kvVars
  <2>1. th[c].entry.key \in Keys
    BY <1>2, <1>5 DEF get_levels, At, TypeInv, ThreadsFit
  <2> QED BY <1>5, <2>1, KVGet DEF OneCaller
<1>6. ASSUME NEW c \in Clients,
             write_wal_error(c) \/ (ContinueCall(c) /\ ~get_levels(c))
      PROVE  UNCHANGED KV!kvVars
  <2>1. UNCHANGED <<hist, got>>
    BY <1>6 DEF write_wal_error, ContinueCall, insert_mem, next_sstable_path, flush_swap,
                flush_write, flush_truncate, flush_error, flush_add
  <2> QED BY <1>1, <2>1
<1>7. ASSUME CompactorNext \/ ProcessNext \/ UNCHANGED lsmVars
      PROVE  UNCHANGED KV!kvVars
  <2>1. UNCHANGED <<hist, got>>
    BY <1>7 DEF CompactorNext, compactor_check, compactor_poll, compactor_begin,
                compactor_remove, compactor_install, Compactor, ProcessNext, open, drop,
                join, crash, Forget, lsmVars
  <2> QED BY <1>1, <2>1
<1> QED BY <1>3, <1>4, <1>5, <1>6, <1>7 DEF LsmNext, BeginCall

LEMMA DictHolds ==
    ASSUME StrictClock, OneCaller
    PROVE  LsmSpec /\ []Calm => []EngineDictInv
<1>1. EngineDictInv /\ Calm /\ Calm' /\ [LsmNext]_lsmVars => EngineDictInv'
  BY DictStays
<1> QED BY <1>1, DictInitially, PTL DEF LsmSpec

\* With one caller, as long as nothing is appended behind a torn entry, no I/O
\* call fails and L0 has not reached the threshold: flushes, kills and reopening included, the log
\* and the files give every key its last value back, at every moment.
THEOREM CalmIsRecoverable ==
    ASSUME StrictClock, OneCaller
    PROVE  LsmSpec /\ []Calm => []AlwaysRecoverable
<1>1. EngineDictInv /\ Calm => AlwaysRecoverable
  BY RecoveredDict DEF AlwaysRecoverable
<1> QED BY <1>1, DictHolds, PTL

\* So long the engine implements a key-value store, whatever flushes, kills and
\* reopenings its writes and gets have come between.
THEOREM CalmIsKVStore ==
    ASSUME StrictClock, OneCaller
    PROVE  LsmSpec /\ []Calm => ImplementsKVStore
<1>1. LsmInit => KV!KVInit
  BY KVInitially
<1>2. EngineDictInv /\ [LsmNext]_lsmVars => [KV!KVNext]_KV!kvVars
  BY KVStep
<1> QED BY <1>1, <1>2, DictHolds, PTL DEF LsmSpec, ImplementsKVStore, KV!KVSpec

-----------------------------------------------------------------------------
(***************************************************************************)
(* One caller that never deletes, with compaction: no key vanishes.        *)
(***************************************************************************)
NoDeletes == \A c \in Clients : \A x \in Calls[c] : x.op # "delete"

OnlySets == \A n \in DOMAIN hist : ~hist[n].tomb

\* The log, or a file that no compaction is about to remove, has a record of
\* every key written.
Covered ==
    \A n \in DOMAIN hist :
        Replayed[hist[n].key] # Absent \/ InFiles(hist[n].key, Live)

\* While calls are served a search reaches every file that no compaction is
\* about to remove, but for the file that a flush has yet to add.
Tracked ==
    proc = "up" => \A s \in Stamps :
        /\ disk0[s] # NoFile =>
              \/ s \in Listed0
              \/ \E c \in Clients : th[c].pc \in {"truncate", "add"} /\ th[c].path = s
        /\ disk1[s] # NoFile => s \in Accounted1

SeenInv == \A c \in Clients : th[c].seen \cup got[c].seen \subseteq DOMAIN hist

VanishInv == OnlySets /\ NoneEmpty /\ Covered /\ Tracked /\ SeenInv /\ SetsAreRead

EngineVanishInv == EngineLoggedInv /\ EngineRecordsInv /\ VanishInv

\* Without deletes every record is live.
LEMMA WrittenLive ==
    ASSUME TypeInv, OnlySets
    PROVE  \A k \in Keys : Written[k] \subseteq Live
<1>1. \A m \in DOMAIN hist : m \in 1..MaxWrites /\ hist[m].tomb = FALSE
  BY CallTyped DEF OnlySets
<1>2. ASSUME NEW k \in Keys, NEW r \in Written[k] PROVE r \in Live
  <2>1. PICK m \in DOMAIN hist : hist[m].key = k /\ r = Record(m, hist[m].tomb)
    BY DEF Written
  <2>2. m \in 1..MaxWrites /\ r = Record(m, FALSE)
    BY <1>1, <2>1
  <2> QED BY <2>2, RecordTyped, LsmAssumption DEF Live
<1> QED BY <1>2

\* So a caller sees every record as it is.
LEMMA LiveAnswer == \A v \in Live : Answer(v) = v /\ v \in Values /\ v # Absent
  BY TablesAssumption DEF Live, Answer, is_tombstone

LEMMA ReplayedWritten ==
    ASSUME EngineRecordsInv, NEW k \in Keys, Replayed[k] # Absent
    PROVE  Replayed[k] \in Written[k]
<1>1. PICK i \in DOMAIN log :
         log[i] # Torn /\ log[i].key = k /\ Replayed[k] = log[i].value
  BY RebuildProperties DEF EngineRecordsInv, TypeInv, LsmTypeOK, Replayed
<1> QED BY <1>1 DEF EngineRecordsInv, RecordsInv

\* Steps that leave the log, the files and the history alone.
LEMMA CoveredFrame ==
    ASSUME VanishInv, UNCHANGED <<log, disk0, disk1, job, hist>>
    PROVE  OnlySets' /\ NoneEmpty' /\ Covered'
<1>1. Replayed' = Replayed
  BY DEF Replayed
<1>2. \A k : InFiles(k, Live)' <=> InFiles(k, Live)
  BY DEF InFiles, Stays0, Stays1, Listed1, Live
<1> QED BY <1>1, <1>2 DEF VanishInv, OnlySets, NoneEmpty, Covered

LEMMA TrackedFrame ==
    ASSUME Tracked, NEW c \in Clients, Clients = {c},
           UNCHANGED <<disk0, disk1, l0, l1, job, proc>>,
           th[c].pc \in {"truncate", "add"} =>
              th'[c].pc \in {"truncate", "add"} /\ th'[c].path = th[c].path
    PROVE  Tracked'
<1>1. Listed0' = Listed0 /\ Accounted1' = Accounted1
  BY DEF Listed0, Listed1, Accounted1, Idle, ToInstall
<1> QED BY <1>1 DEF Tracked

LEMMA WriteVanish ==
    ASSUME EngineVanishInv, Untroubled', NEW c \in Clients, Clients = {c},
           NEW k \in Keys, write_wal(c, k, FALSE)
    PROVE  VanishInv'
<1> DEFINE n == Len(hist) + 1
<1>1. TypeInv /\ VanishInv /\ th \in [Clients -> Threads] /\ th[c] \in Threads
  BY DEF EngineVanishInv, EngineRecordsInv, TypeInv, LsmTypeOK
<1>2. /\ UNCHANGED <<disk0, disk1, l0, l1, job, proc, got>> /\ th[c].pc = "idle"
      /\ \E e : th' = [th EXCEPT ![c].pc = "insert", ![c].entry = e]
  BY DEF write_wal, levelVars, At
<1>3. /\ DOMAIN hist' = DOMAIN hist \cup {n} /\ hist'[n] = [key |-> k, tomb |-> FALSE]
      /\ \A m \in DOMAIN hist : hist'[m] = hist[m]
  BY <1>1, WriteHistory
<1>4. Replayed'[k] # Absent /\ \A q \in Keys \ {k} : Replayed'[q] = Replayed[q]
  <2>1. Record(n, FALSE) # Absent
    BY <1>1, NextRecord
  <2>2. /\ Replayed'[k] = Record(n, FALSE)
        /\ \A q \in Keys \ {k} : Replayed'[q] = Replayed[q]
    BY <1>1, WriteReplayed
  <2> QED BY <2>1, <2>2
<1>5. \A m \in DOMAIN hist : hist[m].key \in Keys
  BY <1>1, CallTyped
<1> HIDE DEF n
<1>6. Covered'
  <2>1. \A q : InFiles(q, Live)' <=> InFiles(q, Live)
    BY <1>2 DEF InFiles, Stays0, Stays1, Listed1, Live
  <2> QED BY <1>1, <1>3, <1>4, <1>5, <2>1 DEF VanishInv, Covered
<1>7. OnlySets' /\ NoneEmpty'
  BY <1>1, <1>2, <1>3 DEF VanishInv, OnlySets, NoneEmpty
<1>8. Tracked'
  BY <1>1, <1>2, TrackedFrame DEF VanishInv
<1>9. SeenInv'
  <2>1. th'[c].seen = th[c].seen
    BY <1>1, <1>2 DEF Threads
  <2> QED BY <1>1, <1>2, <1>3, <2>1 DEF VanishInv, SeenInv
<1>10. SetsAreRead'
  BY <1>1, <1>2, <1>3 DEF VanishInv, SeenInv, SetsAreRead
<1> QED BY <1>6, <1>7, <1>8, <1>9, <1>10 DEF VanishInv

\* A get that misses in the MemTable finds a record of a key that was written.
LEMMA SearchVanish ==
    ASSUME EngineVanishInv, NEW c \in Clients, Clients = {c}, get_levels(c),
           NEW n \in DOMAIN hist, hist[n].key = th[c].entry.key
    PROVE  search_levels(th[c].entry.key) \in Live
<1> DEFINE k == th[c].entry.key
<1>1. /\ th[c].pc = "levels" /\ proc = "up" /\ Idle /\ job.todo0 = <<>>
  BY JobProperties DEF get_levels, At, Idle
<1>2. /\ TypeInv /\ VanishInv /\ FilesInv /\ k \in Keys
      /\ disk0 \in Directory /\ disk1 \in Directory
      /\ l0 \in Seq(Stamps) /\ l1 \in Seq(Stamps)
  BY <1>1 DEF EngineVanishInv, EngineLoggedInv, EngineFilesInv, TypeInv, ThreadsFit,
              LsmTypeOK, LevelTypeOK
<1>3. Replayed[k] = Absent
  BY <1>1 DEF EngineVanishInv, EngineLoggedInv, LoggedInv, Replays
<1>4. InFiles(k, Live)
  BY <1>2, <1>3 DEF VanishInv, Covered
<1>5. PICK s \in Stamps : Stays0(s, k, Live) \/ Stays1(s, k, Live)
  BY <1>4 DEF InFiles
<1>6. \/ s \in ToSet(l0) /\ disk0[s][k] \in Live
      \/ s \in ToSet(l1) /\ disk1[s][k] \in Live
  BY <1>1, <1>2, <1>5
     DEF VanishInv, Tracked, Stays0, Stays1, Listed0, Accounted1, ToSet
<1>7. /\ \A p \in ToSet(l0) : p \in Stamps /\ disk0[p] # NoFile
      /\ \A p \in ToSet(l1) : p \in Stamps /\ disk1[p] # NoFile
  BY <1>2, LenProperties, ElementOfSeq DEF FilesInv, HaveFiles, ToSet
<1>8. Written[k] \subseteq Live
  BY <1>2, WrittenLive DEF VanishInv
<1>9. /\ \A p \in ToSet(l0) : disk0[p] # NoFile /\ disk0[p][k] \in Live \cup {Absent}
      /\ \A p \in ToSet(l1) : disk1[p] # NoFile /\ disk1[p][k] \in Live \cup {Absent}
  BY <1>2, <1>7, <1>8
     DEF EngineVanishInv, EngineRecordsInv, RecordsInv, FilesWithin, Within
<1>10. Live \in SUBSET Values
  BY DEF Live
<1> HIDE DEF k
<1>11. FirstRecord(tables_of(disk0, Reverse(l0)) \o tables_of(disk1, l1), k) \in Live
  BY <1>2, <1>6, <1>9, <1>10, SearchFinds
<1> QED BY <1>11 DEF search_levels, L1Tables, k

LEMMA GetVanish ==
    ASSUME EngineVanishInv, NEW c \in Clients, Clients = {c},
           (\E k \in Keys : get(c, k)) \/ get_levels(c)
    PROVE  VanishInv'
<1>1. /\ TypeInv /\ VanishInv /\ th \in [Clients -> Threads] /\ th[c] \in Threads
      /\ proc = "up" /\ acked \subseteq DOMAIN hist
      /\ DOMAIN got = Clients
      /\ UNCHANGED <<log, disk0, disk1, l0, l1, job, proc, hist>>
  BY DEF EngineVanishInv, EngineRecordsInv, TypeInv, LsmTypeOK, get, get_levels, At,
         walVars, levelVars
<1>2. OnlySets' /\ NoneEmpty' /\ Covered'
  BY <1>1, CoveredFrame
<1>3. ASSUME NEW k \in Keys, get(c, k) PROVE Tracked' /\ SeenInv' /\ SetsAreRead'
  <2>1. th[c].pc = "idle"
    BY <1>3 DEF get, At
  <2>2. CASE /\ mem[k] # Absent /\ UNCHANGED th
             /\ got' = [got EXCEPT ![c] =
                          [key |-> k, seen |-> acked, value |-> Answer(mem[k])]]
    <3>1. mem[k] \in Live
      <4>1. mem[k] \in Written[k]
        BY <2>2 DEF EngineVanishInv, EngineRecordsInv, RecordsInv, Within
      <4> QED BY <1>1, <4>1, WrittenLive DEF VanishInv
    <3>2. got'[c].seen = acked /\ got'[c].value \in Values
      BY <1>1, <2>2, <3>1, LiveAnswer
    <3>3. Tracked'
      BY <1>1, <2>2, TrackedFrame DEF VanishInv
    <3> QED BY <1>1, <2>2, <3>2, <3>3 DEF VanishInv, SeenInv, SetsAreRead
  <2>3. CASE /\ th' = [th EXCEPT ![c].pc = "levels", ![c].entry.key = k, ![c].seen = acked]
             /\ UNCHANGED got
    <3>1. th'[c].seen = acked
      BY <1>1, <2>3 DEF Threads
    <3>2. Tracked'
      BY <1>1, <2>1, TrackedFrame DEF VanishInv
    <3> QED BY <1>1, <2>3, <3>1, <3>2 DEF VanishInv, SeenInv, SetsAreRead
  <2> QED BY <1>3, <2>2, <2>3 DEF get
<1>4. ASSUME get_levels(c) PROVE Tracked' /\ SeenInv' /\ SetsAreRead'
  <2> DEFINE k == th[c].entry.key
             v == Answer(search_levels(k))
  <2>1. /\ th[c].pc = "levels" /\ th' = [th EXCEPT ![c] = Resting]
        /\ got' = [got EXCEPT ![c] = [key |-> k, seen |-> th[c].seen, value |-> v]]
    BY <1>4 DEF get_levels, At
  <2>2. \A n \in DOMAIN hist : hist[n].key = k => v \in Values
    BY <1>4, SearchVanish, LiveAnswer
  <2> HIDE DEF k, v
  <2>3. th'[c].seen = {} /\ th'[c].pc = "idle"
    BY <1>1, <2>1 DEF Resting
  <2>4. got'[c].seen = th[c].seen /\ got'[c].key = k /\ got'[c].value = v
    BY <1>1, <2>1
  <2>5. th[c].seen \subseteq DOMAIN hist
    BY <1>1 DEF VanishInv, SeenInv
  <2>6. Tracked'
    BY <1>1, <2>1, TrackedFrame DEF VanishInv
  <2>7. SeenInv'
    BY <1>1, <2>3, <2>4, <2>5 DEF SeenInv
  <2>8. SetsAreRead'
    BY <1>1, <2>2, <2>4, <2>5 DEF SetsAreRead
  <2> QED BY <2>6, <2>7, <2>8
<1> QED BY <1>2, <1>3, <1>4 DEF VanishInv

\* The steps of a call that leave the log, the files and the answers alone.
LEMMA CallVanish ==
    ASSUME EngineVanishInv, NEW c \in Clients, Clients = {c},
           insert_mem(c) \/ next_sstable_path(c) \/ flush_swap(c)
    PROVE  VanishInv'
<1>1. /\ VanishInv /\ th \in [Clients -> Threads] /\ th[c] \in Threads
      /\ UNCHANGED <<log, disk0, disk1, l0, l1, job, proc, hist, got>>
      /\ th[c].pc \in {"insert", "path", "swap"}
  BY DEF EngineVanishInv, EngineRecordsInv, TypeInv, LsmTypeOK, insert_mem,
         next_sstable_path, flush_swap, At, walVars, levelVars, fileVars
<1>2. th'[c].seen \in {th[c].seen, {}}
  <2>1. \/ th' = [th EXCEPT ![c] = Resting]
        \/ th' = [th EXCEPT ![c].pc = "path"]
        \/ \E s : th' = [th EXCEPT ![c].pc = "swap", ![c].path = s]
        \/ \E m : th' = [th EXCEPT ![c].pc = "write", ![c].old_mem = m]
    BY DEF insert_mem, next_sstable_path, flush_swap, Go, ReturnOk
  <2> QED BY <1>1, <2>1 DEF Threads, Resting
<1>3. OnlySets' /\ NoneEmpty' /\ Covered'
  BY <1>1, CoveredFrame
<1>4. Tracked'
  BY <1>1, TrackedFrame DEF VanishInv
<1> QED BY <1>1, <1>2, <1>3, <1>4 DEF VanishInv, SeenInv, SetsAreRead

\* A flush writes a file that has a record.
LEMMA FlushWriteVanish ==
    ASSUME EngineVanishInv, NEW c \in Clients, Clients = {c}, flush_write(c)
    PROVE  VanishInv'
<1> DEFINE p == th[c].path
           t == th[c].old_mem
<1>1. /\ th[c].pc = "write" /\ proc = "up" /\ disk0' = [disk0 EXCEPT ![p] = t]
      /\ th' = [th EXCEPT ![c].pc = "truncate", ![c].old_mem = EmptyTable]
      /\ UNCHANGED <<log, disk1, l0, l1, job, proc, hist, got>>
  BY DEF flush_write, At, walVars
<1>2. /\ th[c] \in Threads /\ th \in [Clients -> Threads] /\ VanishInv
      /\ disk0 \in Directory /\ p \in Stamps /\ disk0[p] = NoFile
  BY <1>1 DEF EngineVanishInv, EngineLoggedInv, EngineFilesInv, FlushInv, TypeInv,
              ThreadsFit, LsmTypeOK, LevelTypeOK, FlushStages
<1>3. /\ th'[c].pc = "truncate" /\ th'[c].path = p /\ th'[c].seen = th[c].seen
  BY <1>1, <1>2 DEF Threads
<1>4. Present(t) # {}
  BY <1>1 DEF EngineVanishInv, EngineLoggedInv, LoggedInv, Replays
<1> HIDE DEF p, t
<1>5. disk0'[p] = t /\ \A s \in Stamps \ {p} : disk0'[s] = disk0[s]
  BY <1>1, <1>2 DEF Directory
<1>6. NoneEmpty'
  BY <1>1, <1>2, <1>4, <1>5 DEF VanishInv, NoneEmpty
<1>7. Covered'
  <2>1. Replayed' = Replayed
    BY <1>1 DEF Replayed
  <2>2. \A k : InFiles(k, Live) => InFiles(k, Live)'
    BY <1>1, <1>2, <1>5 DEF InFiles, Stays0, Stays1, Listed1, Live
  <2> QED BY <1>1, <1>2, <2>1, <2>2 DEF VanishInv, Covered
<1>8. Tracked'
  <2>1. Listed0' = Listed0 /\ Accounted1' = Accounted1
    BY <1>1 DEF Listed0, Listed1, Accounted1, Idle, ToInstall
  <2>2. \A s \in Stamps : disk0'[s] # NoFile => s = p \/ s \in Listed0
    BY <1>1, <1>2, <1>5 DEF VanishInv, Tracked
  <2> QED BY <1>1, <1>2, <1>3, <2>1, <2>2 DEF VanishInv, Tracked
<1> QED BY <1>1, <1>2, <1>3, <1>6, <1>7, <1>8
        DEF VanishInv, OnlySets, SeenInv, SetsAreRead

\* When the log goes, the file of the flush has its records.
LEMMA TruncateVanish ==
    ASSUME EngineVanishInv, NEW c \in Clients, Clients = {c}, flush_truncate(c)
    PROVE  VanishInv'
<1> DEFINE p == th[c].path
<1>1. /\ th[c].pc = "truncate" /\ proc = "up"
      /\ th' = [th EXCEPT ![c].pc = "add"]
      /\ UNCHANGED <<disk0, disk1, l0, l1, job, proc, hist, got>>
  BY DEF flush_truncate, At, Go, levelVars
<1>2. /\ th[c] \in Threads /\ th \in [Clients -> Threads] /\ VanishInv /\ TypeInv
      /\ p \in Stamps /\ disk0[p] # NoFile /\ p \notin Listed0 /\ disk0[p] = Replayed
  BY <1>1 DEF EngineVanishInv, EngineLoggedInv, EngineFilesInv, LoggedInv, Replays,
              FlushInv, TypeInv, ThreadsFit, LsmTypeOK, FlushStages
<1>3. th'[c].pc = "add" /\ th'[c].path = p /\ th'[c].seen = th[c].seen
  BY <1>1, <1>2 DEF Threads
<1> HIDE DEF p
<1>4. Covered'
  <2>1. ASSUME NEW k \in Keys, Replayed[k] # Absent PROVE InFiles(k, Live)
    <3>1. disk0[p][k] \in Live
      BY <1>2, <2>1, ReplayedWritten, WrittenLive DEF EngineVanishInv, VanishInv
    <3> QED BY <1>2, <3>1 DEF InFiles, Stays0, Listed0
  <2>2. \A n \in DOMAIN hist : hist[n].key \in Keys
    BY <1>2, CallTyped
  <2>3. \A n \in DOMAIN hist : InFiles(hist[n].key, Live)
    BY <1>2, <2>1, <2>2 DEF VanishInv, Covered
  <2>4. \A k : InFiles(k, Live) => InFiles(k, Live)'
    BY <1>1 DEF InFiles, Stays0, Stays1, Listed1, Live
  <2> QED BY <1>1, <2>3, <2>4 DEF Covered
<1>5. Tracked'
  BY <1>1, <1>2, <1>3, TrackedFrame DEF VanishInv, p
<1> QED BY <1>1, <1>2, <1>3, <1>4, <1>5
        DEF VanishInv, OnlySets, NoneEmpty, SeenInv, SetsAreRead

LEMMA AddVanish ==
    ASSUME EngineVanishInv, NEW c \in Clients, Clients = {c}, flush_add(c)
    PROVE  VanishInv'
<1> DEFINE p == th[c].path
<1>1. /\ th[c].pc = "add" /\ proc = "up" /\ l0' = Append(l0, p)
      /\ th' = [th EXCEPT ![c] = Resting]
      /\ UNCHANGED <<log, disk0, disk1, l1, job, proc, hist, got>>
  BY DEF flush_add, At, add_l0_file, ReturnOk, walVars
<1>2. /\ th \in [Clients -> Threads] /\ VanishInv /\ l0 \in Seq(Stamps) /\ p \in Stamps
  BY <1>1 DEF EngineVanishInv, EngineLoggedInv, EngineFilesInv, TypeInv, ThreadsFit,
              LsmTypeOK, LevelTypeOK, FlushStages
<1>3. th'[c].seen = {}
  BY <1>1, <1>2 DEF Resting
<1>4. OnlySets' /\ NoneEmpty' /\ Covered'
  BY <1>1, <1>2, CoveredFrame
<1>5. Listed0 \cup {p} \subseteq Listed0' /\ Accounted1' = Accounted1
  <2>1. /\ l0' \in Seq(Stamps) /\ Len(l0') = Len(l0) + 1
        /\ l0'[Len(l0) + 1] = p /\ \A i \in 1..Len(l0) : l0'[i] = l0[i]
    BY <1>1, <1>2, AppendProperties
  <2>2. /\ DOMAIN l0 = 1..Len(l0) /\ Len(l0) \in Nat /\ DOMAIN l0' = 1 .. Len(l0) + 1
    BY <1>2, <2>1, LenProperties
  <2>3. \A i \in DOMAIN l0 : i \in DOMAIN l0' /\ l0'[i] = l0[i]
    BY <2>1, <2>2
  <2>4. Len(l0) + 1 \in DOMAIN l0'
    BY <2>2
  <2>5. Accounted1' = Accounted1
    BY <1>1 DEF Listed1, Accounted1, Idle, ToInstall
  <2> QED BY <1>1, <2>1, <2>3, <2>4, <2>5 DEF Listed0
<1>6. Tracked'
  <2>1. \A s \in Stamps : disk0[s] # NoFile => s = p \/ s \in Listed0
    BY <1>1, <1>2 DEF VanishInv, Tracked
  <2> QED BY <1>1, <1>2, <1>5, <2>1 DEF VanishInv, Tracked
<1> QED BY <1>1, <1>2, <1>3, <1>4, <1>6 DEF VanishInv, SeenInv, SetsAreRead

LEMMA CompactorVanish ==
    ASSUME StrictClock, EngineVanishInv, Untroubled, Untroubled', CompactorNext
    PROVE  VanishInv'
<1>1. /\ UNCHANGED <<log, proc, th, hist, got>> /\ VanishInv
      /\ TypeInv /\ FilesInv /\ Dated /\ FilesWithin(Written)
      /\ faults = 0 /\ faults' = 0
  BY DEF CompactorNext, compactor_check, compactor_poll, compactor_begin,
         compactor_remove, compactor_install, Compactor, walVars, EngineVanishInv,
         EngineLoggedInv, EngineFilesInv, EngineRecordsInv, RecordsInv, Untroubled
<1>2. UNCHANGED levelVars \/ compact_begin \/ compact_end
  BY DEF CompactorNext, compactor_check, compactor_poll, compactor_begin,
         compactor_remove, compactor_install, compact_begin, compact_end
<1>3. OnlySets' /\ SeenInv' /\ SetsAreRead'
  BY <1>1 DEF VanishInv, OnlySets, SeenInv, SetsAreRead
<1>4. CASE UNCHANGED levelVars
  <2>1. UNCHANGED <<disk0, disk1, l0, l1, job>>
    BY <1>4 DEF levelVars
  <2>2. NoneEmpty' /\ Covered'
    BY <1>1, <2>1, CoveredFrame
  <2>3. Listed0' = Listed0 /\ Accounted1' = Accounted1
    BY <2>1 DEF Listed0, Listed1, Accounted1, Idle, ToInstall
  <2>4. Tracked'
    BY <1>1, <2>1, <2>3 DEF VanishInv, Tracked
  <2> QED BY <1>3, <2>2, <2>4 DEF VanishInv
<1>5. CASE compact_begin \/ compact_end
  <2>1. ~compact_merge_short
    BY <1>1 DEF compact_merge_short, short_scan
  <2>2. \A k \in Keys : Written[k] \subseteq Live
    BY <1>1, WrittenLive DEF VanishInv
  <2>3. NoneEmpty'
    BY <1>1, <1>5, <2>2, CompactNoneEmpty DEF VanishInv
  <2>4. Covered'
    <3>1. ASSUME NEW k \in Keys, InFiles(k, Live) PROVE InFiles(k, Live)'
      <4>1. Live \in SUBSET (Values \ Tombstones) /\ Live' = Live
        BY DEF Live
      <4>2. Written[k] \subseteq Live
        BY <2>2
      <4> HIDE DEF Live
      <4>3. InFiles(k, Live)'
        BY <1>1, <1>5, <2>1, <3>1, <4>1, <4>2, CompactKeepsRecord
      <4> QED BY <4>3
    <3>2. Replayed' = Replayed
      BY <1>1 DEF Replayed
    <3>3. \A n \in DOMAIN hist : hist[n].key \in Keys
      BY <1>1, CallTyped
    <3> QED BY <1>1, <3>1, <3>2, <3>3 DEF VanishInv, Covered
  <2>5. Tracked'
    <3> SUFFICES ASSUME proc = "up" PROVE Tracked'
      BY <1>1 DEF Tracked
    <3>1. \A s \in Stamps : disk1[s] # NoFile => s \in Accounted1
      BY <1>1 DEF VanishInv, Tracked
    <3>2. /\ \A s \in Stamps : disk0'[s] # NoFile /\ s \in Listed0 => s \in Listed0'
          /\ \A s \in Stamps : disk1'[s] # NoFile => s \in Accounted1'
      BY <1>1, <1>5, <3>1, CompactAccounts DEF VanishInv
    <3>3. \A s \in Stamps : disk0'[s] # NoFile => disk0[s] # NoFile
      BY <1>1, <1>5, CompactOnL0 DEF FilesInv
    <3> QED BY <1>1, <3>2, <3>3 DEF VanishInv, Tracked
  <2> QED BY <1>3, <2>3, <2>4, <2>5 DEF VanishInv
<1> QED BY <1>2, <1>4, <1>5

\* Reopening tracks every file.
LEMMA OpenVanish ==
    ASSUME EngineVanishInv, open
    PROVE  VanishInv'
<1>1. /\ proc = "down" /\ l0' = Found(disk0) /\ l1' = Found(disk1)
      /\ UNCHANGED <<log, disk0, disk1, job, th, hist, got>>
  BY DEF open, discover_levels, walVars, fileVars
<1>2. VanishInv /\ disk0 \in Directory /\ disk1 \in Directory /\ Idle
  BY <1>1 DEF EngineVanishInv, EngineRecordsInv, TypeInv, LsmTypeOK, LevelTypeOK
<1>3. OnlySets' /\ NoneEmpty' /\ Covered'
  BY <1>1, <1>2, CoveredFrame
<1>4. Tracked'
  <2>1. /\ \A s \in Stamps : disk0[s] # NoFile => \E i \in DOMAIN l0' : l0'[i] = s
        /\ \A s \in Stamps : disk1[s] # NoFile => \E i \in DOMAIN l1' : l1'[i] = s
    BY <1>1, <1>2, FoundOrder
  <2>2. Idle'
    BY <1>1, <1>2 DEF Idle
  <2> QED BY <1>1, <2>1, <2>2 DEF Tracked, Listed0, Accounted1, ToSet
<1> QED BY <1>1, <1>2, <1>3, <1>4 DEF VanishInv, SeenInv, SetsAreRead

\* A process that ends forgets what a compaction was about to remove.
LEMMA ForgetVanish ==
    ASSUME EngineVanishInv, Forget, Replayed' = Replayed
    PROVE  VanishInv'
<1>1. /\ proc' = "down" /\ job' = NoJob /\ th' = [c \in Clients |-> Resting]
      /\ UNCHANGED <<disk0, disk1, hist, got>> /\ VanishInv
  BY DEF Forget, fileVars, EngineVanishInv
<1>2. Covered'
  <2>1. Replayed' = Replayed
    OBVIOUS
  <2>2. job'.todo0 = <<>> /\ job'.todo1 = <<>>
    BY <1>1, JobProperties
  <2>3. \A k : InFiles(k, Live) => InFiles(k, Live)'
    BY <1>1, <2>2 DEF InFiles, Stays0, Stays1, Listed1, Live
  <2> QED BY <1>1, <2>1, <2>3 DEF VanishInv, Covered
<1>3. SeenInv'
  <2>1. \A c \in Clients : th'[c].seen = {}
    BY <1>1 DEF Resting
  <2> QED BY <1>1, <2>1 DEF VanishInv, SeenInv
<1> QED BY <1>1, <1>2, <1>3 DEF VanishInv, OnlySets, NoneEmpty, Tracked, SetsAreRead

LEMMA VanishInitially == LsmInit => EngineVanishInv
<1> SUFFICES ASSUME LsmInit PROVE EngineVanishInv
  OBVIOUS
<1>1. /\ hist = <<>> /\ proc = "down" /\ th = [c \in Clients |-> Resting]
      /\ \A s \in Stamps : disk0[s] = NoFile /\ disk1[s] = NoFile
      /\ got = [c \in Clients |-> [key |-> 0, seen |-> {}, value |-> Absent]]
  BY DEF LsmInit, LevelInit
<1>2. SeenInv /\ SetsAreRead
  BY <1>1 DEF SeenInv, SetsAreRead, Resting
<1> QED BY <1>1, <1>2, LoggedInitially, RecordsInitially
        DEF EngineVanishInv, VanishInv, OnlySets, NoneEmpty, Covered, Tracked

LEMMA VanishStays ==
    ASSUME StrictClock, OneCaller, NoDeletes
    PROVE  EngineVanishInv /\ Untroubled /\ Untroubled' /\ [LsmNext]_lsmVars =>
              EngineVanishInv'
<1> SUFFICES ASSUME EngineVanishInv, Untroubled, Untroubled', [LsmNext]_lsmVars
             PROVE  EngineVanishInv'
  OBVIOUS
<1>1. EngineLoggedInv' /\ EngineRecordsInv' /\ TypeInv
  BY LoggedStays, RecordsStay DEF EngineVanishInv, EngineRecordsInv
<1>2. faults = 0 /\ faults' = 0
  BY DEF Untroubled
<1>3. ASSUME NEW c \in Clients, BeginCall(c) \/ ContinueCall(c) PROVE VanishInv'
  <2>1. Clients = {c}
    BY DEF OneCaller
  <2>2. ~io_error
    BY <1>2 DEF io_error
  <2>3. ASSUME NEW k \in Keys, set(c, k) PROVE VanishInv'
    BY <2>1, <2>3, WriteVanish DEF set
  <2>4. \A k \in Keys : ~delete(c, k)
    BY DEF delete, NoDeletes
  <2> QED
    BY <1>3, <2>1, <2>2, <2>3, <2>4, GetVanish, CallVanish, FlushWriteVanish,
       TruncateVanish, AddVanish
       DEF BeginCall, ContinueCall, write_wal_error, flush_error
<1>4. ASSUME CompactorNext PROVE VanishInv'
  BY <1>4, CompactorVanish
<1>5. ASSUME ProcessNext PROVE VanishInv'
  <2>1. CASE open
    BY <2>1, OpenVanish
  <2>2. CASE drop
    <3>1. /\ UNCHANGED <<log, levelVars, th, hist, got>> /\ proc' = "closing"
      BY <2>2 DEF drop, walVars
    <3>2. UNCHANGED <<disk0, disk1, l0, l1, job>>
      BY <3>1 DEF levelVars
    <3>3. OnlySets' /\ NoneEmpty' /\ Covered'
      BY <3>1, <3>2, CoveredFrame DEF EngineVanishInv
    <3> QED BY <3>1, <3>3 DEF EngineVanishInv, VanishInv, Tracked, SeenInv, SetsAreRead
  <2>3. CASE join \/ crash
    <3>1. Forget /\ Replayed' = Replayed
      BY <1>1, <2>3, EndReplayed
    <3> QED BY <3>1, ForgetVanish
  <2> QED BY <1>5, <2>1, <2>2, <2>3 DEF ProcessNext
<1>6. ASSUME UNCHANGED lsmVars PROVE VanishInv'
  <2>1. /\ UNCHANGED <<log, proc, th, hist, got>>
        /\ UNCHANGED <<disk0, disk1, l0, l1, job>>
    BY <1>6 DEF lsmVars, walVars, levelVars
  <2>2. OnlySets' /\ NoneEmpty' /\ Covered'
    BY <2>1, CoveredFrame DEF EngineVanishInv
  <2>3. Listed0' = Listed0 /\ Accounted1' = Accounted1
    BY <2>1 DEF Listed0, Listed1, Accounted1, Idle, ToInstall
  <2> QED BY <2>1, <2>2, <2>3 DEF EngineVanishInv, VanishInv, Tracked, SeenInv, SetsAreRead
<1> QED BY <1>1, <1>3, <1>4, <1>5, <1>6 DEF LsmNext, EngineVanishInv

\* What a kill and a reopen would bring back of a key that was written.
LEMMA RecoveredLive ==
    ASSUME EngineVanishInv, NEW n \in DOMAIN hist
    PROVE  Recovered(hist[n].key) \in Values
<1> DEFINE k == hist[n].key
           p0 == Found(disk0)
           p1 == Found(disk1)
           T0 == tables_of(disk0, Reverse(p0))
           T1 == tables_of(disk1, p1)
<1>1. /\ TypeInv /\ VanishInv /\ disk0 \in Directory /\ disk1 \in Directory
      /\ hist \in Seq([key : Keys, tomb : BOOLEAN]) /\ log \in Seq(Frames)
  BY DEF EngineVanishInv, EngineRecordsInv, TypeInv, LsmTypeOK, LevelTypeOK
<1>2. k \in Keys
  BY <1>1, CallTyped
<1>3. Written[k] \subseteq Live /\ Live \in SUBSET Values
  BY <1>1, <1>2, WrittenLive DEF VanishInv, Live
<1>4. /\ p0 \in Seq(Stamps) /\ p1 \in Seq(Stamps)
      /\ \A s \in Stamps : disk0[s] # NoFile <=> s \in ToSet(p0)
      /\ \A s \in Stamps : disk1[s] # NoFile <=> s \in ToSet(p1)
  BY <1>1, FoundProperties, FoundOrder DEF ToSet
<1>5. ToSet(p0) \subseteq Stamps /\ ToSet(p1) \subseteq Stamps
  BY <1>4, LenProperties, ElementOfSeq DEF ToSet
<1> HIDE DEF k, p0, p1
<1>6. /\ \A s \in ToSet(p0) : disk0[s] # NoFile /\ disk0[s][k] \in Live \cup {Absent}
      /\ \A s \in ToSet(p1) : disk1[s] # NoFile /\ disk1[s][k] \in Live \cup {Absent}
  BY <1>2, <1>3, <1>4, <1>5
     DEF EngineVanishInv, EngineRecordsInv, RecordsInv, FilesWithin, Within
<1>7. /\ T0 \in Seq(Table) /\ T1 \in Seq(Table)
      /\ \/ \E s \in ToSet(p0) : disk0[s][k] \in Live
         \/ \E s \in ToSet(p1) : disk1[s][k] \in Live
         => FirstRecord(T0 \o T1, k) \in Live
  BY <1>1, <1>2, <1>3, <1>4, <1>6, SearchFinds
<1> HIDE DEF T0, T1
<1>8. Replayed \in Table
  BY <1>1, RebuildProperties DEF Replayed
<1>9. <<Replayed>> \in Seq(Table) /\ T0 \o T1 \in Seq(Table)
  BY <1>7, <1>8, ConcatProperties
<1>10. (<<Replayed>> \o T0) \o T1 = <<Replayed>> \o (T0 \o T1)
  BY <1>7, <1>9, ConcatAssociative
<1>11. FirstRecord((<<Replayed>> \o T0) \o T1, k) \in Live
  <2>1. FirstRecord((<<Replayed>> \o T0) \o T1, k) =
           IF Replayed[k] # Absent THEN Replayed[k] ELSE FirstRecord(T0 \o T1, k)
    BY <1>2, <1>8, <1>9, <1>10, FirstRecordPrefix
  <2>2. CASE Replayed[k] # Absent
    BY <1>2, <1>3, <2>1, <2>2, ReplayedWritten DEF EngineVanishInv
  <2>3. CASE Replayed[k] = Absent
    <3>1. InFiles(k, Live)
      BY <1>1, <2>3 DEF VanishInv, Covered, k
    <3>2. \/ \E s \in ToSet(p0) : disk0[s][k] \in Live
          \/ \E s \in ToSet(p1) : disk1[s][k] \in Live
      BY <1>4, <3>1 DEF InFiles, Stays0, Stays1
    <3> QED BY <1>7, <2>1, <2>3, <3>2
  <2> QED BY <2>2, <2>3
<1>12. Recovered(k) = Answer(FirstRecord((<<Replayed>> \o T0) \o T1, k))
  BY DEF Recovered, T0, T1, p0, p1, Replayed
<1>13. Recovered(k) \in Values
  BY <1>11, <1>12, LiveAnswer
<1> QED BY <1>13 DEF k

\* The invariant has what KeysNeverVanish of LsmFreshness asks for.
LEMMA VanishHolds ==
    ASSUME EngineVanishInv
    PROVE  AckedSurvivesKill /\ SetsAreRead
<1>1. acked \subseteq DOMAIN hist
  BY DEF EngineVanishInv, EngineRecordsInv, TypeInv, LsmTypeOK
<1> QED BY <1>1, RecoveredLive DEF AckedSurvivesKill, EngineVanishInv, VanishInv
=============================================================================
