----------------------------- MODULE FreshProofs -----------------------------
(***************************************************************************)
(* The theorems about LsmFreshness, for every number of client threads,    *)
(* every set of calls and every value of its bounds: what a kill and a     *)
(* reopen bring back is fresh, and what a get answers is.                  *)
(***************************************************************************)
EXTENDS LsmFreshness, LsmProofs

-----------------------------------------------------------------------------
(***************************************************************************)
(* Freshness, of the calls h that began after the calls in b were over.    *)
(***************************************************************************)

\* No call in M has overtaken the n-th.
Current(h, b, n, M) == \A m \in M : h[m].key = h[n].key => n \notin b[m]

\* The answer a to a read of k is fresh if the calls in M had returned.
FreshIn(h, b, k, a, M) ==
    \/ \E n \in DOMAIN h : /\ h[n].key = k /\ Current(h, b, n, M)
                           /\ a = Answer(Record(n, h[n].tomb))
    \/ a = Absent /\ \A m \in M : h[m].key # k

FreshTable(h, b, t, M) ==
    \A k \in Keys : t[k] # Absent => Current(h, b, t[k].ver, M)

\* h1 and b1 go on from h and b.
GoesOn(h, b, h1, b1) ==
    DOMAIN h \subseteq DOMAIN h1 /\ \A n \in DOMAIN h : h1[n] = h[n] /\ b1[n] = b[n]

\* An answer to a read of k stays fresh as more calls begin, if no other call
\* on k returns.
LEMMA StaysFresh ==
    ASSUME NEW h, NEW b, NEW h1, NEW b1, GoesOn(h, b, h1, b1), NEW k,
           NEW M \in SUBSET DOMAIN h, NEW N \in SUBSET DOMAIN h,
           \A m \in N : h[m].key = k => m \in M
    PROVE  /\ \A n \in DOMAIN h :
                 h[n].key = k /\ Current(h, b, n, M) => Current(h1, b1, n, N)
           /\ \A a : FreshIn(h, b, k, a, M) => FreshIn(h1, b1, k, a, N)
<1>1. ASSUME NEW n \in DOMAIN h, h[n].key = k, Current(h, b, n, M)
      PROVE  Current(h1, b1, n, N)
  BY <1>1 DEF Current, GoesOn
<1>2. ASSUME NEW a, FreshIn(h, b, k, a, M)
      PROVE  FreshIn(h1, b1, k, a, N)
  <2>1. CASE a = Absent /\ \A m \in M : h[m].key # k
    BY <2>1 DEF FreshIn, GoesOn
  <2>2. CASE \E n \in DOMAIN h : /\ h[n].key = k /\ Current(h, b, n, M)
                                 /\ a = Answer(Record(n, h[n].tomb))
    <3>1. PICK n \in DOMAIN h : /\ h[n].key = k /\ Current(h, b, n, M)
                                /\ a = Answer(Record(n, h[n].tomb))
      BY <2>2
    <3>2. Current(h1, b1, n, N) /\ n \in DOMAIN h1 /\ h1[n] = h[n]
      BY <1>1, <3>1 DEF GoesOn
    <3> QED BY <3>1, <3>2 DEF FreshIn
  <2> QED BY <1>2, <2>1, <2>2 DEF FreshIn
<1> QED BY <1>1, <1>2

\* It is one of the answers that the property allows.
LEMMA FreshAnswer ==
    ASSUME NEW k, NEW a, NEW M, FreshIn(hist, before, k, a, M)
    PROVE  a \in FreshAnswers(k, M)
<1>1. CASE a = Absent /\ \A m \in M : hist[m].key # k
  BY <1>1 DEF FreshAnswers
<1>2. ASSUME NEW n \in DOMAIN hist, hist[n].key = k, Current(hist, before, n, M),
             a = Answer(Record(n, hist[n].tomb))
      PROVE  a \in FreshAnswers(k, M)
  <2>1. ~Overtaken(n, M)
    BY <1>2 DEF Overtaken, Current
  <2>2. n \in {i \in DOMAIN hist : hist[i].key = k /\ ~Overtaken(i, M)}
    BY <1>2, <2>1
  <2> QED BY <1>2, <2>2 DEF FreshAnswers
<1> QED BY <1>1, <1>2 DEF FreshIn

-----------------------------------------------------------------------------
(***************************************************************************)
(* The invariant.                                                          *)
(***************************************************************************)

\* A write call under way; one whose record has been in the MemTable; one that
\* holds the WAL mutex and has what it flushes in its hands or in its file.
Busy(c) == th[c].pc \notin {"idle", "levels"}
Inserted(c) == th[c].pc \in {"path", "swap", "write", "truncate", "add"}
Holds(c) == th[c].pc \in {"write", "truncate"}

Call(c) == th[c].entry.value.ver
Flight(c) == IF th[c].pc = "write" THEN th[c].old_mem ELSE disk0[th[c].path]

\* The calls that must not be lost: those acknowledged, and those that will be
\* unless their flush fails.
Due == acked \cup {Call(c) : c \in {d \in Clients : Inserted(d)}}

\* The calls up to this one have left the log.
Settled == Len(hist) - Len(replay(log))

\* A call is over before only later ones begin, and not as long as it is under
\* way; one flush at a time holds the WAL mutex.
CallInv ==
    /\ before \in Seq(SUBSET Nat) /\ Len(before) = Len(hist)
    /\ \A m \in DOMAIN hist : \A n \in before[m] : n < m
    /\ \A c \in Clients : Busy(c) => \A m \in DOMAIN hist : Call(c) \notin before[m]
    /\ \A c, d \in Clients : Holds(c) /\ Holds(d) => c = d

\* The log holds the last calls in their order, up to a torn end, among them
\* those that are not in the MemTable yet.
LogOrdered ==
    /\ TornFrames(log) \subseteq {Len(log)}
    /\ Settled >= 0
    /\ \A i \in DOMAIN replay(log) :
          /\ replay(log)[i].key = hist[Settled + i].key
          /\ replay(log)[i].value = Record(Settled + i, hist[Settled + i].tomb)
    /\ \A c \in Clients : th[c].pc = "insert" => Call(c) > Settled

\* While a flush holds the WAL mutex nothing is between the log and the
\* MemTable, nor in the MemTable, and its file is named last.
Quiet ==
    \A c \in Clients : Holds(c) =>
        /\ mem = EmptyTable /\ \A d \in Clients : th[d].pc # "insert"
        /\ \A s \in Stamps \ {th[c].path} : disk0[s] # NoFile => s < th[c].path

\* What is in memory is not overtaken.
MemFresh ==
    /\ FreshTable(hist, before, mem, Due)
    /\ \A c \in Clients : Holds(c) => FreshTable(hist, before, Flight(c), Due)

\* The keys of the calls due in the log are in memory, or in the file of the
\* flush that is about to truncate it.
Caught ==
    proc # "down" /\ "dropped" \notin mishaps =>
        \A m \in Due : m > Settled =>
            \/ mem[hist[m].key] # Absent
            \/ \E c \in Clients : Holds(c) /\ Flight(c)[hist[m].key] # Absent

\* The files of a level without those that a compaction is to remove; the L1
\* files are those tracked, or about to be.
L0Left == {s \in Stamps : disk0[s] # NoFile} \ ToSet(job.todo0)
L1Left == {s \in Stamps : disk1[s] # NoFile} \ ToSet(job.todo1)

L1Known == proc # "down" => L1Left = ToSet(IF Idle THEN l1 ELSE ToInstall)

\* v is the record of k in the last of the files in S that has one.
LastOf(disk, S, k, v) ==
    v # Absent /\ \E s \in S : /\ disk[s][k] = v
                               /\ \A t \in S : t > s => disk[t][k] = Absent

\* v is what reopening finds of k in the files.
DiskHolds(k, v) ==
    \/ LastOf(disk0, L0Left, k, v)
    \/ (\A s \in L0Left : disk0[s][k] = Absent) /\ OneRecord(disk1, L1Left, k, v)

SettledDue == {m \in Due : m <= Settled}

\* What the files hold is fresh if only the calls that have left the log are
\* asked about.
DiskFresh ==
    \A k \in Keys : \E v \in Values \cup {Absent} :
        DiskHolds(k, v) /\ FreshIn(hist, before, k, Answer(v), SettledDue)

Clean == mishaps \cap OnDisk = {}

CleanInv ==
    /\ ~short
    /\ LogOrdered /\ Quiet /\ MemFresh /\ Caught /\ L1Known /\ DiskFresh

FreshInv == CallInv /\ (Clean => CleanInv)

EngineFreshInv == EngineFilesInv /\ EngineRecordsInv /\ FreshInv

-----------------------------------------------------------------------------
(***************************************************************************)
(* What the conjuncts have in common.                                      *)
(***************************************************************************)

\* A record that a write call has made says which call that was.
LEMMA RecordOf ==
    ASSUME TypeInv, NEW k \in Keys, NEW v \in Written[k]
    PROVE  /\ v.ver \in DOMAIN hist /\ hist[v.ver].key = k
           /\ v = Record(v.ver, hist[v.ver].tomb) /\ v # Absent
<1>1. PICK n \in DOMAIN hist : hist[n].key = k /\ v = Record(n, hist[n].tomb)
  BY DEF Written
<1>2. Record(n, hist[n].tomb).ver = n /\ Record(n, hist[n].tomb) # Absent
  BY CallTyped, RecordTyped
<1> QED BY <1>1, <1>2

\* Its answer is fresh if it is not overtaken.
LEMMA RecordFresh ==
    ASSUME TypeInv, NEW k \in Keys, NEW v \in Written[k], NEW M,
           Current(hist, before, v.ver, M)
    PROVE  FreshIn(hist, before, k, Answer(v), M)
<1>1. /\ v.ver \in DOMAIN hist /\ hist[v.ver].key = k
      /\ v = Record(v.ver, hist[v.ver].tomb)
  BY RecordOf
<1>2. Answer(v) = Answer(Record(v.ver, hist[v.ver].tomb))
  BY <1>1
<1> QED BY <1>1, <1>2 DEF FreshIn

LEMMA TableStays ==
    ASSUME TypeInv, NEW t, Within(t, Written),
           NEW h1, NEW b1, GoesOn(hist, before, h1, b1),
           NEW M \in SUBSET DOMAIN hist, NEW N \in SUBSET M,
           FreshTable(hist, before, t, M)
    PROVE  FreshTable(h1, b1, t, N)
<1> SUFFICES ASSUME NEW k \in Keys, t[k] # Absent
             PROVE  Current(h1, b1, t[k].ver, N)
  BY DEF FreshTable
<1>1. t[k].ver \in DOMAIN hist /\ hist[t[k].ver].key = k
  BY RecordOf DEF Within
<1>2. Current(hist, before, t[k].ver, M)
  BY DEF FreshTable
<1> QED BY <1>1, <1>2, StaysFresh

LEMMA DueTyped ==
    ASSUME TypeInv
    PROVE  /\ Due \subseteq DOMAIN hist /\ acked \subseteq Due
           /\ DOMAIN hist = 1..Len(hist) /\ Len(hist) \in Nat
           /\ hist \in Seq([key : Keys, tomb : BOOLEAN]) /\ log \in Seq(Frames)
           /\ th \in [Clients -> Threads] /\ disk0 \in Directory /\ disk1 \in Directory
<1>1. /\ hist \in Seq([key : Keys, tomb : BOOLEAN]) /\ acked \subseteq DOMAIN hist
      /\ log \in Seq(Frames) /\ th \in [Clients -> Threads]
      /\ disk0 \in Directory /\ disk1 \in Directory
  BY DEF TypeInv, LsmTypeOK, LevelTypeOK
<1>2. \A c \in Clients : Inserted(c) => Call(c) \in DOMAIN hist
  BY DEF TypeInv, ThreadsFit, Inserted, Call
<1> QED BY <1>1, <1>2, LenProperties DEF Due

LEMMA SettledTyped ==
    ASSUME TypeInv
    PROVE  Settled \in Int
<1>1. Len(hist) \in Nat /\ replay(log) \in Seq(Frames)
  BY DueTyped, ReplayProperties
<1>2. Len(replay(log)) \in Nat
  BY <1>1, LenProperties
<1> QED BY <1>1, <1>2 DEF Settled

\* What the steps of a call make of the thread they belong to.
Others(c) == \A d \in Clients \ {c} : th'[d] = th[d]

LEMMA CallMoves ==
    ASSUME TypeInv, NEW c \in Clients
    PROVE  /\ \A k \in Keys : get(c, k) =>
                 Others(c) /\ th[c].pc = "idle" /\ th'[c].pc \in {"idle", "levels"}
           /\ get_levels(c) \/ flush_add(c) \/ flush_error(c) =>
                 Others(c) /\ th'[c].pc = "idle"
           /\ insert_mem(c) =>
                 /\ Others(c) /\ th[c].pc = "insert"
                 /\ \/ th'[c].pc = "idle" /\ acked' = acked \cup {Call(c)}
                    \/ /\ th'[c].pc = "path" /\ th'[c].entry = th[c].entry
                       /\ acked' = acked
           /\ next_sstable_path(c) =>
                 /\ Others(c) /\ th[c].pc = "path"
                 /\ th'[c].pc = "swap" /\ th'[c].entry = th[c].entry
           /\ flush_swap(c) =>
                 /\ Others(c) /\ th[c].pc = "swap"
                 /\ th'[c].pc = "write" /\ th'[c].entry = th[c].entry
                 /\ th'[c].path = th[c].path /\ th'[c].old_mem = mem
           /\ flush_write(c) =>
                 /\ Others(c) /\ th[c].pc = "write"
                 /\ th'[c].pc = "truncate" /\ th'[c].entry = th[c].entry
                 /\ th'[c].path = th[c].path
           /\ flush_truncate(c) =>
                 /\ Others(c) /\ th[c].pc = "truncate"
                 /\ th'[c].pc = "add" /\ th'[c].entry = th[c].entry
<1>1. th \in [Clients -> Threads] /\ th[c] \in Threads
  BY DEF TypeInv, LsmTypeOK
<1>2. ASSUME th' = [th EXCEPT ![c] = Resting] PROVE Others(c) /\ th'[c].pc = "idle"
  BY <1>1, <1>2, RestingTyped DEF Others
<1>3. ASSUME NEW pc, th' = [th EXCEPT ![c].pc = pc]
      PROVE  Others(c) /\ th'[c].pc = pc /\ th'[c].entry = th[c].entry
  BY <1>1, <1>3 DEF Others, Threads
<1>4. ASSUME NEW k \in Keys, get(c, k)
      PROVE  Others(c) /\ th[c].pc = "idle" /\ th'[c].pc \in {"idle", "levels"}
  <2>1. /\ th[c].pc = "idle"
        /\ \/ th' = th
           \/ th' = [th EXCEPT ![c].pc = "levels", ![c].entry.key = k, ![c].seen = acked]
    BY <1>4 DEF get, At
  <2> QED BY <1>1, <2>1 DEF Others, Threads
<1>5. get_levels(c) \/ flush_add(c) \/ flush_error(c) => th' = [th EXCEPT ![c] = Resting]
  BY DEF get_levels, flush_add, flush_error, ReturnOk, ReturnError
<1>6. ASSUME insert_mem(c)
      PROVE  /\ Others(c) /\ th[c].pc = "insert"
             /\ \/ th'[c].pc = "idle" /\ acked' = acked \cup {Call(c)}
                \/ /\ th'[c].pc = "path" /\ th'[c].entry = th[c].entry
                   /\ acked' = acked
  BY <1>2, <1>3, <1>6 DEF insert_mem, At, Go, ReturnOk, Call
<1>7. ASSUME next_sstable_path(c)
      PROVE  /\ Others(c) /\ th[c].pc = "path"
             /\ th'[c].pc = "swap" /\ th'[c].entry = th[c].entry
  <2>1. PICK s : th' = [th EXCEPT ![c].pc = "swap", ![c].path = s]
    BY <1>7 DEF next_sstable_path
  <2> QED BY <1>1, <1>7, <2>1 DEF next_sstable_path, At, Others, Threads
<1>8. ASSUME flush_swap(c)
      PROVE  /\ Others(c) /\ th[c].pc = "swap"
             /\ th'[c].pc = "write" /\ th'[c].entry = th[c].entry
             /\ th'[c].path = th[c].path /\ th'[c].old_mem = mem
  BY <1>1, <1>8 DEF flush_swap, At, Others, Threads
<1>9. ASSUME flush_write(c)
      PROVE  /\ Others(c) /\ th[c].pc = "write"
             /\ th'[c].pc = "truncate" /\ th'[c].entry = th[c].entry
             /\ th'[c].path = th[c].path
  BY <1>1, <1>9 DEF flush_write, At, Others, Threads
<1>10. ASSUME flush_truncate(c)
       PROVE  /\ Others(c) /\ th[c].pc = "truncate"
              /\ th'[c].pc = "add" /\ th'[c].entry = th[c].entry
  BY <1>3, <1>10 DEF flush_truncate, At, Go
<1> QED BY <1>2, <1>4, <1>5, <1>6, <1>7, <1>8, <1>9, <1>10

LEMMA WriteMoves ==
    ASSUME TypeInv, NEW c \in Clients, NEW k \in Keys, NEW d \in BOOLEAN,
           write_wal(c, k, d)
    PROVE  /\ Others(c) /\ th[c].pc = "idle" /\ th'[c].pc = "insert"
           /\ th'[c].entry = [key |-> k, value |-> Record(Len(hist) + 1, d)]
           /\ Call(c)' = Len(hist) + 1
<1> DEFINE e == [key |-> k, value |-> Record(Len(hist) + 1, d)]
<1>1. /\ th[c].pc = "idle" /\ th \in [Clients -> Threads]
      /\ th' = [th EXCEPT ![c].pc = "insert", ![c].entry = e]
  BY DEF write_wal, At, TypeInv, LsmTypeOK
<1>2. e.value.ver = Len(hist) + 1
  BY NextRecord, RecordTyped
<1> HIDE DEF e
<1>3. Others(c) /\ th'[c].pc = "insert" /\ th'[c].entry = e
  BY <1>1 DEF Others, Threads
<1> QED BY <1>1, <1>2, <1>3 DEF Call, e

LEMMA DueFrame ==
    ASSUME NEW c \in Clients, Others(c), NEW X, acked' \subseteq acked \cup X,
           Inserted(c)' => Call(c)' \in Due \cup X
    PROVE  Due' \subseteq Due \cup X
<1>1. \A d \in Clients \ {c} : Inserted(d)' => Inserted(d) /\ Call(d)' = Call(d)
  BY DEF Others, Inserted, Call
<1>2. \A d \in Clients : Inserted(d)' => Call(d)' \in Due \cup X
  BY <1>1 DEF Due
<1>3. acked' \subseteq Due \cup X
  BY DEF Due
<1>4. Due' = acked' \cup {Call(d)' : d \in {b \in Clients : Inserted(b)'}}
  BY DEF Due
<1> QED BY <1>2, <1>3, <1>4

\* Only an insert into the MemTable makes a call due.
LEMMA CallDue ==
    ASSUME TypeInv, NEW c \in Clients, BeginCall(c) \/ ContinueCall(c), ~insert_mem(c)
    PROVE  Due' \subseteq Due
<1>1. CASE BeginCall(c)
  <2>1. acked' = acked
    BY <1>1 DEF BeginCall, set, delete, write_wal, get, write_wal_error
  <2>2. Others(c) /\ ~Inserted(c)'
    <3>1. ASSUME NEW k \in Keys, set(c, k) \/ delete(c, k) PROVE Others(c) /\ ~Inserted(c)'
      BY <3>1, WriteMoves DEF set, delete, Inserted
    <3>2. ASSUME NEW k \in Keys, get(c, k) PROVE Others(c) /\ ~Inserted(c)'
      BY <3>2, CallMoves DEF Inserted
    <3>3. ASSUME write_wal_error(c) PROVE Others(c) /\ ~Inserted(c)'
      BY <3>3 DEF write_wal_error, At, Others, Inserted
    <3> QED BY <1>1, <3>1, <3>2, <3>3 DEF BeginCall
  <2>3. Due' \subseteq Due \cup {}
    BY <2>1, <2>2, DueFrame
  <2> QED BY <2>3
<1>2. CASE flush_add(c)
  <2>1. th[c].pc = "add" /\ acked' = acked \cup {Call(c)}
    BY <1>2 DEF flush_add, At, ReturnOk, Call
  <2>2. Others(c) /\ ~Inserted(c)'
    BY <1>2, CallMoves DEF Inserted
  <2>3. Call(c) \in Due
    BY <2>1 DEF Due, Inserted
  <2>4. Due' \subseteq Due \cup {Call(c)}
    BY <2>1, <2>2, DueFrame
  <2> QED BY <2>3, <2>4
<1>3. CASE ContinueCall(c) /\ ~flush_add(c)
  <2>1. acked' = acked
    BY <1>3 DEF ContinueCall, next_sstable_path, flush_swap, flush_write,
       flush_truncate, flush_error, get_levels, ReturnError
  <2>2. Others(c) /\ (Inserted(c)' => Inserted(c) /\ Call(c)' = Call(c))
    BY <1>3, CallMoves DEF ContinueCall, Inserted, Call
  <2>3. Inserted(c)' => Call(c)' \in Due
    BY <2>2 DEF Due
  <2>4. Due' \subseteq Due \cup {}
    BY <2>1, <2>2, <2>3, DueFrame
  <2> QED BY <2>4
<1> QED BY <1>1, <1>2, <1>3

-----------------------------------------------------------------------------
(***************************************************************************)
(* The calls.                                                              *)
(***************************************************************************)
LEMMA CallFrame ==
    ASSUME CallInv, UNCHANGED <<hist, before>>,
           \A d \in Clients : /\ Busy(d)' => Busy(d) /\ th'[d].entry = th[d].entry
                              /\ Holds(d)' => Holds(d)
    PROVE  CallInv'
<1>1. \A d \in Clients : Busy(d)' => Busy(d) /\ Call(d)' = Call(d)
  BY DEF Call
<1> QED BY <1>1 DEF CallInv

LEMMA CallsStay ==
    ASSUME TypeInv, CallInv, FreshNext
    PROVE  CallInv'
<1>1. hist' = hist => before' = before
  BY DEF FreshNext
<1>2. ASSUME NEW c \in Clients, NEW k \in Keys, NEW d \in BOOLEAN, write_wal(c, k, d)
      PROVE  CallInv'
  <2> DEFINE n == Len(hist) + 1
             B == DOMAIN hist \ UnderWay
  <2>1. /\ Others(c) /\ th'[c].pc = "insert" /\ Call(c)' = n
    BY <1>2, WriteMoves
  <2>2. /\ hist' = Append(hist, [key |-> k, tomb |-> d])
        /\ DOMAIN hist = 1..Len(hist) /\ Len(hist) \in Nat
        /\ hist \in Seq([key : Keys, tomb : BOOLEAN])
        /\ [key |-> k, tomb |-> d] \in [key : Keys, tomb : BOOLEAN]
    BY <1>2, DueTyped DEF write_wal
  <2>3. /\ Len(hist') = n /\ hist' # hist /\ DOMAIN hist' = 1..n
        /\ hist' \in Seq([key : Keys, tomb : BOOLEAN])
    <3>1. Len(hist') = n /\ hist' \in Seq([key : Keys, tomb : BOOLEAN])
      BY <2>2, AppendProperties
    <3>2. DOMAIN hist' = 1..Len(hist')
      BY <3>1, LenProperties
    <3>3. Len(hist') # Len(hist)
      <4>1. Len(hist) \in Nat
        BY <2>2
      <4> QED BY <3>1, <4>1
    <3> QED BY <3>1, <3>2, <3>3
  <2>4. before' = Append(before, B) /\ B \in SUBSET Nat
    <3>1. before' = Append(before, B)
      BY <2>3 DEF FreshNext
    <3>2. B \subseteq 1..Len(hist)
      BY <2>2
    <3> QED BY <2>2, <3>1, <3>2
  <2>5. /\ before' \in Seq(SUBSET Nat) /\ Len(before') = n /\ before'[n] = B
        /\ \A m \in 1..Len(hist) : before'[m] = before[m]
    BY <2>4, AppendProperties DEF CallInv
  <2>6. \A m \in DOMAIN hist' : \A i \in before'[m] : i < m
    <3>1. \A i \in B : i < n
      BY <2>2
    <3>2. \A m \in DOMAIN hist' : m \in 1..Len(hist) \/ m = n
      <4>1. Len(hist) \in Nat /\ DOMAIN hist' = 1..n
        BY <2>2, <2>3
      <4> QED BY <4>1
    <3>3. \A m \in 1..Len(hist) : \A i \in before[m] : i < m
      BY <2>2 DEF CallInv
    <3>4. before'[n] = B /\ \A m \in 1..Len(hist) : before'[m] = before[m]
      BY <2>5
    <3> HIDE DEF n, B
    <3> SUFFICES ASSUME NEW m \in DOMAIN hist', NEW i \in before'[m] PROVE i < m
      OBVIOUS
    <3>5. CASE m = n
      BY <3>1, <3>4, <3>5
    <3>6. CASE m \in 1..Len(hist)
      BY <3>3, <3>4, <3>6
    <3> QED BY <3>2, <3>5, <3>6
  <2>7. ASSUME NEW e \in Clients, Busy(e)', NEW m \in DOMAIN hist'
        PROVE  Call(e)' \notin before'[m]
    <3>1. CASE e = c
      <4>1. \A i \in before'[m] : i < m /\ m <= n /\ i \in Nat /\ m \in Nat
        BY <2>2, <2>3, <2>5, <2>6 DEF CallInv
      <4> QED BY <2>1, <2>2, <3>1, <4>1
    <3>2. CASE e # c
      <4>1. Busy(e) /\ Call(e)' = Call(e)
        BY <2>1, <2>7, <3>2 DEF Others, Busy, Call
      <4>2. Call(e) \in UnderWay
        BY <4>1 DEF Busy, UnderWay, Call
      <4> QED BY <2>2, <2>3, <2>5, <4>1, <4>2 DEF CallInv
    <3> QED BY <3>1, <3>2
  <2>8. \A e \in Clients : Holds(e)' => Holds(e)
    BY <2>1 DEF Others, Holds
  <2> QED BY <2>3, <2>5, <2>6, <2>7, <2>8 DEF CallInv
<1>3. ASSUME NEW c \in Clients, flush_swap(c) PROVE CallInv'
  <2>1. /\ Others(c) /\ th[c].pc = "swap" /\ th'[c].pc = "write"
        /\ th'[c].entry = th[c].entry
    BY <1>3, CallMoves
  <2>2. hist' = hist /\ \A d \in Clients : ~Holds(d)
    BY <1>3 DEF flush_swap, WalFree, Holds
  <2>3. \A d \in Clients : /\ Busy(d)' => Busy(d) /\ Call(d)' = Call(d)
                           /\ Holds(d)' => d = c
    BY <2>1, <2>2 DEF Others, Busy, Call, Holds
  <2> QED BY <1>1, <2>2, <2>3 DEF CallInv
<1>4. ASSUME NEW c \in Clients, ContinueCall(c) \/ (\E k \in Keys : get(c, k)),
             ~flush_swap(c)
      PROVE  CallInv'
  <2>1. /\ Others(c) /\ (Busy(c)' => Busy(c) /\ th'[c].entry = th[c].entry)
        /\ Holds(c)' => Holds(c)
    BY <1>4, CallMoves DEF ContinueCall, Busy, Holds
  <2>2. hist' = hist
    BY <1>4 DEF ContinueCall, insert_mem, next_sstable_path, flush_write,
       flush_truncate, flush_error, flush_add, get_levels, get
  <2>3. \A d \in Clients : /\ Busy(d)' => Busy(d) /\ th'[d].entry = th[d].entry
                           /\ Holds(d)' => Holds(d)
    BY <2>1 DEF Others, Busy, Holds
  <2> QED BY <1>1, <2>2, <2>3, CallFrame
<1>5. ASSUME UNCHANGED <<th, hist>> PROVE CallInv'
  BY <1>1, <1>5, CallFrame DEF Busy, Holds
<1>6. ASSUME CompactorNext PROVE UNCHANGED <<th, hist>>
  BY <1>6 DEF CompactorNext, compactor_check, compactor_poll, compactor_begin,
     compactor_remove, compactor_install, Compactor
<1>7. ASSUME open \/ drop \/ \E c \in Clients : write_wal_error(c)
      PROVE  UNCHANGED <<th, hist>>
  BY <1>7 DEF open, drop, write_wal_error
<1>8. ASSUME join \/ crash PROVE CallInv'
  <2>1. hist' = hist /\ \A d \in Clients : th'[d].pc = "idle"
    BY <1>8, RestingTyped DEF join, crash, Forget
  <2>2. \A d \in Clients : ~Busy(d)' /\ ~Holds(d)'
    BY <2>1 DEF Busy, Holds
  <2> QED BY <1>1, <2>1, <2>2, CallFrame
<1> QED
  BY <1>2, <1>3, <1>4, <1>5, <1>6, <1>7, <1>8
     DEF FreshNext, LsmNext, BeginCall, ProcessNext, set, delete

-----------------------------------------------------------------------------
(***************************************************************************)
(* Steps that are none of the exceptions.                                  *)
(***************************************************************************)
LEMMA Cleared ==
    ASSUME FreshNext, Clean'
    PROVE  /\ Clean
           /\ ~Wiped /\ ~Misnamed /\ ~Forgotten /\ ~TornOver /\ ~Contested
           /\ ~Outrun /\ ~DrainedAway /\ ~CutShort /\ ~CutScan /\ ~Kept
           /\ proc' # "down" /\ "dropped" \notin mishaps' =>
                 "dropped" \notin mishaps /\ ~Dropped
<1> DEFINE M == mishaps \cup Mishaps
<1>1. mishaps' = Remembered(M)
  BY DEF FreshNext
<1>2. M \cap OnDisk = {}
  <2>1. CASE proc' # "down"
    BY <1>1, <2>1 DEF Remembered, Clean
  <2>2. CASE proc' = "down" /\ M \cap OnDisk # {}
    <3>1. "lost" \in mishaps'
      BY <1>1, <2>2 DEF Remembered, Mark
    <3> QED BY <3>1 DEF Clean, OnDisk
  <2> QED BY <2>1, <2>2
<1>3. \A x, P : x \in Mark(x, P) <=> P
  BY DEF Mark
<1>4. /\ Wiped => "wiped" \in Mishaps
      /\ Misnamed => "misnamed" \in Mishaps
      /\ Forgotten => "forgotten" \in Mishaps
      /\ TornOver => "torn" \in Mishaps
      /\ Contested => "contested" \in Mishaps
      /\ Outrun => "outrun" \in Mishaps
      /\ DrainedAway => "drained" \in Mishaps
      /\ CutShort => "cut" \in Mishaps
      /\ CutScan => "scan" \in Mishaps
      /\ Kept => "kept" \in Mishaps
      /\ Dropped => "dropped" \in Mishaps
  BY DEF Mishaps, Mark
<1>5. proc' # "down" => mishaps' = M
  BY <1>1 DEF Remembered
<1> QED BY <1>2, <1>4, <1>5 DEF Clean, OnDisk

LEMMA LogFrame ==
    ASSUME LogOrdered, UNCHANGED <<log, hist>>,
           \A d \in Clients : th'[d].pc = "insert" =>
              th[d].pc = "insert" /\ th'[d].entry = th[d].entry
    PROVE  LogOrdered' /\ Settled' = Settled
<1>1. Settled' = Settled
  BY DEF Settled
<1>2. \A d \in Clients : th'[d].pc = "insert" => Call(d)' > Settled'
  BY <1>1 DEF LogOrdered, Call
<1> QED BY <1>1, <1>2 DEF LogOrdered

LEMMA QuietFrame ==
    ASSUME Quiet, UNCHANGED <<mem, disk0>>,
           \A d \in Clients : /\ Holds(d)' => Holds(d) /\ th'[d].path = th[d].path
                              /\ th'[d].pc = "insert" => th[d].pc = "insert"
    PROVE  Quiet'
  BY DEF Quiet

\* What a flush has in its hands, or in its file, is a table of records.
LEMMA FlightTyped ==
    ASSUME EngineFilesInv, EngineRecordsInv, NEW c \in Clients, Holds(c)
    PROVE  /\ Flight(c) \in Table /\ Within(Flight(c), Written)
           /\ th[c].path \in Stamps /\ th[c].path \notin Listed0
           /\ disk0[th[c].path] = NoFile <=> th[c].pc = "write"
<1>1. /\ th[c].pc \in {"write", "truncate"} /\ th[c].pc \in FlushStages
      /\ th[c].pc \notin {"idle", "levels"}
  BY DEF Holds, FlushStages
<1>2. /\ th[c].old_mem \in Table /\ th[c].path \in Stamps /\ disk0 \in Directory
  BY <1>1, InCall DEF EngineRecordsInv, TypeInv, LsmTypeOK, LevelTypeOK
<1>3. /\ th[c].path \notin Listed0
      /\ disk0[th[c].path] = NoFile <=> th[c].pc = "write"
  BY <1>1 DEF EngineFilesInv, FlushInv
<1>4. CASE th[c].pc = "write"
  BY <1>2, <1>3, <1>4 DEF Flight, EngineRecordsInv, RecordsInv
<1>5. CASE th[c].pc # "write"
  <2>1. Flight(c) = disk0[th[c].path] /\ disk0[th[c].path] # NoFile
    BY <1>3, <1>5 DEF Flight
  <2> QED BY <1>2, <1>3, <2>1 DEF Directory, EngineRecordsInv, RecordsInv, FilesWithin
<1> QED BY <1>4, <1>5

LEMMA MemFrame ==
    ASSUME EngineFilesInv, EngineRecordsInv, MemFresh,
           GoesOn(hist, before, hist', before'), mem' = mem, Due' \subseteq Due,
           \A d \in Clients : Holds(d)' => Holds(d) /\ Flight(d)' = Flight(d)
    PROVE  MemFresh'
<1>1. TypeInv /\ Due \subseteq DOMAIN hist
  BY DueTyped DEF EngineRecordsInv
<1>2. Within(mem, Written) /\ FreshTable(hist, before, mem, Due)
  BY DEF EngineRecordsInv, RecordsInv, MemFresh
<1>3. FreshTable(hist', before', mem, Due')
  BY <1>1, <1>2, TableStays
<1>4. ASSUME NEW c \in Clients, Holds(c)'
      PROVE  FreshTable(hist', before', Flight(c)', Due')
  <2>1. /\ Flight(c)' = Flight(c) /\ FreshTable(hist, before, Flight(c), Due)
        /\ Within(Flight(c), Written)
    BY <1>4, FlightTyped DEF MemFresh
  <2>2. FreshTable(hist', before', Flight(c), Due')
    BY <1>1, <2>1, TableStays
  <2> QED BY <2>1, <2>2
<1> QED BY <1>3, <1>4 DEF MemFresh

LEMMA CaughtFrame ==
    ASSUME TypeInv, Caught, UNCHANGED mem, Due' \subseteq Due, Settled' = Settled,
           \A m \in DOMAIN hist : hist'[m] = hist[m],
           proc' # "down" /\ "dropped" \notin mishaps' =>
              /\ proc # "down" /\ "dropped" \notin mishaps
              /\ \A d \in Clients : Holds(d) => Holds(d)' /\ Flight(d)' = Flight(d)
    PROVE  Caught'
<1> SUFFICES ASSUME proc' # "down", "dropped" \notin mishaps', NEW m \in Due',
                    m > Settled'
             PROVE  \/ mem'[hist'[m].key] # Absent
                    \/ \E c \in Clients :
                          Holds(c)' /\ Flight(c)'[hist'[m].key] # Absent
  BY DEF Caught
<1>1. m \in Due /\ m > Settled /\ hist'[m] = hist[m]
  BY DueTyped
<1>2. \/ mem[hist[m].key] # Absent
      \/ \E c \in Clients : Holds(c) /\ Flight(c)[hist[m].key] # Absent
  BY <1>1 DEF Caught
<1> QED BY <1>1, <1>2

LEMMA DiskFrame ==
    ASSUME TypeInv, DiskFresh, GoesOn(hist, before, hist', before'),
           L0Left' = L0Left, L1Left' = L1Left,
           \A s \in L0Left : disk0'[s] = disk0[s],
           \A s \in L1Left : disk1'[s] = disk1[s],
           SettledDue' \subseteq SettledDue
    PROVE  DiskFresh'
<1> SUFFICES ASSUME NEW k \in Keys
             PROVE  \E v \in Values \cup {Absent} :
                       /\ DiskHolds(k, v)'
                       /\ FreshIn(hist', before', k, Answer(v), SettledDue')
  BY DEF DiskFresh
<1>1. PICK v \in Values \cup {Absent} :
         DiskHolds(k, v) /\ FreshIn(hist, before, k, Answer(v), SettledDue)
  BY DEF DiskFresh
<1>2. SettledDue \subseteq DOMAIN hist
  BY DueTyped DEF SettledDue
<1>3. FreshIn(hist', before', k, Answer(v), SettledDue')
  BY <1>1, <1>2, StaysFresh
<1>4. LastOf(disk0, L0Left, k, v) => LastOf(disk0', L0Left', k, v)
  BY DEF LastOf
<1>5. OneRecord(disk1, L1Left, k, v) => OneRecord(disk1', L1Left', k, v)
  BY DEF OneRecord
<1>6. DiskHolds(k, v)'
  BY <1>1, <1>4, <1>5 DEF DiskHolds
<1> QED BY <1>3, <1>6

\* Steps that are about none of the log, the MemTable, the files and L1.
LEMMA PlainStep ==
    ASSUME EngineFilesInv, EngineRecordsInv, CleanInv,
           UNCHANGED <<log, hist, before, mem, disk0, disk1, l1, job, short>>,
           Due' \subseteq Due, proc' # "down" => proc # "down",
           \A d \in Clients :
              /\ Holds(d)' => /\ Holds(d) /\ th'[d].pc = th[d].pc
                              /\ th'[d].path = th[d].path
                              /\ th'[d].old_mem = th[d].old_mem
              /\ th'[d].pc = "insert" =>
                    th[d].pc = "insert" /\ th'[d].entry = th[d].entry,
           proc' # "down" /\ "dropped" \notin mishaps' =>
              /\ "dropped" \notin mishaps
              /\ \A d \in Clients : Holds(d) => th'[d] = th[d]
    PROVE  CleanInv'
<1>1. /\ LogOrdered /\ Quiet /\ MemFresh /\ Caught /\ L1Known /\ DiskFresh
      /\ ~short /\ TypeInv
  BY DEF CleanInv, EngineRecordsInv
<1>2. GoesOn(hist, before, hist', before')
  BY DEF GoesOn
<1>3. LogOrdered' /\ Settled' = Settled
  BY <1>1, LogFrame
<1>4. Quiet'
  BY <1>1, QuietFrame
<1>5. \A d \in Clients :
         /\ Holds(d)' => Flight(d)' = Flight(d)
         /\ Holds(d) /\ th'[d] = th[d] => Holds(d)' /\ Flight(d)' = Flight(d)
  BY DEF Flight, Holds
<1>6. MemFresh'
  BY <1>1, <1>2, <1>5, MemFrame
<1>7. Caught'
  BY <1>1, <1>3, <1>5, CaughtFrame
<1>8. L0Left' = L0Left /\ L1Left' = L1Left
  BY DEF L0Left, L1Left
<1>9. SettledDue' \subseteq SettledDue
  BY <1>3 DEF SettledDue
<1>10. DiskFresh'
  BY <1>1, <1>2, <1>8, <1>9, DiskFrame
<1>11. L1Known'
  BY <1>1, <1>8 DEF L1Known, Idle, ToInstall
<1> QED BY <1>1, <1>3, <1>4, <1>6, <1>7, <1>10, <1>11 DEF CleanInv

-----------------------------------------------------------------------------
(***************************************************************************)
(* The steps of a call.                                                    *)
(***************************************************************************)

\* What replay makes of a log with one more frame, if its end was whole.
LEMMA OrderedReplay ==
    ASSUME TypeInv, TornFrames(log) \subseteq {Len(log)}, ~TornOver,
           NEW f \in Frames, log' = Append(log, f)
    PROVE  /\ replay(log) = log
           /\ f # Torn => replay(log') = log' /\ TornFrames(log') = {}
           /\ f = Torn => replay(log') = log /\ TornFrames(log') = {Len(log')}
<1>1. /\ log \in Seq(Frames) /\ Len(log) \in Nat /\ DOMAIN log = 1..Len(log)
      /\ Len(log') = Len(log) + 1
  BY DueTyped, AppendedLog, LenProperties
<1>2. TornFrames(log) = {}
  <2> SUFFICES ASSUME NEW i \in TornFrames(log) PROVE FALSE
    OBVIOUS
  <2>1. i = Len(log) /\ i \in DOMAIN log /\ log[i] = Torn
    BY DEF TornFrames
  <2>2. log # <<>> /\ Last(log) = Torn
    BY <1>1, <2>1 DEF Last
  <2> QED BY <1>1, <2>2 DEF TornOver
<1> QED BY <1>1, <1>2, AppendReplay

\* A torn append leaves the log in order.
LEMMA TornOrdered ==
    ASSUME TypeInv, LogOrdered, ~TornOver, append_torn, hist' = hist,
           \A d \in Clients : th'[d].pc = "insert" =>
              th[d].pc = "insert" /\ th'[d].entry = th[d].entry
    PROVE  LogOrdered' /\ Settled' = Settled
<1>1. replay(log') = replay(log) /\ TornFrames(log') = {Len(log')}
  BY OrderedReplay DEF LogOrdered, append_torn, Frames
<1>2. Settled' = Settled
  BY <1>1 DEF Settled
<1>3. \A d \in Clients : th'[d].pc = "insert" => Call(d)' > Settled'
  BY <1>2 DEF LogOrdered, Call
<1>4. \A i \in DOMAIN replay(log)' :
         /\ replay(log)'[i].key = hist'[Settled' + i].key
         /\ replay(log)'[i].value = Record(Settled' + i, hist'[Settled' + i].tomb)
  BY <1>1, <1>2 DEF LogOrdered
<1> QED BY <1>1, <1>2, <1>3, <1>4 DEF LogOrdered

LEMMA WriteClean ==
    ASSUME EngineFreshInv, CleanInv, ~TornOver, NEW c \in Clients,
           NEW k \in Keys, NEW d \in BOOLEAN, write_wal(c, k, d), FreshNext,
           "dropped" \notin mishaps' => "dropped" \notin mishaps
    PROVE  CleanInv'
<1> DEFINE n == Len(hist) + 1
           e == [key |-> k, value |-> Record(n, d)]
<1>1. /\ TypeInv /\ LogOrdered /\ Quiet /\ MemFresh /\ Caught /\ L1Known
      /\ DiskFresh /\ ~short /\ CallInv /\ EngineFilesInv /\ EngineRecordsInv
  BY DEF CleanInv, EngineFreshInv, FreshInv, EngineRecordsInv
<1>2. /\ log' = Append(log, e) /\ WalFree /\ acked' = acked /\ proc = "up"
      /\ hist' = Append(hist, [key |-> k, tomb |-> d])
      /\ UNCHANGED <<mem, disk0, disk1, l1, job, short, proc>>
  BY DEF write_wal, append, At, levelVars, ioVars
<1>3. /\ Others(c) /\ th[c].pc = "idle" /\ th'[c].pc = "insert" /\ Call(c)' = n
  BY <1>1, WriteMoves
<1>4. /\ log \in Seq(Frames) /\ Len(log) \in Nat /\ Len(hist) \in Nat
      /\ DOMAIN hist = 1..Len(hist)
  BY <1>1, DueTyped, LenProperties
<1>5. /\ Len(hist') = n /\ hist'[n] = [key |-> k, tomb |-> d]
      /\ \A m \in 1..Len(hist) : hist'[m] = hist[m]
      /\ DOMAIN hist' = DOMAIN hist \cup {n}
  <2>1. /\ hist \in Seq([key : Keys, tomb : BOOLEAN])
        /\ [key |-> k, tomb |-> d] \in [key : Keys, tomb : BOOLEAN]
    BY <1>1, DueTyped
  <2>2. /\ hist'[n] = [key |-> k, tomb |-> d] /\ DOMAIN hist' = DOMAIN hist \cup {n}
        /\ \A m \in DOMAIN hist : hist'[m] = hist[m]
    BY <1>1, WriteHistory
  <2>3. Len(hist') = n
    BY <1>2, <2>1, AppendProperties
  <2> QED BY <1>4, <2>2, <2>3
<1>6. e \in Frames /\ e # Torn /\ e.key = k /\ e.value = Record(n, d)
  <2>1. Record(n, d) \in Values
    BY <1>1, NextRecord
  <2> QED BY <2>1, LsmAssumption, WalAssumption DEF Frames
<1> HIDE DEF e
<1>7. replay(log) = log /\ replay(log') = log' /\ TornFrames(log') = {}
  BY <1>1, <1>2, <1>6, OrderedReplay DEF LogOrdered
<1>8. /\ log'[Len(log) + 1] = e /\ \A i \in 1..Len(log) : log'[i] = log[i]
      /\ Len(log') = Len(log) + 1 /\ DOMAIN log' = 1 .. Len(log) + 1
      /\ DOMAIN log = 1..Len(log)
  BY <1>2, <1>4, <1>6, AppendedLog, LenProperties
<1>9. /\ Settled' = Settled /\ Settled = Len(hist) - Len(log) /\ Settled >= 0
      /\ Settled \in Nat
  <2>1. Settled = Len(hist) - Len(log) /\ Settled' = Len(hist') - Len(log')
    BY <1>7 DEF Settled
  <2>2. Settled >= 0
    BY <1>1 DEF LogOrdered
  <2> QED BY <1>4, <1>5, <1>8, <2>1, <2>2
<1>10. GoesOn(hist, before, hist', before')
  <2>1. hist' # hist
    <3>1. Len(hist') # Len(hist)
      <4>1. Len(hist') = Len(hist) + 1 /\ Len(hist) \in Nat
        BY <1>4, <1>5
      <4> QED BY <4>1
    <3> QED BY <3>1
  <2>2. before' = Append(before, DOMAIN hist \ UnderWay)
    BY <2>1 DEF FreshNext
  <2>3. /\ before \in Seq(SUBSET Nat) /\ Len(before) = Len(hist)
        /\ DOMAIN hist \ UnderWay \in SUBSET Nat
    <3>1. DOMAIN hist \subseteq Nat
      BY <1>4
    <3> QED BY <1>1, <3>1 DEF CallInv
  <2>4. \A m \in 1..Len(hist) : before'[m] = before[m]
    BY <2>2, <2>3, AppendProperties
  <2> QED BY <1>4, <1>5, <2>4 DEF GoesOn
<1>11. LogOrdered'
  <2>1. ASSUME NEW i \in DOMAIN replay(log)'
        PROVE  /\ replay(log)'[i].key = hist'[Settled' + i].key
               /\ replay(log)'[i].value = Record(Settled' + i, hist'[Settled' + i].tomb)
    <3>1. CASE i = Len(log) + 1
      <4>1. Settled' + i = n
        BY <1>4, <1>9, <3>1
      <4> HIDE DEF n
      <4> QED BY <1>5, <1>6, <1>7, <1>8, <3>1, <4>1
    <3>2. CASE i # Len(log) + 1
      <4>1. i \in 1..Len(log) /\ Settled + i \in 1..Len(hist)
        <5>1. i \in 1 .. Len(log) + 1
          BY <1>7, <1>8
        <5> QED BY <1>4, <1>9, <3>2, <5>1
      <4>2. /\ log[i].key = hist[Settled + i].key
            /\ log[i].value = Record(Settled + i, hist[Settled + i].tomb)
        BY <1>1, <1>7, <1>8, <4>1 DEF LogOrdered
      <4>3. log'[i] = log[i] /\ hist'[Settled + i] = hist[Settled + i]
        BY <1>5, <1>8, <4>1
      <4> QED BY <1>7, <1>9, <4>2, <4>3
    <3> QED BY <3>1, <3>2
  <2>2. ASSUME NEW b \in Clients, th'[b].pc = "insert" PROVE Call(b)' > Settled'
    <3>1. CASE b = c
      BY <1>3, <1>4, <1>9, <3>1
    <3>2. CASE b # c
      BY <1>1, <1>3, <1>9, <2>2, <3>2 DEF LogOrdered, Others, Call
    <3> QED BY <3>1, <3>2
  <2> QED BY <1>7, <1>9, <2>1, <2>2 DEF LogOrdered
<1>12. \A b \in Clients : ~Holds(b) /\ ~Holds(b)'
  BY <1>2, <1>3 DEF WalFree, Holds, Others
<1>13. Due' \subseteq Due
  <2>1. ~Inserted(c)'
    BY <1>3 DEF Inserted
  <2>2. Due' \subseteq Due \cup {}
    BY <1>2, <1>3, <2>1, DueFrame
  <2> QED BY <2>2
<1>14. MemFresh'
  BY <1>1, <1>2, <1>10, <1>12, <1>13, MemFrame
<1>15. Caught'
  BY <1>1, <1>2, <1>4, <1>5, <1>9, <1>12, <1>13, CaughtFrame
<1>16. L0Left' = L0Left /\ L1Left' = L1Left
  BY <1>2 DEF L0Left, L1Left
<1>17. DiskFresh'
  <2>1. SettledDue' \subseteq SettledDue
    BY <1>9, <1>13 DEF SettledDue
  <2> QED BY <1>1, <1>2, <1>10, <1>16, <2>1, DiskFrame
<1>18. L1Known' /\ Quiet' /\ ~short'
  BY <1>1, <1>2, <1>12, <1>16 DEF L1Known, Idle, ToInstall, Quiet
<1> QED BY <1>11, <1>14, <1>15, <1>17, <1>18 DEF CleanInv

LEMMA InsertClean ==
    ASSUME EngineFreshInv, CleanInv, NEW c \in Clients, insert_mem(c), FreshNext,
           "dropped" \notin mishaps' => "dropped" \notin mishaps
    PROVE  CleanInv'
<1> DEFINE n == Call(c)
           k == th[c].entry.key
           v == th[c].entry.value
<1>1. /\ TypeInv /\ LogOrdered /\ Quiet /\ MemFresh /\ Caught /\ L1Known
      /\ DiskFresh /\ ~short /\ CallInv /\ EngineFilesInv /\ EngineRecordsInv
  BY DEF CleanInv, EngineFreshInv, FreshInv, EngineRecordsInv
<1>2. /\ mem' = insert(mem, k, v) /\ proc = "up"
      /\ UNCHANGED <<log, hist, disk0, disk1, l0, l1, job, short, proc>>
  BY DEF insert_mem, At, walVars, levelVars, ioVars
<1>3. /\ Others(c) /\ th[c].pc = "insert" /\ th'[c].pc \in {"idle", "path"}
      /\ th[c].pc \notin {"idle", "levels"}
  BY <1>1, CallMoves
<1>4. /\ v \in Written[k] /\ k \in Keys /\ mem \in Table /\ v.ver = n
  BY <1>1, <1>3, InCall DEF EngineRecordsInv, RecordsInv, TypeInv, LsmTypeOK, Call
<1>5. n \in DOMAIN hist /\ hist[n].key = k /\ v # Absent
  BY <1>1, <1>4, RecordOf
<1>6. n > Settled /\ \A m \in DOMAIN hist : n \notin before[m]
  BY <1>1, <1>3 DEF LogOrdered, CallInv, Busy
<1>7. \A b \in Clients : ~Holds(b) /\ ~Holds(b)'
  BY <1>1, <1>3 DEF Quiet, Holds, Others
<1>8. before' = before
  BY <1>2 DEF FreshNext
<1>9. Due' \subseteq Due \cup {n} /\ Due \subseteq DOMAIN hist
  <2>1. acked' \subseteq acked \cup {n} /\ (Inserted(c)' => Call(c)' = n)
    BY <1>1, CallMoves DEF Inserted, Call
  <2> QED BY <1>1, <1>3, <2>1, DueFrame, DueTyped
<1> HIDE DEF n, k, v
<1>10. mem'[k] = v /\ \A q \in Keys \ {k} : mem'[q] = mem[q]
  BY <1>2, <1>4 DEF insert, Table
<1>11. LogOrdered' /\ Settled' = Settled
  BY <1>1, <1>2, <1>3, LogFrame DEF Others
<1>12. MemFresh'
  <2>1. ASSUME NEW q \in Keys, mem'[q] # Absent
        PROVE  Current(hist, before, mem'[q].ver, Due')
    <3>1. CASE q = k
      BY <1>4, <1>5, <1>6, <1>9, <1>10, <3>1 DEF Current
    <3>2. CASE q # k
      <4>1. mem'[q] = mem[q] /\ Current(hist, before, mem[q].ver, Due)
        BY <1>1, <1>10, <2>1, <3>2 DEF MemFresh, FreshTable
      <4>2. hist[mem[q].ver].key = q
        BY <1>1, <2>1, <4>1, RecordOf DEF EngineRecordsInv, RecordsInv, Within
      <4> QED BY <1>5, <1>9, <3>2, <4>1, <4>2 DEF Current
    <3> QED BY <3>1, <3>2
  <2> QED BY <1>2, <1>7, <1>8, <2>1 DEF MemFresh, FreshTable
<1>13. Caught'
  <2> SUFFICES ASSUME "dropped" \notin mishaps, NEW m \in Due', m > Settled
               PROVE  mem'[hist[m].key] # Absent
    BY <1>2, <1>11 DEF Caught
  <2>1. CASE m = n
    BY <1>5, <1>10, <2>1
  <2>2. CASE m # n
    <3>1. m \in Due /\ hist[m].key \in Keys
      BY <1>1, <1>9, <2>2, CallTyped
    <3>2. mem[hist[m].key] # Absent
      BY <1>1, <1>2, <1>7, <3>1 DEF Caught
    <3> QED BY <1>5, <1>10, <3>1, <3>2
  <2> QED BY <2>1, <2>2
<1>14. L0Left' = L0Left /\ L1Left' = L1Left
  BY <1>2 DEF L0Left, L1Left
<1>15. DiskFresh'
  <2>1. SettledDue' \subseteq SettledDue
    <3>1. ~(n <= Settled)
      <4>1. n \in Int /\ Settled \in Int
        BY <1>1, <1>5, DueTyped, SettledTyped
      <4> QED BY <1>6, <4>1
    <3> QED BY <1>9, <1>11, <3>1 DEF SettledDue
  <2>2. GoesOn(hist, before, hist', before')
    BY <1>2, <1>8 DEF GoesOn
  <2> QED BY <1>1, <1>2, <1>14, <2>1, <2>2, DiskFrame
<1>16. L1Known' /\ Quiet' /\ ~short'
  BY <1>1, <1>2, <1>7, <1>14 DEF L1Known, Idle, ToInstall, Quiet
<1> QED BY <1>11, <1>12, <1>13, <1>15, <1>16 DEF CleanInv

LEMMA SwapClean ==
    ASSUME EngineFreshInv, CleanInv, NEW c \in Clients, flush_swap(c), FreshNext,
           ~Wiped, ~Misnamed, "dropped" \notin mishaps' => "dropped" \notin mishaps
    PROVE  CleanInv'
<1>1. /\ TypeInv /\ LogOrdered /\ Quiet /\ MemFresh /\ Caught /\ L1Known
      /\ DiskFresh /\ ~short /\ CallInv /\ EngineFilesInv /\ EngineRecordsInv
  BY DEF CleanInv, EngineFreshInv, FreshInv, EngineRecordsInv
<1>2. /\ mem' = EmptyTable /\ WalFree /\ acked' = acked
      /\ UNCHANGED <<log, hist, disk0, disk1, l0, l1, job, short, proc>>
  BY DEF flush_swap, At, walVars, levelVars, ioVars
<1>3. /\ Others(c) /\ th[c].pc = "swap" /\ th'[c].pc = "write"
      /\ th'[c].entry = th[c].entry /\ th'[c].path = th[c].path /\ th'[c].old_mem = mem
  BY <1>1, CallMoves
<1>4. \A b \in Clients : ~Holds(b) /\ (Holds(b)' => b = c)
  BY <1>2, <1>3 DEF WalFree, Holds, Others
<1>5. Holds(c)' /\ Flight(c)' = mem
  BY <1>3 DEF Holds, Flight
<1>6. before' = before
  BY <1>2 DEF FreshNext
<1>7. Due' \subseteq Due
  BY <1>1, <1>3, CallDue DEF ContinueCall, insert_mem, At
<1>8. LogOrdered' /\ Settled' = Settled
  BY <1>1, <1>2, <1>3, LogFrame DEF Others
<1>9. Quiet'
  <2>1. Moves(c, "swap", "write")
    BY <1>3 DEF Moves
  <2>2. \A d \in Clients : th[d].pc # "insert" /\ th'[d].pc # "insert"
    BY <1>3, <2>1 DEF Wiped, Others
  <2>3. \A s \in Stamps \ {th[c].path} : disk0[s] # NoFile => s < th[c].path
    <3>1. \A s \in Stamps : disk0[s] # NoFile => ~(s > th[c].path)
      BY <2>1 DEF Misnamed
    <3>2. th[c].path \in Stamps
      BY <1>1, <1>3 DEF TypeInv, ThreadsFit, FlushStages
    <3> QED BY <3>1, <3>2 DEF Stamps
  <2> QED BY <1>2, <1>3, <1>4, <2>2, <2>3 DEF Quiet
<1>10. MemFresh'
  <2>1. FreshTable(hist, before, mem, Due')
    <3>1. GoesOn(hist, before, hist, before) /\ Due \subseteq DOMAIN hist
      BY <1>1, DueTyped DEF GoesOn
    <3>2. Within(mem, Written) /\ FreshTable(hist, before, mem, Due)
      BY <1>1 DEF EngineRecordsInv, RecordsInv, MemFresh
    <3> QED BY <1>1, <1>7, <3>1, <3>2, TableStays
  <2>2. FreshTable(hist, before, EmptyTable, Due')
    BY DEF FreshTable, EmptyTable
  <2> QED BY <1>2, <1>4, <1>5, <1>6, <2>1, <2>2 DEF MemFresh
<1>11. Caught'
  <2> SUFFICES ASSUME proc # "down", "dropped" \notin mishaps, NEW m \in Due', m > Settled
               PROVE  \E b \in Clients : Holds(b)' /\ Flight(b)'[hist[m].key] # Absent
    BY <1>2, <1>8 DEF Caught
  <2>1. mem[hist[m].key] # Absent
    BY <1>1, <1>4, <1>7 DEF Caught
  <2> QED BY <1>5, <2>1
<1>12. L0Left' = L0Left /\ L1Left' = L1Left
  BY <1>2 DEF L0Left, L1Left
<1>13. DiskFresh'
  <2>1. SettledDue' \subseteq SettledDue
    BY <1>7, <1>8 DEF SettledDue
  <2>2. GoesOn(hist, before, hist', before')
    BY <1>2, <1>6 DEF GoesOn
  <2> QED BY <1>1, <1>2, <1>12, <2>1, <2>2, DiskFrame
<1>14. L1Known' /\ ~short'
  BY <1>1, <1>2, <1>12 DEF L1Known, Idle, ToInstall
<1> QED BY <1>8, <1>9, <1>10, <1>11, <1>13, <1>14 DEF CleanInv

\* The file is written: what it holds is fresh, and of the other keys nothing
\* changes.
LEMMA FlushWriteClean ==
    ASSUME EngineFreshInv, CleanInv, NEW c \in Clients, flush_write(c), FreshNext,
           "dropped" \notin mishaps' => "dropped" \notin mishaps
    PROVE  CleanInv'
<1> DEFINE p == th[c].path
           t == th[c].old_mem
<1>1. /\ TypeInv /\ LogOrdered /\ Quiet /\ MemFresh /\ Caught /\ L1Known
      /\ DiskFresh /\ ~short /\ CallInv /\ EngineFilesInv /\ EngineRecordsInv
  BY DEF CleanInv, EngineFreshInv, FreshInv, EngineRecordsInv
<1>2. /\ disk0' = [disk0 EXCEPT ![p] = t] /\ acked' = acked
      /\ UNCHANGED <<log, hist, mem, disk1, l0, l1, job, short, proc>>
  BY DEF flush_write, At, walVars, levelVars, ioVars
<1>3. /\ Others(c) /\ th[c].pc = "write" /\ th'[c].pc = "truncate"
      /\ th'[c].entry = th[c].entry /\ th'[c].path = p
  BY <1>1, CallMoves
<1>4. /\ Holds(c) /\ Holds(c)' /\ Flight(c) = t
      /\ \A b \in Clients : (Holds(b) => b = c) /\ (Holds(b)' => b = c)
  BY <1>1, <1>3 DEF Holds, Flight, Others, CallInv
<1>5. /\ t \in Table /\ Within(t, Written) /\ p \in Stamps /\ p \notin Listed0
      /\ disk0[p] = NoFile /\ disk0 \in Directory
  BY <1>1, <1>3, <1>4, FlightTyped, DueTyped
<1>6. /\ disk0'[p] = t /\ t # NoFile /\ \A s \in Stamps \ {p} : disk0'[s] = disk0[s]
  BY <1>2, <1>5, TablesAssumption DEF Directory
<1> HIDE DEF p, t
<1>7. before' = before
  BY <1>2 DEF FreshNext
<1>8. Due' \subseteq Due /\ Due \subseteq DOMAIN hist
  BY <1>1, <1>3, CallDue, DueTyped DEF ContinueCall, insert_mem, At
<1>9. LogOrdered' /\ Settled' = Settled
  BY <1>1, <1>2, <1>3, LogFrame DEF Others
<1>10. Quiet'
  <2>1. /\ mem = EmptyTable /\ \A d \in Clients : th[d].pc # "insert"
        /\ \A s \in Stamps \ {p} : disk0[s] # NoFile => s < p
    BY <1>1, <1>4 DEF Quiet, p
  <2>2. \A d \in Clients : th'[d].pc # "insert"
    BY <1>3, <2>1 DEF Others
  <2> QED BY <1>2, <1>3, <1>4, <1>6, <2>1, <2>2 DEF Quiet
<1>11. Flight(c)' = t
  BY <1>3, <1>6 DEF Flight
<1>12. GoesOn(hist, before, hist', before')
  BY <1>2, <1>7 DEF GoesOn
<1>13. MemFresh'
  BY <1>1, <1>2, <1>4, <1>8, <1>11, <1>12, MemFrame
<1>14. Caught'
  BY <1>1, <1>2, <1>4, <1>8, <1>9, <1>11, CaughtFrame
<1>15. L0Left' = L0Left \cup {p} /\ L1Left' = L1Left /\ p \notin L0Left
  <2>1. p \notin ToSet(job.todo0)
    BY <1>5 DEF Listed0, ToSet
  <2> QED BY <1>2, <1>5, <1>6, <2>1 DEF L0Left, L1Left
<1>16. DiskFresh'
  <2> SUFFICES ASSUME NEW k \in Keys
               PROVE  \E v \in Values \cup {Absent} :
                         /\ DiskHolds(k, v)'
                         /\ FreshIn(hist, before, k, Answer(v), SettledDue')
    BY <1>2, <1>7 DEF DiskFresh
  <2>1. /\ SettledDue' \subseteq SettledDue /\ SettledDue \subseteq Due
        /\ SettledDue' \subseteq Due'
    BY <1>8, <1>9 DEF SettledDue
  <2>2. CASE t[k] # Absent
    <3>1. Current(hist, before, t[k].ver, Due)
      BY <1>1, <1>4, <2>2 DEF MemFresh, FreshTable
    <3>2. Current(hist, before, t[k].ver, SettledDue')
      BY <2>1, <3>1 DEF Current
    <3>3. FreshIn(hist, before, k, Answer(t[k]), SettledDue')
      BY <1>1, <1>5, <2>2, <3>2, RecordFresh DEF Within
    <3>4. \A s \in L0Left' : ~(s > p)
      <4>1. \A s \in Stamps \ {p} : disk0[s] # NoFile => s < p
        BY <1>1, <1>4 DEF Quiet, p
      <4>2. \A s \in L0Left : s \in Stamps /\ disk0[s] # NoFile
        BY DEF L0Left
      <4> QED BY <1>5, <1>15, <4>1, <4>2 DEF Stamps
    <3>5. LastOf(disk0', L0Left', k, t[k])
      BY <1>6, <1>15, <2>2, <3>4 DEF LastOf
    <3>6. PICK v : v = t[k]
      OBVIOUS
    <3>7. v \in Values \cup {Absent} /\ DiskHolds(k, v)'
      BY <1>5, <3>5, <3>6 DEF DiskHolds, Table
    <3> QED BY <3>3, <3>6, <3>7
  <2>3. CASE t[k] = Absent
    <3>1. PICK v \in Values \cup {Absent} :
             DiskHolds(k, v) /\ FreshIn(hist, before, k, Answer(v), SettledDue)
      BY <1>1 DEF DiskFresh
    <3>2. FreshIn(hist, before, k, Answer(v), SettledDue')
      BY <1>2, <1>7, <1>8, <1>12, <2>1, <3>1, StaysFresh
    <3>3. \A s \in L0Left : disk0'[s] = disk0[s]
      BY <1>6, <1>15 DEF L0Left
    <3>4. LastOf(disk0, L0Left, k, v) => LastOf(disk0', L0Left', k, v)
      BY <1>6, <1>15, <2>3, <3>3 DEF LastOf
    <3>5. (\A s \in L0Left : disk0[s][k] = Absent) => \A s \in L0Left' : disk0'[s][k] = Absent
      BY <1>6, <1>15, <2>3, <3>3
    <3>6. DiskHolds(k, v)'
      BY <1>2, <1>15, <3>1, <3>4, <3>5 DEF DiskHolds
    <3> QED BY <3>2, <3>6
  <2> QED BY <2>2, <2>3
<1>17. L1Known' /\ ~short'
  BY <1>1, <1>2, <1>15 DEF L1Known, Idle, ToInstall
<1> QED BY <1>9, <1>10, <1>13, <1>14, <1>16, <1>17 DEF CleanInv

\* The log is emptied, by a truncate that returns Ok or an error: what it held
\* is in the file, or not due any more.
Empties(c) == flush_truncate(c) \/ (flush_error(c) /\ log' # log)

LEMMA TruncateClean ==
    ASSUME EngineFreshInv, CleanInv, NEW c \in Clients, Empties(c), FreshNext,
           ~Forgotten
    PROVE  CleanInv'
<1> DEFINE p == th[c].path
<1>1. /\ TypeInv /\ LogOrdered /\ Quiet /\ MemFresh /\ Caught /\ L1Known
      /\ DiskFresh /\ ~short /\ CallInv /\ EngineFilesInv /\ EngineRecordsInv
  BY DEF CleanInv, EngineFreshInv, FreshInv, EngineRecordsInv
<1>2. /\ log' = <<>> /\ acked' = acked /\ proc = "up"
      /\ UNCHANGED <<hist, mem, disk0, disk1, l0, l1, job, short, proc>>
  BY DEF Empties, flush_truncate, flush_error, truncate, Go, At, ReturnError, io_error,
         walVars, levelVars, ioVars
<1>3. Others(c) /\ th[c].pc = "truncate" /\ th'[c].pc \in {"add", "idle"}
  BY <1>1, CallMoves DEF Empties, flush_error, At, walVars
<1>4. "dropped" \notin mishaps \/ log = <<>>
  BY <1>2 DEF Forgotten
<1>5. /\ Holds(c) /\ Flight(c) = disk0[p]
      /\ \A b \in Clients : (Holds(b) => b = c) /\ ~Holds(b)'
  BY <1>1, <1>3 DEF Holds, Flight, Others, CallInv
<1>6. /\ mem = EmptyTable /\ \A d \in Clients : th'[d].pc # "insert"
      /\ \A s \in Stamps \ {p} : disk0[s] # NoFile => s < p
  BY <1>1, <1>3, <1>5 DEF Quiet, Others
<1>7. /\ disk0[p] \in Table /\ Within(disk0[p], Written) /\ p \in Stamps
      /\ p \notin Listed0 /\ disk0[p] # NoFile
  BY <1>1, <1>3, <1>5, FlightTyped
<1>8. before' = before
  BY <1>2 DEF FreshNext
<1>9. Due' \subseteq Due /\ Due \subseteq DOMAIN hist
  BY <1>1, <1>3, CallDue, DueTyped DEF ContinueCall, insert_mem, At, Empties
<1>10. replay(log') = <<>> /\ TornFrames(log') = {} /\ Settled' = Len(hist)
  <2>1. TornFrames(<<>>) = {} /\ Len(<<>>) = 0
    BY DEF TornFrames
  <2>2. replay(<<>>) = <<>> /\ Len(hist) \in Nat
    BY <1>1, <2>1, DueTyped DEF replay
  <2> QED BY <1>2, <2>1, <2>2 DEF Settled
<1>11. LogOrdered'
  <2>1. Len(hist) \in Nat /\ DOMAIN <<>> = {}
    BY <1>1, DueTyped
  <2> QED BY <1>6, <1>10, <2>1 DEF LogOrdered
<1> HIDE DEF p
<1>12. \A m \in Due : m > Settled => disk0[p][hist[m].key] # Absent
  <2> SUFFICES ASSUME NEW m \in Due, m > Settled PROVE disk0[p][hist[m].key] # Absent
    OBVIOUS
  <2>1. hist[m].key \in Keys
    BY <1>1, <1>9, CallTyped
  <2>2. mem[hist[m].key] = Absent
    BY <1>6, <2>1 DEF EmptyTable
  <2>3. log # <<>>
    <3>1. log = <<>> => ~(m > Settled)
      <4>1. log = <<>> => Settled = Len(hist)
        BY <1>2, <1>10 DEF Settled
      <4>2. m \in 1..Len(hist) /\ Len(hist) \in Nat
        BY <1>1, <1>9, DueTyped
      <4> QED BY <4>1, <4>2
    <3> QED BY <3>1
  <2>4. \E b \in Clients : Holds(b) /\ Flight(b)[hist[m].key] # Absent
    BY <1>1, <1>2, <1>4, <2>2, <2>3 DEF Caught
  <2> QED BY <1>5, <2>4
<1>13. MemFresh'
  <2>1. FreshTable(hist, before, EmptyTable, Due')
    BY DEF FreshTable, EmptyTable
  <2> QED BY <1>2, <1>5, <1>6, <1>8, <2>1 DEF MemFresh
<1>14. Caught'
  <2>1. \A m \in DOMAIN hist : ~(m > Len(hist))
    <3>1. DOMAIN hist = 1..Len(hist) /\ Len(hist) \in Nat
      BY <1>1, DueTyped
    <3> QED BY <3>1
  <2> QED BY <1>9, <1>10, <2>1 DEF Caught
<1>15. L0Left' = L0Left /\ L1Left' = L1Left /\ p \in L0Left
  <2>1. p \notin ToSet(job.todo0)
    BY <1>7 DEF Listed0, ToSet
  <2> QED BY <1>2, <1>7, <2>1 DEF L0Left, L1Left
<1>16. DiskFresh'
  <2> SUFFICES ASSUME NEW k \in Keys
               PROVE  \E v \in Values \cup {Absent} :
                         /\ DiskHolds(k, v)'
                         /\ FreshIn(hist, before, k, Answer(v), SettledDue')
    BY <1>2, <1>8 DEF DiskFresh
  <2>1. SettledDue' \subseteq Due /\ SettledDue \subseteq DOMAIN hist
    BY <1>9 DEF SettledDue
  <2>2. ASSUME NEW v, DiskHolds(k, v) PROVE DiskHolds(k, v)'
    BY <1>2, <1>15, <2>2 DEF DiskHolds
  <2>3. CASE disk0[p][k] # Absent
    <3>1. PICK v : v = disk0[p][k]
      OBVIOUS
    <3>2. Current(hist, before, v.ver, SettledDue')
      BY <1>1, <1>5, <2>1, <2>3, <3>1 DEF MemFresh, FreshTable, Current
    <3>3. FreshIn(hist, before, k, Answer(v), SettledDue')
      BY <1>1, <1>7, <2>3, <3>1, <3>2, RecordFresh DEF Within
    <3>4. \A s \in L0Left : ~(s > p)
      <4>1. \A s \in L0Left : s \in Stamps /\ disk0[s] # NoFile
        BY DEF L0Left
      <4> QED BY <1>6, <1>7, <4>1 DEF Stamps
    <3>5. LastOf(disk0, L0Left, k, v)
      BY <1>15, <2>3, <3>1, <3>4 DEF LastOf
    <3>6. v \in Values \cup {Absent} /\ DiskHolds(k, v)
      BY <1>7, <3>1, <3>5 DEF DiskHolds, Table
    <3> QED BY <2>2, <3>3, <3>6
  <2>4. CASE disk0[p][k] = Absent
    <3>1. PICK v \in Values \cup {Absent} :
             DiskHolds(k, v) /\ FreshIn(hist, before, k, Answer(v), SettledDue)
      BY <1>1 DEF DiskFresh
    <3>2. \A m \in SettledDue' : hist[m].key = k => m \in SettledDue
      <4> SUFFICES ASSUME NEW m \in SettledDue', hist[m].key = k PROVE m <= Settled
        BY <2>1 DEF SettledDue
      <4>1. m \in Due /\ ~(m > Settled)
        BY <1>12, <2>1, <2>4
      <4>2. m \in Int /\ Settled \in Int
        BY <1>1, <4>1, DueTyped, SettledTyped
      <4> QED BY <4>1, <4>2
    <3>3. GoesOn(hist, before, hist, before)
      BY DEF GoesOn
    <3>4. SettledDue' \in SUBSET DOMAIN hist
      BY <1>9, <2>1
    <3>5. FreshIn(hist, before, k, Answer(v), SettledDue')
      BY <2>1, <3>1, <3>2, <3>3, <3>4, StaysFresh
    <3> QED BY <2>2, <3>1, <3>5
  <2> QED BY <2>3, <2>4
<1>17. Quiet' /\ L1Known' /\ ~short'
  BY <1>1, <1>2, <1>5, <1>15 DEF L1Known, Idle, ToInstall, Quiet
<1> QED BY <1>11, <1>13, <1>14, <1>16, <1>17 DEF CleanInv

-----------------------------------------------------------------------------
(***************************************************************************)
(* The end of the process, and the next one.                               *)
(***************************************************************************)
LEMMA ForgetClean ==
    ASSUME EngineFreshInv, CleanInv, Forget, log' = log \/ append_torn, FreshNext,
           ~CutShort, ~TornOver
    PROVE  CleanInv'
<1>1. /\ TypeInv /\ LogOrdered /\ DiskFresh /\ ~short
  BY DEF CleanInv, EngineFreshInv, EngineRecordsInv
<1>2. /\ proc' = "down" /\ mem' = EmptyTable /\ acked' = acked /\ job' = NoJob
      /\ UNCHANGED <<hist, disk0, disk1, short>>
      /\ \A d \in Clients : th'[d].pc = "idle"
  BY RestingTyped DEF Forget, fileVars, ioVars
<1>3. job' = job
  BY <1>2 DEF CutShort, Idle
<1>4. \A d \in Clients : ~Inserted(d)' /\ ~Holds(d)' /\ th'[d].pc # "insert"
  BY <1>2 DEF Inserted, Holds
<1>5. Due' \subseteq Due /\ before' = before
  BY <1>2, <1>4 DEF Due, FreshNext
<1>6. LogOrdered' /\ Settled' = Settled
  BY <1>1, <1>2, <1>4, LogFrame, TornOrdered
<1>7. Quiet' /\ Caught' /\ L1Known' /\ ~short'
  BY <1>1, <1>2, <1>4 DEF Quiet, Caught, L1Known
<1>8. MemFresh'
  <2>1. FreshTable(hist', before', EmptyTable, Due')
    BY DEF FreshTable, EmptyTable
  <2> QED BY <1>2, <1>4, <2>1 DEF MemFresh
<1>9. DiskFresh'
  <2>1. L0Left' = L0Left /\ L1Left' = L1Left
    BY <1>2, <1>3 DEF L0Left, L1Left
  <2>2. GoesOn(hist, before, hist', before') /\ SettledDue' \subseteq SettledDue
    BY <1>2, <1>5, <1>6 DEF GoesOn, SettledDue
  <2> QED BY <1>1, <1>2, <2>1, <2>2, DiskFrame
<1> QED BY <1>6, <1>7, <1>8, <1>9 DEF CleanInv

\* What reopening rebuilds from the log is fresh, and has every key of the
\* calls due that are in the log.
LEMMA RebuildFresh ==
    ASSUME TypeInv, CallInv, LogOrdered
    PROVE  /\ Rebuild(replay(log)) \in Table
           /\ FreshTable(hist, before, Rebuild(replay(log)), Due)
           /\ \A m \in DOMAIN hist : m > Settled =>
                 Rebuild(replay(log))[hist[m].key] # Absent
<1> DEFINE es == replay(log)
           W(k) == {i \in DOMAIN es : es[i].key = k}
<1>1. /\ Len(hist) \in Nat /\ DOMAIN hist = 1..Len(hist) /\ Due \subseteq DOMAIN hist
      /\ log \in Seq(Frames) /\ es \in Seq(Frames)
  BY DueTyped, ReplayProperties
<1>2. Len(es) \in Nat /\ DOMAIN es = 1..Len(es)
  BY <1>1, LenProperties
<1>3. /\ Settled = Len(hist) - Len(es) /\ Settled >= 0
      /\ \A i \in DOMAIN es :
            /\ es[i].key = hist[Settled + i].key
            /\ es[i].value = Record(Settled + i, hist[Settled + i].tomb)
  BY DEF LogOrdered, Settled
<1>4. Rebuild(es) = [k \in Keys |-> IF W(k) = {} THEN Absent ELSE es[Max(W(k))].value]
  BY DEF Rebuild
<1>5. Rebuild(es) \in Table
  BY <1>1, RebuildProperties
<1> HIDE DEF es
<1>6. \A i \in DOMAIN es : Settled + i \in DOMAIN hist
  BY <1>1, <1>2, <1>3
<1>7. ASSUME NEW k \in Keys, NEW i \in W(k)
      PROVE  /\ Max(W(k)) \in W(k) /\ i <= Max(W(k))
  <2>1. W(k) \subseteq 1..Len(es) /\ W(k) # {}
    BY <1>2, <1>7
  <2> HIDE DEF W
  <2> QED BY <1>2, <1>7, <2>1, MaxProperties
<1>8. FreshTable(hist, before, Rebuild(es), Due)
  <2> SUFFICES ASSUME NEW k \in Keys, Rebuild(es)[k] # Absent,
                      NEW m \in Due, hist[m].key = hist[Rebuild(es)[k].ver].key
               PROVE  Rebuild(es)[k].ver \notin before[m]
    BY DEF FreshTable, Current
  <2> DEFINE j == Max(W(k))
             n == Settled + j
  <2>1. W(k) # {} /\ Rebuild(es)[k] = es[j].value
    BY <1>4
  <2>2. j \in DOMAIN es /\ es[j].key = k /\ \A i \in W(k) : i <= j
    BY <1>7, <2>1
  <2> HIDE DEF j
  <2>3. /\ n \in DOMAIN hist /\ hist[n].key = k
        /\ Rebuild(es)[k] = Record(n, hist[n].tomb)
    BY <1>3, <1>6, <2>1, <2>2
  <2>4. n \in 1..MaxWrites /\ hist[n].tomb \in BOOLEAN
    BY <2>3, CallTyped
  <2>5. Rebuild(es)[k].ver = n
    BY <2>3, <2>4, RecordTyped
  <2>6. m <= n
    <3>1. m \in 1..Len(hist) /\ hist[m].key = k
      BY <1>1, <2>3, <2>5
    <3>2. CASE m <= Settled
      BY <1>1, <1>2, <1>3, <2>2, <3>1, <3>2
    <3>3. CASE m > Settled
      <4>1. m - Settled \in 1..Len(es) /\ Settled + (m - Settled) = m
        BY <1>1, <1>2, <1>3, <3>1, <3>3
      <4>2. m - Settled \in W(k)
        BY <1>2, <1>3, <3>1, <4>1
      <4> QED BY <1>1, <1>2, <1>3, <2>2, <3>1, <4>2
    <3> QED BY <1>1, <1>2, <1>3, <3>1, <3>2, <3>3
  <2>7. n \notin before[m]
    <3>1. \A x \in before[m] : x < m
      BY <1>1 DEF CallInv
    <3>2. m \in Int /\ n \in Int
      BY <1>1, <2>3
    <3> QED BY <2>6, <3>1, <3>2
  <2> QED BY <2>5, <2>7
<1>9. ASSUME NEW m \in DOMAIN hist, m > Settled PROVE Rebuild(es)[hist[m].key] # Absent
  <2> DEFINE k == hist[m].key
  <2>1. m \in 1..Len(hist) /\ k \in Keys
    BY <1>1, CallTyped
  <2>2. m - Settled \in 1..Len(es) /\ Settled + (m - Settled) = m
    BY <1>1, <1>2, <1>3, <1>9, <2>1
  <2>3. m - Settled \in W(k)
    BY <1>2, <1>3, <2>2
  <2>4. Max(W(k)) \in DOMAIN es
    BY <1>7, <2>1, <2>3
  <2>5. Rebuild(es)[k] = es[Max(W(k))].value
    BY <1>4, <2>1, <2>3
  <2> DEFINE j == Max(W(k))
  <2> HIDE DEF j, k
  <2>6. Rebuild(es)[k] = Record(Settled + j, hist[Settled + j].tomb)
    BY <1>3, <2>4, <2>5 DEF j
  <2>7. Settled + j \in DOMAIN hist
    BY <1>6, <2>4 DEF j
  <2> QED BY <2>6, <2>7, CallTyped, RecordTyped DEF k
<1> QED BY <1>5, <1>8, <1>9 DEF es

\* The files of a level that discover_levels finds are all there are.
LEMMA FoundMembers ==
    ASSUME NEW disk \in Directory
    PROVE  ToSet(Found(disk)) = {s \in Stamps : disk[s] # NoFile}
<1>1. Found(disk) \in Seq(Stamps)
  BY FoundProperties
<1>2. \A s \in Stamps : disk[s] # NoFile <=> \E i \in DOMAIN Found(disk) : Found(disk)[i] = s
  BY FoundOrder
<1>3. \A i \in DOMAIN Found(disk) : Found(disk)[i] \in Stamps
  BY <1>1, LenProperties, ElementOfSeq
<1> QED BY <1>2, <1>3 DEF ToSet

LEMMA OpenClean ==
    ASSUME EngineFreshInv, CleanInv, open, FreshNext
    PROVE  CleanInv'
<1>1. /\ TypeInv /\ CallInv /\ LogOrdered /\ DiskFresh /\ ~short
      /\ disk0 \in Directory /\ disk1 \in Directory
  BY DueTyped DEF CleanInv, EngineFreshInv, EngineRecordsInv, FreshInv
<1>2. /\ proc = "down" /\ mem' = Rebuild(replay(log)) /\ l1' = Found(disk1)
      /\ UNCHANGED <<log, hist, disk0, disk1, job, short, th, acked>>
  BY DEF open, discover_levels, walVars, fileVars, ioVars
<1>3. Idle /\ \A d \in Clients : th[d].pc = "idle"
  BY <1>1, <1>2 DEF TypeInv, LsmTypeOK, ThreadsFit
<1>4. \A d \in Clients : ~Holds(d) /\ ~Holds(d)'
  BY <1>2, <1>3 DEF Holds
<1>5. Due' = Due /\ before' = before
  BY <1>2 DEF Due, Inserted, Call, FreshNext
<1>6. LogOrdered' /\ Settled' = Settled
  BY <1>1, <1>2, LogFrame
<1>7. Quiet' /\ ~short'
  BY <1>1, <1>2, <1>4 DEF Quiet
<1>8. MemFresh' /\ Caught'
  <2>1. \A m \in Due : m \in DOMAIN hist
    BY <1>1, DueTyped
  <2> QED BY <1>1, <1>2, <1>4, <1>5, <1>6, <2>1, RebuildFresh DEF MemFresh, Caught
<1>9. L0Left' = L0Left /\ L1Left' = L1Left
  BY <1>2 DEF L0Left, L1Left
<1>10. L1Known'
  <2>1. job.todo1 = <<>> /\ ToSet(job.todo1) = {}
    BY <1>3, JobProperties DEF Idle, ToSet
  <2>2. L1Left = ToSet(Found(disk1))
    BY <1>1, <2>1, FoundMembers DEF L1Left
  <2> QED BY <1>2, <1>3, <1>9, <2>2 DEF L1Known, Idle
<1>11. DiskFresh'
  <2>1. GoesOn(hist, before, hist', before') /\ SettledDue' \subseteq SettledDue
    BY <1>2, <1>5, <1>6 DEF GoesOn, SettledDue
  <2> QED BY <1>1, <1>2, <1>9, <2>1, DiskFrame
<1> QED BY <1>6, <1>7, <1>8, <1>10, <1>11 DEF CleanInv

-----------------------------------------------------------------------------
(***************************************************************************)
(* The other steps of calls, of the compaction thread between compactions, *)
(* and of Drop.                                                            *)
(***************************************************************************)
LEMMA CallPlain ==
    ASSUME EngineFreshInv, CleanInv, FreshNext, NEW c \in Clients,
           \/ \E k \in Keys : get(c, k)
           \/ get_levels(c) \/ next_sstable_path(c) \/ flush_add(c)
           \/ flush_error(c) /\ log' = log,
           "dropped" \notin mishaps' => "dropped" \notin mishaps /\ ~Dropped
    PROVE  CleanInv'
<1>1. TypeInv /\ EngineFilesInv /\ EngineRecordsInv
  BY DEF EngineFreshInv, EngineRecordsInv
<1>2. UNCHANGED <<log, hist, mem, disk0, disk1, l1, job, short, proc>>
  BY DEF get, get_levels, next_sstable_path, flush_add, flush_error, add_l0_file,
     io_error, walVars, levelVars, fileVars, ioVars
<1>3. before' = before
  BY <1>2 DEF FreshNext
<1>4. /\ Others(c) /\ th'[c].pc \in {"idle", "levels", "swap"}
      /\ Holds(c) => th'[c].pc = "idle" /\ proc' = "up"
  BY <1>1, <1>2, CallMoves
     DEF get, get_levels, next_sstable_path, flush_add, flush_error, At, Holds
<1>5. Due' \subseteq Due
  BY <1>1, CallDue
     DEF BeginCall, ContinueCall, insert_mem, get, get_levels, next_sstable_path,
         flush_add, flush_error, At
<1>6. Holds(c) => Dropped
  BY <1>4 DEF Holds, Dropped
<1>7. \A d \in Clients :
         /\ Holds(d)' => /\ Holds(d) /\ th'[d].pc = th[d].pc
                         /\ th'[d].path = th[d].path
                         /\ th'[d].old_mem = th[d].old_mem
         /\ th'[d].pc = "insert" =>
               th[d].pc = "insert" /\ th'[d].entry = th[d].entry
  BY <1>4 DEF Others, Holds
<1>8. "dropped" \notin mishaps' => \A d \in Clients : Holds(d) => th'[d] = th[d]
  BY <1>4, <1>6 DEF Others
<1> QED BY <1>1, <1>2, <1>3, <1>5, <1>7, <1>8, PlainStep

LEMMA WriteErrorClean ==
    ASSUME EngineFreshInv, CleanInv, FreshNext, NEW c \in Clients, write_wal_error(c),
           ~TornOver, "dropped" \notin mishaps' => "dropped" \notin mishaps
    PROVE  CleanInv'
<1>1. /\ TypeInv /\ LogOrdered /\ Quiet /\ MemFresh /\ Caught /\ L1Known
      /\ DiskFresh /\ ~short /\ EngineFilesInv /\ EngineRecordsInv
  BY DEF CleanInv, EngineFreshInv, EngineRecordsInv
<1>2. /\ append_torn
      /\ UNCHANGED <<hist, mem, disk0, disk1, l1, job, short, proc, th, acked>>
  BY DEF write_wal_error, io_error
<1>3. Due' = Due /\ before' = before
  BY <1>2 DEF Due, Inserted, Call, FreshNext
<1>4. LogOrdered' /\ Settled' = Settled
  BY <1>1, <1>2, TornOrdered
<1>5. /\ GoesOn(hist, before, hist', before')
      /\ \A d \in Clients : /\ Holds(d)' <=> Holds(d)
                            /\ Flight(d)' = Flight(d)
  BY <1>2, <1>3 DEF GoesOn, Holds, Flight
<1>6. MemFresh'
  BY <1>1, <1>2, <1>3, <1>5, MemFrame
<1>7. Caught'
  BY <1>1, <1>2, <1>3, <1>4, <1>5, CaughtFrame
<1>8. L0Left' = L0Left /\ L1Left' = L1Left
  BY <1>2 DEF L0Left, L1Left
<1>9. DiskFresh'
  <2>1. SettledDue' \subseteq SettledDue
    BY <1>3, <1>4 DEF SettledDue
  <2> QED BY <1>1, <1>2, <1>5, <1>8, <2>1, DiskFrame
<1>10. Quiet' /\ L1Known' /\ ~short'
  BY <1>1, <1>2, <1>5, <1>8 DEF Quiet, L1Known, Idle, ToInstall
<1> QED BY <1>4, <1>6, <1>7, <1>9, <1>10 DEF CleanInv

LEMMA StillClean ==
    ASSUME EngineFreshInv, CleanInv,
           UNCHANGED <<log, hist, before, mem, disk0, disk1, l1, job, short, th, acked>>,
           proc' # "down" => proc # "down",
           proc' # "down" /\ "dropped" \notin mishaps' => "dropped" \notin mishaps
    PROVE  CleanInv'
<1>1. EngineFilesInv /\ EngineRecordsInv
  BY DEF EngineFreshInv
<1>2. Due' = Due /\ \A d \in Clients : Holds(d)' <=> Holds(d)
  BY DEF Due, Inserted, Call, Holds
<1> QED BY <1>1, <1>2, PlainStep

-----------------------------------------------------------------------------
(***************************************************************************)
(* Compaction.                                                             *)
(***************************************************************************)
LEMMA CompactorFrame ==
    ASSUME EngineFreshInv, CleanInv, compact_begin \/ compact_end,
           UNCHANGED <<log, hist, before, mem, th, acked, proc, short>>,
           L1Known', DiskFresh', "dropped" \notin mishaps' => "dropped" \notin mishaps
    PROVE  CleanInv'
<1>1. /\ TypeInv /\ LogOrdered /\ Quiet /\ MemFresh /\ Caught
      /\ ~short /\ EngineFilesInv /\ EngineRecordsInv /\ LevelTypeOK
  BY DEF CleanInv, EngineFreshInv, EngineRecordsInv, TypeInv, LsmTypeOK
<1>2. /\ \A p \in Stamps : p \notin Listed0 => disk0'[p] = disk0[p]
      /\ \A p \in Stamps : disk0'[p] # NoFile => disk0[p] = disk0'[p]
  BY <1>1, CompactOnL0
<1>3. Due' = Due
  BY DEF Due, Inserted, Call
<1>4. \A d \in Clients : /\ Holds(d)' <=> Holds(d)
                         /\ Holds(d) => Flight(d)' = Flight(d)
  <2> SUFFICES ASSUME NEW d \in Clients, Holds(d) PROVE Flight(d)' = Flight(d)
    BY DEF Holds
  <2>1. th[d].path \in Stamps /\ th[d].path \notin Listed0
    BY <1>1, FlightTyped
  <2> QED BY <1>2, <2>1 DEF Flight
<1>5. LogOrdered' /\ Settled' = Settled
  BY <1>1, LogFrame
<1>6. Quiet'
  <2>1. \A s \in Stamps : disk0'[s] # NoFile => disk0[s] # NoFile
    BY <1>2
  <2> QED BY <1>1, <1>4, <2>1 DEF Quiet
<1>7. GoesOn(hist, before, hist', before')
  BY DEF GoesOn
<1>8. MemFresh'
  BY <1>1, <1>3, <1>4, <1>7, MemFrame
<1>9. Caught'
  BY <1>1, <1>3, <1>4, <1>5, CaughtFrame
<1> QED BY <1>1, <1>5, <1>6, <1>8, <1>9 DEF CleanInv

\* A merge of files no two of which have a key, and none of which has one that
\* an older file not yet tracked has, changes nothing that a get would answer.
LEMMA MergeFresh ==
    ASSUME StrictClock, EngineFreshInv, CleanInv, compact_merge, ~Contested, ~Outrun,
           UNCHANGED <<log, hist, before, th, acked, proc>>, proc # "down"
    PROVE  L1Known' /\ DiskFresh'
<1>1. /\ TypeInv /\ L1Known /\ DiskFresh /\ FilesInv
      /\ disk0 \in Directory /\ disk1 \in Directory
      /\ l0 \in Seq(Stamps) /\ l1 \in Seq(Stamps)
  BY DEF CleanInv, EngineFreshInv, EngineFilesInv, FilesInv, LevelTypeOK
<1>2. PICK s \in Stamps, O \in SUBSET Stamps, out \in Table : Merges(s, O, out)
  BY <1>1, MergeStep
<1>3. /\ s \notin ToSet(l1) /\ O \subseteq ToSet(l1)
      /\ disk0' = disk0 /\ disk1' = [disk1 EXCEPT ![s] = out] /\ disk1'[s] = out
      /\ Idle /\ ~Idle'
      /\ job'.todo0 = l0 /\ ToSet(job'.todo1) = O
      /\ ToSet(ToInstall') = (ToSet(l1) \ O) \cup {s}
  BY <1>2 DEF Merges
<1>4. job.todo0 = <<>> /\ job.todo1 = <<>> /\ ToSet(<<>>) = {}
  BY <1>3, JobProperties DEF Idle, ToSet
<1>5. /\ L0Left = {p \in Stamps : disk0[p] # NoFile}
      /\ L0Left' = L0Left \ ToSet(l0)
  BY <1>3, <1>4 DEF L0Left
<1>6. ToSet(l0) \subseteq L0Left
  <2>1. \A i \in DOMAIN l0 : l0[i] \in Stamps /\ disk0[l0[i]] # NoFile
    BY <1>1, LenProperties, ElementOfSeq DEF FilesInv
  <2> QED BY <1>5, <2>1 DEF ToSet
<1>7. L1Left = ToSet(l1) /\ L1Left' = ToSet(ToInstall')
  <2>1. L1Left = ToSet(l1) /\ L1Left = {p \in Stamps : disk1[p] # NoFile}
    BY <1>1, <1>3, <1>4 DEF L1Known, L1Left
  <2>2. /\ disk1'[s] # NoFile
        /\ \A p \in Stamps \ {s} : disk1'[p] = disk1[p]
    BY <1>1, <1>3, TablesAssumption DEF Directory
  <2> QED BY <1>3, <2>1, <2>2 DEF L1Left
<1>8. L1Known'
  BY <1>3, <1>7 DEF L1Known, ToInstall
<1>9. SettledDue' = SettledDue
  BY DEF SettledDue, Settled, Due, Inserted, Call
<1>10. DiskFresh'
  <2> SUFFICES ASSUME NEW k \in Keys
               PROVE  \E v \in Values \cup {Absent} :
                         /\ DiskHolds(k, v)'
                         /\ FreshIn(hist, before, k, Answer(v), SettledDue)
    BY <1>9 DEF DiskFresh
  <2>1. PICK v \in Values \cup {Absent} :
           DiskHolds(k, v) /\ FreshIn(hist, before, k, Answer(v), SettledDue)
    BY <1>1 DEF DiskFresh
  <2>2. PICK x0 : OneRecord(disk0, ToSet(l0), k, x0)
    <3>1. \A p, q \in ToSet(l0) : disk0[p][k] # Absent /\ disk0[q][k] # Absent => p = q
      BY <1>3 DEF Contested, ToSet
    <3>2. ToSet(l0) \in SUBSET Stamps /\ \A p \in ToSet(l0) : disk0[p] # NoFile
      BY <1>5, <1>6
    <3> QED BY <1>1, <3>1, <3>2, OneRecordExists
  <2>3. ASSUME NEW y, OneRecord(disk1', ToSet(ToInstall'), k, y),
               Answer(y) = Answer(v), \A p \in L0Left' : disk0[p][k] = Absent
        PROVE  y \in Values \cup {Absent} /\ DiskHolds(k, y)'
    BY <1>3, <1>7, <2>3 DEF DiskHolds, OneRecord
  <2>4. CASE LastOf(disk0, L0Left, k, v)
    <3>1. PICK p \in L0Left :
             /\ v # Absent /\ disk0[p][k] = v
             /\ \A t \in L0Left : t > p => disk0[t][k] = Absent
      BY <2>4 DEF LastOf
    <3>2. CASE p \notin ToSet(l0)
      <4>1. LastOf(disk0, L0Left', k, v)
        BY <1>5, <3>1, <3>2 DEF LastOf
      <4> QED BY <1>3, <2>1, <4>1 DEF DiskHolds
    <3>3. CASE p \in ToSet(l0)
      <4>1. x0 = v
        BY <2>2, <3>1, <3>3 DEF OneRecord
      <4>2. \A t \in L0Left' : disk0[t][k] = Absent
        <5> SUFFICES ASSUME NEW t \in L0Left', disk0[t][k] # Absent PROVE FALSE
          OBVIOUS
        <5>1. t \in Stamps \ ToSet(l0) /\ t # p /\ disk0[t] # NoFile /\ ~(t > p)
          BY <1>5, <3>1, <3>3
        <5>2. t < p
          BY <1>5, <3>1, <5>1 DEF Stamps
        <5> QED BY <1>3, <3>1, <3>3, <5>1, <5>2 DEF Outrun
      <4>3. \E y : /\ OneRecord(disk1', ToSet(ToInstall'), k, y)
                   /\ Answer(y) = Answer(IF x0 # Absent THEN x0 ELSE v)
        BY <1>1, <2>2, <3>1, <4>1, MergeOne
      <4>4. PICK y : /\ OneRecord(disk1', ToSet(ToInstall'), k, y)
                     /\ Answer(y) = Answer(v)
        BY <3>1, <4>1, <4>3
      <4> QED BY <2>1, <2>3, <4>2, <4>4
    <3> QED BY <3>2, <3>3
  <2>5. CASE (\A p \in L0Left : disk0[p][k] = Absent) /\ OneRecord(disk1, L1Left, k, v)
    <3>1. OneRecord(disk0, ToSet(l0), k, Absent)
      BY <1>6, <2>5 DEF OneRecord
    <3>2. OneRecord(disk1, ToSet(l1), k, v)
      BY <1>7, <2>5
    <3>3. PICK y : /\ OneRecord(disk1', ToSet(ToInstall'), k, y)
                   /\ Answer(y) = Answer(IF Absent # Absent THEN Absent ELSE v)
      BY <1>1, <3>1, <3>2, MergeOne
    <3>4. \A p \in L0Left' : disk0[p][k] = Absent
      BY <1>5, <2>5
    <3> QED BY <2>1, <2>3, <3>3, <3>4
  <2> QED BY <2>1, <2>4, <2>5 DEF DiskHolds
<1> QED BY <1>8, <1>10

\* What has been merged goes; what the merge left and its output become L1.
LEMMA EndFresh ==
    ASSUME EngineFreshInv, CleanInv, compact_end, ~Kept,
           UNCHANGED <<log, hist, before, th, acked, proc>>, proc # "down"
    PROVE  L1Known' /\ DiskFresh'
<1>1. /\ TypeInv /\ L1Known /\ DiskFresh /\ FilesInv /\ LevelTypeOK
      /\ disk0 \in Directory /\ disk1 \in Directory /\ faults \in Nat
      /\ job \in [todo0 : Seq(Stamps), todo1 : Seq(Stamps),
                  untouched : Seq(Stamps), output : Stamps \cup {0}]
  <2>1. LevelTypeOK /\ TypeInv /\ L1Known /\ DiskFresh /\ FilesInv
    BY DEF CleanInv, EngineFreshInv, EngineFilesInv, FilesInv
  <2>2. MaxFaults \in Nat
    BY LevelAssumption
  <2> QED BY <2>1, <2>2 DEF LevelTypeOK
<1>2. SettledDue' = SettledDue /\ GoesOn(hist, before, hist', before')
  BY DEF SettledDue, Settled, Due, Inserted, Call, GoesOn
<1>3. ~Idle
  BY JobProperties
     DEF compact_end, remove_l0_input, remove_l1_input, compact_install, Idle
<1>4. L1Left = ToSet(ToInstall)
  BY <1>1, <1>3 DEF L1Known
<1>5. ASSUME NEW q \in Seq(Stamps), q # <<>>
      PROVE  Head(q) \in Stamps /\ ToSet(q) = {Head(q)} \cup ToSet(Tail(q))
  <2>1. /\ 1 \in DOMAIN q /\ Head(q) = q[1] /\ Head(q) \in Stamps
        /\ \A m \in DOMAIN Tail(q) : \E i \in DOMAIN q : Tail(q)[m] = q[i]
    BY <1>5, TailMembers
  <2>2. \A i \in DOMAIN q :
           q[i] = Head(q) \/ \E m \in DOMAIN Tail(q) : Tail(q)[m] = q[i]
    BY <1>5, HeadOrTail
  <2> QED BY <2>1, <2>2 DEF ToSet
<1>6. ~io_error
  BY <1>1, <1>3 DEF Kept, io_error
<1>7. CASE remove_l0_input
  <2>1. /\ job.todo0 # <<>> /\ disk0' = [disk0 EXCEPT ![Head(job.todo0)] = NoFile]
        /\ job' = [job EXCEPT !.todo0 = Tail(@)] /\ UNCHANGED disk1
    BY <1>6, <1>7 DEF remove_l0_input
  <2>2. /\ job'.todo0 = Tail(job.todo0) /\ job'.todo1 = job.todo1
        /\ job'.untouched = job.untouched /\ job'.output = job.output
    BY <1>1, <2>1
  <2>3. /\ Head(job.todo0) \in Stamps
        /\ ToSet(job.todo0) = {Head(job.todo0)} \cup ToSet(job'.todo0)
    BY <1>1, <1>5, <2>1, <2>2
  <2>4. /\ disk0'[Head(job.todo0)] = NoFile
        /\ \A p \in Stamps \ {Head(job.todo0)} : disk0'[p] = disk0[p]
    BY <1>1, <2>1, <2>3 DEF Directory
  <2>5. /\ L0Left' = L0Left /\ L1Left' = L1Left
        /\ \A p \in L0Left : disk0'[p] = disk0[p]
    BY <2>1, <2>2, <2>3, <2>4 DEF L0Left, L1Left
  <2>6. DiskFresh'
    BY <1>1, <1>2, <2>1, <2>5, DiskFrame
  <2>7. ToInstall' = ToInstall /\ ~Idle'
    BY <1>1, <1>3, <2>2, JobProperties DEF ToInstall, Idle, LevelTypeOK
  <2> QED BY <1>4, <2>5, <2>6, <2>7 DEF L1Known
<1>8. CASE remove_l1_input
  <2>1. /\ job.todo1 # <<>> /\ disk1' = [disk1 EXCEPT ![Head(job.todo1)] = NoFile]
        /\ job' = [job EXCEPT !.todo1 = Tail(@)] /\ UNCHANGED disk0
    BY <1>6, <1>8 DEF remove_l1_input
  <2>2. /\ job'.todo1 = Tail(job.todo1) /\ job'.todo0 = job.todo0
        /\ job'.untouched = job.untouched /\ job'.output = job.output
    BY <1>1, <2>1
  <2>3. /\ Head(job.todo1) \in Stamps
        /\ ToSet(job.todo1) = {Head(job.todo1)} \cup ToSet(job'.todo1)
    BY <1>1, <1>5, <2>1, <2>2
  <2>4. /\ disk1'[Head(job.todo1)] = NoFile
        /\ \A p \in Stamps \ {Head(job.todo1)} : disk1'[p] = disk1[p]
    BY <1>1, <2>1, <2>3 DEF Directory
  <2>5. /\ L0Left' = L0Left /\ L1Left' = L1Left
        /\ \A p \in L1Left : disk1'[p] = disk1[p]
    BY <2>1, <2>2, <2>3, <2>4 DEF L0Left, L1Left
  <2>6. DiskFresh'
    BY <1>1, <1>2, <2>1, <2>5, DiskFrame
  <2>7. ToInstall' = ToInstall /\ ~Idle'
    BY <1>1, <1>3, <2>2, JobProperties DEF ToInstall, Idle, LevelTypeOK
  <2> QED BY <1>4, <2>5, <2>6, <2>7 DEF L1Known
<1>9. CASE compact_install
  <2>1. /\ job.todo0 = <<>> /\ job.todo1 = <<>>
        /\ l1' = ToInstall /\ job' = NoJob /\ UNCHANGED <<disk0, disk1>>
    BY <1>9 DEF compact_install, ToInstall
  <2>2. L0Left' = L0Left /\ L1Left' = L1Left
    BY <2>1, JobProperties DEF L0Left, L1Left
  <2>3. DiskFresh'
    BY <1>1, <1>2, <2>1, <2>2, DiskFrame
  <2> QED BY <1>4, <2>1, <2>2, <2>3 DEF L1Known, Idle
<1> QED BY <1>7, <1>8, <1>9 DEF compact_end

LEMMA CompactorClean ==
    ASSUME StrictClock, EngineFreshInv, CleanInv, FreshNext, CompactorNext,
           ~Contested, ~Outrun, ~DrainedAway, ~CutScan, ~Kept,
           "dropped" \notin mishaps' => "dropped" \notin mishaps
    PROVE  CleanInv'
<1>1. UNCHANGED <<log, hist, mem, th, acked, proc>> /\ proc # "down"
  BY DEF CompactorNext, compactor_check, compactor_poll, compactor_begin,
     compactor_remove, compactor_install, Compactor, walVars
<1>2. before' = before /\ ~short /\ LevelTypeOK
  BY <1>1 DEF FreshNext, CleanInv, EngineFreshInv, EngineFilesInv, FilesInv
<1>3. CASE UNCHANGED levelVars
  BY <1>1, <1>2, <1>3, StillClean DEF levelVars, ioVars
<1>4. CASE compact_begin
  <2>1. ~compact_merge_short
    BY <1>2 DEF compact_merge_short, short_scan, CutScan
  <2>2. ~compact_l0_error /\ ~compact_l1_error
    BY <1>1 DEF compact_l0_error, compact_l1_error, drain_l0, DrainedAway, Idle
  <2>3. compact_merge /\ short' = short
    BY <1>4, <2>1, <2>2 DEF compact_begin, compact_merge, ioVars
  <2>4. L1Known' /\ DiskFresh'
    BY <1>1, <1>2, <2>3, MergeFresh
  <2> QED BY <1>1, <1>2, <1>4, <2>3, <2>4, CompactorFrame
<1>5. CASE compact_end
  <2>1. short' = short
    BY <1>5 DEF compact_end, remove_l0_input, remove_l1_input, compact_install,
       io_error, ioVars
  <2>2. L1Known' /\ DiskFresh'
    BY <1>1, <1>2, <1>5, EndFresh
  <2> QED BY <1>1, <1>2, <1>5, <2>1, <2>2, CompactorFrame
<1> QED
  BY <1>3, <1>4, <1>5
     DEF CompactorNext, compactor_check, compactor_poll, compactor_begin,
         compactor_remove, compactor_install, Compactor, compact_begin, compact_end

-----------------------------------------------------------------------------
(***************************************************************************)
(* The theorem.                                                            *)
(***************************************************************************)
LEMMA FreshInitially == FreshInit => EngineFreshInv
<1> SUFFICES ASSUME FreshInit PROVE EngineFreshInv
  OBVIOUS
<1>1. EngineFilesInv /\ EngineRecordsInv
  BY EngineFilesInitially, RecordsInitially DEF FreshInit
<1>2. /\ log = <<>> /\ hist = <<>> /\ before = <<>> /\ acked = {} /\ proc = "down"
      /\ mem = EmptyTable /\ short = FALSE
      /\ \A s \in Stamps : disk0[s] = NoFile /\ disk1[s] = NoFile
      /\ \A c \in Clients : th[c].pc = "idle"
  BY RestingTyped DEF FreshInit, LsmInit, LevelInit, WalInit
<1>3. \A c \in Clients : ~Busy(c) /\ ~Inserted(c) /\ ~Holds(c)
  BY <1>2 DEF Busy, Inserted, Holds
<1>4. <<>> \in Seq(SUBSET Nat) /\ Len(<<>>) = 0 /\ DOMAIN <<>> = {}
  OBVIOUS
<1>5. CallInv
  BY <1>2, <1>3, <1>4 DEF CallInv
<1>6. LogOrdered
  <2>1. TornFrames(<<>>) = {} /\ replay(<<>>) = <<>>
    BY <1>4 DEF TornFrames, replay
  <2>2. Settled = 0
    BY <1>2, <1>4, <2>1 DEF Settled
  <2> QED BY <1>2, <1>4, <2>1, <2>2 DEF LogOrdered
<1>7. Quiet /\ Caught /\ L1Known /\ ~short
  BY <1>2, <1>3 DEF Quiet, Caught, L1Known
<1>8. MemFresh
  BY <1>2, <1>3 DEF MemFresh, FreshTable, EmptyTable
<1>9. DiskFresh
  <2> SUFFICES ASSUME NEW k \in Keys
               PROVE  /\ DiskHolds(k, Absent)
                      /\ FreshIn(hist, before, k, Answer(Absent), SettledDue)
    BY DEF DiskFresh
  <2>1. L0Left = {} /\ L1Left = {} /\ SettledDue = {}
    BY <1>2, <1>3 DEF L0Left, L1Left, SettledDue, Due
  <2>2. Answer(Absent) = Absent
    BY TablesAssumption DEF Answer, is_tombstone
  <2> QED BY <2>1, <2>2 DEF DiskHolds, OneRecord, FreshIn
<1> QED BY <1>1, <1>5, <1>6, <1>7, <1>8, <1>9 DEF EngineFreshInv, FreshInv, CleanInv

LEMMA CleanStays ==
    ASSUME StrictClock, EngineFreshInv, FreshNext, Clean'
    PROVE  CleanInv'
<1>1. /\ ~Wiped /\ ~Misnamed /\ ~Forgotten /\ ~TornOver /\ ~Contested
      /\ ~Outrun /\ ~DrainedAway /\ ~CutShort /\ ~CutScan /\ ~Kept
      /\ proc' # "down" /\ "dropped" \notin mishaps' =>
            "dropped" \notin mishaps /\ ~Dropped
  BY Cleared
<1>2. CleanInv
  BY Cleared DEF EngineFreshInv, FreshInv
<1>3. ASSUME NEW c \in Clients, BeginCall(c) PROVE CleanInv'
  <2>1. proc' # "down"
    BY <1>3 DEF BeginCall, set, delete, write_wal, get, write_wal_error, At
  <2>2. ASSUME NEW k \in Keys, set(c, k) PROVE CleanInv'
    BY <1>1, <1>2, <2>1, <2>2, WriteClean DEF set
  <2>3. ASSUME NEW k \in Keys, delete(c, k) PROVE CleanInv'
    BY <1>1, <1>2, <2>1, <2>3, WriteClean DEF delete
  <2>4. ASSUME NEW k \in Keys, get(c, k) PROVE CleanInv'
    BY <1>1, <1>2, <2>1, <2>4, CallPlain
  <2>5. ASSUME write_wal_error(c) PROVE CleanInv'
    BY <1>1, <1>2, <2>1, <2>5, WriteErrorClean
  <2> QED BY <1>3, <2>2, <2>3, <2>4, <2>5 DEF BeginCall
<1>4. ASSUME NEW c \in Clients, ContinueCall(c) PROVE CleanInv'
  <2>1. proc' # "down"
    BY <1>4 DEF ContinueCall, insert_mem, next_sstable_path, flush_swap, flush_write,
       flush_truncate, flush_error, flush_add, get_levels, At
  <2>2. CASE insert_mem(c)
    BY <1>1, <1>2, <2>1, <2>2, InsertClean
  <2>3. CASE flush_swap(c)
    BY <1>1, <1>2, <2>1, <2>3, SwapClean
  <2>4. CASE flush_write(c)
    BY <1>1, <1>2, <2>1, <2>4, FlushWriteClean
  <2>5. CASE Empties(c)
    BY <1>1, <1>2, <2>1, <2>5, TruncateClean
  <2>6. CASE \/ get_levels(c) \/ next_sstable_path(c) \/ flush_add(c)
            \/ (flush_error(c) /\ log' = log)
    BY <1>1, <1>2, <2>1, <2>6, CallPlain
  <2>7. flush_truncate(c) \/ flush_error(c) => Empties(c) \/ (flush_error(c) /\ log' = log)
    BY DEF Empties
  <2> QED BY <1>4, <2>2, <2>3, <2>4, <2>5, <2>6, <2>7 DEF ContinueCall
<1>5. ASSUME CompactorNext PROVE CleanInv'
  <2>1. proc' # "down"
    BY <1>5 DEF CompactorNext, compactor_check, compactor_poll, compactor_begin,
       compactor_remove, compactor_install, Compactor
  <2> QED BY <1>1, <1>2, <1>5, <2>1, CompactorClean
<1>6. CASE open
  BY <1>2, <1>6, OpenClean
<1>7. CASE drop
  <2>1. /\ UNCHANGED <<log, hist, mem, disk0, disk1, l1, job, short, th, acked>>
        /\ proc # "down" /\ proc' # "down"
    BY <1>7 DEF drop, walVars, levelVars, ioVars
  <2>2. before' = before
    BY <2>1 DEF FreshNext
  <2> QED BY <1>1, <1>2, <2>1, <2>2, StillClean
<1>8. CASE join \/ crash
  <2>1. Forget /\ (log' = log \/ append_torn)
    BY <1>8 DEF join, crash, walVars
  <2> QED BY <1>1, <1>2, <2>1, ForgetClean
<1> QED
  BY <1>3, <1>4, <1>5, <1>6, <1>7, <1>8 DEF FreshNext, LsmNext, ProcessNext

LEMMA FreshStays ==
    ASSUME StrictClock
    PROVE  EngineFreshInv /\ [FreshNext]_freshVars => EngineFreshInv'
<1> SUFFICES ASSUME EngineFreshInv, [FreshNext]_freshVars PROVE EngineFreshInv'
  OBVIOUS
<1>1. EngineFilesInv /\ EngineRecordsInv /\ CallInv /\ TypeInv /\ (Clean => CleanInv)
  BY DEF EngineFreshInv, FreshInv, EngineRecordsInv
<1>2. [LsmNext]_lsmVars
  BY DEF FreshNext, freshVars
<1>3. EngineFilesInv' /\ EngineRecordsInv'
  BY <1>1, <1>2, EngineFilesStay, RecordsStay
<1>4. CASE FreshNext
  BY <1>1, <1>3, <1>4, CallsStay, CleanStays DEF EngineFreshInv, FreshInv
<1>5. CASE UNCHANGED freshVars
  <2>1. UNCHANGED <<log, hist, before, mishaps, mem, disk0, disk1, l1, job, short,
                    th, acked, proc>>
    BY <1>5 DEF freshVars, lsmVars, walVars, levelVars, ioVars
  <2>2. CallInv'
    BY <1>1, <2>1, CallFrame DEF Busy, Holds
  <2>3. Clean' => CleanInv'
    BY <1>1, <2>1, StillClean DEF Clean
  <2> QED BY <1>3, <2>2, <2>3 DEF EngineFreshInv, FreshInv
<1> QED BY <1>4, <1>5

LEMMA RecoveredKey ==
    ASSUME EngineFreshInv, Clean, Idle, NEW k \in Keys
    PROVE  Recovered(k) \in FreshAnswers(k, acked)
<1> DEFINE R == Rebuild(replay(log))
           T0 == tables_of(disk0, Reverse(Found(disk0)))
           T1 == tables_of(disk1, Found(disk1))
<1>1. /\ TypeInv /\ CallInv /\ LogOrdered /\ DiskFresh /\ EngineRecordsInv
      /\ disk0 \in Directory /\ disk1 \in Directory
  BY DueTyped DEF CleanInv, EngineFreshInv, EngineRecordsInv, FreshInv
<1>2. /\ R \in Table /\ FreshTable(hist, before, R, Due)
      /\ \A m \in Due : m > Settled => R[hist[m].key] # Absent
  <2>1. \A m \in Due : m \in DOMAIN hist
    BY <1>1, DueTyped
  <2> QED BY <1>1, <2>1, RebuildFresh
<1>3. T0 \in Seq(Table) /\ FirstRecord(T0, k) = Newest(disk0, k)
  BY <1>1, FoundProperties, FoundOrder, SearchIsNewest
<1>4. PICK v \in Values \cup {Absent} :
         DiskHolds(k, v) /\ FreshIn(hist, before, k, Answer(v), SettledDue)
  BY <1>1 DEF DiskFresh
<1>5. /\ L0Left = {s \in Stamps : disk0[s] # NoFile}
      /\ L1Left = {s \in Stamps : disk1[s] # NoFile}
  <2>1. ToSet(job.todo0) = {} /\ ToSet(job.todo1) = {}
    BY JobProperties DEF Idle, ToSet
  <2> QED BY <2>1 DEF L0Left, L1Left
<1>6. T1 \in Seq(Table) /\ (OneRecord(disk1, L1Left, k, v) => FirstRecord(T1, k) = v)
  <2>1. /\ Found(disk1) \in Seq(Stamps) /\ ToSet(Found(disk1)) = L1Left
        /\ \A s \in ToSet(Found(disk1)) : disk1[s] # NoFile
    BY <1>1, <1>5, FoundProperties, FoundMembers
  <2> QED BY <1>1, <2>1, TablesMembers, OneRecordFound
<1>7. Recovered(k) = Answer(FirstRecord((<<R>> \o T0) \o T1, k))
  BY DEF Recovered
<1>8. FirstRecord((<<R>> \o T0) \o T1, k) =
         IF R[k] # Absent THEN R[k]
         ELSE IF FirstRecord(T0, k) # Absent THEN FirstRecord(T0, k)
         ELSE FirstRecord(T1, k)
  <2>1. <<R>> \in Seq(Table)
    BY <1>2
  <2> HIDE DEF R, T0, T1
  <2>2. <<R>> \o T0 \in Seq(Table)
    BY <1>3, <2>1, ConcatProperties
  <2>3. FirstRecord(<<R>> \o T0, k) = IF R[k] # Absent THEN R[k] ELSE FirstRecord(T0, k)
    BY <1>2, <1>3, FirstRecordPrefix
  <2> QED BY <1>6, <2>2, <2>3, FirstRecordConcat
<1>9. /\ GoesOn(hist, before, hist, before) /\ Due \subseteq DOMAIN hist
      /\ acked \subseteq Due
  BY <1>1, DueTyped DEF GoesOn
<1>10. R[k] # Absent => R[k] \in Written[k]
  BY <1>1, ReplayedWritten DEF Replayed
<1> HIDE DEF R, T0, T1
<1>11. CASE R[k] # Absent
  <2>1. Current(hist, before, R[k].ver, acked)
    BY <1>2, <1>9, <1>11 DEF FreshTable, Current
  <2>2. FreshIn(hist, before, k, Answer(R[k]), acked)
    BY <1>1, <1>10, <1>11, <2>1, RecordFresh
  <2> QED BY <1>7, <1>8, <1>11, <2>2, FreshAnswer
<1>12. CASE R[k] = Absent
  <2>1. FirstRecord((<<R>> \o T0) \o T1, k) = v
    <3>1. CASE LastOf(disk0, L0Left, k, v)
      <4>1. PICK p \in L0Left :
               /\ v # Absent /\ disk0[p][k] = v
               /\ \A t \in L0Left : t > p => disk0[t][k] = Absent
        BY <3>1 DEF LastOf
      <4>2. p \in FilesWith(disk0, k)
        BY <1>5, <4>1 DEF FilesWith
      <4>3. \A q \in FilesWith(disk0, k) : q <= p
        <5> SUFFICES ASSUME NEW q \in FilesWith(disk0, k) PROVE q <= p
          OBVIOUS
        <5>1. q \in L0Left /\ disk0[q][k] # Absent
          BY <1>5 DEF FilesWith
        <5>2. ~(q > p) /\ q \in Stamps /\ p \in Stamps
          BY <1>5, <4>1, <5>1
        <5> QED BY <5>2 DEF Stamps
      <4>4. Newest(disk0, k) = v
        BY <1>1, <4>1, <4>2, <4>3, NewestIs
      <4> QED BY <1>3, <1>8, <1>12, <4>1, <4>4
    <3>2. CASE (\A s \in L0Left : disk0[s][k] = Absent) /\ OneRecord(disk1, L1Left, k, v)
      <4>1. FilesWith(disk0, k) = {}
        BY <1>5, <3>2 DEF FilesWith
      <4>2. Newest(disk0, k) = Absent
        BY <4>1 DEF Newest
      <4> QED BY <1>3, <1>6, <1>8, <1>12, <3>2, <4>2
    <3> QED BY <1>4, <3>1, <3>2 DEF DiskHolds
  <2>2. \A m \in acked : hist[m].key = k => m \in SettledDue
    <3> SUFFICES ASSUME NEW m \in acked, hist[m].key = k PROVE m <= Settled
      BY <1>9 DEF SettledDue
    <3>1. m \in Due /\ ~(m > Settled)
      BY <1>2, <1>9, <1>12
    <3>2. m \in Int /\ Settled \in Int
      BY <1>1, <3>1, DueTyped, SettledTyped
    <3> QED BY <3>1, <3>2
  <2>3. SettledDue \in SUBSET DOMAIN hist /\ acked \in SUBSET DOMAIN hist
    BY <1>9 DEF SettledDue
  <2>4. FreshIn(hist, before, k, Answer(v), acked)
    BY <1>4, <1>9, <2>2, <2>3, StaysFresh
  <2> QED BY <1>7, <2>1, <2>4, FreshAnswer
<1> QED BY <1>11, <1>12

\* Whoever calls set and delete, and wherever their appends, inserts and flushes
\* (lsm.rs:168, 236) are interrupted by a kill, what open (lsm.rs:120) brings back
\* of a key is a value that no acknowledged write had overtaken, except during a
\* compaction and after the exceptions OnDisk.
THEOREM RecoveredFresh ==
    ASSUME StrictClock
    PROVE  FreshSpec => []RecoveredIsFresh
<1>1. FreshInit => EngineFreshInv
  BY FreshInitially
<1>2. EngineFreshInv /\ [FreshNext]_freshVars => EngineFreshInv'
  BY FreshStays
<1>3. EngineFreshInv => RecoveredIsFresh
  BY RecoveredKey DEF RecoveredIsFresh, Clean
<1> QED BY <1>1, <1>2, <1>3, PTL DEF FreshSpec

-----------------------------------------------------------------------------
(***************************************************************************)
(* The second theorem: what a get answers while the process runs.  A write *)
(* call that is due is in the MemTable, in the hands of a flush, or what   *)
(* the levels answer is fresh as far as it is concerned; a get that has    *)
(* left the MemTable may miss the second kind only.                        *)
(***************************************************************************)

\* The exceptions that change what the running process reads have no effect.
Sound == mishaps \cap InMemory = {}

\* A flush has truncated the log and not tracked its file yet.
Adds(c) == th[c].pc = "add"

\* The calls that a flush has in its hands: the flush that holds the WAL mutex,
\* or any.
Held == UNION {inHands[c] : c \in {d \in Clients : Holds(d)}}
Carried == UNION {inHands[c] : c \in Clients}

\* Only flushes have calls in their hands; two calls under way are different
\* ones, and not acknowledged.
HandsInv ==
    \A c \in Clients :
        /\ inHands[c] # {} => Holds(c) \/ Adds(c)
        /\ Busy(c) => Call(c) \notin acked
        /\ Busy(c) => \A d \in Clients \ {c} : Busy(d) => Call(d) # Call(c)

\* The files of L1, those that a compaction is about to install while it lasts.
L1Now == ToSet(IF Idle THEN l1 ELSE ToInstall)

\* v is the record of k in the last file of the L0 list that has one.
NewestIn(k, v) ==
    \E i \in DOMAIN l0 : /\ disk0[l0[i]][k] = v
                         /\ \A j \in DOMAIN l0 : j > i => disk0[l0[j]][k] = Absent

\* v is what a search of the levels finds of k.
InLevels(k, v) ==
    \/ v # Absent /\ NewestIn(k, v)
    \/ (\A i \in DOMAIN l0 : disk0[l0[i]][k] = Absent) /\ OneRecord(disk1, L1Now, k, v)

\* Each place is fresh if the calls are not asked about that a search would
\* meet in a place before it.
FlightFresh ==
    \A c \in Clients :
        /\ Holds(c) => FreshTable(hist, before, Flight(c), Due \ inMem)
        /\ Adds(c) => FreshTable(hist, before, Flight(c), Due \ (inMem \cup Held))

LevelsFresh ==
    \A k \in Keys : \E v \in Values \cup {Absent} :
        /\ InLevels(k, v)
        /\ FreshIn(hist, before, k, Answer(v), Due \ (inMem \cup Carried))

\* The keys of the calls in the MemTable, or in hands, are there.
InPlace ==
    /\ \A m \in inMem : m \in DOMAIN hist /\ mem[hist[m].key] # Absent
    /\ \A c \in Clients : \A m \in inHands[c] :
          m \in DOMAIN hist /\ Flight(c)[hist[m].key] # Absent

\* A get that has missed the MemTable: none of the calls acknowledged by then
\* is in it, on that key.
Missed(c) ==
    th[c].pc = "levels" =>
        /\ th[c].seen \subseteq acked
        /\ \A m \in th[c].seen \cap inMem : hist[m].key # th[c].entry.key

ReadInv ==
    /\ ~short
    /\ \A c, d \in Clients : Adds(c) /\ Adds(d) => c = d
    /\ FreshTable(hist, before, mem, Due)
    /\ FlightFresh /\ LevelsFresh /\ InPlace
    /\ \A c \in Clients : Missed(c)

EngineReadInv ==
    /\ EngineFreshInv /\ HandsInv
    /\ proc = "down" /\ "lost" \notin mishaps => mishaps = {}
    /\ proc # "down" /\ Sound => ReadInv

-----------------------------------------------------------------------------
(***************************************************************************)
(* Steps that are none of the exceptions, and what they leave in place.    *)
(***************************************************************************)
LEMMA Undisturbed ==
    ASSUME FreshNext, proc' # "down", Sound'
    PROVE  Sound /\ ~Crossed /\ ~Dropped /\ ~Contested /\ ~DrainedAway /\ ~CutScan
<1>1. mishaps' = mishaps \cup Mishaps
  BY DEF FreshNext, Remembered
<1>2. /\ Crossed => "crossed" \in Mishaps
      /\ Dropped => "dropped" \in Mishaps
      /\ Contested => "contested" \in Mishaps
      /\ DrainedAway => "drained" \in Mishaps
      /\ CutScan => "scan" \in Mishaps
  BY DEF Mishaps, Mark
<1> QED BY <1>1, <1>2 DEF Sound, InMemory

\* What a flush has in its hands, or in its file, until the file is tracked.
LEMMA CarryTyped ==
    ASSUME EngineFilesInv, EngineRecordsInv, NEW c \in Clients, Holds(c) \/ Adds(c)
    PROVE  /\ Flight(c) \in Table /\ Within(Flight(c), Written)
           /\ th[c].path \in Stamps /\ th[c].path \notin Listed0
           /\ Adds(c) => Flight(c) = disk0[th[c].path] /\ disk0[th[c].path] # NoFile
           /\ \A d \in Clients \ {c} : Holds(d) \/ Adds(d) => th[d].path # th[c].path
<1>1. /\ th[c].pc \in FlushStages /\ th[c].pc \notin {"idle", "levels"}
      /\ \A d \in Clients : Holds(d) \/ Adds(d) => th[d].pc \in FlushStages
  BY DEF Holds, Adds, FlushStages
<1>2. /\ th[c].path \in Stamps /\ disk0 \in Directory
  BY <1>1, InCall DEF EngineRecordsInv, TypeInv, LsmTypeOK, LevelTypeOK
<1>3. /\ th[c].path \notin Listed0
      /\ disk0[th[c].path] = NoFile <=> th[c].pc \in {"swap", "write"}
      /\ \A d \in Clients \ {c} : Holds(d) \/ Adds(d) => th[d].path # th[c].path
  BY <1>1 DEF EngineFilesInv, FlushInv
<1>4. CASE Holds(c)
  BY <1>2, <1>3, <1>4, FlightTyped DEF Holds, Adds
<1>5. CASE Adds(c)
  <2>1. Flight(c) = disk0[th[c].path] /\ disk0[th[c].path] # NoFile
    BY <1>3, <1>5 DEF Adds, Flight
  <2> QED BY <1>2, <1>3, <2>1 DEF Directory, EngineRecordsInv, RecordsInv, FilesWithin
<1> QED BY <1>4, <1>5

\* The files that the lists name.
LEMMA ListedTyped ==
    ASSUME EngineFilesInv
    PROVE  /\ l0 \in Seq(Stamps) /\ disk0 \in Directory /\ disk1 \in Directory
           /\ \A i \in DOMAIN l0 : /\ l0[i] \in Stamps /\ l0[i] \in Listed0
                                   /\ disk0[l0[i]] # NoFile
           /\ L1Now \subseteq Stamps /\ \A s \in L1Now : disk1[s] # NoFile
<1>1. /\ LevelTypeOK /\ FilesInv /\ l0 \in Seq(Stamps) /\ l1 \in Seq(Stamps)
      /\ disk0 \in Directory /\ disk1 \in Directory
  BY DEF EngineFilesInv, FilesInv, LevelTypeOK
<1>2. \A i \in DOMAIN l0 : /\ l0[i] \in Stamps /\ l0[i] \in Listed0
                           /\ disk0[l0[i]] # NoFile
  BY <1>1, LenProperties, ElementOfSeq DEF FilesInv, Listed0
<1>3. ASSUME NEW q \in Seq(Stamps), HaveFiles(q)
      PROVE  ToSet(q) \subseteq Stamps /\ \A s \in ToSet(q) : disk1[s] # NoFile
  BY <1>3, LenProperties, ElementOfSeq DEF HaveFiles, ToSet
<1>4. CASE Idle
  BY <1>1, <1>2, <1>3, <1>4 DEF L1Now, FilesInv
<1>5. CASE ~Idle
  <2>1. ToInstall \in Seq(Stamps) /\ HaveFiles(ToInstall)
    <3>1. job.untouched \in Seq(Stamps) /\ job.output \in Stamps
      BY <1>1, <1>5 DEF LevelTypeOK
    <3> QED BY <1>1, <1>5, <3>1, AppendProperties DEF ToInstall, FilesInv
  <2> QED BY <1>1, <1>2, <1>3, <1>5, <2>1 DEF L1Now
<1> QED BY <1>4, <1>5

\* The lists and the files in them stay.
LEMMA LevelsSame ==
    ASSUME l0' = l0, L1Now' = L1Now, NEW k, NEW v \in Values \cup {Absent},
           \A i \in DOMAIN l0 : disk0'[l0[i]] = disk0[l0[i]],
           \A s \in L1Now : disk1'[s] = disk1[s],
           InLevels(k, v)
    PROVE  \E w \in Values \cup {Absent} : InLevels(k, w)' /\ Answer(w) = Answer(v)
<1>1. NewestIn(k, v) => NewestIn(k, v)'
  BY DEF NewestIn
<1>2. OneRecord(disk1, L1Now, k, v) => OneRecord(disk1', L1Now', k, v)
  BY DEF OneRecord
<1>3. InLevels(k, v)'
  BY <1>1, <1>2 DEF InLevels
<1> QED BY <1>3

\* The calls in the MemTable and in hands are the same if no call inserts its
\* record and no flush begins or ends.
LEMMA PlacesStay ==
    ASSUME FreshNext, HandsInv, proc # "down", proc' # "down",
           \A c \in Clients :
              /\ ~(th[c].pc = "insert" /\ th'[c].pc # "insert")
              /\ th[c].pc # "swap" \/ th'[c].pc # "write"
              /\ (Holds(c)' \/ Adds(c)') <=> (Holds(c) \/ Adds(c))
    PROVE  inMem' = inMem /\ \A c \in Clients : inHands'[c] = inHands[c]
<1>1. Inserting = {}
  BY DEF Inserting
<1>2. inMem' = inMem
  BY <1>1 DEF FreshNext, NextInMem, Moves
<1>3. ASSUME NEW c \in Clients PROVE inHands'[c] = inHands[c]
  <2>1. inHands'[c] = IF th'[c].pc \notin {"write", "truncate", "add"} THEN {}
                      ELSE IF th[c].pc = "swap" THEN inMem
                      ELSE inHands[c]
    BY DEF FreshNext, NextInHands
  <2>2. CASE Holds(c) \/ Adds(c)
    BY <2>1, <2>2 DEF Holds, Adds
  <2>3. CASE ~(Holds(c) \/ Adds(c))
    BY <2>1, <2>3 DEF Holds, Adds, HandsInv
  <2> QED BY <2>2, <2>3
<1> QED BY <1>2, <1>3

\* The levels answer as before, and with calls the less that are asked about.
LEMMA LevelsGoOn ==
    ASSUME TypeInv, LevelsFresh, GoesOn(hist, before, hist', before'),
           Due' \ (inMem' \cup Carried') \subseteq Due \ (inMem \cup Carried),
           \A k \in Keys : \A v \in Values \cup {Absent} : InLevels(k, v) =>
              \E w \in Values \cup {Absent} : InLevels(k, w)' /\ Answer(w) = Answer(v)
    PROVE  LevelsFresh'
<1> DEFINE M == Due \ (inMem \cup Carried)
           N == Due' \ (inMem' \cup Carried')
<1>1. M \in SUBSET DOMAIN hist /\ N \in SUBSET M
  BY DueTyped
<1> SUFFICES ASSUME NEW k \in Keys
             PROVE  \E w \in Values \cup {Absent} :
                       InLevels(k, w)' /\ FreshIn(hist', before', k, Answer(w), N)
  BY DEF LevelsFresh
<1>2. PICK v \in Values \cup {Absent} :
         InLevels(k, v) /\ FreshIn(hist, before, k, Answer(v), M)
  BY DEF LevelsFresh
<1> HIDE DEF M, N
<1>3. FreshIn(hist', before', k, Answer(v), N)
  BY <1>1, <1>2, StaysFresh
<1>4. PICK w \in Values \cup {Absent} : InLevels(k, w)' /\ Answer(w) = Answer(v)
  BY <1>2
<1> QED BY <1>3, <1>4

\* A flush goes on with what it has, with calls the less that are asked about.
LEMMA FlightStays ==
    ASSUME EngineFilesInv, EngineRecordsInv, GoesOn(hist, before, hist', before'),
           NEW c \in Clients, Holds(c) \/ Adds(c), Flight(c)' = Flight(c),
           NEW M \in SUBSET Due, NEW N \in SUBSET M,
           FreshTable(hist, before, Flight(c), M)
    PROVE  FreshTable(hist', before', Flight(c)', N)
<1>1. TypeInv /\ Within(Flight(c), Written) /\ M \in SUBSET DOMAIN hist
  BY CarryTyped, DueTyped DEF EngineRecordsInv
<1> QED BY <1>1, TableStays

\* A step that leaves the MemTable and the flushes, and what is found in the
\* levels, and moves no get but to its levels.
LEMMA CalmRead ==
    ASSUME EngineFilesInv, EngineRecordsInv, HandsInv, ReadInv, FreshNext,
           proc # "down", proc' # "down", GoesOn(hist, before, hist', before'),
           mem' = mem, short' = short, Due' \subseteq Due, acked \subseteq acked',
           \A c \in Clients : /\ Holds(c)' <=> Holds(c)
                              /\ Adds(c)' <=> Adds(c)
                              /\ Holds(c) \/ Adds(c) => Flight(c)' = Flight(c)
                              /\ th[c].pc = "insert" => th'[c].pc = "insert",
           \A k \in Keys : \A v \in Values \cup {Absent} : InLevels(k, v) =>
              \E w \in Values \cup {Absent} : InLevels(k, w)' /\ Answer(w) = Answer(v),
           \A c \in Clients : th'[c].pc = "levels" =>
              \/ /\ th[c].pc = "levels" /\ th'[c].seen = th[c].seen
                 /\ th'[c].entry.key = th[c].entry.key
              \/ /\ th'[c].seen = acked /\ th'[c].entry.key \in Keys
                 /\ mem[th'[c].entry.key] = Absent
    PROVE  ReadInv'
<1>1. /\ TypeInv /\ Due \subseteq DOMAIN hist /\ acked \subseteq Due
      /\ Within(mem, Written)
      /\ \A m \in DOMAIN hist : m \in DOMAIN hist' /\ hist'[m] = hist[m]
  BY DueTyped DEF EngineRecordsInv, RecordsInv, GoesOn
<1>2. inMem' = inMem /\ \A c \in Clients : inHands'[c] = inHands[c]
  <2>1. \A c \in Clients : th[c].pc = "swap" => th'[c].pc # "write"
    BY DEF Holds
  <2> QED BY <2>1, PlacesStay
<1>3. Held' = Held /\ Carried' = Carried
  BY <1>2 DEF Held, Carried
<1>4. FreshTable(hist', before', mem', Due')
  BY <1>1, TableStays DEF ReadInv
<1>5. FlightFresh'
  <2> SUFFICES ASSUME NEW c \in Clients
               PROVE  /\ Holds(c) => FreshTable(hist', before', Flight(c)', Due' \ inMem)
                      /\ Adds(c) => FreshTable(hist', before', Flight(c)', Due' \ (inMem \cup Held))
    BY <1>2, <1>3 DEF FlightFresh
  <2>1. /\ Due \ inMem \in SUBSET Due /\ Due' \ inMem \in SUBSET (Due \ inMem)
        /\ Due \ (inMem \cup Held) \in SUBSET Due
        /\ Due' \ (inMem \cup Held) \in SUBSET (Due \ (inMem \cup Held))
    OBVIOUS
  <2> QED BY <2>1, FlightStays DEF ReadInv, FlightFresh
<1>6. LevelsFresh'
  BY <1>1, <1>2, <1>3, LevelsGoOn DEF ReadInv
<1>7. InPlace'
  <2>1. \A m \in inMem : m \in DOMAIN hist' /\ mem'[hist'[m].key] # Absent
    BY <1>1 DEF ReadInv, InPlace
  <2>2. ASSUME NEW c \in Clients, NEW m \in inHands[c]
        PROVE  m \in DOMAIN hist' /\ Flight(c)'[hist'[m].key] # Absent
    <3>1. Flight(c)' = Flight(c)
      BY <2>2 DEF HandsInv
    <3> QED BY <1>1, <2>2, <3>1 DEF ReadInv, InPlace
  <2> QED BY <1>2, <2>1, <2>2 DEF InPlace
<1>8. ASSUME NEW c \in Clients, th'[c].pc = "levels" PROVE Missed(c)'
  <2>1. CASE /\ th[c].pc = "levels" /\ th'[c].seen = th[c].seen
             /\ th'[c].entry.key = th[c].entry.key
    <3>1. th[c].seen \subseteq acked /\ \A m \in th[c].seen : hist'[m] = hist[m]
      BY <1>1, <2>1 DEF ReadInv, Missed
    <3> QED BY <1>2, <2>1, <3>1 DEF ReadInv, Missed
  <2>2. CASE /\ th'[c].seen = acked /\ th'[c].entry.key \in Keys
             /\ mem[th'[c].entry.key] = Absent
    <3>1. \A m \in acked \cap inMem : hist'[m].key # th'[c].entry.key
      BY <1>1, <2>2 DEF ReadInv, InPlace
    <3> QED BY <1>2, <2>2, <3>1 DEF Missed
  <2> QED BY <1>8, <2>1, <2>2
<1>9. \A c \in Clients : Missed(c)'
  BY <1>8 DEF Missed
<1>10. \A c, d \in Clients : Adds(c)' /\ Adds(d)' => c = d
  BY DEF ReadInv
<1>11. ~short'
  BY DEF ReadInv
<1> QED BY <1>4, <1>5, <1>6, <1>7, <1>9, <1>10, <1>11 DEF ReadInv

-----------------------------------------------------------------------------
(***************************************************************************)
(* The steps of a call.                                                    *)
(***************************************************************************)

\* The history of the write calls only grows.
LEMMA HistoryGoesOn ==
    ASSUME TypeInv, CallInv, FreshNext,
           \/ hist' = hist
           \/ \E c \in Clients, k \in Keys, d \in BOOLEAN : write_wal(c, k, d)
    PROVE  GoesOn(hist, before, hist', before')
<1>1. CASE hist' = hist
  <2>1. before' = before
    BY <1>1 DEF FreshNext
  <2> QED BY <1>1, <2>1 DEF GoesOn
<1>2. ASSUME NEW c \in Clients, NEW k \in Keys, NEW d \in BOOLEAN, write_wal(c, k, d)
      PROVE  GoesOn(hist, before, hist', before')
  <2>1. /\ Len(hist) \in Nat /\ DOMAIN hist = 1..Len(hist)
        /\ hist \in Seq([key : Keys, tomb : BOOLEAN])
    BY DueTyped
  <2>2. /\ DOMAIN hist \subseteq DOMAIN hist' /\ hist' # hist
        /\ \A m \in DOMAIN hist : hist'[m] = hist[m]
    <3>1. /\ Len(hist) + 1 \notin DOMAIN hist
          /\ DOMAIN hist' = DOMAIN hist \cup {Len(hist) + 1}
          /\ \A m \in DOMAIN hist : hist'[m] = hist[m]
      BY <1>2, WriteHistory
    <3> QED BY <3>1
  <2>3. before' = Append(before, DOMAIN hist \ UnderWay)
    BY <2>2 DEF FreshNext
  <2>4. /\ before \in Seq(SUBSET Nat) /\ Len(before) = Len(hist)
        /\ DOMAIN hist \ UnderWay \in SUBSET Nat
    <3>1. DOMAIN hist \subseteq Nat
      BY <2>1
    <3> QED BY <3>1 DEF CallInv
  <2>5. \A m \in 1..Len(hist) : before'[m] = before[m]
    BY <2>3, <2>4, AppendProperties
  <2> QED BY <2>1, <2>2, <2>5 DEF GoesOn
<1> QED BY <1>1, <1>2

\* Steps that are about none of the MemTable, the flushes and the levels.
LEMMA CallRead ==
    ASSUME EngineFreshInv, HandsInv, ReadInv, FreshNext, NEW c \in Clients,
           BeginCall(c) \/ next_sstable_path(c) \/ get_levels(c)
    PROVE  ReadInv'
<1>1. EngineFilesInv /\ EngineRecordsInv /\ TypeInv /\ CallInv
  BY DEF EngineFreshInv, EngineRecordsInv, FreshInv
<1>2. ASSUME NEW k \in Keys, set(c, k) \/ delete(c, k)
      PROVE  /\ \E d \in BOOLEAN : write_wal(c, k, d)
             /\ Others(c) /\ th[c].pc = "idle" /\ th'[c].pc = "insert"
  BY <1>1, <1>2, WriteMoves DEF set, delete
<1>3. ASSUME NEW k \in Keys, get(c, k)
      PROVE  /\ Others(c) /\ th[c].pc = "idle"
             /\ \/ th'[c].pc = "idle"
                \/ /\ th'[c].pc = "levels" /\ th'[c].seen = acked
                   /\ th'[c].entry.key = k /\ mem[k] = Absent
  <2>1. /\ th[c].pc = "idle" /\ th \in [Clients -> Threads]
        /\ \/ th' = th
           \/ /\ th' = [th EXCEPT ![c].pc = "levels", ![c].entry.key = k, ![c].seen = acked]
              /\ mem[k] = Absent
    BY <1>1, <1>3 DEF get, At, TypeInv, LsmTypeOK
  <2> QED BY <2>1 DEF Others, Threads
<1>4. /\ UNCHANGED <<mem, disk0, disk1, l0, l1, job, short, acked>>
      /\ proc = "up" /\ proc' = "up"
      /\ \/ hist' = hist
         \/ \E k \in Keys, d \in BOOLEAN : write_wal(c, k, d)
  BY <1>2 DEF BeginCall, next_sstable_path, get_levels, set, delete, write_wal, get,
     write_wal_error, At, io_error, levelVars, fileVars, ioVars
<1>5. /\ Others(c) /\ ~Holds(c) /\ ~Holds(c)' /\ ~Adds(c) /\ ~Adds(c)'
      /\ th[c].pc # "insert"
      /\ th'[c].pc = "levels" =>
            /\ th'[c].seen = acked /\ th'[c].entry.key \in Keys
            /\ mem[th'[c].entry.key] = Absent
  <2>1. CASE \E k \in Keys : set(c, k) \/ delete(c, k) \/ get(c, k)
    BY <1>2, <1>3, <2>1 DEF Holds, Adds
  <2>2. CASE write_wal_error(c)
    BY <2>2 DEF write_wal_error, At, Holds, Adds, Others
  <2>3. CASE next_sstable_path(c)
    BY <1>1, <2>3, CallMoves DEF Holds, Adds
  <2>4. CASE get_levels(c)
    BY <1>1, <2>4, CallMoves DEF get_levels, At, Holds, Adds
  <2> QED BY <2>1, <2>2, <2>3, <2>4 DEF BeginCall
<1>6. GoesOn(hist, before, hist', before')
  BY <1>1, <1>4, HistoryGoesOn
<1>7. Due' \subseteq Due
  BY <1>1, CallDue DEF ContinueCall, insert_mem, next_sstable_path, get_levels, At,
     BeginCall, set, delete, write_wal, get, write_wal_error
<1>8. \A d \in Clients : /\ Holds(d)' <=> Holds(d)
                         /\ Adds(d)' <=> Adds(d)
                         /\ Holds(d) \/ Adds(d) => Flight(d)' = Flight(d)
                         /\ th[d].pc = "insert" => th'[d].pc = "insert"
  BY <1>4, <1>5 DEF Others, Holds, Adds, Flight
<1>9. \A k \in Keys : \A v \in Values \cup {Absent} : InLevels(k, v) =>
         \E w \in Values \cup {Absent} : InLevels(k, w)' /\ Answer(w) = Answer(v)
  <2>1. L1Now' = L1Now
    BY <1>4 DEF L1Now, Idle, ToInstall
  <2> QED BY <1>4, <2>1, LevelsSame
<1>10. \A d \in Clients : th'[d].pc = "levels" =>
          \/ /\ th[d].pc = "levels" /\ th'[d].seen = th[d].seen
             /\ th'[d].entry.key = th[d].entry.key
          \/ /\ th'[d].seen = acked /\ th'[d].entry.key \in Keys
             /\ mem[th'[d].entry.key] = Absent
  BY <1>5 DEF Others
<1> QED BY <1>1, <1>4, <1>6, <1>7, <1>8, <1>9, <1>10, CalmRead

\* The record of a call that is not over takes its place in the MemTable.
LEMMA InsertRead ==
    ASSUME EngineFreshInv, HandsInv, ReadInv, FreshNext, NEW c \in Clients, insert_mem(c)
    PROVE  ReadInv'
<1> DEFINE n == Call(c)
           k == th[c].entry.key
           v == th[c].entry.value
<1>1. /\ TypeInv /\ CallInv /\ EngineFilesInv /\ EngineRecordsInv
      /\ Within(mem, Written)
  BY DEF EngineFreshInv, FreshInv, EngineRecordsInv, RecordsInv
<1>2. /\ mem' = insert(mem, k, v) /\ proc = "up" /\ proc' = "up"
      /\ UNCHANGED <<hist, disk0, disk1, l0, l1, job, short>>
  BY DEF insert_mem, At, levelVars, ioVars
<1>3. /\ Others(c) /\ th[c].pc = "insert" /\ th'[c].pc \in {"idle", "path"}
      /\ acked \subseteq acked'
  BY <1>1, CallMoves
<1>4. /\ v \in Written[k] /\ k \in Keys /\ mem \in Table /\ v.ver = n
  BY <1>1, <1>3, InCall DEF EngineRecordsInv, RecordsInv, TypeInv, LsmTypeOK, Call
<1>5. n \in DOMAIN hist /\ hist[n].key = k /\ v # Absent
  BY <1>1, <1>4, RecordOf
<1>6. n \notin acked /\ \A m \in DOMAIN hist : n \notin before[m]
  BY <1>1, <1>3 DEF CallInv, HandsInv, Busy
<1>7. before' = before /\ GoesOn(hist, before, hist', before')
  BY <1>2 DEF FreshNext, GoesOn
<1>8. /\ Due' \subseteq Due \cup {n} /\ Due' \subseteq DOMAIN hist
      /\ Due \subseteq DOMAIN hist
  <2>1. acked' \subseteq acked \cup {n} /\ (Inserted(c)' => Call(c)' = n)
    BY <1>1, CallMoves DEF Inserted, Call
  <2>2. Due' \subseteq Due \cup {n} /\ Due \subseteq DOMAIN hist
    BY <1>1, <1>3, <2>1, DueFrame, DueTyped
  <2> QED BY <1>5, <2>2
<1>9. /\ inMem' = inMem \cup {n}
      /\ \A d \in Clients : inHands'[d] = inHands[d]
  <2>1. Inserting = {c}
    BY <1>3 DEF Inserting, Others
  <2>2. \A d \in Clients : ~Moves(d, "swap", "write")
    BY <1>3 DEF Moves, Others
  <2>3. inMem' = inMem \cup {n}
    BY <1>2, <2>1, <2>2 DEF FreshNext, NextInMem, Call
  <2>4. ASSUME NEW d \in Clients PROVE inHands'[d] = inHands[d]
    <3>1. inHands'[d] = IF th'[d].pc \notin {"write", "truncate", "add"} THEN {}
                        ELSE IF th[d].pc = "swap" THEN inMem
                        ELSE inHands[d]
      BY DEF FreshNext, NextInHands
    <3>2. CASE Holds(d) \/ Adds(d)
      BY <1>3, <3>1, <3>2 DEF Holds, Adds, Others
    <3>3. CASE ~(Holds(d) \/ Adds(d))
      BY <1>3, <3>1, <3>3 DEF Holds, Adds, Others, HandsInv
    <3> QED BY <3>2, <3>3
  <2> QED BY <2>3, <2>4
<1>10. \A d \in Clients : /\ Holds(d)' <=> Holds(d)
                          /\ Adds(d)' <=> Adds(d)
                          /\ Holds(d) \/ Adds(d) => Flight(d)' = Flight(d)
  BY <1>2, <1>3 DEF Others, Holds, Adds, Flight
<1>11. Held' = Held /\ Carried' = Carried
  BY <1>9, <1>10 DEF Held, Carried
<1>12. \A d \in Clients : Missed(d)'
  <2> SUFFICES ASSUME NEW d \in Clients, th'[d].pc = "levels" PROVE Missed(d)'
    BY DEF Missed
  <2>1. th'[d] = th[d] /\ th[d].seen \subseteq acked
    BY <1>3 DEF ReadInv, Missed, Others
  <2> QED BY <1>2, <1>3, <1>6, <1>9, <2>1 DEF ReadInv, Missed
<1> HIDE DEF n, k, v
<1>13. mem'[k] = v /\ \A q \in Keys \ {k} : mem'[q] = mem[q]
  BY <1>2, <1>4 DEF insert, Table
<1>14. FreshTable(hist', before', mem', Due')
  <2> SUFFICES ASSUME NEW q \in Keys, mem'[q] # Absent
               PROVE  Current(hist, before, mem'[q].ver, Due')
    BY <1>2, <1>7 DEF FreshTable
  <2>1. CASE q = k
    BY <1>4, <1>6, <1>8, <1>13, <2>1 DEF Current
  <2>2. CASE q # k
    <3>1. mem'[q] = mem[q] /\ Current(hist, before, mem[q].ver, Due)
      BY <1>13, <2>2 DEF ReadInv, FreshTable
    <3>2. hist[mem[q].ver].key = q
      BY <1>1, <3>1, RecordOf DEF Within
    <3> QED BY <1>5, <1>8, <2>2, <3>1, <3>2 DEF Current
  <2> QED BY <2>1, <2>2
<1>15. FlightFresh'
  <2>1. /\ Due \ inMem \in SUBSET Due /\ Due' \ inMem' \in SUBSET (Due \ inMem)
        /\ Due \ (inMem \cup Held) \in SUBSET Due
        /\ Due' \ (inMem' \cup Held') \in SUBSET (Due \ (inMem \cup Held))
    BY <1>8, <1>9, <1>11
  <2> QED BY <1>1, <1>7, <1>10, <2>1, FlightStays DEF ReadInv, FlightFresh
<1>16. LevelsFresh'
  <2>1. Due' \ (inMem' \cup Carried') \subseteq Due \ (inMem \cup Carried)
    BY <1>8, <1>9, <1>11
  <2>2. L1Now' = L1Now
    BY <1>2 DEF L1Now, Idle, ToInstall
  <2>3. \A q \in Keys : \A x \in Values \cup {Absent} : InLevels(q, x) =>
           \E w \in Values \cup {Absent} : InLevels(q, w)' /\ Answer(w) = Answer(x)
    BY <1>2, <2>2, LevelsSame
  <2> QED BY <1>1, <1>7, <2>1, <2>3, LevelsGoOn DEF ReadInv
<1>17. InPlace'
  <2>1. ASSUME NEW m \in inMem' PROVE m \in DOMAIN hist /\ mem'[hist[m].key] # Absent
    <3>1. CASE m = n
      BY <1>5, <1>13, <3>1
    <3>2. CASE m \in inMem
      <4>1. m \in DOMAIN hist /\ mem[hist[m].key] # Absent /\ hist[m].key \in Keys
        BY <1>1, <3>2, CallTyped DEF ReadInv, InPlace
      <4> QED BY <1>5, <1>13, <4>1
    <3> QED BY <1>9, <3>1, <3>2
  <2>2. ASSUME NEW d \in Clients, NEW m \in inHands[d]
        PROVE  m \in DOMAIN hist /\ Flight(d)'[hist[m].key] # Absent
    BY <1>10, <2>2 DEF HandsInv, ReadInv, InPlace
  <2> QED BY <1>2, <1>9, <2>1, <2>2 DEF InPlace
<1>18. \A a, b \in Clients : Adds(a)' /\ Adds(b)' => a = b
  BY <1>10 DEF ReadInv
<1>19. ~short'
  BY <1>2 DEF ReadInv
<1> QED BY <1>12, <1>14, <1>15, <1>16, <1>17, <1>18, <1>19 DEF ReadInv

\* What was in the MemTable is in the hands of the flush.
LEMMA SwapRead ==
    ASSUME EngineFreshInv, HandsInv, ReadInv, FreshNext, NEW c \in Clients, flush_swap(c)
    PROVE  ReadInv'
<1>1. /\ TypeInv /\ EngineFilesInv /\ EngineRecordsInv /\ Within(mem, Written)
  BY DEF EngineFreshInv, EngineRecordsInv, RecordsInv
<1>2. /\ mem' = EmptyTable /\ WalFree /\ proc = "up" /\ proc' = "up"
      /\ UNCHANGED <<hist, disk0, disk1, l0, l1, job, short, acked>>
  BY DEF flush_swap, At, levelVars, ioVars
<1>3. /\ Others(c) /\ th[c].pc = "swap" /\ th'[c].pc = "write" /\ th'[c].old_mem = mem
  BY <1>1, CallMoves
<1>4. /\ \A d \in Clients : ~Holds(d) /\ (Holds(d)' <=> d = c)
      /\ Flight(c)' = mem
      /\ \A d \in Clients : Adds(d)' <=> Adds(d)
      /\ \A d \in Clients : Adds(d) => d # c /\ Flight(d)' = Flight(d)
  BY <1>2, <1>3 DEF WalFree, Holds, Adds, Others, Flight
<1>5. before' = before /\ GoesOn(hist, before, hist', before')
  BY <1>2 DEF FreshNext, GoesOn
<1>6. Due' \subseteq Due /\ Due \subseteq DOMAIN hist
  BY <1>1, <1>3, CallDue, DueTyped DEF ContinueCall, insert_mem, At
<1>7. /\ inMem' = {} /\ inHands'[c] = inMem /\ inHands[c] = {}
      /\ \A d \in Clients \ {c} : inHands'[d] = inHands[d]
  <2>1. inMem' = {}
    <3>1. Moves(c, "swap", "write")
      BY <1>3 DEF Moves
    <3> QED BY <1>2, <3>1 DEF FreshNext, NextInMem
  <2>2. ASSUME NEW d \in Clients
        PROVE  inHands'[d] = IF th'[d].pc \notin {"write", "truncate", "add"} THEN {}
                             ELSE IF th[d].pc = "swap" THEN inMem
                             ELSE inHands[d]
    BY DEF FreshNext, NextInHands
  <2>3. inHands'[c] = inMem /\ inHands[c] = {}
    BY <1>3, <2>2 DEF HandsInv, Holds, Adds
  <2>4. ASSUME NEW d \in Clients \ {c} PROVE inHands'[d] = inHands[d]
    <3>1. th'[d] = th[d]
      BY <1>3 DEF Others
    <3>2. CASE Holds(d) \/ Adds(d)
      BY <2>2, <3>1, <3>2 DEF Holds, Adds
    <3>3. CASE ~(Holds(d) \/ Adds(d))
      BY <2>2, <3>1, <3>3 DEF Holds, Adds, HandsInv
    <3> QED BY <3>2, <3>3
  <2> QED BY <2>1, <2>3, <2>4
<1>8. Held = {} /\ Held' = inMem /\ Carried' = Carried \cup inMem
  BY <1>4, <1>7 DEF Held, Carried
<1>9. FreshTable(hist', before', mem', Due')
  BY <1>2 DEF FreshTable, EmptyTable
<1>10. FlightFresh'
  <2>1. Due' \in SUBSET Due /\ Due \in SUBSET DOMAIN hist
    BY <1>6
  <2>2. FreshTable(hist', before', mem, Due')
    BY <1>1, <1>5, <2>1, TableStays DEF ReadInv
  <2>3. ASSUME NEW d \in Clients, Adds(d)
        PROVE  FreshTable(hist', before', Flight(d)', Due' \ (inMem' \cup Held'))
    <3>1. /\ Due \ (inMem \cup Held) \in SUBSET Due
          /\ Due' \ (inMem' \cup Held') \in SUBSET (Due \ (inMem \cup Held))
      BY <1>6, <1>7, <1>8
    <3> QED BY <1>1, <1>4, <1>5, <2>3, <3>1, FlightStays DEF ReadInv, FlightFresh
  <2>4. Due' \ inMem' = Due'
    BY <1>7
  <2> QED BY <1>4, <2>2, <2>3, <2>4 DEF FlightFresh
<1>11. LevelsFresh'
  <2>1. Due' \ (inMem' \cup Carried') \subseteq Due \ (inMem \cup Carried)
    BY <1>6, <1>8
  <2>2. L1Now' = L1Now
    BY <1>2 DEF L1Now, Idle, ToInstall
  <2>3. \A k \in Keys : \A v \in Values \cup {Absent} : InLevels(k, v) =>
           \E w \in Values \cup {Absent} : InLevels(k, w)' /\ Answer(w) = Answer(v)
    BY <1>2, <2>2, LevelsSame
  <2> QED BY <1>1, <1>5, <2>1, <2>3, LevelsGoOn DEF ReadInv
<1>12. InPlace'
  <2>1. \A m \in inHands'[c] : m \in DOMAIN hist /\ Flight(c)'[hist[m].key] # Absent
    BY <1>4, <1>7 DEF ReadInv, InPlace
  <2>2. ASSUME NEW d \in Clients \ {c}, NEW m \in inHands[d]
        PROVE  m \in DOMAIN hist /\ Flight(d)'[hist[m].key] # Absent
    BY <1>4, <2>2 DEF HandsInv, ReadInv, InPlace
  <2> QED BY <1>2, <1>7, <2>1, <2>2 DEF InPlace
<1>13. \A d \in Clients : Missed(d)'
  <2> SUFFICES ASSUME NEW d \in Clients, th'[d].pc = "levels" PROVE Missed(d)'
    BY DEF Missed
  <2>1. th'[d] = th[d]
    BY <1>3 DEF Others
  <2> QED BY <1>2, <1>7, <2>1 DEF ReadInv, Missed
<1>14. \A a, b \in Clients : Adds(a)' /\ Adds(b)' => a = b
  BY <1>4 DEF ReadInv
<1>15. ~short'
  BY <1>2 DEF ReadInv
<1> QED BY <1>9, <1>10, <1>11, <1>12, <1>13, <1>14, <1>15 DEF ReadInv

\* The file has what its flush has had in its hands, and is in no list yet.
LEMMA FlushWriteRead ==
    ASSUME EngineFreshInv, HandsInv, ReadInv, FreshNext, NEW c \in Clients, flush_write(c)
    PROVE  ReadInv'
<1> DEFINE p == th[c].path
<1>1. /\ TypeInv /\ CallInv /\ EngineFilesInv /\ EngineRecordsInv
      /\ disk0 \in Directory
  BY DueTyped DEF EngineFreshInv, FreshInv, EngineRecordsInv
<1>2. /\ disk0' = [disk0 EXCEPT ![p] = th[c].old_mem]
      /\ UNCHANGED <<hist, mem, disk1, l0, l1, job, short, acked>>
      /\ proc = "up" /\ proc' = "up"
  BY DEF flush_write, At, ioVars
<1>3. /\ Others(c) /\ th[c].pc = "write" /\ th'[c].pc = "truncate" /\ th'[c].path = p
  BY <1>1, CallMoves
<1>4. /\ Holds(c) /\ Holds(c)' /\ ~Adds(c) /\ ~Adds(c)' /\ p \in Stamps /\ p \notin Listed0
      /\ \A d \in Clients \ {c} :
            /\ ~Holds(d) /\ ~Holds(d)' /\ (Adds(d)' <=> Adds(d))
            /\ Adds(d) => th[d].path # p
  <2>1. Holds(c) /\ Holds(c)' /\ ~Adds(c) /\ ~Adds(c)'
    BY <1>3 DEF Holds, Adds
  <2>2. \A d \in Clients \ {c} : ~Holds(d) /\ ~Holds(d)' /\ (Adds(d)' <=> Adds(d))
    BY <1>1, <1>3, <2>1 DEF CallInv, Holds, Adds, Others
  <2> QED BY <1>1, <2>1, <2>2, CarryTyped
<1>5. /\ disk0'[p] = th[c].old_mem
      /\ \A s \in Stamps \ {p} : disk0'[s] = disk0[s]
  BY <1>1, <1>2, <1>4 DEF Directory
<1> HIDE DEF p
<1>6. \A d \in Clients : /\ Holds(d)' <=> Holds(d)
                         /\ Adds(d)' <=> Adds(d)
                         /\ Holds(d) \/ Adds(d) => Flight(d)' = Flight(d)
                         /\ th[d].pc = "insert" => th'[d].pc = "insert"
  <2>1. Flight(c)' = Flight(c)
    BY <1>3, <1>5 DEF Flight
  <2>2. ASSUME NEW d \in Clients \ {c}, Adds(d) PROVE Flight(d)' = Flight(d)
    <3>1. th'[d] = th[d] /\ th[d].path \in Stamps /\ th[d].path # p /\ th[d].pc # "write"
      BY <1>1, <1>3, <1>4, <2>2, CarryTyped DEF Others, Adds
    <3> QED BY <1>5, <3>1 DEF Flight
  <2> QED BY <1>3, <1>4, <2>1, <2>2 DEF Others
<1>7. \A k \in Keys : \A v \in Values \cup {Absent} : InLevels(k, v) =>
         \E w \in Values \cup {Absent} : InLevels(k, w)' /\ Answer(w) = Answer(v)
  <2>1. L1Now' = L1Now
    BY <1>2 DEF L1Now, Idle, ToInstall
  <2>2. \A i \in DOMAIN l0 : disk0'[l0[i]] = disk0[l0[i]]
    BY <1>1, <1>4, <1>5, ListedTyped
  <2> QED BY <1>2, <2>1, <2>2, LevelsSame
<1>8. GoesOn(hist, before, hist', before')
  BY <1>1, <1>2, HistoryGoesOn
<1>9. Due' \subseteq Due
  BY <1>1, <1>3, CallDue DEF ContinueCall, insert_mem, At
<1>10. \A d \in Clients : th'[d].pc = "levels" =>
          /\ th[d].pc = "levels" /\ th'[d].seen = th[d].seen
          /\ th'[d].entry.key = th[d].entry.key
  BY <1>3 DEF Others
<1> QED BY <1>1, <1>2, <1>6, <1>7, <1>8, <1>9, <1>10, CalmRead

\* The flush lets go of the WAL mutex, and no other file waits to be tracked.
LEMMA TruncateRead ==
    ASSUME EngineFreshInv, HandsInv, ReadInv, FreshNext, NEW c \in Clients,
           flush_truncate(c), ~Crossed
    PROVE  ReadInv'
<1>1. /\ TypeInv /\ CallInv /\ EngineFilesInv /\ EngineRecordsInv
  BY DEF EngineFreshInv, FreshInv, EngineRecordsInv
<1>2. /\ UNCHANGED <<hist, mem, disk0, disk1, l0, l1, job, short, acked>>
      /\ proc = "up" /\ proc' = "up"
  BY DEF flush_truncate, At, levelVars, ioVars
<1>3. /\ Others(c) /\ th[c].pc = "truncate" /\ th'[c].pc = "add"
      /\ th'[c].path = th[c].path
  <2>1. th \in [Clients -> Threads] /\ th' = [th EXCEPT ![c].pc = "add"]
    BY <1>1 DEF flush_truncate, Go, TypeInv, LsmTypeOK
  <2>2. th'[c].path = th[c].path
    BY <2>1 DEF Threads
  <2> QED BY <1>1, <2>2, CallMoves
<1>4. /\ Holds(c) /\ Adds(c)' /\ Flight(c)' = Flight(c)
      /\ \A d \in Clients : /\ Holds(d) => d = c
                            /\ ~Holds(d)' /\ ~Adds(d) /\ (Adds(d)' => d = c)
  <2>1. Moves(c, "truncate", "add") /\ Holds(c) /\ Adds(c)'
    BY <1>3 DEF Moves, Holds, Adds
  <2>2. \A d \in Clients : ~Adds(d)
    BY <2>1 DEF Crossed, Adds
  <2>3. Flight(c)' = Flight(c)
    BY <1>2, <1>3 DEF Flight
  <2> QED BY <1>1, <1>3, <2>1, <2>2, <2>3 DEF CallInv, Holds, Adds, Others
<1>5. inMem' = inMem /\ \A d \in Clients : inHands'[d] = inHands[d]
  <2>1. \A d \in Clients :
           /\ ~(th[d].pc = "insert" /\ th'[d].pc # "insert")
           /\ th[d].pc # "swap" \/ th'[d].pc # "write"
           /\ (Holds(d)' \/ Adds(d)') <=> (Holds(d) \/ Adds(d))
    BY <1>3, <1>4 DEF Others
  <2> QED BY <1>2, <2>1, PlacesStay
<1>6. Held' = {} /\ Carried' = Carried
  BY <1>4, <1>5 DEF Held, Carried
<1>7. GoesOn(hist, before, hist', before')
  BY <1>1, <1>2, HistoryGoesOn
<1>8. Due' \subseteq Due /\ Due \subseteq DOMAIN hist
  BY <1>1, <1>3, CallDue, DueTyped DEF ContinueCall, insert_mem, At
<1>9. FreshTable(hist', before', mem', Due')
  <2>1. Due' \in SUBSET Due /\ Due \in SUBSET DOMAIN hist /\ Within(mem, Written)
    BY <1>1, <1>8 DEF EngineRecordsInv, RecordsInv
  <2> QED BY <1>1, <1>2, <1>7, <2>1, TableStays DEF ReadInv
<1>10. FlightFresh'
  <2>1. /\ Due \ inMem \in SUBSET Due
        /\ Due' \ (inMem' \cup Held') \in SUBSET (Due \ inMem)
    BY <1>5, <1>6, <1>8
  <2>2. FreshTable(hist', before', Flight(c)', Due' \ (inMem' \cup Held'))
    BY <1>1, <1>4, <1>7, <2>1, FlightStays DEF ReadInv, FlightFresh
  <2> QED BY <1>4, <2>2 DEF FlightFresh
<1>11. LevelsFresh'
  <2>1. Due' \ (inMem' \cup Carried') \subseteq Due \ (inMem \cup Carried)
    BY <1>5, <1>6, <1>8
  <2>2. L1Now' = L1Now
    BY <1>2 DEF L1Now, Idle, ToInstall
  <2>3. \A k \in Keys : \A v \in Values \cup {Absent} : InLevels(k, v) =>
           \E w \in Values \cup {Absent} : InLevels(k, w)' /\ Answer(w) = Answer(v)
    BY <1>2, <2>2, LevelsSame
  <2> QED BY <1>1, <1>7, <2>1, <2>3, LevelsGoOn DEF ReadInv
<1>12. InPlace'
  <2>1. \A d \in Clients : inHands[d] # {} => Flight(d)' = Flight(d)
    BY <1>4 DEF HandsInv
  <2> QED BY <1>2, <1>5, <2>1 DEF ReadInv, InPlace
<1>13. \A d \in Clients : Missed(d)'
  <2> SUFFICES ASSUME NEW d \in Clients, th'[d].pc = "levels" PROVE Missed(d)'
    BY DEF Missed
  <2>1. th'[d] = th[d]
    BY <1>3 DEF Others
  <2> QED BY <1>2, <1>5, <2>1 DEF ReadInv, Missed
<1>14. \A a, b \in Clients : Adds(a)' /\ Adds(b)' => a = b
  BY <1>4
<1>15. ~short'
  BY <1>2 DEF ReadInv
<1> QED BY <1>9, <1>10, <1>11, <1>12, <1>13, <1>14, <1>15 DEF ReadInv

\* The file that waited becomes the last of L0, and its calls are in no hands
\* any more.
LEMMA AddRead ==
    ASSUME EngineFreshInv, HandsInv, ReadInv, FreshNext, NEW c \in Clients, flush_add(c)
    PROVE  ReadInv'
<1> DEFINE p == th[c].path
           n == Len(l0) + 1
<1>1. /\ TypeInv /\ CallInv /\ EngineFilesInv /\ EngineRecordsInv
  BY DEF EngineFreshInv, FreshInv, EngineRecordsInv
<1>2. /\ l0' = Append(l0, p) /\ th[c].pc = "add" /\ acked \subseteq acked'
      /\ proc = "up" /\ proc' = "up"
      /\ UNCHANGED <<hist, mem, disk0, disk1, l1, job, short>>
  BY DEF flush_add, add_l0_file, At, ReturnOk, ioVars
<1>3. Others(c) /\ th'[c].pc = "idle"
  BY <1>1, CallMoves
<1>4. /\ Adds(c) /\ ~Holds(c) /\ Flight(c) = disk0[p] /\ p \in Stamps
      /\ disk0[p] \in Table /\ Within(disk0[p], Written)
      /\ \A d \in Clients : /\ (Holds(d)' <=> Holds(d)) /\ ~Adds(d)'
                            /\ Adds(d) => d = c
                            /\ Holds(d) => Flight(d)' = Flight(d)
  <2>1. Adds(c) /\ ~Holds(c) /\ ~Holds(c)' /\ ~Adds(c)'
    BY <1>2, <1>3 DEF Adds, Holds
  <2>2. /\ Flight(c) = disk0[p] /\ p \in Stamps
        /\ disk0[p] \in Table /\ Within(disk0[p], Written)
    BY <1>1, <2>1, CarryTyped
  <2>3. \A d \in Clients \ {c} : ~Adds(d)
    BY <2>1 DEF ReadInv
  <2> QED BY <1>2, <1>3, <2>1, <2>2, <2>3 DEF Adds, Holds, Others, Flight
<1>5. /\ DOMAIN l0' = DOMAIN l0 \cup {n} /\ l0'[n] = p
      /\ \A i \in DOMAIN l0 : l0'[i] = l0[i] /\ n > i /\ ~(i > n)
      /\ ~(n > n)
  <2>1. l0 \in Seq(Stamps) /\ Len(l0) \in Nat /\ DOMAIN l0 = 1..Len(l0)
    BY <1>1, ListedTyped, LenProperties
  <2>2. /\ l0' \in Seq(Stamps) /\ Len(l0') = n /\ l0'[n] = p
        /\ \A i \in 1..Len(l0) : l0'[i] = l0[i]
    BY <1>2, <1>4, <2>1, AppendProperties
  <2>3. DOMAIN l0' = 1..n
    BY <2>2, LenProperties
  <2>4. 1..n = 1..Len(l0) \cup {n} /\ \A i \in 1..Len(l0) : n > i /\ ~(i > n)
    <3>1. Len(l0) \in Nat
      BY <2>1
    <3> QED BY <3>1
  <2>5. ~(n > n)
    BY <2>1
  <2> QED BY <2>1, <2>2, <2>3, <2>4, <2>5
<1>6. L1Now' = L1Now
  BY <1>2 DEF L1Now, Idle, ToInstall
<1>7. /\ inMem' = inMem /\ inHands'[c] = {}
      /\ \A d \in Clients \ {c} : inHands'[d] = inHands[d]
  <2>1. Inserting = {} /\ \A d \in Clients : ~Moves(d, "swap", "write")
    BY <1>2, <1>3 DEF Inserting, Moves, Others
  <2>2. inMem' = inMem
    BY <1>2, <2>1 DEF FreshNext, NextInMem
  <2>3. ASSUME NEW d \in Clients
        PROVE  inHands'[d] = IF th'[d].pc \notin {"write", "truncate", "add"} THEN {}
                             ELSE IF th[d].pc = "swap" THEN inMem
                             ELSE inHands[d]
    BY DEF FreshNext, NextInHands
  <2>4. inHands'[c] = {}
    BY <1>3, <2>3
  <2>5. ASSUME NEW d \in Clients \ {c} PROVE inHands'[d] = inHands[d]
    <3>1. th'[d] = th[d]
      BY <1>3 DEF Others
    <3>2. CASE Holds(d)
      BY <2>3, <3>1, <3>2 DEF Holds
    <3>3. CASE ~Holds(d)
      BY <1>4, <2>3, <3>1, <3>3 DEF Holds, Adds, HandsInv
    <3> QED BY <3>2, <3>3
  <2> QED BY <2>2, <2>4, <2>5
<1>8. Held' = Held /\ Carried' = Held /\ Carried = Held \cup inHands[c]
  <2>1. \A d \in Clients \ {c} : inHands[d] = {} \/ Holds(d)
    BY <1>4 DEF HandsInv
  <2>2. Held' = Held
    BY <1>4, <1>7 DEF Held
  <2>3. Carried' = Held
    BY <1>4, <1>7, <2>1 DEF Held, Carried
  <2>4. Carried = Held \cup inHands[c]
    BY <1>4, <2>1 DEF Held, Carried
  <2> QED BY <2>2, <2>3, <2>4
<1>9. GoesOn(hist, before, hist', before') /\ before' = before
  BY <1>2 DEF FreshNext, GoesOn
<1>10. Due' \subseteq Due /\ Due \subseteq DOMAIN hist
  BY <1>1, <1>2, CallDue, DueTyped DEF ContinueCall, insert_mem, At
<1> HIDE DEF p, n
<1>11. FreshTable(hist', before', mem', Due')
  <2>1. Due' \in SUBSET Due /\ Due \in SUBSET DOMAIN hist /\ Within(mem, Written)
    BY <1>1, <1>10 DEF EngineRecordsInv, RecordsInv
  <2> QED BY <1>1, <1>2, <1>9, <2>1, TableStays DEF ReadInv
<1>12. FlightFresh'
  <2>1. Due \ inMem \in SUBSET Due /\ Due' \ inMem' \in SUBSET (Due \ inMem)
    BY <1>7, <1>10
  <2>2. ASSUME NEW d \in Clients, Holds(d)
        PROVE  FreshTable(hist', before', Flight(d)', Due' \ inMem')
    BY <1>1, <1>4, <1>9, <2>1, <2>2, FlightStays DEF ReadInv, FlightFresh
  <2> QED BY <1>4, <2>2 DEF FlightFresh
<1>13. LevelsFresh'
  <2> DEFINE M == Due \ (inMem \cup Carried)
             N == Due' \ (inMem \cup Held)
  <2> SUFFICES ASSUME NEW k \in Keys
               PROVE  \E v \in Values \cup {Absent} :
                         InLevels(k, v)' /\ FreshIn(hist', before', k, Answer(v), N)
    BY <1>7, <1>8 DEF LevelsFresh
  <2>1. M \in SUBSET DOMAIN hist /\ N \in SUBSET DOMAIN hist
    BY <1>10
  <2>2. CASE disk0[p][k] # Absent
    <3>1. PICK v : v = disk0[p][k]
      OBVIOUS
    <3>2. v \in Values \cup {Absent} /\ InLevels(k, v)'
      <4>1. NewestIn(k, v)'
        BY <1>2, <1>5, <2>2, <3>1 DEF NewestIn
      <4> QED BY <1>4, <2>2, <3>1, <4>1 DEF InLevels, Table
    <3>3. Current(hist, before, v.ver, N)
      <4>1. Current(hist, before, v.ver, Due \ (inMem \cup Held))
        BY <1>4, <2>2, <3>1 DEF ReadInv, FlightFresh, FreshTable
      <4> QED BY <1>10, <4>1 DEF Current
    <3>4. FreshIn(hist, before, k, Answer(v), N)
      BY <1>1, <1>4, <2>2, <3>1, <3>3, RecordFresh DEF Within
    <3> QED BY <1>2, <1>9, <3>2, <3>4
  <2>3. CASE disk0[p][k] = Absent
    <3>1. PICK v \in Values \cup {Absent} :
             InLevels(k, v) /\ FreshIn(hist, before, k, Answer(v), M)
      BY DEF ReadInv, LevelsFresh
    <3>2. InLevels(k, v)'
      <4>1. CASE v # Absent /\ NewestIn(k, v)
        <5>1. NewestIn(k, v)'
          BY <1>2, <1>5, <2>3, <4>1 DEF NewestIn
        <5> QED BY <4>1, <5>1 DEF InLevels
      <4>2. CASE /\ \A i \in DOMAIN l0 : disk0[l0[i]][k] = Absent
                 /\ OneRecord(disk1, L1Now, k, v)
        <5>1. \A i \in DOMAIN l0' : disk0'[l0'[i]][k] = Absent
          BY <1>2, <1>5, <2>3, <4>2
        <5> QED BY <1>2, <1>6, <4>2, <5>1 DEF InLevels
      <4> QED BY <3>1, <4>1, <4>2 DEF InLevels
    <3>3. \A m \in N : hist[m].key = k => m \in M
      <4>1. \A m \in inHands[c] : hist[m].key # k
        BY <1>4, <2>3 DEF ReadInv, InPlace
      <4> QED BY <1>8, <1>10, <4>1
    <3> HIDE DEF M, N
    <3>4. FreshIn(hist', before', k, Answer(v), N)
      BY <1>9, <2>1, <3>1, <3>3, StaysFresh
    <3> QED BY <3>2, <3>4
  <2> QED BY <2>2, <2>3
<1>14. InPlace'
  <2>1. \A d \in Clients \ {c} : inHands[d] # {} => Flight(d)' = Flight(d)
    BY <1>4 DEF HandsInv
  <2> QED BY <1>2, <1>7, <2>1 DEF ReadInv, InPlace
<1>15. \A d \in Clients : Missed(d)'
  <2> SUFFICES ASSUME NEW d \in Clients, th'[d].pc = "levels" PROVE Missed(d)'
    BY DEF Missed
  <2>1. th'[d] = th[d]
    BY <1>3 DEF Others
  <2> QED BY <1>2, <1>7, <2>1 DEF ReadInv, Missed
<1>16. ~short' /\ \A a, b \in Clients : Adds(a)' /\ Adds(b)' => a = b
  BY <1>2, <1>4 DEF ReadInv
<1> QED BY <1>11, <1>12, <1>13, <1>14, <1>15, <1>16 DEF ReadInv

-----------------------------------------------------------------------------
(***************************************************************************)
(* Compaction.                                                             *)
(***************************************************************************)

\* A merge of files no two of which have a key: what was found in L0, or else
\* in L1, is answered alike by what will be installed.
LEMMA MergeLevels ==
    ASSUME StrictClock, EngineFilesInv, compact_merge, ~Contested,
           NEW k \in Keys, NEW v \in Values \cup {Absent}, InLevels(k, v)
    PROVE  \E w \in Values \cup {Absent} : InLevels(k, w)' /\ Answer(w) = Answer(v)
<1>1. /\ FilesInv /\ disk0 \in Directory /\ l0 \in Seq(Stamps)
      /\ ToSet(l0) \in SUBSET Stamps /\ \A s \in ToSet(l0) : disk0[s] # NoFile
  BY ListedTyped DEF EngineFilesInv, ToSet
<1>2. Idle /\ ~Idle' /\ l0' = <<>>
  BY <1>1, MergeStep DEF Merges, compact_merge, compact_passes, drain_l0
<1>3. L1Now = ToSet(l1) /\ L1Now' = ToSet(ToInstall')
  BY <1>2 DEF L1Now
<1>4. \A p, q \in ToSet(l0) : disk0[p][k] # Absent /\ disk0[q][k] # Absent => p = q
  BY <1>2 DEF Contested, ToSet
<1>5. \E y : /\ OneRecord(disk1', ToSet(ToInstall'), k, y)
             /\ Answer(y) = Answer(v)
  <2>1. CASE v # Absent /\ NewestIn(k, v)
    <3>1. PICK p \in ToSet(l0) : disk0[p][k] = v
      BY <2>1 DEF NewestIn, ToSet
    <3>2. OneRecord(disk0, ToSet(l0), k, v)
      BY <1>4, <2>1, <3>1 DEF OneRecord
    <3>3. \E y : /\ OneRecord(disk1', ToSet(ToInstall'), k, y)
                 /\ Answer(y) = Answer(IF v # Absent THEN v ELSE v)
      BY <1>1, <2>1, <3>2, MergeOne
    <3> QED BY <3>3
  <2>2. CASE /\ \A i \in DOMAIN l0 : disk0[l0[i]][k] = Absent
             /\ OneRecord(disk1, L1Now, k, v)
    <3>1. OneRecord(disk0, ToSet(l0), k, Absent)
      BY <2>2 DEF OneRecord, ToSet
    <3>2. OneRecord(disk1, ToSet(l1), k, v)
      BY <1>3, <2>2
    <3>3. \E y : /\ OneRecord(disk1', ToSet(ToInstall'), k, y)
                 /\ Answer(y) = Answer(IF Absent # Absent THEN Absent ELSE v)
      BY <1>1, <3>1, <3>2, MergeOne
    <3> QED BY <3>3
  <2> QED BY <2>1, <2>2 DEF InLevels
<1>6. PICK y : /\ OneRecord(disk1', ToSet(ToInstall'), k, y)
               /\ Answer(y) = Answer(v)
  BY <1>5
<1>7. y \in Values \cup {Absent} /\ InLevels(k, y)'
  BY <1>2, <1>3, <1>6 DEF InLevels, OneRecord
<1> QED BY <1>6, <1>7

\* The removal of the inputs, and the installation of the rest.
LEMMA EndLevels ==
    ASSUME EngineFilesInv, compact_end,
           NEW k, NEW v \in Values \cup {Absent}, InLevels(k, v)
    PROVE  \E w \in Values \cup {Absent} : InLevels(k, w)' /\ Answer(w) = Answer(v)
<1>1. FilesInv /\ LevelTypeOK
  BY DEF EngineFilesInv, FilesInv
<1>2. ~Idle
  BY JobProperties
     DEF compact_end, remove_l0_input, remove_l1_input, compact_install, Idle
<1>3. l0 = <<>> /\ l0' = l0 /\ L1Now = ToSet(ToInstall)
  BY <1>1, <1>2 DEF LevelTypeOK, L1Now, compact_end, remove_l0_input, remove_l1_input,
     compact_install
<1>4. CASE remove_l0_input \/ remove_l1_input
  <2>1. /\ ToInstall' = ToInstall
        /\ \A n \in DOMAIN ToInstall : disk1'[ToInstall[n]] = disk1[ToInstall[n]]
    BY <1>1, <1>4, RemoveKeepsInstalled
  <2>2. ~Idle'
    <3>1. job'.output = job.output /\ job.output # 0
      BY <1>1, <1>2, <1>4 DEF remove_l0_input, remove_l1_input, LevelTypeOK
    <3> QED BY <3>1, JobProperties DEF Idle
  <2>3. L1Now' = L1Now
    BY <1>3, <2>1, <2>2 DEF L1Now
  <2>4. \A s \in L1Now : disk1'[s] = disk1[s]
    BY <1>3, <2>1 DEF ToSet
  <2> QED BY <1>3, <2>3, <2>4, LevelsSame
<1>5. CASE compact_install
  <2>1. Idle' /\ l1' = ToInstall /\ disk1' = disk1
    BY <1>5 DEF compact_install, Idle, ToInstall
  <2>2. L1Now' = L1Now
    BY <1>3, <2>1 DEF L1Now
  <2> QED BY <1>3, <2>1, <2>2, LevelsSame
<1> QED BY <1>4, <1>5 DEF compact_end

LEMMA CompactorRead ==
    ASSUME StrictClock, EngineFreshInv, HandsInv, ReadInv, FreshNext, CompactorNext,
           ~Contested, ~DrainedAway, ~CutScan
    PROVE  ReadInv'
<1>1. /\ UNCHANGED <<hist, mem, th, acked, proc>> /\ proc # "down"
      /\ compact_begin \/ compact_end \/ UNCHANGED levelVars
  BY DEF CompactorNext, compactor_check, compactor_poll, compactor_begin,
     compactor_remove, compactor_install, Compactor, compact_begin, compact_end
<1>2. /\ TypeInv /\ CallInv /\ EngineFilesInv /\ EngineRecordsInv /\ LevelTypeOK /\ ~short
  BY DEF EngineFreshInv, FreshInv, EngineRecordsInv, EngineFilesInv, FilesInv, ReadInv
<1>3. ASSUME compact_begin PROVE compact_merge
  <2>1. ~compact_merge_short
    BY <1>2 DEF compact_merge_short, short_scan, CutScan
  <2>2. ~compact_l0_error /\ ~compact_l1_error
    BY <1>1 DEF compact_l0_error, compact_l1_error, drain_l0, DrainedAway, Idle
  <2> QED BY <1>3, <2>1, <2>2 DEF compact_begin
<1>4. short' = short
  BY <1>1, <1>3 DEF compact_merge, compact_end, remove_l0_input, remove_l1_input,
     compact_install, io_error, levelVars, ioVars
<1>5. \A k \in Keys : \A v \in Values \cup {Absent} : InLevels(k, v) =>
         \E w \in Values \cup {Absent} : InLevels(k, w)' /\ Answer(w) = Answer(v)
  <2>1. CASE compact_merge
    BY <1>2, <2>1, MergeLevels
  <2>2. CASE compact_end
    BY <1>2, <2>2, EndLevels
  <2>3. CASE UNCHANGED levelVars
    <3>1. UNCHANGED <<disk0, disk1, l0>> /\ L1Now' = L1Now
      BY <2>3 DEF levelVars, L1Now, Idle, ToInstall
    <3> QED BY <3>1, LevelsSame
  <2> QED BY <1>1, <1>3, <2>1, <2>2, <2>3
<1>6. \A c \in Clients : /\ Holds(c)' <=> Holds(c)
                         /\ Adds(c)' <=> Adds(c)
                         /\ Holds(c) \/ Adds(c) => Flight(c)' = Flight(c)
                         /\ th[c].pc = "insert" => th'[c].pc = "insert"
  <2> SUFFICES ASSUME NEW c \in Clients, Holds(c) \/ Adds(c) PROVE Flight(c)' = Flight(c)
    BY <1>1 DEF Holds, Adds
  <2>1. th[c].path \in Stamps /\ th[c].path \notin Listed0
    BY <1>2, CarryTyped
  <2>2. disk0'[th[c].path] = disk0[th[c].path]
    BY <1>1, <1>2, <2>1, CompactOnL0 DEF levelVars
  <2> QED BY <1>1, <2>2 DEF Flight
<1>7. GoesOn(hist, before, hist', before')
  BY <1>1, <1>2, HistoryGoesOn
<1>8. Due' = Due
  BY <1>1 DEF Due, Inserted, Call
<1> QED BY <1>1, <1>2, <1>4, <1>5, <1>6, <1>7, <1>8, CalmRead

-----------------------------------------------------------------------------
(***************************************************************************)
(* The process.                                                            *)
(***************************************************************************)

\* What is newest by name among the files is last in the list that a directory
\* scan makes of them.
LEMMA FoundNewest ==
    ASSUME NEW k, NEW v, l0' = Found(disk0), disk0' = disk0, disk0 \in Directory,
           NEW S, S = {s \in Stamps : disk0[s] # NoFile}
    PROVE  /\ LastOf(disk0, S, k, v) => v # Absent /\ NewestIn(k, v)'
           /\ (\A s \in S : disk0[s][k] = Absent) =>
                 \A i \in DOMAIN l0' : disk0'[l0'[i]][k] = Absent
<1> DEFINE F == Found(disk0)
<1>1. /\ F \in Seq(Stamps) /\ ToSet(F) = S
      /\ \A i, j \in DOMAIN F : i < j => F[i] < F[j]
  BY FoundProperties, FoundMembers, FoundOrder
<1>2. \A i \in DOMAIN F : F[i] \in S
  BY <1>1 DEF ToSet
<1>3. DOMAIN F \subseteq Nat
  BY <1>1, LenProperties
<1> HIDE DEF F
<1>4. ASSUME LastOf(disk0, S, k, v) PROVE v # Absent /\ NewestIn(k, v)'
  <2>1. PICK s \in S : /\ disk0[s][k] = v
                       /\ \A t \in S : t > s => disk0[t][k] = Absent
    BY <1>4 DEF LastOf
  <2>2. PICK i \in DOMAIN F : F[i] = s
    BY <1>1 DEF ToSet
  <2>3. ASSUME NEW j \in DOMAIN F, j > i PROVE disk0[F[j]][k] = Absent
    <3>1. i < j
      BY <1>3, <2>3
    <3>2. F[i] < F[j] /\ F[i] \in Int /\ F[j] \in Int
      BY <1>1, <1>2, <3>1 DEF Stamps
    <3>3. F[j] > s
      BY <2>2, <3>2
    <3> QED BY <1>2, <2>1, <3>3
  <2> QED BY <1>4, <2>1, <2>2, <2>3 DEF LastOf, NewestIn, F
<1> QED BY <1>2, <1>4 DEF F

\* The calls whose records the log replays are the last ones.
LEMMA LogCalls ==
    ASSUME TypeInv, LogOrdered
    PROVE  {e.value.ver : e \in ToSet(replay(log))} = {m \in DOMAIN hist : m > Settled}
<1> DEFINE es == replay(log)
<1>1. /\ es \in Seq(Frames) /\ DOMAIN es = 1..Len(es) /\ Len(es) \in Nat
      /\ DOMAIN hist = 1..Len(hist) /\ Len(hist) \in Nat
  BY DueTyped, ReplayProperties, LenProperties
<1>2. /\ Settled = Len(hist) - Len(es) /\ Settled >= 0
      /\ \A i \in DOMAIN es : es[i].value = Record(Settled + i, hist[Settled + i].tomb)
  BY DEF LogOrdered, Settled
<1>3. ToSet(es) = {es[i] : i \in DOMAIN es}
  BY DEF ToSet
<1> HIDE DEF es
<1>4. ASSUME NEW i \in DOMAIN es
      PROVE  /\ Settled + i \in DOMAIN hist /\ Settled + i > Settled
             /\ es[i].value.ver = Settled + i
  <2>1. Settled + i \in DOMAIN hist /\ Settled + i > Settled
    BY <1>1, <1>2
  <2>2. Settled + i \in 1..MaxWrites /\ hist[Settled + i].tomb \in BOOLEAN
    BY <2>1, CallTyped
  <2> QED BY <1>2, <2>1, <2>2, RecordTyped
<1>5. ASSUME NEW m \in DOMAIN hist, m > Settled
      PROVE  \E i \in DOMAIN es : es[i].value.ver = m
  <2>1. m - Settled \in DOMAIN es /\ Settled + (m - Settled) = m
    BY <1>1, <1>2, <1>5
  <2> QED BY <1>4, <2>1
<1> QED BY <1>3, <1>4, <1>5 DEF es

\* What open rebuilds is fresh by the invariant of the other theorem.
LEMMA OpenRead ==
    ASSUME EngineFreshInv, Clean, open, FreshNext
    PROVE  ReadInv'
<1>1. /\ TypeInv /\ CallInv /\ LogOrdered /\ DiskFresh /\ ~short
      /\ disk0 \in Directory /\ disk1 \in Directory
  BY DueTyped DEF CleanInv, EngineFreshInv, EngineRecordsInv, FreshInv
<1>2. /\ proc = "down" /\ mem' = Rebuild(replay(log))
      /\ l0' = Found(disk0) /\ l1' = Found(disk1)
      /\ UNCHANGED <<log, hist, disk0, disk1, job, short, th, acked>>
  BY DEF open, discover_levels, walVars, fileVars, ioVars
<1>3. Idle /\ Idle' /\ \A d \in Clients : th[d].pc = "idle" /\ th'[d].pc = "idle"
  BY <1>1, <1>2 DEF TypeInv, LsmTypeOK, ThreadsFit, Idle
<1>4. \A d \in Clients : ~Holds(d)' /\ ~Adds(d)'
  BY <1>3 DEF Holds, Adds
<1>5. Due' = Due /\ before' = before /\ Due \in SUBSET DOMAIN hist
  BY <1>1, <1>2, DueTyped DEF Due, Inserted, Call, FreshNext
<1>6. /\ FreshTable(hist', before', mem', Due')
      /\ \A m \in DOMAIN hist : m > Settled => mem'[hist[m].key] # Absent
  BY <1>1, <1>2, <1>5, RebuildFresh
<1>7. /\ L0Left = {s \in Stamps : disk0[s] # NoFile}
      /\ L1Left = L1Now'
  <2>1. ToSet(job.todo0) = {} /\ ToSet(job.todo1) = {}
    BY <1>3, JobProperties DEF Idle, ToSet
  <2>2. L1Left = ToSet(Found(disk1))
    BY <1>1, <2>1, FoundMembers DEF L1Left
  <2> QED BY <1>2, <1>3, <2>1, <2>2 DEF L0Left, L1Now
<1>8. inMem' = {m \in DOMAIN hist : m > Settled} /\ \A d \in Clients : inHands'[d] = {}
  <2>1. \A d \in Clients : inHands'[d] = {}
    BY <1>3 DEF FreshNext, NextInHands
  <2>2. inMem' = {e.value.ver : e \in ToSet(replay(log))}
    BY <1>2 DEF FreshNext, NextInMem, open
  <2> QED BY <1>1, <2>1, <2>2, LogCalls
<1>9. LevelsFresh'
  <2> SUFFICES ASSUME NEW k \in Keys
               PROVE  \E v \in Values \cup {Absent} :
                         /\ InLevels(k, v)'
                         /\ FreshIn(hist, before, k, Answer(v), Due \ (inMem' \cup Carried'))
    BY <1>2, <1>5 DEF LevelsFresh
  <2>1. PICK v \in Values \cup {Absent} :
           DiskHolds(k, v) /\ FreshIn(hist, before, k, Answer(v), SettledDue)
    BY <1>1 DEF DiskFresh
  <2>2. InLevels(k, v)'
    <3>1. CASE LastOf(disk0, L0Left, k, v)
      BY <1>1, <1>2, <1>7, <3>1, FoundNewest DEF InLevels
    <3>2. CASE (\A s \in L0Left : disk0[s][k] = Absent) /\ OneRecord(disk1, L1Left, k, v)
      <4>1. \A i \in DOMAIN l0' : disk0'[l0'[i]][k] = Absent
        BY <1>1, <1>2, <1>7, <3>2, FoundNewest
      <4>2. OneRecord(disk1', L1Now', k, v)
        BY <1>2, <1>7, <3>2
      <4> QED BY <4>1, <4>2 DEF InLevels
    <3> QED BY <2>1, <3>1, <3>2 DEF DiskHolds
  <2>3. FreshIn(hist, before, k, Answer(v), Due \ (inMem' \cup Carried'))
    <3>1. \A m \in Due \ (inMem' \cup Carried') : m \in SettledDue
      <4> SUFFICES ASSUME NEW m \in Due, ~(m > Settled) PROVE m <= Settled
        BY <1>5, <1>8 DEF SettledDue
      <4>1. m \in Int /\ Settled \in Int
        BY <1>1, DueTyped, SettledTyped
      <4> QED BY <4>1
    <3>2. /\ GoesOn(hist, before, hist, before) /\ SettledDue \in SUBSET DOMAIN hist
          /\ Due \ (inMem' \cup Carried') \in SUBSET DOMAIN hist
      BY <1>5 DEF GoesOn, SettledDue
    <3> QED BY <2>1, <3>1, <3>2, StaysFresh
  <2> QED BY <2>2, <2>3
<1>10. FlightFresh' /\ InPlace'
  BY <1>2, <1>4, <1>6, <1>8 DEF FlightFresh, InPlace
<1>11. \A d \in Clients : Missed(d)'
  BY <1>3 DEF Missed
<1> QED BY <1>1, <1>2, <1>4, <1>6, <1>9, <1>10, <1>11 DEF ReadInv

\* The calls under way stay apart from each other and from those acknowledged.
LEMMA HandsStay ==
    ASSUME TypeInv, HandsInv, FreshNext
    PROVE  HandsInv'
<1>1. ASSUME NEW c \in Clients, inHands'[c] # {} PROVE (Holds(c) \/ Adds(c))'
  BY <1>1 DEF FreshNext, NextInHands, Holds, Adds
<1>2. ASSUME acked' = acked,
             \A c \in Clients : Busy(c)' => Busy(c) /\ th'[c].entry = th[c].entry
      PROVE  HandsInv'
  BY <1>1, <1>2 DEF HandsInv, Call
<1>3. /\ acked \subseteq DOMAIN hist /\ Len(hist) + 1 \notin DOMAIN hist
      /\ \A c \in Clients : Busy(c) => Call(c) \in DOMAIN hist
  <2>1. DOMAIN hist = 1..Len(hist) /\ Len(hist) \in Nat /\ acked \subseteq DOMAIN hist
    BY DueTyped
  <2>2. Len(hist) + 1 \notin 1..Len(hist)
    BY <2>1
  <2> QED BY <2>1, <2>2 DEF TypeInv, ThreadsFit, Busy, Call
<1>4. ASSUME NEW c \in Clients, NEW k \in Keys, NEW d \in BOOLEAN, write_wal(c, k, d)
      PROVE  HandsInv'
  <2>1. Others(c) /\ Call(c)' = Len(hist) + 1 /\ acked' = acked
    BY <1>4, WriteMoves DEF write_wal
  <2>2. \A e \in Clients \ {c} : Busy(e)' => /\ Busy(e) /\ Call(e)' = Call(e)
                                            /\ Call(e)' # Len(hist) + 1
    BY <1>3, <2>1 DEF Others, Busy, Call
  <2> QED BY <1>1, <1>3, <2>1, <2>2 DEF HandsInv
<1>5. ASSUME NEW c \in Clients, Others(c), acked' = acked \cup {Call(c)},
             Busy(c), th'[c].pc = "idle"
      PROVE  HandsInv'
  <2>1. \A e \in Clients : Busy(e)' => Busy(e) /\ Call(e)' = Call(e) /\ Call(e) # Call(c)
    BY <1>5 DEF Others, Busy, Call, HandsInv
  <2> QED BY <1>1, <1>5, <2>1 DEF HandsInv
<1>6. ASSUME NEW c \in Clients, ContinueCall(c) \/ \E k \in Keys : get(c, k)
      PROVE  HandsInv'
  <2>1. CASE (insert_mem(c) /\ th'[c].pc = "idle") \/ flush_add(c)
    <3>1. /\ Others(c) /\ th'[c].pc = "idle" /\ Busy(c)
          /\ acked' = acked \cup {Call(c)}
      <4>1. CASE insert_mem(c) /\ th'[c].pc = "idle"
        BY <4>1, CallMoves DEF Busy
      <4>2. CASE flush_add(c)
        BY <4>2, CallMoves DEF flush_add, At, ReturnOk, Busy, Call
      <4> QED BY <2>1, <4>1, <4>2
    <3> QED BY <1>5, <3>1
  <2>2. CASE ~((insert_mem(c) /\ th'[c].pc = "idle") \/ flush_add(c))
    <3>1. Others(c) /\ (Busy(c)' => Busy(c) /\ th'[c].entry = th[c].entry)
      BY <1>6, <2>2, CallMoves DEF ContinueCall, Busy
    <3>2. acked' = acked
      <4>1. insert_mem(c) => acked' = acked
        BY <2>2, CallMoves
      <4> QED
        BY <1>6, <2>2, <4>1 DEF ContinueCall, next_sstable_path, flush_swap, flush_write,
           flush_truncate, flush_error, ReturnError, get_levels, get
    <3>3. \A e \in Clients : Busy(e)' => Busy(e) /\ th'[e].entry = th[e].entry
      BY <3>1 DEF Others, Busy
    <3> QED BY <1>2, <3>2, <3>3
  <2> QED BY <2>1, <2>2
<1>7. ASSUME UNCHANGED <<th, acked>> PROVE HandsInv'
  BY <1>2, <1>7 DEF Busy
<1>8. ASSUME CompactorNext \/ open \/ drop \/ \E c \in Clients : write_wal_error(c)
      PROVE  UNCHANGED <<th, acked>>
  BY <1>8 DEF CompactorNext, compactor_check, compactor_poll, compactor_begin,
     compactor_remove, compactor_install, Compactor, open, drop, write_wal_error
<1>9. ASSUME join \/ crash PROVE HandsInv'
  <2>1. acked' = acked /\ \A c \in Clients : ~Busy(c)'
    BY <1>9, RestingTyped DEF join, crash, Forget, Busy
  <2> QED BY <1>2, <2>1
<1> QED
  BY <1>4, <1>6, <1>7, <1>8, <1>9
     DEF FreshNext, LsmNext, BeginCall, ProcessNext, set, delete

LEMMA ReadInitially == FreshInit => EngineReadInv
<1> SUFFICES ASSUME FreshInit PROVE EngineReadInv
  OBVIOUS
<1>1. /\ EngineFreshInv /\ mishaps = {} /\ proc = "down"
      /\ \A c \in Clients : inHands[c] = {} /\ th[c].pc = "idle"
  BY FreshInitially, RestingTyped DEF FreshInit, LsmInit
<1>2. HandsInv
  BY <1>1 DEF HandsInv, Busy
<1> QED BY <1>1, <1>2 DEF EngineReadInv

LEMMA ReadStep ==
    ASSUME StrictClock, EngineReadInv, EngineFreshInv', FreshNext, proc' # "down", Sound'
    PROVE  ReadInv'
<1>1. /\ Sound /\ ~Crossed /\ ~Dropped /\ ~Contested /\ ~DrainedAway /\ ~CutScan
      /\ EngineFreshInv /\ EngineFilesInv /\ EngineRecordsInv /\ TypeInv /\ CallInv
      /\ HandsInv
  BY Undisturbed DEF EngineReadInv, EngineFreshInv, EngineRecordsInv, FreshInv
<1>2. CASE open
  <2>1. Clean
    <3>1. mishaps = {}
      BY <1>1, <1>2 DEF EngineReadInv, open, Sound, InMemory
    <3> QED BY <3>1 DEF Clean
  <2> QED BY <1>1, <1>2, <2>1, OpenRead
<1>3. CASE ~open
  <2>1. ReadInv
    <3>1. ASSUME NEW c \in Clients, BeginCall(c) PROVE proc = "up"
      BY <3>1, Zenon
         DEF BeginCall, set, delete, write_wal, write_wal_error, get, At
    <3>2. ASSUME NEW c \in Clients, ContinueCall(c) PROVE proc = "up"
      BY <3>2 DEF ContinueCall, insert_mem, next_sstable_path, flush_swap, flush_write,
                  flush_truncate, flush_error, flush_add, get_levels, At
    <3>3. ASSUME CompactorNext PROVE proc # "down"
      BY <3>3 DEF CompactorNext, compactor_check, compactor_poll, compactor_begin,
                  compactor_remove, compactor_install, Compactor
    <3>4. ASSUME drop \/ join \/ crash PROVE proc # "down"
      BY <3>4 DEF drop, join, crash
    <3>5. proc # "down"
      BY <1>3, <3>1, <3>2, <3>3, <3>4 DEF FreshNext, LsmNext, ProcessNext
    <3> QED BY <1>1, <3>5 DEF EngineReadInv
  <2>2. ASSUME NEW c \in Clients, BeginCall(c) \/ ContinueCall(c) PROVE ReadInv'
    <3>1. ~flush_error(c)
      <4>1. flush_error(c) => /\ th[c].pc \in {"write", "truncate"}
                              /\ th'[c].pc = "idle" /\ proc' = "up"
        BY <1>1, CallMoves DEF flush_error, At
      <4> QED BY <1>1, <4>1 DEF Dropped
    <3>2. CASE BeginCall(c) \/ next_sstable_path(c) \/ get_levels(c)
      BY <1>1, <2>1, <3>2, CallRead
    <3>3. CASE insert_mem(c)
      BY <1>1, <2>1, <3>3, InsertRead
    <3>4. CASE flush_swap(c)
      BY <1>1, <2>1, <3>4, SwapRead
    <3>5. CASE flush_write(c)
      BY <1>1, <2>1, <3>5, FlushWriteRead
    <3>6. CASE flush_truncate(c)
      BY <1>1, <2>1, <3>6, TruncateRead
    <3>7. CASE flush_add(c)
      BY <1>1, <2>1, <3>7, AddRead
    <3> QED BY <2>2, <3>1, <3>2, <3>3, <3>4, <3>5, <3>6, <3>7 DEF ContinueCall
  <2>3. CASE CompactorNext
    BY <1>1, <2>1, <2>3, CompactorRead
  <2>4. CASE drop
    <3>1. UNCHANGED <<hist, mem, disk0, disk1, l0, l1, job, short, th, acked>> /\ proc = "up"
      BY <2>4 DEF drop, levelVars, ioVars
    <3>2. GoesOn(hist, before, hist', before')
      BY <1>1, <3>1, HistoryGoesOn
    <3>3. Due' = Due /\ L1Now' = L1Now
      BY <3>1 DEF Due, Inserted, Call, L1Now, Idle, ToInstall
    <3>4. \A c \in Clients : /\ Holds(c)' <=> Holds(c)
                             /\ Adds(c)' <=> Adds(c)
                             /\ Flight(c)' = Flight(c)
                             /\ th'[c].pc = th[c].pc
      BY <3>1 DEF Holds, Adds, Flight
    <3>5. \A k \in Keys : \A v \in Values \cup {Absent} : InLevels(k, v) =>
             \E w \in Values \cup {Absent} : InLevels(k, w)' /\ Answer(w) = Answer(v)
      BY <3>1, <3>3, LevelsSame
    <3> QED BY <1>1, <2>1, <3>1, <3>2, <3>3, <3>4, <3>5, CalmRead
  <2>5. ~join /\ ~crash
    BY DEF join, crash, Forget
  <2> QED BY <1>3, <2>2, <2>3, <2>4, <2>5 DEF FreshNext, LsmNext, ProcessNext
<1> QED BY <1>2, <1>3

LEMMA ReadStays ==
    ASSUME StrictClock
    PROVE  EngineReadInv /\ [FreshNext]_freshVars => EngineReadInv'
<1> SUFFICES ASSUME EngineReadInv, [FreshNext]_freshVars PROVE EngineReadInv'
  OBVIOUS
<1>1. EngineFreshInv' /\ TypeInv
  BY FreshStays DEF EngineReadInv, EngineFreshInv, EngineRecordsInv
<1>2. CASE FreshNext
  <2>1. HandsInv'
    BY <1>1, <1>2, HandsStay DEF EngineReadInv
  <2>2. proc' = "down" /\ "lost" \notin mishaps' => mishaps' = {}
    BY <1>2 DEF FreshNext, Remembered, Mark, OnDisk
  <2> QED BY <1>1, <1>2, <2>1, <2>2, ReadStep DEF EngineReadInv
<1>3. CASE UNCHANGED freshVars
  <2>1. UNCHANGED <<hist, before, inMem, inHands, mishaps, mem, disk0, disk1, l0, l1,
                    job, short, th, acked, proc>>
    BY <1>3 DEF freshVars, lsmVars, walVars, levelVars, ioVars
  <2>2. HandsInv'
    BY <2>1 DEF EngineReadInv, HandsInv, Holds, Adds, Busy, Call
  <2>3. Held' = Held /\ Carried' = Carried /\ Due' = Due /\ L1Now' = L1Now
    BY <2>1 DEF Held, Carried, Holds, Due, Inserted, Call, L1Now, Idle, ToInstall
  <2>4. \A c \in Clients : /\ (Holds(c)' <=> Holds(c)) /\ (Adds(c)' <=> Adds(c))
                           /\ Flight(c)' = Flight(c) /\ (Missed(c)' <=> Missed(c))
    BY <2>1 DEF Holds, Adds, Flight, Missed
  <2>5. \A k, v : InLevels(k, v)' <=> InLevels(k, v)
    BY <2>1, <2>3 DEF InLevels, NewestIn
  <2>6. ReadInv => ReadInv'
    BY <2>1, <2>3, <2>4, <2>5 DEF ReadInv, FlightFresh, LevelsFresh, InPlace
  <2> QED BY <1>1, <2>1, <2>2, <2>6 DEF EngineReadInv, Sound
<1> QED BY <1>2, <1>3

-----------------------------------------------------------------------------
(***************************************************************************)
(* What a get answers.                                                     *)
(***************************************************************************)

\* A search of a list from its end finds the record of the last file that has
\* one, none if there is none.
LEMMA ReverseSearch ==
    ASSUME NEW disk \in Directory, NEW paths \in Seq(Stamps), NEW k \in Keys,
           \A i \in DOMAIN paths : disk[paths[i]] # NoFile
    PROVE  LET T == tables_of(disk, Reverse(paths))
           IN  /\ T \in Seq(Table)
               /\ (\A i \in DOMAIN paths : disk[paths[i]][k] = Absent) =>
                     FirstRecord(T, k) = Absent
               /\ \A i \in DOMAIN paths :
                     /\ disk[paths[i]][k] # Absent
                     /\ \A j \in DOMAIN paths : j > i => disk[paths[j]][k] = Absent
                     => FirstRecord(T, k) = disk[paths[i]][k]
<1> DEFINE n == Len(paths)
           T == tables_of(disk, Reverse(paths))
<1>1. /\ n \in Nat /\ DOMAIN paths = 1..n
      /\ \A i \in 1..n : disk[paths[i]] \in Table
  BY LenProperties, ElementOfSeq DEF Directory
<1>2. \A i \in 1..n : (n - i) + 1 \in 1..n
  BY <1>1
<1>3. T = [i \in 1..n |-> disk[paths[(n - i) + 1]]]
  BY <1>1, <1>2 DEF Reverse, tables_of
<1>4. T \in Seq(Table) /\ DOMAIN T = 1..n
  <2>1. T \in [1..n -> Table]
    BY <1>1, <1>2, <1>3
  <2> QED BY <1>1, <2>1, SeqDef
<1>5. \A i \in 1..n : T[(n - i) + 1] = disk[paths[i]] /\ T[i] = disk[paths[(n - i) + 1]]
  BY <1>1, <1>2, <1>3
<1> HIDE DEF n, T
<1>6. CASE \A i \in DOMAIN paths : disk[paths[i]][k] = Absent
  <2>1. \A i \in DOMAIN T : T[i][k] = Absent
    BY <1>1, <1>2, <1>4, <1>5, <1>6
  <2>2. FirstRecord(T, k) = Absent
    BY <1>4, <2>1, FirstRecordProperties
  <2> QED BY <1>4, <1>6, <2>2 DEF T
<1>7. ASSUME NEW i \in DOMAIN paths, disk[paths[i]][k] # Absent,
             \A j \in DOMAIN paths : j > i => disk[paths[j]][k] = Absent
      PROVE  FirstRecord(T, k) = disk[paths[i]][k]
  <2>1. PICK q : q = (n - i) + 1
    OBVIOUS
  <2>2. q \in DOMAIN T /\ T[q] = disk[paths[i]]
    BY <1>1, <1>2, <1>4, <1>5, <2>1
  <2>3. ASSUME NEW j \in DOMAIN T, j < q PROVE T[j][k] = Absent
    <3>1. (n - j) + 1 \in 1..n /\ (n - j) + 1 > i
      BY <1>1, <1>4, <2>1, <2>3
    <3> QED BY <1>1, <1>4, <1>5, <1>7, <3>1
  <2>4. T[q][k] # Absent
    BY <1>7, <2>2
  <2>5. FirstRecord(T, k) = T[q][k]
    BY <1>4, <2>2, <2>3, <2>4, FirstRecordAt
  <2> QED BY <2>2, <2>5
<1> QED BY <1>4, <1>6, <1>7 DEF T

LEMMA SearchLevels ==
    ASSUME EngineFilesInv, Idle, NEW k \in Keys, NEW v, InLevels(k, v)
    PROVE  search_levels(k) = v
<1> DEFINE T == tables_of(disk0, Reverse(l0))
<1>1. /\ l0 \in Seq(Stamps) /\ l1 \in Seq(Stamps) /\ L1Now = ToSet(l1)
      /\ disk0 \in Directory /\ disk1 \in Directory
      /\ \A i \in DOMAIN l0 : disk0[l0[i]] # NoFile
      /\ \A s \in ToSet(l1) : disk1[s] # NoFile
  BY ListedTyped DEF L1Now, EngineFilesInv, FilesInv, LevelTypeOK
<1>2. T \in Seq(Table) /\ L1Tables \in Seq(Table)
  BY <1>1, ReverseSearch, TablesMembers DEF L1Tables
<1>3. search_levels(k) =
         IF FirstRecord(T, k) # Absent THEN FirstRecord(T, k) ELSE FirstRecord(L1Tables, k)
  BY <1>2, FirstRecordConcat DEF search_levels
<1>4. CASE v # Absent /\ NewestIn(k, v)
  <2>1. FirstRecord(T, k) = v
    BY <1>1, <1>4, ReverseSearch DEF NewestIn
  <2> QED BY <1>3, <1>4, <2>1
<1>5. CASE (\A i \in DOMAIN l0 : disk0[l0[i]][k] = Absent) /\ OneRecord(disk1, L1Now, k, v)
  <2>1. FirstRecord(T, k) = Absent
    BY <1>1, <1>5, ReverseSearch
  <2>2. FirstRecord(L1Tables, k) = v
    BY <1>1, <1>5, OneRecordFound DEF L1Tables
  <2> QED BY <1>3, <2>1, <2>2
<1> QED BY <1>4, <1>5 DEF InLevels

LEMMA FreshRead ==
    ASSUME EngineReadInv, FreshNext, Sound, NEW c \in Clients, got'[c] # got[c]
    PROVE  got'[c].value \in FreshAnswers(got'[c].key, got'[c].seen \ OutOfSight(c))
<1>1. /\ TypeInv /\ EngineFilesInv /\ EngineRecordsInv /\ Within(mem, Written)
      /\ DOMAIN got = Clients
  BY DEF EngineReadInv, EngineFreshInv, EngineRecordsInv, RecordsInv, TypeInv, LsmTypeOK
<1>2. (\E k \in Keys : get(c, k)) \/ get_levels(c)
  <2>1. PICK d \in Clients : (\E k \in Keys : get(d, k)) \/ get_levels(d)
    BY DEF FreshNext, LsmNext, BeginCall, ContinueCall, ProcessNext, CompactorNext,
       set, delete, write_wal, write_wal_error, insert_mem, next_sstable_path,
       flush_swap, flush_write, flush_truncate, flush_error, flush_add,
       compactor_check, compactor_poll, compactor_begin, compactor_remove,
       compactor_install, Compactor, open, drop, join, crash, Forget
  <2>2. got' = got \/ \E x : got' = [got EXCEPT ![d] = x]
    BY <2>1 DEF get, get_levels
  <2>3. d = c
    BY <1>1, <2>2
  <2> QED BY <2>1, <2>3
<1>3. ReadInv
  BY <1>2 DEF EngineReadInv, get, get_levels, At
<1>4. ASSUME NEW k \in Keys, get(c, k)
      PROVE  got'[c].value \in FreshAnswers(got'[c].key, got'[c].seen \ OutOfSight(c))
  <2>1. /\ mem[k] # Absent /\ th[c].pc = "idle"
        /\ got'[c] = [key |-> k, seen |-> acked, value |-> Answer(mem[k])]
    BY <1>1, <1>4 DEF get, At
  <2>2. mem[k] \in Written[k] /\ Current(hist, before, mem[k].ver, acked)
    BY <1>1, <1>3, <2>1, DueTyped DEF Within, ReadInv, FreshTable, Current
  <2>3. FreshIn(hist, before, k, Answer(mem[k]), acked)
    BY <1>1, <2>2, RecordFresh
  <2>4. acked \ OutOfSight(c) = acked
    BY <2>1 DEF OutOfSight
  <2> QED BY <2>1, <2>3, <2>4, FreshAnswer
<1>5. ASSUME get_levels(c)
      PROVE  got'[c].value \in FreshAnswers(got'[c].key, got'[c].seen \ OutOfSight(c))
  <2> DEFINE k == th[c].entry.key
             M == Due \ (inMem \cup Carried)
             N == th[c].seen \ OutOfSight(c)
  <2>1. /\ th[c].pc = "levels" /\ Idle
        /\ got'[c] = [key |-> k, seen |-> th[c].seen, value |-> Answer(search_levels(k))]
    BY <1>1, <1>5 DEF get_levels, At
  <2>2. k \in Keys
    BY <1>1, <2>1 DEF TypeInv, ThreadsFit
  <2>3. PICK v \in Values \cup {Absent} :
           InLevels(k, v) /\ FreshIn(hist, before, k, Answer(v), M)
    BY <1>3, <2>2 DEF ReadInv, LevelsFresh
  <2>4. M \in SUBSET DOMAIN hist /\ N \in SUBSET DOMAIN hist
        /\ \A m \in N : hist[m].key = k => m \in M
    <3>1. /\ th[c].seen \subseteq acked
          /\ \A m \in th[c].seen \cap inMem : hist[m].key # k
      BY <1>3, <2>1 DEF ReadInv, Missed
    <3>2. OutOfSight(c) = Carried
      BY <2>1 DEF OutOfSight, Carried
    <3>3. acked \subseteq Due /\ Due \subseteq DOMAIN hist
      BY <1>1, DueTyped
    <3> QED BY <3>1, <3>2, <3>3
  <2> HIDE DEF k, M, N
  <2>5. FreshIn(hist, before, k, Answer(v), N)
    <3>1. GoesOn(hist, before, hist, before)
      BY DEF GoesOn
    <3> QED BY <2>3, <2>4, <3>1, StaysFresh
  <2>6. search_levels(k) = v
    BY <1>1, <2>1, <2>2, <2>3, SearchLevels
  <2>7. Answer(v) \in FreshAnswers(k, N)
    BY <2>5, FreshAnswer
  <2> QED BY <2>1, <2>6, <2>7 DEF N
<1> QED BY <1>2, <1>4, <1>5

\* Whoever calls set and delete (lsm.rs:168, 236), and wherever their inserts and
\* flushes are when a get looks into the MemTable (lsm.rs:195) and, later, into the
\* levels, it answers with no value, and no absence of one, that a write
\* acknowledged before had overtaken, but for those writes that a flush has in its
\* hands when the get looks into the levels, and after the exceptions InMemory;
\* kills and reopens included.
THEOREM ReadsFresh ==
    ASSUME StrictClock
    PROVE  FreshSpec => ReadsAreFresh
<1>1. EngineReadInv /\ [FreshNext]_freshVars => EngineReadInv'
  BY ReadStays
<1>2. EngineReadInv /\ [FreshNext]_freshVars =>
         [\A c \in Clients :
             \/ got'[c] = got[c]
             \/ mishaps \cap InMemory # {}
             \/ got'[c].value \in FreshAnswers(got'[c].key, got'[c].seen \ OutOfSight(c))]_freshVars
  <2> SUFFICES ASSUME EngineReadInv, FreshNext, NEW c \in Clients, got'[c] # got[c], Sound
               PROVE  got'[c].value \in
                         FreshAnswers(got'[c].key, got'[c].seen \ OutOfSight(c))
    BY DEF Sound
  <2> QED BY FreshRead
<1> QED BY <1>1, <1>2, ReadInitially, PTL DEF FreshSpec, ReadsAreFresh

-----------------------------------------------------------------------------
(***************************************************************************)
(* The third theorem.                                                      *)
(***************************************************************************)

\* As long as no I/O call fails and nothing is appended behind a torn entry.
EngineKeyInv ==
    /\ TypeInv
    /\ faults = 0 /\ "torn" \notin mishaps => Untroubled /\ EngineVanishInv

\* The engine's steps on the log: all of it goes, or one frame is added.
LEMMA LogSteps ==
    ASSUME TypeInv, [LsmNext]_lsmVars
    PROVE  \/ log' = log \/ log' = <<>>
           \/ \E f \in Frames : log' = Append(log, f)
<1>1. Torn \in Frames
  BY DEF Frames
<1>2. ASSUME NEW c \in Clients, NEW k \in Keys, NEW d \in BOOLEAN, write_wal(c, k, d)
      PROVE  \E f \in Frames : log' = Append(log, f)
  <2>1. Record(Len(hist) + 1, d) \in Values
    BY <1>2, NextRecord
  <2> DEFINE e == [key |-> k, value |-> Record(Len(hist) + 1, d)]
  <2>2. e \in Frames
    BY <2>1, LsmAssumption DEF Frames
  <2>3. log' = Append(log, e)
    BY <1>2 DEF write_wal, append
  <2> QED BY <2>2, <2>3
<1>3. ASSUME NEW c \in Clients, BeginCall(c) PROVE \/ log' = log
                                                 \/ \E f \in Frames : log' = Append(log, f)
  BY <1>1, <1>2, <1>3 DEF BeginCall, set, delete, get, write_wal_error, append_torn, walVars
<1>4. ASSUME NEW c \in Clients, ContinueCall(c) PROVE log' = log \/ log' = <<>>
  BY <1>4 DEF ContinueCall, insert_mem, next_sstable_path, flush_swap, flush_write,
     flush_truncate, flush_error, flush_add, get_levels, truncate, walVars
<1>5. ASSUME CompactorNext \/ open \/ drop \/ UNCHANGED lsmVars PROVE log' = log
  BY <1>5 DEF CompactorNext, compactor_check, compactor_poll, compactor_begin,
     compactor_remove, compactor_install, Compactor, open, drop, lsmVars, walVars
<1>6. ASSUME join \/ crash PROVE log' = log \/ log' = Append(log, Torn)
  BY <1>6 DEF join, crash, append_torn, walVars
<1> QED BY <1>1, <1>3, <1>4, <1>5, <1>6 DEF LsmNext, ProcessNext

\* Faults are counted, and no step takes one back.
LEMMA FaultsGrow ==
    ASSUME TypeInv, [LsmNext]_lsmVars, faults' = 0
    PROVE  faults = 0
<1>1. faults \in Nat
  BY DEF TypeInv, LsmTypeOK, LevelTypeOK
<1>2. ASSUME NEW c \in Clients, BeginCall(c) PROVE faults' = faults \/ faults' = faults + 1
  BY <1>2 DEF BeginCall, set, delete, get, write_wal, write_wal_error, io_error, levelVars, ioVars
<1>3. ASSUME NEW c \in Clients, ContinueCall(c) PROVE faults' = faults \/ faults' = faults + 1
  BY <1>3 DEF ContinueCall, insert_mem, next_sstable_path, flush_swap, flush_write,
     flush_truncate, flush_error, flush_add, get_levels, io_error, levelVars, ioVars
<1>4. ASSUME CompactorNext PROVE faults' = faults \/ faults' = faults + 1
  <2>1. UNCHANGED levelVars \/ compact_begin \/ compact_end
    BY <1>4 DEF CompactorNext, compactor_check, compactor_poll, compactor_begin,
           compactor_remove, compactor_install, compact_begin, compact_end
  <2> QED BY <2>1 DEF levelVars, ioVars, compact_begin, compact_end, compact_l0_error,
                compact_l1_error, compact_merge, compact_merge_short, short_scan,
                remove_l0_input, remove_l1_input, compact_install, io_error
<1>5. ASSUME ProcessNext \/ UNCHANGED lsmVars PROVE faults' = faults
  BY <1>5 DEF ProcessNext, open, drop, join, crash, Forget, lsmVars, levelVars, ioVars
<1>6. faults' = faults \/ faults' = faults + 1
  BY <1>2, <1>3, <1>4, <1>5 DEF LsmNext
<1> QED BY <1>1, <1>6

LEMMA KeyStays ==
    ASSUME StrictClock, OneCaller, NoDeletes
    PROVE  EngineKeyInv /\ [FreshNext]_freshVars => EngineKeyInv'
<1> SUFFICES ASSUME EngineKeyInv, [FreshNext]_freshVars PROVE EngineKeyInv'
  OBVIOUS
<1>1. TypeInv /\ [LsmNext]_lsmVars
  BY DEF EngineKeyInv, FreshNext, freshVars
<1>2. TypeInv'
  BY <1>1, TypeInvStays
<1>3. CASE FreshNext
  <2> SUFFICES ASSUME faults' = 0, "torn" \notin mishaps'
               PROVE  Untroubled' /\ EngineVanishInv'
    BY <1>2 DEF EngineKeyInv
  <2>1. "torn" \notin mishaps /\ ~TornOver
    BY <1>3 DEF FreshNext, Remembered, Mishaps, Mark
  <2>2. faults = 0
    BY <1>1, FaultsGrow
  <2>3. Untroubled /\ EngineVanishInv
    BY <2>1, <2>2 DEF EngineKeyInv
  <2>4. TornFrames(log') \subseteq {Len(log')}
    <3>1. CASE log' = log
      BY <2>3, <3>1 DEF Untroubled
    <3>2. CASE log' = <<>>
      BY <3>2 DEF TornFrames
    <3>3. ASSUME NEW f \in Frames, log' = Append(log, f)
          PROVE  TornFrames(log') \subseteq {Len(log')}
      BY <1>1, <2>1, <2>3, <3>3, OrderedReplay DEF Untroubled
    <3> QED BY <1>1, <3>1, <3>2, <3>3, LogSteps
  <2>5. Untroubled'
    BY <2>4 DEF Untroubled
  <2> QED BY <1>1, <2>3, <2>5, VanishStays
<1>4. CASE UNCHANGED freshVars
  <2>1. UNCHANGED <<log, faults, mishaps, lsmVars>>
    BY <1>4 DEF freshVars, lsmVars, walVars, levelVars, ioVars
  <2>2. Untroubled => Untroubled'
    BY <2>1 DEF Untroubled, TornFrames
  <2>3. EngineVanishInv /\ Untroubled => EngineVanishInv'
    BY <1>1, <2>2, VanishStays
  <2> QED BY <1>2, <2>1, <2>2, <2>3 DEF EngineKeyInv
<1> QED BY <1>3, <1>4

\* With one caller that never deletes, whatever compaction (levels.rs:62) is
\* interrupted by and however often the process is killed: once a set of a key has
\* returned Ok (lsm.rs:168), discover_levels and the log have a record of the key,
\* and a get (lsm.rs:195) finds one, as long as no I/O call fails and append
\* (wal.rs:133) meets no entry that a kill has cut short.
THEOREM NoKeyVanishes ==
    ASSUME StrictClock, OneCaller, NoDeletes
    PROVE  FreshSpec => []KeysNeverVanish
<1>1. FreshInit => EngineKeyInv
  <2> SUFFICES ASSUME FreshInit PROVE EngineKeyInv
    OBVIOUS
  <2>1. LsmInit /\ log = <<>>
    BY DEF FreshInit, LsmInit, WalInit
  <2>2. TornFrames(log) = {}
    BY <2>1 DEF TornFrames
  <2> QED BY <2>1, <2>2, TypeInvInitially, VanishInitially DEF EngineKeyInv, Untroubled
<1>2. EngineKeyInv /\ [FreshNext]_freshVars => EngineKeyInv'
  BY KeyStays
<1>3. EngineKeyInv => KeysNeverVanish
  BY VanishHolds DEF EngineKeyInv, KeysNeverVanish
<1> QED BY <1>1, <1>2, <1>3, PTL DEF FreshSpec
=============================================================================
