-------------------------------- MODULE Lsm --------------------------------
(***************************************************************************)
(* lsm.rs: the engine.  Client threads call set, delete and get on one Lsm *)
(* while its compaction thread runs; the process may be dropped or killed, *)
(* and opened again on the same directory.                                 *)
(*                                                                         *)
(* A thread's stage (pc) is the next thing it does.  The locks are read off*)
(* the stages: the WAL mutex is held from the MemTable swap to the truncate*)
(* of a flush, the LevelManager's write lock while a compaction is under   *)
(* way (~Idle); every other critical section is one step.                  *)
(***************************************************************************)
EXTENDS Wal, LevelManager

CONSTANTS
    Clients,          \* the threads that share the Lsm
    Calls,            \* Calls[c]: the calls client c may make
    Bytes,            \* Bytes[v]: bytes of value v and of the key it is under
    FLUSH_THRESHOLD,  \* flush_threshold, in bytes
    MaxWrites,        \* bound: set and delete calls
    MaxRestarts,      \* bound: times the process ends and may be reopened
    TornCrash         \* whether a kill can cut an append short

ASSUME LsmAssumption ==
    /\ Calls \in [Clients -> SUBSET [op : {"set", "delete", "get"}, key : Keys]]
    /\ Bytes \in [Values -> Nat]
    /\ FLUSH_THRESHOLD \in Nat \ {0}
    /\ MaxWrites \in Nat
    /\ MaxRestarts \in Nat
    /\ TornCrash \in BOOLEAN
    /\ Values = [ver : 1..MaxWrites, tomb : BOOLEAN]
    /\ Tombstones = {v \in Values : v.tomb}
    /\ Entries = [key : Keys, value : Values]

VARIABLES
    proc,       \* "up", "closing" (Drop has set shutdown) or "down"
    mem,        \* the MemTable
    th,         \* th[c]: stage and locals of client c
    compactor,  \* stage of the compaction thread
    restarts,   \* times the process has ended
    hist,       \* history: hist[n] is the key and kind of the n-th write call
    acked,      \* history: the write calls that have returned Ok
    got         \* history: got[c] is what client c's last get returned

lsmVars == <<walVars, levelVars, proc, mem, th, compactor, restarts, hist, acked, got>>

\* The value of the n-th write call, told apart from every other by n.
Record(n, d) == [ver |-> n, tomb |-> d]

NoEntry == [key |-> 0, value |-> Absent]

Resting == [pc |-> "idle", entry |-> NoEntry, path |-> 0,
            old_mem |-> EmptyTable, seen |-> {}]

Stages == {"idle", "insert", "path", "swap", "write", "truncate", "add", "levels"}

\* No flush holds the WAL mutex.
WalFree == \A c \in Clients : th[c].pc \notin {"write", "truncate"}

At(c, stage) == proc = "up" /\ th[c].pc = stage

Go(c, stage) == th' = [th EXCEPT ![c].pc = stage]

\* MemTable::size_bytes: how many bytes keys and values have between them.
size_bytes(t) == Cardinality(UNION {{k} \X (1..Bytes[t[k]]) : k \in Present(t)})

\* Mutant: the first entry of a key stays.
Rebuild_first(es) ==
    [k \in Keys |->
        LET W == {i \in DOMAIN es : es[i].key = k}
        IN  IF W = {} THEN Absent ELSE es[Min(W)].value]

\* The MemTable that open rebuilds from replayed entries.
Rebuild(es) ==
    [k \in Keys |->
        LET W == {i \in DOMAIN es : es[i].key = k}
        IN  IF W = {} THEN Absent ELSE es[Max(W)].value]

LsmInit ==
    /\ WalInit
    /\ LevelInit
    /\ proc = "down"
    /\ mem = EmptyTable
    /\ th = [c \in Clients |-> Resting]
    /\ compactor = "exited"
    /\ restarts = 0
    /\ hist = <<>>
    /\ acked = {}
    /\ got = [c \in Clients |-> [key |-> 0, seen |-> {}, value |-> Absent]]

-----------------------------------------------------------------------------
(***************************************************************************)
(* set and delete.                                                         *)
(***************************************************************************)

\* The first block of both: append to the WAL under its mutex, sync=false.
write_wal(c, k, d) ==
    /\ At(c, "idle") /\ WalFree /\ Len(hist) < MaxWrites
    /\ LET e == [key |-> k, value |-> Record(Len(hist) + 1, d)]
       IN  /\ append(e, FALSE)
           /\ th' = [th EXCEPT ![c].pc = "insert", ![c].entry = e]
    /\ hist' = Append(hist, [key |-> k, tomb |-> d])
    /\ UNCHANGED <<levelVars, proc, mem, compactor, restarts, acked, got>>

set(c, k) == [op |-> "set", key |-> k] \in Calls[c] /\ write_wal(c, k, FALSE)

delete(c, k) == [op |-> "delete", key |-> k] \in Calls[c] /\ write_wal(c, k, TRUE)

\* The append fails halfway through the frame; the call returns Io.
write_wal_error(c) ==
    /\ At(c, "idle") /\ WalFree
    /\ \E x \in Calls[c] : x.op # "get"
    /\ append_torn /\ io_error
    /\ UNCHANGED <<disk0, disk1, l0, l1, job, clock, proc, mem, th, compactor,
                   restarts, hist, acked, got>>

\* The call returns: Ok acknowledges it, an error does not.
ReturnOk(c) ==
    /\ th' = [th EXCEPT ![c] = Resting]
    /\ acked' = acked \cup {th[c].entry.value.ver}

ReturnError(c) == th' = [th EXCEPT ![c] = Resting] /\ UNCHANGED acked

\* The second block: insert into the MemTable and look at its size, both
\* under its write lock.
insert_mem(c) ==
    /\ At(c, "insert")
    /\ mem' = insert(mem, th[c].entry.key, th[c].entry.value)
    /\ IF size_bytes(mem') >= FLUSH_THRESHOLD
       THEN Go(c, "path") /\ UNCHANGED acked
       ELSE ReturnOk(c)
    /\ UNCHANGED <<walVars, levelVars, proc, compactor, restarts, hist, got>>

(***************************************************************************)
(* flush_memtable.                                                         *)
(***************************************************************************)
next_sstable_path(c) ==
    /\ At(c, "path")
    /\ \E s \in Stamps :
         now(s) /\ th' = [th EXCEPT ![c].pc = "swap", ![c].path = s]
    /\ UNCHANGED <<walVars, fileVars, l0, l1, job, ioVars, proc, mem, compactor,
                   restarts, hist, acked, got>>

\* Mutant: the WAL is truncated as soon as the MemTable is swapped out.
flush_swap_truncating(c) ==
    /\ At(c, "swap") /\ WalFree
    /\ th' = [th EXCEPT ![c].pc = "write", ![c].old_mem = mem]
    /\ mem' = EmptyTable
    /\ truncate
    /\ UNCHANGED <<levelVars, proc, compactor, restarts, hist, acked, got>>

\* Takes the WAL mutex and swaps the MemTable for an empty one.
flush_swap(c) ==
    /\ At(c, "swap") /\ WalFree
    /\ th' = [th EXCEPT ![c].pc = "write", ![c].old_mem = mem]
    /\ mem' = EmptyTable
    /\ UNCHANGED <<walVars, levelVars, proc, compactor, restarts, hist, acked, got>>

\* Mutant: an empty MemTable is not worth a file.
flush_write_nonempty(c) ==
    /\ At(c, "write")
    /\ disk0' = IF Present(th[c].old_mem) = {} THEN disk0
                ELSE [disk0 EXCEPT ![th[c].path] = th[c].old_mem]
    /\ th' = [th EXCEPT ![c].pc = "truncate", ![c].old_mem = EmptyTable]
    /\ UNCHANGED <<walVars, disk1, l0, l1, job, clock, ioVars, proc, mem,
                   compactor, restarts, hist, acked, got>>

\* MemTable::flush: the rename at its end reveals the whole file.
flush_write(c) ==
    /\ At(c, "write")
    /\ disk0' = [disk0 EXCEPT ![th[c].path] = th[c].old_mem]
    /\ th' = [th EXCEPT ![c].pc = "truncate", ![c].old_mem = EmptyTable]
    /\ UNCHANGED <<walVars, disk1, l0, l1, job, clock, ioVars, proc, mem,
                   compactor, restarts, hist, acked, got>>

\* Truncates the WAL and gives its mutex back.
flush_truncate(c) ==
    /\ At(c, "truncate")
    /\ truncate
    /\ Go(c, "add")
    /\ UNCHANGED <<levelVars, proc, mem, compactor, restarts, hist, acked, got>>

\* Either of the two fails, the truncate perhaps after it has cut the file: the
\* call returns Io, old_mem and the mutex go.
flush_error(c) ==
    /\ \/ At(c, "write") /\ UNCHANGED walVars
       \/ At(c, "truncate") /\ (UNCHANGED walVars \/ truncate)
    /\ io_error
    /\ ReturnError(c)
    /\ UNCHANGED <<disk0, disk1, l0, l1, job, clock, proc, mem, compactor,
                   restarts, hist, got>>

\* Takes the LevelManager's write lock and tracks the new file.
flush_add(c) ==
    /\ At(c, "add")
    /\ add_l0_file(th[c].path)
    /\ ReturnOk(c)
    /\ UNCHANGED <<walVars, disk0, disk1, l1, job, clock, ioVars, proc, mem,
                   compactor, restarts, hist, got>>

-----------------------------------------------------------------------------
(***************************************************************************)
(* get.                                                                    *)
(***************************************************************************)

\* Under the MemTable's read lock; a miss goes on to the levels.
get(c, k) ==
    /\ At(c, "idle") /\ [op |-> "get", key |-> k] \in Calls[c]
    /\ \/ /\ mem[k] # Absent
          /\ got' = [got EXCEPT ![c] =
                       [key |-> k, seen |-> acked, value |-> Answer(mem[k])]]
          /\ UNCHANGED th
       \/ /\ mem[k] = Absent
          /\ th' = [th EXCEPT ![c].pc = "levels", ![c].entry.key = k,
                              ![c].seen = acked]
          /\ UNCHANGED got
    /\ UNCHANGED <<walVars, levelVars, proc, mem, compactor, restarts, hist, acked>>

\* Under the LevelManager's read lock, held for the whole search.
get_levels(c) ==
    /\ At(c, "levels") /\ Idle
    /\ LET k == th[c].entry.key
       IN  got' = [got EXCEPT ![c] = [key |-> k, seen |-> th[c].seen,
                                      value |-> Answer(search_levels(k))]]
    /\ th' = [th EXCEPT ![c] = Resting]
    /\ UNCHANGED <<walVars, levelVars, proc, mem, compactor, restarts, hist, acked>>

-----------------------------------------------------------------------------
(***************************************************************************)
(* The compaction thread: check the shutdown flag, sleep and poll under the*)
(* read lock, compact under the write lock.                                *)
(***************************************************************************)
Compactor(from, to) ==
    /\ proc \in {"up", "closing"}
    /\ compactor = from /\ compactor' = to
    /\ UNCHANGED <<walVars, proc, mem, th, restarts, hist, acked, got>>

\* Mutant: the loop does not look at the shutdown flag.
compactor_check_never ==
    Compactor("check", "poll") /\ UNCHANGED levelVars

compactor_check ==
    /\ Compactor("check", IF proc = "closing" THEN "exited" ELSE "poll")
    /\ UNCHANGED levelVars

\* Mutant: more files than the threshold are waited for.
compactor_poll_late ==
    /\ Compactor("poll", IF Len(l0) > L0_COMPACTION_THRESHOLD THEN "compact" ELSE "check")
    /\ UNCHANGED levelVars

compactor_poll ==
    /\ Compactor("poll", IF needs_compaction THEN "compact" ELSE "check")
    /\ UNCHANGED levelVars

compactor_begin ==
    \/ Compactor("compact", "removing") /\ (compact_merge \/ compact_merge_short)
    \/ Compactor("compact", "check") /\ (compact_l0_error \/ compact_l1_error)

compactor_remove ==
    Compactor("removing", "removing") /\ (remove_l0_input \/ remove_l1_input)

compactor_install == Compactor("removing", "check") /\ compact_install

-----------------------------------------------------------------------------
(***************************************************************************)
(* The process: open, Drop and a kill.                                     *)
(***************************************************************************)

\* Everything in memory goes.
Forget ==
    /\ proc' = "down"
    /\ mem' = EmptyTable
    /\ th' = [c \in Clients |-> Resting]
    /\ compactor' = "exited"
    /\ l0' = <<>> /\ l1' = <<>> /\ job' = NoJob
    /\ UNCHANGED <<fileVars, clock, ioVars, hist, acked, got>>

open ==
    /\ proc = "down"
    /\ proc' = "up"
    /\ mem' = Rebuild(replay(log))
    /\ discover_levels
    /\ compactor' = "check"
    /\ UNCHANGED <<walVars, fileVars, job, clock, ioVars, th, restarts, hist,
                   acked, got>>

\* Drop needs the last reference, so no call is under way.
drop ==
    /\ proc = "up" /\ restarts < MaxRestarts
    /\ \A c \in Clients : th[c].pc = "idle"
    /\ proc' = "closing"
    /\ restarts' = restarts + 1
    /\ UNCHANGED <<walVars, levelVars, mem, th, compactor, hist, acked, got>>

\* join returns once the compaction thread has exited.
join ==
    /\ proc = "closing" /\ compactor = "exited"
    /\ Forget
    /\ UNCHANGED <<walVars, restarts>>

\* A kill, in the middle of anything; an append may be cut short.
crash ==
    /\ proc # "down" /\ restarts < MaxRestarts
    /\ Forget
    /\ restarts' = restarts + 1
    /\ \/ UNCHANGED walVars
       \/ /\ TornCrash /\ proc = "up" /\ WalFree
          /\ \E c \in Clients :
                th[c].pc = "idle" /\ \E x \in Calls[c] : x.op # "get"
          /\ append_torn

-----------------------------------------------------------------------------
BeginCall(c) ==
    \/ \E k \in Keys : set(c, k) \/ delete(c, k) \/ get(c, k)
    \/ write_wal_error(c)

ContinueCall(c) ==
    \/ insert_mem(c)
    \/ next_sstable_path(c)
    \/ flush_swap(c)
    \/ flush_write(c)
    \/ flush_truncate(c)
    \/ flush_error(c)
    \/ flush_add(c)
    \/ get_levels(c)

CompactorNext ==
    \/ compactor_check \/ compactor_poll
    \/ compactor_begin \/ compactor_remove \/ compactor_install

ProcessNext == open \/ drop \/ join \/ crash

LsmNext ==
    \/ \E c \in Clients : BeginCall(c) \/ ContinueCall(c)
    \/ CompactorNext
    \/ ProcessNext

LsmSpec == LsmInit /\ [][LsmNext]_lsmVars
=============================================================================
