------------------------------ MODULE MergeLoop ------------------------------
(***************************************************************************)
(* compaction.rs merge_sstables, step by step: a heap holds the next record*)
(* of every input that has one, equal keys are drained together, and what  *)
(* survives goes through the SSTable writer.                               *)
(***************************************************************************)
EXTENDS SsTable

CONSTANTS
    Flushed,      \* the tables that input files may have been written from
    MaxSources,   \* bound: input files
    MaxFaults     \* bound: I/O calls that return an error

ASSUME MergeAssumption ==
    /\ Flushed \subseteq {t \in Table : Present(t) # {} /\ IsFiniteSet(Present(t))}
    /\ MaxSources \in Nat
    /\ MaxFaults \in Nat

VARIABLES
    inputs,    \* readers: the input files, lowest source_index first
    rest,      \* iters: the records each iterator has yet to return
    heap,      \* the BinaryHeap, at most one entry per source
    group,     \* current_key, best_value, best_source and consumed_sources
    pending,   \* the sources whose next record is to be pulled in
    writer,    \* the SsTableWriter
    stage,     \* where in merge_sstables the thread is
    faults, short

mergeVars == <<inputs, rest, heap, group, pending, writer, stage, faults, short>>

Sources == DOMAIN inputs

NoGroup == [key |-> 0, value |-> Absent, source |-> 0, consumed |-> <<>>]

MergeInit ==
    /\ inputs \in UNION {[1..n -> {flush_file(t) : t \in Flushed}] : n \in 1..MaxSources}
    /\ rest = [s \in Sources |-> inputs[s].records]
    /\ heap = {} /\ group = NoGroup /\ pending = <<>>
    /\ writer = new_writer(0)
    /\ stage = "count"
    /\ faults = 0 /\ short = FALSE

\* SsTableIter::next takes a failed read for the end of the file.
short_read == faults < MaxFaults /\ faults' = faults + 1 /\ short' = TRUE

read_ok == UNCHANGED <<faults, short>>

\* The first pass counts the records, the second begins with every source.
count_keys ==
    /\ stage = "count" /\ stage' = "pull"
    /\ LET all == FoldLeft(LAMBDA n, f : n + Len(f.records), 0, inputs)
       IN  \/ writer' = new_writer(all) /\ read_ok
           \/ \E s \in Sources : \E missed \in 1..Len(inputs[s].records) :
                 writer' = new_writer(all - missed) /\ short_read
    /\ pending' = [s \in Sources |-> s]
    /\ UNCHANGED <<inputs, rest, heap, group>>

Entry(s) == [key |-> Head(rest[s]).key, value |-> Head(rest[s]).value, source |-> s]

\* next on one of the sources whose head was consumed.
pull ==
    /\ stage = "pull" /\ pending # <<>>
    /\ LET s == Head(pending)
       IN  \/ /\ rest[s] # <<>> /\ read_ok
              /\ heap' = heap \cup {Entry(s)}
              /\ rest' = [rest EXCEPT ![s] = Tail(@)]
           \/ rest[s] = <<>> /\ read_ok /\ UNCHANGED <<heap, rest>>
           \/ /\ rest[s] # <<>> /\ short_read
              /\ rest' = [rest EXCEPT ![s] = <<>>]
              /\ UNCHANGED heap
    /\ pending' = Tail(pending)
    /\ UNCHANGED <<inputs, group, writer, stage>>

\* With nothing left to pull in, the group (if any) goes to the writer.
write_group ==
    /\ stage = "pull" /\ pending = <<>> /\ stage' = "pop"
    /\ writer' = IF group = NoGroup \/ is_tombstone(group.value) THEN writer
                 ELSE add(writer, group.key, group.value)
    /\ group' = NoGroup
    /\ UNCHANGED <<inputs, rest, heap, pending, faults, short>>

\* What pop and peek may give: Ord looks at keys only, so that any entry with
\* the smallest key may be on top.
Top == {e \in heap : \A x \in heap : e.key <= x.key}

pop_first ==
    /\ stage = "pop" /\ stage' = "drain"
    /\ \E e \in Top :
         /\ group' = [key |-> e.key, value |-> e.value, source |-> e.source,
                      consumed |-> <<e.source>>]
         /\ heap' = heap \ {e}
    /\ UNCHANGED <<inputs, rest, pending, writer, faults, short>>

\* Mutant: what is popped later is newer.
Better_last(e) == TRUE

\* Of the entries drained the one with the lowest source_index is kept.
Better(e) == e.source < group.source

\* Mutant: only a winner's source is pulled in again.
Consumed_winner(e) ==
    IF Better(e) THEN Append(group.consumed, e.source) ELSE group.consumed

Consumed(e) == Append(group.consumed, e.source)

\* Mutant: the entry is looked at and stays.
Drained_peeked(e) == heap

Drained(e) == heap \ {e}

drain_equal ==
    /\ stage = "drain"
    /\ \E e \in Top :
         /\ e.key = group.key
         /\ group' = IF Better(e)
                     THEN [group EXCEPT !.value = e.value, !.source = e.source,
                                        !.consumed = Consumed(e)]
                     ELSE [group EXCEPT !.consumed = Consumed(e)]
         /\ heap' = Drained(e)
    /\ UNCHANGED <<inputs, rest, pending, writer, stage, faults, short>>

\* Mutant: another key at the top of the heap does not end the loop.
drain_done_empty ==
    /\ stage = "drain" /\ heap = {} /\ stage' = "pull"
    /\ pending' = group.consumed
    /\ UNCHANGED <<inputs, rest, heap, group, writer, faults, short>>

\* peek finds no entry or another key.
drain_done ==
    /\ stage = "drain" /\ \A e \in Top : e.key # group.key
    /\ stage' = "pull" /\ pending' = group.consumed
    /\ UNCHANGED <<inputs, rest, heap, group, writer, faults, short>>

\* The heap is empty: finish writes what is left and renames.
finish_merge ==
    /\ stage = "pop" /\ heap = {} /\ stage' = "done"
    /\ UNCHANGED <<inputs, rest, heap, group, pending, writer, faults, short>>

\* new or iter, add, or finish returns an error; no file gets the final name.
merge_error ==
    /\ \/ stage = "count"
       \/ stage = "pull" /\ pending = <<>> /\ group.value \in Values \ Tombstones
       \/ stage = "pop" /\ heap = {}
    /\ faults < MaxFaults
    /\ stage' = "failed" /\ faults' = faults + 1
    /\ UNCHANGED <<inputs, rest, heap, group, pending, writer, short>>

MergeNext ==
    \/ count_keys \/ pull \/ write_group
    \/ pop_first \/ drain_equal \/ drain_done
    \/ finish_merge \/ merge_error

MergeSpec == MergeInit /\ [][MergeNext]_mergeVars /\ WF_mergeVars(MergeNext)

-----------------------------------------------------------------------------
Records == [key : Keys, value : Values]

\* Every variable has its type; no source is pulled in twice for one group.
MergeTypeOK ==
    /\ rest \in [Sources -> Seq(Records)]
    /\ heap \subseteq [key : Keys, value : Values, source : Sources]
    /\ \/ group = NoGroup
       \/ /\ group.key \in Keys /\ group.value \in Values /\ group.source \in Sources
          /\ IsInjective(group.consumed) /\ ToSet(group.consumed) \subseteq Sources
    /\ ToSet(pending) \subseteq Sources
    /\ writer.records \in Seq(Records)
    /\ stage \in {"count", "pull", "pop", "drain", "done", "failed"}
    /\ faults \in 0..MaxFaults /\ short \in BOOLEAN

\* The loop invariant: when the heap is popped it holds exactly one entry of
\* every source that has records left, and nothing that is still to come, in
\* the heap or behind it, has a key at or below one already written.
HeapHoldsHeads ==
    stage = "pop" =>
        /\ \A s \in Sources :
             /\ Cardinality({e \in heap : e.source = s}) <= 1
             /\ rest[s] # <<>> => \E e \in heap : e.source = s
        /\ \A i \in DOMAIN writer.records :
             /\ \A e \in heap : writer.records[i].key < e.key
             /\ \A s \in Sources : \A j \in DOMAIN rest[s] :
                    writer.records[i].key < rest[s][j].key

\* get_raw finds exactly the records of a file, by way of the filter, the
\* checkpoints and the bounded scan: in the files MemTables were flushed to
\* and in the output, also when its filter was sized for too few keys.
LookupsAreExact ==
    /\ stage = "count" =>
         \A s \in Sources, k \in Keys :
             get_raw(inputs[s], k) = table_of(inputs[s])[k]
    /\ stage = "done" =>
         \A k \in Keys : get_raw(finish(writer), k) = table_of(finish(writer))[k]

AM == INSTANCE AtomicMerge WITH
        inputs <- [s \in Sources |-> table_of(inputs[s])],
        result <- IF stage = "done" THEN table_of(finish(writer)) ELSE NoFile

\* The loop implements the operator merge_sstables of Tables, which the
\* LevelManager's compaction is built on: the output holds per key the record
\* of the first source that returned one, and no tombstones.
ImplementsAtomicMerge == AM!AtomicMergeSpec

\* The loop ends.
MergeEnds == <>(stage \in {"done", "failed"})
=============================================================================
