------------------------------- MODULE SsTable -------------------------------
(***************************************************************************)
(* sstable/writer.rs and sstable/reader.rs: a file is its records in key   *)
(* order, a sparse index with a checkpoint every CHECKPOINT bytes, and a   *)
(* filter.  An offset into the data section is the number of the record    *)
(* that starts there.                                                      *)
(***************************************************************************)
EXTENDS Bloom

CONSTANTS
    CHECKPOINT,    \* bytes of records between two checkpoints, 4096 in the code
    record_size    \* record_size[v]: the bytes of a record with value v

ASSUME SsTableAssumption ==
    /\ CHECKPOINT \in Nat \ {0}
    /\ record_size \in [Values -> Nat \ {0}]

new_writer(expected_keys) ==
    [records |-> <<>>, index |-> <<>>, since |-> 0,
     filter |-> new_filter(expected_keys)]

\* A checkpoint is due at the first record and CHECKPOINT bytes after the
\* last one; it points at the record about to be written.
add(w, k, v) ==
    LET due == w.index = <<>> \/ w.since >= CHECKPOINT
    IN  [records |-> Append(w.records, [key |-> k, value |-> v]),
         index   |-> IF due THEN Append(w.index, [key |-> k, at |-> Len(w.records) + 1])
                     ELSE w.index,
         since   |-> (IF due THEN 0 ELSE w.since) + record_size[v],
         filter  |-> insert_bits(w.filter, k)]

\* What finish leaves under the final name and open reads back.
finish(w) == [records |-> w.records, index |-> w.index, filter |-> w.filter]

\* MemTable::flush: every record, tombstones too, in key order.
flush_file(t) ==
    finish(FoldLeft(LAMBDA w, k : add(w, k, t[k]),
                    new_writer(Cardinality(Present(t))), Sorted(Present(t))))

\* What iter returns from beginning to end.
table_of(f) ==
    [k \in Keys |->
        LET R == {i \in DOMAIN f.records : f.records[i].key = k}
        IN  IF R = {} THEN Absent ELSE f.records[Min(R)].value]

\* Mutant: a key that is itself a checkpoint is looked for before it.
get_raw_before(f, k) ==
    LET C == {i \in DOMAIN f.index : f.index[i].key < k}
        R == {j \in f.index[Max(C)].at .. Len(f.records) : f.records[j].key >= k}
    IN  IF may_contain(f.filter, k) /\ C # {} /\ R # {}
        THEN IF f.records[Min(R)].key = k THEN f.records[Min(R)].value ELSE Absent
        ELSE Absent

\* get_raw: the filter, then a binary search for the last checkpoint not
\* above the key, then a scan up to the first record not below the key.
get_raw(f, k) ==
    LET C == {i \in DOMAIN f.index : f.index[i].key <= k}
        R == {j \in f.index[Max(C)].at .. Len(f.records) : f.records[j].key >= k}
    IN  IF may_contain(f.filter, k) /\ C # {} /\ R # {}
        THEN IF f.records[Min(R)].key = k THEN f.records[Min(R)].value ELSE Absent
        ELSE Absent
=============================================================================
