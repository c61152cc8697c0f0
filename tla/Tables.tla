------------------------------- MODULE Tables -------------------------------
(***************************************************************************)
(* The data that the store moves around: a sorted map from keys to values, *)
(* whether it is the MemTable's BTreeMap or the records of an SSTable, and *)
(* the pure functions the code applies to such maps.                       *)
(*                                                                         *)
(* A table is total on Keys: a key without a record maps to Absent.  Keys  *)
(* are integers because the code needs their order and nothing else.       *)
(***************************************************************************)
EXTENDS Integers, Sequences, FiniteSets, SequencesExt, FiniteSetsExt

CONSTANTS
    Keys,        \* the user's keys, ordered as the byte strings are
    Values,      \* everything a record may hold, tombstones included
    Tombstones,  \* the values that is_tombstone recognises
    Absent,      \* "no record of this key"
    NoFile       \* what opening a path finds when there is no file

is_tombstone(v) == v \in Tombstones

Table == [Keys -> Values \cup {Absent}]

ASSUME TablesAssumption ==
    /\ Keys \subseteq Int
    /\ Tombstones \subseteq Values
    /\ Absent \notin Values
    /\ NoFile \notin Table

EmptyTable == [k \in Keys |-> Absent]

\* The keys a table has a record for, tombstone or not.
Present(t) == {k \in Keys : t[k] # Absent}

\* What a scan that fails at some record sees: the records below it.
Cuts(t) == {[k \in Keys |-> IF k < x THEN t[k] ELSE Absent] : x \in Present(t)}

\* MemTable::set and MemTable::delete both insert; a delete inserts a tombstone.
insert(t, k, v) == [t EXCEPT ![k] = v]

\* Mutant: the marker of a deletion is returned as a value.
Answer_raw(v) == v

\* What a caller of get sees of a record.
Answer(v) == IF is_tombstone(v) THEN Absent ELSE v

\* key_range gives [min, max] of each side; the two intervals meet iff some
\* key of each lies on either side of some key of the other.
ranges_overlap(S, T) ==
    /\ \E a \in S, b \in T : a <= b
    /\ \E a \in S, b \in T : b <= a

-----------------------------------------------------------------------------
(***************************************************************************)
(* A search through files in order: it stops at the first file that holds  *)
(* the key, or that cannot be opened.                                      *)
(***************************************************************************)
Stops(ts, k) == {i \in DOMAIN ts : ts[i] = NoFile \/ ts[i][k] # Absent}

\* The record found, Absent if none, NoFile if the search failed.
FirstRecord(ts, k) ==
    LET S == Stops(ts, k)
        t == ts[Min(S)]
    IN  CASE S = {}                 -> Absent
          [] S # {} /\ t = NoFile   -> NoFile
          [] S # {} /\ t # NoFile   -> t[k]

\* The k-way merge: of the sources that hold a key the one with the lowest
\* source_index wins, and a winning tombstone writes nothing.
merge_sstables(ts) == [k \in Keys |-> Answer(FirstRecord(ts, k))]

\* The contents of the files a level tracks, in the level's order.
tables_of(disk, paths) == [i \in DOMAIN paths |-> disk[paths[i]]]

\* The members of a set of integers in increasing order, and the members of a
\* sequence at a set of indices, in the sequence's order.
Sorted(S) ==
    [n \in 1..Cardinality(S) |->
        CHOOSE x \in S : Cardinality({y \in S : y <= x}) = n]

Pick(s, I) == [n \in 1..Cardinality(I) |-> s[Sorted(I)[n]]]
=============================================================================
