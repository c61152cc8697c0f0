------------------------------ MODULE MCLevels ------------------------------
(***************************************************************************)
(* Small instances of Levels: two values to tell writes apart and one      *)
(* tombstone.                                                              *)
(***************************************************************************)
EXTENDS Levels

CONSTANTS a, b, tombstone

MCKeys == 1..3
MCValues == {a, b, tombstone}
MCTombstones == {tombstone}

\* The clock moves at every reading.
StrictTicks == {1}

\* A MemTable with value v under each key of S.
Holding(S, v) == [k \in Keys |-> IF k \in S THEN v ELSE Absent]

\* MemTables with one key, with the two ends of the key range and nothing
\* between, and deletions of either kind.
SparseTables ==
    {Holding({k}, a) : k \in Keys}
    \cup {Holding({1}, b), Holding({1, 3}, b), Holding({1, 3}, tombstone),
          Holding({2}, tombstone)}

=============================================================================
