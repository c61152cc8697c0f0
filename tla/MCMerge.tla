------------------------------- MODULE MCMerge -------------------------------
(***************************************************************************)
(* A small instance of MergeLoop: records of one and of three bytes with a *)
(* checkpoint every two, hashes that wrap and collide.                     *)
(***************************************************************************)
EXTENDS MergeLoop

CONSTANTS a, b, tombstone

MCKeys == 1..3
MCValues == {a, b, tombstone}
MCTombstones == {tombstone}
MCSizes == [v \in MCValues |-> IF v = b THEN 3 ELSE 1]

MCfnv == [k \in MCKeys |-> 90 * k - 30]
MCdjb2 == [k \in MCKeys |-> 4 + k]

Row(x, y, z) == <<x, y, z>>

\* Sparse and full tables, with each kind of value first, last and between.
MCFlushed ==
    {Row(a, a, a), Row(b, tombstone, a), Row(tombstone, b, b),
     Row(Absent, a, Absent), Row(tombstone, Absent, b), Row(Absent, Absent, tombstone)}
=============================================================================
