----------------------------- MODULE AtomicMerge -----------------------------
(***************************************************************************)
(* What compact takes merge_sstables to be: one step from the inputs to a  *)
(* file with the merged table.  It may also never happen.                  *)
(***************************************************************************)
EXTENDS Tables

VARIABLES
    inputs,   \* the tables of the input files, the first one winning
    short,    \* whether a scan has been cut short by a read error
    result    \* the table of the output file, NoFile while there is none

\* A scan cut short sees the records below some key.
ScansOf(t) == {t} \cup Cuts(t)

Readings ==
    {v \in [DOMAIN inputs -> UNION {ScansOf(inputs[s]) : s \in DOMAIN inputs}] :
        \A s \in DOMAIN inputs : v[s] \in ScansOf(inputs[s])}

Merge ==
    /\ result = NoFile
    /\ \/ ~short /\ result' = merge_sstables(inputs)
       \/ short /\ \E v \in Readings : result' = merge_sstables(v)
    /\ UNCHANGED <<inputs, short>>

ReadError == result = NoFile /\ short' = TRUE /\ UNCHANGED <<inputs, result>>

atomicVars == <<inputs, short, result>>

AtomicInit == result = NoFile /\ ~short

AtomicNext == Merge \/ ReadError

AtomicMergeSpec == AtomicInit /\ [][AtomicNext]_atomicVars
=============================================================================
