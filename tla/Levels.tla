------------------------------- MODULE Levels -------------------------------
(***************************************************************************)
(* A LevelManager within one process lifetime, driven as its unit tests    *)
(* drive it: a caller flushes MemTables into L0 and compacts whenever it   *)
(* likes.  Lsm.tla has the engine's threads around the same operations.    *)
(***************************************************************************)
EXTENDS LevelManager

CONSTANT FlushTables   \* the MemTables the caller may flush

ASSUME LevelsAssumption == FlushTables \subseteq Table

\* MemTable::flush to a new l0_ file, then add_l0_file.
flush(t) ==
    \E s \in Stamps :
        /\ now(s)
        /\ disk0' = [disk0 EXCEPT ![s] = t]
        /\ add_l0_file(s)
        /\ UNCHANGED <<disk1, l1, job, ioVars>>

LevelNext ==
    \/ \E t \in FlushTables : flush(t)
    \/ compact_begin
    \/ compact_end

LevelSpec == LevelInit /\ [][LevelNext]_levelVars

-----------------------------------------------------------------------------
\* What reads find in a list of L1 files when L0 is empty.
Installed(paths, k) == FirstRecord(tables_of(disk1, paths), k)

\* A key that at most one of the L0 files holds a record of.
Uncontested(k) ==
    \A i, j \in DOMAIN l0 :
        disk0[l0[i]][k] # Absent /\ disk0[l0[j]][k] # Absent => i = j

\* A compaction that no short scan went into changes no read of a key that at
\* most one L0 file holds: the L0 record wins over L1, a tombstone is dropped
\* only together with every L1 record it hides, untouched files stay readable.
CompactionKeepsUncontested ==
    [][Idle /\ ~Idle' /\ ~short' =>
        \A k \in Keys : Uncontested(k) =>
            Answer(search_levels(k)) = Installed(ToInstall, k)']_levelVars

-----------------------------------------------------------------------------
\* What the documentation says and the code does not do.

\* README.md: a merge "keeps only the newest value for each key".
CompactionKeepsNewest ==
    [][Idle /\ ~Idle' =>
        \A k \in Keys : Answer(search_levels(k)) = Installed(ToInstall, k)']_levelVars

\* lsm.rs: the input files "stay readable throughout the merge", which deletes
\* them only once it has succeeded; so a compaction that fails hides nothing.
FailedCompactionHidesNothing ==
    [][Idle /\ Idle' /\ l0 # <<>> /\ l0' = <<>> =>
        \A k \in Keys : search_levels(k)' = search_levels(k)]_levelVars
=============================================================================
