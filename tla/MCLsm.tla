-------------------------------- MODULE MCLsm --------------------------------
(***************************************************************************)
(* Instances of the engine: the constants that do not fit a .cfg.          *)
(***************************************************************************)
EXTENDS LsmProperties

CONSTANTS c1, c2

MCKeys2 == {1, 2}
MCKeys3 == {1, 2, 3}
MCValues == [ver : 1..MaxWrites, tomb : BOOLEAN]
MCTombstones == [ver : 1..MaxWrites, tomb : {TRUE}]
MCEntries == [key : Keys, value : MCValues]
StrictTicks == {1}

\* One byte each; or two for what the second write call writes, so that a set
\* that overwrites a key can fill the MemTable.
SameSize == [v \in Values |-> 1]
SecondIsLong == [v \in Values |-> IF v.ver = 2 THEN 2 ELSE 1]

\* Two clients that write a key each.
TwoWriters ==
    [c \in Clients |-> {[op |-> "set", key |-> IF c = c1 THEN 1 ELSE 2]}]

\* Clients that share the keys out between them, and read all.
OwnKeys ==
    [c \in Clients |->
        {[op |-> "get", key |-> k] : k \in Keys}
        \cup IF c = c1
             THEN {[op |-> "set", key |-> 1]}
             ELSE {[op |-> "set", key |-> k] : k \in Keys \ {1}}]

\* One client that makes every call on every key.
EveryCall == [c \in Clients |-> [op : {"set", "delete", "get"}, key : Keys]]
=============================================================================
