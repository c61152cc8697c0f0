------------------------------ MODULE MCFresh ------------------------------
(***************************************************************************)
(* Instances of LsmFreshness, with the constants of MCLsm.                 *)
(***************************************************************************)
EXTENDS MCLsm, LsmFreshness

\* Two clients that write key 2, which one of them also reads.
SharedKey ==
    [c \in Clients |->
        {[op |-> "set", key |-> 2]}
        \cup IF c = c1 THEN {} ELSE {[op |-> "get", key |-> 2]}]

\* Two bytes for what the second and the fourth write call write.
EvenAreLong == [v \in Values |-> IF v.ver % 2 = 0 THEN 2 ELSE 1]

\* One client that sets every key and gets key 1.
SetsAndGets ==
    [c \in Clients |-> [op : {"set"}, key : Keys] \cup {[op |-> "get", key |-> 1]}]
=============================================================================
