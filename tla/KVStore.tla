------------------------------- MODULE KVStore -------------------------------
(***************************************************************************)
(* What the engine promises its callers: one dictionary, changed and read  *)
(* one call at a time, that survives the process.                          *)
(***************************************************************************)
CONSTANTS Keys, Values, Tombstones, Absent, Clients

VARIABLES
    store,   \* the value under each key, Absent if there is none
    answer   \* answer[c]: what client c's last get returned

kvVars == <<store, answer>>

KVInit ==
    /\ store = [k \in Keys |-> Absent]
    /\ answer = [c \in Clients |-> Absent]

Put(k, v) == store' = [store EXCEPT ![k] = v] /\ UNCHANGED answer

Remove(k) == store' = [store EXCEPT ![k] = Absent] /\ UNCHANGED answer

Get(c, k) == answer' = [answer EXCEPT ![c] = store[k]] /\ UNCHANGED store

KVNext ==
    \/ \E k \in Keys, v \in Values \ Tombstones : Put(k, v)
    \/ \E k \in Keys : Remove(k)
    \/ \E c \in Clients, k \in Keys : Get(c, k)

KVSpec == KVInit /\ [][KVNext]_kvVars
=============================================================================
