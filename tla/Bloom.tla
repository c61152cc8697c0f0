-------------------------------- MODULE Bloom --------------------------------
(***************************************************************************)
(* bloom.rs: the filter an SSTable carries.  The bit array is the set of   *)
(* positions that are 1.  A key's two hashes are constants; arithmetic on  *)
(* them wraps at HashBits bits, 64 in the code.                            *)
(***************************************************************************)
EXTENDS Tables

CONSTANTS
    HashBits,   \* the width of a hash
    fnv_1a,     \* fnv_1a[k] and djb2[k] are the hashes of key k
    djb2

Hashes == 0 .. 2^HashBits - 1

ASSUME BloomAssumption ==
    /\ HashBits \in Nat \ {0}
    /\ fnv_1a \in [Keys -> Hashes]
    /\ djb2 \in [Keys -> Hashes]

\* m = ceil(n * 9.58506) and k = round(m / n * 0.693147), for one false
\* positive in a hundred; for no keys 0 / 0 makes k 0.
new_filter(n) ==
    LET m == (958506 * n + 99999) \div 100000
    IN  [m |-> m, bits |-> {},
         k |-> IF n = 0 THEN 0 ELSE (1386294 * m + 1000000 * n) \div (2000000 * n)]

\* The positions of a key, by double hashing.
Positions(f, key) ==
    {((fnv_1a[key] + i * djb2[key]) % 2^HashBits) % f.m : i \in 0 .. f.k - 1}

insert_bits(f, key) == [f EXCEPT !.bits = @ \cup Positions(f, key)]

may_contain(f, key) == Positions(f, key) \subseteq f.bits
=============================================================================
