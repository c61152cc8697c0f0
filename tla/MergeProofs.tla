---------------------------- MODULE MergeProofs ----------------------------
(***************************************************************************)
(* The loop invariant of MergeLoop.tla and its refinement of AtomicMerge,  *)
(* for every number of inputs, every order in which equal keys leave the   *)
(* heap and every scan cut short.                                          *)
(***************************************************************************)
EXTENDS MergeLoop, TablesProofs

-----------------------------------------------------------------------------
(***************************************************************************)
(* Sequences without repetitions, and records in order.                    *)
(***************************************************************************)
Ascending(records) ==
    \A i, j \in DOMAIN records : i < j => records[i].key < records[j].key

\* Taking the head of a sequence without repetitions takes it out of its set.
LEMMA HeadLeaves ==
    ASSUME NEW S, NEW p \in Seq(S), p # <<>>, IsInjective(p)
    PROVE  /\ Head(p) \in ToSet(p) /\ Head(p) \in S
           /\ Tail(p) \in Seq(S) /\ IsInjective(Tail(p))
           /\ ToSet(Tail(p)) = ToSet(p) \ {Head(p)}
<1>1. /\ Len(p) \in Nat \ {0} /\ DOMAIN p = 1..Len(p) /\ Head(p) = p[1]
      /\ Tail(p) \in Seq(S) /\ DOMAIN Tail(p) = 1..Len(p) - 1
      /\ \A i \in 1..Len(p) - 1 : Tail(p)[i] = p[i + 1]
  BY HeadTailProperties, LenProperties, EmptySeq
<1>2. \A i \in 1..Len(p) : p[i] \in S
  BY <1>1, ElementOfSeq
<1>3. IsInjective(Tail(p))
  BY <1>1 DEF IsInjective
<1>4. ToSet(Tail(p)) = ToSet(p) \ {Head(p)}
  <2>1. ASSUME NEW x \in ToSet(Tail(p)) PROVE x \in ToSet(p) \ {Head(p)}
    <3>1. PICK i \in 1..Len(p) - 1 : x = p[i + 1]
      BY <2>1, <1>1 DEF ToSet
    <3>2. i + 1 \in DOMAIN p /\ 1 \in DOMAIN p /\ i + 1 # 1
      BY <1>1
    <3> QED BY <3>1, <3>2, <1>1 DEF ToSet, IsInjective
  <2>2. ASSUME NEW x \in ToSet(p), x # Head(p) PROVE x \in ToSet(Tail(p))
    <3>1. PICK i \in 1..Len(p) : x = p[i]
      BY <2>2, <1>1 DEF ToSet
    <3>2. i - 1 \in 1..Len(p) - 1 /\ (i - 1) + 1 = i
      BY <3>1, <2>2, <1>1
    <3>3. Tail(p)[i - 1] = x
      BY <3>1, <3>2, <1>1
    <3> QED BY <3>2, <3>3, <1>1 DEF ToSet
  <2> QED BY <2>1, <2>2
<1>5. Head(p) \in ToSet(p) /\ Head(p) \in S
  <2>1. 1 \in 1..Len(p)
    BY <1>1
  <2> QED BY <2>1, <1>1, <1>2 DEF ToSet
<1> QED BY <1>1, <1>3, <1>4, <1>5

\* Appending what is not there keeps a sequence without repetitions.
LEMMA AppendJoins ==
    ASSUME NEW S, NEW p \in Seq(S), NEW x \in S, IsInjective(p), x \notin ToSet(p)
    PROVE  /\ Append(p, x) \in Seq(S) /\ IsInjective(Append(p, x))
           /\ ToSet(Append(p, x)) = ToSet(p) \cup {x}
           /\ Append(p, x) # <<>>
<1> DEFINE q == Append(p, x)
<1>1. /\ Len(p) \in Nat /\ DOMAIN p = 1..Len(p)
      /\ q \in Seq(S) /\ DOMAIN q = 1..Len(p) + 1 /\ Len(q) = Len(p) + 1
      /\ \A i \in 1..Len(p) : q[i] = p[i]
      /\ q[Len(p) + 1] = x
  BY AppendProperties, LenProperties
<1> HIDE DEF q
<1>2. \A i \in 1..Len(p) + 1 : i \in 1..Len(p) \/ i = Len(p) + 1
  BY <1>1
<1>3. \A i \in 1..Len(p) : p[i] # x
  BY <1>1 DEF ToSet
<1>4. IsInjective(q)
  BY <1>1, <1>2, <1>3 DEF IsInjective
<1>5. ToSet(q) = ToSet(p) \cup {x}
  <2>1. ASSUME NEW y \in ToSet(q) PROVE y \in ToSet(p) \cup {x}
    BY <2>1, <1>1, <1>2 DEF ToSet
  <2>2. ASSUME NEW y \in ToSet(p) PROVE y \in ToSet(q)
    <3>1. PICK i \in 1..Len(p) : y = p[i]
      BY <2>2, <1>1 DEF ToSet
    <3> QED BY <3>1, <1>1, <1>2 DEF ToSet
  <2>3. x \in ToSet(q)
    BY <1>1 DEF ToSet
  <2> QED BY <2>1, <2>2, <2>3
<1> QED BY <1>1, <1>4, <1>5, EmptySeq DEF q

\* The records behind the first are above it, and in order.
LEMMA HeadIsLeast ==
    ASSUME NEW r \in Seq(Records), r # <<>>, Ascending(r)
    PROVE  /\ Head(r).key \in Keys /\ Head(r).value \in Values
           /\ Tail(r) \in Seq(Records) /\ Ascending(Tail(r))
           /\ \A j \in DOMAIN Tail(r) : Head(r).key < Tail(r)[j].key
           /\ \A k \in Int : (\A j \in DOMAIN r : k < r[j].key) =>
                  k < Head(r).key /\ \A j \in DOMAIN Tail(r) : k < Tail(r)[j].key
<1>1. /\ Len(r) \in Nat \ {0} /\ DOMAIN r = 1..Len(r) /\ Head(r) = r[1]
      /\ Tail(r) \in Seq(Records) /\ DOMAIN Tail(r) = 1..Len(r) - 1
      /\ \A i \in 1..Len(r) - 1 : Tail(r)[i] = r[i + 1]
  BY HeadTailProperties, LenProperties, EmptySeq
<1>2. r[1] \in Records
  BY <1>1, ElementOfSeq
<1>3. \A i \in 1..Len(r) - 1 : i + 1 \in DOMAIN r /\ 1 < i + 1 /\ 1 \in DOMAIN r
  BY <1>1
<1>4. Ascending(Tail(r))
  BY <1>1, <1>3 DEF Ascending
<1>5. \A j \in DOMAIN Tail(r) : Head(r).key < Tail(r)[j].key
  BY <1>1, <1>3 DEF Ascending
<1>6. \A k \in Int : (\A j \in DOMAIN r : k < r[j].key) =>
        k < Head(r).key /\ \A j \in DOMAIN Tail(r) : k < Tail(r)[j].key
  BY <1>1, <1>3
<1> QED BY <1>1, <1>2, <1>4, <1>5, <1>6 DEF Records

-----------------------------------------------------------------------------
(***************************************************************************)
(* Files: what a lookup finds in one, and the one that flush leaves.       *)
(***************************************************************************)
Checkpoints == [key : Keys, at : Nat]

\* Every checkpoint is at a record, the first one at the first record, and the
\* filter answers yes for every key.
Indexed(f) ==
    /\ \A i \in DOMAIN f.index :
          /\ f.index[i].at \in DOMAIN f.records
          /\ f.index[i].key = f.records[f.index[i].at].key
    /\ f.records # <<>> => 1 \in DOMAIN f.index /\ f.index[1].at = 1
    /\ \A i \in DOMAIN f.records : may_contain(f.filter, f.records[i].key)

\* The table of a file lists its records.
LEMMA TableOfRecords ==
    ASSUME NEW f, f.records \in Seq(Records), Ascending(f.records)
    PROVE  /\ table_of(f) \in Table
           /\ \A i \in DOMAIN f.records :
                 table_of(f)[f.records[i].key] = f.records[i].value
           /\ \A k \in Keys : table_of(f)[k] # Absent =>
                 \E i \in DOMAIN f.records : f.records[i].key = k
<1> DEFINE r == f.records
           R(k) == {i \in DOMAIN r : r[i].key = k}
<1>1. /\ DOMAIN r = 1..Len(r) /\ Len(r) \in Nat
      /\ \A i \in DOMAIN r : r[i].key \in Keys /\ r[i].value \in Values
  <2>1. DOMAIN r = 1..Len(r) /\ Len(r) \in Nat
    BY LenProperties
  <2>2. \A i \in DOMAIN r : r[i] \in Records
    BY <2>1, ElementOfSeq
  <2> QED BY <2>1, <2>2 DEF Records
<1>2. \A k \in Keys : table_of(f)[k] = IF R(k) = {} THEN Absent ELSE r[Min(R(k))].value
  BY DEF table_of
<1>3. \A k \in Keys : R(k) # {} => Min(R(k)) \in R(k)
  <2> SUFFICES ASSUME NEW k \in Keys, R(k) # {}
               PROVE  Min(R(k)) \in R(k)
    OBVIOUS
  <2>1. R(k) \subseteq Nat
    BY <1>1
  <2> QED BY <2>1, MinProperties
<1>4. table_of(f) \in Table
  <2>1. \A k \in Keys : table_of(f)[k] \in Values \cup {Absent}
    BY <1>1, <1>2, <1>3
  <2>2. table_of(f) = [k \in Keys |-> table_of(f)[k]]
    BY DEF table_of
  <2> QED BY <2>1, <2>2 DEF Table
<1>5. ASSUME NEW i \in DOMAIN r PROVE table_of(f)[r[i].key] = r[i].value
  <2>1. i \in R(r[i].key) /\ r[i].key \in Keys
    BY <1>1
  <2>2. Min(R(r[i].key)) \in DOMAIN r /\ r[Min(R(r[i].key))].key = r[i].key
    BY <2>1, <1>3
  <2>3. Min(R(r[i].key)) = i
    <3>1. \A m \in DOMAIN r : r[m].key \in Int
      BY <1>1, TablesAssumption
    <3> DEFINE m == Min(R(r[i].key))
    <3>2. m \in DOMAIN r /\ r[m].key = r[i].key
      BY <2>2
    <3> HIDE DEF m
    <3>3. ~(m < i) /\ ~(i < m)
      BY <3>1, <3>2 DEF Ascending
    <3>4. m \in Int /\ i \in Int
      BY <3>2, <1>1
    <3>5. m = i
      BY <3>3, <3>4
    <3> QED BY <3>5 DEF m
  <2> QED BY <2>1, <2>3, <1>2
<1> QED BY <1>2, <1>4, <1>5

\* A file in order and with its index.
Readable(f) ==
    /\ f.records \in Seq(Records) /\ Ascending(f.records)
    /\ f.index \in Seq(Checkpoints) /\ Indexed(f)

\* In a file in order and with its index, the filter, the last checkpoint not
\* above the key and the scan behind it find the key's record and no other.
LEMMA LookupExact ==
    ASSUME NEW f, Readable(f), NEW k \in Keys
    PROVE  get_raw(f, k) = table_of(f)[k]
<1>0. /\ f.records \in Seq(Records) /\ Ascending(f.records)
      /\ f.index \in Seq(Checkpoints) /\ Indexed(f)
  BY DEF Readable
<1> DEFINE r == f.records
           x == f.index
           C == {i \in DOMAIN x : x[i].key <= k}
           at == x[Max(C)].at
           R == {j \in at .. Len(r) : r[j].key >= k}
<1>1. /\ DOMAIN r = 1..Len(r) /\ Len(r) \in Nat /\ DOMAIN x = 1..Len(x) /\ Len(x) \in Nat
      /\ \A i \in DOMAIN r : r[i].key \in Int /\ r[i].key \in Keys
      /\ k \in Int
  <2>1. DOMAIN r = 1..Len(r) /\ Len(r) \in Nat /\ DOMAIN x = 1..Len(x) /\ Len(x) \in Nat
    BY <1>0, LenProperties
  <2>2. \A i \in DOMAIN r : r[i] \in Records
    BY <1>0, <2>1, ElementOfSeq
  <2> QED BY <2>1, <2>2, TablesAssumption DEF Records
<1>2. \A i, j \in DOMAIN r : i < j => r[i].key < r[j].key
  BY <1>0 DEF Ascending
<1>3. \A i \in DOMAIN x : x[i].at \in DOMAIN r /\ x[i].key = r[x[i].at].key
  BY <1>0 DEF Indexed
<1>4. get_raw(f, k) = IF may_contain(f.filter, k) /\ C # {} /\ R # {}
                      THEN IF r[Min(R)].key = k THEN r[Min(R)].value ELSE Absent
                      ELSE Absent
  BY DEF get_raw
<1>5. C # {} => at \in DOMAIN r /\ r[at].key <= k /\ R \subseteq DOMAIN r
  <2> SUFFICES ASSUME C # {}
               PROVE  at \in DOMAIN r /\ r[at].key <= k /\ R \subseteq DOMAIN r
    OBVIOUS
  <2>1. C \subseteq 1..Len(x)
    BY <1>1
  <2>2. PICK c : c = Max(C) /\ c \in C
    BY <1>1, <2>1, MaxProperties
  <2>3. at \in DOMAIN r /\ r[at].key <= k
    BY <1>3, <2>2
  <2> HIDE DEF at
  <2>4. R \subseteq DOMAIN r
    BY <1>1, <2>3
  <2> QED BY <2>3, <2>4
<1>6. R # {} /\ R \subseteq DOMAIN r => Min(R) \in R /\ \A j \in R : Min(R) <= j
  <2> HIDE DEF R, r
  <2>1. R \subseteq DOMAIN r => R \subseteq Nat
    BY <1>1
  <2> QED BY <2>1, MinProperties
<1>7. CASE \A i \in DOMAIN r : r[i].key # k
  <2>1. table_of(f)[k] = Absent
    BY <1>0, <1>7, TableOfRecords
  <2>2. C # {} /\ R # {} => r[Min(R)].key # k
    <3> SUFFICES ASSUME C # {}, R # {}
                 PROVE  r[Min(R)].key # k
      OBVIOUS
    <3> HIDE DEF C, R
    <3>1. Min(R) \in DOMAIN r
      BY <1>5, <1>6
    <3> QED BY <1>7, <3>1
  <2> QED BY <1>4, <2>1, <2>2
<1>8. ASSUME NEW p \in DOMAIN r, r[p].key = k
      PROVE  get_raw(f, k) = table_of(f)[k]
  <2>1. table_of(f)[k] = r[p].value
    BY <1>0, <1>8, TableOfRecords
  <2>2. may_contain(f.filter, k)
    BY <1>0, <1>8 DEF Indexed
  <2>3. C # {}
    <3>1. 1 \in DOMAIN x /\ x[1].at = 1
      BY <1>0, <1>8 DEF Indexed
    <3>2. 1 \in DOMAIN r /\ x[1].key = r[1].key /\ p \in Int /\ 1 <= p
      BY <1>1, <1>3, <3>1
    <3>3. r[1].key <= r[p].key
      BY <1>1, <1>2, <3>2
    <3> QED BY <1>8, <3>1, <3>2, <3>3
  <2>4. at \in DOMAIN r /\ r[at].key <= r[p].key /\ R \subseteq DOMAIN r
    BY <1>5, <1>8, <2>3
  <2> DEFINE m == Min(R)
  <2> HIDE DEF at, C
  <2>5. at <= p
    BY <1>1, <1>2, <2>4
  <2>6. p \in R
    BY <1>1, <1>8, <2>4, <2>5
  <2>7. m \in R /\ m <= p /\ m \in DOMAIN r /\ r[m].key >= k
    BY <1>6, <2>4, <2>6
  <2> HIDE DEF m, R
  <2>8. m = p
    BY <1>1, <1>2, <1>8, <2>7
  <2> QED BY <1>4, <1>8, <2>1, <2>2, <2>3, <2>6, <2>8 DEF m
<1> QED BY <1>7, <1>8

\* Inserting a key changes the answers for no other from yes to no.
AFilter(f) == \E m, n, B : f = [m |-> m, bits |-> B, k |-> n]

LEMMA InsertKeepsFilter ==
    ASSUME NEW f, AFilter(f), NEW key
    PROVE  /\ may_contain(insert_bits(f, key), key)
           /\ \A x : may_contain(f, x) => may_contain(insert_bits(f, key), x)
           /\ AFilter(insert_bits(f, key))
<1> DEFINE g == insert_bits(f, key)
<1>0. PICK m, n, B : f = [m |-> m, bits |-> B, k |-> n]
  BY DEF AFilter
<1>1. g = [m |-> m, bits |-> B \cup Positions(f, key), k |-> n]
  BY <1>0 DEF insert_bits
<1>2. \A x : Positions(g, x) = Positions(f, x)
  <2>1. g.m = f.m /\ g.k = f.k
    BY <1>0, <1>1
  <2> QED BY <2>1 DEF Positions
<1>3. g.bits = f.bits \cup Positions(f, key)
  BY <1>0, <1>1
<1>4. AFilter(g)
  BY <1>1 DEF AFilter
<1> QED BY <1>2, <1>3, <1>4 DEF may_contain

\* A writer: its records in order, its index, and a filter as new_filter made it.
Built(w) == Readable(w) /\ AFilter(w.filter)

LEMMA NewIsBuilt == \A n : Built(new_writer(n))
<1> TAKE n
<1>1. /\ new_writer(n).records = <<>> /\ new_writer(n).index = <<>>
      /\ \A i : i \notin DOMAIN <<>>
  BY DEF new_writer
<1>2. AFilter(new_writer(n).filter)
  <2>1. new_writer(n).filter = new_filter(n)
    BY DEF new_writer
  <2> DEFINE m == (958506 * n + 99999) \div 100000
             j == IF n = 0 THEN 0 ELSE (1386294 * m + 1000000 * n) \div (2000000 * n)
  <2>2. new_filter(n) = [m |-> m, bits |-> {}, k |-> j]
    BY DEF new_filter
  <2> HIDE DEF m, j
  <2> QED BY <2>1, <2>2 DEF AFilter
<1> QED BY <1>1, <1>2, EmptySeq DEF Built, Readable, Indexed, Ascending

\* add keeps it so, if the key is above those written.
LEMMA AddKeepsBuilt ==
    ASSUME NEW w, Built(w), NEW k \in Keys, NEW v \in Values,
           \A i \in DOMAIN w.records : w.records[i].key < k
    PROVE  Built(add(w, k, v))
<1> DEFINE r == w.records
           x == w.index
           u == add(w, k, v)
           rec == [key |-> k, value |-> v]
           mark == [key |-> k, at |-> Len(r) + 1]
<1>1. /\ r \in Seq(Records) /\ DOMAIN r = 1..Len(r) /\ Len(r) \in Nat
      /\ x \in Seq(Checkpoints) /\ DOMAIN x = 1..Len(x) /\ Len(x) \in Nat
  BY LenProperties DEF Built, Readable
<1>2. u.records = Append(r, rec) /\ rec \in Records
  BY DEF add, Records
<1>3. /\ u.records \in Seq(Records) /\ DOMAIN u.records = 1..Len(r) + 1
      /\ \A i \in 1..Len(r) : i \in DOMAIN u.records /\ u.records[i] = r[i]
      /\ Len(r) + 1 \in DOMAIN u.records /\ u.records[Len(r) + 1] = rec
      /\ \A i \in DOMAIN u.records : i \in 1..Len(r) \/ i = Len(r) + 1
  <2> HIDE DEF rec, u, r
  <2>1. /\ Append(r, rec) \in Seq(Records) /\ Len(Append(r, rec)) = Len(r) + 1
        /\ \A i \in 1..Len(r) : Append(r, rec)[i] = r[i]
        /\ Append(r, rec)[Len(r) + 1] = rec
    BY <1>1, <1>2, AppendProperties
  <2>2. DOMAIN Append(r, rec) = 1..Len(r) + 1
    BY <2>1, LenProperties
  <2>3. 1..Len(r) \subseteq 1..Len(r) + 1 /\ Len(r) + 1 \in 1..Len(r) + 1
    BY <1>1
  <2> QED BY <1>1, <1>2, <2>1, <2>2, <2>3
<1>4. u.index = x \/ u.index = Append(x, mark)
  BY DEF add
<1>5. x = <<>> => u.index = Append(x, mark)
  BY DEF add
<1>6. u.filter = insert_bits(w.filter, k)
  BY DEF add
<1> HIDE DEF u
<1>7. Ascending(u.records)
  <2> SUFFICES ASSUME NEW i \in DOMAIN u.records, NEW j \in DOMAIN u.records, i < j
               PROVE  u.records[i].key < u.records[j].key
    BY DEF Ascending
  <2>1. i \in 1..Len(r)
    BY <1>1, <1>3
  <2>2. CASE j \in 1..Len(r)
    BY <1>1, <1>3, <2>1, <2>2 DEF Built, Readable, Ascending
  <2>3. CASE j = Len(r) + 1
    BY <1>1, <1>3, <2>1, <2>3
  <2> QED BY <1>3, <2>2, <2>3
<1>8. mark \in Checkpoints /\ mark.at \in DOMAIN u.records
      /\ mark.key = u.records[mark.at].key
  BY <1>1, <1>3 DEF Checkpoints
<1>9. \A i \in DOMAIN x : x[i].at \in DOMAIN u.records /\ x[i].key = u.records[x[i].at].key
  BY <1>1, <1>3 DEF Built, Readable, Indexed
<1>10. /\ u.index \in Seq(Checkpoints)
       /\ \A i \in DOMAIN u.index : /\ u.index[i].at \in DOMAIN u.records
                                    /\ u.index[i].key = u.records[u.index[i].at].key
       /\ 1 \in DOMAIN u.index /\ u.index[1].at = 1
  <2> HIDE DEF mark
  <2>1. CASE u.index = x /\ x # <<>>
    <3>1. r # <<>>
      <4>1. \A i \in DOMAIN x : x[i].at \in DOMAIN r
        BY DEF Built, Readable, Indexed
      <4>2. 1 \in DOMAIN x
        BY <1>1, <2>1, EmptySeq
      <4> QED BY <4>1, <4>2
    <3>2. 1 \in DOMAIN x /\ x[1].at = 1
      BY <3>1 DEF Built, Readable, Indexed
    <3> QED BY <1>1, <1>9, <2>1, <3>2
  <2>2. CASE u.index = Append(x, mark)
    <3>1. /\ Append(x, mark) \in Seq(Checkpoints) /\ Len(Append(x, mark)) = Len(x) + 1
          /\ \A i \in 1..Len(x) : Append(x, mark)[i] = x[i]
          /\ Append(x, mark)[Len(x) + 1] = mark
      BY <1>1, <1>8, AppendProperties
    <3>2. DOMAIN Append(x, mark) = 1..Len(x) + 1
      BY <3>1, LenProperties
    <3>3. \A i \in 1..Len(x) + 1 : i \in 1..Len(x) \/ i = Len(x) + 1
      BY <1>1
    <3>4. 1 \in DOMAIN Append(x, mark) /\ Append(x, mark)[1].at = 1
      <4>1. CASE r = <<>>
        <5>1. x = <<>>
          BY <1>1, <4>1 DEF Built, Readable, Indexed
        <5> QED BY <4>1, <5>1 DEF mark
      <4>2. CASE r # <<>>
        <5>1. 1 \in DOMAIN x /\ x[1].at = 1
          BY <4>2 DEF Built, Readable, Indexed
        <5> QED BY <1>1, <3>1, <3>2, <5>1
      <4> QED BY <4>1, <4>2
    <3> QED BY <1>1, <1>8, <1>9, <2>2, <3>1, <3>2, <3>3, <3>4
  <2> QED BY <1>4, <1>5, <2>1, <2>2
<1>11. /\ \A i \in DOMAIN u.records : may_contain(u.filter, u.records[i].key)
       /\ AFilter(u.filter)
  <2>1. PICK g : g = w.filter
    OBVIOUS
  <2>2. AFilter(g)
    BY <2>1 DEF Built, Readable
  <2>4. /\ may_contain(insert_bits(g, k), k)
        /\ \A y : may_contain(g, y) => may_contain(insert_bits(g, k), y)
        /\ AFilter(insert_bits(g, k))
    BY <2>2, InsertKeepsFilter
  <2>5. u.filter = insert_bits(g, k)
    BY <1>6, <2>1
  <2>6. \A i \in DOMAIN r : may_contain(g, r[i].key)
    BY <2>1 DEF Built, Readable, Indexed
  <2>7. \A i \in 1..Len(r) : may_contain(u.filter, u.records[i].key)
    BY <1>1, <1>3, <2>4, <2>5, <2>6
  <2>8. may_contain(u.filter, u.records[Len(r) + 1].key)
    BY <1>3, <2>4, <2>5
  <2>9. AFilter(u.filter)
    BY <2>4, <2>5
  <2> QED BY <1>3, <2>7, <2>8, <2>9
<1>12. Indexed(u)
  BY <1>10, <1>11 DEF Indexed
<1>13. Built(u)
  BY <1>3, <1>7, <1>10, <1>11, <1>12 DEF Built, Readable
<1> QED BY <1>13 DEF u

\* What finish leaves is what the writer holds.
LEMMA FinishReads ==
    ASSUME NEW w, Readable(w)
    PROVE  Readable(finish(w))
<1>1. /\ finish(w).records = w.records /\ finish(w).index = w.index
      /\ finish(w).filter = w.filter
  BY DEF finish
<1>2. Indexed(finish(w))
  BY <1>1 DEF Readable, Indexed
<1> QED BY <1>1, <1>2 DEF Readable

\* Inserting a key adds its positions and nothing else.
LEMMA InsertForm ==
    \A m, B, j, key : LET f == [m |-> m, bits |-> B, k |-> j]
                      IN  insert_bits(f, key) =
                            [m |-> m, bits |-> B \cup Positions(f, key), k |-> j]
BY DEF insert_bits

\* flush goes through writers: the empty one, and one more for each key.
LEMMA FlushSteps ==
    ASSUME NEW t \in Table, IsFiniteSet(Present(t))
    PROVE  \E w : /\ w[0] = new_writer(Cardinality(Present(t)))
                  /\ \A m \in 1..Cardinality(Present(t)) :
                        w[m] = add(w[m - 1], Sorted(Present(t))[m], t[Sorted(Present(t))[m]])
                  /\ flush_file(t) = finish(w[Cardinality(Present(t))])
<1> DEFINE n == Cardinality(Present(t))
           s == Sorted(Present(t))
           base == new_writer(n)
           Reached == UNION {Positions(base.filter, k) : k \in Keys}
           Filters == {[m |-> base.filter.m, bits |-> B, k |-> base.filter.k] :
                          B \in SUBSET Reached}
           W == [records : Seq(Records), index : Seq(Checkpoints), since : Nat,
                 filter : Filters]
           op(w, k) == add(w, k, t[k])
           step == [p \in W \X (1..n) |-> op(p[1], s[p[2]])]
           Eq(g) == g = [x \in SUBSET (DOMAIN s) |->
                           IF x = {} THEN base ELSE op(g[x \ {Max(x)}], s[Max(x)])]
           f == CHOOSE g : Eq(g)
<1>1. /\ n \in Nat /\ DOMAIN s = 1..n
      /\ \A m \in 1..n : s[m] \in Keys /\ t[s[m]] \in Values
  <2>1. Present(t) \subseteq Int
    BY TablesAssumption DEF Present
  <2>2. \A k \in Present(t) : k \in Keys /\ t[k] \in Values
    BY DEF Present, Table
  <2> QED BY <2>1, <2>2, SortedProperties
<1>2. base \in W
  <2>1. base = [records |-> <<>>, index |-> <<>>, since |-> 0, filter |-> base.filter]
    BY DEF new_writer
  <2>2. base.filter \in Filters
    <3>1. base.filter = new_filter(n)
      BY DEF new_writer
    <3> DEFINE m == (958506 * n + 99999) \div 100000
               j == IF n = 0 THEN 0 ELSE (1386294 * m + 1000000 * n) \div (2000000 * n)
    <3>2. new_filter(n) = [m |-> m, bits |-> {}, k |-> j]
      BY DEF new_filter
    <3> HIDE DEF base, Reached, m, j
    <3>3. base.filter = [m |-> base.filter.m, bits |-> {}, k |-> base.filter.k]
      BY <3>1, <3>2
    <3> QED BY <3>3
  <2> DEFINE fil == base.filter
  <2> HIDE DEF base, Filters, fil
  <2>3. [records |-> <<>>, index |-> <<>>, since |-> 0, filter |-> fil] \in W
    BY <2>2, EmptySeq DEF fil
  <2> QED BY <2>1, <2>3 DEF fil
<1>3. ASSUME NEW w \in W, NEW k \in Keys, NEW v \in Values
      PROVE  add(w, k, v) \in W
  <2> DEFINE u == add(w, k, v)
             rec == [key |-> k, value |-> v]
             mark == [key |-> k, at |-> Len(w.records) + 1]
  <2>1. /\ w.records \in Seq(Records) /\ w.index \in Seq(Checkpoints)
        /\ w.since \in Nat /\ w.filter \in Filters /\ record_size[v] \in Nat
    BY SsTableAssumption
  <2>2. rec \in Records /\ mark \in Checkpoints
    BY <2>1, LenProperties DEF Records, Checkpoints
  <2>3. insert_bits(w.filter, k) \in Filters
    <3> DEFINE m == base.filter.m
               j == base.filter.k
    <3> HIDE DEF base, Reached, m, j
    <3>1. PICK B \in SUBSET Reached : w.filter = [m |-> m, bits |-> B, k |-> j]
      BY <2>1 DEF m, j
    <3>2. insert_bits(w.filter, k) = [m |-> m, bits |-> B \cup Positions(w.filter, k), k |-> j]
      BY <3>1, InsertForm
    <3>3. Positions(w.filter, k) = Positions(base.filter, k)
      <4>1. w.filter.m = base.filter.m /\ w.filter.k = base.filter.k
        BY <3>1 DEF m, j
      <4> QED BY <4>1 DEF Positions
    <3>4. Positions(base.filter, k) \subseteq Reached
      BY DEF Reached
    <3> QED BY <3>2, <3>3, <3>4 DEF m, j
  <2>4. /\ u.records = Append(w.records, rec)
        /\ u.index = w.index \/ u.index = Append(w.index, mark)
        /\ u.since \in Nat
        /\ u.filter = insert_bits(w.filter, k)
        /\ u = [records |-> u.records, index |-> u.index, since |-> u.since,
                filter |-> u.filter]
    BY <2>1 DEF add
  <2> HIDE DEF Filters, rec, mark, u
  <2>5. u.records \in Seq(Records) /\ u.index \in Seq(Checkpoints)
    BY <2>1, <2>2, <2>4, AppendProperties
  <2>6. u \in W
    BY <2>3, <2>4, <2>5
  <2> QED BY <2>6 DEF u
<1>4. step \in [W \X (1..n) -> W]
  <2>1. \A p \in W \X (1..n) : op(p[1], s[p[2]]) \in W
    <3> HIDE DEF W, s, n
    <3> QED BY <1>1, <1>3
  <2> HIDE DEF W, op, s, n
  <2> QED BY <2>1
<1> HIDE DEF W, base, s, n, op, f
<1>5. \E g : Eq(g)
  <2>1. PICK g : Unfolds(g, n, W, base, step)
    <3> HIDE DEF step
    <3> QED BY <1>1, <1>2, <1>4, FoldIsDefined
  <2>2. ASSUME NEW x \in SUBSET (1..n), x # {}
        PROVE  step[<<g[x \ {Max(x)}], Max(x)>>] = op(g[x \ {Max(x)}], s[Max(x)])
    <3>1. Max(x) \in 1..n
      BY <2>2, <1>1, MaxProperties
    <3>2. g[x \ {Max(x)}] \in W
      <4>1. x \ {Max(x)} \in SUBSET (1..n)
        OBVIOUS
      <4> QED BY <2>1, <4>1 DEF Unfolds
    <3> QED BY <3>1, <3>2
  <2>3. \A x \in SUBSET (1..n) :
           g[x] = IF x = {} THEN base ELSE op(g[x \ {Max(x)}], s[Max(x)])
    <3> HIDE DEF step
    <3> QED BY <2>1, <2>2 DEF Unfolds
  <2>4. Eq(g)
    <3> HIDE DEF step
    <3> QED BY <2>1, <2>3, <1>1 DEF Unfolds
  <2> HIDE DEF Eq
  <2> QED BY <2>4
<1>6. Eq(f)
  <2> HIDE DEF Eq
  <2> QED BY <1>5 DEF f
<1>7. flush_file(t) = finish(f[DOMAIN s])
  BY DEF flush_file, FoldLeft, MapThenFoldSet, f, s, op, base, n
<1> DEFINE w == [m \in 0..n |-> f[1..m]]
<1>8. w[0] = base
  <2>1. 1..0 = {} /\ {} \in SUBSET (DOMAIN s) /\ 0 \in 0..n
    BY <1>1
  <2> QED BY <1>6, <2>1
<1>9. ASSUME NEW m \in 1..n PROVE w[m] = op(w[m - 1], s[m])
  <2>1. /\ 1..m \in SUBSET (1..n) /\ 1..m # {} /\ m \in 1..m
        /\ m \in Nat /\ m \in 0..n /\ m - 1 \in 0..n /\ \A y \in 1..m : y <= m
    <3>1. m \in Nat /\ m \in 0..n /\ m - 1 \in 0..n /\ m \in 1..m
      BY <1>1
    <3>2. \A y \in 1..m : y \in 1..n /\ y <= m
      BY <1>1
    <3> QED BY <3>1, <3>2
  <2>2. Max(1..m) = m
    BY <2>1, MaxIs
  <2>3. (1..m) \ {m} = 1..m - 1
    BY <2>1
  <2>4. f[1..m] = op(f[1..m - 1], s[m])
    BY <1>1, <1>6, <2>1, <2>2, <2>3
  <2> QED BY <2>1, <2>4
<1>10. w[n] = f[1..n]
  BY <1>1
<1> HIDE DEF w
<1> QED BY <1>1, <1>7, <1>8, <1>9, <1>10 DEF op, base, s, n

\* The file that flush leaves can be read, and holds the table and nothing else.
LEMMA FlushIsReadable ==
    ASSUME NEW t \in Table, IsFiniteSet(Present(t))
    PROVE  Readable(flush_file(t)) /\ table_of(flush_file(t)) = t
<1> DEFINE n == Cardinality(Present(t))
           s == Sorted(Present(t))
<1>1. /\ n \in Nat
      /\ \A m \in 1..n : s[m] \in Keys /\ t[s[m]] \in Values
      /\ \A l, m \in 1..n : l < m => s[l] < s[m]
      /\ \A k \in Present(t) : \E m \in 1..n : s[m] = k
  <2>1. Present(t) \subseteq Int
    BY TablesAssumption DEF Present
  <2>2. \A k \in Present(t) : k \in Keys /\ t[k] \in Values
    BY DEF Present, Table
  <2> QED BY <2>1, <2>2, SortedProperties, SortedOrder
<1>2. PICK w : /\ w[0] = new_writer(n)
               /\ \A m \in 1..n : w[m] = add(w[m - 1], s[m], t[s[m]])
               /\ flush_file(t) = finish(w[n])
  BY FlushSteps
<1> HIDE DEF n, s
<1> DEFINE Fits(m) == /\ Built(w[m]) /\ Len(w[m].records) = m
                      /\ \A i \in 1..m : w[m].records[i] = [key |-> s[i], value |-> t[s[i]]]
           S == {m \in 0..n : Fits(m)}
<1>3. 0 \in S
  <2>1. Built(w[0]) /\ w[0].records = <<>> /\ Len(<<>>) = 0 /\ 0 \in 0..n
    BY <1>1, <1>2, NewIsBuilt DEF new_writer
  <2> QED BY <2>1
<1>4. ASSUME NEW m \in 0..n - 1, m \in S PROVE m + 1 \in S
  <2>1. m + 1 \in 1..n /\ (m + 1) - 1 = m /\ m \in Nat /\ m + 1 \in 0..n
    BY <1>1
  <2>0. PICK v : v = w[m]
    OBVIOUS
  <2>2. PICK k \in Keys, x \in Values : k = s[m + 1] /\ x = t[s[m + 1]]
    BY <1>1, <2>1
  <2>3. Fits(m)
    BY <1>4
  <2>4. w[m + 1] = add(v, k, x)
    BY <1>2, <2>0, <2>1, <2>2
  <2>5. /\ v.records \in Seq(Records) /\ Len(v.records) = m /\ DOMAIN v.records = 1..m
        /\ \A i \in 1..m : v.records[i] = [key |-> s[i], value |-> t[s[i]]]
    BY <2>0, <2>3, LenProperties DEF Built, Readable
  <2>6. \A i \in DOMAIN v.records : v.records[i].key < k
    <3>1. \A i \in 1..m : i \in 1..n /\ i < m + 1
      BY <1>1
    <3>2. \A i \in 1..m : s[i] < s[m + 1]
      BY <1>1, <2>1, <3>1
    <3>3. ASSUME NEW i \in 1..m PROVE v.records[i].key = s[i]
      <4>1. v.records[i] = [key |-> s[i], value |-> t[s[i]]]
        BY <2>5
      <4> QED BY <4>1
    <3> QED BY <2>2, <2>5, <3>2, <3>3
  <2>7. Built(add(v, k, x))
    BY <2>0, <2>3, <2>6, AddKeepsBuilt
  <2>8. add(v, k, x).records = Append(v.records, [key |-> k, value |-> x])
    BY DEF add
  <2>9. /\ Len(Append(v.records, [key |-> k, value |-> x])) = m + 1
        /\ \A i \in 1..m : Append(v.records, [key |-> k, value |-> x])[i] = v.records[i]
        /\ Append(v.records, [key |-> k, value |-> x])[m + 1] = [key |-> k, value |-> x]
    <3> DEFINE rec == [key |-> k, value |-> x]
    <3>1. rec \in Records
      BY DEF Records
    <3> HIDE DEF rec
    <3>2. /\ Len(Append(v.records, rec)) = m + 1
          /\ \A i \in 1..m : Append(v.records, rec)[i] = v.records[i]
          /\ Append(v.records, rec)[m + 1] = rec
      BY <2>5, <3>1, AppendProperties
    <3> QED BY <3>2 DEF rec
  <2>10. \A i \in 1..m + 1 : i \in 1..m \/ i = m + 1
    BY <2>1
  <2>11. Fits(m + 1)
    BY <2>2, <2>4, <2>5, <2>7, <2>8, <2>9, <2>10
  <2> HIDE DEF Fits
  <2> QED BY <2>1, <2>11
<1>5. Fits(n)
  <2>1. n \in S
    <3> HIDE DEF S
    <3> QED BY <1>1, <1>3, <1>4, UpTo
  <2> QED BY <2>1
<1>6. Readable(flush_file(t))
  BY <1>2, <1>5, FinishReads DEF Built
<1> DEFINE f == flush_file(t)
<1>7. /\ n \in Nat /\ f.records = w[n].records /\ DOMAIN f.records = 1..n
      /\ \A i \in 1..n : f.records[i].key = s[i] /\ f.records[i].value = t[s[i]]
  <2>1. f.records = w[n].records
    BY <1>2 DEF finish
  <2>2. w[n].records \in Seq(Records)
    BY <1>5 DEF Built, Readable
  <2>3. PICK r : r = w[n].records
    OBVIOUS
  <2>4. DOMAIN r = 1..n
    BY <1>5, <2>2, <2>3, LenProperties
  <2>5. \A i \in 1..n : r[i].key = s[i] /\ r[i].value = t[s[i]]
    <3> TAKE i \in 1..n
    <3>1. r[i] = [key |-> s[i], value |-> t[s[i]]]
      BY <1>5, <2>3
    <3> QED BY <3>1
  <2> QED BY <1>1, <2>1, <2>3, <2>4, <2>5
<1>8. f.records \in Seq(Records) /\ Ascending(f.records)
  BY <1>6 DEF Readable
<1> HIDE DEF f
<1>9. table_of(f) \in Table
  BY <1>8, TableOfRecords
<1>10. ASSUME NEW k \in Keys PROVE table_of(f)[k] = t[k]
  <2>1. CASE k \in Present(t)
    <3>1. PICK m \in 1..n : s[m] = k
      BY <1>1, <2>1
    <3>2. m \in DOMAIN f.records /\ f.records[m].key = k /\ f.records[m].value = t[k]
      BY <1>7, <3>1
    <3>3. table_of(f)[f.records[m].key] = f.records[m].value
      BY <1>8, <3>2, TableOfRecords
    <3> QED BY <3>2, <3>3
  <2>2. CASE k \notin Present(t)
    <3>1. t[k] = Absent
      BY <2>2 DEF Present
    <3>2. table_of(f)[k] # Absent => \E i \in 1..n : s[i] = k
      <4> SUFFICES ASSUME table_of(f)[k] # Absent PROVE \E i \in 1..n : s[i] = k
        OBVIOUS
      <4>1. PICK i \in DOMAIN f.records : f.records[i].key = k
        BY <1>8, TableOfRecords
      <4> QED BY <1>7, <4>1
    <3>3. \A i \in 1..n : t[s[i]] # Absent
      BY <1>1, TablesAssumption
    <3> QED BY <3>1, <3>2, <3>3
  <2> QED BY <2>1, <2>2
<1>11. table_of(f) = t
  BY <1>9, <1>10 DEF Table
<1> QED BY <1>6, <1>11 DEF f

\* Whatever a MemTable holds when it is flushed, the file holds it and nothing
\* else, and get_raw finds it there: SSTables may be taken for tables, as all
\* modules but SsTable and MergeLoop do.
THEOREM FlushedTableIsFound ==
    ASSUME NEW t \in Table, IsFiniteSet(Present(t))
    PROVE  /\ table_of(flush_file(t)) = t
           /\ \A k \in Keys : get_raw(flush_file(t), k) = t[k]
BY FlushIsReadable, LookupExact

-----------------------------------------------------------------------------
(***************************************************************************)
(* The invariant.                                                          *)
(***************************************************************************)

\* The sources whose next record is not in the heap although it may exist.
Waiting ==
    CASE stage = "count" -> Sources
      [] stage = "pull"  -> ToSet(pending)
      [] stage = "drain" -> ToSet(group.consumed)
      [] OTHER           -> {}

LoopTypes ==
    /\ \E n \in Nat : Sources = 1..n
    /\ rest \in [Sources -> Seq(Records)]
    /\ heap \subseteq [key : Keys, value : Values, source : Sources]
    /\ pending \in Seq(Sources)
    /\ group # NoGroup =>
         group \in [key : Keys, value : Values, source : Sources, consumed : Seq(Sources)]
    /\ writer.records \in Seq(Records)

\* Where the loop is fits what it holds.
StageFits ==
    /\ stage = "count" => heap = {} /\ group = NoGroup /\ writer.records = <<>>
    /\ stage = "drain" => group # NoGroup
    /\ group # NoGroup => stage \in {"drain", "pull"}

\* Each source is once in the heap or once among those to be pulled in, or
\* has no records left; what it has left is in order, behind its heap entry.
SourcesApart ==
    /\ \A e, f \in heap : e.source = f.source => e = f
    /\ \A e \in heap : e.source \notin Waiting
    /\ \A s \in Sources \ Waiting : rest[s] # <<>> => \E e \in heap : e.source = s
    /\ stage = "pull" => IsInjective(pending)
    /\ stage = "drain" => IsInjective(group.consumed)
    /\ \A s \in Sources : Ascending(rest[s])
    /\ \A e \in heap : \A j \in DOMAIN rest[e.source] : e.key < rest[e.source][j].key

\* k is below all that is in the heap, and all that is behind it.
BelowHeap(k) == \A e \in heap : k < e.key
BelowRest(k) == \A s \in Sources : \A j \in DOMAIN rest[s] : k < rest[s][j].key

\* What was written is below what is to come, the group in between.
KeysAscend ==
    /\ group = NoGroup =>
         \A i \in DOMAIN writer.records :
             BelowHeap(writer.records[i].key) /\ BelowRest(writer.records[i].key)
    /\ group # NoGroup =>
         /\ \A i \in DOMAIN writer.records : writer.records[i].key < group.key
         /\ BelowRest(group.key)
         /\ stage = "drain" => \A e \in heap : group.key <= e.key
         /\ stage = "pull" => BelowHeap(group.key)

LoopInv ==
    stage # "failed" => LoopTypes /\ StageFits /\ SourcesApart /\ KeysAscend

\* The keys of what the loop holds are integers.
LEMMA KeysAreIntegers ==
    ASSUME LoopTypes
    PROVE  /\ \A e \in heap : e.key \in Int /\ e.source \in Sources
           /\ \A s \in Sources : \A j \in DOMAIN rest[s] : rest[s][j].key \in Int
           /\ \A i \in DOMAIN writer.records : writer.records[i].key \in Int
           /\ group # NoGroup => group.key \in Int
<1>1. Keys \subseteq Int
  BY TablesAssumption
<1>2. ASSUME NEW r \in Seq(Records), NEW j \in DOMAIN r PROVE r[j].key \in Int
  <2>1. r[j] \in Records
    BY LenProperties, ElementOfSeq
  <2> QED BY <1>1, <2>1 DEF Records
<1>3. \A s \in Sources : rest[s] \in Seq(Records)
  BY DEF LoopTypes
<1> QED
  BY <1>1, <1>2, <1>3 DEF LoopTypes

\* Every input is a file that flush has left.
LEMMA InputsAreReadable ==
    ASSUME MergeInit
    PROVE  \A s \in Sources : Readable(inputs[s])
<1>1. PICK n \in 1..MaxSources : inputs \in [1..n -> {flush_file(t) : t \in Flushed}]
  BY DEF MergeInit
<1>2. \A t \in Flushed : Readable(flush_file(t))
  BY FlushIsReadable, MergeAssumption
<1> QED BY <1>1, <1>2 DEF Sources

\* It holds when merge_sstables begins.
LEMMA LoopInvInit ==
    ASSUME MergeInit
    PROVE  LoopInv
<1>1. PICK n \in 1..MaxSources : inputs \in [1..n -> {flush_file(t) : t \in Flushed}]
  BY DEF MergeInit
<1>2. \A s \in Sources : inputs[s].records \in Seq(Records) /\ Ascending(inputs[s].records)
  BY InputsAreReadable DEF Readable
<1>3. /\ stage = "count" /\ heap = {} /\ group = NoGroup /\ pending = <<>>
      /\ writer.records = <<>>
      /\ rest = [s \in Sources |-> inputs[s].records]
  BY DEF MergeInit, new_writer
<1>4. LoopTypes
  <2>1. n \in Nat /\ Sources = 1..n
    BY <1>1, MergeAssumption DEF Sources
  <2> QED BY <1>2, <1>3, <2>1, EmptySeq DEF LoopTypes
<1>5. SourcesApart
  <2>1. Waiting = Sources
    BY <1>3 DEF Waiting
  <2> QED BY <1>2, <1>3, <2>1 DEF SourcesApart
<1>6. StageFits /\ KeysAscend
  BY <1>3 DEF StageFits, KeysAscend
<1> QED BY <1>4, <1>5, <1>6 DEF LoopInv

-----------------------------------------------------------------------------
(***************************************************************************)
(* One lemma per step of the loop.                                         *)
(***************************************************************************)
Holds == stage # "failed" /\ LoopTypes /\ StageFits /\ SourcesApart /\ KeysAscend

\* Every source waits for its first record.
LEMMA CountKeeps ==
    ASSUME Holds, count_keys
    PROVE  LoopInv'
<1>n. PICK n \in Nat : Sources = 1..n
  BY DEF Holds, LoopTypes
<1>1. /\ stage = "count" /\ stage' = "pull"
      /\ heap = {} /\ heap' = {} /\ group = NoGroup /\ group' = NoGroup
      /\ rest' = rest /\ Sources' = Sources
      /\ pending' = [s \in Sources |-> s]
  BY DEF Holds, StageFits, count_keys, Sources
<1>0. writer'.records = <<>>
  <2>1. \A x : new_writer(x).records = <<>>
    BY DEF new_writer
  <2>2. \E x : writer' = new_writer(x)
    BY Zenon DEF count_keys
  <2> QED BY <2>1, <2>2
<1>2. pending' \in Seq(Sources)
  BY <1>1, <1>n, SeqDef
<1>3. ToSet(pending') = Sources /\ IsInjective(pending')
  BY <1>1 DEF ToSet, IsInjective
<1>4. Waiting' = Sources
  BY <1>1, <1>3 DEF Waiting
<1>5. LoopTypes'
  BY <1>0, <1>1, <1>2, EmptySeq DEF Holds, LoopTypes
<1>6. StageFits'
  BY <1>0, <1>1 DEF StageFits
<1>7. SourcesApart'
  BY <1>1, <1>3, <1>4 DEF Holds, SourcesApart
<1>8. KeysAscend'
  BY <1>0, <1>1 DEF KeysAscend
<1> QED BY <1>5, <1>6, <1>7, <1>8 DEF LoopInv

\* The heap gets the head of one waiting source, if there is one.
LEMMA PullKeeps ==
    ASSUME Holds, pull
    PROVE  LoopInv'
<1> DEFINE s == Head(pending)
<1>1. /\ stage = "pull" /\ stage' = "pull" /\ pending # <<>>
      /\ pending' = Tail(pending) /\ pending \in Seq(Sources) /\ IsInjective(pending)
      /\ group' = group /\ writer' = writer /\ Sources' = Sources
  BY DEF Holds, pull, LoopTypes, SourcesApart, Sources
<1>2. /\ s \in Sources /\ s \in Waiting
      /\ pending' \in Seq(Sources) /\ IsInjective(pending')
      /\ Waiting' = Waiting \ {s}
  BY <1>1, HeadLeaves DEF Waiting
<1>3. /\ rest \in [Sources -> Seq(Records)]
      /\ \A t \in Sources : Ascending(rest[t])
      /\ \A e \in heap : e.source \in Sources \ Waiting
  BY DEF Holds, LoopTypes, SourcesApart
<1> DEFINE old == rest[s]
<1>4. CASE old # <<>> /\ heap' = heap \cup {Entry(s)} /\ rest' = [rest EXCEPT ![s] = Tail(@)]
  <2> DEFINE new == Entry(s)
  <2>1. /\ new.key = Head(old).key /\ new.value = Head(old).value /\ new.source = s
        /\ new \in [key : Keys, value : Values, source : Sources]
        /\ Tail(old) \in Seq(Records) /\ Ascending(Tail(old))
        /\ \A j \in DOMAIN Tail(old) : new.key < Tail(old)[j].key
    BY <1>2, <1>3, <1>4, HeadIsLeast DEF Entry
  <2>2. \A k \in Int : BelowRest(k) => k < new.key /\ BelowRest(k)'
    <3> SUFFICES ASSUME NEW k \in Int, BelowRest(k)
                 PROVE  k < new.key /\ BelowRest(k)'
      OBVIOUS
    <3>1. k < new.key /\ \A j \in DOMAIN Tail(old) : k < Tail(old)[j].key
      BY <1>2, <1>3, <1>4, <2>1, HeadIsLeast DEF BelowRest
    <3> QED BY <3>1, <1>1, <1>2, <1>3, <1>4 DEF BelowRest
  <2> HIDE DEF new, old
  <2>3. heap' = heap \cup {new}
    BY <1>4 DEF new
  <2>4. /\ rest' \in [Sources -> Seq(Records)] /\ rest'[s] = Tail(old)
        /\ \A t \in Sources \ {s} : rest'[t] = rest[t]
    BY <1>2, <1>3, <1>4, <2>1 DEF old
  <2> HIDE DEF s
  <2>5. LoopTypes'
    BY <1>1, <1>2, <2>1, <2>3, <2>4 DEF Holds, LoopTypes
  <2>6. StageFits'
    BY <1>1 DEF Holds, StageFits
  <2>7. SourcesApart'
    <3>1. \A e, f \in heap' : e.source = f.source => e = f
      BY <1>2, <1>3, <2>1, <2>3 DEF Holds, SourcesApart
    <3>2. \A e \in heap' : e.source \notin Waiting'
      BY <1>2, <1>3, <2>1, <2>3
    <3>3. \A t \in Sources \ Waiting' : rest'[t] # <<>> => \E e \in heap' : e.source = t
      BY <1>2, <2>1, <2>3, <2>4 DEF Holds, SourcesApart
    <3>4. \A t \in Sources : Ascending(rest'[t])
      BY <1>3, <2>1, <2>4
    <3>5. \A e \in heap' : \A j \in DOMAIN rest'[e.source] : e.key < rest'[e.source][j].key
      <4> SUFFICES ASSUME NEW e \in heap'
                   PROVE  \A j \in DOMAIN rest'[e.source] : e.key < rest'[e.source][j].key
        OBVIOUS
      <4>1. CASE e = new
        BY <4>1, <2>1, <2>4
      <4>2. CASE e \in heap
        <5>1. e.source \in Sources \ {s}
          BY <4>2, <1>2, <1>3
        <5> QED BY <5>1, <4>2, <2>4 DEF Holds, SourcesApart
      <4> QED BY <4>1, <4>2, <2>3
    <3> QED BY <3>1, <3>2, <3>3, <3>4, <3>5, <1>1, <1>2 DEF SourcesApart
  <2>8. KeysAscend'
    BY <1>1, <2>2, <2>3, KeysAreIntegers DEF Holds, KeysAscend, BelowHeap
  <2> QED BY <2>5, <2>6, <2>7, <2>8 DEF LoopInv
<1>5. CASE heap' = heap /\ rest' \in [Sources -> Seq(Records)] /\ rest'[s] = <<>>
           /\ \A t \in Sources \ {s} : rest'[t] = rest[t]
  <2> HIDE DEF s, old
  <2>1. \A j : j \notin DOMAIN <<>>
    OBVIOUS
  <2>2. \A t \in Sources : rest'[t] = rest[t] \/ rest'[t] = <<>>
    BY <1>5
  <2>3. LoopTypes' /\ StageFits'
    BY <1>1, <1>2, <1>5 DEF Holds, LoopTypes, StageFits
  <2>4. SourcesApart'
    <3>1. \A t \in Sources : Ascending(rest'[t])
      BY <1>3, <2>1, <2>2 DEF Ascending
    <3>2. \A e \in heap' : \A j \in DOMAIN rest'[e.source] : e.key < rest'[e.source][j].key
      BY <1>3, <1>5, <2>1, <2>2 DEF Holds, SourcesApart
    <3>3. \A t \in Sources \ Waiting' : rest'[t] # <<>> => \E e \in heap' : e.source = t
      BY <1>2, <1>5 DEF Holds, SourcesApart
    <3> QED BY <1>1, <1>2, <1>5, <3>1, <3>2, <3>3 DEF Holds, SourcesApart
  <2>5. \A k : BelowRest(k) => BelowRest(k)'
    BY <1>1, <2>1, <2>2 DEF BelowRest
  <2>6. KeysAscend'
    BY <1>1, <1>5, <2>5 DEF Holds, KeysAscend, BelowHeap
  <2> QED BY <2>3, <2>4, <2>6 DEF LoopInv
<1>6. \/ old # <<>> /\ heap' = heap \cup {Entry(s)} /\ rest' = [rest EXCEPT ![s] = Tail(@)]
      \/ heap' = heap /\ rest' = rest /\ old = <<>>
      \/ heap' = heap /\ rest' = [rest EXCEPT ![s] = <<>>]
  BY DEF pull
<1> QED
  <2>1. <<>> \in Seq(Records)
    BY EmptySeq
  <2> QED BY <1>2, <1>3, <1>4, <1>5, <1>6, <2>1

\* What a finished group leaves is written behind all that was written.
LEMMA WriteKeeps ==
    ASSUME Holds, write_group
    PROVE  LoopInv'
<1>1. /\ stage = "pull" /\ stage' = "pop" /\ pending = <<>>
      /\ group' = NoGroup /\ heap' = heap /\ rest' = rest /\ pending' = pending
      /\ Sources' = Sources
  BY DEF write_group, Sources
<1>2. Waiting = {} /\ Waiting' = {}
  BY <1>1 DEF Waiting, ToSet
<1>3. \/ writer' = writer
      \/ /\ group # NoGroup
         /\ writer'.records = Append(writer.records, [key |-> group.key, value |-> group.value])
  <2>1. add(writer, group.key, group.value).records
          = Append(writer.records, [key |-> group.key, value |-> group.value])
    BY DEF add
  <2> QED BY <2>1 DEF write_group
<1>4. /\ writer.records \in Seq(Records)
      /\ group # NoGroup => group.key \in Keys /\ group.value \in Values
  BY DEF Holds, LoopTypes
<1>5. /\ writer'.records \in Seq(Records)
      /\ \A i \in DOMAIN writer'.records :
            \/ i \in DOMAIN writer.records /\ writer'.records[i] = writer.records[i]
            \/ group # NoGroup /\ writer'.records[i].key = group.key
  <2>1. CASE writer' = writer
    BY <2>1, <1>4
  <2>2. CASE /\ group # NoGroup
             /\ writer'.records
                  = Append(writer.records, [key |-> group.key, value |-> group.value])
    <3> DEFINE r == [key |-> group.key, value |-> group.value]
               w == writer.records
    <3>1. r \in Records /\ r.key = group.key
      BY <1>4, <2>2 DEF Records
    <3> HIDE DEF r
    <3>2. /\ Append(w, r) \in Seq(Records) /\ DOMAIN w = 1..Len(w) /\ Len(w) \in Nat
          /\ DOMAIN Append(w, r) = 1..Len(w) + 1
          /\ \A i \in 1..Len(w) : Append(w, r)[i] = w[i]
          /\ Append(w, r)[Len(w) + 1] = r
      BY <1>4, <3>1, AppendProperties, LenProperties
    <3>3. \A i \in 1..Len(w) + 1 : i \in 1..Len(w) \/ i = Len(w) + 1
      BY <3>2
    <3>4. writer'.records = Append(w, r)
      BY <2>2 DEF r
    <3> QED BY <2>2, <3>1, <3>2, <3>3, <3>4
  <2> QED BY <1>3, <2>1, <2>2
<1>6. LoopTypes'
  BY <1>1, <1>5 DEF Holds, LoopTypes
<1>7. StageFits'
  BY <1>1 DEF StageFits
<1>8. SourcesApart'
  BY <1>1, <1>2 DEF Holds, SourcesApart
<1>9. KeysAscend'
  <2>1. group # NoGroup => BelowRest(group.key) /\ BelowHeap(group.key)
    BY <1>1 DEF Holds, KeysAscend
  <2>2. ASSUME NEW i \in DOMAIN writer.records
        PROVE  BelowHeap(writer.records[i].key) /\ BelowRest(writer.records[i].key)
    <3>1. CASE group = NoGroup
      BY <3>1 DEF Holds, KeysAscend
    <3>2. CASE group # NoGroup
      <4>1. writer.records[i].key < group.key
        BY <3>2 DEF Holds, KeysAscend
      <4> QED BY <3>2, <2>1, <4>1, KeysAreIntegers DEF Holds, BelowHeap, BelowRest
    <3> QED BY <3>1, <3>2
  <2>3. ASSUME NEW i \in DOMAIN writer'.records
        PROVE  /\ \A e \in heap : writer'.records[i].key < e.key
               /\ \A s \in Sources : \A j \in DOMAIN rest[s] :
                      writer'.records[i].key < rest[s][j].key
    <3>1. CASE i \in DOMAIN writer.records /\ writer'.records[i] = writer.records[i]
      BY <3>1, <2>2 DEF BelowHeap, BelowRest
    <3>2. CASE group # NoGroup /\ writer'.records[i].key = group.key
      BY <3>2, <2>1 DEF BelowHeap, BelowRest
    <3> QED BY <3>1, <3>2, <1>5
  <2> QED BY <1>1, <2>3 DEF KeysAscend, BelowHeap, BelowRest
<1> QED BY <1>1, <1>6, <1>7, <1>8, <1>9 DEF LoopInv

\* The entry popped begins a group; its source waits.
LEMMA PopKeeps ==
    ASSUME Holds, pop_first
    PROVE  LoopInv'
<1>1. /\ stage = "pop" /\ stage' = "drain" /\ group = NoGroup
      /\ rest' = rest /\ pending' = pending /\ writer' = writer /\ Sources' = Sources
  BY DEF Holds, StageFits, pop_first, Sources
<1>2. PICK e \in Top :
        /\ group' = [key |-> e.key, value |-> e.value, source |-> e.source,
                     consumed |-> <<e.source>>]
        /\ heap' = heap \ {e}
  BY DEF pop_first
<1>3. /\ e \in heap /\ \A f \in heap : e.key <= f.key
      /\ e.key \in Keys /\ e.value \in Values /\ e.source \in Sources
  BY <1>2 DEF Top, Holds, LoopTypes
<1>4. /\ <<e.source>> \in Seq(Sources) /\ IsInjective(<<e.source>>)
      /\ ToSet(<<e.source>>) = {e.source} /\ <<e.source>> # <<>>
  BY <1>3 DEF IsInjective, ToSet
<1>5. /\ group'.key = e.key /\ group'.consumed = <<e.source>> /\ group' # NoGroup
      /\ group' \in [key : Keys, value : Values, source : Sources, consumed : Seq(Sources)]
  <2>1. group'.consumed # NoGroup.consumed
    BY <1>2, <1>4 DEF NoGroup
  <2> QED BY <1>2, <1>3, <1>4, <2>1
<1>6. Waiting = {} /\ Waiting' = {e.source}
  BY <1>1, <1>4, <1>5 DEF Waiting
<1>7. LoopTypes'
  BY <1>1, <1>2, <1>5 DEF Holds, LoopTypes
<1>8. StageFits'
  BY <1>1, <1>5 DEF StageFits
<1>9. SourcesApart'
  <2>1. \A f \in heap' : f.source \notin Waiting'
    BY <1>2, <1>3, <1>6 DEF Holds, SourcesApart
  <2>2. \A s \in Sources \ Waiting' : rest'[s] # <<>> => \E f \in heap' : f.source = s
    BY <1>1, <1>2, <1>6 DEF Holds, SourcesApart
  <2>3. \A f \in heap' : f \in heap
    BY <1>2
  <2> QED BY <1>1, <1>4, <1>5, <2>1, <2>2, <2>3 DEF Holds, SourcesApart
<1>10. KeysAscend'
  <2>1. BelowRest(e.key)
    <3> SUFFICES ASSUME NEW s \in Sources, NEW j \in DOMAIN rest[s]
                 PROVE  e.key < rest[s][j].key
      BY DEF BelowRest
    <3>1. rest[s] # <<>>
      OBVIOUS
    <3>2. PICK f \in heap : f.source = s
      BY <1>6, <3>1 DEF Holds, SourcesApart
    <3>3. e.key <= f.key /\ f.key < rest[s][j].key
      BY <1>3, <3>2 DEF Holds, SourcesApart
    <3> QED BY <3>2, <3>3, <1>3, KeysAreIntegers DEF Holds
  <2>2. \A i \in DOMAIN writer.records : writer.records[i].key < e.key
    BY <1>1, <1>3 DEF Holds, KeysAscend, BelowHeap
  <2>3. \A f \in heap' : e.key <= f.key
    BY <1>2, <1>3
  <2> QED BY <1>1, <1>5, <2>1, <2>2, <2>3 DEF KeysAscend, BelowRest
<1> QED BY <1>1, <1>7, <1>8, <1>9, <1>10 DEF LoopInv

\* Another entry of the group's key is taken; its source waits too.
LEMMA DrainKeeps ==
    ASSUME Holds, drain_equal
    PROVE  LoopInv'
<1>1. /\ stage = "drain" /\ stage' = "drain" /\ group # NoGroup
      /\ rest' = rest /\ pending' = pending /\ writer' = writer /\ Sources' = Sources
  BY DEF Holds, StageFits, drain_equal, Sources
<1>2. PICK e \in Top :
        /\ e.key = group.key
        /\ group' = IF Better(e)
                    THEN [group EXCEPT !.value = e.value, !.source = e.source,
                                       !.consumed = Consumed(e)]
                    ELSE [group EXCEPT !.consumed = Consumed(e)]
        /\ heap' = heap \ {e}
  BY DEF drain_equal, Drained
<1>3. /\ e \in heap /\ e.value \in Values /\ e.source \in Sources
      /\ group \in [key : Keys, value : Values, source : Sources, consumed : Seq(Sources)]
      /\ IsInjective(group.consumed)
      /\ Waiting = ToSet(group.consumed)
      /\ e.source \notin Waiting
  BY <1>1, <1>2 DEF Top, Holds, LoopTypes, SourcesApart, Waiting
<1> DEFINE c == Append(group.consumed, e.source)
<1>4. /\ c \in Seq(Sources) /\ IsInjective(c) /\ c # <<>>
      /\ ToSet(c) = Waiting \cup {e.source}
  BY <1>3, AppendJoins
<1> HIDE DEF c
<1>5. Consumed(e) = c
  BY DEF Consumed, c
<1>6. /\ group'.key = group.key /\ group'.consumed = c /\ group' # NoGroup
      /\ group' \in [key : Keys, value : Values, source : Sources, consumed : Seq(Sources)]
  <2>1. /\ group'.key = group.key /\ group'.consumed = c
        /\ group' \in [key : Keys, value : Values, source : Sources, consumed : Seq(Sources)]
    BY <1>2, <1>3, <1>4, <1>5
  <2>2. group'.consumed # NoGroup.consumed
    BY <2>1, <1>4 DEF NoGroup
  <2> QED BY <2>1, <2>2
<1>7. Waiting' = Waiting \cup {e.source}
  BY <1>1, <1>4, <1>6 DEF Waiting
<1>8. LoopTypes'
  BY <1>1, <1>2, <1>6 DEF Holds, LoopTypes
<1>9. StageFits'
  BY <1>1, <1>6 DEF StageFits
<1>10. SourcesApart'
  <2>1. \A f \in heap' : f.source \notin Waiting'
    BY <1>2, <1>3, <1>7 DEF Holds, SourcesApart
  <2>2. \A s \in Sources \ Waiting' : rest'[s] # <<>> => \E f \in heap' : f.source = s
    BY <1>1, <1>2, <1>7 DEF Holds, SourcesApart
  <2>3. \A f \in heap' : f \in heap
    BY <1>2
  <2> QED BY <1>1, <1>4, <1>6, <2>1, <2>2, <2>3 DEF Holds, SourcesApart
<1>11. KeysAscend'
  <2>1. \A f \in heap' : f \in heap
    BY <1>2
  <2> QED BY <1>1, <1>6, <2>1 DEF Holds, KeysAscend, BelowRest
<1> QED BY <1>1, <1>8, <1>9, <1>10, <1>11 DEF LoopInv

\* With no more entries of its key the group's sources are pulled in.
LEMMA DrainDoneKeeps ==
    ASSUME Holds, drain_done
    PROVE  LoopInv'
<1>1. /\ stage = "drain" /\ stage' = "pull" /\ group # NoGroup
      /\ group' = group /\ heap' = heap /\ pending' = group.consumed
      /\ rest' = rest /\ writer' = writer /\ Sources' = Sources
      /\ \A e \in Top : e.key # group.key
  BY DEF Holds, StageFits, drain_done, Sources
<1>2. Waiting' = Waiting
  BY <1>1 DEF Waiting
<1>3. LoopTypes' /\ StageFits'
  BY <1>1 DEF Holds, LoopTypes, StageFits
<1>4. SourcesApart'
  BY <1>1, <1>2 DEF Holds, SourcesApart
<1>5. BelowHeap(group.key)
  <2> SUFFICES ASSUME NEW e \in heap, ~(group.key < e.key)
               PROVE  FALSE
    BY DEF BelowHeap
  <2>1. e.key = group.key /\ \A f \in heap : e.key <= f.key
    BY <1>1, KeysAreIntegers DEF Holds, KeysAscend
  <2>2. e \in Top
    BY <2>1 DEF Top
  <2> QED BY <1>1, <2>1, <2>2
<1>6. KeysAscend'
  BY <1>1, <1>5 DEF Holds, KeysAscend, BelowHeap, BelowRest
<1> QED BY <1>1, <1>3, <1>4, <1>6 DEF LoopInv

\* Every step of the merge keeps the invariant.
LEMMA LoopInvInductive ==
    ASSUME LoopInv, [MergeNext]_mergeVars
    PROVE  LoopInv'
<1>1. CASE stage = "failed"
  <2>1. stage' = "failed"
    BY <1>1 DEF MergeNext, count_keys, pull, write_group, pop_first, drain_equal,
                drain_done, finish_merge, merge_error, mergeVars
  <2> QED BY <2>1 DEF LoopInv
<1>2. CASE Holds
  <2>1. CASE count_keys
    BY <1>2, <2>1, CountKeeps
  <2>2. CASE pull
    BY <1>2, <2>2, PullKeeps
  <2>3. CASE write_group
    BY <1>2, <2>3, WriteKeeps
  <2>4. CASE pop_first
    BY <1>2, <2>4, PopKeeps
  <2>5. CASE drain_equal
    BY <1>2, <2>5, DrainKeeps
  <2>6. CASE drain_done
    BY <1>2, <2>6, DrainDoneKeeps
  <2>7. CASE finish_merge
    <3>1. /\ stage = "pop" /\ stage' = "done"
          /\ UNCHANGED <<inputs, rest, heap, group, pending, writer>>
      BY <2>7 DEF finish_merge
    <3>2. Waiting' = Waiting /\ Sources' = Sources
      BY <3>1 DEF Waiting, Sources
    <3>3. LoopTypes' /\ StageFits'
      BY <1>2, <3>1, <3>2 DEF Holds, LoopTypes, StageFits
    <3>4. SourcesApart'
      BY <1>2, <3>1, <3>2 DEF Holds, SourcesApart
    <3>5. KeysAscend'
      BY <1>2, <3>1, <3>2 DEF Holds, StageFits, KeysAscend, BelowHeap, BelowRest
    <3> QED BY <3>3, <3>4, <3>5 DEF LoopInv
  <2>8. CASE merge_error
    BY <2>8 DEF merge_error, LoopInv
  <2>9. CASE UNCHANGED mergeVars
    BY <1>2, <2>9 DEF mergeVars, Holds, LoopInv, LoopTypes, StageFits, SourcesApart,
                      KeysAscend, BelowHeap, BelowRest, Waiting, Sources
  <2> QED
    BY <2>1, <2>2, <2>3, <2>4, <2>5, <2>6, <2>7, <2>8, <2>9 DEF MergeNext
<1> QED BY <1>1, <1>2 DEF LoopInv, Holds

\* What the invariant says of the moment the heap is popped.
LEMMA LoopInvGivesHeads ==
    ASSUME LoopInv
    PROVE  HeapHoldsHeads
<1> SUFFICES ASSUME stage = "pop"
             PROVE  /\ \A s \in Sources :
                         /\ Cardinality({e \in heap : e.source = s}) <= 1
                         /\ rest[s] # <<>> => \E e \in heap : e.source = s
                    /\ \A i \in DOMAIN writer.records :
                         /\ \A e \in heap : writer.records[i].key < e.key
                         /\ \A s \in Sources : \A j \in DOMAIN rest[s] :
                                writer.records[i].key < rest[s][j].key
  BY DEF HeapHoldsHeads
<1>1. Waiting = {} /\ group = NoGroup /\ SourcesApart /\ KeysAscend
  BY DEF LoopInv, StageFits, Waiting
<1>2. ASSUME NEW s \in Sources
      PROVE  Cardinality({e \in heap : e.source = s}) <= 1
  <2> DEFINE H == {e \in heap : e.source = s}
  <2>1. CASE H = {}
    BY <2>1, FS_EmptySet
  <2>2. ASSUME NEW e \in H
        PROVE  Cardinality(H) <= 1
    <3>1. H = {e}
      BY <2>2, <1>1 DEF SourcesApart
    <3>2. Cardinality({e}) = 1
      BY FS_Singleton
    <3> QED BY <3>1, <3>2
  <2> QED BY <2>1, <2>2
<1> QED BY <1>1, <1>2 DEF SourcesApart, KeysAscend, BelowHeap, BelowRest

-----------------------------------------------------------------------------
\* At every pop the heap holds the head of every source that has records
\* left, once, and what was written lies below all that is to come: for any
\* number of inputs, any order among equal keys and any reads that fail.
THEOREM HeapHoldsHeadsAlways == MergeSpec => []HeapHoldsHeads
<1>1. MergeInit => LoopInv
  BY LoopInvInit
<1>2. LoopInv /\ [MergeNext]_mergeVars => LoopInv'
  BY LoopInvInductive
<1>3. LoopInv => HeapHoldsHeads
  BY LoopInvGivesHeads
<1> QED BY <1>1, <1>2, <1>3, PTL DEF MergeSpec

-----------------------------------------------------------------------------
(***************************************************************************)
(* Types, in a merge that failed too.                                      *)
(***************************************************************************)
\* The type invariant, made inductive: unlike LoopInv it speaks of the merge
\* that failed too.
TypesInv ==
    /\ LoopTypes
    /\ group # NoGroup => IsInjective(group.consumed)
    /\ stage \in {"count", "pull", "pop", "drain", "done", "failed"}
    /\ faults \in 0..MaxFaults /\ short \in BOOLEAN

\* Where the merge has not failed LoopInv gives the types; failing changes
\* none of them.
LEMMA TypesKept ==
    ASSUME LoopInv, LoopInv', TypesInv, [MergeNext]_mergeVars
    PROVE  TypesInv'
<1>0. stage' \in {"count", "pull", "pop", "drain", "done", "failed"}
  BY DEF TypesInv, MergeNext, mergeVars, count_keys, pull, write_group, pop_first,
         drain_equal, drain_done, finish_merge, merge_error
<1>1. faults' \in 0..MaxFaults /\ short' \in BOOLEAN
  <2>0. read_ok \/ short_read \/ merge_error \/ UNCHANGED <<faults, short>>
    <3>1. count_keys => read_ok \/ short_read
      BY Zenon DEF count_keys
    <3>2. pull => read_ok \/ short_read
      BY Zenon DEF pull
    <3> QED
      BY <3>1, <3>2 DEF MergeNext, mergeVars, write_group, pop_first, drain_equal,
                        drain_done, finish_merge
  <2>1. faults' = faults \/ (faults < MaxFaults /\ faults' = faults + 1)
    BY <2>0 DEF short_read, read_ok, merge_error
  <2>2. MaxFaults \in Nat
    BY MergeAssumption
  <2>3. faults' \in 0..MaxFaults
    BY <2>1, <2>2 DEF TypesInv
  <2>4. short' \in BOOLEAN
    BY <2>0, Zenon DEF short_read, read_ok, merge_error, TypesInv
  <2> QED BY <2>3, <2>4
<1>2. CASE stage' = "failed"
  <2>1. UNCHANGED <<inputs, rest, heap, group, pending, writer>>
    BY <1>2 DEF MergeNext, mergeVars, count_keys, pull, write_group, pop_first,
                drain_equal, drain_done, finish_merge, merge_error
  <2> QED BY <1>0, <1>1, <2>1 DEF TypesInv, LoopTypes, Sources
<1>3. CASE stage' # "failed"
  <2>1. LoopTypes'
    BY <1>3 DEF LoopInv
  <2>2. (group # NoGroup => IsInjective(group.consumed))'
    <3>1. CASE stage' = "drain"
      BY <1>3, <3>1 DEF LoopInv, SourcesApart
    <3>2. CASE stage' # "drain"
      <4>1. group' = group \/ group' = NoGroup
        BY <3>2 DEF MergeNext, mergeVars, count_keys, pull, write_group, pop_first,
                    drain_equal, drain_done, finish_merge, merge_error
      <4> QED BY <4>1 DEF TypesInv
    <3> QED BY <3>1, <3>2
  <2> QED BY <1>0, <1>1, <2>1, <2>2 DEF TypesInv
<1> QED BY <1>2, <1>3

\* They are the types that a run checks.
LEMMA TypesGiveTypeOK ==
    ASSUME TypesInv
    PROVE  MergeTypeOK
<1>1. \A p \in Seq(Sources) : ToSet(p) \subseteq Sources
  <2> SUFFICES ASSUME NEW p \in Seq(Sources), NEW i \in DOMAIN p
               PROVE  p[i] \in Sources
    BY DEF ToSet
  <2> QED BY LenProperties, ElementOfSeq
<1>2. group # NoGroup =>
        /\ group.key \in Keys /\ group.value \in Values /\ group.source \in Sources
        /\ IsInjective(group.consumed) /\ ToSet(group.consumed) \subseteq Sources
  <2> SUFFICES ASSUME group # NoGroup
               PROVE  /\ group.key \in Keys /\ group.value \in Values
                      /\ group.source \in Sources
                      /\ IsInjective(group.consumed)
                      /\ ToSet(group.consumed) \subseteq Sources
    OBVIOUS
  <2>1. group \in [key : Keys, value : Values, source : Sources, consumed : Seq(Sources)]
    BY DEF TypesInv, LoopTypes
  <2> QED BY <1>1, <2>1 DEF TypesInv
<1> QED BY <1>1, <1>2 DEF TypesInv, LoopTypes, MergeTypeOK

\* Every variable of the merge keeps its type, also after a failure, and no
\* source is pulled in twice for one group of equal keys.
THEOREM MergeTypesAlways == MergeSpec => []MergeTypeOK
<1>1. MergeInit => LoopInv /\ TypesInv
  <2> SUFFICES ASSUME MergeInit
               PROVE  LoopInv /\ TypesInv
    OBVIOUS
  <2>1. LoopInv
    BY LoopInvInit
  <2>2. stage = "count" /\ group = NoGroup
    BY DEF MergeInit
  <2>3. LoopTypes
    BY <2>1, <2>2 DEF LoopInv
  <2>4. faults \in 0..MaxFaults
    BY MergeAssumption DEF MergeInit
  <2>5. short \in BOOLEAN
    BY Zenon DEF MergeInit
  <2> QED BY <2>1, <2>2, <2>3, <2>4, <2>5 DEF TypesInv
<1>2. LoopInv /\ TypesInv /\ [MergeNext]_mergeVars => LoopInv' /\ TypesInv'
  BY LoopInvInductive, TypesKept
<1>3. TypesInv => MergeTypeOK
  BY TypesGiveTypeOK
<1> QED BY <1>1, <1>2, <1>3, PTL DEF MergeSpec

-----------------------------------------------------------------------------
(***************************************************************************)
(* What the loop has read, and what it has written of it.                  *)
(***************************************************************************)
\* A key behind which the loop has passed: all that is to come is above it.
Passed(k) == BelowHeap(k) /\ BelowRest(k) /\ (group # NoGroup => k < group.key)

Whole == [s \in Sources |-> table_of(inputs[s])]

\* v[s] is what source s returns: all its records or those below some key.
Scanned(v) ==
    /\ v \in [Sources -> Table]
    /\ \A s \in Sources : v[s] = Whole[s] \/ v[s] \in Cuts(Whole[s])
    /\ ~short => v = Whole

\* Whether source s has the record of k in front of the writer still.
Held(s, k) ==
    \/ \E e \in heap : e.source = s /\ e.key = k
    \/ \E j \in DOMAIN rest[s] : rest[s][j].key = k
    \/ group # NoGroup /\ group.key = k /\ s \in ToSet(group.consumed)

\* The heap, the iterators and the group hold records of v, and all of those
\* that the loop has not passed; of its key's records the group has the first.
Ahead(v) ==
    /\ \A e \in heap : v[e.source][e.key] = e.value
    /\ \A s \in Sources : \A j \in DOMAIN rest[s] :
          v[s][rest[s][j].key] = rest[s][j].value
    /\ group # NoGroup =>
         /\ v[group.source][group.key] = group.value
         /\ \A s \in ToSet(group.consumed) : group.source <= s
    /\ \A s \in Sources, k \in Keys : v[s][k] # Absent => Passed(k) \/ Held(s, k)

\* Of the keys passed the writer has what the merge of v has.
Written(v) ==
    \A k \in Keys : Passed(k) =>
        /\ \A i \in DOMAIN writer.records :
              writer.records[i].key = k =>
                  writer.records[i].value = merge_sstables(v)[k]
        /\ merge_sstables(v)[k] # Absent =>
              \E i \in DOMAIN writer.records : writer.records[i].key = k

Merging(v) == Scanned(v) /\ Ahead(v) /\ Written(v)

\* Cutting a scan short leaves a scan that was cut short.
LEMMA CutsOfScans ==
    ASSUME NEW t \in Table, NEW w, w = t \/ w \in Cuts(t),
           NEW x \in Keys, w[x] # Absent,
           NEW u, u = [k \in Keys |-> IF k < x THEN w[k] ELSE Absent]
    PROVE  u \in Table /\ u \in Cuts(t)
<1>1. PICK c \in [Keys -> Values \cup {Absent}] : c = u
  <2>1. \A k \in Keys : w[k] \in Values \cup {Absent}
    BY DEF Table, Cuts
  <2> QED BY <2>1
<1>2. x \in Present(t) /\ u = [k \in Keys |-> IF k < x THEN t[k] ELSE Absent]
  <2>1. CASE w = t
    BY <2>1 DEF Present
  <2>2. CASE w \in Cuts(t)
    <3>1. PICK y \in Present(t) : w = [k \in Keys |-> IF k < y THEN t[k] ELSE Absent]
      BY <2>2 DEF Cuts
    <3>2. x < y /\ t[x] # Absent
      BY <3>1
    <3>3. \A k \in Keys : k < x => k < y
      BY <3>1, <3>2, TablesAssumption DEF Present
    <3>4. \A k \in Keys : (IF k < x THEN w[k] ELSE Absent) = (IF k < x THEN t[k] ELSE Absent)
      BY <3>1, <3>3
    <3> QED BY <3>2, <3>4 DEF Present
  <2> QED BY <2>1, <2>2
<1> QED BY <1>1, <1>2 DEF Table, Cuts

\* A merge has no record of a key that none of its tables has.
LEMMA MergeOfNone ==
    ASSUME NEW n \in Nat, NEW v \in [1..n -> Table], NEW k \in Keys,
           \A s \in 1..n : v[s][k] = Absent
    PROVE  merge_sstables(v)[k] = Absent
<1>1. v \in Seq(Table) /\ DOMAIN v = 1..n
  BY SeqDef
<1> QED BY <1>1, MergeRecords

\* It answers with the record of the first table that has one.
LEMMA MergeOfFirst ==
    ASSUME NEW n \in Nat, NEW v \in [1..n -> Table], NEW k \in Keys, NEW s \in 1..n,
           v[s][k] # Absent, \A t \in 1..n : t < s => v[t][k] = Absent
    PROVE  merge_sstables(v)[k] = Answer(v[s][k])
<1>1. v \in Seq(Table) /\ DOMAIN v = 1..n
  BY SeqDef
<1>2. FirstRecord(v, k) = v[s][k]
  BY <1>1, FirstRecordAt
<1> QED BY <1>2 DEF merge_sstables

\* Tables that agree on a key have the same record of it in their merge.
LEMMA MergeOfSame ==
    ASSUME NEW n \in Nat, NEW v \in [1..n -> Table], NEW w \in [1..n -> Table],
           NEW k \in Keys, \A s \in 1..n : v[s][k] = w[s][k]
    PROVE  merge_sstables(v)[k] = merge_sstables(w)[k]
<1> DEFINE R == {s \in 1..n : v[s][k] # Absent}
<1>1. CASE R = {}
  <2>1. \A s \in 1..n : v[s][k] = Absent /\ w[s][k] = Absent
    BY <1>1
  <2>2. merge_sstables(v)[k] = Absent
    BY <2>1, MergeOfNone
  <2>3. merge_sstables(w)[k] = Absent
    BY <2>1, MergeOfNone
  <2> QED BY <2>2, <2>3
<1>2. CASE R # {}
  <2>1. Min(R) \in R /\ \A s \in R : Min(R) <= s
    <3>1. R \subseteq Nat
      OBVIOUS
    <3> QED BY <1>2, <3>1, MinProperties
  <2>2. PICK s \in 1..n : s \in R /\ \A t \in R : s <= t
    BY <2>1
  <2>3. v[s][k] # Absent /\ \A t \in 1..n : t < s => v[t][k] = Absent
    BY <2>2
  <2>4. merge_sstables(v)[k] = Answer(v[s][k])
    BY <2>3, MergeOfFirst
  <2>5. merge_sstables(w)[k] = Answer(w[s][k])
    BY <2>3, MergeOfFirst
  <2> QED BY <2>4, <2>5
<1> QED BY <1>1, <1>2

\* A key that a source holds has not been passed.
LEMMA HeldNotPassed ==
    ASSUME NEW s \in Sources, NEW k \in Keys, Held(s, k)
    PROVE  ~Passed(k)
<1>1. k \in Int /\ ~(k < k)
  BY TablesAssumption
<1> QED BY <1>1 DEF Held, Passed, BelowHeap, BelowRest

\* The same of the state after a step.
LEMMA HeldNotPassedNext ==
    ASSUME NEW s \in Sources, NEW k \in Keys, Held(s, k)', Sources' = Sources
    PROVE  ~Passed(k)'
<1>1. k \in Int /\ ~(k < k)
  BY TablesAssumption
<1> QED BY <1>1 DEF Held, Passed, BelowHeap, BelowRest

\* What was written has been passed.
LEMMA WrittenPassed ==
    ASSUME Holds, NEW i \in DOMAIN writer.records
    PROVE  Passed(writer.records[i].key)
<1> DEFINE k == writer.records[i].key
<1>1. CASE group = NoGroup
  BY <1>1 DEF Holds, KeysAscend, Passed
<1>2. CASE group # NoGroup
  <2>1. /\ k < group.key /\ BelowRest(group.key) /\ stage \in {"drain", "pull"}
        /\ stage = "drain" => \A e \in heap : group.key <= e.key
        /\ stage = "pull" => BelowHeap(group.key)
    BY <1>2 DEF Holds, StageFits, KeysAscend
  <2>2. /\ \A e \in heap : e.key \in Int
        /\ \A s \in Sources : \A j \in DOMAIN rest[s] : rest[s][j].key \in Int
        /\ k \in Int /\ group.key \in Int
    BY <1>2, KeysAreIntegers DEF Holds
  <2> HIDE DEF k
  <2>3. BelowHeap(k) /\ BelowRest(k)
    BY <2>1, <2>2 DEF BelowHeap, BelowRest
  <2> QED BY <2>1, <2>3 DEF Passed, k
<1> QED BY <1>1, <1>2

\* A merge that passed the same keys, and holds what it held, has its reading.
LEMMA SameReading ==
    ASSUME NEW v, Merging(v), inputs' = inputs, writer'.records = writer.records,
           short' = short \/ short',
           \A k \in Keys : Passed(k)' <=> Passed(k),
           Ahead(v)'
    PROVE  Merging(v)'
<1>1. Scanned(v)'
  BY DEF Merging, Scanned, Whole, Sources
<1>2. Written(v)'
  BY DEF Merging, Written
<1> QED BY <1>1, <1>2 DEF Merging

\* The steps that only move on change nothing of what was read.
LEMMA OthersRead ==
    ASSUME NEW v, Merging(v),
           UNCHANGED <<inputs, heap, rest, group, writer, short>>
    PROVE  Merging(v)'
<1>1. /\ inputs' = inputs /\ heap' = heap /\ rest' = rest /\ group' = group
      /\ writer' = writer /\ short' = short /\ Sources' = Sources
  BY DEF Sources
<1>2. \A k : Passed(k)' <=> Passed(k)
  BY <1>1 DEF Passed, BelowHeap, BelowRest
<1>3. Ahead(v)'
  BY <1>1, <1>2 DEF Merging, Ahead, Held
<1> QED BY <1>1, <1>2, <1>3, SameReading

\* Every source is to be read from beginning to end.
LEMMA MergingInit ==
    ASSUME MergeInit
    PROVE  \E v \in [Sources -> Table] : Merging(v)
<1>1. PICK n \in 1..MaxSources : inputs \in [1..n -> {flush_file(t) : t \in Flushed}]
  BY DEF MergeInit
<1>2. \A s \in Sources : inputs[s].records \in Seq(Records) /\ Ascending(inputs[s].records)
  BY InputsAreReadable DEF Readable
<1>3. /\ heap = {} /\ group = NoGroup /\ writer.records = <<>>
      /\ \A s \in Sources : rest[s] = inputs[s].records
  BY DEF MergeInit, new_writer
<1>4. PICK v : v = Whole
  OBVIOUS
<1>5. \A s \in Sources :
        /\ v[s] = table_of(inputs[s]) /\ v[s] \in Table
        /\ \A j \in DOMAIN rest[s] : v[s][rest[s][j].key] = rest[s][j].value
        /\ \A k \in Keys : v[s][k] # Absent => \E j \in DOMAIN rest[s] : rest[s][j].key = k
  BY <1>2, <1>3, <1>4, TableOfRecords DEF Whole
<1>6. v \in [Sources -> Table] /\ DOMAIN v = Sources
  BY <1>4, <1>5 DEF Whole
<1>7. Scanned(v)
  BY <1>4, <1>6 DEF Scanned
<1>8. Ahead(v)
  BY <1>3, <1>5 DEF Ahead, Held
<1>9. Written(v)
  <2> SUFFICES ASSUME NEW k \in Keys, Passed(k)
               PROVE  merge_sstables(v)[k] = Absent
    BY <1>3 DEF Written
  <2>1. \A s \in Sources : v[s][k] = Absent
    BY <1>5, HeldNotPassed DEF Held
  <2>2. n \in Nat /\ Sources = 1..n
    BY <1>1, MergeAssumption DEF Sources
  <2> QED BY <1>6, <2>1, <2>2, MergeOfNone
<1> QED BY <1>6, <1>7, <1>8, <1>9 DEF Merging

\* Counting reads nothing that is kept.
LEMMA CountReads ==
    ASSUME Holds, count_keys, NEW v, Merging(v)
    PROVE  Merging(v)'
<1>1. /\ heap = {} /\ heap' = {} /\ group = NoGroup /\ group' = NoGroup
      /\ rest' = rest /\ inputs' = inputs /\ Sources' = Sources
      /\ writer.records = <<>>
  BY DEF Holds, StageFits, count_keys, Sources
<1>2. writer'.records = <<>>
  <2>1. \A x : new_writer(x).records = <<>>
    BY DEF new_writer
  <2>2. \E x : writer' = new_writer(x)
    BY Zenon DEF count_keys
  <2> QED BY <2>1, <2>2
<1>3. short' = short \/ short'
  BY Zenon DEF count_keys, read_ok, short_read
<1>4. Ahead(v)'
  BY <1>1 DEF Merging, Ahead, Held, Passed, BelowHeap, BelowRest
<1>5. \A k : Passed(k)' <=> Passed(k)
  BY <1>1 DEF Passed, BelowHeap, BelowRest
<1> QED BY <1>1, <1>2, <1>3, <1>4, <1>5, SameReading

\* What a source returns goes into the heap as it was read.
LEMMA PullReads ==
    ASSUME Holds, NEW v, Merging(v), pull,
           NEW s, s = Head(pending), rest[s] # <<>>,
           heap' = heap \cup {Entry(s)}, rest' = [rest EXCEPT ![s] = Tail(@)], read_ok
    PROVE  Merging(v)'
<1> DEFINE old == rest[s]
           new == Entry(s)
<1>1. /\ stage = "pull" /\ pending # <<>> /\ pending \in Seq(Sources) /\ IsInjective(pending)
      /\ inputs' = inputs /\ Sources' = Sources /\ group' = group /\ writer' = writer
      /\ short' = short
  BY DEF Holds, pull, read_ok, LoopTypes, SourcesApart, Sources
<1>2. s \in Sources
  BY <1>1, HeadLeaves
<1>3. rest \in [Sources -> Seq(Records)] /\ Ascending(old)
  BY <1>2 DEF Holds, LoopTypes, SourcesApart
<1>4. /\ new.source = s /\ new.key = old[1].key /\ new.value = old[1].value
      /\ 1 \in DOMAIN old /\ DOMAIN old = 1..Len(old) /\ Len(old) \in Nat
      /\ DOMAIN Tail(old) = 1..Len(old) - 1
      /\ \A j \in 1..Len(old) - 1 : Tail(old)[j] = old[j + 1]
  <2>1. old \in Seq(Records)
    BY <1>2, <1>3
  <2>2. Len(old) \in Nat \ {0} /\ DOMAIN old = 1..Len(old) /\ Head(old) = old[1]
    BY <2>1, HeadTailProperties, LenProperties, EmptySeq
  <2> QED BY <2>1, <2>2, HeadTailProperties, LenProperties DEF Entry
<1>5. /\ rest'[s] = Tail(old) /\ \A t \in Sources \ {s} : rest'[t] = rest[t]
      /\ heap' = heap \cup {new}
  BY <1>2, <1>3
<1>6. v[s][new.key] = new.value
  BY <1>2, <1>4 DEF Merging, Ahead
<1>7. \A j \in DOMAIN Tail(old) : j + 1 \in DOMAIN old /\ Tail(old)[j] = old[j + 1]
  BY <1>4
<1>8. \A j \in DOMAIN old : j # 1 => j - 1 \in DOMAIN Tail(old) /\ Tail(old)[j - 1] = old[j]
  <2> SUFFICES ASSUME NEW j \in DOMAIN old, j # 1
               PROVE  j - 1 \in DOMAIN Tail(old) /\ Tail(old)[j - 1] = old[j]
    OBVIOUS
  <2>1. j - 1 \in 1..Len(old) - 1 /\ (j - 1) + 1 = j
    BY <1>4
  <2> QED BY <1>4, <2>1
<1>9. \A k : Passed(k)' <=> Passed(k)
  <2> SUFFICES ASSUME NEW k
               PROVE  BelowHeap(k)' /\ BelowRest(k)' <=> BelowHeap(k) /\ BelowRest(k)
    BY <1>1 DEF Passed
  <2>1. ASSUME BelowHeap(k), BelowRest(k)
        PROVE  BelowHeap(k)' /\ BelowRest(k)'
    <3>1. k < new.key
      BY <1>2, <1>4, <2>1 DEF BelowRest
    <3>2. BelowHeap(k)'
      BY <1>5, <2>1, <3>1 DEF BelowHeap
    <3>3. BelowRest(k)'
      BY <1>1, <1>2, <1>5, <1>7, <2>1 DEF BelowRest
    <3> QED BY <3>2, <3>3
  <2>2. ASSUME BelowHeap(k)', BelowRest(k)'
        PROVE  BelowHeap(k) /\ BelowRest(k)
    <3>1. BelowHeap(k) /\ k < old[1].key
      BY <1>4, <1>5, <2>2 DEF BelowHeap
    <3>2. \A j \in DOMAIN old : k < old[j].key
      <4>1. \A j \in DOMAIN Tail(old) : k < Tail(old)[j].key
        BY <1>1, <1>2, <1>5, <2>2 DEF BelowRest
      <4> QED BY <1>8, <3>1, <4>1
    <3>3. \A t \in Sources \ {s} : \A j \in DOMAIN rest[t] : k < rest[t][j].key
      BY <1>1, <1>5, <2>2 DEF BelowRest
    <3> QED BY <3>1, <3>2, <3>3 DEF BelowRest
  <2> QED BY <2>1, <2>2
<1>10. \A t \in Sources, k \in Keys : Held(t, k) => Held(t, k)'
  <2> SUFFICES ASSUME NEW t \in Sources, NEW k \in Keys, Held(t, k)
               PROVE  Held(t, k)'
    OBVIOUS
  <2>1. CASE \E e \in heap : e.source = t /\ e.key = k
    <3>1. \E e \in heap' : e.source = t /\ e.key = k
      BY <2>1, <1>5
    <3> QED BY <3>1 DEF Held
  <2>2. CASE group # NoGroup /\ group.key = k /\ t \in ToSet(group.consumed)
    BY <2>2, <1>1 DEF Held
  <2>3. CASE t # s /\ \E j \in DOMAIN rest[t] : rest[t][j].key = k
    BY <2>3, <1>5 DEF Held
  <2>4. ASSUME t = s, NEW j \in DOMAIN old, old[j].key = k
        PROVE  Held(t, k)'
    <3>1. CASE j = 1
      BY <3>1, <2>4, <1>4, <1>5 DEF Held
    <3>2. CASE j # 1
      BY <3>2, <2>4, <1>5, <1>8 DEF Held
    <3> QED BY <3>1, <3>2
  <2> QED BY <2>1, <2>2, <2>3, <2>4 DEF Held
<1>11. Ahead(v)'
  <2> HIDE DEF new, old
  <2>1. \A e \in heap' : v[e.source][e.key] = e.value
    BY <1>4, <1>5, <1>6 DEF Merging, Ahead
  <2>2. \A t \in Sources : \A j \in DOMAIN rest'[t] :
          v[t][rest'[t][j].key] = rest'[t][j].value
    <3>1. \A j \in DOMAIN old : v[s][old[j].key] = old[j].value
      BY <1>2 DEF old, Merging, Ahead
    <3>2. \A j \in DOMAIN rest'[s] : v[s][rest'[s][j].key] = rest'[s][j].value
      <4> SUFFICES ASSUME NEW j \in DOMAIN Tail(old)
                   PROVE  v[s][Tail(old)[j].key] = Tail(old)[j].value
        BY <1>5
      <4> QED BY <1>7, <3>1
    <3> QED BY <1>5, <3>2 DEF Merging, Ahead
  <2>3. \A t \in Sources, k \in Keys : v[t][k] # Absent => Passed(k)' \/ Held(t, k)'
    BY <1>9, <1>10 DEF Merging, Ahead
  <2>4. group # NoGroup =>
          /\ v[group.source][group.key] = group.value
          /\ \A t \in ToSet(group.consumed) : group.source <= t
    BY DEF Merging, Ahead
  <2> QED BY <1>1, <2>1, <2>2, <2>3, <2>4 DEF Ahead
<1> QED BY <1>1, <1>9, <1>11, SameReading

\* A read that fails hides what its source has left, all of it above what was
\* written: the reading is then the one that ends there.
LEMMA ShortReads ==
    ASSUME Holds, NEW v, Merging(v), pull,
           \A t \in Sources : Whole[t] \in Table,
           NEW s, s = Head(pending), rest[s] # <<>>,
           heap' = heap, rest' = [rest EXCEPT ![s] = <<>>], short_read
    PROVE  \E w \in [Sources -> Table] : Merging(w)'
<1> DEFINE old == rest[s]
           x == old[1].key
<1>1. /\ stage = "pull" /\ pending # <<>> /\ pending \in Seq(Sources) /\ IsInjective(pending)
      /\ inputs' = inputs /\ Sources' = Sources /\ group' = group /\ writer' = writer
      /\ short'
  BY DEF Holds, pull, short_read, LoopTypes, SourcesApart, Sources
<1>2. s \in Sources /\ s \in Waiting
  BY <1>1, HeadLeaves DEF Waiting
<1>3. /\ rest \in [Sources -> Seq(Records)] /\ Ascending(old)
      /\ \A e \in heap : e.source \in Sources \ {s}
  BY <1>2 DEF Holds, LoopTypes, SourcesApart
<1>4. /\ x \in Keys /\ x \in Int /\ 1 \in DOMAIN old /\ DOMAIN old = 1..Len(old)
      /\ v[s][x] # Absent
  <2>1. old \in Seq(Records)
    BY <1>2, <1>3
  <2>2. Len(old) \in Nat \ {0} /\ DOMAIN old = 1..Len(old)
    BY <2>1, LenProperties, EmptySeq
  <2>3. 1 \in DOMAIN old /\ old[1] \in Records
    BY <2>1, <2>2, ElementOfSeq
  <2>4. v[s][x] = old[1].value
    BY <1>2, <2>3 DEF Merging, Ahead
  <2> QED BY <2>2, <2>3, <2>4, TablesAssumption DEF Records
<1>5. /\ rest'[s] = <<>> /\ \A t \in Sources \ {s} : rest'[t] = rest[t]
      /\ \A j : j \notin DOMAIN rest'[s]
  <2>1. rest'[s] = <<>> /\ \A t \in Sources \ {s} : rest'[t] = rest[t]
    BY <1>2, <1>3
  <2>2. \A j : j \notin DOMAIN <<>>
    OBVIOUS
  <2> QED BY <2>1, <2>2
<1>6. PICK u : u = [k \in Keys |-> IF k < x THEN v[s][k] ELSE Absent]
  OBVIOUS
<1>7. u \in Table /\ u \in Cuts(Whole[s])
  BY <1>2, <1>4, <1>6, CutsOfScans DEF Merging, Scanned
<1>8. PICK w \in [Sources -> Table] : w = [v EXCEPT ![s] = u]
  BY <1>2, <1>7 DEF Merging, Scanned
<1>9. /\ w[s] = u /\ \A t \in Sources \ {s} : w[t] = v[t]
      /\ \A k \in Keys : k < x => w[s][k] = v[s][k]
      /\ \A k \in Keys : ~(k < x) => w[s][k] = Absent
  BY <1>2, <1>6, <1>8 DEF Merging, Scanned
<1> HIDE DEF x
<1>10. Scanned(w)'
  <2>1. \A t \in Sources : w[t] = Whole[t] \/ w[t] \in Cuts(Whole[t])
    BY <1>7, <1>9 DEF Merging, Scanned
  <2>2. Whole' = Whole
    BY <1>1 DEF Whole
  <2> QED BY <1>1, <1>8, <2>1, <2>2 DEF Scanned
<1>11. \A k : Passed(k) => Passed(k)' /\ k < x
  <2> SUFFICES ASSUME NEW k, Passed(k)
               PROVE  BelowHeap(k)' /\ BelowRest(k)' /\ k < x
    BY <1>1 DEF Passed
  <2>1. k < x
    BY <1>2, <1>4 DEF Passed, BelowRest, x
  <2>2. BelowHeap(k)' /\ BelowRest(k)'
    BY <1>1, <1>5 DEF Passed, BelowHeap, BelowRest
  <2> QED BY <2>1, <2>2
<1>12. \A t \in Sources \ {s}, k \in Keys : Held(t, k) => Held(t, k)'
  BY <1>1, <1>5 DEF Held
<1>13. \A k \in Keys : k < x /\ Held(s, k) => Held(s, k)'
  <2> SUFFICES ASSUME NEW k \in Keys, k < x, Held(s, k)
               PROVE  Held(s, k)'
    OBVIOUS
  <2>1. \A j \in DOMAIN old : old[j].key # k
    <3> SUFFICES ASSUME NEW j \in DOMAIN old, old[j].key = k
                 PROVE  FALSE
      OBVIOUS
    <3>1. j = 1 \/ (1 < j /\ x < old[j].key)
      BY <1>3, <1>4 DEF Ascending, x
    <3> QED BY <1>4, <3>1, TablesAssumption DEF x
  <2> QED BY <1>1, <2>1 DEF Held
<1>14. Ahead(w)'
  <2>1. \A e \in heap' : w[e.source][e.key] = e.value
    BY <1>3, <1>9 DEF Merging, Ahead
  <2>2. \A t \in Sources : \A j \in DOMAIN rest'[t] :
          w[t][rest'[t][j].key] = rest'[t][j].value
    BY <1>5, <1>9 DEF Merging, Ahead
  <2>3. group # NoGroup =>
          /\ w[group.source][group.key] = group.value
          /\ \A t \in ToSet(group.consumed) : group.source <= t
    <3> SUFFICES ASSUME group # NoGroup
                 PROVE  w[group.source][group.key] = group.value
      BY DEF Merging, Ahead
    <3>1. group.key \in Keys /\ group.source \in Sources /\ BelowRest(group.key)
      BY <1>1 DEF Holds, LoopTypes, KeysAscend
    <3>2. group.key < x
      BY <1>2, <1>4, <3>1 DEF BelowRest, x
    <3> QED BY <1>9, <3>1, <3>2 DEF Merging, Ahead
  <2>4. \A t \in Sources, k \in Keys : w[t][k] # Absent => Passed(k)' \/ Held(t, k)'
    <3> SUFFICES ASSUME NEW t \in Sources, NEW k \in Keys, w[t][k] # Absent
                 PROVE  Passed(k)' \/ Held(t, k)'
      OBVIOUS
    <3>1. v[t][k] # Absent /\ (t = s => k < x)
      BY <1>9
    <3>2. Passed(k) \/ Held(t, k)
      BY <3>1 DEF Merging, Ahead
    <3> QED BY <3>1, <3>2, <1>11, <1>12, <1>13
  <2> QED BY <1>1, <2>1, <2>2, <2>3, <2>4 DEF Ahead
<1>15. Written(w)'
  <2> SUFFICES ASSUME NEW k \in Keys, Passed(k)'
               PROVE  /\ \A i \in DOMAIN writer.records :
                            writer.records[i].key = k =>
                                writer.records[i].value = merge_sstables(w)[k]
                      /\ merge_sstables(w)[k] # Absent =>
                            \E i \in DOMAIN writer.records : writer.records[i].key = k
    BY <1>1 DEF Written
  <2>1. CASE k < x
    <3>1. Passed(k)
      <4>1. \A j \in DOMAIN old : k < old[j].key
        <5> SUFFICES ASSUME NEW j \in DOMAIN old
                     PROVE  k < old[j].key
          OBVIOUS
        <5>1. j = 1 \/ (1 < j /\ x < old[j].key)
          BY <1>3, <1>4 DEF Ascending, x
        <5>2. old[j].key \in Int /\ k \in Int
          BY <1>2, KeysAreIntegers, TablesAssumption DEF Holds
        <5> QED BY <5>1, <5>2, <2>1, <1>4 DEF x
      <4>2. BelowHeap(k) /\ BelowRest(k)
        BY <1>1, <1>5, <4>1 DEF Passed, BelowHeap, BelowRest
      <4> QED BY <1>1, <4>2 DEF Passed
    <3>2. merge_sstables(w)[k] = merge_sstables(v)[k]
      <4>1. PICK n \in Nat : Sources = 1..n
        BY DEF Holds, LoopTypes
      <4>2. \A t \in Sources : w[t][k] = v[t][k]
        BY <1>9, <2>1
      <4>3. v \in [1..n -> Table] /\ w \in [1..n -> Table]
        BY <4>1 DEF Merging, Scanned
      <4> QED BY <4>1, <4>2, <4>3, MergeOfSame
    <3> QED BY <3>1, <3>2 DEF Merging, Written
  <2>2. CASE ~(k < x)
    <3>1. \A i \in DOMAIN writer.records : writer.records[i].key # k
      BY <2>2, <1>11, WrittenPassed
    <3>2. \A t \in Sources : w[t][k] = Absent
      <4> SUFFICES ASSUME NEW t \in Sources, w[t][k] # Absent
                   PROVE  FALSE
        OBVIOUS
      <4>1. t # s /\ v[t][k] # Absent
        BY <2>2, <1>9
      <4>2. Held(t, k)
        BY <4>1, <2>2, <1>11 DEF Merging, Ahead
      <4>3. Held(t, k)'
        BY <4>1, <4>2, <1>12
      <4> QED BY <4>3, <1>1, HeldNotPassedNext
    <3>3. merge_sstables(w)[k] = Absent
      <4>1. PICK n \in Nat : Sources = 1..n
        BY DEF Holds, LoopTypes
      <4> QED BY <1>8, <3>2, <4>1, MergeOfNone
    <3> QED BY <3>1, <3>3
  <2> QED BY <2>1, <2>2
<1> QED BY <1>8, <1>10, <1>14, <1>15 DEF Merging

\* A source with nothing left gives nothing.
LEMMA PullKeepsReading ==
    ASSUME Holds, \A t \in Sources : Whole[t] \in Table,
           NEW v \in [Sources -> Table], Merging(v), pull
    PROVE  \E w \in [Sources -> Table] : Merging(w)'
<1>1. PICK s : s = Head(pending)
  OBVIOUS
<1>2. \/ rest[s] # <<>> /\ read_ok /\ heap' = heap \cup {Entry(s)}
                        /\ rest' = [rest EXCEPT ![s] = Tail(@)]
      \/ UNCHANGED <<inputs, heap, rest, group, writer, short>>
      \/ rest[s] # <<>> /\ short_read /\ heap' = heap /\ rest' = [rest EXCEPT ![s] = <<>>]
  BY <1>1 DEF pull, read_ok
<1> QED BY <1>1, <1>2, PullReads, ShortReads, OthersRead

\* The group's record is the merge's: no source in front of its own has one.
\* With it, what lies up to the group's key has been passed.
LEMMA WriteReads ==
    ASSUME Holds, NEW v \in [Sources -> Table], Merging(v), write_group
    PROVE  Merging(v)'
<1>1. /\ stage = "pull" /\ pending = <<>> /\ group' = NoGroup
      /\ heap' = heap /\ rest' = rest /\ inputs' = inputs /\ short' = short
      /\ Sources' = Sources
  BY DEF write_group, Sources
<1>2. CASE group = NoGroup
  <2>1. writer' = writer
    BY <1>2 DEF write_group
  <2> QED
    BY <1>1, <1>2, <2>1 DEF Merging, Scanned, Whole, Ahead, Held, Written, Passed,
                            BelowHeap, BelowRest
<1>3. CASE group # NoGroup
  <2>0. PICK g : g = group.key
    OBVIOUS
  <2> DEFINE out == merge_sstables(v)[g]
  <2>1. /\ g \in Keys /\ g \in Int /\ group.value \in Values /\ group.source \in Sources
        /\ BelowHeap(g) /\ BelowRest(g)
        /\ writer.records \in Seq(Records)
    BY <1>1, <1>3, <2>0, TablesAssumption DEF Holds, LoopTypes, KeysAscend
  <2>2. PICK n \in Nat : Sources = 1..n
    BY DEF Holds, LoopTypes
  <2>3. v \in [1..n -> Table]
    BY <2>2
  <2>4. ASSUME NEW s \in Sources, v[s][g] # Absent
        PROVE  group.source <= s
    <3>1. ~Passed(g)
      BY <1>3, <2>0, <2>1 DEF Passed
    <3>2. Held(s, g)
      BY <2>1, <2>4, <3>1 DEF Merging, Ahead
    <3>3. s \in ToSet(group.consumed)
      BY <2>1, <3>2 DEF Held, BelowHeap, BelowRest
    <3> QED BY <1>3, <2>0, <3>3 DEF Merging, Ahead
  <2>5. out = Answer(group.value)
    <3>1. v[group.source][g] = group.value /\ group.value # Absent
      BY <1>3, <2>0, <2>1, TablesAssumption DEF Merging, Ahead
    <3>2. \A t \in 1..n : t < group.source => v[t][g] = Absent
      BY <2>1, <2>2, <2>4
    <3>3. out = Answer(v[group.source][g])
      BY <2>1, <2>2, <2>3, <3>1, <3>2, MergeOfFirst
    <3> QED BY <3>1, <3>3
  <2>6. ASSUME NEW k \in Keys, g < k, BelowHeap(k), BelowRest(k)
        PROVE  merge_sstables(v)[k] = Absent
    <3>1. k \in Int /\ ~Passed(k)
      BY <1>3, <2>0, <2>1, <2>6, TablesAssumption DEF Passed
    <3>2. \A s \in Sources : ~Held(s, k)
      BY <2>0, <2>1, <2>6, <3>1 DEF Held, BelowHeap, BelowRest
    <3>3. \A s \in Sources : v[s][k] = Absent
      BY <3>1, <3>2 DEF Merging, Ahead
    <3> QED BY <2>2, <2>3, <3>3, MergeOfNone
  <2>7. \A i \in DOMAIN writer.records : writer.records[i].key \in Int /\ writer.records[i].key < g
    BY <1>3, <2>0, KeysAreIntegers DEF Holds, KeysAscend
  <2> DEFINE old == writer.records
             new == writer'.records
  <2>8. /\ \A i \in DOMAIN new : \/ i \in DOMAIN old /\ new[i] = old[i]
                                 \/ new[i].key = g /\ new[i].value = out
        /\ \A i \in DOMAIN old : i \in DOMAIN new /\ new[i] = old[i]
        /\ out # Absent => \E i \in DOMAIN new : new[i].key = g
    <3>1. CASE group.value \in Tombstones
      <4>1. writer' = writer /\ out = Absent
        BY <3>1, <2>5 DEF write_group, is_tombstone, Answer
      <4> QED BY <4>1
    <3>2. CASE group.value \notin Tombstones
      <4> DEFINE r == [key |-> g, value |-> group.value]
      <4>1. r \in Records /\ r.key = g /\ r.value = out
        BY <2>1, <2>5, <3>2 DEF Records, Answer, is_tombstone
      <4>2. new = Append(old, r)
        BY <1>3, <2>0, <3>2 DEF write_group, is_tombstone, add
      <4> HIDE DEF r, out, new
      <4>3. /\ DOMAIN old = 1..Len(old) /\ Len(old) \in Nat
            /\ DOMAIN new = 1..Len(old) + 1
            /\ \A i \in 1..Len(old) : new[i] = old[i]
            /\ new[Len(old) + 1] = r
        BY <2>1, <4>1, <4>2, AppendProperties, LenProperties
      <4>4. \A i \in 1..Len(old) + 1 : i \in 1..Len(old) \/ i = Len(old) + 1
        BY <4>3
      <4>5. 1..Len(old) \subseteq 1..Len(old) + 1 /\ Len(old) + 1 \in 1..Len(old) + 1
        BY <4>3
      <4> QED BY <4>1, <4>3, <4>4, <4>5
    <3> QED BY <3>1, <3>2
  <2>9. Scanned(v)'
    BY <1>1 DEF Merging, Scanned, Whole
  <2>10. \A k : Passed(k)' <=> BelowHeap(k) /\ BelowRest(k)
    BY <1>1 DEF Passed, BelowHeap, BelowRest
  <2>11. Passed(g)' /\ \A k : Passed(k) => Passed(k)'
    BY <2>1, <2>10 DEF Passed
  <2>12. Ahead(v)'
    <3>1. \A s \in Sources, k \in Keys : v[s][k] # Absent => Passed(k)' \/ Held(s, k)'
      <4> SUFFICES ASSUME NEW s \in Sources, NEW k \in Keys, v[s][k] # Absent, k # g
                   PROVE  Passed(k)' \/ Held(s, k)'
        BY <2>11
      <4>1. Passed(k) \/ Held(s, k)
        BY DEF Merging, Ahead
      <4>2. Held(s, k) => Held(s, k)'
        BY <1>1, <2>0 DEF Held
      <4> QED BY <4>1, <4>2, <2>11
    <3> QED BY <1>1, <3>1 DEF Merging, Ahead
  <2>13. Written(v)'
    <3> SUFFICES ASSUME NEW k \in Keys, BelowHeap(k), BelowRest(k)
                 PROVE  /\ \A i \in DOMAIN new :
                              new[i].key = k => new[i].value = merge_sstables(v)[k]
                        /\ merge_sstables(v)[k] # Absent =>
                              \E i \in DOMAIN new : new[i].key = k
      BY <2>10 DEF Written
    <3>0. k \in Int
      BY TablesAssumption
    <3> HIDE DEF new
    <3>1. CASE k = g
      <4>1. \A i \in DOMAIN old : old[i].key # g
        BY <2>1, <2>7
      <4> QED BY <3>1, <4>1, <2>8
    <3>2. CASE k < g
      <4>1. Passed(k) /\ k # g
        BY <3>0, <3>2, <2>0, <2>1 DEF Passed
      <4>2. /\ \A i \in DOMAIN old : old[i].key = k => old[i].value = merge_sstables(v)[k]
            /\ merge_sstables(v)[k] # Absent => \E i \in DOMAIN old : old[i].key = k
        BY <4>1 DEF Merging, Written
      <4> QED BY <4>1, <4>2, <2>8
    <3>3. CASE g < k
      <4>1. merge_sstables(v)[k] = Absent
        BY <3>3, <2>6
      <4>2. \A i \in DOMAIN new : new[i].key # k
        BY <3>0, <3>3, <2>1, <2>7, <2>8
      <4> QED BY <4>1, <4>2
    <3> QED BY <3>0, <3>1, <3>2, <3>3, <2>1
  <2> QED BY <2>9, <2>12, <2>13 DEF Merging
<1> QED BY <1>2, <1>3

\* The entry popped is held by the group instead of the heap.
LEMMA PopReads ==
    ASSUME Holds, NEW v \in [Sources -> Table], Merging(v), pop_first
    PROVE  Merging(v)'
<1>1. /\ stage = "pop" /\ group = NoGroup /\ inputs' = inputs /\ rest' = rest
      /\ writer' = writer /\ short' = short /\ Sources' = Sources
  BY DEF Holds, StageFits, pop_first, Sources
<1>2. PICK e \in Top :
        /\ group' = [key |-> e.key, value |-> e.value, source |-> e.source,
                     consumed |-> <<e.source>>]
        /\ heap' = heap \ {e}
  BY DEF pop_first
<1>3. /\ e \in heap /\ \A f \in heap : e.key <= f.key
      /\ e.key \in Int /\ e.source \in Sources
      /\ group'.key = e.key /\ group'.value = e.value /\ group'.source = e.source
      /\ ToSet(group'.consumed) = {e.source} /\ group' # NoGroup
  <2>1. ToSet(<<e.source>>) = {e.source} /\ <<e.source>> # <<>>
    BY DEF ToSet
  <2>2. group'.consumed # NoGroup.consumed
    BY <1>2, <2>1 DEF NoGroup
  <2> QED BY <1>2, <2>1, <2>2, KeysAreIntegers DEF Top, Holds
<1>4. /\ \A f \in heap : f.key \in Int
      /\ e.source \in Int
  <2>1. PICK n \in Nat : Sources = 1..n
    BY DEF Holds, LoopTypes
  <2> QED BY <1>3, <2>1, KeysAreIntegers DEF Holds
<1>5. \A k \in Keys : Passed(k)' <=> Passed(k)
  <2> SUFFICES ASSUME NEW k \in Keys
               PROVE  BelowHeap(k)' /\ k < e.key <=> BelowHeap(k)
    BY <1>1, <1>3 DEF Passed, BelowRest
  <2>1. k \in Int
    BY TablesAssumption
  <2> QED BY <1>2, <1>3, <1>4, <2>1 DEF BelowHeap
<1>6. \A s \in Sources, k \in Keys : Held(s, k) => Held(s, k)'
  <2> SUFFICES ASSUME NEW s \in Sources, NEW k \in Keys, Held(s, k)
               PROVE  Held(s, k)'
    OBVIOUS
  <2>1. CASE \E j \in DOMAIN rest[s] : rest[s][j].key = k
    BY <2>1, <1>1 DEF Held
  <2>2. ASSUME NEW f \in heap, f.source = s, f.key = k
        PROVE  Held(s, k)'
    <3>1. CASE f = e
      BY <2>2, <3>1, <1>3 DEF Held
    <3>2. CASE f # e
      BY <2>2, <3>2, <1>2 DEF Held
    <3> QED BY <3>1, <3>2
  <2> QED BY <2>1, <2>2, <1>1 DEF Held
<1>7. Ahead(v)'
  <2>1. \A f \in heap' : f \in heap
    BY <1>2
  <2>2. v[e.source][e.key] = e.value /\ e.source <= e.source
    BY <1>3, <1>4 DEF Merging, Ahead
  <2>3. \A s \in Sources, k \in Keys : v[s][k] # Absent => Passed(k)' \/ Held(s, k)'
    BY <1>5, <1>6 DEF Merging, Ahead
  <2> QED BY <1>1, <1>3, <2>1, <2>2, <2>3 DEF Merging, Ahead
<1> QED BY <1>1, <1>5, <1>7, SameReading

\* So is every other entry of its key, and the first source is kept.
LEMMA DrainReads ==
    ASSUME Holds, NEW v \in [Sources -> Table], Merging(v), drain_equal
    PROVE  Merging(v)'
<1>1. /\ stage = "drain" /\ group # NoGroup /\ inputs' = inputs /\ rest' = rest
      /\ writer' = writer /\ short' = short /\ Sources' = Sources
  BY DEF Holds, StageFits, drain_equal, Sources
<1>2. PICK e \in Top :
        /\ e.key = group.key
        /\ group' = IF e.source < group.source
                    THEN [group EXCEPT !.value = e.value, !.source = e.source,
                                       !.consumed = Append(@, e.source)]
                    ELSE [group EXCEPT !.consumed = Append(@, e.source)]
        /\ heap' = heap \ {e}
  BY DEF drain_equal, Drained, Better, Consumed
<1>3. /\ e \in heap /\ e.source \in Sources
      /\ group \in [key : Keys, value : Values, source : Sources, consumed : Seq(Sources)]
      /\ IsInjective(group.consumed)
      /\ e.source \notin ToSet(group.consumed)
  BY <1>1, <1>2 DEF Top, Holds, LoopTypes, SourcesApart, Waiting
<1> DEFINE c == Append(group.consumed, e.source)
<1>4. c # <<>> /\ ToSet(c) = ToSet(group.consumed) \cup {e.source}
  BY <1>3, AppendJoins
<1> HIDE DEF c
<1>5. /\ group'.key = group.key /\ group'.consumed = c
      /\ IF e.source < group.source
         THEN group'.source = e.source /\ group'.value = e.value
         ELSE group'.source = group.source /\ group'.value = group.value
  BY <1>2, <1>3 DEF c
<1>6. group' # NoGroup
  BY <1>4, <1>5 DEF NoGroup
<1>7. \A k \in Keys : Passed(k)' <=> Passed(k)
  <2> SUFFICES ASSUME NEW k \in Keys
               PROVE  BelowHeap(k)' /\ k < group.key <=> BelowHeap(k) /\ k < group.key
    BY <1>1, <1>5, <1>6 DEF Passed, BelowRest
  <2> QED BY <1>2 DEF BelowHeap
<1>8. \A s \in Sources, k \in Keys : Held(s, k) => Held(s, k)'
  <2> SUFFICES ASSUME NEW s \in Sources, NEW k \in Keys, Held(s, k)
               PROVE  Held(s, k)'
    OBVIOUS
  <2>1. CASE \E j \in DOMAIN rest[s] : rest[s][j].key = k
    BY <2>1, <1>1 DEF Held
  <2>2. ASSUME NEW f \in heap, f.source = s, f.key = k
        PROVE  Held(s, k)'
    <3>1. CASE f = e
      BY <2>2, <3>1, <1>2, <1>4, <1>5, <1>6 DEF Held
    <3>2. CASE f # e
      BY <2>2, <3>2, <1>2 DEF Held
    <3> QED BY <3>1, <3>2
  <2>3. CASE group.key = k /\ s \in ToSet(group.consumed)
    BY <2>3, <1>4, <1>5, <1>6 DEF Held
  <2> QED BY <2>1, <2>2, <2>3 DEF Held
<1>9. Ahead(v)'
  <2>1. \A f \in heap' : f \in heap
    BY <1>2
  <2>2. /\ v[e.source][group.key] = e.value
        /\ v[group.source][group.key] = group.value
        /\ \A s \in ToSet(group.consumed) : group.source <= s /\ s \in Int
        /\ e.source \in Int /\ group.source \in Int
    <3>1. PICK n \in Nat : Sources = 1..n
      BY DEF Holds, LoopTypes
    <3>2. \A s \in ToSet(group.consumed) : s \in Sources
      <4> SUFFICES ASSUME NEW i \in DOMAIN group.consumed
                   PROVE  group.consumed[i] \in Sources
        BY DEF ToSet
      <4> QED BY <1>3, LenProperties, ElementOfSeq
    <3> QED BY <1>1, <1>2, <1>3, <3>1, <3>2 DEF Merging, Ahead
  <2>3. \A s \in Sources, k \in Keys : v[s][k] # Absent => Passed(k)' \/ Held(s, k)'
    BY <1>7, <1>8 DEF Merging, Ahead
  <2>4. /\ v[group'.source][group'.key] = group'.value
        /\ \A s \in ToSet(group'.consumed) : group'.source <= s
    BY <1>4, <1>5, <2>2
  <2> QED BY <1>1, <2>1, <2>3, <2>4 DEF Merging, Ahead
<1> QED BY <1>1, <1>7, <1>9, SameReading

\* Some reading of the sources explains what the loop has done so far.
MergingInv ==
    /\ \A s \in Sources : Whole[s] \in Table
    /\ \E v \in [Sources -> Table] : Merging(v)

\* It is all of them when the loop begins.
LEMMA MergingInvInit ==
    ASSUME MergeInit
    PROVE  MergingInv
<1>1. \A s \in Sources : inputs[s].records \in Seq(Records) /\ Ascending(inputs[s].records)
  BY InputsAreReadable DEF Readable
<1>2. \A s \in Sources : Whole[s] \in Table
  BY <1>1, TableOfRecords DEF Whole
<1> QED BY <1>2, MergingInit DEF MergingInv

\* Every step keeps a reading that does, not always the same one.
LEMMA MergingInvInductive ==
    ASSUME LoopInv, MergingInv, [MergeNext]_mergeVars
    PROVE  MergingInv'
<1>1. PICK v \in [Sources -> Table] : Merging(v)
  BY DEF MergingInv
<1>2. inputs' = inputs
  BY DEF MergeNext, mergeVars, count_keys, pull, write_group, pop_first, drain_equal,
         drain_done, finish_merge, merge_error
<1>3. \A s \in Sources' : Whole'[s] \in Table
  BY <1>2 DEF MergingInv, Whole, Sources
<1>4. Sources' = Sources
  BY <1>2 DEF Sources
<1>5. CASE UNCHANGED <<inputs, heap, rest, group, writer, short>>
  BY <1>1, <1>3, <1>4, <1>5, OthersRead DEF MergingInv
<1>6. CASE Holds /\ (count_keys \/ pull \/ write_group \/ pop_first \/ drain_equal)
  <2>1. \E w \in [Sources -> Table] : Merging(w)'
    <3>1. CASE count_keys
      BY <1>1, <1>6, <3>1, CountReads
    <3>2. CASE pull
      BY <1>1, <1>6, <3>2, PullKeepsReading DEF MergingInv
    <3>3. CASE write_group
      BY <1>1, <1>6, <3>3, WriteReads
    <3>4. CASE pop_first
      BY <1>1, <1>6, <3>4, PopReads
    <3>5. CASE drain_equal
      BY <1>1, <1>6, <3>5, DrainReads
    <3> QED BY <1>6, <3>1, <3>2, <3>3, <3>4, <3>5
  <2> QED BY <1>3, <1>4, <2>1 DEF MergingInv
<1>7. \/ UNCHANGED <<inputs, heap, rest, group, writer, short>>
      \/ stage # "failed" /\ (count_keys \/ pull \/ write_group \/ pop_first \/ drain_equal)
  BY DEF MergeNext, mergeVars, count_keys, pull, write_group, pop_first, drain_equal,
         drain_done, finish_merge, merge_error
<1> QED BY <1>5, <1>6, <1>7 DEF Holds, LoopInv

-----------------------------------------------------------------------------
(***************************************************************************)
(* The loop does in many steps what AtomicMerge does in one.               *)
(***************************************************************************)
\* The merge of the abstract specification is the one of Tables.
LEMMA SameMerge == \A ts : AM!merge_sstables(ts) = merge_sstables(ts)
<1>1. \A ts, k : AM!FirstRecord(ts, k) = FirstRecord(ts, k)
  BY DEF AM!FirstRecord, FirstRecord, AM!Stops, Stops, AM!Min, Min
<1>2. \A x : AM!Answer(x) = Answer(x)
  BY DEF AM!Answer, Answer, AM!is_tombstone, is_tombstone
<1> QED BY <1>1, <1>2 DEF AM!merge_sstables, merge_sstables

\* The result of the loop, as the abstract specification sees it.
Result == IF stage = "done" THEN table_of(finish(writer)) ELSE NoFile

\* With the heap empty every key has been passed, and the file that finish
\* leaves holds the merge of what the sources returned.
LEMMA FinishMerges ==
    ASSUME Holds, MergingInv, finish_merge
    PROVE  AM!Merge
<1>1. /\ stage = "pop" /\ heap = {} /\ stage' = "done" /\ group = NoGroup
      /\ inputs' = inputs /\ short' = short /\ writer' = writer /\ Sources' = Sources
  BY DEF Holds, StageFits, finish_merge, Sources
<1>2. PICK v \in [Sources -> Table] : Merging(v)
  BY DEF MergingInv
<1>3. \A k \in Keys : Passed(k)
  <2>1. \A s \in Sources : rest[s] = <<>>
    BY <1>1 DEF Holds, SourcesApart, Waiting
  <2>2. \A j : j \notin DOMAIN <<>>
    OBVIOUS
  <2> QED BY <1>1, <2>1, <2>2 DEF Passed, BelowHeap, BelowRest
<1>4. merge_sstables(v) = table_of(finish(writer))
  <2> DEFINE r == writer.records
             R(k) == {i \in DOMAIN r : r[i].key = k}
             out == merge_sstables(v)
  <2>1. \A k \in Keys :
          /\ \A i \in DOMAIN r : r[i].key = k => r[i].value = out[k]
          /\ out[k] # Absent => \E i \in DOMAIN r : r[i].key = k
    BY <1>2, <1>3 DEF Merging, Written
  <2>2. DOMAIN r \subseteq Nat
    <3>1. r \in Seq(Records)
      BY DEF Holds, LoopTypes
    <3> QED BY <3>1, LenProperties
  <2>3. finish(writer).records = r
    BY DEF finish
  <2>4. \A k \in Keys : out[k] = IF R(k) = {} THEN Absent ELSE r[Min(R(k))].value
    <3> SUFFICES ASSUME NEW k \in Keys
                 PROVE  out[k] = IF R(k) = {} THEN Absent ELSE r[Min(R(k))].value
      OBVIOUS
    <3>1. CASE R(k) = {}
      BY <2>1, <3>1
    <3>2. CASE R(k) # {}
      <4>1. R(k) \subseteq Nat
        BY <2>2
      <4>2. Min(R(k)) \in R(k)
        BY <3>2, <4>1, MinProperties
      <4> QED BY <2>1, <3>2, <4>2
    <3> QED BY <3>1, <3>2
  <2>5. table_of(finish(writer))
          = [k \in Keys |-> IF R(k) = {} THEN Absent ELSE r[Min(R(k))].value]
    BY <2>3 DEF table_of
  <2>6. out = [k \in Keys |-> out[k]]
    BY DEF merge_sstables
  <2> HIDE DEF r, R, out
  <2> QED BY <2>4, <2>5, <2>6 DEF out
<1>5. Result = NoFile /\ Result' = merge_sstables(v)
  BY <1>1, <1>4 DEF Result, table_of, finish
<1>6. ~short => v = Whole
  BY <1>2 DEF Merging, Scanned
<1>7. v \in AM!Readings
  <2>1. \A s \in Sources : v[s] \in {Whole[s]} \cup Cuts(Whole[s])
    BY <1>2 DEF Merging, Scanned
  <2>2. \A t : AM!ScansOf(t) = {t} \cup Cuts(t)
    BY DEF AM!ScansOf, AM!Cuts, Cuts, AM!Present, Present
  <2>3. DOMAIN Whole = Sources
    BY DEF Whole
  <2> QED BY <1>2, <2>1, <2>2, <2>3 DEF AM!Readings, Whole
<1>8. Whole' = Whole
  BY <1>1 DEF Whole
<1> QED BY <1>1, <1>5, <1>6, <1>7, <1>8, SameMerge DEF AM!Merge, Result, Whole

\* A step that does not finish leaves the result alone; if it hides a record
\* it is the abstract read error.
LEMMA OtherStepsMap ==
    ASSUME LoopInv, [MergeNext]_mergeVars, ~finish_merge
    PROVE  AM!ReadError \/ UNCHANGED AM!atomicVars
<1>1. inputs' = inputs
  BY DEF MergeNext, mergeVars, count_keys, pull, write_group, pop_first, drain_equal,
         drain_done, finish_merge, merge_error
<1>2. Whole' = Whole
  BY <1>1 DEF Whole, Sources
<1>3. CASE short' = short /\ Result' = Result
  BY <1>2, <1>3 DEF AM!atomicVars, Whole, Result
<1>4. CASE short' = TRUE /\ Result' = NoFile /\ Result = NoFile
  BY <1>2, <1>4 DEF AM!ReadError, Whole, Result
<1>5. \/ UNCHANGED <<stage, writer, short>>
      \/ stage # "done" /\ stage' # "done" /\ short' = short
      \/ stage # "done" /\ stage' # "done" /\ short_read
  <2>1. CASE count_keys
    BY <2>1, Zenon DEF count_keys, read_ok
  <2>2. CASE pull
    BY <2>2, Zenon DEF pull, read_ok
  <2>3. CASE write_group \/ pop_first \/ drain_equal \/ drain_done \/ merge_error
    BY <2>3 DEF write_group, pop_first, drain_equal, drain_done, merge_error
  <2> QED BY <2>1, <2>2, <2>3 DEF MergeNext, mergeVars
<1>6. CASE UNCHANGED <<stage, writer, short>>
  BY <1>3, <1>6 DEF Result
<1>7. CASE stage # "done" /\ stage' # "done" /\ short' = short
  BY <1>3, <1>7 DEF Result
<1>8. CASE stage # "done" /\ stage' # "done" /\ short_read
  BY <1>4, <1>8 DEF Result, short_read
<1> QED BY <1>5, <1>6, <1>7, <1>8

\* The loop implements the one-step merge: what it leaves under the final name
\* is the merge of what the sources returned, all of it when no read failed.
THEOREM MergeImplementsAtomicMerge == MergeSpec => ImplementsAtomicMerge
<1>1. MergeInit => LoopInv /\ MergingInv
  BY LoopInvInit, MergingInvInit
<1>2. LoopInv /\ MergingInv /\ [MergeNext]_mergeVars => LoopInv' /\ MergingInv'
  BY LoopInvInductive, MergingInvInductive
<1>3. MergeInit => AM!AtomicInit
  BY DEF MergeInit, AM!AtomicInit
<1>4. LoopInv /\ MergingInv /\ [MergeNext]_mergeVars => [AM!AtomicNext]_AM!atomicVars
  <2> SUFFICES ASSUME LoopInv, MergingInv, [MergeNext]_mergeVars
               PROVE  AM!AtomicNext \/ UNCHANGED AM!atomicVars
    OBVIOUS
  <2>1. CASE finish_merge
    <3>1. Holds
      BY <2>1 DEF finish_merge, LoopInv, Holds
    <3> QED BY <2>1, <3>1, FinishMerges DEF AM!AtomicNext
  <2>2. CASE ~finish_merge
    BY <2>2, OtherStepsMap DEF AM!AtomicNext
  <2> QED BY <2>1, <2>2
<1> QED
  BY <1>1, <1>2, <1>3, <1>4, PTL DEF MergeSpec, ImplementsAtomicMerge, AM!AtomicMergeSpec

-----------------------------------------------------------------------------
(***************************************************************************)
(* Lookups, in the files that were flushed and in the one that is written. *)
(***************************************************************************)
\* The writer is built record by record, the inputs were.
LookupsInv ==
    /\ Built(writer)
    /\ \A s \in Sources : Readable(inputs[s])

LEMMA LookupsInvInit ==
    ASSUME MergeInit
    PROVE  LookupsInv
<1>1. \A s \in Sources : Readable(inputs[s])
  BY InputsAreReadable
<1>2. writer = new_writer(0)
  BY DEF MergeInit
<1> QED BY <1>1, <1>2, NewIsBuilt DEF LookupsInv

LEMMA LookupsInvInductive ==
    ASSUME LoopInv, LookupsInv, [MergeNext]_mergeVars
    PROVE  LookupsInv'
<1>1. inputs' = inputs /\ Sources' = Sources
  BY DEF MergeNext, count_keys, pull, write_group, pop_first, drain_equal,
         drain_done, finish_merge, merge_error, mergeVars, Sources
<1>2. Built(writer')
  <2>1. CASE count_keys
    <3>1. \E x : writer' = new_writer(x)
      BY <2>1, Zenon DEF count_keys
    <3> QED BY <3>1, NewIsBuilt
  <2>2. CASE write_group /\ writer' # writer
    <3>1. /\ stage = "pull" /\ group # NoGroup
          /\ writer' = add(writer, group.key, group.value)
      BY <2>2 DEF write_group
    <3>2. /\ group.key \in Keys /\ group.value \in Values
          /\ \A i \in DOMAIN writer.records : writer.records[i].key < group.key
      BY <3>1 DEF LoopInv, LoopTypes, KeysAscend
    <3>3. PICK w : w = writer
      OBVIOUS
    <3>4. PICK k \in Keys, v \in Values : k = group.key /\ v = group.value
      BY <3>2
    <3>5. Built(add(w, k, v))
      BY <3>2, <3>3, <3>4, AddKeepsBuilt DEF LookupsInv
    <3> QED BY <3>1, <3>3, <3>4, <3>5
  <2>3. CASE writer' = writer
    BY <2>3 DEF LookupsInv
  <2> QED
    BY <2>1, <2>2, <2>3 DEF MergeNext, pull, pop_first, drain_equal,
       drain_done, finish_merge, merge_error, mergeVars
<1> QED BY <1>1, <1>2 DEF LookupsInv

LEMMA LookupsInvGivesExact ==
    ASSUME LookupsInv
    PROVE  LookupsAreExact
<1>1. \A s \in Sources, k \in Keys : get_raw(inputs[s], k) = table_of(inputs[s])[k]
  BY LookupExact DEF LookupsInv
<1>2. Readable(finish(writer))
  BY FinishReads DEF LookupsInv, Built
<1>3. \A k \in Keys : get_raw(finish(writer), k) = table_of(finish(writer))[k]
  BY <1>2, LookupExact
<1> QED BY <1>1, <1>3 DEF LookupsAreExact

\* get_raw, by way of the filter, the checkpoints and the scan, finds exactly
\* the records of every input and of the output: for any two hash functions,
\* any checkpoint distance, and a filter sized for too few keys because a read
\* failed.
THEOREM MergeLookupsAreExact == MergeSpec => []LookupsAreExact
<1>1. MergeInit => LoopInv /\ LookupsInv
  BY LoopInvInit, LookupsInvInit
<1>2. LoopInv /\ LookupsInv /\ [MergeNext]_mergeVars => LoopInv' /\ LookupsInv'
  BY LoopInvInductive, LookupsInvInductive
<1>3. LookupsInv => LookupsAreExact
  BY LookupsInvGivesExact
<1> QED BY <1>1, <1>2, <1>3, PTL DEF MergeSpec
=============================================================================
