---------------------------- MODULE TablesProofs ----------------------------
(***************************************************************************)
(* Lemmas about the operators of Tables.tla, for every finite set of       *)
(* integers, every list of tables and every key.                           *)
(***************************************************************************)
EXTENDS Tables, FiniteSetTheorems, SequenceTheorems, WellFoundedInduction, TLAPS

-----------------------------------------------------------------------------
(***************************************************************************)
(* The least and the greatest member of a set of numbers.                  *)
(***************************************************************************)
\* A set of naturals that has a member has a least one, which Min returns.
LEMMA MinProperties ==
    ASSUME NEW S, S \subseteq Nat, S # {}
    PROVE  Min(S) \in S /\ \A x \in S : Min(S) <= x
<1>1. PICK x \in S : \A y \in S : <<y, x>> \notin OpToRel(<, Nat)
  BY NatLessThanWellFounded, WFMin
<1>2. \A y \in S : x <= y
  <2> TAKE y \in S
  <2>1. x \in Nat /\ y \in Nat
    OBVIOUS
  <2>2. y < x => <<y, x>> \in OpToRel(<, Nat)
    BY <2>1 DEF OpToRel
  <2>3. ~(y < x)
    BY <1>1, <2>2
  <2> QED BY <2>1, <2>3
<1> QED
  BY <1>2 DEF Min

\* A set of numbers up to n that has a member has a greatest one, which Max
\* returns.
LEMMA MaxProperties ==
    ASSUME NEW n \in Nat, NEW S, S \subseteq 1..n, S # {}
    PROVE  Max(S) \in S /\ \A x \in S : x <= Max(S)
<1> DEFINE T == {n - x : x \in S}
<1>1. T \subseteq Nat /\ T # {}
  <2>1. \A x \in S : n - x \in Nat
    OBVIOUS
  <2> QED BY <2>1
<1>2. Min(T) \in T /\ \A y \in T : Min(T) <= y
  BY <1>1, MinProperties
<1>3. PICK m \in S : Min(T) = n - m
  BY <1>2
<1>4. \A x \in S : m >= x
  <2> TAKE x \in S
  <2>1. n - m <= n - x
    BY <1>2, <1>3
  <2> QED BY <2>1
<1>5. Max(S) \in S /\ \A x \in S : Max(S) >= x
  BY <1>4 DEF Max
<1> QED
  BY <1>5

\* The greatest member of a bounded set of numbers is the one Max returns.
LEMMA MaxIs ==
    ASSUME NEW n \in Nat, NEW S, S \subseteq 1..n, NEW m \in S,
           \A x \in S : x <= m
    PROVE  Max(S) = m
<1>1. Max(S) \in S /\ m <= Max(S) /\ Max(S) <= m
  BY MaxProperties
<1>2. m \in Int /\ Max(S) \in Int
  <2>1. S \subseteq Int
    OBVIOUS
  <2> QED BY <1>1, <2>1
<1> QED BY <1>1, <1>2

\* What holds at 0 and goes on to the next number holds up to n.
LEMMA UpTo ==
    ASSUME NEW n \in Nat, NEW S, 0 \in S, \A m \in 0..n - 1 : m \in S => m + 1 \in S
    PROVE  \A m \in 0..n : m \in S
<1> DEFINE T == {m \in 0..n : m \notin S}
<1> SUFFICES ASSUME T # {} PROVE FALSE
  OBVIOUS
<1>1. T \subseteq Nat
  OBVIOUS
<1>2. PICK m \in T : \A x \in T : m <= x
  <2> HIDE DEF T
  <2> QED BY <1>1, MinProperties
<1>3. m # 0 /\ m - 1 \in 0..n - 1 /\ m - 1 \notin T
  <2>1. m \in 1..n
    BY <1>2
  <2>2. m - 1 \in T => m <= m - 1
    BY <1>2
  <2> QED BY <2>1, <2>2
<1>4. (m - 1) + 1 \in S
  BY <1>3
<1> QED BY <1>2, <1>4

\* The recursion of FoldLeft, that takes the greatest index of a set off it, has
\* a solution.
Unfolds(f, n, W, base, step) ==
    /\ f \in [SUBSET (1..n) -> W]
    /\ \A x \in SUBSET (1..n) :
          f[x] = IF x = {} THEN base ELSE step[<<f[x \ {Max(x)}], Max(x)>>]

LEMMA FoldIsDefined ==
    ASSUME NEW n \in Nat, NEW W, NEW base \in W, NEW step \in [W \X (1..n) -> W]
    PROVE  \E f : Unfolds(f, n, W, base, step)
<1> DEFINE Solves(f, m) == Unfolds(f, m, W, base, step)
           S == {m \in 0..n : \E f : Solves(f, m)}
<1>1. 0 \in S
  <2> DEFINE f == [x \in SUBSET (1..0) |-> base]
  <2>1. 1..0 = {}
    OBVIOUS
  <2>2. f \in [SUBSET (1..0) -> W] /\ \A x \in SUBSET (1..0) : x = {} /\ f[x] = base
    BY <2>1
  <2> HIDE DEF f
  <2>3. Solves(f, 0)
    BY <2>2 DEF Unfolds
  <2>4. 0 \in 0..n
    OBVIOUS
  <2> HIDE DEF Solves
  <2> QED BY <2>3, <2>4
<1>2. ASSUME NEW m \in 0..n - 1, m \in S PROVE m + 1 \in S
  <2>1. PICK f : Solves(f, m)
    BY <1>2
  <2> DEFINE g == [x \in SUBSET (1..m + 1) |->
                     IF m + 1 \in x THEN step[<<f[x \ {m + 1}], m + 1>>] ELSE f[x]]
  <2>2. ASSUME NEW x \in SUBSET (1..m + 1), m + 1 \in x
        PROVE  /\ x \ {m + 1} \in SUBSET (1..m)
               /\ x \ {m + 1} \in SUBSET (1..m + 1)
               /\ Max(x) = m + 1
               /\ m + 1 \in 1..n
               /\ g[x] = step[<<f[x \ {m + 1}], m + 1>>]
               /\ g[x \ {m + 1}] = f[x \ {m + 1}]
               /\ g[x] \in W
    <3>1. x \ {m + 1} \in SUBSET (1..m) /\ x \ {m + 1} \in SUBSET (1..m + 1)
      OBVIOUS
    <3>2. m + 1 \in 1..n /\ m + 1 \in Nat /\ \A y \in x : y <= m + 1
      BY <2>2
    <3>3. Max(x) = m + 1
      BY <2>2, <3>2, MaxIs
    <3>4. g[x] = step[<<f[x \ {m + 1}], m + 1>>] /\ g[x \ {m + 1}] = f[x \ {m + 1}]
      BY <2>2, <3>1
    <3>5. f[x \ {m + 1}] \in W
      BY <2>1, <3>1 DEF Unfolds
    <3> QED BY <3>1, <3>2, <3>3, <3>4, <3>5
  <2>3. ASSUME NEW x \in SUBSET (1..m + 1), m + 1 \notin x
        PROVE  /\ x \in SUBSET (1..m) /\ g[x] = f[x] /\ g[x] \in W
               /\ x # {} => x \ {Max(x)} \in SUBSET (1..m) /\ g[x \ {Max(x)}] = f[x \ {Max(x)}]
    <3>1. x \in SUBSET (1..m) /\ g[x] = f[x]
      BY <2>3
    <3>2. x \ {Max(x)} \in SUBSET (1..m) /\ x \ {Max(x)} \in SUBSET (1..m + 1)
          /\ m + 1 \notin x \ {Max(x)}
      BY <2>3, <3>1
    <3> QED BY <2>1, <3>1, <3>2 DEF Unfolds
  <2>4. Solves(g, m + 1)
    <3>1. g \in [SUBSET (1..m + 1) -> W]
      <4>1. g = [x \in SUBSET (1..m + 1) |-> g[x]]
        OBVIOUS
      <4> HIDE DEF g
      <4> QED BY <2>2, <2>3, <4>1
    <3>2. ASSUME NEW x \in SUBSET (1..m + 1)
          PROVE  g[x] = IF x = {} THEN base ELSE step[<<g[x \ {Max(x)}], Max(x)>>]
      <4>1. CASE m + 1 \in x
        <5> HIDE DEF g
        <5> QED BY <2>2, <4>1
      <4>2. CASE m + 1 \notin x
        <5> HIDE DEF g
        <5> QED BY <2>1, <2>3, <4>2 DEF Unfolds
      <4> QED BY <4>1, <4>2
    <3> QED BY <3>1, <3>2 DEF Unfolds
  <2>5. m + 1 \in 0..n
    OBVIOUS
  <2> HIDE DEF g, Solves
  <2> QED BY <2>4, <2>5
<1>3. n \in S
  <2> HIDE DEF S
  <2> QED BY <1>1, <1>2, UpTo
<1> QED BY <1>3

-----------------------------------------------------------------------------
(***************************************************************************)
(* Sorted and Pick, searches, and the merge.                               *)
(***************************************************************************)
\* Counting the members up to x is a bijection from a finite set of integers
\* to 1..Cardinality(S), so every position of Sorted(S) has its member.
LEMMA RankProperties ==
    ASSUME NEW S, S \subseteq Int, IsFiniteSet(S), NEW n \in 1..Cardinality(S)
    PROVE  \E x \in S : Cardinality({y \in S : y <= x}) = n
<1> DEFINE upto(x) == {y \in S : y <= x}
<1> DEFINE rank == [x \in S |-> Cardinality(upto(x))]
<1>1. \A x \in S : IsFiniteSet(upto(x)) /\ Cardinality(upto(x)) \in Nat
  BY FS_Subset, FS_CardinalityType
<1>2. \A x \in S : rank[x] \in 1..Cardinality(S)
  <2> TAKE x \in S
  <2>1. Cardinality(upto(x)) <= Cardinality(S)
    BY FS_Subset
  <2>2. Cardinality(upto(x)) # 0
    <3>1. x \in upto(x)
      OBVIOUS
    <3> QED BY <3>1, <1>1, FS_EmptySet
  <2>3. Cardinality(S) \in Nat
    BY FS_CardinalityType
  <2> QED BY <2>1, <2>2, <2>3, <1>1
<1>3. \A x, y \in S : x < y => rank[x] # rank[y]
  <2> SUFFICES ASSUME NEW x \in S, NEW y \in S, x < y
               PROVE  Cardinality(upto(x)) # Cardinality(upto(y))
    OBVIOUS
  <2>1. upto(x) \in SUBSET upto(y)
    <3>1. \A z \in S : z <= x => z <= y
      OBVIOUS
    <3> QED BY <3>1
  <2>2. y \in upto(y) /\ y \notin upto(x)
    OBVIOUS
  <2> HIDE DEF upto
  <2> QED BY <2>1, <2>2, <1>1, FS_Subset
<1>4. rank \in Injection(S, 1..Cardinality(S))
  <2>1. rank \in [S -> 1..Cardinality(S)]
    BY <1>2
  <2>2. \A x, y \in S : rank[x] = rank[y] => x = y
    <3> SUFFICES ASSUME NEW x \in S, NEW y \in S, rank[x] = rank[y], x # y
                 PROVE  FALSE
      OBVIOUS
    <3>1. x < y \/ y < x
      OBVIOUS
    <3> HIDE DEF rank
    <3> QED BY <3>1, <1>3
  <2> HIDE DEF rank
  <2> QED BY <2>1, <2>2 DEF Injection, IsInjective
<1>5. rank \in Surjection(S, 1..Cardinality(S))
  <2>1. Cardinality(S) \in Nat
    BY FS_CardinalityType
  <2>2. IsFiniteSet(1..Cardinality(S)) /\ Cardinality(1..Cardinality(S)) = Cardinality(S)
    BY <2>1, FS_Interval
  <2> HIDE DEF rank
  <2> QED BY <2>2, <1>4, FS_Injection
<1>6. PICK x \in S : rank[x] = n
  <2> HIDE DEF rank
  <2> QED BY <1>5 DEF Surjection
<1> QED
  BY <1>6

\* Sorted(S) lists members of S, each at most once.
LEMMA SortedProperties ==
    ASSUME NEW S, S \subseteq Int, IsFiniteSet(S)
    PROVE  /\ Cardinality(S) \in Nat
           /\ Sorted(S) \in [1..Cardinality(S) -> S]
           /\ \A m, n \in 1..Cardinality(S) : Sorted(S)[m] = Sorted(S)[n] => m = n
<1>1. Cardinality(S) \in Nat
  BY FS_CardinalityType
<1>2. \A n \in 1..Cardinality(S) :
         /\ Sorted(S)[n] \in S
         /\ Cardinality({y \in S : y <= Sorted(S)[n]}) = n
  <2> TAKE n \in 1..Cardinality(S)
  <2>1. \E x \in S : Cardinality({y \in S : y <= x}) = n
    BY RankProperties
  <2>2. Sorted(S)[n] = CHOOSE x \in S : Cardinality({y \in S : y <= x}) = n
    BY DEF Sorted
  <2> QED BY <2>1, <2>2
<1>3. Sorted(S) \in [1..Cardinality(S) -> S]
  BY <1>2 DEF Sorted
<1> QED
  BY <1>1, <1>2, <1>3

\* Pick(s, I) lists members of s at indices in I, each index at most once.
LEMMA PickProperties ==
    ASSUME NEW T, NEW s \in Seq(T), NEW I \in SUBSET DOMAIN s
    PROVE  /\ Pick(s, I) \in Seq(T)
           /\ \A n \in DOMAIN Pick(s, I) :
                 Sorted(I)[n] \in I /\ Pick(s, I)[n] = s[Sorted(I)[n]]
           /\ \A m, n \in DOMAIN Pick(s, I) :
                 Sorted(I)[m] = Sorted(I)[n] => m = n
<1>1. DOMAIN s = 1..Len(s) /\ Len(s) \in Nat
  BY LenProperties
<1>2. IsFiniteSet(I) /\ I \subseteq Int
  <2>1. IsFiniteSet(1..Len(s))
    <3>1. 1 \in Int /\ Len(s) \in Int
      BY <1>1
    <3> QED BY <3>1, FS_Interval
  <2>2. I \in SUBSET (1..Len(s))
    BY <1>1
  <2>3. IsFiniteSet(I)
    BY <2>1, <2>2, FS_Subset
  <2> QED BY <2>2, <2>3
<1>3. /\ Cardinality(I) \in Nat
      /\ Sorted(I) \in [1..Cardinality(I) -> I]
      /\ \A m, n \in 1..Cardinality(I) : Sorted(I)[m] = Sorted(I)[n] => m = n
  BY <1>2, SortedProperties
<1>4. \A n \in 1..Cardinality(I) : s[Sorted(I)[n]] \in T
  BY <1>1, <1>3, ElementOfSeq
<1>5. Pick(s, I) \in [1..Cardinality(I) -> T]
  BY <1>4 DEF Pick
<1>6. Pick(s, I) \in Seq(T)
  BY <1>3, <1>5, SeqDef
<1> QED
  BY <1>3, <1>5, <1>6 DEF Pick

\* Neither leaves a member out.
LEMMA PickComplete ==
    ASSUME NEW T, NEW s \in Seq(T), NEW I \in SUBSET DOMAIN s, NEW i \in I
    PROVE  \E n \in DOMAIN Pick(s, I) : Pick(s, I)[n] = s[i]
<1>1. IsFiniteSet(I) /\ I \subseteq Int
  <2>1. DOMAIN s = 1..Len(s) /\ Len(s) \in Nat
    BY LenProperties
  <2>2. IsFiniteSet(1..Len(s))
    <3>1. 1 \in Int /\ Len(s) \in Int
      BY <2>1
    <3> QED BY <3>1, FS_Interval
  <2>3. I \in SUBSET (1..Len(s))
    BY <2>1
  <2>4. IsFiniteSet(I)
    BY <2>2, <2>3, FS_Subset
  <2> QED BY <2>3, <2>4
<1>2. /\ Cardinality(I) \in Nat
      /\ Sorted(I) \in [1..Cardinality(I) -> I]
      /\ \A m, n \in 1..Cardinality(I) : Sorted(I)[m] = Sorted(I)[n] => m = n
  BY <1>1, SortedProperties
<1>3. Sorted(I) \in Injection(1..Cardinality(I), I)
  BY <1>2 DEF Injection, IsInjective
<1>4. Cardinality(1..Cardinality(I)) = Cardinality(I)
  BY <1>2, FS_Interval
<1>5. Sorted(I) \in Surjection(1..Cardinality(I), I)
  BY <1>1, <1>3, <1>4, FS_Injection
<1>6. PICK n \in 1..Cardinality(I) : Sorted(I)[n] = i
  BY <1>5 DEF Surjection
<1> QED BY <1>6 DEF Pick

\* A search through files that all exist finds a record of one of them, or
\* nothing if there is none.
LEMMA FirstRecordProperties ==
    ASSUME NEW ts \in Seq(Table), NEW k \in Keys
    PROVE  \/ FirstRecord(ts, k) = Absent /\ \A i \in DOMAIN ts : ts[i][k] = Absent
           \/ \E i \in DOMAIN ts :
                 ts[i][k] # Absent /\ FirstRecord(ts, k) = ts[i][k]
<1> DEFINE S == Stops(ts, k)
<1>1. DOMAIN ts = 1..Len(ts) /\ Len(ts) \in Nat
  BY LenProperties
<1>2. \A i \in DOMAIN ts : ts[i] # NoFile
  BY <1>1, ElementOfSeq, TablesAssumption
<1>3. CASE S = {}
  BY <1>3 DEF FirstRecord, Stops
<1>4. CASE S # {}
  <2>1. S \subseteq Nat /\ S \subseteq DOMAIN ts
    BY <1>1 DEF Stops
  <2>2. Min(S) \in S
    BY <2>1, <1>4, MinProperties
  <2>3. Min(S) \in DOMAIN ts /\ ts[Min(S)][k] # Absent
    BY <2>1, <2>2, <1>2 DEF Stops
  <2>4. FirstRecord(ts, k) = ts[Min(S)][k]
    BY <1>4, <2>3, <1>2 DEF FirstRecord
  <2> QED BY <2>3, <2>4
<1> QED
  BY <1>3, <1>4

\* A search through files of which some are missing finds a record or fails.
LEMMA FirstRecordOrigin ==
    ASSUME NEW ts \in Seq(Table \cup {NoFile}), NEW k \in Keys
    PROVE  \/ FirstRecord(ts, k) \in {Absent, NoFile}
           \/ \E i \in DOMAIN ts :
                 /\ ts[i] # NoFile /\ ts[i] \in Table /\ ts[i][k] # Absent
                 /\ FirstRecord(ts, k) = ts[i][k]
<1> DEFINE S == Stops(ts, k)
<1>1. CASE S = {}
  BY <1>1 DEF FirstRecord
<1>2. CASE S # {}
  <2>1. DOMAIN ts = 1..Len(ts) /\ Len(ts) \in Nat
    BY LenProperties
  <2>2. S \subseteq Nat /\ S \subseteq DOMAIN ts
    BY <2>1 DEF Stops
  <2>3. Min(S) \in S
    BY <2>2, <1>2, MinProperties
  <2>4. ts[Min(S)] \in Table \cup {NoFile}
    BY <2>1, <2>2, <2>3, ElementOfSeq
  <2>5. FirstRecord(ts, k) = IF ts[Min(S)] = NoFile THEN NoFile ELSE ts[Min(S)][k]
    BY <1>2 DEF FirstRecord
  <2>6. ts[Min(S)] # NoFile => ts[Min(S)][k] # Absent
    BY <2>3 DEF Stops
  <2> QED BY <2>2, <2>3, <2>4, <2>5, <2>6
<1> QED
  BY <1>1, <1>2

\* A merge of files is a table, and only keys of its inputs are in it.
LEMMA MergeProperties ==
    ASSUME NEW ts \in Seq(Table)
    PROVE  /\ merge_sstables(ts) \in Table
           /\ \A k \in Present(merge_sstables(ts)) :
                 \E i \in DOMAIN ts : k \in Present(ts[i])
<1>1. ASSUME NEW k \in Keys
      PROVE  /\ Answer(FirstRecord(ts, k)) \in Values \cup {Absent}
             /\ Answer(FirstRecord(ts, k)) # Absent =>
                   \E i \in DOMAIN ts : ts[i][k] # Absent
  <2>1. CASE FirstRecord(ts, k) = Absent
    BY <2>1, TablesAssumption DEF Answer, is_tombstone
  <2>2. CASE \E i \in DOMAIN ts :
                ts[i][k] # Absent /\ FirstRecord(ts, k) = ts[i][k]
    <3>1. PICK i \in DOMAIN ts : ts[i][k] # Absent /\ FirstRecord(ts, k) = ts[i][k]
      BY <2>2
    <3>2. ts[i] \in Table
      BY LenProperties, ElementOfSeq
    <3>3. ts[i][k] \in Values
      BY <3>1, <3>2 DEF Table
    <3> QED BY <3>1, <3>3 DEF Answer
  <2> QED BY <2>1, <2>2, FirstRecordProperties
<1>2. merge_sstables(ts) \in Table
  BY <1>1 DEF merge_sstables, Table
<1>3. ASSUME NEW k \in Present(merge_sstables(ts))
      PROVE  \E i \in DOMAIN ts : k \in Present(ts[i])
  <2>1. k \in Keys /\ Answer(FirstRecord(ts, k)) # Absent
    BY DEF Present, merge_sstables
  <2> QED BY <2>1, <1>1 DEF Present
<1> QED
  BY <1>2, <1>3

\* What a merge holds under a key is a record of one of its inputs; and it holds
\* one if they do and none of their records of the key is a tombstone.
LEMMA MergeRecords ==
    ASSUME NEW ts \in Seq(Table), NEW k \in Keys
    PROVE  /\ merge_sstables(ts)[k] # Absent =>
                 \E i \in DOMAIN ts : merge_sstables(ts)[k] = ts[i][k]
           /\ \A V \in SUBSET (Values \ Tombstones) :
                 /\ \A i \in DOMAIN ts : ts[i][k] \in V \cup {Absent}
                 /\ \E i \in DOMAIN ts : ts[i][k] \in V
                 => merge_sstables(ts)[k] \in V
<1> DEFINE first == FirstRecord(ts, k)
<1>1. merge_sstables(ts)[k] = IF first \in Tombstones THEN Absent ELSE first
  BY DEF merge_sstables, Answer, is_tombstone
<1>2. \/ first = Absent /\ \A i \in DOMAIN ts : ts[i][k] = Absent
      \/ \E i \in DOMAIN ts : ts[i][k] # Absent /\ first = ts[i][k]
  BY FirstRecordProperties
<1> HIDE DEF first
<1> QED
  BY <1>1, <1>2, TablesAssumption

\* Sorted(S) lists all of S in increasing order.
LEMMA SortedOrder ==
    ASSUME NEW S, S \subseteq Int, IsFiniteSet(S)
    PROVE  /\ \A m, n \in 1..Cardinality(S) : m < n => Sorted(S)[m] < Sorted(S)[n]
           /\ \A x \in S : \E n \in 1..Cardinality(S) : Sorted(S)[n] = x
<1> DEFINE upto(x) == {y \in S : y <= x}
<1>1. /\ Cardinality(S) \in Nat
      /\ Sorted(S) \in [1..Cardinality(S) -> S]
      /\ \A m, n \in 1..Cardinality(S) : Sorted(S)[m] = Sorted(S)[n] => m = n
  BY SortedProperties
<1>2. \A n \in 1..Cardinality(S) : Cardinality(upto(Sorted(S)[n])) = n
  <2> TAKE n \in 1..Cardinality(S)
  <2>1. \E x \in S : Cardinality({y \in S : y <= x}) = n
    BY RankProperties
  <2>2. Sorted(S)[n] = CHOOSE x \in S : Cardinality({y \in S : y <= x}) = n
    BY DEF Sorted
  <2> QED BY <2>1, <2>2
<1>3. ASSUME NEW m \in 1..Cardinality(S), NEW n \in 1..Cardinality(S), m < n
      PROVE  Sorted(S)[m] < Sorted(S)[n]
  <2>1. Sorted(S)[m] \in S /\ Sorted(S)[n] \in S
    BY <1>1
  <2>2. ASSUME Sorted(S)[n] <= Sorted(S)[m]
        PROVE  FALSE
    <3>1. upto(Sorted(S)[n]) \subseteq upto(Sorted(S)[m])
      <4>1. \A a, b \in S : b <= a => upto(b) \subseteq upto(a)
        <5> TAKE a, b \in S
        <5>1. a \in Int /\ b \in Int /\ \A y \in S : y \in Int
          OBVIOUS
        <5>2. b <= a => \A y \in S : y <= b => y <= a
          BY <5>1
        <5> QED BY <5>2
      <4> HIDE DEF upto
      <4> QED BY <2>1, <2>2, <4>1
    <3>2. IsFiniteSet(upto(Sorted(S)[m]))
      BY FS_Subset
    <3>3. Cardinality(upto(Sorted(S)[n])) <= Cardinality(upto(Sorted(S)[m]))
      <4> HIDE DEF upto
      <4> QED BY <3>1, <3>2, FS_Subset
    <3> HIDE DEF upto
    <3> QED BY <1>2, <1>3, <3>3
  <2>3. Sorted(S)[m] \in Int /\ Sorted(S)[n] \in Int
    BY <2>1
  <2> QED BY <2>2, <2>3
<1>4. ASSUME NEW x \in S
      PROVE  \E n \in 1..Cardinality(S) : Sorted(S)[n] = x
  <2>1. Sorted(S) \in Injection(1..Cardinality(S), S)
    BY <1>1 DEF Injection, IsInjective
  <2>2. Cardinality(1..Cardinality(S)) = Cardinality(S)
    BY <1>1, FS_Interval
  <2>3. Sorted(S) \in Surjection(1..Cardinality(S), S)
    BY <2>1, <2>2, FS_Injection
  <2> QED BY <2>3 DEF Surjection
<1> QED BY <1>3, <1>4

\* A search ends at the first table with a record of the key.
LEMMA FirstRecordAt ==
    ASSUME NEW ts \in Seq(Table), NEW k \in Keys, NEW i \in DOMAIN ts,
           ts[i][k] # Absent, \A j \in DOMAIN ts : j < i => ts[j][k] = Absent
    PROVE  FirstRecord(ts, k) = ts[i][k]
<1> DEFINE S == Stops(ts, k)
<1>1. DOMAIN ts = 1..Len(ts) /\ Len(ts) \in Nat
  BY LenProperties
<1>2. \A j \in DOMAIN ts : ts[j] # NoFile
  BY <1>1, ElementOfSeq, TablesAssumption
<1>3. S \subseteq Nat /\ S \subseteq DOMAIN ts /\ i \in S
  BY <1>1 DEF Stops
<1>4. Min(S) \in S /\ Min(S) <= i
  BY <1>3, MinProperties
<1>5. ts[Min(S)][k] # Absent
  BY <1>2, <1>3, <1>4 DEF Stops
<1>6. Min(S) = i
  BY <1>1, <1>3, <1>4, <1>5
<1> QED BY <1>2, <1>3, <1>6 DEF FirstRecord

\* A table in front of the others is searched before them.
LEMMA FirstRecordPrefix ==
    ASSUME NEW t \in Table, NEW ts \in Seq(Table), NEW k \in Keys
    PROVE  FirstRecord(<<t>> \o ts, k) =
              IF t[k] # Absent THEN t[k] ELSE FirstRecord(ts, k)
<1> DEFINE us == <<t>> \o ts
<1>1. Len(ts) \in Nat /\ DOMAIN ts = 1..Len(ts)
  BY LenProperties
<1>2. <<t>> \in Seq(Table) /\ Len(<<t>>) = 1
  OBVIOUS
<1>3. /\ us \in Seq(Table) /\ Len(us) = 1 + Len(ts)
      /\ us[1] = t /\ \A i \in 1..Len(ts) : us[i + 1] = ts[i]
  <2>1. /\ us \in Seq(Table) /\ Len(us) = 1 + Len(ts)
        /\ \A i \in 1 .. 1 + Len(ts) : us[i] = IF i <= 1 THEN <<t>>[i] ELSE ts[i - 1]
    BY <1>2, ConcatProperties
  <2> HIDE DEF us
  <2>2. us[1] = t
    BY <1>1, <2>1
  <2>3. ASSUME NEW i \in 1..Len(ts) PROVE us[i + 1] = ts[i]
    <3>1. i + 1 \in 1 .. 1 + Len(ts) /\ ~(i + 1 <= 1) /\ (i + 1) - 1 = i
      BY <1>1
    <3>2. us[i + 1] = ts[(i + 1) - 1]
      BY <2>1, <3>1
    <3> QED BY <3>1, <3>2
  <2> QED BY <2>1, <2>2, <2>3
<1>4. DOMAIN us = 1 .. 1 + Len(ts)
  BY <1>3, LenProperties
<1> HIDE DEF us
<1>5. CASE t[k] # Absent
  <2>1. 1 \in DOMAIN us /\ \A j \in DOMAIN us : ~(j < 1)
    BY <1>1, <1>4
  <2>2. FirstRecord(us, k) = us[1][k]
    BY <1>3, <1>5, <2>1, FirstRecordAt
  <2> QED BY <1>3, <1>5, <2>2 DEF us
<1>6. CASE t[k] = Absent /\ \A i \in DOMAIN ts : ts[i][k] = Absent
  <2>1. ASSUME NEW i \in DOMAIN us PROVE us[i][k] = Absent
    <3>1. i = 1 \/ (i - 1 \in 1..Len(ts) /\ us[(i - 1) + 1] = ts[i - 1] /\ (i - 1) + 1 = i)
      BY <1>1, <1>3, <1>4
    <3> QED BY <1>1, <1>3, <1>6, <3>1
  <2>2. FirstRecord(us, k) = Absent
    BY <1>3, <2>1, FirstRecordProperties
  <2>3. FirstRecord(ts, k) = Absent
    BY <1>6, FirstRecordProperties
  <2> QED BY <1>6, <2>2, <2>3 DEF us
<1>7. ASSUME t[k] = Absent, NEW x \in DOMAIN ts, ts[x][k] # Absent
      PROVE  FirstRecord(us, k) = FirstRecord(ts, k)
  <2> DEFINE S == {i \in DOMAIN ts : ts[i][k] # Absent}
  <2>1. S \subseteq Nat /\ S # {}
    BY <1>1, <1>7
  <2>2. PICK m \in DOMAIN ts : ts[m][k] # Absent /\ \A i \in DOMAIN ts : i < m => ts[i][k] = Absent
    <3>1. Min(S) \in S /\ \A i \in S : Min(S) <= i
      <4> HIDE DEF S
      <4> QED BY <2>1, MinProperties
    <3>2. \A i \in DOMAIN ts : i < Min(S) => i \notin S
      <4>1. \A i \in S : i \in Nat /\ Min(S) \in Nat
        BY <2>1, <3>1
      <4> HIDE DEF S
      <4> QED BY <3>1, <4>1
    <3> QED BY <3>1, <3>2
  <2>3. FirstRecord(ts, k) = ts[m][k]
    BY <2>2, FirstRecordAt
  <2>4. m + 1 \in DOMAIN us /\ us[m + 1] = ts[m]
    BY <1>1, <1>3, <1>4
  <2>5. ASSUME NEW j \in DOMAIN us, j < m + 1 PROVE us[j][k] = Absent
    <3>1. CASE j = 1
      BY <1>3, <1>7, <3>1
    <3>2. CASE j # 1
      <4>1. j - 1 \in DOMAIN ts /\ j - 1 < m /\ us[(j - 1) + 1] = ts[j - 1] /\ (j - 1) + 1 = j
        BY <1>1, <1>3, <1>4, <2>5, <3>2
      <4> QED BY <2>2, <4>1
    <3> QED BY <3>1, <3>2
  <2>6. FirstRecord(us, k) = us[m + 1][k]
    BY <1>3, <2>2, <2>4, <2>5, FirstRecordAt
  <2> QED BY <2>3, <2>4, <2>6
<1> QED BY <1>5, <1>6, <1>7 DEF us

\* A search through files that hold records of V only under a key, and one at
\* least, finds one of them.
LEMMA FirstRecordIn ==
    ASSUME NEW ts \in Seq(Table), NEW k \in Keys, NEW V \in SUBSET Values,
           \A t \in ToSet(ts) : t[k] \in V \cup {Absent},
           \E t \in ToSet(ts) : t[k] \in V
    PROVE  FirstRecord(ts, k) \in V
<1>1. \A i \in DOMAIN ts : ts[i][k] \in V \cup {Absent}
  BY DEF ToSet
<1>2. \E i \in DOMAIN ts : ts[i][k] \in V
  BY DEF ToSet
<1>3. Absent \notin V
  BY TablesAssumption
<1> QED BY <1>1, <1>2, <1>3, FirstRecordProperties

\* The members of a concatenation, and of a sequence read backwards.
LEMMA ConcatMembers ==
    ASSUME NEW S, NEW a \in Seq(S), NEW b \in Seq(S)
    PROVE  ToSet(a \o b) = ToSet(a) \cup ToSet(b)
<1> DEFINE m == Len(a)
           n == Len(b)
           c == a \o b
<1>1. /\ m \in Nat /\ n \in Nat /\ DOMAIN a = 1..m /\ DOMAIN b = 1..n
      /\ DOMAIN c = 1 .. m + n
      /\ \A i \in 1 .. m + n : c[i] = IF i <= m THEN a[i] ELSE b[i - m]
  BY ConcatProperties, LenProperties
<1> HIDE DEF m, n, c
<1>2. ASSUME NEW i \in DOMAIN c
      PROVE  (\E j \in DOMAIN a : c[i] = a[j]) \/ (\E j \in DOMAIN b : c[i] = b[j])
  <2>1. CASE i <= m
    BY <1>1, <2>1
  <2>2. CASE ~(i <= m)
    <3>1. i - m \in DOMAIN b
      BY <1>1, <2>2
    <3> QED BY <1>1, <2>2, <3>1
  <2> QED BY <2>1, <2>2
<1>3. \A j \in DOMAIN a : j \in DOMAIN c /\ c[j] = a[j]
  BY <1>1
<1>4. ASSUME NEW j \in DOMAIN b
      PROVE  \E i \in DOMAIN c : c[i] = b[j]
  <2>1. m + j \in DOMAIN c /\ ~(m + j <= m) /\ (m + j) - m = j
    BY <1>1
  <2> QED BY <1>1, <2>1
<1>5. ToSet(c) = ToSet(a) \cup ToSet(b)
  BY <1>2, <1>3, <1>4 DEF ToSet
<1> QED BY <1>5 DEF c

LEMMA ReverseMembers ==
    ASSUME NEW S, NEW s \in Seq(S)
    PROVE  Reverse(s) \in Seq(S) /\ ToSet(Reverse(s)) = ToSet(s)
<1> DEFINE n == Len(s)
<1>1. n \in Nat /\ DOMAIN s = 1..n /\ \A i \in 1..n : s[i] \in S
  BY LenProperties, ElementOfSeq
<1>2. Reverse(s) = [i \in 1..n |-> s[(n - i) + 1]]
  BY DEF Reverse
<1> HIDE DEF n
<1>3. \A i \in 1..n : (n - i) + 1 \in 1..n /\ (n - ((n - i) + 1)) + 1 = i
  BY <1>1
<1>4. Reverse(s) \in [1..n -> S]
  BY <1>1, <1>2, <1>3
<1>5. Reverse(s) \in Seq(S) /\ DOMAIN Reverse(s) = 1..n
  BY <1>1, <1>4, SeqDef
<1>6. \A j \in 1..n : Reverse(s)[(n - j) + 1] = s[j]
  BY <1>1, <1>2, <1>3
<1>7. \A i \in 1..n : Reverse(s)[i] = s[(n - i) + 1]
  BY <1>2
<1> QED BY <1>1, <1>3, <1>5, <1>6, <1>7 DEF ToSet

\* A list that has one record of a key, or none, is searched for that record.
LEMMA FirstRecordOnly ==
    ASSUME NEW ts \in Seq(Table), NEW k \in Keys, NEW x \in Values \cup {Absent},
           \A t \in ToSet(ts) : t[k] \in {x, Absent},
           x # Absent => \E t \in ToSet(ts) : t[k] = x
    PROVE  FirstRecord(ts, k) = x
<1>1. CASE x # Absent
  <2>1. {x} \in SUBSET Values
    BY <1>1
  <2>2. \A t \in ToSet(ts) : t[k] \in {x} \cup {Absent}
    OBVIOUS
  <2>3. \E t \in ToSet(ts) : t[k] \in {x}
    BY <1>1
  <2> QED BY <2>1, <2>2, <2>3, FirstRecordIn
<1>2. CASE x = Absent
  <2>1. \A i \in DOMAIN ts : ts[i][k] = Absent
    BY <1>2 DEF ToSet
  <2> QED BY <1>2, <2>1, FirstRecordProperties
<1> QED BY <1>1, <1>2

\* A search through two lists, one behind the other.
LEMMA FirstRecordConcat ==
    ASSUME NEW a \in Seq(Table), NEW b \in Seq(Table), NEW k \in Keys
    PROVE  FirstRecord(a \o b, k) =
              IF FirstRecord(a, k) # Absent THEN FirstRecord(a, k) ELSE FirstRecord(b, k)
<1> DEFINE m == Len(a)
           c == a \o b
           InA == {i \in DOMAIN a : a[i][k] # Absent}
           InB == {i \in DOMAIN b : b[i][k] # Absent}
<1>1. /\ m \in Nat /\ Len(b) \in Nat /\ DOMAIN a = 1..m /\ DOMAIN b = 1..Len(b)
      /\ c \in Seq(Table) /\ DOMAIN c = 1 .. m + Len(b)
      /\ \A i \in 1 .. m + Len(b) : c[i] = IF i <= m THEN a[i] ELSE b[i - m]
  BY LenProperties, ConcatProperties
<1> HIDE DEF m, c
<1>2. ASSUME InA # {}
      PROVE  FirstRecord(c, k) = FirstRecord(a, k) /\ FirstRecord(a, k) # Absent
  <2>1. InA \subseteq Nat
    BY <1>1
  <2>2. PICK i \in InA : \A j \in InA : i <= j
    BY <1>2, <2>1, MinProperties
  <2>3. i \in DOMAIN a /\ a[i][k] # Absent /\ \A j \in DOMAIN a : j < i => a[j][k] = Absent
    BY <1>1, <2>2
  <2>4. FirstRecord(a, k) = a[i][k]
    BY <2>3, FirstRecordAt
  <2>5. i \in DOMAIN c /\ c[i] = a[i] /\ \A j \in DOMAIN c : j < i => c[j][k] = Absent
    BY <1>1, <2>3
  <2>6. FirstRecord(c, k) = c[i][k]
    BY <1>1, <2>3, <2>5, FirstRecordAt
  <2> QED BY <2>3, <2>4, <2>5, <2>6
<1>3. ASSUME InA = {}
      PROVE  FirstRecord(a, k) = Absent
  BY <1>3, FirstRecordProperties
<1>4. ASSUME InA = {}, InB # {}
      PROVE  FirstRecord(c, k) = FirstRecord(b, k)
  <2>1. InB \subseteq Nat
    BY <1>1
  <2>2. PICK i \in InB : \A j \in InB : i <= j
    BY <1>4, <2>1, MinProperties
  <2>3. i \in DOMAIN b /\ b[i][k] # Absent /\ \A j \in DOMAIN b : j < i => b[j][k] = Absent
    BY <1>1, <2>2
  <2>4. FirstRecord(b, k) = b[i][k]
    BY <2>3, FirstRecordAt
  <2>5. PICK n \in DOMAIN c : n = m + i /\ c[n] = b[i]
    BY <1>1, <2>3
  <2>6. \A j \in DOMAIN c : j < n => c[j][k] = Absent
    <3> SUFFICES ASSUME NEW j \in DOMAIN c, j < n
                 PROVE  c[j][k] = Absent
      OBVIOUS
    <3>1. CASE j <= m
      BY <3>1, <1>1, <1>4
    <3>2. CASE ~(j <= m)
      <4>1. j - m \in DOMAIN b /\ j - m < i
        BY <3>2, <1>1, <2>3, <2>5
      <4> QED BY <3>2, <4>1, <1>1, <2>3
    <3> QED BY <3>1, <3>2
  <2>7. c[n][k] # Absent /\ c \in Seq(Table)
    BY <1>1, <2>3, <2>5
  <2>8. FirstRecord(c, k) = c[n][k]
    BY <2>6, <2>7, FirstRecordAt
  <2> QED BY <2>4, <2>5, <2>8
<1>5. ASSUME InA = {}, InB = {}
      PROVE  FirstRecord(c, k) = Absent /\ FirstRecord(b, k) = Absent
  <2>1. \A j \in DOMAIN c : c[j][k] = Absent
    <3> SUFFICES ASSUME NEW j \in DOMAIN c
                 PROVE  c[j][k] = Absent
      OBVIOUS
    <3>1. CASE j <= m
      BY <3>1, <1>1, <1>5
    <3>2. CASE ~(j <= m)
      <4>1. j - m \in DOMAIN b
        BY <3>2, <1>1
      <4> QED BY <3>2, <4>1, <1>1, <1>5
    <3> QED BY <3>1, <3>2
  <2> QED BY <1>1, <1>5, <2>1, FirstRecordProperties
<1>6. FirstRecord(c, k) =
        IF FirstRecord(a, k) # Absent THEN FirstRecord(a, k) ELSE FirstRecord(b, k)
  BY <1>2, <1>3, <1>4, <1>5
<1> QED BY <1>6 DEF c
=============================================================================
