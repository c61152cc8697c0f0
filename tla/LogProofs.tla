------------------------------ MODULE LogProofs ------------------------------
(***************************************************************************)
(* Lemmas about the operators of Wal.tla, for every log.                   *)
(***************************************************************************)
EXTENDS Wal, SequenceTheorems, WellFoundedInduction, TLAPS

\* Replay returns a prefix of the frames, without a torn one, that reaches as
\* far as the frames in front of the first torn one do.
LEMMA ReplayProperties ==
    ASSUME NEW frames \in Seq(Frames)
    PROVE  /\ replay(frames) \in Seq(Frames)
           /\ Len(replay(frames)) <= Len(frames)
           /\ \A i \in DOMAIN replay(frames) :
                  replay(frames)[i] = frames[i] /\ frames[i] # Torn
           /\ \A i \in DOMAIN frames :
                  (\A j \in 1..i : frames[j] # Torn) => i \in DOMAIN replay(frames)
<1> DEFINE T == TornFrames(frames)
<1>1. T \subseteq Nat /\ T = {i \in 1..Len(frames) : frames[i] = Torn} /\ Len(frames) \in Nat
  BY LenProperties DEF TornFrames
<1>2. CASE T = {}
  <2>1. replay(frames) = frames
    BY <1>2 DEF replay
  <2> QED BY <2>1, <1>1, <1>2, LenProperties
<1>3. CASE T # {}
  <2> DEFINE m == Min(T)
  <2>1. m \in T /\ \A x \in T : m <= x
    <3> HIDE DEF T
    <3>1. PICK x \in T : \A y \in T : <<y, x>> \notin OpToRel(<, Nat)
      BY <1>1, <1>3, NatLessThanWellFounded, WFMin
    <3>2. \A y \in T : x <= y
      <4> TAKE y \in T
      <4>1. x \in Nat /\ y \in Nat
        BY <1>1
      <4>2. y < x => <<y, x>> \in OpToRel(<, Nat)
        BY <4>1 DEF OpToRel
      <4>3. ~(y < x)
        BY <3>1, <4>2
      <4> QED BY <4>1, <4>3
    <3> QED BY <3>2 DEF Min, m
  <2>2. m \in 1..Len(frames) /\ frames[m] = Torn
    BY <2>1, <1>1
  <2>3. replay(frames) = SubSeq(frames, 1, m - 1)
    BY <1>3 DEF replay
  <2> HIDE DEF m, T
  <2>4. /\ replay(frames) \in Seq(Frames)
        /\ Len(replay(frames)) = m - 1
        /\ \A i \in 1..m - 1 : replay(frames)[i] = frames[i]
    BY <2>2, <2>3, <1>1, SubSeqProperties
  <2>5. \A i \in 1..m - 1 : frames[i] # Torn
    BY <2>1, <2>2, <1>1
  <2>6. DOMAIN replay(frames) = 1..m - 1
    BY <2>4, <2>2, LenProperties
  <2>7. \A i \in DOMAIN frames : (\A j \in 1..i : frames[j] # Torn) => i < m
    BY <2>2, <1>1, LenProperties
  <2> QED BY <2>2, <2>4, <2>5, <2>6, <2>7, <1>1, LenProperties
<1> QED BY <1>2, <1>3

\* The log after append and append_torn, and a part of it: the frames it had, up
\* to some point, and perhaps one more.
LEMMA AppendedLog ==
    ASSUME NEW frames \in Seq(Frames), NEW f \in Frames
    PROVE  /\ Append(frames, f) \in Seq(Frames)
           /\ Len(Append(frames, f)) = Len(frames) + 1
           /\ DOMAIN Append(frames, f) = 1..Len(frames) + 1
           /\ \A i \in 1..Len(frames) : Append(frames, f)[i] = frames[i]
           /\ Append(frames, f)[Len(frames) + 1] = f
  BY AppendProperties, LenProperties

LEMMA CutLog ==
    ASSUME NEW frames \in Seq(Frames), NEW n \in 0..Len(frames)
    PROVE  /\ SubSeq(frames, 1, n) \in Seq(Frames)
           /\ Len(SubSeq(frames, 1, n)) = n
           /\ DOMAIN SubSeq(frames, 1, n) = 1..n
           /\ \A i \in 1..n : SubSeq(frames, 1, n)[i] = frames[i]
  BY SubSeqProperties, LenProperties

\* What replay makes of one more frame behind whole ones.
LEMMA AppendReplay ==
    ASSUME NEW frames \in Seq(Frames), TornFrames(frames) = {}, NEW f \in Frames
    PROVE  /\ replay(frames) = frames
           /\ f # Torn => /\ replay(Append(frames, f)) = Append(frames, f)
                          /\ TornFrames(Append(frames, f)) = {}
           /\ f = Torn => /\ replay(Append(frames, f)) = frames
                          /\ TornFrames(Append(frames, f)) = {Len(frames) + 1}
<1> DEFINE n == Len(frames)
           more == Append(frames, f)
<1>1. /\ n \in Nat /\ DOMAIN frames = 1..n
      /\ more \in Seq(Frames) /\ Len(more) = n + 1 /\ DOMAIN more = 1 .. n + 1
      /\ more[n + 1] = f /\ \A i \in 1..n : more[i] = frames[i]
  BY AppendedLog, LenProperties
<1>2. replay(frames) = frames /\ \A i \in 1..n : frames[i] # Torn
  BY <1>1 DEF replay, TornFrames
<1>3. \A i \in 1 .. n + 1 : i \in 1..n \/ i = n + 1
  BY <1>1
<1>4. n + 1 \in 1 .. n + 1 /\ (n + 1) - 1 = n
  BY <1>1
<1> HIDE DEF more, n
<1>5. ASSUME f # Torn PROVE replay(more) = more /\ TornFrames(more) = {}
  <2>1. TornFrames(more) = {}
    BY <1>1, <1>2, <1>3, <1>5 DEF TornFrames
  <2> QED BY <2>1 DEF replay
<1>6. ASSUME f = Torn PROVE replay(more) = frames /\ TornFrames(more) = {n + 1}
  <2>1. TornFrames(more) = {n + 1}
    BY <1>1, <1>2, <1>3, <1>4, <1>6 DEF TornFrames
  <2>2. Min({n + 1}) = n + 1
    BY <1>1 DEF Min
  <2>3. replay(more) = SubSeq(more, 1, n)
    BY <1>4, <2>1, <2>2 DEF replay
  <2>4. SubSeq(more, 1, n) = frames
    <3> DEFINE t == SubSeq(more, 1, n)
    <3>1. n \in 0..Len(more)
      BY <1>1
    <3>2. t \in Seq(Frames) /\ Len(t) = n /\ \A i \in 1..n : t[i] = more[i]
      BY <1>1, <3>1, CutLog
    <3> HIDE DEF t
    <3> QED BY <1>1, <3>2, SeqEqual DEF t, n
  <2> QED BY <2>1, <2>3, <2>4
<1> QED BY <1>2, <1>5, <1>6 DEF more, n

\* What a power loss leaves: n frames as they were, at least those that were
\* synced, and perhaps a torn one in place of the next.
LEMMA LeavingsProperties ==
    ASSUME NEW frames \in Seq(Frames), NEW m \in 0..Len(frames),
           NEW left \in Leavings(frames, m)
    PROVE  \E n \in m..Len(frames) :
             /\ left \in Seq(Frames)
             /\ Len(left) \in {n, n + 1} /\ Len(left) <= Len(frames)
             /\ \A i \in 1..n : left[i] = frames[i]
             /\ Len(left) = n + 1 => left[n + 1] = Torn
<1>1. Len(frames) \in Nat /\ Torn \in Frames
  BY LenProperties DEF Frames
<1>2. \A n \in m..Len(frames) : n \in 0..Len(frames)
  BY <1>1
<1>3. CASE \E n \in m..Len(frames) : left = SubSeq(frames, 1, n)
  <2>1. PICK n \in m..Len(frames) : left = SubSeq(frames, 1, n)
    BY <1>3
  <2>2. left \in Seq(Frames) /\ Len(left) = n /\ \A i \in 1..n : left[i] = frames[i]
    BY <1>2, <2>1, CutLog
  <2> QED BY <1>1, <2>2
<1>4. CASE \E n \in m..Len(frames) - 1 : left = Append(SubSeq(frames, 1, n), Torn)
  <2>1. PICK n \in m..Len(frames) - 1 : left = Append(SubSeq(frames, 1, n), Torn)
    BY <1>4
  <2>2. n \in m..Len(frames) /\ n + 1 <= Len(frames)
    BY <1>1, <2>1
  <2> DEFINE cut == SubSeq(frames, 1, n)
  <2>3. cut \in Seq(Frames) /\ Len(cut) = n /\ \A i \in 1..n : cut[i] = frames[i]
    BY <1>2, <2>2, CutLog
  <2> HIDE DEF cut
  <2>4. left = Append(cut, Torn)
    BY <2>1 DEF cut
  <2>5. /\ left \in Seq(Frames) /\ Len(left) = n + 1 /\ left[n + 1] = Torn
        /\ \A i \in 1..n : left[i] = frames[i]
    BY <1>1, <2>3, <2>4, AppendedLog
  <2> QED BY <2>2, <2>5
<1> QED BY <1>3, <1>4 DEF Leavings
=============================================================================
