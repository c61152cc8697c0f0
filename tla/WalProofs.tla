----------------------------- MODULE WalProofs -----------------------------
(***************************************************************************)
(* Theorems about WalSession.tla, for every number of appends, sessions,   *)
(* torn writes and power losses, and about WalBytes.tla, for every width of*)
(* cells and words, every polynomial and every payload besides.            *)
(***************************************************************************)
EXTENDS WalBytes, LogProofs

-----------------------------------------------------------------------------
(***************************************************************************)
(* Type correctness.                                                       *)
(***************************************************************************)

\* A power loss leaves a part of the file, or of one from before a truncate.
LEMMA BlackoutFile ==
    ASSUME SessionTypeOK, blackout
    PROVE  \E s \in stale \cup {[frames |-> log, synced |-> synced, floor |-> floor]} :
             /\ s.frames \in Seq(Frames) /\ s.synced \in 0..Len(s.frames)
             /\ s.floor \in 0..appends /\ Len(s.frames) <= appends - s.floor
             /\ power_loss(s.frames, s.synced) /\ floor' = s.floor
<1> DEFINE now == [frames |-> log, synced |-> synced, floor |-> floor]
<1>1. CASE power_loss(log, synced) /\ floor' = floor
  <2>1. now.frames = log /\ now.synced = synced /\ now.floor = floor
    OBVIOUS
  <2> HIDE DEF now
  <2>2. /\ now.frames \in Seq(Frames) /\ now.synced \in 0..Len(now.frames)
        /\ now.floor \in 0..appends /\ Len(now.frames) <= appends - now.floor
        /\ power_loss(now.frames, now.synced) /\ floor' = now.floor
    BY <1>1, <2>1 DEF SessionTypeOK
  <2>3. now \in stale \cup {now}
    OBVIOUS
  <2>4. now = [frames |-> log, synced |-> synced, floor |-> floor]
    BY DEF now
  <2> QED BY <2>2, <2>3, <2>4
<1>2. CASE \E s \in stale : power_loss(s.frames, s.synced) /\ floor' = s.floor
  <2>1. PICK s \in stale : power_loss(s.frames, s.synced) /\ floor' = s.floor
    BY <1>2
  <2>2. s \in OldFiles
    BY <2>1 DEF SessionTypeOK
  <2>3. /\ s.frames \in Seq(Frames) /\ s.synced \in Nat /\ s.synced <= Len(s.frames)
        /\ s.floor \in 0..appends /\ Len(s.frames) <= appends - s.floor
    BY <2>2 DEF OldFiles
  <2>4. s.synced \in 0..Len(s.frames)
    BY <2>3, LenProperties
  <2> HIDE DEF now
  <2> QED BY <2>1, <2>3, <2>4
<1> QED BY <1>1, <1>2 DEF blackout

\* The files of before a truncate keep their type while calls of append go on.
LEMMA OldFilesStay ==
    ASSUME SessionTypeOK, appends' \in {appends, appends + 1}
    PROVE  OldFiles \subseteq OldFiles'
<1> SUFFICES ASSUME NEW s \in OldFiles PROVE s \in OldFiles'
  OBVIOUS
<1>1. /\ s \in [frames : Seq(Frames), synced : Nat, floor : 0..appends]
      /\ s.synced <= Len(s.frames) /\ Len(s.frames) <= appends - s.floor
  BY DEF OldFiles
<1>2. appends \in Nat /\ s.floor \in 0..appends /\ Len(s.frames) \in Nat
  BY <1>1, SessionAssumption, LenProperties DEF SessionTypeOK
<1>3. 0..appends \subseteq 0..appends' /\ Len(s.frames) <= appends' - s.floor
  BY <1>1, <1>2
<1>4. s \in [frames : Seq(Frames), synced : Nat, floor : 0..appends']
  BY <1>1, <1>3
<1> QED BY <1>1, <1>3, <1>4 DEF OldFiles

\* The log is a sequence of frames after every step that adds one.
LEMMA AppendsKeepType ==
    ASSUME SessionTypeOK, appends < MaxAppends,
           append_torn \/ \E sync \in BOOLEAN : append(appends + 1, sync)
    PROVE  /\ log' \in Seq(Frames)
           /\ Len(log') = Len(log) + 1
           /\ \A i \in 1..Len(log) : log'[i] = log[i]
           /\ log'[Len(log) + 1] \in {appends + 1, Torn}
           /\ synced' \in {synced, Len(log')}
           /\ appends + 1 \in Entries
<1>1. appends + 1 \in Entries /\ appends + 1 \in Frames /\ Torn \in Frames
  BY SessionAssumption DEF SessionTypeOK, Frames
<1>2. log \in Seq(Frames) /\ DOMAIN log = 1..Len(log)
  BY LenProperties DEF SessionTypeOK
<1>3. CASE append_torn
  BY <1>1, <1>2, <1>3, AppendedLog DEF append_torn
<1>4. ASSUME NEW sync \in BOOLEAN, append(appends + 1, sync)
      PROVE  /\ log' = Append(log, appends + 1)
             /\ synced' \in {synced, Len(log')}
  BY <1>4 DEF append
<1>5. CASE \E sync \in BOOLEAN : append(appends + 1, sync)
  BY <1>1, <1>2, <1>4, <1>5, AppendedLog
<1> QED BY <1>3, <1>5

\* The initial state has its types.
LEMMA SessionInitTyped ==
    ASSUME SessionInit
    PROVE  SessionTypeOK
<1>1. log = <<>> /\ Len(log) = 0 /\ log \in Seq(Frames)
  BY EmptySeq DEF SessionInit, WalInit
<1> QED
  <2>1. /\ synced \in 0..Len(log) /\ floor \in 0..appends /\ appends \in 0..MaxAppends
        /\ Len(log) <= appends - floor
    BY <1>1, SessionAssumption DEF SessionInit, WalInit
  <2>2. /\ promised \in SUBSET (1..appends) /\ durable \in SUBSET promised
        /\ stale \subseteq OldFiles
    BY DEF SessionInit
  <2> QED
    BY <1>1, <2>1, <2>2 DEF SessionInit, SessionTypeOK

\* No step leaves them.
LEMMA SessionStepTyped ==
    ASSUME SessionTypeOK, [SessionNext]_sessionVars
    PROVE  SessionTypeOK'
<1>0. /\ MaxAppends \in Nat /\ Len(log) \in Nat
      /\ appends \in Nat /\ floor \in Nat /\ floor <= appends /\ Len(log) <= appends - floor
  BY SessionAssumption, LenProperties DEF SessionTypeOK
<1>1. CASE wal_open
  <2>1. OldFiles' = OldFiles
    BY <1>1 DEF wal_open, OldFiles
  <2> QED BY <1>1, <2>1 DEF wal_open, SessionTypeOK, walVars
<1>2. ASSUME NEW sync \in BOOLEAN, append_ok(sync)
      PROVE  SessionTypeOK'
  <2>1. appends < MaxAppends /\ \E b \in BOOLEAN : append(appends + 1, b)
    BY <1>2 DEF append_ok
  <2>2. log' \in Seq(Frames) /\ synced' \in 0..Len(log') /\ Len(log') = Len(log) + 1
    BY <2>1, <1>0, AppendsKeepType DEF SessionTypeOK
  <2>3. /\ appends' = appends + 1 /\ opened' = opened /\ floor' = floor
        /\ promised' = promised \cup {appends + 1}
        /\ durable' \in {promised', durable} /\ stale' \in {{}, stale}
    BY <1>2 DEF append_ok
  <2>4. stale' \subseteq OldFiles'
    BY <2>3, OldFilesStay DEF SessionTypeOK
  <2>5. /\ appends' \in 0..MaxAppends /\ floor' \in 0..appends'
        /\ Len(log') <= appends' - floor'
    BY <1>0, <2>1, <2>2, <2>3
  <2>6. promised' \in SUBSET (1..appends') /\ durable' \in SUBSET promised'
    BY <1>0, <2>3 DEF SessionTypeOK
  <2> QED
    BY <2>2, <2>3, <2>4, <2>5, <2>6 DEF SessionTypeOK
<1>3. CASE append_failed
  <2>1. /\ appends < MaxAppends
        /\ append_torn \/ \E b \in BOOLEAN : append(appends + 1, b)
    BY <1>3 DEF append_failed
  <2>2. log' \in Seq(Frames) /\ synced' \in 0..Len(log') /\ Len(log') = Len(log) + 1
    BY <2>1, <1>0, AppendsKeepType DEF SessionTypeOK
  <2>3. /\ appends' = appends + 1 /\ opened' = opened /\ floor' = floor
        /\ promised' = promised /\ durable' = durable /\ stale' = stale
    BY <1>3 DEF append_failed
  <2>4. stale' \subseteq OldFiles'
    BY <2>3, OldFilesStay DEF SessionTypeOK
  <2>5. /\ appends' \in 0..MaxAppends /\ floor' \in 0..appends'
        /\ Len(log') <= appends' - floor' /\ 1..appends \subseteq 1..appends'
    BY <1>0, <2>1, <2>2, <2>3
  <2> QED
    BY <2>2, <2>3, <2>4, <2>5 DEF SessionTypeOK
<1>4. CASE wal_truncate
  <2>1. log' \in Seq(Frames) /\ Len(log') = 0 /\ synced' = 0
    BY <1>4, EmptySeq DEF wal_truncate, truncate
  <2>2. /\ appends' = appends /\ opened' = opened /\ floor' = appends
        /\ promised' = {} /\ durable' = {}
        /\ stale' = stale \cup {[frames |-> log, synced |-> synced, floor |-> floor]}
    BY <1>4 DEF wal_truncate
  <2>3. OldFiles' = OldFiles
    BY <2>2 DEF OldFiles
  <2>4. [frames |-> log, synced |-> synced, floor |-> floor] \in OldFiles
    BY <1>0 DEF SessionTypeOK, OldFiles
  <2> QED
    BY <1>0, <2>1, <2>2, <2>3, <2>4 DEF SessionTypeOK
<1>5. CASE kill
  <2>1. /\ log' \in Seq(Frames) /\ synced' \in 0..Len(log')
        /\ appends' \in {appends, appends + 1} /\ appends' \in 0..MaxAppends
        /\ Len(log') <= appends' - floor
    <3>1. CASE UNCHANGED <<walVars, appends>>
      BY <3>1 DEF walVars, SessionTypeOK
    <3>2. CASE appends < MaxAppends /\ append_torn /\ appends' = appends + 1
      BY <3>2, <1>0, AppendsKeepType DEF SessionTypeOK
    <3> QED BY <1>5, <3>1, <3>2 DEF kill
  <2>2. /\ opened' \in BOOLEAN /\ stale' = stale
        /\ promised' = promised /\ durable' = durable /\ floor' = floor
    BY <1>5 DEF kill
  <2>3. floor' \in 0..appends' /\ 1..appends \subseteq 1..appends'
    BY <1>0, <2>1, <2>2
  <2>4. promised' \in SUBSET (1..appends') /\ durable' \in SUBSET promised'
    BY <2>2, <2>3 DEF SessionTypeOK
  <2>5. stale' \subseteq OldFiles'
    BY <2>1, <2>2, OldFilesStay DEF SessionTypeOK
  <2> QED
    BY <2>1, <2>2, <2>3, <2>4, <2>5 DEF SessionTypeOK
<1>6. CASE blackout
  <2>1. PICK s : /\ s.frames \in Seq(Frames) /\ s.synced \in 0..Len(s.frames)
                 /\ s.floor \in 0..appends /\ Len(s.frames) <= appends - s.floor
                 /\ power_loss(s.frames, s.synced) /\ floor' = s.floor
    BY <1>6, BlackoutFile
  <2>2. /\ log' \in Seq(Frames) /\ Len(log') <= Len(s.frames) /\ synced' = Len(log')
    BY <2>1, LeavingsProperties DEF power_loss
  <2>3. /\ opened' = FALSE /\ promised' = durable /\ durable' = durable
        /\ stale' = {} /\ appends' = appends
    BY <1>6 DEF blackout
  <2>4. Len(log') \in Nat /\ Len(s.frames) \in Nat
    BY <2>1, <2>2, LenProperties
  <2>5. Len(log') <= appends' - floor' /\ synced' \in 0..Len(log') /\ floor' \in 0..appends'
    BY <1>0, <2>1, <2>2, <2>3, <2>4
  <2> QED
    BY <2>2, <2>3, <2>5 DEF SessionTypeOK
<1>7. CASE UNCHANGED sessionVars
  <2>1. OldFiles' = OldFiles
    BY <1>7 DEF sessionVars, OldFiles
  <2> QED BY <1>7, <2>1 DEF sessionVars, walVars, SessionTypeOK
<1> QED
  BY <1>1, <1>2, <1>3, <1>4, <1>5, <1>6, <1>7 DEF SessionNext

\* WalSession is type correct.
THEOREM SessionTypeCorrect == SessionSpec => []SessionTypeOK
<1>1. SessionInit => SessionTypeOK
  BY SessionInitTyped
<1>2. SessionTypeOK /\ [SessionNext]_sessionVars => SessionTypeOK'
  BY SessionStepTyped
<1> QED
  BY <1>1, <1>2, PTL DEF SessionSpec

-----------------------------------------------------------------------------
(***************************************************************************)
(* What replay returns.  Whole frames are in the order of their appends,   *)
(* none is older than the latest truncate, and what was promised is in the *)
(* file, in the part that is synced if a sync covered it.  The files that a*)
(* power loss may bring back have the same order; they exist only while    *)
(* nothing is owed to one.                                                 *)
(***************************************************************************)
Ascending(frames) ==
    \A i, j \in 1..Len(frames) :
        i < j /\ frames[i] # Torn /\ frames[j] # Torn => frames[i] < frames[j]

Current(frames, low, high) ==
    \A i \in 1..Len(frames) : frames[i] # Torn => frames[i] > low /\ frames[i] <= high

Ordered(frames, low, high) == Ascending(frames) /\ Current(frames, low, high)

OldFilesOrdered ==
    /\ \A s \in stale : Ordered(s.frames, s.floor, appends)
    /\ stale # {} => durable = {}

Held == \A n \in promised : \E i \in 1..Len(log) : log[i] = n

HeldDurably == \A n \in durable : \E i \in 1..synced : log[i] = n

SessionInv ==
    SessionTypeOK /\ Ordered(log, floor, appends) /\ Held /\ HeldDurably /\ OldFilesOrdered

\* Numbers that are not torn, in a log that has its type.
LEMMA FramesAreNumbers ==
    ASSUME SessionTypeOK, NEW i \in 1..Len(log), log[i] # Torn
    PROVE  log[i] \in Entries /\ log[i] \in Nat
  BY SessionAssumption, LenProperties, ElementOfSeq DEF SessionTypeOK, Frames

\* A step that adds one frame keeps order and currency, whatever it promises.
LEMMA AppendsKeepOrder ==
    ASSUME SessionInv, appends < MaxAppends,
           append_torn \/ \E sync \in BOOLEAN : append(appends + 1, sync)
    PROVE  Ordered(log', floor, appends + 1)
<1>0. /\ Len(log) \in Nat /\ appends \in Nat /\ floor \in Nat /\ floor <= appends
      /\ SessionTypeOK
  BY SessionAssumption, LenProperties DEF SessionInv, SessionTypeOK
<1>1. /\ Len(log') = Len(log) + 1
      /\ \A i \in 1..Len(log) : log'[i] = log[i]
      /\ log'[Len(log) + 1] \in {appends + 1, Torn}
  BY <1>0, AppendsKeepType
<1>2. \A i \in 1..Len(log) : log[i] # Torn => log[i] \in Nat /\ log[i] <= appends /\ log[i] > floor
  BY <1>0, FramesAreNumbers DEF SessionInv, Ordered, Current
<1>3. \A i \in 1..Len(log') : i \in 1..Len(log) \/ i = Len(log) + 1
  BY <1>0, <1>1
<1>4. Current(log', floor, appends + 1)
  BY <1>0, <1>1, <1>2, <1>3 DEF Current
<1>5. Ascending(log')
  <2> SUFFICES ASSUME NEW i \in 1..Len(log'), NEW j \in 1..Len(log'), i < j,
                      log'[i] # Torn, log'[j] # Torn
               PROVE  log'[i] < log'[j]
    BY DEF Ascending
  <2>1. i \in 1..Len(log)
    BY <1>0, <1>1
  <2>2. CASE j \in 1..Len(log)
    BY <2>1, <2>2, <1>1 DEF SessionInv, Ordered, Ascending
  <2>3. CASE j = Len(log) + 1
    BY <2>1, <2>3, <1>0, <1>1, <1>2
  <2> QED BY <1>3, <2>2, <2>3
<1> QED BY <1>4, <1>5 DEF Ordered

\* What a power loss leaves of a file in order is in order.
LEMMA LeavingsKeepOrder ==
    ASSUME NEW frames \in Seq(Frames), NEW m \in 0..Len(frames),
           NEW low, NEW high, Ordered(frames, low, high),
           NEW left \in Leavings(frames, m)
    PROVE  Ordered(left, low, high)
<1>1. PICK n \in m..Len(frames) :
             /\ Len(left) \in {n, n + 1}
             /\ \A i \in 1..n : left[i] = frames[i]
             /\ Len(left) = n + 1 => left[n + 1] = Torn
  BY LeavingsProperties
<1>2. n \in Nat /\ n <= Len(frames) /\ Len(frames) \in Nat
  BY LenProperties
<1>3. \A i \in 1..Len(left) :
            left[i] # Torn => i \in 1..Len(frames) /\ left[i] = frames[i]
  BY <1>1, <1>2
<1> QED BY <1>3 DEF Ordered, Ascending, Current

\* What replay returns is in order and current.
LEMMA InvImpliesOrder ==
    ASSUME SessionInv
    PROVE  ReplayIsInOrder
<1> DEFINE es == replay(log)
<1>1. log \in Seq(Frames) /\ SessionTypeOK /\ Len(log) \in Nat
  BY LenProperties DEF SessionInv, SessionTypeOK
<1>2. /\ es \in Seq(Frames) /\ Len(es) <= Len(log)
      /\ \A i \in DOMAIN es : es[i] = log[i] /\ log[i] # Torn
  BY <1>1, ReplayProperties
<1> HIDE DEF es
<1>3. \A i \in DOMAIN es : i \in 1..Len(log)
  BY <1>1, <1>2, LenProperties
<1>4. \A i, j \in DOMAIN es : i < j => es[i] < es[j]
  BY <1>2, <1>3 DEF SessionInv, Ordered, Ascending
<1>5. \A i \in DOMAIN es : es[i] > floor
  BY <1>2, <1>3 DEF SessionInv, Ordered, Current
<1> QED BY <1>4, <1>5 DEF ReplayIsInOrder, es

\* With nothing behind a torn frame, what is held is replayed.
LEMMA InvImpliesLossless ==
    ASSUME SessionInv
    PROVE  TornTailLosesNothing
<1> SUFFICES ASSUME TornFrames(log) \subseteq {Len(log)}, NEW n \in promised
             PROVE  n \in ToSet(replay(log))
  BY DEF TornTailLosesNothing
<1>1. log \in Seq(Frames) /\ Len(log) \in Nat /\ DOMAIN log = 1..Len(log)
  BY LenProperties DEF SessionInv, SessionTypeOK
<1>2. PICK i \in 1..Len(log) : log[i] = n
  BY DEF SessionInv, Held
<1>3. n \in Entries
  BY SessionAssumption DEF SessionInv, SessionTypeOK
<1>4. \A j \in 1..i : log[j] # Torn
  <2> SUFFICES ASSUME NEW j \in 1..i, log[j] = Torn PROVE FALSE
    OBVIOUS
  <2>1. i \in Nat /\ j \in Nat /\ j <= i /\ i <= Len(log) /\ j \in DOMAIN log
    BY <1>1, <1>2
  <2>2. j \in TornFrames(log)
    BY <2>1 DEF TornFrames
  <2>3. j = i
    BY <1>1, <2>1, <2>2
  <2> QED BY <1>2, <1>3, <2>3, WalAssumption
<1>5. i \in DOMAIN replay(log) /\ replay(log)[i] = n
  BY <1>1, <1>2, <1>4, ReplayProperties
<1> QED
  BY <1>5 DEF ToSet

\* The files of before a truncate stay in order, and owe nothing to a sync.
LEMMA OldFilesStayOrdered ==
    ASSUME SessionTypeOK, OldFilesOrdered, stale' \subseteq stale,
           appends' \in {appends, appends + 1}, stale' = {} \/ durable' = durable
    PROVE  OldFilesOrdered'
<1> SUFFICES ASSUME NEW s \in stale' PROVE Ordered(s.frames, s.floor, appends')
  BY DEF OldFilesOrdered
<1>1. s \in stale /\ s \in OldFiles /\ Ordered(s.frames, s.floor, appends)
  BY DEF OldFilesOrdered, SessionTypeOK
<1>2. s.frames \in Seq(Frames) /\ appends \in Nat
  BY <1>1, SessionAssumption DEF OldFiles, SessionTypeOK
<1>3. \A i \in 1..Len(s.frames) : s.frames[i] # Torn => s.frames[i] \in Nat
  BY <1>2, SessionAssumption, LenProperties, ElementOfSeq DEF Frames
<1> QED BY <1>1, <1>2, <1>3 DEF Ordered, Current

\* SessionInv after a step that keeps the log or adds a frame and promises no more.
LEMMA FrameKeepsInv ==
    ASSUME SessionInv, SessionTypeOK', UNCHANGED <<promised, durable, floor, stale>>,
           \/ UNCHANGED <<walVars, appends>>
           \/ /\ appends < MaxAppends /\ appends' = appends + 1
              /\ append_torn \/ \E sync \in BOOLEAN : append(appends + 1, sync)
    PROVE  SessionInv'
<1>0. SessionTypeOK /\ Len(log) \in Nat /\ Len(log') \in Nat /\ synced \in Nat /\ synced <= Len(log)
  BY LenProperties DEF SessionInv, SessionTypeOK
<1>1. OldFilesOrdered'
  BY OldFilesStayOrdered DEF SessionInv
<1>2. CASE UNCHANGED <<walVars, appends>>
  <2>1. UNCHANGED <<log, synced, appends, promised, durable, floor>>
    BY <1>2 DEF walVars
  <2>2. Ordered(log', floor', appends') /\ Held' /\ HeldDurably'
    BY <2>1 DEF SessionInv, Held, HeldDurably
  <2> QED BY <1>1, <2>2 DEF SessionInv
<1>3. CASE /\ appends < MaxAppends /\ appends' = appends + 1
           /\ append_torn \/ \E sync \in BOOLEAN : append(appends + 1, sync)
  <2>1. Ordered(log', floor', appends')
    BY <1>3, AppendsKeepOrder
  <2>2. /\ Len(log') = Len(log) + 1
        /\ \A i \in 1..Len(log) : log'[i] = log[i]
        /\ synced' \in {synced, Len(log')}
    BY <1>0, <1>3, AppendsKeepType
  <2>3. Held'
    BY <1>0, <2>2 DEF SessionInv, Held
  <2>4. HeldDurably'
    BY <1>0, <2>2 DEF SessionInv, HeldDurably
  <2> QED BY <1>1, <2>1, <2>3, <2>4 DEF SessionInv
<1> QED BY <1>2, <1>3

\* SessionInv after an append that returns Ok.
LEMMA AppendKeepsInv ==
    ASSUME SessionInv, SessionTypeOK', NEW sync \in BOOLEAN, append_ok(sync)
    PROVE  SessionInv'
<1>0. SessionTypeOK /\ Len(log) \in Nat /\ synced \in Nat /\ synced <= Len(log) /\ appends \in Nat
  BY SessionAssumption, LenProperties DEF SessionInv, SessionTypeOK
<1>1. /\ appends < MaxAppends /\ appends' = appends + 1 /\ floor' = floor
      /\ append(appends + 1, sync)
      /\ promised' = promised \cup {appends + 1}
      /\ durable' = (IF sync THEN promised' ELSE durable)
      /\ stale' = (IF sync THEN {} ELSE stale)
  BY DEF append_ok
<1>2. Ordered(log', floor', appends')
  BY <1>1, AppendsKeepOrder
<1>3. /\ Len(log') = Len(log) + 1
      /\ \A i \in 1..Len(log) : log'[i] = log[i]
      /\ log'[Len(log) + 1] = appends + 1
      /\ synced' = IF sync THEN Len(log') ELSE synced
  <2>1. appends + 1 \in Frames
    BY <1>1, <1>0, SessionAssumption DEF Frames
  <2> QED BY <1>1, <2>1, <1>0, AppendedLog DEF append, SessionTypeOK
<1>4. Held'
  BY <1>0, <1>1, <1>3 DEF SessionInv, Held
<1>5. HeldDurably'
  <2>1. CASE sync
    BY <2>1, <1>1, <1>3, <1>4 DEF Held, HeldDurably
  <2>2. CASE ~sync
    BY <2>2, <1>0, <1>1, <1>3 DEF SessionInv, HeldDurably
  <2> QED BY <2>1, <2>2
<1>6. OldFilesOrdered'
  <2>1. stale' \subseteq stale /\ (stale' = {} \/ durable' = durable)
    BY <1>1
  <2> QED BY <1>0, <1>1, <2>1, OldFilesStayOrdered DEF SessionInv
<1> QED BY <1>2, <1>4, <1>5, <1>6 DEF SessionInv

\* SessionInv after a truncate: nothing is owed, the old file joins the others.
LEMMA TruncateKeepsInv ==
    ASSUME SessionInv, SessionTypeOK', wal_truncate
    PROVE  SessionInv'
<1>1. Len(log') = 0 /\ promised' = {} /\ durable' = {} /\ appends' = appends
  BY EmptySeq DEF wal_truncate, truncate
<1>2. Ordered(log', floor', appends') /\ Held' /\ HeldDurably'
  BY <1>1 DEF Ordered, Ascending, Current, Held, HeldDurably
<1>3. OldFilesOrdered'
  <2> SUFFICES ASSUME NEW s \in stale' PROVE Ordered(s.frames, s.floor, appends)
    BY <1>1 DEF OldFilesOrdered
  <2>1. CASE s \in stale
    BY <2>1 DEF SessionInv, OldFilesOrdered
  <2>2. CASE s = [frames |-> log, synced |-> synced, floor |-> floor]
    BY <2>2 DEF SessionInv
  <2> QED BY <2>1, <2>2 DEF wal_truncate
<1> QED BY <1>2, <1>3 DEF SessionInv

\* SessionInv after a power loss.  The file is a part of what it was, with all
\* that is owed; or of an old one, and then nothing was owed to a sync.
LEMMA BlackoutKeepsInv ==
    ASSUME SessionInv, SessionTypeOK', blackout
    PROVE  SessionInv'
<1>0. SessionTypeOK /\ Len(log) \in Nat /\ synced \in Nat /\ synced <= Len(log)
  BY LenProperties DEF SessionInv, SessionTypeOK
<1>1. promised' = durable /\ durable' = durable /\ stale' = {} /\ appends' = appends
  BY DEF blackout
<1>2. PICK s \in stale \cup {[frames |-> log, synced |-> synced, floor |-> floor]} :
        /\ s.frames \in Seq(Frames) /\ s.synced \in 0..Len(s.frames)
        /\ power_loss(s.frames, s.synced) /\ floor' = s.floor
  BY <1>0, BlackoutFile
<1>3. Ordered(s.frames, s.floor, appends)
  BY <1>2 DEF SessionInv, OldFilesOrdered
<1>4. log' \in Leavings(s.frames, s.synced) /\ synced' = Len(log')
  BY <1>2 DEF power_loss
<1>5. Ordered(log', floor', appends')
  BY <1>1, <1>2, <1>3, <1>4, LeavingsKeepOrder
<1>6. OldFilesOrdered'
  BY <1>1 DEF OldFilesOrdered
<1>7. Held' /\ HeldDurably'
  <2>1. CASE durable = {}
    BY <1>1, <2>1 DEF Held, HeldDurably
  <2>2. CASE durable # {}
    <3>1. s.frames = log /\ s.synced = synced
      BY <2>2, <1>2 DEF SessionInv, OldFilesOrdered
    <3>2. PICK n \in synced..Len(log) :
            /\ Len(log') \in {n, n + 1}
            /\ \A i \in 1..n : log'[i] = log[i]
      BY <1>2, <1>4, <3>1, LeavingsProperties
    <3>3. \A i \in 1..synced : i \in 1..Len(log') /\ log'[i] = log[i]
      BY <1>0, <3>2
    <3> QED BY <1>1, <1>4, <3>3 DEF SessionInv, Held, HeldDurably
  <2> QED BY <2>1, <2>2
<1> QED BY <1>5, <1>6, <1>7 DEF SessionInv

\* The invariant is inductive.
THEOREM SessionInvariant == SessionSpec => []SessionInv
<1>1. SessionInit => SessionInv
  <2> SUFFICES ASSUME SessionInit PROVE SessionInv
    OBVIOUS
  <2>1. Len(log) = 0 /\ promised = {} /\ durable = {} /\ stale = {}
    BY EmptySeq DEF SessionInit, WalInit
  <2>2. Ordered(log, floor, appends) /\ Held /\ HeldDurably /\ OldFilesOrdered
    BY <2>1 DEF Ordered, Ascending, Current, Held, HeldDurably, OldFilesOrdered
  <2> QED
    BY <2>2, SessionInitTyped DEF SessionInv
<1>2. SessionInv /\ [SessionNext]_sessionVars => SessionInv'
  <2> SUFFICES ASSUME SessionInv, [SessionNext]_sessionVars
               PROVE  SessionInv'
    OBVIOUS
  <2>0. SessionTypeOK'
    BY SessionStepTyped DEF SessionInv
  <2>1. CASE UNCHANGED sessionVars \/ wal_open
    <3>1. UNCHANGED <<walVars, appends>> /\ UNCHANGED <<promised, durable, floor, stale>>
      BY <2>1 DEF sessionVars, wal_open
    <3> QED BY <2>0, <3>1, FrameKeepsInv
  <2>2. ASSUME NEW sync \in BOOLEAN, append_ok(sync)
        PROVE  SessionInv'
    BY <2>0, <2>2, AppendKeepsInv
  <2>3. CASE append_failed
    BY <2>0, <2>3, FrameKeepsInv DEF append_failed
  <2>4. CASE wal_truncate
    BY <2>0, <2>4, TruncateKeepsInv
  <2>5. CASE kill
    BY <2>0, <2>5, FrameKeepsInv DEF kill
  <2>6. CASE blackout
    BY <2>0, <2>6, BlackoutKeepsInv
  <2> QED
    BY <2>1, <2>2, <2>3, <2>4, <2>5, <2>6 DEF SessionNext
<1> QED
  BY <1>1, <1>2, PTL DEF SessionSpec

\* Replay returns entries in the order of their appends, each once, none from
\* before the latest truncate that no power loss undid.
THEOREM SessionReplayInOrder == SessionSpec => []ReplayIsInOrder
<1>1. SessionInv => ReplayIsInOrder
  BY InvImpliesOrder
<1> QED
  BY <1>1, SessionInvariant, PTL

\* Nothing promised is lost as long as nothing follows a torn frame.
THEOREM SessionTornTail == SessionSpec => []TornTailLosesNothing
<1>1. SessionInv => TornTailLosesNothing
  BY InvImpliesLossless
<1> QED
  BY <1>1, SessionInvariant, PTL


-----------------------------------------------------------------------------
(***************************************************************************)
(* Counting and recursion on numbers.                                      *)
(***************************************************************************)

\* A set of numbers that has a member has a least one.
LEMMA LeastMember ==
    ASSUME NEW S, S \subseteq Nat, S # {}
    PROVE  \E x \in S : \A y \in S : x <= y
<1>1. PICK x \in S : \A y \in S : <<y, x>> \notin OpToRel(<, Nat)
  BY NatLessThanWellFounded, WFMin
<1>2. \A y \in S : x <= y
  <2> TAKE y \in S
  <2>1. x \in Nat /\ y \in Nat
    OBVIOUS
  <2>2. y < x => <<y, x>> \in OpToRel(<, Nat)
    BY <2>1 DEF OpToRel
  <2>3. ~(y < x)
    BY <1>1, <2>2
  <2> QED BY <2>1, <2>3
<1> QED BY <1>2

\* What holds at 0 and goes on to the next number holds up to n.
LEMMA UpTo ==
    ASSUME NEW n \in Nat, NEW S, 0 \in S, \A m \in 0..n - 1 : m \in S => m + 1 \in S
    PROVE  \A m \in 0..n : m \in S
<1> DEFINE T == {m \in 0..n : m \notin S}
<1> SUFFICES ASSUME T # {} PROVE FALSE
  OBVIOUS
<1>1. T \subseteq Nat
  OBVIOUS
<1>2. PICK m \in T : \A x \in T : m <= x
  <2> HIDE DEF T
  <2> QED BY <1>1, LeastMember
<1>3. m # 0 /\ m - 1 \in 0..n - 1 /\ m - 1 \notin T
  <2>1. m \in 1..n
    BY <1>2
  <2>2. m - 1 \in T => m <= m - 1
    BY <1>2
  <2> QED BY <2>1, <2>2
<1>4. (m - 1) + 1 \in S
  BY <1>3
<1> QED BY <1>2, <1>4

\* f starts with base and goes on by step, in the set W, up to n.
Recurs(f, n, W, base, step) ==
    /\ f \in [0..n -> W]
    /\ \A m \in 0..n : f[m] = IF m = 0 THEN base ELSE step[<<f[m - 1], m>>]

LEMMA RecursionIsDefined ==
    ASSUME NEW n \in Nat, NEW W, NEW base \in W, NEW step \in [W \X (1..n) -> W]
    PROVE  \E f : Recurs(f, n, W, base, step)
<1> DEFINE S == {m \in 0..n : \E f : Recurs(f, m, W, base, step)}
<1>1. 0 \in S
  <2> DEFINE f == [m \in 0..0 |-> base]
  <2>1. 0..0 = {0} /\ 0 \in 0..n
    OBVIOUS
  <2>2. Recurs(f, 0, W, base, step)
    BY <2>1 DEF Recurs
  <2> HIDE DEF f
  <2> QED BY <2>1, <2>2
<1>2. ASSUME NEW m \in 0..n - 1, m \in S PROVE m + 1 \in S
  <2>1. PICK f : Recurs(f, m, W, base, step)
    BY <1>2
  <2>2. /\ m + 1 \in 1..n /\ m + 1 \in 0..n /\ m \in 0..m /\ m + 1 \notin 0..m
        /\ (m + 1) - 1 = m /\ m + 1 # 0
        /\ \A x \in 0..m + 1 : x \in 0..m \/ x = m + 1
        /\ \A x \in 0..m : x \in 0..m + 1 /\ (x # 0 => x - 1 \in 0..m)
    OBVIOUS
  <2> DEFINE next == step[<<f[m], m + 1>>]
             g == [x \in 0..m + 1 |-> IF x = m + 1 THEN next ELSE f[x]]
  <2>3. next \in W
    BY <2>1, <2>2 DEF Recurs
  <2>4. g[m + 1] = next /\ \A x \in 0..m : g[x] = f[x]
    BY <2>2
  <2>5. g \in [0..m + 1 -> W]
    <3> HIDE DEF next
    <3> QED BY <2>1, <2>2, <2>3 DEF Recurs
  <2> HIDE DEF g
  <2>6. Recurs(g, m + 1, W, base, step)
    BY <2>1, <2>2, <2>4, <2>5 DEF Recurs
  <2> QED BY <2>2, <2>6
<1>3. n \in S
  <2> HIDE DEF S
  <2> QED BY <1>1, <1>2, UpTo
<1> QED BY <1>3

-----------------------------------------------------------------------------
(***************************************************************************)
(* Words.                                                                  *)
(***************************************************************************)
LEMMA NumberIsNat ==
    ASSUME NEW w
    PROVE  Number(w) \in Nat
<1> DEFINE n == CellBits * WordCells
           bit(i) == IF CellBits * WordCells - i \in w THEN 1 ELSE 0
           step == [p \in Nat \X (1..n) |-> 2 * p[1] + bit(p[2])]
           Eq(g) == g = [i \in 0..n |-> IF i = 0 THEN 0 ELSE 2 * g[i - 1] + bit(i)]
           f == CHOOSE g : Eq(g)
<1>1. n \in Nat
  BY WalEntryAssumption
<1>2. step \in [Nat \X (1..n) -> Nat]
  <2>1. \A i : bit(i) \in Nat
    OBVIOUS
  <2> HIDE DEF bit, n
  <2> QED BY <2>1
<1> HIDE DEF n, bit, step
<1>3. PICK g : Recurs(g, n, Nat, 0, step)
  BY <1>1, <1>2, RecursionIsDefined
<1>4. Eq(g)
  <2>1. \A i \in 0..n : g[i] = IF i = 0 THEN 0 ELSE 2 * g[i - 1] + bit(i)
    <3> TAKE i \in 0..n
    <3>1. CASE i = 0
      BY <1>3, <3>1 DEF Recurs
    <3>2. CASE i # 0
      <4>1. i - 1 \in 0..n /\ i \in 1..n
        BY <1>1, <3>2
      <4>2. g[i - 1] \in Nat /\ g[i] = step[<<g[i - 1], i>>]
        BY <1>3, <3>2, <4>1 DEF Recurs
      <4> QED BY <3>2, <4>1, <4>2 DEF step
    <3> QED BY <3>1, <3>2
  <2>2. g = [i \in 0..n |-> g[i]]
    BY <1>3 DEF Recurs
  <2> QED BY <2>1, <2>2
<1>5. Eq(f)
  <2> HIDE DEF Eq
  <2> QED BY <1>4 DEF f
<1>6. Number(w) = f[n]
  BY DEF Number, f, n, bit
<1> HIDE DEF f
<1> DEFINE S == {i \in 0..n : f[i] \in Nat}
<1>7. 0 \in S
  BY <1>1, <1>5
<1>8. ASSUME NEW i \in 0..n - 1, i \in S PROVE i + 1 \in S
  <2>1. i + 1 \in 0..n /\ i + 1 # 0 /\ (i + 1) - 1 = i
    BY <1>1
  <2>2. f[i + 1] = 2 * f[i] + bit(i + 1)
    BY <1>5, <2>1
  <2>3. bit(i + 1) \in Nat
    BY DEF bit
  <2> QED BY <1>8, <2>1, <2>2, <2>3
<1>9. n \in S
  <2> HIDE DEF S
  <2> QED BY <1>1, <1>7, <1>8, UpTo
<1> QED BY <1>6, <1>9
-----------------------------------------------------------------------------
(***************************************************************************)
(* The checksum.                                                           *)
(***************************************************************************)
\* The places of a word: its cells are words, and its top bit is one.
LEMMA WordPlaces ==
    /\ CellBits \in Nat \ {0} /\ WordCells \in Nat \ {0}
    /\ CellBits * WordCells \in Nat \ {0}
    /\ CellBits <= CellBits * WordCells
    /\ CellBits * WordCells - 1 \in WordBits
    /\ Cells \subseteq SUBSET WordBits
<1>1. CellBits \in Nat \ {0} /\ WordCells \in Nat \ {0}
  BY WalEntryAssumption
<1>2. \A x, y \in Nat \ {0} : x * y \in Nat /\ x <= x * y
  <2> TAKE x, y \in Nat \ {0}
  <2>1. x * (y - 1) >= 0 /\ x * y = x * (y - 1) + x /\ x * y \in Int
    OBVIOUS
  <2> QED BY <2>1
<1>3. CellBits * WordCells \in Nat /\ CellBits <= CellBits * WordCells
  BY <1>1, <1>2
<1> DEFINE n == CellBits * WordCells
<1>4. n \in Nat /\ CellBits <= n
  BY <1>3
<1>5. WordBits = 0..n - 1
  BY DEF WordBits
<1> HIDE DEF n
<1>6. n \in Nat \ {0} /\ n - 1 \in WordBits /\ Cells \subseteq SUBSET WordBits
  BY <1>1, <1>4, <1>5 DEF Cells
<1> QED BY <1>1, <1>4, <1>6 DEF n

\* No two words go to the same word in a round: the polynomial has the top bit
\* of a word, which tells whether it was folded in.
LEMMA CrcBitInjective ==
    ASSUME NEW c \in SUBSET WordBits
    PROVE  /\ crc_bit(c) \in SUBSET WordBits
           /\ \A d \in SUBSET WordBits : crc_bit(c) = crc_bit(d) => c = d
<1> DEFINE top == CellBits * WordCells - 1
           low(x) == {b - 1 : b \in x \ {0}}
           folded(x) == IF 0 \in x THEN Polynomial ELSE {}
<1>1. top \in Nat /\ WordBits = 0..top /\ top \in Polynomial /\ Polynomial \subseteq WordBits
  BY WordPlaces, WalEntryAssumption DEF WordBits
<1> HIDE DEF top
<1>2. \A x \in SUBSET WordBits : low(x) \in SUBSET WordBits /\ top \notin low(x)
  BY <1>1
<1>3. \A x, y \in SUBSET WordBits : low(x) = low(y) => x \ {0} = y \ {0}
  <2> SUFFICES ASSUME NEW x \in SUBSET WordBits, NEW y \in SUBSET WordBits,
                      low(x) = low(y), NEW b \in x \ {0}
               PROVE  b \in y
    <3> HIDE DEF low
    <3> QED OBVIOUS
  <2>1. b - 1 \in low(y)
    OBVIOUS
  <2>2. PICK d \in y \ {0} : b - 1 = d - 1
    BY <2>1
  <2> QED BY <1>1, <2>2
<1>4. \A x : crc_bit(x) = Xor(low(x), folded(x))
  BY DEF crc_bit
<1>5. \A x \in SUBSET WordBits : top \in Xor(low(x), folded(x)) <=> 0 \in x
  <2> HIDE DEF low
  <2> QED BY <1>1, <1>2 DEF Xor
<1>6. \A x, y, z : Xor(x, z) = Xor(y, z) => x = y
  BY DEF Xor
<1>7. crc_bit(c) \in SUBSET WordBits
  <2>1. folded(c) \in SUBSET WordBits /\ low(c) \in SUBSET WordBits
    <3> HIDE DEF low
    <3> QED BY <1>1, <1>2
  <2> HIDE DEF low, folded
  <2> QED BY <1>4, <2>1 DEF Xor
<1>8. ASSUME NEW d \in SUBSET WordBits, crc_bit(c) = crc_bit(d)
      PROVE  c = d
  <2>1. 0 \in c <=> 0 \in d
    <3> HIDE DEF low, folded
    <3> QED BY <1>4, <1>5, <1>8
  <2>2. folded(c) = folded(d)
    BY <2>1
  <2>3. low(c) = low(d)
    <3> HIDE DEF low, folded
    <3> QED BY <1>4, <1>6, <1>8, <2>2
  <2>4. c \ {0} = d \ {0}
    <3> HIDE DEF low
    <3> QED BY <1>3, <2>3
  <2> QED BY <2>1, <2>4
<1> QED BY <1>7, <1>8

\* r takes the n rounds of the inner loop, from x on.
Rounds(r, n, x) ==
    /\ r \in [0..n -> SUBSET WordBits]
    /\ r[0] = x
    /\ \A i \in 1..n : r[i] = crc_bit(r[i - 1])

LEMMA CrcCellRounds ==
    ASSUME NEW crc \in SUBSET WordBits, NEW cell \in Cells
    PROVE  \E r : Rounds(r, CellBits, Xor(crc, cell)) /\ crc_cell(crc, cell) = r[CellBits]
<1> DEFINE W == SUBSET WordBits
           x == Xor(crc, cell)
           step == [p \in W \X (1..CellBits) |-> crc_bit(p[1])]
           Eq(g) == g = [i \in 0..CellBits |-> IF i = 0 THEN Xor(crc, cell) ELSE crc_bit(g[i - 1])]
           f == CHOOSE g : Eq(g)
<1>1. CellBits \in Nat /\ x \in W
  BY WordPlaces DEF Xor
<1>2. step \in [W \X (1..CellBits) -> W]
  BY CrcBitInjective
<1>3. PICK g : Recurs(g, CellBits, W, x, step)
  <2> HIDE DEF x, W, step
  <2> QED BY <1>1, <1>2, RecursionIsDefined
<1>4. Rounds(g, CellBits, x)
  <2>1. g \in [0..CellBits -> W] /\ g[0] = x
    <3>1. 0 \in 0..CellBits
      BY <1>1
    <3> HIDE DEF step, x, W
    <3> QED BY <1>3, <3>1 DEF Recurs
  <2>2. ASSUME NEW i \in 1..CellBits PROVE g[i] = crc_bit(g[i - 1])
    <3>1. i \in 0..CellBits /\ i # 0 /\ i - 1 \in 0..CellBits
      BY <1>1
    <3>2. g[i] = step[<<g[i - 1], i>>] /\ g[i - 1] \in W
      BY <1>3, <3>1 DEF Recurs
    <3> QED BY <3>2
  <2> QED BY <2>1, <2>2 DEF Rounds
<1>5. \A h : Rounds(h, CellBits, x) <=> (Eq(h) /\ \A i \in 0..CellBits : h[i] \in W)
  <2> TAKE h
  <2>1. ASSUME Rounds(h, CellBits, x) PROVE Eq(h) /\ \A i \in 0..CellBits : h[i] \in W
    <3>1. \A i \in 0..CellBits : h[i] = IF i = 0 THEN x ELSE crc_bit(h[i - 1])
      BY <1>1, <2>1 DEF Rounds
    <3>2. h = [i \in 0..CellBits |-> h[i]]
      BY <2>1 DEF Rounds
    <3>3. Eq(h)
      BY <3>1, <3>2
    <3> HIDE DEF Eq, x
    <3> QED BY <2>1, <3>3 DEF Rounds
  <2>2. ASSUME Eq(h), \A i \in 0..CellBits : h[i] \in W PROVE Rounds(h, CellBits, x)
    <3>1. h \in [0..CellBits -> W]
      BY <2>2
    <3>2. h[0] = x /\ \A i \in 1..CellBits : h[i] = crc_bit(h[i - 1])
      BY <1>1, <2>2
    <3> QED BY <3>1, <3>2 DEF Rounds
  <2> QED BY <2>1, <2>2
<1>6. Eq(f)
  <2>1. Eq(g)
    BY <1>4, <1>5
  <2> HIDE DEF Eq
  <2> QED BY <2>1 DEF f
<1>7. crc_cell(crc, cell) = f[CellBits]
  BY DEF crc_cell, f
<1> HIDE DEF f
<1> DEFINE S == {i \in 0..CellBits : f[i] \in W}
<1>8. 0 \in S
  BY <1>1, <1>6
<1>9. ASSUME NEW i \in 0..CellBits - 1, i \in S PROVE i + 1 \in S
  <2>1. i + 1 \in 0..CellBits /\ i + 1 # 0 /\ (i + 1) - 1 = i
    BY <1>1
  <2>2. f[i + 1] = crc_bit(f[i])
    BY <1>6, <2>1
  <2> QED BY <1>9, <2>1, <2>2, CrcBitInjective
<1>10. \A i \in 0..CellBits : i \in S
  <2> HIDE DEF S
  <2> QED BY <1>1, <1>8, <1>9, UpTo
<1>11. Rounds(f, CellBits, x)
  <2> HIDE DEF Eq
  <2> QED BY <1>5, <1>6, <1>10
<1> QED BY <1>7, <1>11
LEMMA CrcCellInjective ==
    ASSUME NEW c \in SUBSET WordBits, NEW d \in SUBSET WordBits,
           NEW x \in Cells, NEW y \in Cells
    PROVE  /\ crc_cell(c, x) \in SUBSET WordBits
           /\ crc_cell(c, x) = crc_cell(d, y) => Xor(c, x) = Xor(d, y)
<1>1. CellBits \in Nat
  BY WordPlaces
<1>2. PICK r : Rounds(r, CellBits, Xor(c, x)) /\ crc_cell(c, x) = r[CellBits]
  BY CrcCellRounds
<1>3. PICK q : Rounds(q, CellBits, Xor(d, y)) /\ crc_cell(d, y) = q[CellBits]
  BY CrcCellRounds
<1>4. crc_cell(c, x) \in SUBSET WordBits
  BY <1>1, <1>2 DEF Rounds
<1>5. ASSUME r[CellBits] = q[CellBits] PROVE r[0] = q[0]
  <2> DEFINE S == {m \in 0..CellBits : r[CellBits - m] = q[CellBits - m]}
  <2>1. 0 \in S
    BY <1>1, <1>5
  <2>2. ASSUME NEW m \in 0..CellBits - 1, m \in S PROVE m + 1 \in S
    <3>1. PICK i : i = CellBits - m
      OBVIOUS
    <3>2. i \in 1..CellBits /\ i - 1 \in 0..CellBits /\ i - 1 = CellBits - (m + 1)
          /\ m + 1 \in 0..CellBits
      BY <1>1, <3>1
    <3>3. r[i] = q[i]
      BY <2>2, <3>1
    <3>4. crc_bit(r[i - 1]) = crc_bit(q[i - 1])
      BY <1>2, <1>3, <3>2, <3>3 DEF Rounds
    <3>5. r[i - 1] \in SUBSET WordBits /\ q[i - 1] \in SUBSET WordBits
      BY <1>2, <1>3, <3>2 DEF Rounds
    <3>6. r[i - 1] = q[i - 1]
      BY <3>4, <3>5, CrcBitInjective
    <3> QED BY <3>2, <3>6
  <2>3. CellBits \in S
    <3> HIDE DEF S
    <3> QED BY <1>1, <2>1, <2>2, UpTo
  <2> QED BY <1>1, <2>3
<1> QED BY <1>2, <1>3, <1>4, <1>5 DEF Rounds

\* over is the checksum, not yet inverted, over more and more of data.
SumsUp(over, data) ==
    /\ over \in [0..Len(data) -> SUBSET WordBits]
    /\ over[0] = WordBits
    /\ \A n \in 1..Len(data) : over[n] = crc_cell(over[n - 1], data[n])

LEMMA Crc32SumsUp ==
    ASSUME NEW data \in Seq(Cells)
    PROVE  \E over : SumsUp(over, data) /\ crc32(data) = WordBits \ over[Len(data)]
<1> DEFINE W == SUBSET WordBits
           N == Len(data)
           step == [p \in W \X (1..N) |-> crc_cell(p[1], data[p[2]])]
           Eq(g) == g = [n \in 0..Len(data) |->
                           IF n = 0 THEN WordBits ELSE crc_cell(g[n - 1], data[n])]
           f == CHOOSE g : Eq(g)
<1>1. N \in Nat /\ WordBits \in W /\ \A n \in 1..N : data[n] \in Cells
  BY LenProperties, ElementOfSeq
<1>2. step \in [W \X (1..N) -> W]
  <2>1. \A c \in W, n \in 1..N : crc_cell(c, data[n]) \in W
    BY <1>1, CrcCellInjective
  <2> HIDE DEF W, N
  <2> QED BY <2>1
<1>3. PICK g : Recurs(g, N, W, WordBits, step)
  <2> HIDE DEF W, N, step
  <2> QED BY <1>1, <1>2, RecursionIsDefined
<1>4. \A n \in 0..N : g[n] = IF n = 0 THEN WordBits ELSE crc_cell(g[n - 1], data[n])
  <2> TAKE n \in 0..N
  <2>1. CASE n = 0
    BY <1>3, <2>1 DEF Recurs
  <2>2. CASE n # 0
    <3>1. n - 1 \in 0..N /\ n \in 1..N
      BY <1>1, <2>2
    <3>2. g[n] = step[<<g[n - 1], n>>] /\ g[n - 1] \in W
      BY <1>3, <2>2, <3>1 DEF Recurs
    <3>3. step[<<g[n - 1], n>>] = crc_cell(g[n - 1], data[n])
      BY <3>1, <3>2
    <3> HIDE DEF step, W, N
    <3> QED BY <2>2, <3>2, <3>3
  <2> QED BY <2>1, <2>2
<1>5. Eq(g)
  <2>1. g = [n \in 0..N |-> g[n]]
    BY <1>3 DEF Recurs
  <2> QED BY <1>4, <2>1
<1>6. Eq(f)
  <2> HIDE DEF Eq
  <2> QED BY <1>5 DEF f
<1>7. crc32(data) = WordBits \ f[N]
  BY DEF crc32, f
<1> HIDE DEF f
<1>8. f[0] = WordBits /\ \A n \in 1..N : f[n] = crc_cell(f[n - 1], data[n])
  BY <1>1, <1>6
<1>9. f = [n \in 0..N |-> f[n]]
  BY <1>6
<1> DEFINE S == {n \in 0..N : f[n] \in W}
<1> HIDE DEF Eq, N
<1>10. 0 \in S
  BY <1>1, <1>8
<1>11. ASSUME NEW n \in 0..N - 1, n \in S PROVE n + 1 \in S
  <2>1. n + 1 \in 0..N /\ n + 1 \in 1..N /\ (n + 1) - 1 = n
    BY <1>1
  <2>2. f[n + 1] = crc_cell(f[n], data[n + 1])
    BY <1>8, <2>1
  <2>3. f[n] \in W /\ data[n + 1] \in Cells
    BY <1>1, <1>11, <2>1
  <2> QED BY <2>1, <2>2, <2>3, CrcCellInjective
<1>12. \A n \in 0..N : n \in S
  <2> HIDE DEF S
  <2> QED BY <1>1, <1>10, <1>11, UpTo
<1>13. f \in [0..N -> W]
  BY <1>9, <1>12
<1>14. SumsUp(f, data)
  BY <1>8, <1>13 DEF SumsUp, N
<1> QED BY <1>7, <1>14 DEF N

\* The checksum is a word, and another one if one cell is another one.
LEMMA CrcOfData ==
    ASSUME NEW data \in Seq(Cells)
    PROVE  crc32(data) \in SUBSET WordBits
  BY Crc32SumsUp

LEMMA OneCellChangesCrc ==
    ASSUME NEW data \in Seq(Cells), NEW other \in Seq(Cells), Len(other) = Len(data),
           NEW i \in 1..Len(data), other[i] # data[i],
           \A n \in 1..Len(data) : n # i => other[n] = data[n]
    PROVE  crc32(other) # crc32(data)
<1>1. PICK f : SumsUp(f, data) /\ crc32(data) = WordBits \ f[Len(data)]
  BY Crc32SumsUp
<1>2. PICK g : SumsUp(g, other) /\ crc32(other) = WordBits \ g[Len(other)]
  BY Crc32SumsUp
<1>3. PICK N : N = Len(data)
  OBVIOUS
<1>4. /\ N \in Nat /\ i \in 1..N
      /\ \A n \in 1..N : data[n] \in Cells /\ other[n] \in Cells
  BY <1>3, LenProperties, ElementOfSeq
<1>5. /\ \A n \in 0..N : f[n] \in SUBSET WordBits /\ g[n] \in SUBSET WordBits
      /\ f[0] = g[0]
      /\ \A n \in 1..N : f[n] = crc_cell(f[n - 1], data[n]) /\ g[n] = crc_cell(g[n - 1], other[n])
  BY <1>1, <1>2, <1>3 DEF SumsUp
<1>6. ASSUME NEW c \in SUBSET WordBits, NEW d \in SUBSET WordBits, NEW x \in Cells, NEW y \in Cells,
             crc_cell(c, x) = crc_cell(d, y)
      PROVE  c = d <=> x = y
  <2>1. Xor(c, x) = Xor(d, y)
    BY <1>6, CrcCellInjective
  <2>2. ASSUME c = d PROVE x = y
    BY <2>1, <2>2 DEF Xor
  <2>3. ASSUME x = y PROVE c = d
    BY <2>1, <2>3 DEF Xor
  <2> QED BY <2>2, <2>3
<1> DEFINE S == {m \in 0..N : f[m] = g[m] <=> m < i}
<1>7. 0 \in S
  BY <1>4, <1>5
<1>8. ASSUME NEW m \in 0..N - 1, m \in S PROVE m + 1 \in S
  <2>1. m + 1 \in 0..N /\ m + 1 \in 1..N /\ (m + 1) - 1 = m /\ m \in 0..N /\ m \in Int
        /\ i \in Int
    BY <1>4
  <2>2. /\ f[m + 1] = crc_cell(f[m], data[m + 1]) /\ g[m + 1] = crc_cell(g[m], other[m + 1])
        /\ f[m] \in SUBSET WordBits /\ g[m] \in SUBSET WordBits
        /\ data[m + 1] \in Cells /\ other[m + 1] \in Cells
    BY <1>4, <1>5, <2>1
  <2>3. f[m] = g[m] <=> m < i
    BY <1>8
  <2>4. CASE m + 1 < i
    <3>1. f[m] = g[m] /\ other[m + 1] = data[m + 1]
      BY <1>3, <2>1, <2>3, <2>4
    <3> QED BY <2>1, <2>2, <2>4, <3>1
  <2>5. CASE m + 1 = i
    <3>1. f[m] = g[m] /\ other[m + 1] # data[m + 1]
      BY <2>1, <2>3, <2>5
    <3>2. f[m + 1] # g[m + 1]
      BY <1>6, <2>2, <3>1
    <3> QED BY <2>1, <2>5, <3>2
  <2>6. CASE m + 1 > i
    <3>1. f[m] # g[m] /\ other[m + 1] = data[m + 1]
      BY <1>3, <2>1, <2>3, <2>6
    <3>2. f[m + 1] # g[m + 1]
      BY <1>6, <2>2, <3>1
    <3> QED BY <2>1, <2>6, <3>2
  <2> QED BY <2>1, <2>4, <2>5, <2>6
<1>9. N \in S
  <2> HIDE DEF S
  <2>1. N \in Nat
    BY <1>4
  <2>2. \A m \in 0..N - 1 : m \in S => m + 1 \in S
    BY <1>8
  <2>3. \A m \in 0..N : m \in S
    BY <2>1, <2>2, <1>7, UpTo
  <2> QED BY <2>1, <2>3
<1>10. f[N] # g[N]
  BY <1>4, <1>9
<1>11. f[N] \in SUBSET WordBits /\ g[N] \in SUBSET WordBits
  BY <1>4, <1>5
<1>12. WordBits \ f[N] # WordBits \ g[N]
  BY <1>10, <1>11
<1>13. crc32(data) = WordBits \ f[N] /\ crc32(other) = WordBits \ g[N]
  BY <1>1, <1>2, <1>3
<1> QED BY <1>12, <1>13
-----------------------------------------------------------------------------
(***************************************************************************)
(* Words in cells.                                                         *)
(***************************************************************************)
\* Every place of a word is one place of one cell.
LEMMA PlaceOf ==
    ASSUME NEW x \in WordBits
    PROVE  \E i \in 1..WordCells, b \in 0..CellBits - 1 : x = (i - 1) * CellBits + b
<1> DEFINE Is(y, i, b) == y = (i - 1) * CellBits + b
           n == CellBits * WordCells
           S == {y \in 0..n - 1 : \E i \in 1..WordCells, b \in 0..CellBits - 1 : Is(y, i, b)}
<1>1. CellBits \in Nat \ {0} /\ WordCells \in Nat \ {0} /\ n \in Nat \ {0} /\ n - 1 \in Nat
  BY WordPlaces
<1>2. 0 \in S
  <2>1. 1 \in 1..WordCells /\ 0 \in 0..CellBits - 1 /\ Is(0, 1, 0)
    BY <1>1
  <2>2. 0 \in 0..n - 1
    BY <1>1
  <2> HIDE DEF Is, n
  <2> QED BY <2>1, <2>2
<1>3. ASSUME NEW y \in 0..(n - 1) - 1, y \in S PROVE y + 1 \in S
  <2>1. PICK i \in 1..WordCells, b \in 0..CellBits - 1 : Is(y, i, b)
    BY <1>3
  <2>2. y + 1 \in 0..n - 1
    <3> HIDE DEF n
    <3> QED BY <1>1
  <2>3. CASE b + 1 < CellBits
    <3>1. b + 1 \in 0..CellBits - 1 /\ b \in Int /\ i \in Int
      BY <1>1, <2>3
    <3>2. Is(y + 1, i, b + 1)
      BY <1>1, <2>1, <3>1
    <3> HIDE DEF Is, n
    <3> QED BY <2>2, <3>1, <3>2
  <2>4. CASE b + 1 >= CellBits
    <3>1. b = CellBits - 1 /\ i \in Int
      BY <1>1, <2>4
    <3>2. (i - 1) * CellBits + CellBits = i * CellBits
      BY <1>1, <3>1
    <3>3. y + 1 = i * CellBits
      <4> DEFINE p == (i - 1) * CellBits
      <4>1. p \in Int /\ y = p + b
        BY <1>1, <2>1, <3>1
      <4> HIDE DEF p
      <4>2. y + 1 = p + CellBits
        BY <1>1, <3>1, <4>1
      <4> QED BY <3>2, <4>2 DEF p
    <3>4. i # WordCells
      <4>1. y + 1 # n
        <5> HIDE DEF n
        <5> QED BY <1>1
      <4>2. WordCells * CellBits = n
        BY <1>1
      <4> QED BY <3>3, <4>1, <4>2
    <3>5. i + 1 \in 1..WordCells /\ 0 \in 0..CellBits - 1 /\ (i + 1) - 1 = i
      BY <1>1, <3>4
    <3>6. Is(y + 1, i + 1, 0)
      <4>1. i * CellBits + 0 = i * CellBits
        BY <1>1, <3>1
      <4> QED BY <3>3, <3>5, <4>1
    <3> HIDE DEF Is, n
    <3> QED BY <2>2, <3>5, <3>6
  <2> QED BY <1>1, <2>3, <2>4
<1>4. \A y \in 0..n - 1 : y \in S
  <2>1. PICK k \in Nat : k = n - 1
    BY <1>1
  <2>2. 0 \in S /\ \A y \in 0..k - 1 : y \in S => y + 1 \in S
    BY <1>2, <1>3, <2>1
  <2> HIDE DEF S
  <2>3. \A y \in 0..k : y \in S
    BY <2>1, <2>2, UpTo
  <2> QED BY <2>1, <2>3
<1>5. x \in S
  BY <1>4 DEF WordBits
<1> QED BY <1>5

LEMMA PlaceIsUnique ==
    ASSUME NEW i \in 1..WordCells, NEW j \in 1..WordCells,
           NEW b \in 0..CellBits - 1, NEW c \in 0..CellBits - 1
    PROVE  /\ (i - 1) * CellBits + b \in WordBits
           /\ (i - 1) * CellBits + b = (j - 1) * CellBits + c => i = j /\ b = c
<1>1. CellBits \in Nat \ {0} /\ WordCells \in Nat \ {0}
  BY WordPlaces
<1>2. ASSUME NEW k \in Int, NEW l \in Int, k < l
      PROVE  k * CellBits \in Int /\ l * CellBits \in Int /\ k * CellBits + CellBits <= l * CellBits
  <2>1. (l - k - 1) * CellBits >= 0
    BY <1>1, <1>2
  <2>2. (l - k - 1) * CellBits = l * CellBits - k * CellBits - CellBits
    BY <1>1, <1>2
  <2>3. k * CellBits \in Int /\ l * CellBits \in Int
    BY <1>1, <1>2
  <2> QED BY <1>1, <2>1, <2>2, <2>3
<1>3. i - 1 \in Int /\ j - 1 \in Int /\ i \in Int /\ j \in Int /\ b \in Int /\ c \in Int
      /\ b < CellBits /\ c < CellBits /\ 0 <= b /\ 0 <= c
  BY <1>1
<1>4. (i - 1) * CellBits \in Int /\ (j - 1) * CellBits \in Int
  BY <1>1, <1>3
<1>5. (i - 1) * CellBits + b \in WordBits
  <2>1. (i - 1) * CellBits + CellBits <= WordCells * CellBits /\ WordCells * CellBits \in Int
    BY <1>1, <1>2, <1>3
  <2>2. (i - 1) * CellBits >= 0
    BY <1>1, <1>3
  <2>3. WordCells * CellBits = CellBits * WordCells
    BY <1>1
  <2> QED BY <1>1, <1>3, <1>4, <2>1, <2>2, <2>3 DEF WordBits
<1>6. ASSUME (i - 1) * CellBits + b = (j - 1) * CellBits + c
      PROVE  i = j /\ b = c
  <2>1. ~(i - 1 < j - 1) /\ ~(j - 1 < i - 1)
    BY <1>1, <1>2, <1>3, <1>4, <1>6
  <2>2. i = j
    BY <1>3, <2>1
  <2> QED BY <1>3, <1>4, <1>6, <2>2
<1> QED BY <1>5, <1>6

\* The cells of a word are sequences of cells, and read as the word.
LEMMA WordInCells ==
    ASSUME NEW w \in SUBSET WordBits
    PROVE  /\ to_le_bytes(w) \in Seq(Cells)
           /\ Len(to_le_bytes(w)) = WordCells
           /\ DOMAIN to_le_bytes(w) = 1..WordCells
           /\ from_le_bytes(to_le_bytes(w)) = w
<1> DEFINE cells == to_le_bytes(w)
           at(i, b) == (i - 1) * CellBits + b
<1>1. WordCells \in Nat
  BY WordPlaces
<1>2. cells = [i \in 1..WordCells |-> {b \in 0..CellBits - 1 : at(i, b) \in w}]
  BY DEF to_le_bytes
<1>3. cells \in [1..WordCells -> Cells]
  BY <1>2 DEF Cells
<1>4. cells \in Seq(Cells) /\ Len(cells) = WordCells /\ DOMAIN cells = 1..WordCells
  <2>1. cells \in Seq(Cells)
    BY <1>1, <1>3, SeqDef
  <2>2. DOMAIN cells = 1..WordCells /\ DOMAIN cells = 1..Len(cells) /\ Len(cells) \in Nat
    BY <1>3, <2>1, LenProperties
  <2> HIDE DEF cells
  <2> QED BY <1>1, <2>1, <2>2
<1>5. from_le_bytes(cells) = UNION {{at(i, b) : b \in cells[i]} : i \in 1..WordCells}
  BY <1>4 DEF from_le_bytes
<1>6. \A i \in 1..WordCells : cells[i] = {b \in 0..CellBits - 1 : at(i, b) \in w}
  BY <1>2
<1> HIDE DEF cells
<1>7. \A x \in w : \E i \in 1..WordCells, b \in 0..CellBits - 1 : x = at(i, b)
  BY PlaceOf
<1> HIDE DEF at
<1>8. from_le_bytes(cells) = w
  <2>1. ASSUME NEW x \in w PROVE x \in from_le_bytes(cells)
    <3>1. PICK i \in 1..WordCells, b \in 0..CellBits - 1 : x = at(i, b)
      BY <1>7
    <3>2. b \in cells[i]
      BY <1>6, <3>1
    <3>3. x \in {at(i, d) : d \in cells[i]}
      BY <3>1, <3>2
    <3> QED BY <1>5, <3>3
  <2>2. ASSUME NEW x \in from_le_bytes(cells) PROVE x \in w
    <3>1. PICK i \in 1..WordCells : x \in {at(i, b) : b \in cells[i]}
      BY <1>5
    <3>2. PICK b \in cells[i] : x = at(i, b)
      BY <3>1
    <3> QED BY <1>6, <3>2
  <2> QED BY <2>1, <2>2
<1> QED BY <1>4, <1>8 DEF cells

\* Cells that read as the same word are the same cells.
LEMMA CellsOfWord ==
    ASSUME NEW s \in Seq(Cells), NEW t \in Seq(Cells), Len(s) = WordCells, Len(t) = WordCells,
           from_le_bytes(s) = from_le_bytes(t)
    PROVE  s = t
<1> DEFINE at(i, b) == (i - 1) * CellBits + b
<1>1. WordCells \in Nat /\ DOMAIN s = 1..WordCells /\ DOMAIN t = 1..WordCells
  BY WordPlaces, LenProperties
<1>2. \A i \in 1..WordCells : s[i] \in Cells /\ t[i] \in Cells
  BY ElementOfSeq
<1>3. \A r \in {s, t} : from_le_bytes(r) = UNION {{at(i, b) : b \in r[i]} : i \in 1..WordCells}
  BY <1>1 DEF from_le_bytes
<1>4. \A i, j \in 1..WordCells : \A b, c \in 0..CellBits - 1 : at(i, b) = at(j, c) => i = j /\ b = c
  BY PlaceIsUnique
<1> HIDE DEF at
<1>5. ASSUME NEW r \in {s, t}, NEW i \in 1..WordCells, NEW b \in 0..CellBits - 1
      PROVE  b \in r[i] <=> at(i, b) \in from_le_bytes(r)
  <2>1. \A j \in 1..WordCells : r[j] \subseteq 0..CellBits - 1
    BY <1>2 DEF Cells
  <2>2. ASSUME b \in r[i] PROVE at(i, b) \in from_le_bytes(r)
    <3>1. at(i, b) \in {at(i, d) : d \in r[i]}
      BY <2>2
    <3> QED BY <1>3, <3>1
  <2>3. ASSUME at(i, b) \in from_le_bytes(r) PROVE b \in r[i]
    <3>1. PICK j \in 1..WordCells : at(i, b) \in {at(j, d) : d \in r[j]}
      BY <1>3, <2>3
    <3>2. PICK d \in r[j] : at(i, b) = at(j, d)
      BY <3>1
    <3> QED BY <1>4, <2>1, <3>2
  <2> QED BY <2>2, <2>3
<1>6. ASSUME NEW i \in 1..WordCells PROVE s[i] = t[i]
  <2>1. \A b \in 0..CellBits - 1 : b \in s[i] <=> b \in t[i]
    BY <1>5
  <2> QED BY <1>2, <2>1 DEF Cells
<1> QED BY <1>1, <1>6, SeqEqual
-----------------------------------------------------------------------------
(***************************************************************************)
(* Entries in cells.                                                       *)
(***************************************************************************)
\* A stretch of a sequence of cells.
LEMMA Stretch ==
    ASSUME NEW s \in Seq(Cells), NEW m \in Nat, NEW n \in Nat, m <= n, n <= Len(s)
    PROVE  /\ SubSeq(s, m + 1, n) \in Seq(Cells)
           /\ Len(SubSeq(s, m + 1, n)) = n - m
           /\ \A i \in 1..n - m : SubSeq(s, m + 1, n)[i] = s[m + i]
<1>1. Len(s) \in Nat /\ m + 1 \in Int /\ n \in Int
  BY LenProperties
<1>2. \A i \in m + 1..n : s[i] \in Cells
  BY <1>1, ElementOfSeq
<1>3. /\ SubSeq(s, m + 1, n) \in Seq(Cells)
      /\ Len(SubSeq(s, m + 1, n)) = IF m + 1 <= n THEN n - (m + 1) + 1 ELSE 0
      /\ \A i \in 1..n - (m + 1) + 1 : SubSeq(s, m + 1, n)[i] = s[m + 1 + i - 1]
  BY <1>1, <1>2, SubSeqProperties
<1>4. n - (m + 1) + 1 = n - m /\ (~(m + 1 <= n) => n - m = 0)
  BY <1>1
<1>5. \A i \in 1..n - m : m + 1 + i - 1 = m + i
  BY <1>1
<1> QED BY <1>3, <1>4, <1>5

\* The length of a key or value, written behind the first n cells, is read there.
LEMMA NumberThere ==
    ASSUME NEW code \in Seq(Cells), NEW n \in Nat, n + WordCells <= Len(code),
           NEW w \in SUBSET WordBits,
           \A i \in 1..WordCells : code[n + i] = to_le_bytes(w)[i]
    PROVE  NumberAt(code, n) = Number(w)
<1>1. WordCells \in Nat
  BY WordPlaces
<1>2. SubSeq(code, n + 1, n + WordCells) = to_le_bytes(w)
  <2>1. PICK m \in Nat : m = n + WordCells
    BY <1>1
  <2>2. /\ SubSeq(code, n + 1, m) \in Seq(Cells) /\ Len(SubSeq(code, n + 1, m)) = WordCells
        /\ \A i \in 1..WordCells : SubSeq(code, n + 1, m)[i] = code[n + i]
    <3>1. n <= m /\ m <= Len(code) /\ m - n = WordCells
      BY <1>1, <2>1
    <3> QED BY <3>1, Stretch
  <2>3. /\ to_le_bytes(w) \in Seq(Cells) /\ Len(to_le_bytes(w)) = WordCells
    BY WordInCells
  <2>4. \A i \in 1..WordCells : SubSeq(code, n + 1, m)[i] = to_le_bytes(w)[i]
    BY <2>2
  <2>5. SubSeq(code, n + 1, m) = to_le_bytes(w)
    BY <2>2, <2>3, <2>4, SeqEqual
  <2> QED BY <2>1, <2>5
<1> QED BY <1>2, WordInCells DEF NumberAt

\* The cells in front of the checksum: how many, and what is where.
BodyLen(e) ==
    1 + WordCells + Len(e.key) + IF e.op = PUT THEN WordCells + Len(e.value) ELSE 0

\* Op and lengths, as far as code reaches.
Heads(code, e) ==
    /\ code[1] = e.op
    /\ \A i \in 1..WordCells :
          1 + i <= Len(code) => code[1 + i] = to_le_bytes(Word(Len(e.key)))[i]
    /\ e.op = PUT => \A i \in 1..WordCells :
          1 + WordCells + Len(e.key) + i <= Len(code) =>
              code[1 + WordCells + Len(e.key) + i] = to_le_bytes(Word(Len(e.value)))[i]

\* The entry that its lengths find in code.
EntryIn(code, e) ==
    [op |-> e.op, key |-> SubSeq(code, WordCells + 2, 1 + WordCells + Len(e.key)),
     value |-> IF e.op = PUT
               THEN SubSeq(code, 1 + WordCells + Len(e.key) + WordCells + 1, BodyLen(e))
               ELSE <<>>]

LEMMA EntryTyped ==
    ASSUME NEW e \in WalEntries
    PROVE  /\ e.op \in {PUT, DELETE} /\ e.op \in Cells
           /\ e.key \in Seq(Cells) /\ e.value \in Seq(Cells)
           /\ Len(e.key) \in Nat /\ Len(e.value) \in Nat
           /\ e = [op |-> e.op, key |-> e.key, value |-> e.value]
           /\ e.op # PUT => e.value = <<>>
           /\ WordCells \in Nat \ {0} /\ BodyLen(e) \in Nat /\ 1 + WordCells <= BodyLen(e)
           /\ \A n : Word(n) \in SUBSET WordBits
<1>1. e \in [op : {PUT, DELETE}, key : Seq(Cells), value : Seq(Cells)]
      /\ (e.op = DELETE => e.value = <<>>)
  BY DEF WalEntries
<1>2. Len(e.key) \in Nat /\ Len(e.value) \in Nat
  BY <1>1, LenProperties
<1>3. e.op \in Cells
  <2>1. 0 \in 0..CellBits - 1
    BY WordPlaces
  <2> QED BY <1>1, <2>1 DEF PUT, DELETE, Cells
<1>4. WordCells \in Nat \ {0}
  BY WordPlaces
<1>5. BodyLen(e) \in Nat /\ 1 + WordCells <= BodyLen(e)
  <2>1. PICK x : x = IF e.op = PUT THEN WordCells + Len(e.value) ELSE 0
    OBVIOUS
  <2>2. x \in Nat
    BY <1>2, <1>4, <2>1
  <2>3. PICK k \in Nat : k = Len(e.key)
    BY <1>2
  <2>4. BodyLen(e) = 1 + WordCells + k + x
    BY <2>1, <2>3 DEF BodyLen
  <2>5. 1 + WordCells + k + x \in Nat /\ 1 + WordCells <= 1 + WordCells + k + x
    BY <1>4, <2>2
  <2> QED BY <2>4, <2>5
<1>6. \A n : Word(n) \in SUBSET WordBits
  BY DEF Word
<1> QED BY <1>1, <1>2, <1>3, <1>4, <1>5, <1>6

LEMMA BodyLayout ==
    ASSUME NEW e \in WalEntries
    PROVE  /\ Body(e) \in Seq(Cells) /\ Len(Body(e)) = BodyLen(e)
           /\ Heads(Body(e), e) /\ EntryIn(Body(e), e) = e
<1> DEFINE K == Len(e.key)
           V == Len(e.value)
           klen == to_le_bytes(Word(K))
           vlen == to_le_bytes(Word(V))
           a == <<e.op>> \o klen
           b == a \o e.key
           c == vlen \o e.value
           tail == IF e.op = PUT THEN c ELSE <<>>
<1>1. /\ e.op \in {PUT, DELETE} /\ e.op \in Cells /\ e.key \in Seq(Cells) /\ e.value \in Seq(Cells)
      /\ K \in Nat /\ V \in Nat /\ (e.op # PUT => e.value = <<>>)
      /\ e = [op |-> e.op, key |-> e.key, value |-> e.value]
      /\ WordCells \in Nat \ {0}
  BY EntryTyped
<1>2. klen \in Seq(Cells) /\ Len(klen) = WordCells /\ vlen \in Seq(Cells) /\ Len(vlen) = WordCells
  BY EntryTyped, WordInCells
<1>3. Body(e) = b \o tail
  BY DEF Body
<1> HIDE DEF klen, vlen, K, V
<1>4. <<e.op>> \in Seq(Cells) /\ Len(<<e.op>>) = 1 /\ <<e.op>>[1] = e.op
  BY <1>1
<1>5. a \in Seq(Cells) /\ Len(a) = 1 + WordCells /\ a[1] = e.op
      /\ \A i \in 1..WordCells : a[1 + i] = klen[i]
  <2>1. /\ a \in Seq(Cells) /\ Len(a) = Len(<<e.op>>) + Len(klen)
        /\ \A i \in 1..Len(<<e.op>>) + Len(klen) :
              a[i] = IF i <= Len(<<e.op>>) THEN <<e.op>>[i] ELSE klen[i - Len(<<e.op>>)]
    BY <1>2, <1>4, ConcatProperties
  <2> HIDE DEF a
  <2>2. a[1] = e.op
    <3>1. 1 \in 1..1 + WordCells /\ 1 <= 1
      BY <1>1
    <3> QED BY <1>2, <1>4, <2>1, <3>1
  <2>3. ASSUME NEW i \in 1..WordCells PROVE a[1 + i] = klen[i]
    <3>1. 1 + i \in 1..1 + WordCells /\ ~(1 + i <= 1) /\ (1 + i) - 1 = i
      BY <1>1
    <3> QED BY <1>2, <1>4, <2>1, <3>1
  <2> QED BY <1>2, <1>4, <2>1, <2>2, <2>3
<1> HIDE DEF a
<1>6. b \in Seq(Cells) /\ Len(b) = 1 + WordCells + K /\ (\A i \in 1..1 + WordCells : b[i] = a[i])
      /\ \A i \in 1..K : b[1 + WordCells + i] = e.key[i]
  <2>1. /\ b \in Seq(Cells) /\ Len(b) = Len(a) + K
        /\ \A i \in 1..Len(a) + K : b[i] = IF i <= Len(a) THEN a[i] ELSE e.key[i - Len(a)]
    BY <1>1, <1>5, ConcatProperties DEF K
  <2> HIDE DEF b
  <2>2. ASSUME NEW i \in 1..1 + WordCells PROVE b[i] = a[i]
    <3>1. i \in 1..Len(a) + K /\ i <= Len(a)
      BY <1>1, <1>5
    <3> QED BY <2>1, <3>1
  <2>3. ASSUME NEW i \in 1..K PROVE b[1 + WordCells + i] = e.key[i]
    <3>1. PICK j : j = 1 + WordCells + i
      OBVIOUS
    <3>2. j \in 1..Len(a) + K /\ ~(j <= Len(a)) /\ j - Len(a) = i
      BY <1>1, <1>5, <3>1
    <3> QED BY <2>1, <3>1, <3>2
  <2> QED BY <1>5, <2>1, <2>2, <2>3
<1> HIDE DEF b
<1>7. c \in Seq(Cells) /\ Len(c) = WordCells + V /\ (\A i \in 1..WordCells : c[i] = vlen[i])
      /\ \A i \in 1..V : c[WordCells + i] = e.value[i]
  <2>1. /\ c \in Seq(Cells) /\ Len(c) = WordCells + V
        /\ \A i \in 1..WordCells + V : c[i] = IF i <= WordCells THEN vlen[i] ELSE e.value[i - WordCells]
    <3>1. Len(e.value) = V
      BY DEF V
    <3>2. e.value \in Seq(Cells) /\ vlen \in Seq(Cells) /\ Len(vlen) = WordCells
      BY <1>1, <1>2
    <3>3. /\ c \in Seq(Cells) /\ Len(c) = Len(vlen) + Len(e.value)
          /\ \A i \in 1..Len(vlen) + Len(e.value) :
                c[i] = IF i <= Len(vlen) THEN vlen[i] ELSE e.value[i - Len(vlen)]
      BY <3>2, ConcatProperties
    <3> HIDE DEF c
    <3> QED BY <3>1, <3>2, <3>3
  <2> HIDE DEF c
  <2>2. ASSUME NEW i \in 1..WordCells PROVE c[i] = vlen[i]
    BY <1>1, <2>1
  <2>3. ASSUME NEW i \in 1..V PROVE c[WordCells + i] = e.value[i]
    <3>1. PICK j : j = WordCells + i
      OBVIOUS
    <3>2. j \in 1..WordCells + V /\ ~(j <= WordCells) /\ j - WordCells = i
      BY <1>1, <3>1
    <3> QED BY <2>1, <3>1, <3>2
  <2> QED BY <2>1, <2>2, <2>3
<1> HIDE DEF c
<1> DEFINE rest == IF e.op = PUT THEN WordCells + V ELSE 0
<1>8. tail \in Seq(Cells) /\ Len(tail) = rest
  BY <1>7, EmptySeq
<1>9. rest \in Nat /\ BodyLen(e) = Len(b) + rest
  BY <1>1, <1>6 DEF BodyLen, K, V
<1> HIDE DEF tail, rest
<1>10. PICK body : body = Body(e)
  OBVIOUS
<1>11. /\ body \in Seq(Cells) /\ Len(body) = BodyLen(e)
       /\ (\A i \in 1..Len(b) : body[i] = b[i])
       /\ \A i \in 1..rest : body[Len(b) + i] = tail[i]
  <2>1. /\ body \in Seq(Cells) /\ Len(body) = Len(b) + rest
        /\ \A i \in 1..Len(b) + rest : body[i] = IF i <= Len(b) THEN b[i] ELSE tail[i - Len(b)]
    BY <1>3, <1>6, <1>8, <1>10, ConcatProperties
  <2>2. Len(b) \in Nat
    BY <1>1, <1>6
  <2>3. \A i \in 1..Len(b) : body[i] = b[i]
    BY <1>9, <2>1, <2>2
  <2>4. ASSUME NEW i \in 1..rest PROVE body[Len(b) + i] = tail[i]
    <3>1. PICK j : j = Len(b) + i
      OBVIOUS
    <3>2. j \in 1..Len(b) + rest /\ ~(j <= Len(b)) /\ j - Len(b) = i
      BY <1>9, <2>2, <3>1
    <3> QED BY <2>1, <3>1, <3>2
  <2> QED BY <1>9, <2>1, <2>3, <2>4
<1> DEFINE B == Len(b)
<1>n. /\ K \in Nat /\ V \in Nat /\ WordCells \in Nat \ {0} /\ rest \in Nat /\ B \in Nat
      /\ B = 1 + WordCells + K /\ BodyLen(e) = B + rest /\ Len(body) = B + rest
  BY <1>1, <1>6, <1>9, <1>11
<1> HIDE DEF B
<1>12. Heads(body, e)
  <2>1. body[1] = e.op
    <3>1. 1 \in 1..Len(b) /\ 1 \in 1..1 + WordCells
      BY <1>1, <1>6
    <3> QED BY <1>5, <1>6, <1>11, <3>1
  <2>2. ASSUME NEW i \in 1..WordCells PROVE body[1 + i] = klen[i]
    <3>1. 1 + i \in 1..Len(b) /\ 1 + i \in 1..1 + WordCells
      BY <1>1, <1>6
    <3> QED BY <1>5, <1>6, <1>11, <3>1
  <2>3. ASSUME e.op = PUT, NEW i \in 1..WordCells PROVE body[1 + WordCells + K + i] = vlen[i]
    <3>1. i \in 1..rest
      BY <1>1, <2>3 DEF rest
    <3>2. body[Len(b) + i] = c[i]
      BY <1>11, <2>3, <3>1 DEF tail
    <3> QED BY <1>6, <1>7, <3>2
  <2> QED BY <2>1, <2>2, <2>3 DEF Heads, klen, vlen, K, V
<1>13. SubSeq(body, WordCells + 2, 1 + WordCells + K) = e.key
  <2>1. PICK m \in Nat, n \in Nat : m = 1 + WordCells /\ n = 1 + WordCells + K
    BY <1>1
  <2>2. m <= n /\ n <= Len(body) /\ n - m = K /\ m + 1 = WordCells + 2 /\ n = B
    BY <1>n, <2>1
  <2>3. /\ SubSeq(body, m + 1, n) \in Seq(Cells) /\ Len(SubSeq(body, m + 1, n)) = K
        /\ \A i \in 1..K : SubSeq(body, m + 1, n)[i] = body[m + i]
    BY <1>11, <2>2, Stretch
  <2>4. ASSUME NEW i \in 1..K PROVE body[m + i] = e.key[i]
    <3>1. m + i \in 1..B
      BY <1>n, <2>1
    <3>2. b[m + i] = e.key[i]
      BY <1>6, <2>1
    <3> QED BY <1>11, <3>1, <3>2 DEF B
  <2>5. SubSeq(body, m + 1, n) = e.key
    <3>1. \A i \in 1..K : SubSeq(body, m + 1, n)[i] = e.key[i]
      BY <2>3, <2>4
    <3> QED BY <1>1, <2>3, <3>1, SeqEqual DEF K
  <2> QED BY <2>1, <2>2, <2>5
<1>14. ASSUME e.op = PUT
       PROVE  SubSeq(body, 1 + WordCells + K + WordCells + 1, BodyLen(e)) = e.value
  <2>1. PICK m \in Nat, n \in Nat : m = 1 + WordCells + K + WordCells /\ n = BodyLen(e)
    BY <1>1, EntryTyped
  <2>2. rest = WordCells + V
    BY <1>14 DEF rest
  <2>3. m <= n /\ n <= Len(body) /\ n - m = V /\ m = B + WordCells
    BY <1>n, <2>1, <2>2
  <2>4. /\ SubSeq(body, m + 1, n) \in Seq(Cells) /\ Len(SubSeq(body, m + 1, n)) = V
        /\ \A i \in 1..V : SubSeq(body, m + 1, n)[i] = body[m + i]
    BY <1>11, <2>3, Stretch
  <2>5. ASSUME NEW i \in 1..V PROVE body[m + i] = e.value[i]
    <3>1. WordCells + i \in 1..rest /\ m + i = B + (WordCells + i)
      BY <1>n, <2>2, <2>3
    <3>2. body[m + i] = c[WordCells + i]
      BY <1>11, <1>14, <3>1 DEF tail, B
    <3> QED BY <1>7, <3>2
  <2>6. SubSeq(body, m + 1, n) = e.value
    <3>1. \A i \in 1..V : SubSeq(body, m + 1, n)[i] = e.value[i]
      BY <2>4, <2>5
    <3> QED BY <1>1, <2>4, <3>1, SeqEqual DEF V
  <2> QED BY <2>1, <2>6
<1>15. EntryIn(body, e) = e
  BY <1>1, <1>13, <1>14 DEF EntryIn, K
<1> QED BY <1>10, <1>11, <1>12, <1>15
\* What decode makes of cells with the op and the lengths of an entry.
LEMMA DecodeReads ==
    ASSUME NEW e \in WalEntries, Fits(e), NEW code \in Seq(Cells), Len(code) >= 1, Heads(code, e)
    PROVE  /\ Len(code) < BodyLen(e) + WordCells => is_err(decode(code))
           /\ Len(code) >= BodyLen(e) + WordCells =>
                decode(code) = CheckSummed(EntryIn(code, e), code, BodyLen(e))
<1> DEFINE key_end == 1 + WordCells + Len(e.key)
           val_start == key_end + WordCells
<1>1. PICK K \in Nat, V \in Nat, L \in Nat : K = Len(e.key) /\ V = Len(e.value) /\ L = Len(code)
  BY EntryTyped, LenProperties
<1>2. /\ WordCells \in Nat \ {0} /\ L >= 1
      /\ e.op \in {PUT, DELETE} /\ code[1] = e.op
      /\ Word(K) \in SUBSET WordBits /\ Word(V) \in SUBSET WordBits
      /\ Number(Word(K)) = K /\ Number(Word(V)) = V
  BY <1>1, EntryTyped DEF Fits, Heads
<1>3. PUT # DELETE
  BY DEF PUT, DELETE
<1>4. is_err(Rejected)
  BY DEF is_err, Rejected
<1>5. PICK k \in Nat, v \in Nat : k = 1 + WordCells + K /\ v = k + WordCells
  BY <1>2
<1>6. key_end = k /\ val_start = v
  BY <1>1, <1>5
<1>7. BodyLen(e) = IF e.op = PUT THEN v + V ELSE k
  <2>1. 1 + WordCells + K + (WordCells + V) = v + V /\ 1 + WordCells + K + 0 = k
    BY <1>2, <1>5
  <2> QED BY <1>1, <2>1 DEF BodyLen
<1>8. CASE L < 1 + WordCells
  <2>1. decode(code) = Rejected
    BY <1>1, <1>8 DEF decode
  <2>2. L < BodyLen(e) + WordCells
    BY <1>1, <1>2, <1>8, EntryTyped
  <2>3. ~(L >= BodyLen(e) + WordCells)
    BY <1>1, <1>2, <2>2, EntryTyped
  <2> QED BY <1>1, <1>4, <2>1, <2>3
<1>9. CASE L >= 1 + WordCells
  <2>1. NumberAt(code, 1) = K
    <3>1. \A i \in 1..WordCells : code[1 + i] = to_le_bytes(Word(K))[i]
      BY <1>1, <1>2, <1>9 DEF Heads
    <3> QED BY <1>1, <1>2, <1>9, <3>1, NumberThere
  <2>2. ~(Len(code) < 1 + WordCells)
    BY <1>1, <1>2, <1>9
  <2>3. 1 + WordCells + NumberAt(code, 1) = k
    BY <1>5, <2>1
  <2>4. CASE e.op = DELETE
    <3>1. decode(code) = decode_delete(code, k)
      BY <1>2, <1>3, <2>2, <2>3, <2>4 DEF decode
    <3>2. EntryIn(code, e) = [op |-> DELETE, key |-> SubSeq(code, WordCells + 2, k), value |-> <<>>]
      BY <1>3, <1>6, <2>4 DEF EntryIn
    <3>3. BodyLen(e) = k
      BY <1>3, <1>7, <2>4
    <3>4. decode(code) = IF L < k THEN Rejected ELSE CheckSummed(EntryIn(code, e), code, k)
      BY <1>1, <3>1, <3>2 DEF decode_delete
    <3>5. CASE L < k
      BY <1>1, <1>2, <1>4, <3>3, <3>4, <3>5
    <3>6. CASE L >= k
      <4>1. decode(code) = CheckSummed(EntryIn(code, e), code, k)
        BY <3>4, <3>6
      <4>2. L < k + WordCells => CheckSummed(EntryIn(code, e), code, k) = Rejected
        BY <1>1, <1>2 DEF CheckSummed
      <4> QED BY <1>1, <1>4, <3>3, <4>1, <4>2
    <3> QED BY <3>5, <3>6
  <2>5. CASE e.op = PUT
    <3>1. decode(code) = decode_put(code, k)
      BY <1>2, <1>3, <2>2, <2>3, <2>5 DEF decode
    <3>2. BodyLen(e) = v + V
      BY <1>7, <2>5
    <3>3. CASE L < v
      <4>1. decode(code) = Rejected
        BY <1>1, <1>5, <3>1, <3>3 DEF decode_put
      <4>2. ~(L >= BodyLen(e) + WordCells)
        BY <1>2, <3>2, <3>3
      <4> QED BY <1>1, <1>4, <4>1, <4>2
    <3>4. CASE L >= v
      <4>1. NumberAt(code, k) = V
        <5>1. \A i \in 1..WordCells : k + i <= L
          BY <1>2, <1>5, <3>4
        <5>2. \A i \in 1..WordCells : 1 + WordCells + Len(e.key) + i <= Len(code) =>
                 code[1 + WordCells + Len(e.key) + i] = to_le_bytes(Word(Len(e.value)))[i]
          BY <2>5 DEF Heads
        <5>3. \A i \in 1..WordCells : code[k + i] = to_le_bytes(Word(V))[i]
          BY <1>1, <1>5, <5>1, <5>2
        <5>4. k + WordCells <= Len(code)
          BY <1>1, <1>5, <3>4
        <5> QED BY <1>2, <5>3, <5>4, NumberThere
      <4>2. EntryIn(code, e) = [op |-> PUT, key |-> SubSeq(code, WordCells + 2, k),
                                value |-> SubSeq(code, v + 1, v + V)]
        BY <1>6, <2>5, <3>2 DEF EntryIn
      <4>3. decode(code) = IF L < v + V THEN Rejected
                           ELSE CheckSummed(EntryIn(code, e), code, v + V)
        <5>1. k + WordCells = v /\ ~(Len(code) < v) /\ Len(code) = L
          BY <1>1, <1>5, <3>4
        <5> QED BY <3>1, <4>1, <4>2, <5>1 DEF decode_put
      <4>4. CASE L < v + V
        <5>1. ~(L >= v + V + WordCells)
          BY <1>2, <4>4
        <5> QED BY <1>1, <1>4, <3>2, <4>3, <4>4, <5>1
      <4>5. CASE L >= v + V
        <5>1. decode(code) = CheckSummed(EntryIn(code, e), code, v + V)
          BY <4>3, <4>5
        <5>2. L < v + V + WordCells => CheckSummed(EntryIn(code, e), code, v + V) = Rejected
          BY <1>1, <1>2 DEF CheckSummed
        <5> QED BY <1>1, <1>4, <3>2, <5>1, <5>2
      <4> QED BY <4>4, <4>5
    <3> QED BY <3>3, <3>4
  <2> QED BY <1>2, <2>4, <2>5
<1> QED BY <1>2, <1>8, <1>9

\* An encoding: the body, and its checksum behind it.
LEMMA EncodingLayout ==
    ASSUME NEW e \in WalEntries
    PROVE  /\ encode(e) \in Seq(Cells)
           /\ Len(encode(e)) = BodyLen(e) + WordCells
           /\ BodyLen(e) \in Nat /\ WordCells \in Nat
           /\ \A i \in 1..BodyLen(e) : encode(e)[i] = Body(e)[i]
           /\ \A i \in 1..WordCells :
                 encode(e)[BodyLen(e) + i] = to_le_bytes(crc32(Body(e)))[i]
<1> DEFINE crc == to_le_bytes(crc32(Body(e)))
<1>1. PICK body : body = Body(e)
  OBVIOUS
<1>2. PICK n \in Nat : n = BodyLen(e)
  BY EntryTyped
<1>3. body \in Seq(Cells) /\ Len(body) = n
  BY <1>1, <1>2, BodyLayout
<1>4. crc \in Seq(Cells) /\ Len(crc) = WordCells /\ WordCells \in Nat
  BY <1>1, <1>3, CrcOfData, WordInCells, WordPlaces
<1>5. PICK code : code = encode(e)
  OBVIOUS
<1>6. code = body \o crc
  BY <1>1, <1>5 DEF encode
<1> HIDE DEF crc
<1>7. /\ code \in Seq(Cells) /\ Len(code) = n + WordCells
      /\ \A i \in 1..n + WordCells : code[i] = IF i <= n THEN body[i] ELSE crc[i - n]
  BY <1>3, <1>4, <1>6, ConcatProperties
<1>8. \A i \in 1..n : code[i] = body[i]
  BY <1>4, <1>7
<1>9. ASSUME NEW i \in 1..WordCells PROVE code[n + i] = crc[i]
  <2>1. PICK j : j = n + i
    OBVIOUS
  <2>2. j \in 1..n + WordCells /\ ~(j <= n) /\ j - n = i
    BY <1>4, <2>1
  <2> QED BY <1>7, <2>1, <2>2
<1> QED BY <1>1, <1>2, <1>4, <1>5, <1>7, <1>8, <1>9 DEF crc
\* Where op and lengths are.
HeadPlaces(e) ==
    {1} \cup 2..1 + WordCells \cup
        {1 + WordCells + Len(e.key) + i : i \in IF e.op = PUT THEN 1..WordCells ELSE {}}

LEMMA HeadsAreInBody ==
    ASSUME NEW e \in WalEntries, NEW i \in HeadPlaces(e)
    PROVE  i \in 1..BodyLen(e)
<1>1. PICK K \in Nat, V \in Nat, n \in Nat, W \in Nat \ {0} :
        K = Len(e.key) /\ V = Len(e.value) /\ n = BodyLen(e) /\ W = WordCells
  BY EntryTyped
<1>2. 1 + W <= n
  BY <1>1, EntryTyped
<1>3. CASE i = 1 \/ i \in 2..1 + W
  BY <1>1, <1>2, <1>3
<1>4. CASE i \in {1 + WordCells + Len(e.key) + j : j \in IF e.op = PUT THEN 1..WordCells ELSE {}}
  <2>1. e.op = PUT /\ \E j \in 1..WordCells : i = 1 + WordCells + Len(e.key) + j
    BY <1>4
  <2>2. PICK j \in 1..W : i = 1 + W + K + j
    BY <1>1, <2>1
  <2>3. n = 1 + W + K + (W + V)
    BY <1>1, <2>1 DEF BodyLen
  <2>4. 1 + W + K + j \in 1..1 + W + K + (W + V)
    OBVIOUS
  <2> QED BY <1>1, <2>2, <2>3, <2>4
<1> QED BY <1>1, <1>3, <1>4 DEF HeadPlaces

LEMMA SameHeads ==
    ASSUME NEW e \in WalEntries, NEW code \in Seq(Cells), Len(code) >= 1,
           \A i \in HeadPlaces(e) : i <= Len(code) => code[i] = encode(e)[i]
    PROVE  Heads(code, e)
<1>1. PICK n \in Nat, W \in Nat \ {0} : n = BodyLen(e) /\ W = WordCells
  BY EntryTyped
<1>2. Heads(Body(e), e) /\ Len(Body(e)) = n
  BY <1>1, BodyLayout
<1>3. \A i \in 1..n : encode(e)[i] = Body(e)[i]
  BY <1>1, EncodingLayout
<1>4. 1 + W <= n
  BY <1>1, EntryTyped
<1>5. code[1] = e.op
  <2>1. 1 \in HeadPlaces(e) /\ 1 \in 1..n /\ 1 <= Len(code)
    BY <1>1, <1>4 DEF HeadPlaces
  <2> QED BY <1>2, <1>3, <2>1 DEF Heads
<1>6. ASSUME NEW i \in 1..WordCells, 1 + i <= Len(code)
      PROVE  code[1 + i] = to_le_bytes(Word(Len(e.key)))[i]
  <2>1. 1 + i \in 2..1 + WordCells /\ 1 + i \in 1..n
    BY <1>1, <1>4
  <2>2. 1 + i \in HeadPlaces(e)
    BY <2>1 DEF HeadPlaces
  <2>3. code[1 + i] = Body(e)[1 + i]
    BY <1>3, <1>6, <2>1, <2>2
  <2>4. 1 + i <= Len(Body(e))
    BY <1>1, <1>2, <1>4
  <2> QED BY <1>2, <2>3, <2>4 DEF Heads
<1>7. ASSUME e.op = PUT, NEW i \in 1..WordCells, 1 + WordCells + Len(e.key) + i <= Len(code)
      PROVE  code[1 + WordCells + Len(e.key) + i] = to_le_bytes(Word(Len(e.value)))[i]
  <2> DEFINE j == 1 + WordCells + Len(e.key) + i
  <2>1. j \in HeadPlaces(e)
    BY <1>7 DEF HeadPlaces
  <2>2. j \in 1..n
    BY <1>1, <2>1, HeadsAreInBody
  <2>3. code[j] = Body(e)[j]
    BY <1>3, <1>7, <2>1, <2>2
  <2>4. j <= Len(Body(e))
    <3> HIDE DEF j
    <3> QED BY <1>1, <1>2, <2>2
  <2> QED BY <1>2, <1>7, <2>3, <2>4 DEF Heads
<1> QED BY <1>5, <1>6, <1>7 DEF Heads

\* Sequences that agree up to n have the same stretches up to there.
LEMMA SameStretch ==
    ASSUME NEW s \in Seq(Cells), NEW t \in Seq(Cells), NEW n \in Nat, n <= Len(s), n <= Len(t),
           \A i \in 1..n : s[i] = t[i], NEW m \in Nat, NEW k \in Nat, m <= k, k <= n
    PROVE  SubSeq(s, m + 1, k) = SubSeq(t, m + 1, k)
<1>1. k <= Len(s) /\ k <= Len(t)
  BY LenProperties
<1>2. /\ SubSeq(s, m + 1, k) \in Seq(Cells) /\ Len(SubSeq(s, m + 1, k)) = k - m
      /\ \A i \in 1..k - m : SubSeq(s, m + 1, k)[i] = s[m + i]
  BY <1>1, Stretch
<1>3. /\ SubSeq(t, m + 1, k) \in Seq(Cells) /\ Len(SubSeq(t, m + 1, k)) = k - m
      /\ \A i \in 1..k - m : SubSeq(t, m + 1, k)[i] = t[m + i]
  BY <1>1, Stretch
<1>4. \A i \in 1..k - m : m + i \in 1..n
  OBVIOUS
<1> QED BY <1>2, <1>3, <1>4, SeqEqual

\* decode gives back what was encoded, whatever follows it.
LEMMA EncodingDecodes ==
    ASSUME NEW e \in WalEntries, Fits(e), NEW more \in Seq(Cells)
    PROVE  decode(encode(e) \o more) = Decoded(e, BodyLen(e))
<1>1. PICK code : code = encode(e) \o more
  OBVIOUS
<1>2. PICK K \in Nat, V \in Nat, n \in Nat, W \in Nat \ {0} :
        K = Len(e.key) /\ V = Len(e.value) /\ n = BodyLen(e) /\ W = WordCells
  BY EntryTyped
<1>3. /\ encode(e) \in Seq(Cells) /\ Len(encode(e)) = n + W
      /\ \A i \in 1..n : encode(e)[i] = Body(e)[i]
      /\ \A i \in 1..W : encode(e)[n + i] = to_le_bytes(crc32(Body(e)))[i]
  BY <1>2, EncodingLayout
<1>4. /\ code \in Seq(Cells) /\ Len(code) = n + W + Len(more) /\ Len(more) \in Nat
      /\ \A i \in 1..n + W : code[i] = encode(e)[i]
  <2>1. Len(more) \in Nat
    BY LenProperties
  <2>2. /\ code \in Seq(Cells) /\ Len(code) = n + W + Len(more)
        /\ \A i \in 1..n + W + Len(more) :
              code[i] = IF i <= n + W THEN encode(e)[i] ELSE more[i - (n + W)]
    <3>1. PICK c : c = encode(e)
      OBVIOUS
    <3>2. c \in Seq(Cells) /\ Len(c) = n + W
      BY <1>3, <3>1
    <3>3. /\ code \in Seq(Cells) /\ Len(code) = Len(c) + Len(more)
          /\ \A i \in 1..Len(c) + Len(more) :
                code[i] = IF i <= Len(c) THEN c[i] ELSE more[i - Len(c)]
      BY <1>1, <3>1, <3>2, ConcatProperties
    <3> QED BY <3>1, <3>2, <3>3
  <2> QED BY <2>1, <2>2
<1>5. Len(code) >= 1 /\ Len(code) >= n + W /\ n <= Len(code)
  BY <1>4
<1>6. Heads(code, e)
  <2>1. \A i \in HeadPlaces(e) : i \in 1..n + W
    <3>1. \A i \in 1..n : i \in 1..n + W
      OBVIOUS
    <3> QED BY <1>2, <3>1, HeadsAreInBody
  <2>2. \A i \in HeadPlaces(e) : code[i] = encode(e)[i]
    BY <1>4, <2>1
  <2> QED BY <1>4, <1>5, <2>2, SameHeads
<1>7. decode(code) = CheckSummed(EntryIn(code, e), code, n)
  BY <1>2, <1>4, <1>5, <1>6, DecodeReads
<1>8. PICK body : body = Body(e)
  OBVIOUS
<1>9. body \in Seq(Cells) /\ Len(body) = n /\ EntryIn(body, e) = e
  BY <1>2, <1>8, BodyLayout
<1>10. \A i \in 1..n : code[i] = body[i]
  BY <1>3, <1>4, <1>8
<1>11. \A m, k \in Nat : m <= k /\ k <= n => SubSeq(code, m + 1, k) = SubSeq(body, m + 1, k)
  <2> TAKE m, k \in Nat
  <2> HAVE m <= k /\ k <= n
  <2>1. code \in Seq(Cells) /\ body \in Seq(Cells) /\ n <= Len(code) /\ n <= Len(body)
    BY <1>4, <1>5, <1>9
  <2> QED BY <1>10, <2>1, SameStretch
<1>12. SubSeq(code, 1, n) = body
  <2>1. SubSeq(code, 0 + 1, n) = SubSeq(body, 0 + 1, n)
    <3>1. 0 \in Nat /\ 0 <= n /\ n <= n
      OBVIOUS
    <3> QED BY <1>11, <3>1
  <2>2. SubSeq(body, 1, n) = body
    BY <1>9, SubSeqFull
  <2> QED BY <2>1, <2>2
<1>13. SubSeq(code, n + 1, n + W) = to_le_bytes(crc32(body))
  <2>1. PICK m \in Nat : m = n + W
    OBVIOUS
  <2>2. /\ SubSeq(code, n + 1, m) \in Seq(Cells) /\ Len(SubSeq(code, n + 1, m)) = W
        /\ \A i \in 1..W : SubSeq(code, n + 1, m)[i] = code[n + i]
    <3>1. n <= m /\ m <= Len(code) /\ m - n = W
      BY <1>5, <2>1
    <3> QED BY <1>4, <3>1, Stretch
  <2>3. /\ to_le_bytes(crc32(body)) \in Seq(Cells) /\ Len(to_le_bytes(crc32(body))) = W
    BY <1>2, <1>9, CrcOfData, WordInCells
  <2>4. \A i \in 1..W : SubSeq(code, n + 1, m)[i] = to_le_bytes(crc32(body))[i]
    <3> TAKE i \in 1..W
    <3>1. n + i \in 1..n + W
      OBVIOUS
    <3> QED BY <1>3, <1>4, <1>8, <2>2, <3>1
  <2> QED BY <2>1, <2>2, <2>3, <2>4, SeqEqual
<1>14. EntryIn(code, e) = EntryIn(body, e)
  <2>1. n = 1 + W + K + IF e.op = PUT THEN W + V ELSE 0
    BY <1>2 DEF BodyLen
  <2>2. SubSeq(code, (1 + W) + 1, 1 + W + K) = SubSeq(body, (1 + W) + 1, 1 + W + K)
    <3>1. 1 + W \in Nat /\ 1 + W + K \in Nat /\ 1 + W <= 1 + W + K /\ 1 + W + K <= n
      BY <2>1
    <3> QED BY <1>11, <3>1
  <2>3. ASSUME e.op = PUT
        PROVE  SubSeq(code, (1 + W + K + W) + 1, n) = SubSeq(body, (1 + W + K + W) + 1, n)
    <3>1. n = 1 + W + K + (W + V)
      BY <2>1, <2>3
    <3>2. PICK m \in Nat : m = 1 + W + K + W
      OBVIOUS
    <3>3. m <= n /\ n <= n
      BY <3>1, <3>2
    <3>4. SubSeq(code, m + 1, n) = SubSeq(body, m + 1, n)
      BY <1>11, <3>3
    <3> QED BY <3>2, <3>4
  <2>4. (1 + W) + 1 = W + 2
    OBVIOUS
  <2> QED BY <1>2, <2>2, <2>3, <2>4 DEF EntryIn
<1>15. crc32(body) = from_le_bytes(SubSeq(code, n + 1, n + W))
  BY <1>9, <1>13, CrcOfData, WordInCells
<1>16. CheckSummed(EntryIn(code, e), code, n) = Decoded(e, n)
  BY <1>2, <1>5, <1>9, <1>12, <1>14, <1>15 DEF CheckSummed
<1> QED BY <1>1, <1>2, <1>7, <1>16

\* It rejects an encoding that stops early.
LEMMA BeginningIsRejected ==
    ASSUME NEW e \in WalEntries, Fits(e), NEW cells \in Beginnings(encode(e))
    PROVE  is_err(decode(cells))
<1>1. PICK n \in Nat, W \in Nat \ {0} : n = BodyLen(e) /\ W = WordCells
  BY EntryTyped
<1>2. encode(e) \in Seq(Cells) /\ Len(encode(e)) = n + W
  BY <1>1, EncodingLayout
<1>3. PICK k \in 1..n + W - 1 : cells = SubSeq(encode(e), 0 + 1, k)
  BY <1>2 DEF Beginnings
<1>4. /\ cells \in Seq(Cells) /\ Len(cells) = k /\ k \in Nat
      /\ \A i \in 1..k : cells[i] = encode(e)[i]
  <2>1. k \in Nat /\ 0 <= k /\ k <= Len(encode(e)) /\ k - 0 = k
    BY <1>2
  <2>2. /\ cells \in Seq(Cells) /\ Len(cells) = k - 0
        /\ \A i \in 1..k - 0 : cells[i] = encode(e)[0 + i]
    BY <1>2, <1>3, <2>1, Stretch
  <2>3. \A i \in 1..k : 0 + i = i
    OBVIOUS
  <2> QED BY <2>1, <2>2, <2>3
<1>5. Heads(cells, e)
  <2>1. \A i \in HeadPlaces(e) : i \in Int /\ 1 <= i
    BY <1>1, HeadsAreInBody
  <2>2. \A i \in HeadPlaces(e) : i <= Len(cells) => cells[i] = encode(e)[i]
    BY <1>4, <2>1
  <2> QED BY <1>4, <2>2, SameHeads
<1>6. Len(cells) >= 1 /\ Len(cells) < BodyLen(e) + WordCells
  BY <1>1, <1>4
<1> QED BY <1>4, <1>5, <1>6, DecodeReads

\* It rejects an encoding in which one cell is another one, but for the op and
\* the lengths: the checksum is computed from the cells in front of it and
\* compared with those it is made of.
LEMMA AlteredIsRejected ==
    ASSUME NEW e \in WalEntries, Fits(e), NEW i \in DOMAIN encode(e) \ HeadPlaces(e),
           NEW cell \in Cells \ {encode(e)[i]}
    PROVE  is_err(decode([encode(e) EXCEPT ![i] = cell]))
<1>1. PICK n \in Nat, W \in Nat \ {0} : n = BodyLen(e) /\ W = WordCells
  BY EntryTyped
<1>2. PICK good : good = encode(e)
  OBVIOUS
<1>3. PICK code : code = [good EXCEPT ![i] = cell]
  OBVIOUS
<1>4. /\ good \in Seq(Cells) /\ Len(good) = n + W /\ DOMAIN good = 1..n + W /\ i \in 1..n + W
      /\ cell \in Cells /\ cell # good[i]
  BY <1>1, <1>2, EncodingLayout, LenProperties
<1>5. /\ code \in Seq(Cells) /\ Len(code) = n + W
      /\ \A j \in 1..n + W : code[j] = IF j = i THEN cell ELSE good[j]
  BY <1>3, <1>4, ExceptSeq
<1>6. Heads(code, e)
  <2>1. \A j \in HeadPlaces(e) : j \in Int /\ 1 <= j /\ j # i
    BY <1>1, HeadsAreInBody
  <2>2. \A j \in HeadPlaces(e) : j <= Len(code) => code[j] = encode(e)[j]
    BY <1>2, <1>5, <2>1
  <2>3. Len(code) >= 1
    BY <1>5
  <2> QED BY <1>5, <2>2, <2>3, SameHeads
<1>7. decode(code) = CheckSummed(EntryIn(code, e), code, n)
  <2>1. Len(code) >= 1 /\ Len(code) >= BodyLen(e) + WordCells
    BY <1>1, <1>5
  <2> QED BY <1>1, <1>5, <1>6, <2>1, DecodeReads
<1>8. PICK body : body = Body(e)
  OBVIOUS
<1>9. /\ body \in Seq(Cells) /\ Len(body) = n
      /\ \A j \in 1..n : good[j] = body[j]
      /\ \A j \in 1..W : good[n + j] = to_le_bytes(crc32(body))[j]
  BY <1>1, <1>2, <1>8, BodyLayout, EncodingLayout
<1>10. PICK data : data = SubSeq(code, 1, n)
  OBVIOUS
<1>11. data \in Seq(Cells) /\ Len(data) = n /\ \A j \in 1..n : data[j] = code[j]
  <2>1. 0 <= n /\ n <= Len(code) /\ n - 0 = n /\ 0 + 1 = 1 /\ \A j \in 1..n : 0 + j = j
    BY <1>5
  <2>2. /\ SubSeq(code, 0 + 1, n) \in Seq(Cells) /\ Len(SubSeq(code, 0 + 1, n)) = n - 0
        /\ \A j \in 1..n - 0 : SubSeq(code, 0 + 1, n)[j] = code[0 + j]
    BY <1>5, <2>1, Stretch
  <2> QED BY <1>10, <2>1, <2>2
<1>12. PICK sum : sum = SubSeq(code, n + 1, n + W)
  OBVIOUS
<1>13. sum \in Seq(Cells) /\ Len(sum) = W /\ \A j \in 1..W : sum[j] = code[n + j]
  <2>1. PICK m \in Nat : m = n + W
    OBVIOUS
  <2>2. n <= m /\ m <= Len(code) /\ m - n = W
    BY <1>5, <2>1
  <2>3. /\ SubSeq(code, n + 1, m) \in Seq(Cells) /\ Len(SubSeq(code, n + 1, m)) = m - n
        /\ \A j \in 1..m - n : SubSeq(code, n + 1, m)[j] = code[n + j]
    BY <1>5, <2>2, Stretch
  <2> QED BY <1>12, <2>1, <2>2, <2>3
<1>14. PICK crc : crc = to_le_bytes(crc32(body))
  OBVIOUS
<1>15. crc \in Seq(Cells) /\ Len(crc) = W /\ from_le_bytes(crc) = crc32(body)
  BY <1>1, <1>9, <1>14, CrcOfData, WordInCells
<1>16. crc32(data) # from_le_bytes(sum)
  <2>1. CASE i <= n
    <3>1. i \in 1..n /\ data[i] # body[i] /\ \A j \in 1..n : j # i => data[j] = body[j]
      BY <1>4, <1>5, <1>9, <1>11, <2>1
    <3>2. crc32(data) # crc32(body)
      BY <1>9, <1>11, <3>1, OneCellChangesCrc
    <3>3. \A j \in 1..W : sum[j] = crc[j]
      <4> TAKE j \in 1..W
      <4>1. n + j \in 1..n + W /\ n + j # i
        BY <1>4, <2>1
      <4> QED BY <1>5, <1>9, <1>13, <1>14, <4>1
    <3>4. sum = crc
      BY <1>13, <1>15, <3>3, SeqEqual
    <3> QED BY <1>15, <3>2, <3>4
  <2>2. CASE i > n
    <3>1. \A j \in 1..n : data[j] = body[j]
      <4> TAKE j \in 1..n
      <4>1. j \in 1..n + W /\ j # i
        BY <1>4, <2>2
      <4> QED BY <1>5, <1>9, <1>11, <4>1
    <3>2. data = body
      BY <1>9, <1>11, <3>1, SeqEqual
    <3>3. PICK j \in 1..W : i = n + j
      <4>1. i - n \in 1..W /\ i = n + (i - n)
        BY <1>4, <2>2
      <4> QED BY <4>1
    <3>4. sum[j] # crc[j]
      BY <1>4, <1>5, <1>9, <1>13, <1>14, <3>3
    <3>5. from_le_bytes(sum) # from_le_bytes(crc)
      BY <1>1, <1>13, <1>15, <3>4, CellsOfWord
    <3> QED BY <1>15, <3>2, <3>5
  <2> QED BY <1>4, <2>1, <2>2
<1>17. decode(code) = Rejected
  BY <1>1, <1>7, <1>10, <1>12, <1>16 DEF CheckSummed
<1> QED BY <1>2, <1>3, <1>17 DEF is_err, Rejected
-----------------------------------------------------------------------------
(***************************************************************************)
(* Replay of bytes.                                                        *)
(***************************************************************************)
\* An entry takes some of the cells there are.
LEMMA DecodeConsumes ==
    ASSUME NEW code \in Seq(Cells)
    PROVE  is_err(decode(code)) \/ decode(code).consumed \in 1..Len(code)
<1> DEFINE Ok(d) == is_err(d) \/ d.consumed \in 1..Len(code)
<1>1. PICK W \in Nat \ {0} : W = WordCells
  BY WordPlaces
<1>2. PICK L \in Nat : L = Len(code)
  BY LenProperties
<1>3. Ok(Rejected)
  BY DEF is_err, Rejected
<1>4. ASSUME NEW e, NEW n \in Nat
      PROVE  Ok(CheckSummed(e, code, n))
  <2>1. CheckSummed(e, code, n) \in {Decoded(e, n), Rejected}
        /\ (CheckSummed(e, code, n) = Decoded(e, n) \/ CheckSummed(e, code, n) = Rejected)
    BY DEF CheckSummed
  <2>2. ASSUME n + W <= L PROVE Ok(Decoded(e, n))
    <3>1. n + W \in 1..L
      BY <2>2
    <3> QED BY <1>1, <1>2, <3>1 DEF Decoded
  <2>3. ~(n + W <= L) => CheckSummed(e, code, n) = Rejected
    <3>1. ~(n + W <= L) => ~(Len(code) >= n + WordCells)
      BY <1>1, <1>2
    <3> QED BY <3>1 DEF CheckSummed
  <2> HIDE DEF Ok
  <2> QED BY <1>3, <2>1, <2>2, <2>3
<1>5. ASSUME NEW k \in Nat PROVE Ok(decode_delete(code, k))
  <2>1. PICK e : e = [op |-> DELETE, key |-> SubSeq(code, WordCells + 2, k), value |-> <<>>]
    OBVIOUS
  <2>2. decode_delete(code, k) = Rejected \/ decode_delete(code, k) = CheckSummed(e, code, k)
    BY <2>1 DEF decode_delete
  <2> HIDE DEF Ok
  <2> QED BY <1>3, <1>4, <2>2
<1>6. ASSUME NEW k \in Nat PROVE Ok(decode_put(code, k))
  <2>1. PICK n : n = k + WordCells + NumberAt(code, k)
    OBVIOUS
  <2>2. n \in Nat
    <3>1. PICK x \in Nat : x = NumberAt(code, k)
      BY NumberIsNat DEF NumberAt
    <3> QED BY <1>1, <2>1, <3>1
  <2>3. PICK e : e = [op |-> PUT, key |-> SubSeq(code, WordCells + 2, k),
                      value |-> SubSeq(code, k + WordCells + 1, n)]
    OBVIOUS
  <2>4. decode_put(code, k) = Rejected \/ decode_put(code, k) = CheckSummed(e, code, n)
    BY <2>1, <2>3 DEF decode_put
  <2> HIDE DEF Ok
  <2> QED BY <1>3, <1>4, <2>2, <2>4
<1>7. PICK k : k = 1 + WordCells + NumberAt(code, 1)
  OBVIOUS
<1>8. k \in Nat
  <2>1. PICK x \in Nat : x = NumberAt(code, 1)
    BY NumberIsNat DEF NumberAt
  <2> QED BY <1>1, <1>7, <2>1
<1>9. \/ decode(code) = Rejected
      \/ decode(code) = decode_put(code, k)
      \/ decode(code) = decode_delete(code, k)
  <2>1. PUT # DELETE
    BY DEF PUT, DELETE
  <2>2. CASE Len(code) < 1 + WordCells
    BY <2>2 DEF decode
  <2>3. CASE ~(Len(code) < 1 + WordCells) /\ code[1] = PUT
    BY <1>7, <2>1, <2>3 DEF decode
  <2>4. CASE ~(Len(code) < 1 + WordCells) /\ code[1] = DELETE
    BY <1>7, <2>1, <2>4 DEF decode
  <2>5. CASE ~(Len(code) < 1 + WordCells) /\ code[1] # PUT /\ code[1] # DELETE
    BY <2>5 DEF decode
  <2> QED BY <2>2, <2>3, <2>4, <2>5
<1>10. Ok(decode(code))
  <2> HIDE DEF Ok
  <2> QED BY <1>3, <1>5, <1>6, <1>8, <1>9
<1> QED BY <1>10

\* What decode says of the file behind the first n cells.
Here(cells, n) == decode(SubSeq(cells, n + 1, Len(cells)))

\* from is the loop of replay, from the cursor low on.
Replays(from, cells, low, E) ==
    /\ from \in [low..Len(cells) -> Seq(E)]
    /\ \A n \in low..Len(cells) :
          from[n] = IF n = Len(cells) \/ is_err(Here(cells, n)) THEN <<>>
                    ELSE <<Here(cells, n).entry>> \o from[n + Here(cells, n).consumed]

\* The loop goes forward, and so it ends.
LEMMA ReplayIsDefined ==
    ASSUME NEW cells \in Seq(Cells)
    PROVE  \E E, from : Replays(from, cells, 0, E) /\ replay_bytes(cells) = from[0]
                        /\ \A n \in 0..Len(cells) : Here(cells, n).entry \in E
<1> DEFINE E == {Here(cells, n).entry : n \in 0..Len(cells)}
           Eq(g) == g = [n \in 0..Len(cells) |->
                           LET d == decode(SubSeq(cells, n + 1, Len(cells)))
                           IN  IF n = Len(cells) \/ is_err(d) THEN <<>>
                               ELSE <<d.entry>> \o g[n + d.consumed]]
           f == CHOOSE g : Eq(g)
<1>1. PICK N \in Nat : N = Len(cells)
  BY LenProperties
<1>2. ASSUME NEW n \in 0..N
      PROVE  /\ Here(cells, n).entry \in E
             /\ n = N \/ is_err(Here(cells, n)) \/ n + Here(cells, n).consumed \in n + 1..N
  <2>1. /\ SubSeq(cells, n + 1, N) \in Seq(Cells) /\ Len(SubSeq(cells, n + 1, N)) = N - n
    BY <1>1, Stretch
  <2>2. is_err(Here(cells, n)) \/ Here(cells, n).consumed \in 1..N - n
    BY <1>1, <2>1, DecodeConsumes DEF Here
  <2> HIDE DEF E
  <2>3. \A c \in 1..N - n : n + c \in n + 1..N
    OBVIOUS
  <2> QED BY <1>1, <2>2, <2>3 DEF E
<1> HIDE DEF E
<1> DEFINE Solved(m) == \E g : Replays(g, cells, N - m, E)
           S == {m \in 0..N : Solved(m)}
<1>3. 0 \in S
  <2> DEFINE g == [n \in N..N |-> <<>>]
  <2>1. N..N = {N} /\ N - 0 = N /\ 0 \in 0..N
    OBVIOUS
  <2>2. <<>> \in Seq(E)
    BY EmptySeq
  <2>3. g \in [N..N -> Seq(E)] /\ g[N] = <<>>
    BY <2>1, <2>2
  <2> HIDE DEF g
  <2>4. Replays(g, cells, N, E)
    BY <1>1, <2>1, <2>3 DEF Replays
  <2>5. Solved(0)
    BY <2>1, <2>4
  <2> QED BY <2>1, <2>5
<1>4. ASSUME NEW m \in 0..N - 1, m \in S PROVE m + 1 \in S
  <2>1. PICK g : Replays(g, cells, N - m, E)
    BY <1>4
  <2>2. PICK k : k = N - (m + 1)
    OBVIOUS
  <2>3. /\ k \in 0..N /\ k # N /\ N - m = k + 1 /\ k \notin k + 1..N /\ m + 1 \in 0..N
        /\ (\A n \in k..N : n = k \/ n \in k + 1..N) /\ (\A n \in k + 1..N : n \in k..N)
        /\ (\A n \in k + 1..N : n \in 0..N /\ \A x \in n + 1..N : x \in k + 1..N)
    BY <2>2
  <2> DEFINE here == Here(cells, k)
             first == IF is_err(here) THEN <<>> ELSE <<here.entry>> \o g[k + here.consumed]
             h == [n \in k..N |-> IF n = k THEN first ELSE g[n]]
  <2>4. g \in [k + 1..N -> Seq(E)]
    BY <1>1, <2>1, <2>3 DEF Replays
  <2>5. first \in Seq(E)
    <3>1. <<>> \in Seq(E)
      BY EmptySeq
    <3>2. ASSUME ~is_err(here) PROVE <<here.entry>> \o g[k + here.consumed] \in Seq(E)
      <4>1. k + here.consumed \in k + 1..N /\ here.entry \in E
        BY <1>2, <2>3, <3>2
      <4>2. g[k + here.consumed] \in Seq(E)
        BY <2>4, <4>1
      <4>3. <<here.entry>> \in Seq(E)
        BY <4>1
      <4> HIDE DEF here
      <4> QED BY <4>2, <4>3, ConcatProperties
    <3> QED BY <3>1, <3>2
  <2>6. h[k] = first /\ \A n \in k + 1..N : h[n] = g[n]
    BY <2>3
  <2>7. h \in [k..N -> Seq(E)]
    <3> HIDE DEF first
    <3> QED BY <2>3, <2>4, <2>5
  <2> HIDE DEF h
  <2>8. ASSUME NEW n \in k..N
        PROVE  h[n] = IF n = N \/ is_err(Here(cells, n)) THEN <<>>
                      ELSE <<Here(cells, n).entry>> \o h[n + Here(cells, n).consumed]
    <3>1. CASE n = k
      <4>1. ~is_err(here) => k + here.consumed \in k + 1..N
        BY <1>2, <2>3
      <4>2. ~is_err(here) => h[k + here.consumed] = g[k + here.consumed]
        BY <2>6, <4>1
      <4> QED BY <2>3, <2>6, <3>1, <4>2
    <3>2. CASE n # k
      <4>1. n \in k + 1..N /\ n \in 0..N
        BY <2>3, <3>2
      <4>2. g[n] = IF n = N \/ is_err(Here(cells, n)) THEN <<>>
                   ELSE <<Here(cells, n).entry>> \o g[n + Here(cells, n).consumed]
        BY <1>1, <2>1, <2>3, <4>1 DEF Replays
      <4>3. n = N \/ is_err(Here(cells, n)) \/ n + Here(cells, n).consumed \in k + 1..N
        BY <1>2, <2>3, <4>1
      <4> QED BY <2>6, <4>1, <4>2, <4>3
    <3> QED BY <3>1, <3>2
  <2>9. Replays(h, cells, k, E)
    BY <1>1, <2>7, <2>8 DEF Replays
  <2>10. Solved(m + 1)
    BY <2>2, <2>9
  <2> HIDE DEF Solved
  <2> QED BY <2>3, <2>10
<1>5. PICK g : Replays(g, cells, 0, E)
  <2>1. \A m \in 0..N - 1 : m \in S => m + 1 \in S
    BY <1>4
  <2>2. N \in S
    <3> HIDE DEF S
    <3>1. \A m \in 0..N : m \in S
      BY <1>3, <2>1, UpTo
    <3> QED BY <3>1
  <2>3. N - N = 0
    OBVIOUS
  <2> QED BY <2>2, <2>3
<1>6. Eq(g)
  <2>1. \A n \in 0..Len(cells) :
          g[n] = LET d == decode(SubSeq(cells, n + 1, Len(cells)))
                 IN  IF n = Len(cells) \/ is_err(d) THEN <<>>
                     ELSE <<d.entry>> \o g[n + d.consumed]
    BY <1>5 DEF Replays, Here
  <2>2. g = [n \in 0..Len(cells) |-> g[n]]
    BY <1>5 DEF Replays
  <2> QED BY <2>1, <2>2
<1>7. Eq(f)
  <2> HIDE DEF Eq
  <2> QED BY <1>6 DEF f
<1>8. replay_bytes(cells) = f[0]
  BY DEF replay_bytes, f
<1> HIDE DEF f
<1>9. /\ f = [n \in 0..N |-> f[n]]
      /\ \A n \in 0..N : f[n] = IF n = N \/ is_err(Here(cells, n)) THEN <<>>
                                ELSE <<Here(cells, n).entry>> \o f[n + Here(cells, n).consumed]
  BY <1>1, <1>7 DEF Here
<1> HIDE DEF Eq
<1> DEFINE T == {m \in 0..N : \A n \in N - m..N : f[n] \in Seq(E)}
<1>10. 0 \in T
  <2>1. \A n \in N - 0..N : n = N /\ n \in 0..N
    OBVIOUS
  <2>2. f[N] = <<>> /\ <<>> \in Seq(E)
    BY <1>9, EmptySeq
  <2>3. 0 \in 0..N
    OBVIOUS
  <2> QED BY <2>1, <2>2, <2>3
<1>11. ASSUME NEW m \in 0..N - 1, m \in T PROVE m + 1 \in T
  <2>1. PICK k : k = N - (m + 1)
    OBVIOUS
  <2>2. /\ k \in 0..N /\ k # N /\ N - m = k + 1 /\ m + 1 \in 0..N
        /\ (\A n \in k..N : n = k \/ n \in k + 1..N)
    BY <2>1
  <2>3. \A n \in k + 1..N : f[n] \in Seq(E)
    BY <1>11, <2>2
  <2>4. f[k] \in Seq(E)
    <3> DEFINE here == Here(cells, k)
    <3>1. <<>> \in Seq(E)
      BY EmptySeq
    <3>2. ASSUME ~is_err(here) PROVE <<here.entry>> \o f[k + here.consumed] \in Seq(E)
      <4>1. k + here.consumed \in k + 1..N /\ here.entry \in E
        BY <1>2, <2>2, <3>2
      <4>2. f[k + here.consumed] \in Seq(E)
        BY <2>3, <4>1
      <4>3. <<here.entry>> \in Seq(E)
        BY <4>1
      <4> HIDE DEF here
      <4> QED BY <4>2, <4>3, ConcatProperties
    <3> QED BY <1>9, <2>2, <3>1, <3>2
  <2>5. \A n \in N - (m + 1)..N : f[n] \in Seq(E)
    BY <2>1, <2>2, <2>3, <2>4
  <2> QED BY <2>2, <2>5
<1>12. \A n \in 0..N : f[n] \in Seq(E)
  <2>1. \A m \in 0..N - 1 : m \in T => m + 1 \in T
    BY <1>11
  <2>2. N \in T
    <3> HIDE DEF T
    <3>1. \A m \in 0..N : m \in T
      BY <1>10, <2>1, UpTo
    <3> QED BY <3>1
  <2>3. N - N = 0
    OBVIOUS
  <2> QED BY <2>2, <2>3
<1>13. f \in [0..N -> Seq(E)]
  BY <1>9, <1>12
<1>14. Replays(f, cells, 0, E)
  BY <1>1, <1>9, <1>13 DEF Replays
<1> QED BY <1>1, <1>2, <1>8, <1>14
\* part[i] is the first i of seqs in a row.
Parts(part, seqs) ==
    /\ part \in [0..Len(seqs) -> Seq(Cells)]
    /\ part[0] = <<>>
    /\ \A i \in 1..Len(seqs) : part[i] = part[i - 1] \o seqs[i]

LEMMA FlattenParts ==
    ASSUME NEW seqs \in Seq(Seq(Cells))
    PROVE  \E part : Parts(part, seqs) /\ FlattenSeq(seqs) = part[Len(seqs)]
<1> DEFINE W == Seq(Cells)
           N == Len(seqs)
           step == [p \in W \X (1..N) |-> p[1] \o seqs[p[2]]]
           Eq(h) == h = [i \in 1..Len(seqs) |-> IF i = 1 THEN seqs[i] ELSE h[i - 1] \o seqs[i]]
           f == CHOOSE h : Eq(h)
<1>1. N \in Nat /\ <<>> \in W /\ \A i \in 1..N : seqs[i] \in W
  BY LenProperties, ElementOfSeq, EmptySeq
<1>2. step \in [W \X (1..N) -> W]
  <2>1. \A s \in W, i \in 1..N : s \o seqs[i] \in W
    BY <1>1, ConcatProperties
  <2> HIDE DEF W, N
  <2> QED BY <2>1
<1>3. PICK g : Recurs(g, N, W, <<>>, step)
  <2> HIDE DEF W, N, step
  <2> QED BY <1>1, <1>2, RecursionIsDefined
<1>4. Parts(g, seqs)
  <2>1. g \in [0..N -> W] /\ g[0] = <<>>
    <3>1. 0 \in 0..N
      BY <1>1
    <3> HIDE DEF step, W, N
    <3> QED BY <1>3, <3>1 DEF Recurs
  <2>2. ASSUME NEW i \in 1..N PROVE g[i] = g[i - 1] \o seqs[i]
    <3>1. i \in 0..N /\ i # 0 /\ i - 1 \in 0..N
      BY <1>1
    <3>2. g[i] = step[<<g[i - 1], i>>] /\ g[i - 1] \in W
      <4> HIDE DEF step, W, N
      <4> QED BY <1>3, <3>1 DEF Recurs
    <3> QED BY <3>2
  <2> QED BY <2>1, <2>2 DEF Parts
<1>5. CASE N = 0
  <2>1. seqs = <<>>
    BY <1>5, EmptySeq
  <2>2. FlattenSeq(seqs) = g[N]
    BY <1>4, <1>5, <2>1 DEF FlattenSeq, Parts
  <2> QED BY <1>4, <2>2
<1>6. CASE N # 0
  <2>1. N \in 1..N /\ 1 \in 1..N /\ 1 - 1 = 0 /\ 1 # 0
    BY <1>1, <1>6
  <2>2. g[1] = seqs[1]
    <3>1. g[1] = <<>> \o seqs[1]
      BY <1>4, <2>1 DEF Parts
    <3>2. seqs[1] \in Seq(Cells)
      BY <1>1, <2>1
    <3> QED BY <3>1, <3>2, ConcatEmptySeq
  <2>3. PICK h : h = [i \in 1..N |-> g[i]]
    OBVIOUS
  <2>4. Eq(h)
    <3>1. \A i \in 1..N : h[i] = IF i = 1 THEN seqs[i] ELSE h[i - 1] \o seqs[i]
      <4> TAKE i \in 1..N
      <4>1. CASE i = 1
        BY <2>2, <2>3, <4>1
      <4>2. CASE i # 1
        <5>1. i - 1 \in 1..N
          BY <1>1, <4>2
        <5> QED BY <1>4, <2>3, <4>2, <5>1 DEF Parts
      <4> QED BY <4>1, <4>2
    <3>2. h = [i \in 1..N |-> h[i]]
      BY <2>3
    <3> QED BY <3>1, <3>2
  <2>5. Eq(f)
    <3> HIDE DEF Eq
    <3> QED BY <2>4 DEF f
  <2>6. FlattenSeq(seqs) = f[N]
    <3>1. Len(seqs) # 0
      BY <1>6
    <3> QED BY <3>1 DEF FlattenSeq, f
  <2> HIDE DEF f
  <2>7. \A i \in 1..N : f[i] = IF i = 1 THEN seqs[i] ELSE f[i - 1] \o seqs[i]
    BY <2>5
  <2> DEFINE S == {m \in 0..N : m = 0 \/ f[m] = g[m]}
  <2> HIDE DEF Eq, N
  <2>8. 0 \in S
    BY <1>1
  <2>9. ASSUME NEW m \in 0..N - 1, m \in S PROVE m + 1 \in S
    <3>1. m + 1 \in 1..N /\ m + 1 \in 0..N /\ (m + 1) - 1 = m /\ (m + 1 = 1 <=> m = 0)
      BY <1>1
    <3>2. g[m + 1] = g[m] \o seqs[m + 1]
      BY <1>4, <3>1 DEF Parts, N
    <3>3. CASE m = 0
      BY <2>2, <2>7, <3>1, <3>3
    <3>4. CASE m # 0
      BY <2>7, <2>9, <3>1, <3>2, <3>4
    <3> QED BY <3>3, <3>4
  <2>10. N \in S
    <3>1. \A m \in 0..N - 1 : m \in S => m + 1 \in S
      BY <2>9
    <3> HIDE DEF S
    <3>2. \A m \in 0..N : m \in S
      BY <1>1, <2>8, <3>1, UpTo
    <3> QED BY <1>1, <3>2
  <2>11. f[N] = g[N]
    BY <1>6, <2>10
  <2> QED BY <1>4, <2>6, <2>11 DEF N
<1> QED BY <1>5, <1>6

\* What comes behind the first i of them.
LEMMA RestOfParts ==
    ASSUME NEW seqs \in Seq(Seq(Cells)), NEW part, Parts(part, seqs), NEW i \in 0..Len(seqs)
    PROVE  \E rest \in Seq(Cells) : part[Len(seqs)] = part[i] \o rest
<1> DEFINE Followed(k) == \E rest \in Seq(Cells) : part[Len(seqs)] = part[k] \o rest
<1>1. PICK N \in Nat : N = Len(seqs)
  BY LenProperties
<1>2. /\ \A k \in 0..N : part[k] \in Seq(Cells)
      /\ \A k \in 1..N : seqs[k] \in Seq(Cells) /\ part[k] = part[k - 1] \o seqs[k]
  BY <1>1, ElementOfSeq DEF Parts
<1> DEFINE S == {m \in 0..N : Followed(N - m)}
<1>3. 0 \in S
  <2>1. part[N] = part[N] \o <<>> /\ <<>> \in Seq(Cells)
    BY <1>2, ConcatEmptySeq, EmptySeq
  <2>2. N - 0 = N /\ 0 \in 0..N
    OBVIOUS
  <2>3. Followed(N)
    BY <1>1, <2>1
  <2> HIDE DEF Followed
  <2> QED BY <2>2, <2>3
<1>4. ASSUME NEW m \in 0..N - 1, m \in S PROVE m + 1 \in S
  <2>1. PICK k : k = N - m
    OBVIOUS
  <2>2. k \in 1..N /\ k - 1 \in 0..N /\ N - (m + 1) = k - 1 /\ m + 1 \in 0..N
    BY <2>1
  <2>3. PICK rest \in Seq(Cells) : part[N] = part[k] \o rest
    BY <1>1, <1>4, <2>1
  <2>4. part[k] \o rest = part[k - 1] \o (seqs[k] \o rest)
    <3>1. PICK s, t : s = part[k - 1] /\ t = seqs[k]
      OBVIOUS
    <3>2. part[k] = s \o t /\ s \in Seq(Cells) /\ t \in Seq(Cells)
      BY <1>2, <2>2, <3>1
    <3>3. (s \o t) \o rest = s \o (t \o rest)
      BY <3>2, ConcatAssociative
    <3> QED BY <3>1, <3>2, <3>3
  <2>5. seqs[k] \o rest \in Seq(Cells)
    BY <1>2, <2>2, ConcatProperties
  <2>6. Followed(k - 1)
    BY <1>1, <2>3, <2>4, <2>5
  <2> HIDE DEF Followed
  <2> QED BY <2>2, <2>6
<1>5. N - i \in S
  <2>1. \A m \in 0..N - 1 : m \in S => m + 1 \in S
    BY <1>4
  <2> HIDE DEF S
  <2>2. \A m \in 0..N : m \in S
    BY <1>3, <2>1, UpTo
  <2>3. N - i \in 0..N
    BY <1>1
  <2> QED BY <2>2, <2>3
<1>6. N - (N - i) = i
  BY <1>1
<1> QED BY <1>5, <1>6

LEMMA BehindConcat ==
    ASSUME NEW s \in Seq(Cells), NEW t \in Seq(Cells)
    PROVE  SubSeq(s \o t, Len(s) + 1, Len(s \o t)) = t
<1>1. PICK c : c = s \o t
  OBVIOUS
<1>2. PICK m \in Nat, n \in Nat : m = Len(s) /\ n = Len(t)
  BY LenProperties
<1>3. /\ c \in Seq(Cells) /\ Len(c) = m + n
      /\ \A i \in 1..m + n : c[i] = IF i <= m THEN s[i] ELSE t[i - m]
  BY <1>1, <1>2, ConcatProperties
<1>4. PICK l \in Nat : l = m + n
  OBVIOUS
<1>5. /\ SubSeq(c, m + 1, l) \in Seq(Cells) /\ Len(SubSeq(c, m + 1, l)) = n
      /\ \A i \in 1..n : SubSeq(c, m + 1, l)[i] = c[m + i]
  <2>1. m <= l /\ l <= Len(c) /\ l - m = n
    BY <1>3, <1>4
  <2> QED BY <1>3, <2>1, Stretch
<1>6. ASSUME NEW i \in 1..n PROVE c[m + i] = t[i]
  <2>1. PICK j : j = m + i
    OBVIOUS
  <2>2. j \in 1..m + n /\ ~(j <= m) /\ j - m = i
    BY <2>1
  <2> QED BY <1>3, <2>1, <2>2
<1>7. SubSeq(c, m + 1, l) = t
  <2>1. \A i \in 1..n : SubSeq(c, m + 1, l)[i] = t[i]
    BY <1>5, <1>6
  <2> QED BY <1>2, <1>5, <2>1, SeqEqual
<1> QED BY <1>1, <1>2, <1>3, <1>4, <1>7
-----------------------------------------------------------------------------
(***************************************************************************)
(* The log in bytes: the invariant that says what every frame left in the  *)
(* file, and the two theorems.                                             *)
(***************************************************************************)
ChunkOf(frame, cells) ==
    IF frame = Torn THEN \E n \in Entries : cells \in Beginnings(encode(Payload[n]))
    ELSE cells = encode(Payload[frame])

ChunksFit(frames, parts) ==
    /\ frames \in Seq(Frames)
    /\ parts \in Seq(Seq(Cells)) /\ Len(parts) = Len(frames)
    /\ \A i \in 1..Len(frames) : ChunkOf(frames[i], parts[i])

ChunksOfFrames == ChunksFit(log, chunks)

ShadowsFit == \A s \in shadows : ChunksFit(s.frames, s.chunks)

BytesInv == SessionTypeOK /\ ChunksOfFrames /\ ShadowsFit

LEMMA BeginningOf ==
    ASSUME NEW code \in Seq(Cells), NEW cells \in Beginnings(code)
    PROVE  cells \in Seq(Cells) /\ Beginnings(cells) \subseteq Beginnings(code)
<1>1. PICK N \in Nat : N = Len(code)
  BY LenProperties
<1>2. PICK n \in 1..N - 1 : cells = SubSeq(code, 1, n)
  BY <1>1 DEF Beginnings
<1>3. \A k \in 1..N : /\ SubSeq(code, 1, k) \in Seq(Cells) /\ Len(SubSeq(code, 1, k)) = k
                      /\ \A i \in 1..k : SubSeq(code, 1, k)[i] = code[i]
  <2> TAKE k \in 1..N
  <2>1. k \in Nat /\ 0 \in Nat /\ 0 <= k /\ k <= Len(code) /\ 0 + 1 = 1 /\ k - 0 = k
        /\ \A i \in 1..k : 0 + i = i
    BY <1>1
  <2>2. /\ SubSeq(code, 0 + 1, k) \in Seq(Cells) /\ Len(SubSeq(code, 0 + 1, k)) = k - 0
        /\ \A i \in 1..k - 0 : SubSeq(code, 0 + 1, k)[i] = code[0 + i]
    BY <2>1, Stretch
  <2> QED BY <2>1, <2>2
<1>4. n \in 1..N /\ n \in Nat
  OBVIOUS
<1>5. cells \in Seq(Cells) /\ Len(cells) = n /\ \A i \in 1..n : cells[i] = code[i]
  BY <1>2, <1>3, <1>4
<1>6. ASSUME NEW c \in Beginnings(cells) PROVE c \in Beginnings(code)
  <2>1. PICK k \in 1..n - 1 : c = SubSeq(cells, 1, k)
    BY <1>5, <1>6 DEF Beginnings
  <2>2. k \in 1..N /\ k \in 1..N - 1 /\ k \in Nat /\ k <= n /\ n <= N
    OBVIOUS
  <2>3. SubSeq(cells, 0 + 1, k) = SubSeq(code, 0 + 1, k)
    <3>1. n <= Len(cells) /\ n <= Len(code) /\ 0 \in Nat /\ 0 <= k
      BY <1>1, <1>5, <2>2
    <3> QED BY <1>4, <1>5, <2>2, <3>1, SameStretch
  <2>4. c = SubSeq(code, 1, k)
    BY <2>1, <2>3
  <2> QED BY <1>1, <2>2, <2>4 DEF Beginnings
<1> QED BY <1>5, <1>6

LEMMA ChunksAreCells ==
    ASSUME NEW frame \in Frames, NEW cells, ChunkOf(frame, cells)
    PROVE  cells \in Seq(Cells)
<1>1. \A n \in Entries : encode(Payload[n]) \in Seq(Cells)
  BY PayloadAssumption, EncodingLayout
<1>2. CASE frame = Torn
  BY <1>1, <1>2, BeginningOf DEF ChunkOf
<1>3. CASE frame # Torn
  BY <1>1, <1>3 DEF ChunkOf, Frames
<1> QED BY <1>2, <1>3

\* A frame and its chunk are added together.
LEMMA AddChunkKeepsChunks ==
    ASSUME BytesInv, appends < MaxAppends, appends' = appends + 1, AddChunk,
           append_torn \/ \E sync \in BOOLEAN : append(appends + 1, sync)
    PROVE  ChunksOfFrames'
<1>1. SessionTypeOK /\ ChunksOfFrames
  BY DEF BytesInv
<1>2. /\ log' \in Seq(Frames) /\ Len(log') = Len(log) + 1
      /\ \A i \in 1..Len(log) : log'[i] = log[i]
      /\ log'[Len(log) + 1] \in {appends + 1, Torn}
      /\ appends + 1 \in Entries
  BY <1>1, AppendsKeepType
<1>3. PICK n \in Nat : n = Len(log)
  BY <1>1, LenProperties DEF SessionTypeOK
<1>4. Last(log') = log'[n + 1]
  BY <1>2, <1>3 DEF Last
<1>5. PICK cells : /\ chunks' = Append(chunks, cells)
                   /\ IF log'[n + 1] = Torn THEN cells \in Beginnings(encode(Payload[appends + 1]))
                      ELSE cells = encode(Payload[appends + 1])
  BY <1>4 DEF AddChunk
<1>6. ChunkOf(log'[n + 1], cells)
  BY <1>2, <1>3, <1>5, WalAssumption DEF ChunkOf
<1>7. cells \in Seq(Cells)
  <2>1. log'[n + 1] \in Frames
    BY <1>2, <1>3 DEF Frames
  <2> QED BY <1>6, <2>1, ChunksAreCells
<1>8. chunks \in Seq(Seq(Cells)) /\ Len(chunks) = n
  BY <1>1, <1>3 DEF ChunksOfFrames, ChunksFit
<1>9. /\ chunks' \in Seq(Seq(Cells)) /\ Len(chunks') = n + 1
      /\ \A i \in 1..n : chunks'[i] = chunks[i]
      /\ chunks'[n + 1] = cells
  BY <1>5, <1>7, <1>8, AppendProperties
<1>10. ASSUME NEW i \in 1..n + 1 PROVE ChunkOf(log'[i], chunks'[i])
  <2>1. CASE i = n + 1
    BY <1>6, <1>9, <2>1
  <2>2. CASE i # n + 1
    <3>1. i \in 1..n
      BY <1>3, <2>2
    <3>2. ChunkOf(log[i], chunks[i])
      BY <1>1, <1>3, <3>1 DEF ChunksOfFrames, ChunksFit
    <3> QED BY <1>2, <1>3, <1>9, <3>1, <3>2
  <2> QED BY <2>1, <2>2
<1> QED BY <1>2, <1>3, <1>9, <1>10 DEF ChunksOfFrames, ChunksFit

\* A power loss cuts frames and chunks at the same place.
LEMMA CutChunksKeepsChunks ==
    ASSUME NEW frames, NEW parts, ChunksFit(frames, parts), CutChunks(frames, parts),
           SessionTypeOK'
    PROVE  ChunksOfFrames'
<1>1. frames \in Seq(Frames) /\ log' \in Seq(Frames)
  BY DEF ChunksFit, SessionTypeOK
<1>2. PICK N \in Nat : N = Len(frames)
  BY <1>1, LenProperties
<1>3. parts \in Seq(Seq(Cells)) /\ Len(parts) = N
      /\ \A i \in 1..N : ChunkOf(frames[i], parts[i]) /\ parts[i] \in Seq(Cells)
  BY <1>1, <1>2, ElementOfSeq DEF ChunksFit
<1>4. PICK n \in 0..N : /\ Len(log') = n
                        /\ \A i \in 1..n - 1 : log'[i] = frames[i]
                        /\ \/ log' = SubSeq(frames, 1, n) /\ chunks' = SubSeq(parts, 1, n)
                           \/ /\ n > 0 /\ log'[n] = Torn
                              /\ \E cells \in Beginnings(parts[n]) :
                                   chunks' = Append(SubSeq(parts, 1, n - 1), cells)
  <2>1. PICK k \in Nat : k = Len(log')
    BY <1>1, LenProperties
  <2>2. k <= N
    BY <1>2, <2>1 DEF CutChunks
  <2>3. k \in 0..N /\ \A i \in 1..k - 1 : i \in 1..k
    BY <2>1, <2>2
  <2>4. CASE log' = SubSeq(frames, 1, k) /\ chunks' = SubSeq(parts, 1, k)
    <3>1. \A i \in 1..k : log'[i] = frames[i]
      BY <1>1, <1>2, <2>3, <2>4, CutLog
    <3> QED BY <2>1, <2>3, <2>4, <3>1
  <2>5. CASE /\ k > 0 /\ log' = Append(SubSeq(frames, 1, k - 1), Torn)
             /\ \E cells \in Beginnings(parts[k]) :
                  chunks' = Append(SubSeq(parts, 1, k - 1), cells)
    <3>1. PICK cut : cut = SubSeq(frames, 1, k - 1)
      OBVIOUS
    <3>2. k - 1 \in 0..N /\ (k - 1) + 1 = k
      BY <2>1, <2>2, <2>5
    <3>3. cut \in Seq(Frames) /\ Len(cut) = k - 1 /\ \A i \in 1..k - 1 : cut[i] = frames[i]
      BY <1>1, <1>2, <3>1, <3>2, CutLog
    <3>4. Torn \in Frames /\ log' = Append(cut, Torn)
      BY <2>5, <3>1 DEF Frames
    <3>5. log'[k] = Torn /\ \A i \in 1..k - 1 : log'[i] = cut[i]
      BY <3>2, <3>3, <3>4, AppendedLog
    <3> QED BY <2>1, <2>3, <2>5, <3>3, <3>5
  <2> QED BY <2>1, <2>4, <2>5 DEF CutChunks
<1>5. \A k \in 0..N : /\ SubSeq(parts, 1, k) \in Seq(Seq(Cells)) /\ Len(SubSeq(parts, 1, k)) = k
                      /\ \A i \in 1..k : SubSeq(parts, 1, k)[i] = parts[i]
  <2> TAKE k \in 0..N
  <2>1. \A i \in 1..k : parts[i] \in Seq(Cells)
    BY <1>3
  <2>2. 1 \in Int /\ k \in Int /\ k - 1 + 1 = k /\ (~(1 <= k) => k = 0)
        /\ \A i \in 1..k : 1 + i - 1 = i
    OBVIOUS
  <2>3. /\ SubSeq(parts, 1, k) \in Seq(Seq(Cells))
        /\ Len(SubSeq(parts, 1, k)) = IF 1 <= k THEN k - 1 + 1 ELSE 0
        /\ \A i \in 1..k - 1 + 1 : SubSeq(parts, 1, k)[i] = parts[1 + i - 1]
    BY <2>1, <2>2, SubSeqProperties
  <2> QED BY <2>2, <2>3
<1>6. CASE log' = SubSeq(frames, 1, n) /\ chunks' = SubSeq(parts, 1, n)
  <2>1. \A i \in 1..n : log'[i] = frames[i]
    BY <1>1, <1>2, <1>6, CutLog
  <2>2. \A i \in 1..n : ChunkOf(log'[i], chunks'[i])
    BY <1>3, <1>5, <1>6, <2>1
  <2> QED BY <1>1, <1>4, <1>5, <1>6, <2>2 DEF ChunksOfFrames, ChunksFit
<1>7. ASSUME n > 0, log'[n] = Torn, NEW cells \in Beginnings(parts[n]),
             chunks' = Append(SubSeq(parts, 1, n - 1), cells)
      PROVE  ChunksOfFrames'
  <2>1. n \in 1..N /\ n - 1 \in 0..N /\ (n - 1) + 1 = n
    BY <1>7
  <2>2. frames[n] \in Frames
    BY <1>1, <1>2, <2>1, ElementOfSeq
  <2>3. parts[n] \in Seq(Cells) /\ ChunkOf(frames[n], parts[n])
    BY <1>3, <2>1
  <2>4. \E m \in Entries : cells \in Beginnings(encode(Payload[m]))
    <3>1. CASE frames[n] = Torn
      <4>1. PICK m \in Entries : parts[n] \in Beginnings(encode(Payload[m]))
        BY <2>3, <3>1 DEF ChunkOf
      <4>2. encode(Payload[m]) \in Seq(Cells)
        BY PayloadAssumption, EncodingLayout
      <4>3. Beginnings(parts[n]) \subseteq Beginnings(encode(Payload[m]))
        BY <4>1, <4>2, BeginningOf
      <4> QED BY <1>7, <4>3
    <3>2. CASE frames[n] # Torn
      BY <1>7, <2>2, <2>3, <3>2 DEF ChunkOf, Frames
    <3> QED BY <3>1, <3>2
  <2>5. ChunkOf(log'[n], cells)
    BY <1>7, <2>4 DEF ChunkOf
  <2>6. cells \in Seq(Cells)
    BY <2>3, BeginningOf
  <2>7. PICK cut : cut = SubSeq(parts, 1, n - 1)
    OBVIOUS
  <2>8. cut \in Seq(Seq(Cells)) /\ Len(cut) = n - 1 /\ \A i \in 1..n - 1 : cut[i] = parts[i]
    BY <1>5, <2>1, <2>7
  <2>9. /\ chunks' \in Seq(Seq(Cells)) /\ Len(chunks') = n
        /\ \A i \in 1..n - 1 : chunks'[i] = parts[i]
        /\ chunks'[n] = cells
    BY <1>7, <2>1, <2>6, <2>7, <2>8, AppendProperties
  <2>10. ASSUME NEW i \in 1..n PROVE ChunkOf(log'[i], chunks'[i])
    <3>1. CASE i = n
      BY <2>5, <2>9, <3>1
    <3>2. CASE i # n
      <4>1. i \in 1..n - 1 /\ i \in 1..N
        BY <2>1, <3>2
      <4> QED BY <1>3, <1>4, <2>9, <4>1
    <3> QED BY <3>1, <3>2
  <2> QED BY <1>1, <1>4, <2>9, <2>10 DEF ChunksOfFrames, ChunksFit
<1> QED BY <1>4, <1>6, <1>7

\* Every step of the log in bytes is one of the session, and keeps the invariant.
LEMMA BytesStep ==
    ASSUME BytesInv, [BytesNext]_bytesVars
    PROVE  [SessionNext]_sessionVars /\ BytesInv'
<1>1. SessionTypeOK /\ ChunksOfFrames /\ ShadowsFit
  BY DEF BytesInv
<1>2. [SessionNext]_sessionVars
  BY DEF BytesNext, SessionNext, bytesVars
<1>3. SessionTypeOK'
  BY <1>1, <1>2, SessionStepTyped
<1>12. ShadowsFit'
  <2>1. CASE shadows' \subseteq shadows
    BY <1>1, <2>1 DEF ShadowsFit
  <2>2. CASE shadows' = shadows \cup {Shadow}
    <3>1. Shadow.frames = log /\ Shadow.chunks = chunks
      BY DEF Shadow
    <3> HIDE DEF Shadow
    <3> QED BY <1>1, <2>2, <3>1 DEF ShadowsFit, ChunksOfFrames
  <2> HIDE DEF Shadow
  <2>3. shadows' \subseteq shadows \/ shadows' = shadows \cup {Shadow}
    BY DEF BytesNext, bytesVars
  <2> QED BY <2>1, <2>2, <2>3
<1> SUFFICES ChunksOfFrames'
  BY <1>2, <1>3, <1>12 DEF BytesInv
<1>4. ASSUME log' = log, chunks' = chunks PROVE ChunksOfFrames'
  BY <1>1, <1>4 DEF ChunksOfFrames, ChunksFit
<1>5. CASE wal_open /\ UNCHANGED chunks
  <2>1. log' = log /\ chunks' = chunks
    BY <1>5 DEF wal_open, walVars
  <2> QED BY <1>4, <2>1
<1>6. ASSUME NEW sync \in BOOLEAN, append_ok(sync), AddChunk PROVE ChunksOfFrames'
  <2>1. appends < MaxAppends /\ appends' = appends + 1
        /\ \E b \in BOOLEAN : append(appends + 1, b)
    BY <1>6 DEF append_ok
  <2> QED BY <1>6, <2>1, AddChunkKeepsChunks
<1>7. CASE append_failed /\ AddChunk
  <2>1. appends < MaxAppends /\ appends' = appends + 1
        /\ (append_torn \/ \E b \in BOOLEAN : append(appends + 1, b))
    BY <1>7 DEF append_failed
  <2> QED BY <1>7, <2>1, AddChunkKeepsChunks
<1>8. CASE wal_truncate /\ chunks' = <<>>
  <2>1. log' = <<>> /\ chunks' = <<>>
    BY <1>8 DEF wal_truncate, truncate
  <2>2. chunks' \in Seq(Seq(Cells)) /\ Len(chunks') = 0 /\ Len(log') = 0
    BY <2>1, EmptySeq
  <2> QED BY <2>2 DEF ChunksOfFrames, ChunksFit
<1>9. CASE kill /\ IF log' = log THEN UNCHANGED chunks ELSE AddChunk
  <2>1. CASE log' = log
    <3>1. chunks' = chunks
      BY <1>9, <2>1
    <3> QED BY <1>4, <2>1, <3>1
  <2>2. CASE log' # log
    <3>1. appends < MaxAppends /\ append_torn /\ appends' = appends + 1
      BY <1>9, <2>2 DEF kill, walVars
    <3>2. AddChunk
      BY <1>9, <2>2
    <3> QED BY <3>1, <3>2, AddChunkKeepsChunks
  <2> QED BY <2>1, <2>2
<1>10. CASE \/ CutChunks(log, chunks)
            \/ \E s \in shadows : CutChunks(s.frames, s.chunks)
  <2>1. PICK frames, parts : ChunksFit(frames, parts) /\ CutChunks(frames, parts)
    BY <1>1, <1>10 DEF ChunksOfFrames, ShadowsFit
  <2> QED BY <1>3, <2>1, CutChunksKeepsChunks
<1>11. CASE UNCHANGED bytesVars
  <2>1. log' = log /\ chunks' = chunks
    BY <1>11 DEF bytesVars, sessionVars, walVars
  <2> QED BY <1>4, <2>1
<1> QED
  BY <1>5, <1>6, <1>7, <1>8, <1>9, <1>10, <1>11 DEF BytesNext

\* The invariant of the log in bytes is inductive.
THEOREM BytesInvariant == BytesSpec => []BytesInv
<1>1. BytesInit => BytesInv
  <2> SUFFICES ASSUME BytesInit PROVE BytesInv
    OBVIOUS
  <2>1. SessionTypeOK
    BY SessionInitTyped DEF BytesInit
  <2>2. log = <<>> /\ chunks = <<>>
    BY DEF BytesInit, SessionInit, WalInit
  <2>3. chunks \in Seq(Seq(Cells)) /\ Len(chunks) = 0 /\ Len(log) = 0
    BY <2>2, EmptySeq
  <2>4. ShadowsFit
    BY DEF BytesInit, ShadowsFit
  <2>5. log \in Seq(Frames)
    BY <2>1 DEF SessionTypeOK
  <2> QED BY <2>1, <2>3, <2>4, <2>5 DEF BytesInv, ChunksOfFrames, ChunksFit
<1>2. BytesInv /\ [BytesNext]_bytesVars => BytesInv'
  BY BytesStep
<1> QED
  BY <1>1, <1>2, PTL DEF BytesSpec

\* The log in bytes is a session: its frames behave as WalSession says.
THEOREM BytesAreASession == BytesSpec => SessionSpec
<1>1. BytesInit => SessionInit
  BY DEF BytesInit
<1>2. BytesInv /\ [BytesNext]_bytesVars => [SessionNext]_sessionVars
  BY BytesStep
<1> QED
  BY <1>1, <1>2, BytesInvariant, PTL DEF BytesSpec, SessionSpec
LEMMA InvImpliesAlteredCaught ==
    ASSUME BytesInv
    PROVE  AlteredDataIsCaught
<1> SUFFICES ASSUME log # <<>>, Last(log) # Torn, Fits(Payload[Last(log)])
             PROVE  \A i \in DOMAIN Last(chunks) \ HeadPlaces(Payload[Last(log)]) :
                      \A cell \in Cells \ {Last(chunks)[i]} :
                        is_err(decode([Last(chunks) EXCEPT ![i] = cell]))
  BY DEF AlteredDataIsCaught, HeadPlaces
<1>1. log \in Seq(Frames) /\ ChunksOfFrames
  BY DEF BytesInv, SessionTypeOK
<1>2. PICK n \in Nat \ {0} : n = Len(log)
  BY <1>1, EmptySeq
<1>3. log[n] \in Entries /\ Last(log) = log[n]
  <2>1. n \in 1..Len(log)
    BY <1>2
  <2> QED BY <1>1, <1>2, <2>1, ElementOfSeq DEF Last, Frames
<1>4. PICK e : e = Payload[log[n]]
  OBVIOUS
<1>5. e \in WalEntries /\ Fits(e)
  BY <1>3, <1>4, PayloadAssumption
<1>6. Last(chunks) = encode(e)
  <2>1. n \in 1..Len(log) /\ Len(chunks) = n
    BY <1>1, <1>2 DEF ChunksOfFrames, ChunksFit
  <2>2. ChunkOf(log[n], chunks[n]) /\ log[n] # Torn
    BY <1>1, <1>3, <2>1 DEF ChunksOfFrames, ChunksFit
  <2> QED BY <1>4, <2>1, <2>2 DEF ChunkOf, Last
<1> QED BY <1>3, <1>4, <1>5, <1>6, AlteredIsRejected

\* Any cell of key, value or checksum changed is caught on decode, for every
\* polynomial whose top bit is one: that bit tells what a round folded in.
THEOREM AlteredDataAlwaysCaught == BytesSpec => []AlteredDataIsCaught
<1>1. BytesInv => AlteredDataIsCaught
  BY InvImpliesAlteredCaught
<1> QED
  BY <1>1, BytesInvariant, PTL

\* The chunk of a frame that decodes, with any cells behind it, gives the entry;
\* that of a torn frame at the end of the file gives none.
LEMMA ChunkDecodes ==
    ASSUME NEW frame \in Frames, NEW cells, ChunkOf(frame, cells)
    PROVE  /\ frame # Torn /\ Fits(Payload[frame]) =>
                /\ cells # <<>>
                /\ \A more \in Seq(Cells) :
                     decode(cells \o more) = Decoded(Payload[frame], Len(cells) - WordCells)
           /\ frame = Torn /\ OversizedRejected => cells # <<>> /\ is_err(decode(cells))
<1>1. ASSUME frame # Torn, Fits(Payload[frame])
      PROVE  /\ cells # <<>>
             /\ \A more \in Seq(Cells) :
                  decode(cells \o more) = Decoded(Payload[frame], Len(cells) - WordCells)
  <2>1. PICK e : e = Payload[frame]
    OBVIOUS
  <2>2. e \in WalEntries /\ Fits(e)
    BY <1>1, <2>1, PayloadAssumption DEF Frames
  <2>3. cells = encode(e)
    BY <1>1, <2>1 DEF ChunkOf
  <2>4. PICK n \in Nat, W \in Nat \ {0} : n = BodyLen(e) /\ W = WordCells
    BY <2>2, EntryTyped
  <2>5. Len(cells) = n + W
    BY <2>2, <2>3, <2>4, EncodingLayout
  <2>6. Len(cells) - WordCells = n /\ Len(cells) # 0
    BY <2>4, <2>5
  <2>7. Len(<<>>) = 0
    BY EmptySeq
  <2> QED BY <2>1, <2>2, <2>3, <2>4, <2>6, <2>7, EncodingDecodes
<1>2. ASSUME frame = Torn, OversizedRejected
      PROVE  cells # <<>> /\ is_err(decode(cells))
  <2>1. PICK n \in Entries : cells \in Beginnings(encode(Payload[n]))
    BY <1>2 DEF ChunkOf
  <2>2. PICK e : e = Payload[n] /\ e \in WalEntries
    BY PayloadAssumption
  <2>3. is_err(decode(cells))
    <3>1. CASE Fits(e)
      BY <2>1, <2>2, <3>1, BeginningIsRejected
    <3>2. CASE ~Fits(e)
      BY <1>2, <2>1, <2>2, <3>2 DEF OversizedRejected
    <3> QED BY <3>1, <3>2
  <2>4. cells # <<>>
    <3>1. PICK code : code = encode(e) /\ code \in Seq(Cells)
      BY <2>2, EncodingLayout
    <3>2. PICK N \in Nat : N = Len(code)
      BY <3>1, LenProperties
    <3>3. PICK k \in 1..N - 1 : cells = SubSeq(code, 1, k)
      BY <2>1, <2>2, <3>1, <3>2 DEF Beginnings
    <3>4. k \in Nat /\ 0 <= k /\ k <= Len(code) /\ k - 0 = k /\ k # 0 /\ 0 \in Nat
      BY <3>2
    <3>5. Len(SubSeq(code, 0 + 1, k)) = k - 0
      BY <3>1, <3>4, Stretch
    <3>6. Len(<<>>) = 0
      BY EmptySeq
    <3> QED BY <3>3, <3>4, <3>5, <3>6
  <2> QED BY <2>3, <2>4
<1> QED BY <1>1, <1>2

LEMMA InvImpliesReplay ==
    ASSUME BytesInv, OversizedRejected
    PROVE  BytesReplayAsFrames
<1>1. log \in Seq(Frames) /\ ChunksOfFrames
  BY DEF BytesInv, SessionTypeOK
<1>2. PICK N \in Nat : N = Len(log) /\ DOMAIN log = 1..N
  BY <1>1, LenProperties
<1>3. /\ chunks \in Seq(Seq(Cells)) /\ Len(chunks) = N
      /\ \A i \in 1..N : ChunkOf(log[i], chunks[i]) /\ chunks[i] \in Seq(Cells) /\ log[i] \in Frames
  BY <1>1, <1>2, ElementOfSeq DEF ChunksOfFrames, ChunksFit
<1>4. PICK part : Parts(part, chunks) /\ FlattenSeq(chunks) = part[N]
  BY <1>3, FlattenParts
<1>5. PICK cells : cells = file
  OBVIOUS
<1>6. /\ cells = part[N] /\ cells \in Seq(Cells)
      /\ \A i \in 0..N : part[i] \in Seq(Cells) /\ Len(part[i]) \in Nat
      /\ \A i \in 1..N : part[i] = part[i - 1] \o chunks[i]
  <2>1. \A i \in 0..N : part[i] \in Seq(Cells)
    BY <1>3, <1>4 DEF Parts
  <2>2. \A i \in 0..N : Len(part[i]) \in Nat
    BY <2>1, LenProperties
  <2>3. N \in 0..N
    OBVIOUS
  <2> QED BY <1>3, <1>4, <1>5, <2>1, <2>2, <2>3 DEF file, Parts
<1>7. PICK L \in Nat : L = Len(cells)
  BY <1>6, LenProperties
<1>8. PICK E, from : Replays(from, cells, 0, E) /\ replay_bytes(cells) = from[0]
                     /\ \A n \in 0..L : Here(cells, n).entry \in E
  BY <1>6, <1>7, ReplayIsDefined
<1>9. /\ \A n \in 0..L : from[n] \in Seq(E)
      /\ \A n \in 0..L : from[n] = IF n = L \/ is_err(Here(cells, n)) THEN <<>>
                                   ELSE <<Here(cells, n).entry>> \o from[n + Here(cells, n).consumed]
  BY <1>7, <1>8 DEF Replays
\* What is behind frame i, and the chunk of frame i with it.
<1>10. ASSUME NEW i \in 1..N
       PROVE  \E more \in Seq(Cells) :
                /\ Here(cells, Len(part[i - 1])) = decode(chunks[i] \o more)
                /\ i = N => more = <<>>
                /\ L = Len(part[i]) + Len(more)
                /\ Len(part[i]) = Len(part[i - 1]) + Len(chunks[i])
                /\ Len(more) \in Nat /\ Len(chunks[i]) \in Nat
  <2>1. PICK s, t : s = part[i - 1] /\ t = chunks[i]
    OBVIOUS
  <2>2. i \in 0..N /\ i - 1 \in 0..N
    OBVIOUS
  <2>3. s \in Seq(Cells) /\ t \in Seq(Cells) /\ part[i] = s \o t
    BY <1>3, <1>6, <2>1, <2>2
  <2>4. PICK more \in Seq(Cells) : cells = part[i] \o more /\ (i = N => more = <<>>)
    <3>1. CASE i = N
      <4>1. cells \o <<>> = cells /\ <<>> \in Seq(Cells)
        BY <1>6, ConcatEmptySeq, EmptySeq
      <4> QED BY <1>6, <3>1, <4>1
    <3>2. CASE i # N
      <4>1. \E more \in Seq(Cells) : part[Len(chunks)] = part[i] \o more
        BY <1>3, <1>4, <2>2, RestOfParts
      <4> QED BY <1>3, <1>6, <3>2, <4>1
    <3> QED BY <3>1, <3>2
  <2>5. (s \o t) \o more = s \o (t \o more)
    BY <2>3, ConcatAssociative
  <2>6. t \o more \in Seq(Cells)
    BY <2>3, ConcatProperties
  <2>7. SubSeq(s \o (t \o more), Len(s) + 1, Len(s \o (t \o more))) = t \o more
    BY <2>3, <2>6, BehindConcat
  <2>8. Here(cells, Len(s)) = decode(t \o more)
    BY <2>3, <2>4, <2>5, <2>7 DEF Here
  <2>9. /\ Len(s \o t) = Len(s) + Len(t) /\ s \o t \in Seq(Cells)
        /\ Len(t) \in Nat /\ Len(more) \in Nat
    BY <2>3, ConcatProperties, LenProperties
  <2>10. Len((s \o t) \o more) = Len(s \o t) + Len(more)
    BY <2>9, ConcatProperties
  <2> QED BY <1>7, <2>1, <2>3, <2>4, <2>8, <2>9, <2>10
<1>11. Unreadable = {i \in 1..N : log[i] = Torn \/ ~Fits(Payload[log[i]])}
  BY <1>2 DEF Unreadable
<1>12. PICK stop \in 1..N + 1 : /\ \A i \in 1..stop - 1 : i \notin Unreadable
                                /\ stop <= N => stop \in Unreadable
                                /\ Unreadable # {} => stop = Min(Unreadable)
                                /\ Unreadable = {} => stop = N + 1
  <2>1. CASE Unreadable = {}
    <3>1. N + 1 \in 1..N + 1 /\ ~(N + 1 <= N)
      OBVIOUS
    <3> QED BY <2>1, <3>1
  <2>2. CASE Unreadable # {}
    <3>1. PICK m \in Unreadable : \A x \in Unreadable : m <= x
      <4>1. Unreadable \subseteq Nat
        BY <1>11
      <4> QED BY <2>2, <4>1, LeastMember
    <3>2. Min(Unreadable) \in Unreadable /\ \A x \in Unreadable : Min(Unreadable) <= x
      BY <3>1 DEF Min
    <3>3. PICK k : k = Min(Unreadable)
      OBVIOUS
    <3>4. k \in 1..N /\ k \in 1..N + 1
      BY <1>11, <3>2, <3>3
    <3>5. \A i \in 1..k - 1 : i \notin Unreadable
      BY <3>2, <3>3, <3>4
    <3> QED BY <2>2, <3>2, <3>3, <3>4, <3>5
  <2> QED BY <2>1, <2>2
<1> DEFINE read(i) == [j \in 1..i |-> Payload[log[j]]]
           good == stop - 1
<1>13. good \in 0..N /\ stop = good + 1 /\ good \in Nat
  BY <1>12
<1> HIDE DEF good
<1>14. ASSUME NEW i \in 1..good
       PROVE  /\ Len(part[i - 1]) \in 0..L /\ Len(part[i]) \in 0..L
              /\ from[Len(part[i - 1])] = <<Payload[log[i]]>> \o from[Len(part[i])]
              /\ Payload[log[i]] \in E
  <2>1. i \in 1..N /\ i \in 1..stop - 1 /\ i - 1 \in 0..N /\ i \in 0..N
    BY <1>13
  <2>2. log[i] # Torn /\ Fits(Payload[log[i]])
    BY <1>11, <1>12, <2>1
  <2>3. PICK more \in Seq(Cells) :
                /\ Here(cells, Len(part[i - 1])) = decode(chunks[i] \o more)
                /\ L = Len(part[i]) + Len(more)
                /\ Len(part[i]) = Len(part[i - 1]) + Len(chunks[i])
                /\ Len(more) \in Nat /\ Len(chunks[i]) \in Nat
    BY <1>10, <2>1
  <2>4. PICK n \in Nat, c \in Nat \ {0}, m \in Nat, W \in Nat \ {0} :
          n = Len(part[i - 1]) /\ c = Len(chunks[i]) /\ m = Len(more) /\ W = WordCells
    <3>1. chunks[i] # <<>> /\ chunks[i] \in Seq(Cells)
      BY <1>3, <2>1, <2>2, ChunkDecodes
    <3>2. Len(chunks[i]) \in Nat \ {0}
      BY <3>1, EmptySeq
    <3>3. Len(part[i - 1]) \in Nat
      BY <1>6, <2>1
    <3>4. WordCells \in Nat \ {0}
      BY WordPlaces
    <3> QED BY <2>3, <3>2, <3>3, <3>4
  <2>5. Here(cells, n) = Decoded(Payload[log[i]], c - W)
    BY <1>3, <2>1, <2>2, <2>3, <2>4, ChunkDecodes
  <2>6. Here(cells, n).consumed = c /\ Here(cells, n).entry = Payload[log[i]]
    <3>1. (c - W) + W = c
      OBVIOUS
    <3> QED BY <2>4, <2>5, <3>1 DEF Decoded
  <2>7. n \in 0..L /\ n + c \in 0..L /\ n # L /\ Len(part[i]) = n + c
    <3>1. L = n + c + m /\ Len(part[i]) = n + c
      BY <2>3, <2>4
    <3> QED BY <3>1
  <2>8. ~is_err(Here(cells, n))
    BY <2>6 DEF is_err
  <2> QED BY <1>8, <1>9, <2>4, <2>6, <2>7, <2>8
<1>15. ASSUME NEW i \in 0..good
       PROVE  read(i) \in Seq(E) /\ Len(read(i)) = i
  <2>1. i \in Nat /\ \A j \in 1..i : j \in 1..good
    BY <1>13
  <2>2. read(i) \in [1..i -> E]
    BY <1>14, <2>1
  <2> QED BY <2>1, <2>2, SeqDef, LenProperties
<1>16. Len(part[0]) = 0 /\ 0 \in 0..L
  BY <1>4, EmptySeq DEF Parts
<1> DEFINE S == {i \in 0..good : /\ Len(part[i]) \in 0..L
                                 /\ from[0] = read(i) \o from[Len(part[i])]}
<1>17. good \in S
  <2>1. 0 \in S
    <3>1. read(0) = <<>>
      <4>1. 0 \in 0..good
        BY <1>13
      <4>2. read(0) \in Seq(E) /\ Len(read(0)) = 0
        BY <1>15, <4>1
      <4> HIDE DEF read
      <4> QED BY <4>2, EmptySeq
    <3>2. <<>> \o from[0] = from[0]
      BY <1>9, <1>16, ConcatEmptySeq
    <3>3. Len(part[0]) \in 0..L /\ from[Len(part[0])] = from[0] /\ 0 \in 0..good
      BY <1>13, <1>16
    <3> HIDE DEF read
    <3> QED BY <3>1, <3>2, <3>3
  <2>2. ASSUME NEW i \in 0..good - 1, i \in S PROVE i + 1 \in S
    <3>1. i + 1 \in 1..good /\ i + 1 \in 0..good /\ (i + 1) - 1 = i /\ i \in 0..good
      BY <1>13
    <3>2. PICK p, f : p = Payload[log[i + 1]] /\ f = from[Len(part[i + 1])]
      OBVIOUS
    <3>3. Len(part[i + 1]) \in 0..L /\ p \in E /\ from[Len(part[i])] = <<p>> \o f
      BY <1>14, <3>1, <3>2
    <3>4. f \in Seq(E) /\ <<p>> \in Seq(E)
      BY <1>9, <3>2, <3>3
    <3>5. read(i) \in Seq(E) /\ Len(read(i)) = i /\ read(i + 1) \in Seq(E) /\ Len(read(i + 1)) = i + 1
      BY <1>15, <3>1
    <3>6. read(i) \o <<p>> = read(i + 1)
      <4>1. \A j \in 1..i : read(i + 1)[j] = read(i)[j]
        BY <3>1
      <4>2. read(i + 1)[i + 1] = p
        BY <3>1, <3>2
      <4> HIDE DEF read
      <4>3. Len(<<p>>) = 1 /\ <<p>>[1] = p /\ i \in Nat
        BY <1>13
      <4>4. /\ read(i) \o <<p>> \in Seq(E) /\ Len(read(i) \o <<p>>) = i + 1
            /\ \A j \in 1..i + 1 : (read(i) \o <<p>>)[j] = IF j <= i THEN read(i)[j] ELSE <<p>>[j - i]
        BY <3>4, <3>5, <4>3, ConcatProperties
      <4>5. \A j \in 1..i + 1 : (read(i) \o <<p>>)[j] = read(i + 1)[j]
        <5> TAKE j \in 1..i + 1
        <5>1. CASE j <= i
          <6>1. j \in 1..i
            BY <4>3, <5>1
          <6> QED BY <4>1, <4>4, <5>1, <6>1
        <5>2. CASE ~(j <= i)
          <6>1. j = i + 1 /\ j - i = 1
            BY <4>3, <5>2
          <6> QED BY <4>2, <4>3, <4>4, <5>2, <6>1
        <5> QED BY <5>1, <5>2
      <4> QED BY <3>5, <4>4, <4>5, SeqEqual
    <3>7. from[0] = read(i) \o (<<p>> \o f)
      BY <2>2, <3>3
    <3> HIDE DEF read
    <3>8. (read(i) \o <<p>>) \o f = read(i) \o (<<p>> \o f)
      BY <3>4, <3>5, ConcatAssociative
    <3> QED BY <3>1, <3>2, <3>3, <3>6, <3>7, <3>8
  <2>3. \A i \in 0..good - 1 : i \in S => i + 1 \in S
    BY <2>2
  <2> HIDE DEF S
  <2>4. \A i \in 0..good : i \in S
    BY <1>13, <2>1, <2>3, UpTo
  <2> QED BY <1>13, <2>4
<1> DEFINE readable == IF Unreadable = {} THEN log ELSE SubSeq(log, 1, Min(Unreadable) - 1)
           entries == replay_bytes(file)
<1>18. Payloads(readable) = read(good)
  <2>1. readable \in Seq(Frames) /\ DOMAIN readable = 1..good /\ \A i \in 1..good : readable[i] = log[i]
    <3>1. CASE Unreadable = {}
      <4>1. good = N
        BY <1>12, <1>13, <3>1
      <4> QED BY <1>1, <1>2, <3>1, <4>1
    <3>2. CASE Unreadable # {}
      <4>1. readable = SubSeq(log, 1, good)
        BY <1>12, <3>2 DEF good
      <4> QED BY <1>1, <1>2, <1>13, <4>1, CutLog
    <3> QED BY <3>1, <3>2
  <2> QED BY <2>1 DEF Payloads
<1>19. entries = read(good) \o from[Len(part[good])] /\ Len(part[good]) \in 0..L
  BY <1>5, <1>8, <1>17
<1>20. read(good) \in Seq(E) /\ Len(read(good)) = good /\ from[Len(part[good])] \in Seq(E)
  <2>1. good \in 0..good
    BY <1>13
  <2> HIDE DEF read
  <2> QED BY <1>9, <1>15, <1>19, <2>1
<1>21. PICK r, f : r = read(good) /\ f = from[Len(part[good])]
  OBVIOUS
<1> HIDE DEF read, entries, readable
<1>22. IsPrefix(r, r \o f)
  <2>1. r \in Seq(E) /\ f \in Seq(E) /\ Len(r) = good
    BY <1>20, <1>21
  <2>2. Len(f) \in Nat
    BY <2>1, LenProperties
  <2>3. /\ r \o f \in Seq(E) /\ Len(r \o f) = good + Len(f)
        /\ \A i \in 1..good + Len(f) : (r \o f)[i] = IF i <= good THEN r[i] ELSE f[i - good]
    BY <2>1, ConcatProperties
  <2>4. SubSeq(r, 1, good) = r
    BY <2>1, SubSeqFull
  <2>5. SubSeq(r \o f, 1, good) = r
    <3>1. PICK c : c = r \o f
      OBVIOUS
    <3>2. \A i \in 1..good : c[i] = r[i] /\ c[i] \in E
      <4> TAKE i \in 1..good
      <4>1. i <= good /\ i \in 1..good + Len(f)
        BY <1>13, <2>2
      <4> QED BY <2>1, <2>3, <3>1, <4>1, ElementOfSeq
    <3>3. 1 \in Int /\ good \in Int /\ good - 1 + 1 = good /\ (~(1 <= good) => good = 0)
          /\ \A i \in 1..good : 1 + i - 1 = i
      BY <1>13
    <3>4. /\ SubSeq(c, 1, good) \in Seq(E)
          /\ Len(SubSeq(c, 1, good)) = IF 1 <= good THEN good - 1 + 1 ELSE 0
          /\ \A i \in 1..good - 1 + 1 : SubSeq(c, 1, good)[i] = c[1 + i - 1]
      BY <3>2, <3>3, SubSeqProperties
    <3>5. Len(SubSeq(c, 1, good)) = good /\ \A i \in 1..good : SubSeq(c, 1, good)[i] = r[i]
      BY <3>2, <3>3, <3>4
    <3>6. SubSeq(c, 1, good) = r
      BY <2>1, <3>4, <3>5, SeqEqual
    <3> QED BY <3>1, <3>6
  <2>6. good <= Len(r \o f)
    BY <1>13, <2>2, <2>3
  <2> QED BY <2>1, <2>4, <2>5, <2>6 DEF IsPrefix
<1>23. ASSUME Unreadable \subseteq TornFrames(log) \cap {Len(log)}
       PROVE  f = <<>>
  <2>1. CASE Unreadable = {}
    <3>1. good = N
      BY <1>12, <1>13, <2>1
    <3>2. Len(part[good]) = L
      BY <1>6, <1>7, <3>1
    <3> QED BY <1>9, <1>19, <1>21, <3>2
  <2>2. CASE Unreadable # {}
    <3>1. Unreadable = {N} /\ log[N] = Torn
      BY <1>2, <1>23, <2>2 DEF TornFrames
    <3>2. stop = N /\ N \in 1..N
      <4>1. stop <= N
        <5>1. stop # N + 1
          <6>1. N \in 1..N
            BY <1>11, <3>1
          <6>2. stop = N + 1 => N \in 1..stop - 1
            BY <6>1
          <6> QED BY <1>12, <3>1, <6>2
        <5> QED BY <1>12, <5>1
      <4> QED BY <1>11, <1>12, <3>1, <4>1
    <3>3. good = N - 1
      BY <1>13, <3>2
    <3>4. PICK more \in Seq(Cells) :
            Here(cells, Len(part[N - 1])) = decode(chunks[N] \o more) /\ (N = N => more = <<>>)
      BY <1>10, <3>2
    <3>5. chunks[N] \in Seq(Cells) /\ ChunkOf(log[N], chunks[N]) /\ log[N] \in Frames
      BY <1>3, <3>2
    <3>6. chunks[N] \o more = chunks[N]
      BY <3>4, <3>5, ConcatEmptySeq
    <3>7. is_err(Here(cells, Len(part[N - 1])))
      BY <3>1, <3>4, <3>5, <3>6, ChunkDecodes
    <3> QED BY <1>9, <1>19, <1>21, <3>3, <3>7
  <2> QED BY <2>1, <2>2
<1>24. f = <<>> => r \o f = r
  BY <1>20, <1>21, ConcatEmptySeq
<1>25. IsPrefix(Payloads(readable), entries)
       /\ (Unreadable \subseteq TornFrames(log) \cap {Len(log)} => entries = Payloads(readable))
  BY <1>18, <1>19, <1>21, <1>22, <1>23, <1>24
<1> QED BY <1>25 DEF BytesReplayAsFrames, readable, entries

\* Replaying the bytes of any log gives the entries of its frames, up to the
\* first one that does not decode.
THEOREM BytesAlwaysReplayAsFrames ==
    OversizedRejected => (BytesSpec => []BytesReplayAsFrames)
<1> SUFFICES ASSUME OversizedRejected PROVE BytesSpec => []BytesReplayAsFrames
  OBVIOUS
<1>1. BytesInv => BytesReplayAsFrames
  BY InvImpliesReplay
<1> QED
  BY <1>1, BytesInvariant, PTL
=============================================================================
