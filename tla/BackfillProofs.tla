--------------------------- MODULE BackfillProofs ---------------------------
(***************************************************************************)
(* Proofs about Backfill, for any history, clock, windows, bounded         *)
(* policies, old checkpoints and number of starts, with a probe that is    *)
(* told the shard groups of a database that is not empty.                  *)
(***************************************************************************)
EXTENDS Backfill, WellFoundedInduction, TLAPS

\* The probe is answered, and no data is as old as the first shard group of 1970,
\* whose start the code takes for "not found".
ProbeAnswered ==
    /\ Answers = {"shards"}
    /\ History # {} /\ \A d \in History : d >= Shard

\* What the stages of a start know: the time read is not before the installation,
\* the probe's answer is not after any data, and a first cursor that is still to
\* be saved leaves nothing out.
StartKnows ==
    /\ pc # "down" => started >= Today
    /\ pc \in {"apply", "init"} /\ conf # BackfillNone =>
          oldest > 0 /\ \A d \in data : oldest <= d
    /\ pc = "init" /\ cursor = 0 => \A d \in owed : InitialCursor <= d

HistoryKept == History \subseteq data /\ \A d \in data : d >= Shard

BackfillInv == TypeOK /\ HistoryKept /\ StartKnows /\ AskedCarried
-----------------------------------------------------------------------------
\* Max and Min of two integers.
LEMMA MaxOfTwo ==
    ASSUME NEW a \in Int, NEW b \in Int
    PROVE  Max({a, b}) \in {a, b} /\ Max({a, b}) >= a /\ Max({a, b}) >= b
<1>1. \E x \in {a, b} : \A y \in {a, b} : x >= y
  OBVIOUS
<1>2. QED BY <1>1 DEF Max

LEMMA MinOfTwo ==
    ASSUME NEW a \in Int, NEW b \in Int
    PROVE  Min({a, b}) \in {a, b} /\ Min({a, b}) <= a /\ Min({a, b}) <= b
<1>1. \E x \in {a, b} : \A y \in {a, b} : x =< y
  OBVIOUS
<1>2. QED BY <1>1 DEF Min

\* Every nonempty set of naturals has a least element, and Min is it.
LEMMA MinOfNaturals ==
    ASSUME NEW T, T \subseteq Nat, T # {}
    PROVE  Min(T) \in T /\ \A n \in T : Min(T) <= n
<1> DEFINE R == {ss \in Nat \X Nat : ss[1] < ss[2]}
<1>1. IsWellFoundedOn(R, Nat)
  BY NatLessThanWellFounded DEF OpToRel
<1>2. PICK m \in T : \A n \in T : <<n, m>> \notin R
  <2> HIDE DEF R
  <2> QED BY <1>1, WFMin
<1>3. \A n \in T : m =< n
  <2> TAKE n \in T
  <2>1. <<n, m>> \notin R
    BY <1>2
  <2>2. ~ (n < m)
    BY <2>1
  <2> QED BY <2>2
<1>4. QED BY <1>3 DEF Min

\* The start of a timestamp's shard group is not after it, and not 0.
LEMMA ShardStart ==
    ASSUME NEW d \in Nat, d >= Shard
    PROVE  Shard * (d \div Shard) \in Nat /\ 0 < Shard * (d \div Shard) /\ Shard * (d \div Shard) <= d
BY OldestDataAssumption

\* The probe by shard groups answers a time that is not after any data.
LEMMA ShardsFindOldest ==
    ASSUME NEW D, D \subseteq Nat, D # {}, \A d \in D : d >= Shard
    PROVE  /\ OldestByShards(D) \in Nat \ {0}
           /\ \A d \in D : OldestByShards(D) <= d
<1> DEFINE T == {Shard * (d \div Shard) : d \in D}
<1>1. T \subseteq Nat /\ T # {} /\ \A t \in T : 0 < t
  BY ShardStart
<1>2. Min(T) \in T /\ \A t \in T : Min(T) <= t
  BY <1>1, MinOfNaturals
<1>3. ASSUME NEW d \in D PROVE Min(T) <= d
  <2>1. Shard * (d \div Shard) \in T
    OBVIOUS
  <2>2. Shard * (d \div Shard) \in Nat /\ Shard * (d \div Shard) <= d
    BY ShardStart
  <2>3. Min(T) <= Shard * (d \div Shard) /\ Min(T) \in Nat
    BY <1>1, <1>2, <2>1
  <2>4. QED BY <2>2, <2>3
<1>4. OldestByShards(D) = Min(T)
  BY DEF OldestByShards
<1>5. QED BY <1>1, <1>2, <1>3, <1>4
-----------------------------------------------------------------------------
\* Policies are integers, as in the checkpoint.
LEMMA PoliciesInt == Policies \subseteq Int /\ BackfillNone \in Policies
BY BackfillAssumption DEF Policies, BackfillNone, BackfillAll

\* In a start that knows the oldest data the boundary lies in the past, and is
\* not after anything the policy asks for.
LEMMA BoundaryKnown ==
    ASSUME TypeOK, StartKnows, pc \in {"apply", "init"}, conf # BackfillNone
    PROVE  /\ Boundary \in 1 .. now
           /\ conf = BackfillAll => \A d \in data : Boundary <= d
           /\ conf # BackfillAll => \A d \in data : d >= started - conf => Boundary <= d
<1>1. oldest \in 1 .. now /\ \A d \in data : oldest <= d
  BY DEF TypeOK, StartKnows
<1>2. started \in 0 .. now /\ conf \in Int /\ data \subseteq Int
  BY PoliciesInt, BackfillAssumption DEF TypeOK
<1>3. CASE conf = BackfillAll
  <2>1. Boundary = oldest
    BY <1>3 DEF Boundary, BackfillAll, BackfillNone
  <2>2. QED BY <1>1, <1>3, <2>1
<1>4. CASE conf # BackfillAll
  <2>1. Boundary = Max({started - conf, oldest})
    BY <1>4 DEF Boundary
  <2>2. conf \in Durations /\ conf > 0
    <3>1. conf \in Durations
      BY <1>4 DEF TypeOK, Policies
    <3>2. Durations \subseteq 1 .. Today - 1 /\ Today \in Nat
      BY BackfillAssumption
    <3>3. QED BY <3>1, <3>2
  <2>3. /\ Boundary \in {started - conf, oldest}
        /\ Boundary >= started - conf /\ Boundary >= oldest
    <3>1. started - conf \in Int /\ oldest \in Int
      BY <1>1, <1>2
    <3>2. QED BY <2>1, <3>1, MaxOfTwo
  <2>4. Boundary \in 1 .. now
    BY <1>1, <1>2, <2>2, <2>3, BackfillAssumption DEF TypeOK
  <2>5. ASSUME NEW d \in data, d >= started - conf PROVE Boundary <= d
    BY <1>1, <1>2, <2>3, <2>5
  <2>6. QED BY <1>4, <2>4, <2>5
<1>5. QED BY <1>3, <1>4

\* The first cursor lies between the beginning of time and the present.
LEMMA InitialCursorType ==
    ASSUME TypeOK, StartKnows, pc \in {"apply", "init"}
    PROVE  InitialCursor \in 1 .. now
<1>1. started \in Today .. now
  BY BackfillAssumption DEF TypeOK, StartKnows
<1>2. CASE conf # BackfillNone /\ Boundary > 0
  BY <1>2, BoundaryKnown DEF InitialCursor
<1>3. CASE ~ (conf # BackfillNone /\ Boundary > 0)
  <2>1. InitialCursor = started - Watermark
    BY <1>3 DEF InitialCursor
  <2>2. QED BY <1>1, <2>1, BackfillAssumption DEF TypeOK
<1>4. QED BY <1>2, <1>3
-----------------------------------------------------------------------------
\* One lemma for the initial states and each action.
LEMMA InitInv ==
    ASSUME ProbeAnswered, Init
    PROVE  BackfillInv
<1>1. TypeOK
  <2>1. History \subseteq 1 .. MaxTime /\ Today \in Today .. MaxTime /\ 0 \in 0 .. Today
        /\ LegacyCursors \subseteq 0 .. Today /\ 0 \in 0 .. MaxStarts
    BY BackfillAssumption
  <2>2. QED BY <2>1, PoliciesInt DEF Init, TypeOK
<1>2. HistoryKept /\ StartKnows /\ AskedCarried
  BY DEF ProbeAnswered, Init, HistoryKept, StartKnows, AskedCarried
<1>3. QED BY <1>1, <1>2 DEF BackfillInv

LEMMA PassTimeInv ==
    ASSUME ProbeAnswered, BackfillInv, PassTime
    PROVE  BackfillInv'
<1> USE DEF BackfillInv
<1>1. /\ now' = now + 1 /\ now \in Int /\ now < MaxTime
      /\ data \subseteq data' /\ data' \subseteq data \cup {now}
      /\ owed' \subseteq data' /\ owed \subseteq owed' /\ owed' \subseteq owed \cup {now}
      /\ cursor = 0 => owed' = owed
      /\ now \in Today .. MaxTime /\ cursor \in 0 .. now
  BY BackfillAssumption DEF PassTime, TypeOK
<1>2. UNCHANGED <<pc, conf, started, oldest, checkpoint, carried, starts>>
  BY DEF PassTime
<1>3. TypeOK'
  BY <1>1, <1>2, BackfillAssumption DEF TypeOK, checkpoint
<1>4. HistoryKept'
  <2>1. now >= Shard
    <3>1. PICK d \in History : d >= Shard
      BY DEF ProbeAnswered
    <3>2. d \in Int /\ d < Today
      BY BackfillAssumption
    <3>3. QED BY <1>1, <3>1, <3>2, BackfillAssumption, OldestDataAssumption
  <2>2. QED BY <1>1, <2>1 DEF HistoryKept
<1>5. StartKnows'
  <2>1. InitialCursor' = InitialCursor
    BY <1>2 DEF InitialCursor, Boundary
  <2>2. QED BY <1>1, <1>2, <2>1 DEF StartKnows, TypeOK, checkpoint
<1>6. AskedCarried'
  BY <1>1, <1>2 DEF AskedCarried, checkpoint
<1>7. QED BY <1>3, <1>4, <1>5, <1>6

LEMMA BeginInv ==
    ASSUME BackfillInv, NEW c \in Policies, Begin(c)
    PROVE  BackfillInv'
<1> USE DEF BackfillInv
<1>1. TypeOK'
  BY BackfillAssumption DEF TypeOK, Begin, checkpoint
<1>2. HistoryKept' /\ AskedCarried'
  BY DEF HistoryKept, AskedCarried, Begin, checkpoint
<1>3. StartKnows'
  BY DEF TypeOK, StartKnows, Begin
<1>4. QED BY <1>1, <1>2, <1>3

LEMMA ProbeInv ==
    ASSUME ProbeAnswered, BackfillInv, Probe
    PROVE  BackfillInv'
<1> USE DEF BackfillInv
<1>1. data \subseteq Nat /\ data # {} /\ \A d \in data : d >= Shard
  <2>1. data \subseteq Nat
    BY BackfillAssumption DEF TypeOK
  <2>2. data # {}
    BY DEF HistoryKept, ProbeAnswered
  <2>3. QED BY <2>1, <2>2 DEF HistoryKept
<1>2. oldest' = OldestByShards(data)
  <2>1. OldestByShards(data) > 0
    <3>1. OldestByShards(data) \in Nat \ {0}
      BY <1>1, ShardsFindOldest
    <3>2. QED BY <3>1
  <2>2. ProbeOldestData("shards", data, now) = OldestByShards(data)
    BY <2>1 DEF ProbeOldestData
  <2>3. oldest' = ProbeOldestData("shards", data, now)
    BY DEF Probe, ProbeAnswered
  <2>4. QED BY <2>2, <2>3
<1>3. oldest' \in Nat \ {0} /\ \A d \in data : oldest' <= d
  BY <1>1, <1>2, ShardsFindOldest
<1>4. oldest' \in 0 .. now
  <2>1. PICK d \in History : TRUE
    BY DEF ProbeAnswered
  <2>2. d \in data /\ d \in Nat /\ d < Today
    BY <2>1, BackfillAssumption DEF HistoryKept
  <2>3. QED BY <1>3, <2>2, BackfillAssumption DEF TypeOK
<1>5. TypeOK'
  BY <1>4 DEF TypeOK, Probe, checkpoint
<1>6. HistoryKept' /\ AskedCarried'
  BY DEF HistoryKept, AskedCarried, Probe, checkpoint
<1>7. StartKnows'
  BY <1>3 DEF StartKnows, Probe
<1>8. QED BY <1>5, <1>6, <1>7

\* What a start may do to the cursor: leave it, or move it back to the boundary.
LEMMA AppliedCursor ==
    ASSUME TypeOK, StartKnows, pc = "apply", Applied
    PROVE  /\ cursor' \in 0 .. cursor
           /\ cursor = 0 => cursor' = 0
           /\ cursor' # cursor => /\ policy' # policy /\ ~legacy /\ conf # BackfillNone
                                 /\ cursor' = Boundary
           /\ ~legacy /\ conf # policy /\ conf # BackfillNone => cursor' <= Boundary
<1>1. cursor \in 0 .. now /\ now \in Int /\ policy' = conf
  BY BackfillAssumption DEF TypeOK, Applied
<1>2. conf # BackfillNone => Boundary \in 1 .. now
  BY BoundaryKnown
<1>3. CASE ~legacy /\ conf # policy /\ Rewinds
  BY <1>1, <1>2, <1>3 DEF Applied, Rewinds
<1>4. CASE ~ (~legacy /\ conf # policy /\ Rewinds)
  BY <1>1, <1>2, <1>4 DEF Applied, Rewinds
<1>5. QED BY <1>3, <1>4

LEMMA ApplyInv ==
    ASSUME BackfillInv, ApplyBackfillPolicy
    PROVE  BackfillInv'
<1> USE DEF BackfillInv
<1>1. /\ pc = "apply" /\ pc' = "init" /\ Applied /\ owed' = Asked
      /\ UNCHANGED <<now, data, conf, started, oldest, carried, starts>>
  BY DEF ApplyBackfillPolicy
<1>2. /\ cursor' \in 0 .. cursor
      /\ cursor = 0 => cursor' = 0
      /\ cursor' # cursor => /\ policy' # policy /\ ~legacy /\ conf # BackfillNone
                                 /\ cursor' = Boundary
      /\ ~legacy /\ conf # policy /\ conf # BackfillNone => cursor' <= Boundary
  BY <1>1, AppliedCursor
<1>3. cursor \in 0 .. now /\ now \in Int /\ data \subseteq Nat /\ owed \subseteq data
  BY BackfillAssumption DEF TypeOK
<1>4. conf # BackfillNone => Boundary \in 1 .. now
  BY <1>1, BoundaryKnown
<1> DEFINE wanted == {d \in data : conf = BackfillAll \/ (conf # BackfillNone /\ d >= started - conf)}
<1>5. \A d \in wanted : conf # BackfillNone /\ Boundary <= d
  <2>1. BackfillAll # BackfillNone
    BY DEF BackfillAll, BackfillNone
  <2>2. QED BY <1>1, <2>1, BoundaryKnown
<1>6. owed' = IF cursor = 0 THEN wanted
              ELSE IF legacy \/ conf = policy THEN owed ELSE owed \cup wanted
  BY <1>1 DEF Asked
<1> HIDE DEF wanted
<1>7. wanted \subseteq data
  BY DEF wanted
<1>8. TypeOK'
  <2>1. owed' \subseteq data'
    BY <1>1, <1>3, <1>6, <1>7
  <2>2. cursor' \in 0 .. now'
    BY <1>1, <1>2, <1>3
  <2>3. policy' \in Policies /\ legacy' \in BOOLEAN
    BY <1>1 DEF TypeOK, Applied
  <2>4. QED BY <1>1, <2>1, <2>2, <2>3 DEF TypeOK
<1>9. HistoryKept'
  BY <1>1 DEF HistoryKept
<1>10. AskedCarried'
  <2> SUFFICES ASSUME NEW d \in owed', d < cursor'
               PROVE  d \in carried
    BY <1>1 DEF AskedCarried
  <2>1. d \in Nat
    BY <1>3, <1>6, <1>7
  <2>2. cursor # 0 /\ d < cursor
    BY <1>2, <1>3, <2>1
  <2>3. CASE d \in owed
    BY <2>2, <2>3 DEF AskedCarried
  <2>4. CASE d \notin owed
    <3>1. d \in wanted /\ ~legacy /\ conf # policy
      BY <1>6, <2>2, <2>4
    <3>2. cursor' <= Boundary /\ Boundary <= d /\ Boundary \in Int
      BY <1>2, <1>4, <1>5, <3>1
    <3>3. QED BY <1>2, <1>3, <2>1, <3>2
  <2>5. QED BY <2>3, <2>4
<1>11. StartKnows'
  <2>1. started' >= Today /\ (conf' # BackfillNone => oldest' > 0 /\ \A d \in data' : oldest' <= d)
    BY <1>1 DEF StartKnows
  <2>2. ASSUME cursor' = 0, NEW d \in owed' PROVE InitialCursor <= d
    <3>1. cursor = 0
      BY <1>2, <1>3, <1>4, <2>2
    <3>2. d \in wanted
      BY <1>6, <2>2, <3>1
    <3>3. InitialCursor = Boundary
      BY <1>4, <1>5, <3>2 DEF InitialCursor
    <3>4. QED BY <1>5, <3>2, <3>3
  <2>3. InitialCursor' = InitialCursor
    BY <1>1 DEF InitialCursor, Boundary
  <2>4. QED BY <1>1, <2>1, <2>2, <2>3 DEF StartKnows
<1>12. QED BY <1>8, <1>9, <1>10, <1>11

LEMMA InitCursorInv ==
    ASSUME BackfillInv, InitCursor
    PROVE  BackfillInv'
<1> USE DEF BackfillInv
<1>1. /\ pc = "init" /\ pc' = "up"
      /\ cursor' = IF cursor = 0 THEN InitialCursor ELSE cursor
      /\ UNCHANGED <<now, data, conf, started, oldest, policy, legacy, carried, owed, starts>>
  BY DEF InitCursor
<1>2. InitialCursor \in 1 .. now
  BY <1>1, InitialCursorType
<1>3. cursor \in 0 .. now /\ now \in Int /\ owed \subseteq Nat
  BY BackfillAssumption DEF TypeOK
<1>4. TypeOK'
  <2>1. cursor' \in 0 .. now'
    BY <1>1, <1>2, <1>3
  <2>2. QED BY <1>1, <2>1 DEF TypeOK
<1>5. HistoryKept' /\ StartKnows'
  BY <1>1 DEF HistoryKept, StartKnows
<1>6. AskedCarried'
  <2>1. CASE cursor = 0
    <3>1. \A d \in owed : ~ (d < InitialCursor)
      BY <1>1, <1>2, <1>3, <2>1 DEF StartKnows
    <3>2. QED BY <1>1, <2>1, <3>1 DEF AskedCarried
  <2>2. CASE cursor # 0
    BY <1>1, <2>2 DEF AskedCarried
  <2>3. QED BY <2>1, <2>2
<1>7. QED BY <1>4, <1>5, <1>6

LEMMA StopInv ==
    ASSUME BackfillInv, Stop
    PROVE  BackfillInv'
<1> USE DEF BackfillInv
<1>1. TypeOK'
  BY DEF TypeOK, Stop, checkpoint
<1>2. HistoryKept' /\ StartKnows' /\ AskedCarried'
  BY DEF HistoryKept, StartKnows, AskedCarried, Stop, checkpoint
<1>3. QED BY <1>1, <1>2

\* Where a window ends.
LEMMA WindowEndType ==
    ASSUME TypeOK
    PROVE  WindowEnd \in Int /\ WindowEnd <= now
<1>1. cursor + Window \in Int /\ now - Watermark \in Int /\ now - Watermark <= now
  BY BackfillAssumption DEF TypeOK
<1>2. WindowEnd \in {cursor + Window, now - Watermark} /\ WindowEnd <= now - Watermark
  BY <1>1, MinOfTwo DEF WindowEnd
<1>3. QED BY <1>1, <1>2, BackfillAssumption DEF TypeOK

LEMMA PollInv ==
    ASSUME BackfillInv, Poll
    PROVE  BackfillInv'
<1> USE DEF BackfillInv
<1>1. /\ pc = "up" /\ cursor < WindowEnd
      /\ carried' = carried \cup InWindow /\ cursor' = WindowEnd
      /\ UNCHANGED <<now, data, pc, conf, started, oldest, policy, legacy, owed, starts>>
  <2>1. WindowEnd > cursor
    BY DEF Poll
  <2>2. cursor \in Int /\ WindowEnd \in Int
    BY WindowEndType, BackfillAssumption DEF TypeOK
  <2>3. QED BY <2>1, <2>2 DEF Poll
<1>2. cursor \in 0 .. now /\ now \in Int /\ WindowEnd \in Int /\ WindowEnd <= now
  BY WindowEndType, BackfillAssumption DEF TypeOK
<1>3. TypeOK'
  <2>1. cursor' \in 0 .. now'
    BY <1>1, <1>2
  <2>2. InWindow \subseteq data /\ carried \subseteq data
    BY DEF TypeOK, InWindow
  <2>3. carried' \subseteq data'
    BY <1>1, <2>2
  <2>4. QED BY <1>1, <2>1, <2>3 DEF TypeOK
<1>4. HistoryKept' /\ StartKnows'
  BY <1>1 DEF HistoryKept, StartKnows
<1>5. AskedCarried'
  <2> SUFFICES ASSUME NEW d \in owed, d < WindowEnd
               PROVE  d \in carried'
    BY <1>1 DEF AskedCarried
  <2>1. d \in data /\ d \in Nat
    BY BackfillAssumption DEF TypeOK
  <2>2. CASE d < cursor
    BY <1>1, <2>2 DEF AskedCarried
  <2>3. CASE ~ (d < cursor)
    <3>1. d \in InWindow
      BY <1>2, <2>1, <2>3 DEF InWindow
    <3>2. QED BY <1>1, <3>1
  <2>4. QED BY <2>2, <2>3
<1>6. QED BY <1>3, <1>4, <1>5

LEMMA StepInv ==
    ASSUME ProbeAnswered, BackfillInv, [Next]_vars
    PROVE  BackfillInv'
<1>1. CASE PassTime
  BY <1>1, PassTimeInv
<1>2. ASSUME NEW c \in Policies, Begin(c) PROVE BackfillInv'
  BY <1>2, BeginInv
<1>3. CASE Probe
  BY <1>3, ProbeInv
<1>4. CASE ApplyBackfillPolicy
  BY <1>4, ApplyInv
<1>5. CASE InitCursor
  BY <1>5, InitCursorInv
<1>6. CASE Poll
  BY <1>6, PollInv
<1>7. CASE Stop
  BY <1>7, StopInv
<1>8. ASSUME UNCHANGED vars PROVE BackfillInv'
  <2>1. TypeOK' /\ HistoryKept' /\ AskedCarried'
    BY <1>8 DEF vars, checkpoint, BackfillInv, TypeOK, HistoryKept, AskedCarried
  <2>2. InitialCursor' = InitialCursor
    BY <1>8 DEF vars, InitialCursor, Boundary
  <2>3. StartKnows'
    BY <1>8, <2>2 DEF vars, checkpoint, BackfillInv, StartKnows
  <2>4. QED BY <2>1, <2>3 DEF BackfillInv
<1>9. CASE NoWindow
  BY <1>8, <1>9 DEF NoWindow
<1>10. QED BY <1>1, <1>2, <1>3, <1>4, <1>5, <1>6, <1>7, <1>8, <1>9 DEF Next, Run

\* The inductive invariant of the start-up (ApplyBackfillPolicy, the first cursor).
THEOREM BackfillInvariant ==
    ASSUME ProbeAnswered
    PROVE  Spec => []BackfillInv
<1>1. Init => BackfillInv
  BY InitInv
<1>2. BackfillInv /\ [Next]_vars => BackfillInv'
  BY StepInv
<1>3. QED BY <1>1, <1>2, PTL DEF Spec
-----------------------------------------------------------------------------
\* Every variable of a start keeps its type; the cursor never passes the clock.
THEOREM BackfillTypeCorrect ==
    ASSUME ProbeAnswered
    PROVE  Spec => []TypeOK
<1>1. BackfillInv => TypeOK
  BY DEF BackfillInv
<1>2. QED BY <1>1, BackfillInvariant, PTL

\* The cursor leaves behind nothing the configuration has asked for, whatever the
\* policies of however many starts are and wherever they are stopped.
THEOREM BackfillAskedCarried ==
    ASSUME ProbeAnswered
    PROVE  Spec => []AskedCarried
<1>1. BackfillInv => AskedCarried
  BY DEF BackfillInv
<1>2. QED BY <1>1, BackfillInvariant, PTL

\* A step that moves the cursor back records a new policy.
LEMMA StepRewinds ==
    ASSUME BackfillInv, [Next]_vars
    PROVE  cursor' < cursor => policy' # policy /\ ~legacy
<1> USE DEF BackfillInv
<1>1. cursor \in 0 .. now /\ now \in Int
  BY BackfillAssumption DEF TypeOK
<1>2. CASE ApplyBackfillPolicy
  <2>1. pc = "apply" /\ Applied
    BY <1>2 DEF ApplyBackfillPolicy
  <2>2. QED BY <1>1, <2>1, AppliedCursor
<1>3. CASE InitCursor
  <2>1. InitialCursor \in 1 .. now
    BY <1>3, InitialCursorType DEF InitCursor
  <2>2. QED BY <1>1, <1>3, <2>1 DEF InitCursor
<1>4. CASE Poll
  <2>1. WindowEnd \in Int /\ WindowEnd > cursor /\ cursor' = WindowEnd
    BY <1>4, WindowEndType DEF Poll
  <2>2. QED BY <1>1, <2>1
<1>5. CASE ~ (ApplyBackfillPolicy \/ InitCursor \/ Poll)
  <2>1. cursor' = cursor
    BY <1>5 DEF Next, Run, PassTime, Begin, Probe, NoWindow, Stop, vars, checkpoint
  <2>2. QED BY <1>1, <2>1
<1>6. QED BY <1>2, <1>3, <1>4, <1>5

\* Only a change of the policy moves the cursor back, in the step that records it,
\* and never for a checkpoint of an old version.
THEOREM BackfillRewindOnce ==
    ASSUME ProbeAnswered
    PROVE  Spec => RewindOnce
<1>1. BackfillInv /\ [Next]_vars => [cursor' < cursor => policy' # policy /\ ~legacy]_vars
  BY StepRewinds
<1>2. QED BY <1>1, BackfillInvariant, PTL DEF Spec, RewindOnce
=============================================================================
