---------------------------- MODULE PollerProofs -----------------------------
(***************************************************************************)
(* Proofs about Poller and FastPath, for any points, windows, retention    *)
(* and number of faults, when points are written once and not later than   *)
(* the watermark allows.                                                   *)
(***************************************************************************)
EXTENDS Poller, TLAPS

\* What the documentation asks of the source: without it points are lost by design.
SourceOnTime == MaxVersion = 1 /\ Lateness <= Watermark

\* A time before which nothing is written any more.
Closed(e) == e = 0 \/ e + Watermark <= now

\* Points of [s, e) that were found or that the log has; that the log has.
Covered(found, s, e) ==
    \A p \in Points : src[p] # 0 /\ s <= Stamp[p] /\ Stamp[p] < e => p \in DOMAIN found \/ carried[p] # {}
InLog(s, e) ==
    \A p \in Points \ TooLarge : src[p] # 0 /\ s <= Stamp[p] /\ Stamp[p] < e => carried[p] # {}

\* What is registered as forwarded, or is about to be, is in the log.
PathKnows ==
    /\ FilteredForwarded
    /\ \A x \in pushes : x.at = "appended" => carried[x.point] # {}

CursorKnows == Closed(cursor) /\ InLog(0, cursor)

\* A prefetched window ends in the past, and nothing is missing from it.
SlotKnows ==
    slot.state # "none" => slot.start <= slot.end /\ Closed(slot.end) /\ PrefetchComplete

\* What each stage of a poll knows about its window.
PollKnows ==
    /\ Closed(poll.until)
    /\ poll.pc \in {"query", "filter", "slice", "append", "cursor"} => poll.start = cursor
    /\ poll.pc = "slice" => poll.start < poll.until
    /\ poll.pc \in {"query", "filter", "append", "cursor"} => poll.start <= poll.end /\ Closed(poll.end)
    /\ poll.pc = "filter" => Complete(poll.found, poll.start, poll.end)
    /\ poll.pc = "append" => Covered(poll.found, poll.start, poll.end)
    /\ poll.pc = "cursor" => InLog(poll.start, poll.end)

PollerInv == TypeOK /\ PathKnows /\ CursorKnows /\ SlotKnows /\ PollKnows
-----------------------------------------------------------------------------
\* Query results.
LEMMA ResultFacts ==
    ASSUME NEW f \in Results
    PROVE  DOMAIN f \subseteq Points /\ (\A p \in DOMAIN f : f[p] \in Versions) /\ f \in [DOMAIN f -> Versions]
<1>1. PICK D \in SUBSET Points : f \in [D -> Versions]
  BY DEF Results
<1>2. QED BY <1>1

LEMMA IntoResults ==
    ASSUME NEW D, D \subseteq Points, NEW f \in [D -> Versions]
    PROVE  f \in Results
BY DEF Results

LEMMA NothingType == Nothing \in Results /\ DOMAIN Nothing = {}
<1>1. Nothing \in [{} -> Versions] /\ DOMAIN Nothing = {}
  BY DEF Nothing
<1>2. QED BY <1>1, IntoResults

LEMMA FoundFacts ==
    ASSUME TypeOK, NEW s \in Int, NEW e \in Int
    PROVE  /\ Found(s, e) \in Results
           /\ Complete(Found(s, e), s, e)
<1> DEFINE D == {q \in Points : src[q] > 0 /\ s <= Stamp[q] /\ Stamp[q] < e}
<1>1. \A q \in D : src[q] \in Versions
  BY FastPathAssumption DEF TypeOK, PathTypeOK, Versions
<1>2. Found(s, e) \in [D -> Versions]
  BY <1>1 DEF Found
<1>3. DOMAIN Found(s, e) = D
  BY DEF Found
<1>4. Complete(Found(s, e), s, e)
  BY <1>3 DEF Complete, TypeOK, PathTypeOK
<1>5. QED BY <1>2, <1>4, IntoResults

LEMMA FilterFacts ==
    ASSUME NEW f \in Results, NEW seen
    PROVE  Filter(f, seen) \in Results /\ DOMAIN Filter(f, seen) = DOMAIN f \ seen
<1>1. Filter(f, seen) \in [DOMAIN f \ seen -> Versions]
  BY ResultFacts DEF Filter
<1>2. DOMAIN f \ seen \subseteq Points
  BY ResultFacts
<1>3. QED BY <1>1, <1>2, IntoResults DEF Filter

\* An append of some results to the log: it has them, and what it had before.
LEMMA CarryFacts ==
    ASSUME TypeOK, NEW f \in Results, Carry(f)
    PROVE  /\ carried' \in [Points -> SUBSET Versions]
           /\ \A p \in Points : carried[p] \subseteq carried'[p]
           /\ \A p \in DOMAIN f : carried'[p] # {}
<1>1. \A p \in DOMAIN f : p \in Points /\ f[p] \in Versions
  BY ResultFacts
<1>2. \A p \in Points : carried[p] \in SUBSET Versions
  BY DEF TypeOK, PathTypeOK
<1>3. carried' \in [Points -> SUBSET Versions]
  BY <1>1, <1>2 DEF Carry
<1>4. \A p \in Points : carried[p] \subseteq carried'[p]
  BY DEF Carry
<1>5. \A p \in DOMAIN f : f[p] \in carried'[p]
  BY <1>1 DEF Carry
<1>6. QED BY <1>3, <1>4, <1>5
-----------------------------------------------------------------------------
\* Steps of the clock, of clients and of the fast path: what is closed stays
\* closed, nothing is written behind it, and the log only grows.
LEMMA AroundPoll ==
    ASSUME SourceOnTime, PollerInv, UNCHANGED pollVars, PathTypeOK', PathKnows',
           now <= now',
           \A p \in Points : carried[p] \subseteq carried'[p],
           \A p \in Points : src'[p] = src[p] \/ now <= Stamp[p] + Lateness
    PROVE  PollerInv'
<1> USE FastPathAssumption, PollerAssumption DEF PollerInv, SourceOnTime
<1>1. TypeOK'
  BY DEF TypeOK, pollVars
<1>2. now \in Int /\ now' \in Int /\ \A p \in Points : Stamp[p] \in Nat
  BY DEF TypeOK, PathTypeOK
<1>3. ASSUME NEW e \in Nat, Closed(e)
      PROVE  Closed(e)' /\ \A p \in Points : Stamp[p] < e => src'[p] = src[p]
  BY <1>2, <1>3 DEF Closed
<1>4. cursor \in Nat /\ slot.end \in Nat /\ poll.end \in Nat /\ poll.until \in Nat
  BY DEF TypeOK, Slots, Polls
<1>5. CursorKnows'
  BY <1>3, <1>4 DEF CursorKnows, InLog, pollVars
<1>6. SlotKnows'
  BY <1>3, <1>4 DEF SlotKnows, PrefetchComplete, Complete, pollVars
<1>7. PollKnows'
  <2>1. Closed(poll.until)'
    BY <1>3, <1>4 DEF PollKnows, pollVars
  <2>2. ASSUME poll.pc \in {"query", "filter", "append", "cursor"}
        PROVE  Closed(poll.end)' /\ \A p \in Points : Stamp[p] < poll.end => src'[p] = src[p]
    BY <1>3, <1>4, <2>2 DEF PollKnows, pollVars
  <2>3. poll.pc = "filter" => Complete(poll.found, poll.start, poll.end)'
    BY <2>2 DEF PollKnows, Complete, pollVars
  <2>4. poll.pc = "append" => Covered(poll.found, poll.start, poll.end)'
    BY <2>2 DEF PollKnows, Covered, pollVars
  <2>5. poll.pc = "cursor" => InLog(poll.start, poll.end)'
    BY <2>2 DEF PollKnows, InLog, pollVars
  <2>6. QED BY <2>1, <2>2, <2>3, <2>4, <2>5 DEF PollKnows, pollVars
<1>8. QED BY <1>1, <1>5, <1>6, <1>7

LEMMA FaultType ==
    ASSUME TypeOK, Fault \/ NoFault
    PROVE  faults' \in 0 .. MaxFaults
BY FastPathAssumption DEF TypeOK, PathTypeOK, Fault, NoFault

LEMMA ClockInv ==
    ASSUME SourceOnTime, PollerInv, Clock
    PROVE  PollerInv'
<1> USE DEF PollerInv, Clock, PassTime
<1>1. now <= now' /\ PathTypeOK'
  BY FastPathAssumption, FaultType DEF TypeOK, PathTypeOK
<1>2. PathKnows'
  BY DEF PathKnows, FilteredForwarded
<1>3. QED BY <1>1, <1>2, AroundPoll

LEMMA WriteInv ==
    ASSUME SourceOnTime, PollerInv, NEW p \in Points, Write(p), UNCHANGED pollVars
    PROVE  PollerInv'
<1> USE DEF PollerInv, Write
<1>1. now \in Int /\ src[p] \in 0 .. MaxVersion /\ src' \in [Points -> 0 .. MaxVersion] /\ src'[p] = src[p] + 1
  BY FastPathAssumption DEF TypeOK, PathTypeOK
<1>2. src'[p] \in Versions
  BY <1>1, FastPathAssumption DEF Versions
<1>3. [point |-> p, version |-> src'[p], at |-> "sent"] \in Pushes
  BY <1>2 DEF Pushes
<1>4. PathTypeOK'
  BY <1>1, <1>3, FaultType DEF TypeOK, PathTypeOK
<1>5. PathKnows'
  BY DEF PathKnows, FilteredForwarded
<1>6. \A q \in Points : src'[q] = src[q] \/ now <= Stamp[q] + Lateness
  BY DEF TypeOK, PathTypeOK
<1>7. QED BY <1>1, <1>4, <1>5, <1>6, AroundPoll

LEMMA ServeInv ==
    ASSUME SourceOnTime, PollerInv, NEW x \in pushes, UNCHANGED pollVars,
           DropPush(x) \/ ForwardPush(x) \/ ForwardFails(x) \/ RegisterPush(x)
    PROVE  PollerInv'
<1> USE DEF PollerInv
<1> DEFINE F == [p \in {x.point} |-> x.version]
<1>1. x \in Pushes /\ x.point \in Points /\ x.version \in Versions
  BY DEF TypeOK, PathTypeOK, Pushes
<1>2. F \in Results /\ DOMAIN F = {x.point}
  BY <1>1, IntoResults
<1>3. now <= now' /\ now' = now /\ src' = src
  BY DEF TypeOK, PathTypeOK, DropPush, ForwardPush, ForwardFails, RegisterPush
<1>4. CASE DropPush(x)
  <2>1. PathTypeOK' /\ PathKnows'
    BY <1>4, FaultType DEF DropPush, TypeOK, PathTypeOK, PathKnows, FilteredForwarded
  <2>2. QED BY <1>3, <1>4, <2>1, AroundPoll DEF DropPush
<1>5. CASE ForwardPush(x)
  <2>1. Carry(F)
    BY <1>5 DEF ForwardPush
  <2> HIDE DEF F
  <2>2. /\ carried' \in [Points -> SUBSET Versions]
        /\ \A p \in Points : carried[p] \subseteq carried'[p]
        /\ carried'[x.point] # {}
    BY <1>2, <2>1, CarryFacts
  <2>3. [x EXCEPT !.at = "appended"] \in Pushes /\ [x EXCEPT !.at = "appended"].point = x.point
    BY <1>1 DEF Pushes
  <2>4. PathTypeOK'
    BY <1>5, <2>2, <2>3, FaultType DEF ForwardPush, TypeOK, PathTypeOK
  <2>5. \A q \in Points : carried[q] # {} => carried'[q] # {}
    BY <2>2
  <2>6. \A y \in pushes' : y.at = "appended" => carried'[y.point] # {}
    <3> TAKE y \in pushes'
    <3>1. CASE y \in pushes
      <4>1. y.point \in Points
        BY <3>1 DEF TypeOK, PathTypeOK, Pushes
      <4>2. QED BY <2>5, <3>1, <4>1 DEF PathKnows
    <3>2. CASE y = [x EXCEPT !.at = "appended"]
      BY <2>2, <2>3, <3>2
    <3>3. QED BY <1>5, <3>1, <3>2 DEF ForwardPush
  <2>7. FilteredForwarded'
    BY <1>5, <2>5 DEF ForwardPush, PathKnows, FilteredForwarded, TypeOK, PathTypeOK
  <2>8. QED BY <1>3, <2>2, <2>4, <2>6, <2>7, AroundPoll DEF PathKnows
<1>6. CASE ForwardFails(x)
  <2>1. Carry(F) \/ UNCHANGED carried
    BY <1>6 DEF ForwardFails
  <2> HIDE DEF F
  <2>2. /\ carried' \in [Points -> SUBSET Versions]
        /\ \A p \in Points : carried[p] \subseteq carried'[p]
    BY <1>2, <2>1, CarryFacts DEF TypeOK, PathTypeOK
  <2>3. PathTypeOK'
    BY <1>6, <2>2, FaultType DEF ForwardFails, TypeOK, PathTypeOK
  <2>4. \A y \in pushes' : y \in pushes /\ y.point \in Points
    BY <1>6 DEF ForwardFails, TypeOK, PathTypeOK, Pushes
  <2>5. PathKnows'
    BY <1>6, <2>2, <2>4 DEF ForwardFails, PathKnows, FilteredForwarded, TypeOK, PathTypeOK
  <2>6. QED BY <1>3, <2>2, <2>3, <2>5, AroundPoll
<1>7. CASE RegisterPush(x)
  <2>1. dedup' \subseteq dedup \cup {x.point} /\ carried[x.point] # {}
    BY <1>7 DEF RegisterPush, EvictLocked, PathKnows
  <2>2. PathTypeOK'
    BY <1>1, <1>7, <2>1, FaultType DEF RegisterPush, TypeOK, PathTypeOK
  <2>3. PathKnows'
    BY <1>7, <2>1 DEF RegisterPush, PathKnows, FilteredForwarded
  <2>4. QED BY <1>3, <1>7, <2>2, <2>3, AroundPoll DEF RegisterPush
<1>8. QED BY <1>4, <1>5, <1>6, <1>7
-----------------------------------------------------------------------------
\* Where a window or a slice ends: in the past, after its beginning.
LEMMA SizeType ==
    ASSUME TypeOK
    PROVE  WindowSize(streak) \in Int /\ Ceiling \in Int /\ Ceiling + Watermark = now
<1>1. 2^streak \in Int
  BY DEF TypeOK
<1>2. Window * 2^streak \in Int
  BY <1>1, PollerAssumption
<1>3. QED BY <1>2, PollerAssumption DEF WindowSize, Least, Ceiling, TypeOK, PathTypeOK

LEMMA WindowFacts ==
    ASSUME TypeOK, WindowEnd > cursor
    PROVE  WindowEnd \in 0 .. MaxTime /\ Closed(WindowEnd)
<1>1. cursor \in Nat /\ now \in 0 .. MaxTime /\ MaxTime \in Nat
  BY FastPathAssumption DEF TypeOK, PathTypeOK
<1>2. Reach \in Int /\ Reach <= Ceiling
  BY <1>1, SizeType DEF Reach, Least
<1>3. WindowEnd \in Int /\ WindowEnd <= Reach
  BY <1>1, <1>2, PollerAssumption DEF WindowEnd, Least
<1>4. QED BY <1>1, <1>2, <1>3, SizeType, PollerAssumption DEF Closed

LEMMA SliceFacts ==
    ASSUME TypeOK, PollKnows, poll.pc = "slice"
    PROVE  SliceEnd \in 0 .. MaxTime /\ Closed(SliceEnd) /\ poll.start < SliceEnd
BY PollerAssumption, FastPathAssumption DEF TypeOK, PathTypeOK, Polls, PollKnows, SliceEnd, Least, Closed

LEMMA GrownType ==
    ASSUME TypeOK
    PROVE  Grown \in Nat
BY DEF TypeOK, Grown

\* Steps of the poller leave the clock, the source and the pushes alone.
LEMMA PollSide ==
    ASSUME PollerInv, UNCHANGED <<now, src, pushes>>, dedup' \subseteq dedup, Fault \/ NoFault,
           carried' \in [Points -> SUBSET Versions],
           \A p \in Points : carried[p] \subseteq carried'[p]
    PROVE  PathTypeOK' /\ PathKnows'
<1> USE DEF PollerInv
<1>1. PathTypeOK'
  BY FaultType DEF TypeOK, PathTypeOK
<1>2. PathKnows'
  BY DEF PathKnows, FilteredForwarded, TypeOK, PathTypeOK, Pushes
<1>3. QED BY <1>1, <1>2

LEMMA RestFacts == Resting \in Polls /\ NoSlot \in Slots
BY NothingType, FastPathAssumption DEF Resting, NoSlot, Polls, Slots

\* What the log holds stays there.
LEMMA LogKept ==
    ASSUME TypeOK, UNCHANGED <<now, src>>,
           \A p \in Points : carried[p] \subseteq carried'[p],
           NEW s, NEW e
    PROVE  /\ InLog(s, e) => InLog(s, e)'
           /\ Closed(e) <=> Closed(e)'
BY DEF InLog, Closed

\* A step after which the loop rests, with the slot it had or none.
LEMMA RestInv ==
    ASSUME PollerInv, Rest, UNCHANGED <<now, src, pushes, cursor, cpCursor, bp>>, dedup' \subseteq dedup,
           Fault \/ NoFault, slot' \in {slot, NoSlot}, streak' \in Nat,
           carried' \in [Points -> SUBSET Versions],
           \A p \in Points : carried[p] \subseteq carried'[p]
    PROVE  PollerInv'
<1> USE DEF PollerInv, Rest
<1>1. PathTypeOK' /\ PathKnows'
  BY PollSide
<1>2. TypeOK'
  BY <1>1, RestFacts DEF TypeOK
<1>3. CursorKnows'
  BY LogKept DEF CursorKnows
<1>4. SlotKnows'
  BY DEF SlotKnows, NoSlot, PrefetchComplete, Complete, Closed
<1>5. PollKnows'
  BY DEF PollKnows, Resting, Closed
<1>6. QED BY <1>1, <1>2, <1>3, <1>4, <1>5

\* A step that only moves the loop on: the slot is kept or given up.
LEMMA MoveInv ==
    ASSUME PollerInv, UNCHANGED <<now, src, pushes, carried, cursor, cpCursor>>, dedup' \subseteq dedup,
           Fault \/ NoFault, SlotKnows', slot' \in Slots, streak' \in Nat, bp' \in Pressures,
           poll' \in Polls, PollKnows'
    PROVE  PollerInv'
<1> USE DEF PollerInv
<1>1. PathTypeOK' /\ PathKnows'
  BY PollSide DEF TypeOK, PathTypeOK
<1>2. TypeOK' /\ CursorKnows'
  BY <1>1 DEF TypeOK, CursorKnows, InLog, Closed
<1>3. QED BY <1>1, <1>2

\* The slot is left as it is, or given up.
LEMMA SlotKept ==
    ASSUME PollerInv, UNCHANGED <<now, src>>, slot' \in {slot, NoSlot}
    PROVE  SlotKnows' /\ slot' \in Slots
BY RestFacts DEF PollerInv, TypeOK, SlotKnows, NoSlot, PrefetchComplete, Complete, Closed
-----------------------------------------------------------------------------
LEMMA WakeInv ==
    ASSUME PollerInv, NEW usage \in Usages, Wake(usage)
    PROVE  PollerInv'
<1> USE DEF PollerInv, Wake, pathVars, Goto
<1>1. bp' \in Pressures
  BY DEF NextPressure, Pressures
<1>2. poll' \in Polls /\ PollKnows'
  BY DEF TypeOK, Polls, PollKnows, Closed
<1>3. SlotKnows' /\ slot' \in Slots
  BY SlotKept
<1>4. QED BY <1>1, <1>2, <1>3, MoveInv DEF TypeOK

LEMMA BeginInv ==
    ASSUME PollerInv, NoWindow \/ BeginSlices \/ TakePrefetch \/ BeginQuery
    PROVE  PollerInv'
<1> USE DEF PollerInv, pathVars
<1>1. CASE NoWindow
  BY <1>1, RestInv DEF NoWindow, TypeOK, PathTypeOK
<1>2. CASE BeginSlices
  <2> USE <1>2 DEF BeginSlices
  <2>1. WindowEnd \in 0 .. MaxTime /\ Closed(WindowEnd) /\ cursor \in 0 .. MaxTime
    BY WindowFacts DEF TypeOK
  <2>2. poll' \in Polls
    BY <2>1 DEF TypeOK, Polls
  <2>3. PollKnows'
    BY <2>1 DEF PollKnows, TypeOK, Polls, Closed
  <2>4. SlotKnows' /\ slot' \in Slots
    BY SlotKept
  <2>5. QED BY <2>2, <2>3, <2>4, MoveInv DEF TypeOK
<1>3. CASE TakePrefetch
  <2> USE <1>3 DEF TakePrefetch
  <2>1. SlotKnows' /\ slot' \in Slots
    BY SlotKept
  <2>2. CASE slot.state = "failed"
    BY <2>2, RestInv DEF TypeOK, PathTypeOK
  <2>3. CASE slot.state # "failed"
    <3>1. slot.state = "done" /\ slot \in Slots /\ slot.start = cursor
      BY <2>3 DEF TypeOK
    <3>2. poll' = [poll EXCEPT !.pc = "filter", !.start = cursor, !.end = slot.end, !.found = slot.found]
      BY <2>3
    <3>3. poll' \in Polls
      BY <3>1, <3>2 DEF TypeOK, Polls, Slots
    <3>4. Complete(slot.found, cursor, slot.end) /\ cursor <= slot.end /\ Closed(slot.end)
      BY <3>1 DEF SlotKnows, PrefetchComplete
    <3>5. PollKnows'
      BY <3>2, <3>4 DEF PollKnows, TypeOK, Polls, Closed, Complete
    <3>6. QED BY <2>1, <2>3, <3>3, <3>5, MoveInv DEF TypeOK
  <2>4. QED BY <2>2, <2>3
<1>4. CASE BeginQuery
  <2> USE <1>4 DEF BeginQuery
  <2>1. WindowEnd \in 0 .. MaxTime /\ Closed(WindowEnd) /\ cursor \in 0 .. MaxTime
    BY WindowFacts DEF TypeOK
  <2>2. poll' \in Polls
    BY <2>1 DEF TypeOK, Polls
  <2>3. PollKnows'
    BY <2>1 DEF PollKnows, TypeOK, Polls, Closed
  <2>4. SlotKnows' /\ slot' \in Slots
    BY SlotKept
  <2>5. QED BY <2>2, <2>3, <2>4, MoveInv DEF TypeOK
<1>5. QED BY <1>1, <1>2, <1>3, <1>4

LEMMA QueryInv ==
    ASSUME PollerInv, Query \/ QueryFails
    PROVE  PollerInv'
<1> USE DEF PollerInv, pathVars
<1>1. CASE Query
  <2> USE <1>1 DEF Query
  <2> DEFINE F == Found(poll.start, poll.end)
  <2>1. F \in Results /\ Complete(F, poll.start, poll.end)
    BY FoundFacts DEF TypeOK, Polls
  <2>2. poll' = [poll EXCEPT !.pc = "filter", !.found = F]
    OBVIOUS
  <2> HIDE DEF F
  <2>3. poll' \in Polls
    BY <2>1, <2>2 DEF TypeOK, Polls
  <2>4. PollKnows'
    BY <2>1, <2>2 DEF PollKnows, TypeOK, Polls, Closed, Complete
  <2>5. SlotKnows' /\ slot' \in Slots
    BY SlotKept
  <2>6. QED BY <2>3, <2>4, <2>5, MoveInv DEF TypeOK
<1>2. CASE QueryFails
  BY <1>2, RestInv DEF QueryFails, TypeOK, PathTypeOK
<1>3. QED BY <1>1, <1>2

\* The prefetch that is launched next begins where this window ends.
LEMMA PrefetchFromFacts ==
    ASSUME TypeOK, NEW s \in 0 .. MaxTime, PrefetchFrom(s) # slot
    PROVE  /\ PrefetchFrom(s) \in Slots
           /\ PrefetchFrom(s).state = "pending"
           /\ PrefetchFrom(s).start <= PrefetchFrom(s).end
           /\ Closed(PrefetchFrom(s).end)
<1> DEFINE e == Least(s + WindowSize(streak), Ceiling)
<1>1. s \in Int /\ WindowSize(streak) \in Int /\ Ceiling \in Int /\ Ceiling + Watermark = now
  BY FastPathAssumption, SizeType
<1>2. e \in Int /\ e <= Ceiling
  BY <1>1 DEF Least
<1> HIDE DEF e
<1>3. e > s /\ PrefetchFrom(s) = [state |-> "pending", start |-> s, end |-> e, found |-> Nothing]
  BY <1>1, <1>2 DEF PrefetchFrom, e
<1>4. e \in 0 .. MaxTime /\ Closed(e)
  BY <1>1, <1>2, <1>3, FastPathAssumption, PollerAssumption DEF TypeOK, PathTypeOK, Closed
<1>5. QED BY <1>1, <1>3, <1>4, NothingType DEF Slots

LEMMA FilterInv ==
    ASSUME PollerInv, FilterWindow
    PROVE  PollerInv'
<1> USE DEF PollerInv, FilterWindow
<1>1. dedup' \subseteq dedup
  BY DEF EvictLocked
<1>2. poll.end \in 0 .. MaxTime /\ poll.found \in Results
  BY DEF TypeOK, Polls
<1>3. Filter(poll.found, dedup') \in Results /\ DOMAIN Filter(poll.found, dedup') = DOMAIN poll.found \ dedup'
  BY <1>2, FilterFacts
<1>4. poll' = [poll EXCEPT !.pc = "append", !.found = Filter(poll.found, dedup')]
  BY DEF TypeOK, Polls
<1>5. poll' \in Polls
  BY <1>3, <1>4 DEF TypeOK, Polls
<1>6. Covered(Filter(poll.found, dedup'), poll.start, poll.end)
  BY <1>1, <1>3 DEF PollKnows, Complete, Covered, PathKnows, FilteredForwarded
<1>7. PollKnows'
  BY <1>4, <1>6 DEF PollKnows, TypeOK, Polls, Closed, Covered
<1>8. SlotKnows' /\ slot' \in Slots
  <2>1. CASE slot' = slot
    BY <2>1, SlotKept
  <2>2. CASE slot' # slot
    BY <1>2, <2>2, PrefetchFromFacts DEF SlotKnows, PrefetchComplete, Closed
  <2>3. QED BY <2>1, <2>2
<1>9. streak' \in Nat
  BY GrownType
<1>10. QED BY <1>1, <1>5, <1>7, <1>8, <1>9, MoveInv DEF TypeOK

LEMMA PrefetchInv ==
    ASSUME PollerInv, Prefetch \/ PrefetchFails
    PROVE  PollerInv'
<1> USE DEF PollerInv, pathVars
<1>1. PollKnows'
  BY DEF Prefetch, PrefetchFails, PollKnows, Closed, Complete, Covered, InLog
<1>2. CASE Prefetch
  <2> DEFINE F == Found(slot.start, slot.end)
  <2>1. F \in Results /\ Complete(F, slot.start, slot.end)
    BY FoundFacts DEF TypeOK, Slots
  <2>2. slot' = [slot EXCEPT !.state = "done", !.found = F]
    BY <1>2 DEF Prefetch
  <2> HIDE DEF F
  <2>3. slot' \in Slots
    BY <2>1, <2>2 DEF TypeOK, Slots
  <2>4. SlotKnows'
    BY <1>2, <2>1, <2>2 DEF Prefetch, SlotKnows, PrefetchComplete, Complete, Closed, TypeOK, Slots
  <2>5. QED BY <1>1, <1>2, <2>3, <2>4, MoveInv DEF Prefetch, TypeOK
<1>3. CASE PrefetchFails
  <2>1. slot' \in Slots
    BY <1>3 DEF PrefetchFails, TypeOK, Slots
  <2>2. SlotKnows'
    BY <1>3 DEF PrefetchFails, SlotKnows, PrefetchComplete, Closed, TypeOK, Slots
  <2>3. QED BY <1>1, <1>3, <2>1, <2>2, MoveInv DEF PrefetchFails, TypeOK
<1>4. QED BY <1>2, <1>3

LEMMA SliceInv ==
    ASSUME PollerInv, EmptySlice \/ FilledSlice
    PROVE  PollerInv'
<1> USE DEF PollerInv
<1> DEFINE F == Found(poll.start, SliceEnd)
<1>1. poll.pc = "slice" /\ dedup' \subseteq dedup
  BY DEF EmptySlice, FilledSlice, EvictLocked
<1>2. SliceEnd \in 0 .. MaxTime /\ Closed(SliceEnd) /\ poll.start < SliceEnd /\ poll.start \in 0 .. MaxTime
  BY <1>1, SliceFacts DEF TypeOK, Polls
<1>3. F \in Results /\ Complete(F, poll.start, SliceEnd)
  BY <1>2, FoundFacts
<1>4. SlotKnows' /\ slot' \in Slots
  BY SlotKept DEF EmptySlice, FilledSlice
<1>5. CASE EmptySlice
  <2> USE <1>5 DEF EmptySlice
  <2>1. poll' = [poll EXCEPT !.pc = "cursor", !.end = SliceEnd, !.found = Nothing, !.slice = "empty"]
    OBVIOUS
  <2>2. poll' \in Polls
    BY <1>2, <2>1, NothingType DEF TypeOK, Polls
  <2>3. InLog(poll.start, SliceEnd)
    BY <1>3, NothingType DEF InLog, Complete
  <2>4. PollKnows'
    BY <1>2, <2>1, <2>3 DEF PollKnows, TypeOK, Polls, Closed, InLog
  <2>5. streak' \in Nat
    BY GrownType
  <2>6. QED BY <1>1, <1>4, <2>2, <2>4, <2>5, MoveInv DEF TypeOK
<1>6. CASE FilledSlice
  <2> DEFINE G == Filter(F, dedup')
  <2>1. G \in Results /\ DOMAIN G = DOMAIN F \ dedup'
    BY <1>3, FilterFacts
  <2>2. poll' = [poll EXCEPT !.pc = "append", !.end = SliceEnd, !.found = G,
                                     !.slice = IF Dense(G) THEN "dense" ELSE "sparse"]
    BY <1>6 DEF FilledSlice
  <2>3. Covered(G, poll.start, SliceEnd)
    BY <1>1, <1>3, <2>1 DEF Complete, Covered, PathKnows, FilteredForwarded
  <2>4. UNCHANGED <<now, src, pushes, carried, cursor, cpCursor, slot, bp>> /\ NoFault
    BY <1>6 DEF FilledSlice
  <2>5. streak' \in Nat
    BY <1>6 DEF FilledSlice, TypeOK
  <2>6. (IF Dense(G) THEN "dense" ELSE "sparse") \in {"dense", "sparse"}
    OBVIOUS
  <2> HIDE DEF F, G
  <2>7. poll' \in Polls
    BY <1>2, <2>1, <2>2, <2>6 DEF TypeOK, Polls
  <2>8. PollKnows'
    BY <1>1, <1>2, <2>2, <2>3, <2>4 DEF PollKnows, TypeOK, Polls, Closed, Covered
  <2>9. QED BY <1>1, <1>4, <2>4, <2>5, <2>7, <2>8, MoveInv DEF TypeOK
<1>7. QED BY <1>5, <1>6

LEMMA AppendInv ==
    ASSUME PollerInv, AppendFrames
    PROVE  PollerInv'
<1> USE DEF PollerInv
<1>1. poll.found \in Results /\ poll.pc = "append"
  BY DEF TypeOK, Polls, AppendFrames
<1>2. Sendable \in Results /\ DOMAIN Sendable = DOMAIN poll.found \ TooLarge
  BY <1>1, FilterFacts DEF Sendable
<1>3. /\ carried' \in [Points -> SUBSET Versions]
      /\ \A p \in Points : carried[p] \subseteq carried'[p]
      /\ \A p \in DOMAIN Sendable : carried'[p] # {}
  BY <1>2, CarryFacts DEF AppendFrames
<1>4. /\ UNCHANGED <<now, src, pushes, dedup, cursor, cpCursor, streak, slot, bp>> /\ NoFault
      /\ poll' = [poll EXCEPT !.pc = "cursor"]
  BY DEF AppendFrames, Goto
<1>5. PathTypeOK' /\ PathKnows'
  BY <1>3, <1>4, PollSide
<1>6. streak' \in Nat
  BY <1>4 DEF TypeOK
<1>7. poll' \in Polls
  BY <1>4 DEF TypeOK, Polls
<1>8. InLog(poll.start, poll.end)'
  BY <1>1, <1>2, <1>3, <1>4 DEF PollKnows, Covered, InLog, TypeOK, Polls
<1>9. PollKnows'
  BY <1>1, <1>4, <1>8 DEF PollKnows, TypeOK, Polls, Closed
<1>10. CursorKnows'
  BY <1>3, <1>4, LogKept DEF CursorKnows
<1>11. SlotKnows'
  BY <1>4 DEF SlotKnows, PrefetchComplete, Complete, Closed
<1>12. QED BY <1>4, <1>5, <1>6, <1>7, <1>9, <1>10, <1>11 DEF TypeOK

LEMMA AppendFailsInv ==
    ASSUME PollerInv, AppendFails
    PROVE  PollerInv'
<1> USE DEF PollerInv
<1>1. poll.found \in Results
  BY DEF TypeOK, Polls
<1>2. Sendable \in Results
  BY <1>1, FilterFacts DEF Sendable
<1>3. PICK D \in SUBSET DOMAIN Sendable : Carry([p \in D |-> Sendable[p]])
  BY DEF AppendFails
<1> DEFINE F == [p \in D |-> Sendable[p]]
<1>4. F \in Results
  <2>1. D \subseteq Points /\ \A p \in D : Sendable[p] \in Versions
    BY <1>2, <1>3, ResultFacts
  <2>2. F \in [D -> Versions]
    BY <2>1
  <2>3. QED BY <2>1, <2>2, IntoResults
<1> HIDE DEF F
<1>5. /\ carried' \in [Points -> SUBSET Versions]
      /\ \A p \in Points : carried[p] \subseteq carried'[p]
  <2>1. Carry(F)
    BY <1>3 DEF F
  <2>2. QED BY <1>4, <2>1, CarryFacts
<1>6. QED BY <1>5, RestInv DEF AppendFails, TypeOK

\* The cursor moves to the end of a window that is in the log.
LEMMA CursorMoves ==
    ASSUME PollerInv, poll.pc = "cursor"
    PROVE  /\ poll.end \in cursor .. MaxTime
           /\ Closed(poll.end) /\ InLog(0, poll.end)
BY FastPathAssumption DEF PollerInv, TypeOK, PathTypeOK, Polls, PollKnows, CursorKnows, InLog

LEMMA SetCursorInv ==
    ASSUME PollerInv, SetCursor \/ SaveFails
    PROVE  PollerInv'
<1> USE DEF PollerInv, pathVars
<1>1. poll.end \in cursor .. MaxTime /\ Closed(poll.end) /\ InLog(0, poll.end)
  BY CursorMoves DEF SetCursor, SaveFails
<1>2. /\ cursor' = poll.end /\ cpCursor' \in {poll.end, cpCursor}
      /\ UNCHANGED <<now, src, pushes, dedup, carried, bp>>
      /\ slot' \in {slot, NoSlot} /\ (Fault \/ NoFault)
  BY DEF SetCursor, SaveFails
<1>3. PathTypeOK' /\ PathKnows'
  BY <1>2, PollSide DEF TypeOK, PathTypeOK
<1>4. SlotKnows' /\ slot' \in Slots
  BY <1>2, SlotKept
<1>5. CursorKnows'
  BY <1>1, <1>2 DEF CursorKnows, InLog, Closed
<1>6. poll' \in Polls /\ PollKnows'
  <2>1. CASE Rest
    BY <2>1, RestFacts DEF Rest, Resting, PollKnows, Closed
  <2>2. CASE poll.end < poll.until /\ poll' = [poll EXCEPT !.pc = "slice", !.start = poll.end, !.found = Nothing]
    <3>1. poll' \in Polls
      BY <2>2, NothingType DEF TypeOK, Polls
    <3>2. PollKnows'
      BY <1>2, <2>2 DEF PollKnows, TypeOK, Polls, Closed
    <3>3. QED BY <3>1, <3>2
  <2>3. QED BY <2>1, <2>2 DEF SetCursor, SaveFails
<1>7. streak' \in Nat
  BY GrownType DEF SetCursor, SaveFails, TypeOK
<1>8. TypeOK'
  BY <1>1, <1>2, <1>3, <1>4, <1>6, <1>7, FastPathAssumption DEF TypeOK
<1>9. QED BY <1>3, <1>4, <1>5, <1>6, <1>8

LEMMA SaveCheckpointInv ==
    ASSUME PollerInv, SaveCheckpoint
    PROVE  PollerInv'
<1> USE DEF PollerInv, SaveCheckpoint, pathVars
<1>1. PathTypeOK' /\ PathKnows'
  BY PollSide DEF TypeOK, PathTypeOK
<1>2. TypeOK'
  BY <1>1 DEF TypeOK
<1>3. CursorKnows' /\ SlotKnows' /\ PollKnows'
  BY DEF CursorKnows, SlotKnows, PollKnows, PrefetchComplete, Complete, Covered, InLog, Closed
<1>4. QED BY <1>1, <1>2, <1>3

\* A restart goes back to a cursor that the one in memory had passed.
LEMMA RestartInv ==
    ASSUME PollerInv, Restart
    PROVE  PollerInv'
<1> USE DEF PollerInv, Restart
<1>1. PathTypeOK'
  BY FaultType DEF TypeOK, PathTypeOK
<1>2. PathKnows'
  BY DEF PathKnows, FilteredForwarded
<1>3. TypeOK'
  <2>1. cursor' \in 0 .. MaxTime /\ cpCursor' \in 0 .. cursor'
    BY FastPathAssumption DEF TypeOK
  <2>2. streak' \in Nat /\ slot' \in Slots /\ poll' \in Polls /\ bp' \in Pressures
    BY RestFacts DEF Pressures
  <2>3. QED BY <1>1, <2>1, <2>2 DEF TypeOK
<1>4. CursorKnows'
  BY FastPathAssumption, PollerAssumption DEF CursorKnows, InLog, Closed, TypeOK, PathTypeOK
<1>5. SlotKnows' /\ PollKnows'
  BY DEF SlotKnows, NoSlot, PollKnows, Resting, Closed
<1>6. QED BY <1>1, <1>2, <1>3, <1>4, <1>5
-----------------------------------------------------------------------------
LEMMA InitInv == Init => PollerInv
<1> SUFFICES ASSUME Init PROVE PollerInv
  OBVIOUS
<1> USE FastPathAssumption DEF Init, PathInit
<1>1. PathTypeOK
  BY DEF PathTypeOK
<1>2. TypeOK
  BY <1>1, RestFacts DEF TypeOK, Pressures
<1>3. PathKnows /\ CursorKnows
  BY DEF PathKnows, FilteredForwarded, CursorKnows, Closed, InLog
<1>4. SlotKnows /\ PollKnows
  BY DEF SlotKnows, NoSlot, PollKnows, Resting, Closed
<1>5. QED BY <1>2, <1>3, <1>4 DEF PollerInv

LEMMA StepInv ==
    ASSUME SourceOnTime, PollerInv, [Next]_vars
    PROVE  PollerInv'
<1>1. CASE Clock
  BY <1>1, ClockInv
<1>2. CASE PathStep
  BY <1>2, WriteInv, ServeInv DEF PathStep, ServeHTTP
<1>3. CASE PollStep
  <2>1. ASSUME NEW usage \in Usages, Wake(usage) PROVE PollerInv'
    BY <2>1, WakeInv
  <2>2. CASE NoWindow \/ BeginSlices \/ TakePrefetch \/ BeginQuery
    BY <2>2, BeginInv
  <2>3. CASE Query \/ QueryFails
    BY <2>3, QueryInv
  <2>4. CASE FilterWindow
    BY <2>4, FilterInv
  <2>5. CASE EmptySlice \/ FilledSlice
    BY <2>5, SliceInv
  <2>6. CASE AppendFrames \/ AppendFails
    BY <2>6, AppendInv, AppendFailsInv
  <2>7. CASE SetCursor \/ SaveFails
    BY <2>7, SetCursorInv
  <2>8. QED BY <1>3, <2>1, <2>2, <2>3, <2>4, <2>5, <2>6, <2>7 DEF PollStep
<1>4. CASE PrefetchStep
  BY <1>4, PrefetchInv DEF PrefetchStep
<1>5. CASE SaveCheckpoint
  BY <1>5, SaveCheckpointInv
<1>6. CASE Restart
  BY <1>6, RestartInv
<1>7. CASE UNCHANGED vars
  <2> USE <1>7 DEF vars, pathVars, pollVars, PollerInv
  <2>1. TypeOK' /\ PathKnows' /\ CursorKnows'
    BY DEF TypeOK, PathTypeOK, PathKnows, FilteredForwarded, CursorKnows, InLog, Closed
  <2>2. SlotKnows' /\ PollKnows'
    BY DEF SlotKnows, PollKnows, PrefetchComplete, Complete, Covered, InLog, Closed
  <2>3. QED BY <2>1, <2>2
<1>8. QED BY <1>1, <1>2, <1>3, <1>4, <1>5, <1>6, <1>7 DEF Next

THEOREM PollerInvariant ==
    ASSUME SourceOnTime
    PROVE  Spec => []PollerInv
<1>1. PollerInv /\ [Next]_vars => PollerInv'
  BY StepInv
<1>2. QED BY <1>1, InitInv, PTL DEF Spec
-----------------------------------------------------------------------------
\* Every variable keeps its type; the cursor on disk is never ahead of the one in
\* memory, so a restart only repeats windows.
THEOREM PollerTypeCorrect ==
    ASSUME SourceOnTime
    PROVE  Spec => []TypeOK
<1>1. PollerInv => TypeOK
  BY DEF PollerInv
<1>2. QED BY <1>1, PollerInvariant, PTL

\* The cursor passes a point only when the log has it, over failed queries, appends
\* and saves, prefetched and sliced windows, pushes and restarts (poller.go:384-390).
THEOREM PollerNoPointSkipped ==
    ASSUME SourceOnTime
    PROVE  Spec => []NoPointSkipped
<1>1. PollerInv => NoPointSkipped
  <2> SUFFICES ASSUME PollerInv, NEW p \in Points \ TooLarge, Passed(p)
               PROVE  src[p] \in carried[p]
    BY DEF NoPointSkipped
  <2>1. carried[p] # {} /\ carried[p] \subseteq Versions /\ src[p] \in 0 .. MaxVersion /\ src[p] # 0
    BY FastPathAssumption DEF PollerInv, CursorKnows, InLog, Passed, TypeOK, PathTypeOK
  <2>2. Versions = {1} /\ src[p] = 1
    BY <2>1 DEF Versions, SourceOnTime
  <2>3. QED BY <2>1, <2>2
<1>2. QED BY <1>1, PollerInvariant, PTL

\* What is registered as forwarded is in the log, so filtering it loses nothing.
THEOREM PollerFilteredForwarded ==
    ASSUME SourceOnTime
    PROVE  Spec => []FilteredForwarded
<1>1. PollerInv => FilteredForwarded
  BY DEF PollerInv, PathKnows
<1>2. QED BY <1>1, PollerInvariant, PTL

\* Nothing is written into a window that was read ahead.
THEOREM PollerPrefetchComplete ==
    ASSUME SourceOnTime
    PROVE  Spec => []PrefetchComplete
<1>1. PollerInv => PrefetchComplete
  BY DEF PollerInv, SlotKnows, PrefetchComplete
<1>2. QED BY <1>1, PollerInvariant, PTL
=============================================================================
