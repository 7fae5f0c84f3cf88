------------------------------- MODULE Poller -------------------------------
(***************************************************************************)
(* The poll loop (internal/sender/poller.go) beside the fast path: query   *)
(* windows that grow, slices, the prefetch of the next window, and the     *)
(* cursor that follows what is in the log.                                 *)
(*                                                                         *)
(* A query is one read of the source.  Its result is a function from the   *)
(* points found to their versions.  A failed append leaves a prefix of the *)
(* points, by their timestamps, in the log.                                *)
(***************************************************************************)
EXTENDS FastPath, Backpressure

CONSTANTS
    Window,         \* base window
    MaxWindow,      \* longest window of one query
    WindowCap,      \* emptySkipMaxWindow
    Watermark,      \* how far behind the clock a window ends
    WindowTarget,   \* points from which on a window counts as dense
    TooLarge        \* points that no frame can carry

ASSUME PollerAssumption ==
    /\ Window \in Nat \ {0} /\ MaxWindow \in Nat \ {0} /\ WindowCap \in Nat \ {0}
    /\ Watermark \in Nat /\ WindowTarget \in Nat
    /\ TooLarge \subseteq Points

VARIABLES
    cursor,     \* cp.CursorNs in memory
    cpCursor,   \* and in the checkpoint file
    streak,     \* underfillStreak, counted as far as windowSize tells it apart
    slot,       \* the prefetch in flight, or NoSlot
    poll,       \* [pc, start, end, until, found, slice]: where pollOnce is, and the kind of slice
    bp          \* state of the backpressure

pollVars == <<cursor, cpCursor, streak, slot, poll, bp>>
vars == <<pathVars, faults, pollVars>>

\* What a query may find: a function from some of the points to versions.
Results == UNION {[D -> Versions] : D \in SUBSET Points}
Nothing == [p \in {} |-> 0]
NoSlot == [state |-> "none", start |-> 0, end |-> 0, found |-> Nothing]
Resting == [pc |-> "idle", start |-> 0, end |-> 0, until |-> 0, found |-> Nothing, slice |-> "none"]

Slots == [state : {"none", "pending", "done", "failed"},
          start : 0 .. MaxTime, end : 0 .. MaxTime, found : Results]
Polls == [pc : {"idle", "begin", "query", "filter", "slice", "append", "cursor"},
          start : 0 .. MaxTime, end : 0 .. MaxTime, until : 0 .. MaxTime,
          found : Results, slice : {"none", "empty", "sparse", "dense"}]

TypeOK ==
    /\ PathTypeOK
    /\ cursor \in 0 .. MaxTime /\ cpCursor \in 0 .. cursor
    /\ streak \in Nat
    /\ slot \in Slots
    /\ poll \in Polls
    /\ bp \in Pressures
-----------------------------------------------------------------------------
Least(a, b) == IF a < b THEN a ELSE b

\* windowSize
WindowSize(n) == Least(Window * 2^n, WindowCap)
Grown == IF WindowSize(streak) < WindowCap THEN streak + 1 ELSE streak

\* Variant for a mutation: no watermark.
BuggyCeiling == now
Ceiling == now - Watermark

\* What QueryRange finds in [s, e).
Found(s, e) == [p \in {q \in Points : src[q] > 0 /\ s <= Stamp[q] /\ Stamp[q] < e} |-> src[p]]

\* Filter: without the points the fast path has registered.
Filter(found, seen) == [p \in DOMAIN found \ seen |-> found[p]]
Dense(found) == Cardinality(DOMAIN found) >= WindowTarget
Goto(stage) == poll' = [poll EXCEPT !.pc = stage]
Rest == poll' = Resting

Init ==
    /\ PathInit
    /\ cursor = 0 /\ cpCursor = 0
    /\ streak = 0 /\ slot = NoSlot /\ poll = Resting /\ bp = "normal"

\* A tick or a signal: the backpressure is decided, then a poll begins or not.
Wake(usage) ==
    /\ poll.pc = "idle"
    /\ IF usage = "green" THEN NoFault ELSE Fault
    /\ bp' = NextPressure(bp, usage)
    /\ IF bp' = "paused" THEN UNCHANGED poll ELSE Goto("begin")
    /\ UNCHANGED <<pathVars, cursor, cpCursor, streak, slot>>

\* pollOnce: where the window ends.
Reach == Least(cursor + WindowSize(streak), Ceiling)
WindowEnd == IF streak = 0 THEN Least(Reach, cursor + MaxWindow) ELSE Reach
Sliced == streak > 0 /\ WindowEnd - cursor > MaxWindow

NoWindow ==
    /\ poll.pc = "begin"
    /\ WindowEnd <= cursor
    /\ Rest
    /\ NoFault /\ UNCHANGED <<pathVars, cursor, cpCursor, streak, slot, bp>>

BeginSlices ==
    /\ poll.pc = "begin"
    /\ WindowEnd > cursor /\ Sliced
    /\ slot' = NoSlot
    /\ poll' = [poll EXCEPT !.pc = "slice", !.start = cursor, !.until = WindowEnd]
    /\ NoFault /\ UNCHANGED <<pathVars, cursor, cpCursor, streak, bp>>

\* The prefetched window is taken as it is, if it begins at the cursor.
TakePrefetch ==
    /\ poll.pc = "begin"
    /\ WindowEnd > cursor /\ ~Sliced
    /\ slot.state \in {"done", "failed"} /\ slot.start = cursor
    /\ slot' = NoSlot
    /\ IF slot.state = "failed"
       THEN Rest /\ streak' = 0
       ELSE /\ poll' = [poll EXCEPT !.pc = "filter", !.start = cursor, !.end = slot.end, !.found = slot.found]
            /\ UNCHANGED streak
    /\ NoFault /\ UNCHANGED <<pathVars, cursor, cpCursor, bp>>

BeginQuery ==
    /\ poll.pc = "begin"
    /\ WindowEnd > cursor /\ ~Sliced
    /\ slot.state # "none" => slot.start # cursor
    /\ slot' = NoSlot
    /\ poll' = [poll EXCEPT !.pc = "query", !.start = cursor, !.end = WindowEnd]
    /\ NoFault /\ UNCHANGED <<pathVars, cursor, cpCursor, streak, bp>>

Query ==
    /\ poll.pc = "query"
    /\ poll' = [poll EXCEPT !.pc = "filter", !.found = Found(poll.start, poll.end)]
    /\ NoFault /\ UNCHANGED <<pathVars, cursor, cpCursor, streak, slot, bp>>

QueryFails ==
    /\ poll.pc \in {"query", "slice"}
    /\ Rest
    /\ streak' = 0
    /\ Fault /\ UNCHANGED <<pathVars, cursor, cpCursor, slot, bp>>

\* launchPrefetch, which runs while this window is still being appended.
PrefetchFrom(s) ==
    LET e == Least(s + WindowSize(streak), Ceiling)
    IN  IF WindowSize(streak) > MaxWindow \/ e <= s THEN slot
        ELSE [state |-> "pending", start |-> s, end |-> e, found |-> Nothing]

FilterWindow ==
    /\ poll.pc = "filter"
    /\ slot' = IF slot.state = "none" THEN PrefetchFrom(poll.end) ELSE slot
    /\ streak' = IF Dense(poll.found) THEN 0 ELSE Grown
    /\ dedup' = EvictLocked(cursor - Retention)
    /\ poll' = [poll EXCEPT !.pc = "append", !.found = Filter(@, dedup')]
    /\ NoFault /\ UNCHANGED <<now, src, pushes, carried, cursor, cpCursor, bp>>

\* The goroutine of the prefetch.
Prefetch ==
    /\ slot.state = "pending"
    /\ slot' = [slot EXCEPT !.state = "done", !.found = Found(slot.start, slot.end)]
    /\ NoFault /\ UNCHANGED <<pathVars, cursor, cpCursor, streak, poll, bp>>

PrefetchFails ==
    /\ slot.state = "pending"
    /\ slot' = [slot EXCEPT !.state = "failed"]
    /\ Fault /\ UNCHANGED <<pathVars, cursor, cpCursor, streak, poll, bp>>

\* pollSliced: the query of the next slice.
SliceEnd == Least(poll.start + MaxWindow, poll.until)

EmptySlice ==
    /\ poll.pc = "slice"
    /\ Found(poll.start, SliceEnd) = Nothing
    /\ streak' = Grown
    /\ dedup' = EvictLocked(poll.start - Retention)
    /\ poll' = [poll EXCEPT !.pc = "cursor", !.end = SliceEnd, !.found = Nothing, !.slice = "empty"]
    /\ NoFault /\ UNCHANGED <<now, src, pushes, carried, cursor, cpCursor, slot, bp>>

FilledSlice ==
    /\ poll.pc = "slice"
    /\ Found(poll.start, SliceEnd) # Nothing
    /\ dedup' = EvictLocked(poll.start - Retention)
    /\ LET found == Filter(Found(poll.start, SliceEnd), dedup')
       IN  /\ poll' = [poll EXCEPT !.pc = "append", !.end = SliceEnd, !.found = found,
                                     !.slice = IF Dense(found) THEN "dense" ELSE "sparse"]
           /\ streak' = IF Dense(found) THEN 0 ELSE streak
    /\ NoFault /\ UNCHANGED <<now, src, pushes, carried, cursor, cpCursor, slot, bp>>

\* appendFrames; a point too large for a frame of its own is skipped.
Sendable == Filter(poll.found, TooLarge)

AppendFrames ==
    /\ poll.pc = "append"
    /\ Carry(Sendable)
    /\ Goto("cursor")
    /\ NoFault /\ UNCHANGED <<now, src, pushes, dedup, cursor, cpCursor, streak, slot, bp>>

\* Variant for a mutation: the cursor moves on although the append failed.
BuggyAppendFails ==
    /\ poll.pc = "append"
    /\ Goto("cursor")
    /\ Fault /\ UNCHANGED <<now, src, pushes, dedup, carried, cursor, cpCursor, streak, slot, bp>>

\* The frames before the one that failed are in the log.
Earlier(p, q) == Stamp[p] < Stamp[q]
AppendFails ==
    /\ poll.pc = "append"
    /\ \E D \in SUBSET DOMAIN Sendable :
          /\ \A p \in D, q \in DOMAIN Sendable : Earlier(q, p) => q \in D
          /\ Carry([p \in D |-> Sendable[p]])
    /\ slot' = NoSlot
    /\ Rest
    /\ Fault /\ UNCHANGED <<now, src, pushes, dedup, cursor, cpCursor, streak, bp>>

\* The cursor in memory moves, whether the checkpoint can be saved or not; a sparse
\* slice counts as thin once it is saved.
SetCursor ==
    /\ poll.pc = "cursor"
    /\ cursor' = poll.end /\ cpCursor' = poll.end
    /\ streak' = IF poll.slice = "sparse" THEN Grown ELSE streak
    /\ IF poll.slice \in {"empty", "sparse"} /\ poll.end < poll.until
       THEN poll' = [poll EXCEPT !.pc = "slice", !.start = poll.end, !.found = Nothing]
       ELSE Rest
    /\ NoFault /\ UNCHANGED <<pathVars, slot, bp>>

SaveFails ==
    /\ poll.pc = "cursor"
    /\ cursor' = poll.end
    /\ slot' = NoSlot
    /\ Rest
    /\ Fault /\ UNCHANGED <<pathVars, cpCursor, streak, bp>>

\* The sender's Commit saves the whole checkpoint, the cursor with it.
SaveCheckpoint ==
    /\ cpCursor # cursor
    /\ cpCursor' = cursor
    /\ NoFault /\ UNCHANGED <<pathVars, cursor, streak, slot, poll, bp>>

\* Variant for a mutation: the restarted poller begins at the beginning.
BuggyRestart ==
    /\ cursor' = 0
    /\ streak' = 0 /\ slot' = NoSlot /\ poll' = Resting /\ bp' = "normal"
    /\ dedup' = {} /\ pushes' = {x \in pushes : x.at = "sent"}
    /\ Fault /\ UNCHANGED <<now, src, carried, cpCursor>>

\* The process ends, in the middle of a poll or of a push, and starts again.
Restart ==
    /\ cursor' = cpCursor
    /\ streak' = 0 /\ slot' = NoSlot /\ poll' = Resting /\ bp' = "normal"
    /\ dedup' = {} /\ pushes' = {x \in pushes : x.at = "sent"}
    /\ Fault /\ UNCHANGED <<now, src, carried, cpCursor>>

PollStep ==
    \/ \E usage \in Usages : Wake(usage)
    \/ NoWindow \/ BeginSlices \/ TakePrefetch \/ BeginQuery
    \/ Query \/ QueryFails \/ FilterWindow \/ EmptySlice \/ FilledSlice
    \/ AppendFrames \/ AppendFails \/ SetCursor \/ SaveFails
PrefetchStep == Prefetch \/ PrefetchFails

Clock == PassTime /\ UNCHANGED pollVars
PathStep == (ServeHTTP \/ \E p \in Points : Write(p)) /\ UNCHANGED pollVars

Next == Clock \/ PathStep \/ PollStep \/ PrefetchStep \/ SaveCheckpoint \/ Restart

Spec == Init /\ [][Next]_vars

\* The clock runs on, and the goroutines of the poller and its prefetch are scheduled.
FairSpec == Spec /\ WF_vars(Clock) /\ WF_vars(PollStep) /\ WF_vars(PrefetchStep)
-----------------------------------------------------------------------------
(***************************************************************************)
(* Properties                                                              *)
(***************************************************************************)
Passed(p) == src[p] # 0 /\ Stamp[p] < cursor

\* The cursor passes a point only when the log has what the source holds
\* (docs/architecture.md 7.1): "WAL first, then cursor" over failures, prefetched
\* and sliced windows, restarts and points the fast path took (poller.go:384).
NoPointSkipped == \A p \in Points \ TooLarge : Passed(p) => src[p] \in carried[p]

\* A version whose push was lost is sent by the poller, so the fast path loses
\* nothing (docs/a4-fast-path.md:54-60): what the cursor has passed is in the log,
\* or its push is still on the way.
LostPushCovered ==
    \A p \in Points \ TooLarge :
        Passed(p) => src[p] \in carried[p] \cup {x.version : x \in {y \in pushes : y.point = p}}

\* Filtered means forwarded (fastpath.go:238): what is registered is in the log.
FilteredForwarded == \A p \in dedup : carried[p] # {}

\* A window already read is complete: nothing is written into it afterwards,
\* so a prefetched result may be used however late (poller.go:331).
Complete(found, s, e) ==
    \A p \in Points : src[p] # 0 /\ s <= Stamp[p] /\ Stamp[p] < e => p \in DOMAIN found
PrefetchComplete == slot.state = "done" => Complete(slot.found, slot.start, slot.end)

\* Every point that the watermark leaves behind before the end of time gets into
\* the log: no failure, lost push, full disk or restart stops the cursor for good.
Due(p) == src[p] # 0 /\ Stamp[p] < MaxTime - Watermark
AllCarried == <>[](\A p \in Points \ TooLarge : Due(p) => carried[p] # {})
=============================================================================
