----------------------------- MODULE PollWindow -----------------------------
(***************************************************************************)
(* One window of the poller from the source to the log: queryParallel,     *)
(* then appendFrames, which packs the points into frames and splits those  *)
(* that turn out too large (internal/sender/poller.go).                    *)
(***************************************************************************)
EXTENDS RangeQuery, Backpressure

CONSTANTS
    BatchPoints,        \* points of a frame
    PayloadLen(_),      \* size of a frame's lines,
    CompressedLen(_),   \* and of what is sent of them
    MaxDecompressedLen, \* 16 MB
    MaxFrameLen         \* 1 MB, less the header

\* Encode refuses a frame that is too large before or after compression.
TooLarge(points) == PayloadLen(points) > MaxDecompressedLen \/ CompressedLen(points) > MaxFrameLen

\* A point that is too large by itself makes every frame too large.
ASSUME WindowAssumption ==
    /\ BatchPoints \in Nat \ {0}
    /\ \A n \in 1 .. BatchPoints : \A f \in [1 .. n -> Rows] : \A k \in 1 .. n :
          TooLarge(<<f[k]>>) => TooLarge(f)

VARIABLES
    stage,      \* "query", "append", "done", "failed"
    window,     \* the points found
    todo,       \* stretches of the window still to be appended, and their batch size
    frames      \* the frames in the log

vars == <<rangeVars, stage, window, todo, frames>>

TypeOK ==
    /\ RangeTypeOK
    /\ stage \in {"query", "append", "done", "failed"}
    /\ ToSet(window) \subseteq Rows
    /\ \A c \in ToSet(todo) : c.first \in 1 .. c.last /\ c.last <= Len(window) /\ c.batch \in 1 .. BatchPoints
    /\ \A f \in ToSet(frames) : f # <<>>

Init ==
    /\ RangeInit
    /\ stage = "query" /\ window = <<>> /\ todo = <<>> /\ frames = <<>>

Query ==
    /\ stage = "query"
    /\ RangeStep
    /\ UNCHANGED <<stage, window, todo, frames>>

-----------------------------------------------------------------------------
\* effectiveBatchPoints: half the points while the backpressure is on.
EffectiveBatch(pressure) ==
    IF pressure = "degraded" /\ BatchPoints > 1 THEN BatchPoints \div 2 ELSE BatchPoints

\* The window is the points of all segments, or it has failed.
Collect ==
    /\ stage = "query" /\ Answered
    /\ IF Failed
       THEN stage' = "failed" /\ UNCHANGED <<window, todo>>
       ELSE \E pressure \in {"normal", "degraded"} :
              /\ window' = Merged
              /\ todo' = IF window' = <<>> THEN <<>>
                         ELSE <<[first |-> 1, last |-> Len(window'), batch |-> EffectiveBatch(pressure)]>>
              /\ stage' = "append"
    /\ UNCHANGED <<rangeVars, frames>>

\* appendBatch cuts a stretch into frames ...
FrameCount(c) == (c.last - c.first + c.batch) \div c.batch
FrameEnd(c, k) == IF c.first + k * c.batch - 1 < c.last THEN c.first + k * c.batch - 1 ELSE c.last
Frame(c, k) == SubSeq(window, c.first + (k - 1) * c.batch, FrameEnd(c, k))

\* ... and appends those in front of the first that is too large.
Good(c) ==
    LET large == {k \in 1 .. FrameCount(c) : TooLarge(Frame(c, k))}
    IN  IF large = {} THEN FrameCount(c) ELSE Min(large) - 1
GoodFrames(c, n) == [k \in 1 .. n |-> Frame(c, k)]

Stretch(first, last, batch) ==
    IF first > last THEN <<>> ELSE <<[first |-> first, last |-> last, batch |-> batch]>>

\* Variant for a mutation: what comes after the frame that is split is forgotten.
BuggyRemaining(c, bad) ==
    IF c.batch = 1 THEN <<>> ELSE Stretch(FrameEnd(c, bad - 1) + 1, FrameEnd(c, bad), c.batch \div 2)

\* A frame too large is appended again in batches of half the size; a point that
\* is too large by itself is skipped.
Remaining(c, bad) ==
    (IF c.batch = 1 THEN <<>> ELSE Stretch(FrameEnd(c, bad - 1) + 1, FrameEnd(c, bad), c.batch \div 2))
        \o Stretch(FrameEnd(c, bad) + 1, c.last, c.batch)

AppendBatch ==
    /\ stage = "append" /\ todo # <<>>
    /\ LET c == Head(todo)
           n == Good(c)
       IN  /\ frames' = frames \o GoodFrames(c, n)
           /\ todo' = (IF n = FrameCount(c) THEN <<>> ELSE Remaining(c, n + 1)) \o Tail(todo)
    /\ UNCHANGED <<rangeVars, stage, window>>

\* The log takes only some of the frames; the window will be polled again.
AppendFails ==
    /\ stage = "append" /\ todo # <<>>
    /\ \E n \in 0 .. Good(Head(todo)) - 1 : frames' = frames \o GoodFrames(Head(todo), n)
    /\ stage' = "failed"
    /\ UNCHANGED <<rangeVars, window, todo>>

\* The cursor may move to the end of the window.
Finish ==
    /\ stage = "append" /\ todo = <<>>
    /\ stage' = "done"
    /\ UNCHANGED <<rangeVars, window, todo, frames>>

Next == Query \/ Collect \/ AppendBatch \/ AppendFails \/ Finish

Spec == Init /\ [][Next]_vars
FairSpec == Spec /\ WF_vars(Query) /\ WF_vars(Collect) /\ WF_vars(AppendBatch) /\ WF_vars(Finish)
-----------------------------------------------------------------------------
(***************************************************************************)
(* Properties                                                              *)
(***************************************************************************)
Due == {r \in Rows : InWindow(r) /\ name[r] \in Asked}

\* A window that is appended has every row of the source in it, once, and in the
\* order of time (client.go:206, poller.go:517): whatever the pages, the timestamps
\* with more rows than a page takes, and what the segments missed at their edges.
InOrder(s) == \A i, j \in DOMAIN s : i < j => s[i] # s[j] /\ time[s[i]] <= time[s[j]]
WindowExact == stage \in {"append", "done"} => ToSet(window) = Due /\ InOrder(window)

\* The rows of several measurements: at least none is missing (client.go:206).
NothingMissing == stage \in {"append", "done"} => Due \subseteq ToSet(window)

\* The log gets the points in their order, each of them once, without those that no
\* frame can carry; a failure leaves a prefix (poller.go:650, poller.go:669).
Sendable == Only[{r \in Rows : ~TooLarge(<<r>>)}][window]
Logged == FlattenSeq(frames)
FramesInOrder ==
    /\ \A f \in ToSet(frames) : ~TooLarge(f) /\ Len(f) <= BatchPoints
    /\ IsPrefix(Logged, Sendable)
    /\ stage = "done" => Logged = Sendable

\* A query ends: pages, offsets and halved batches always get further.
Ends == <>(stage \in {"done", "failed"})
=============================================================================
