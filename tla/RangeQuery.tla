----------------------------- MODULE RangeQuery -----------------------------
(***************************************************************************)
(* How a window is read from the source (Client.QueryRange in              *)
(* internal/influx/client.go, Poller.queryParallel): segments that are     *)
(* queried at once, each page by page, and joined.                         *)
(*                                                                         *)
(* A row is a number; rows are numbered in the order of their timestamps.  *)
(* The source does not change: a window ends a watermark before the clock. *)
(***************************************************************************)
EXTENDS Integers, FiniteSets, SequencesExt

CONSTANTS
    Rows,               \* 1 .. n
    Measurements,       \* 1 .. m, in the order in which InfluxDB answers
    Asked,              \* the measurements that are to be copied
    Start, End,         \* the window
    Limit,              \* QueryOptions.Limit, query_limit
    DenseFactor,        \* how much larger a page of a dense timestamp is (10)
    MaxPages,
    ParallelQueries,
    Faults              \* segments that may fail

ASSUME RangeAssumption ==
    /\ IsFiniteSet(Rows) /\ Rows = 1 .. Cardinality(Rows)
    /\ IsFiniteSet(Measurements) /\ Measurements = 1 .. Cardinality(Measurements)
    /\ Start \in Nat /\ End \in Nat /\ Start < End
    /\ Limit \in Nat \ {0} /\ DenseFactor \in Nat \ {0} /\ MaxPages \in Nat \ {0}
    /\ ParallelQueries \in Nat \ {0}
    /\ Asked \subseteq Measurements /\ Asked # {}

VARIABLES
    time,       \* the source: the timestamp of each row,
    name,       \* and its measurement
    missed,     \* the rows that the source leaves out of a segment
    seg         \* [pc, from, out, carried, pages, seen, offset] of each segment

source == <<time, name, missed>>
rangeVars == <<source, seg>>

\* queryParallel: a window too short to be cut is one segment.
StepWidth == (End - Start) \div ParallelQueries
Segments == IF StepWidth = 0 THEN {1} ELSE 1 .. ParallelQueries
SegmentStart(i) == Start + (i - 1) * StepWidth

\* A segment and the next one both read the nanosecond where they meet.
SegmentEnd(i) == IF i + 1 \in Segments THEN SegmentStart(i + 1) + 1 ELSE End

InWindow(r) == Start <= time[r] /\ time[r] < End

\* Under load a query may leave out rows at the edge of its segment; of two that
\* overlap there at least one finds them.  That is what the overlap is for.
AtEdge(i, r) ==
    \/ i > 1 /\ time[r] = SegmentStart(i)
    \/ i + 1 \in Segments /\ time[r] = SegmentStart(i + 1)
Missable ==
    {f \in [Segments -> SUBSET Rows] :
        /\ \A i \in Segments : \A r \in f[i] : AtEdge(i, r)
        /\ \A i, j \in Segments : i # j => f[i] \cap f[j] = {}}

FirstPage(i) ==
    [pc |-> "page", from |-> SegmentStart(i), out |-> <<>>, carried |-> {}, pages |-> MaxPages,
     seen |-> {}, offset |-> 0]

RangeInit ==
    /\ time \in {f \in [Rows -> Start .. End] : \A r, q \in Rows : r < q => f[r] <= f[q]}
    /\ name \in [Rows -> Measurements]
    /\ missed \in Missable
    /\ seg = [i \in Segments |-> FirstPage(i)]

RangeTypeOK ==
    \A i \in Segments :
        /\ seg[i].pc \in {"page", "dense", "done", "failed"}
        /\ seg[i].from \in SegmentStart(i) .. SegmentEnd(i)
        /\ ToSet(seg[i].out) \subseteq Rows
        /\ seg[i].carried \subseteq Rows /\ seg[i].seen \subseteq Rows
        /\ seg[i].pages \in 0 .. MaxPages /\ seg[i].offset \in Nat
-----------------------------------------------------------------------------
\* What of a sequence is in a set, and what is not, in the order of the sequence.
Only == [S \in SUBSET Rows |->
    LET only[s \in Seq(Rows)] ==
            IF s = <<>> THEN <<>>
            ELSE only[Front(s)] \o (IF Last(s) \in S THEN <<Last(s)>> ELSE <<>>)
    IN  only]
Without(s, S) == Only[ToSet(s) \ S][s]

(***************************************************************************)
(* InfluxDB: LIMIT and OFFSET apply to each measurement by itself, and the *)
(* series of the answer come one after the other.                          *)
(***************************************************************************)
Series(i, m, s, e) ==
    Only[{r \in Rows \ missed[i] : name[r] = m /\ s <= time[r] /\ time[r] < e}][[r \in Rows |-> r]]

Part(rows, limit, offset) ==
    IF offset >= Len(rows) THEN <<>>
    ELSE SubSeq(rows, offset + 1, IF offset + limit < Len(rows) THEN offset + limit ELSE Len(rows))

Answer(i, asked, s, e, limit, offset) ==
    FlattenSeq([m \in Measurements |->
        IF m \in asked THEN Part(Series(i, m, s, e), limit, offset) ELSE <<>>])

(***************************************************************************)
(* QueryRange                                                              *)
(***************************************************************************)
At(rows, ts) == {r \in ToSet(rows) : time[r] = ts}
Continue(i, from) == IF from < SegmentEnd(i) THEN "page" ELSE "done"

\* What of a page is new: rows at its first timestamp came with the last page.
Fresh(i, rows) ==
    Without(rows, {r \in seg[i].carried : time[r] = seg[i].from /\ seg[i].from # SegmentStart(i)})

\* The next page begins at the last timestamp of this one, which may not be complete.
NextPage(i, ts) ==
    [seg[i] EXCEPT !.from = ts, !.pages = @ - 1, !.pc = IF seg[i].pages = 1 THEN "failed" ELSE "page"]

DenseFrom(i, rows) == [seg[i] EXCEPT !.pc = "dense", !.seen = ToSet(rows), !.offset = 0]

AfterPage(i, rows) ==
    LET lastTS == time[Last(rows)]
    IN  IF rows = <<>> \/ Len(rows) < Limit THEN [seg[i] EXCEPT !.pc = "done"]
        ELSE IF lastTS = seg[i].from THEN DenseFrom(i, rows)
        ELSE NextPage(i, lastTS)

Page(i) ==
    /\ seg[i].pc = "page"
    /\ LET rows == Answer(i, Asked, seg[i].from, SegmentEnd(i), Limit, 0)
       IN  seg' = [seg EXCEPT ![i] =
               [AfterPage(i, rows) EXCEPT
                   !.out = @ \o Fresh(i, rows),
                   !.carried = IF rows = <<>> THEN @ ELSE At(rows, time[Last(rows)])]]
    /\ UNCHANGED source

\* Variant for a mutation: the next page of a dense timestamp is the same again.
BuggyNextOffset(i, rows) == seg[i].offset

NextOffset(i, rows) == seg[i].offset + Len(rows)

\* A timestamp with more rows than a page takes is read by offset; this query
\* names no measurements.
DensePage(i) ==
    /\ seg[i].pc = "dense"
    /\ LET ts == seg[i].from
           limit == Limit * DenseFactor
           rows == Answer(i, Measurements, ts, ts + 1, limit, seg[i].offset)
           all == Len(rows) < limit
       IN  seg' = [seg EXCEPT ![i].out = @ \o Without(rows, seg[i].seen),
                              ![i].seen = @ \cup ToSet(rows),
                              ![i].offset = NextOffset(i, rows),
                              ![i].from = IF all THEN ts + 1 ELSE @,
                              ![i].pc = IF all THEN Continue(i, ts + 1) ELSE @]
    /\ UNCHANGED source

\* An error or a timeout: the whole segment has failed.
QueryFails(i) ==
    /\ i \in Faults
    /\ seg[i].pc \in {"page", "dense"}
    /\ seg' = [seg EXCEPT ![i].pc = "failed"]
    /\ UNCHANGED source

RangeStep == \E i \in Segments : Page(i) \/ DensePage(i) \/ QueryFails(i)

(***************************************************************************)
(* The segments are joined in their order.  Rows at a boundary that the    *)
(* segment before has brought are left out of the head of the next.        *)
(***************************************************************************)
Answered == \A i \in Segments : seg[i].pc \in {"done", "failed"}
Failed == \E i \in Segments : seg[i].pc = "failed"

\* Variant for a mutation: whatever is at the head is taken for known.
BuggyJoin(all, rows, boundary) ==
    all \o (IF all = <<>> THEN rows ELSE Without(rows, {r \in Rows : time[r] = boundary}))

Join(all, rows, boundary) ==
    LET other(r) == time[r] # boundary
        tail == SubSeq(all, SelectLastInSeq(all, other) + 1, Len(all))
        first == SelectInSeq(rows, other)
        head == IF first = 0 THEN rows ELSE SubSeq(rows, 1, first - 1)
    IN  all \o Without(head, ToSet(tail)) \o SubSeq(rows, Len(head) + 1, Len(rows))

Merged ==
    LET upTo[i \in 0 .. Cardinality(Segments)] ==
            IF i = 0 THEN <<>> ELSE Join(upTo[i - 1], seg[i].out, SegmentStart(i))
    IN  upTo[Cardinality(Segments)]
=============================================================================
