----------------------------- MODULE OldestData -----------------------------
(***************************************************************************)
(* How the age of the source's oldest data is found                        *)
(* (internal/influx/client.go, ProbeOldestData): from the start times of   *)
(* the shard groups, or else by counting.  Data is a set of timestamps, a  *)
(* tick stands for the millisecond at which the search stops, and 0, as in *)
(* the code, for "no data found".                                          *)
(***************************************************************************)
EXTENDS Integers, FiniteSets, FiniteSetsExt

CONSTANTS
    Hour,       \* the first span counted
    LastRound,  \* the last doubling of the span
    Shard       \* length of a shard group

ASSUME OldestDataAssumption == Hour \in Nat \ {0} /\ LastRound \in Nat /\ Shard \in Nat \ {0}

\* Variant for a mutation: the end of the oldest shard group (the fourth column
\* is the start, the fifth the end).
BuggyOldestByShards(data) ==
    IF data = {} THEN 0 ELSE Min({Shard * (d \div Shard) + Shard : d \in data})

\* SHOW SHARD GROUPS: every group of the database has a start time.
OldestByShards(data) == IF data = {} THEN 0 ELSE Min({Shard * (d \div Shard) : d \in data})

\* countPoints
Count(data, s, e) == Cardinality({d \in data : s <= d /\ d < e})

\* What is counted in one round: the last hour, the last two, the last four ...
Span(now, i) == Min({Hour * 2^i, now})
CountIn(data, now, i) == Count(data, now - Span(now, i), now)

\* The rounds end when nothing was found in five, or when one finds no more than the last.
NothingYet(data, now, i) == i >= 4 /\ CountIn(data, now, i) = 0
NothingNew(data, now, i) ==
    i > 0 /\ CountIn(data, now, i) > 0 /\ CountIn(data, now, i) = CountIn(data, now, i - 1)

\* The bisection between lo and hi, for the count of all the data there is.
Bisect(data, now, total) ==
    LET search[lo, hi \in Int] ==
            LET mid == lo + (hi - lo) \div 2
            IN  IF hi - lo <= 1 THEN hi
                ELSE IF Count(data, mid, now) >= total THEN search[lo, mid] ELSE search[mid, hi]
    IN  search

OldestByCount(data, now) ==
    LET ends == {i \in 0 .. LastRound : NothingYet(data, now, i) \/ NothingNew(data, now, i)}
        last == Min(ends)
    IN  IF ends = {} \/ NothingYet(data, now, last) THEN 0
        ELSE Bisect(data, now, CountIn(data, now, last))[now - Hour * 2^(last - 1), now]

\* ProbeOldestData, for each thing the database may answer: the shard groups, no
\* shard groups (the user may not ask for them), or nothing at all (the error
\* leaves the caller's 0).
ProbeOldestData(answer, data, now) ==
    IF answer = "nothing" THEN 0
    ELSE IF answer = "shards" /\ OldestByShards(data) > 0 THEN OldestByShards(data)
    ELSE OldestByCount(data, now)
=============================================================================
