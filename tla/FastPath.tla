------------------------------ MODULE FastPath ------------------------------
(***************************************************************************)
(* The source database, its pushes and the fast path that forwards them    *)
(* (internal/sender/fastpath.go).                                          *)
(*                                                                         *)
(* A point is a series and a timestamp; writing it again gives it its next *)
(* version (another field, or another value).  Time is counted in seconds, *)
(* the grain of the deduplication set's partitions.  The log keeps what is *)
(* appended (module Wal), so only its content matters here.                *)
(***************************************************************************)
EXTENDS Integers, FiniteSets

CONSTANTS
    Points,         \* the points that may be written
    Stamp,          \* Points -> timestamp
    MaxVersion,     \* writes of one point (a bound)
    MaxTime,        \* the end of time (a bound)
    Lateness,       \* how long after its timestamp a point may be written
    Retention,      \* DedupWindow
    MaxFaults       \* faults in a run (a bound)

ASSUME FastPathAssumption ==
    /\ IsFiniteSet(Points) /\ Stamp \in [Points -> Nat]
    /\ MaxVersion \in Nat /\ MaxTime \in Nat /\ MaxFaults \in Nat
    /\ Lateness \in Nat /\ Retention \in Nat

VARIABLES
    now,        \* the clock
    src,        \* version of each point in the source database, 0 before the first
    pushes,     \* pushes on their way and calls of ServeHTTP: [point, version, at]
    dedup,      \* fastDedup: the points registered as forwarded
    carried,    \* versions of each point that were appended to the WAL
    faults

pathVars == <<now, src, pushes, dedup, carried>>

Versions == 1 .. MaxVersion
Pushes == [point : Points, version : Versions, at : {"sent", "appended"}]

PathTypeOK ==
    /\ now \in 0 .. MaxTime
    /\ src \in [Points -> 0 .. MaxVersion]
    /\ pushes \subseteq Pushes
    /\ dedup \subseteq Points
    /\ carried \in [Points -> SUBSET Versions]
    /\ faults \in 0 .. MaxFaults

PathInit ==
    /\ now = 0
    /\ src = [p \in Points |-> 0]
    /\ pushes = {} /\ dedup = {}
    /\ carried = [p \in Points |-> {}]
    /\ faults = 0

Fault == faults < MaxFaults /\ faults' = faults + 1
NoFault == UNCHANGED faults

\* The set after the partitions older than cut are gone.
EvictLocked(cut) == {p \in dedup : Stamp[p] >= cut}

\* AppendBatch of a query result or of a push: a function from points to versions.
Carry(batch) ==
    carried' = [p \in Points |-> carried[p] \cup (IF p \in DOMAIN batch THEN {batch[p]} ELSE {})]
-----------------------------------------------------------------------------
PassTime ==
    /\ now < MaxTime
    /\ now' = now + 1
    /\ NoFault /\ UNCHANGED <<src, pushes, dedup, carried>>

\* A client writes a point; the subscription pushes a copy.
Write(p) ==
    /\ src[p] < MaxVersion
    /\ Stamp[p] <= now /\ now <= Stamp[p] + Lateness
    /\ src' = [src EXCEPT ![p] = @ + 1]
    /\ pushes' = pushes \cup {[point |-> p, version |-> src'[p], at |-> "sent"]}
    /\ NoFault /\ UNCHANGED <<now, dedup, carried>>

\* Lost on the way, or dropped by ServeHTTP: over the size, not in nanoseconds,
\* not of a wanted measurement, the disk of the WAL beyond the yellow mark.
DropPush(x) ==
    /\ x.at = "sent"
    /\ pushes' = pushes \ {x}
    /\ NoFault /\ UNCHANGED <<now, src, dedup, carried>>

\* ServeHTTP: the log first ...
ForwardPush(x) ==
    /\ x.at = "sent"
    /\ Carry([p \in {x.point} |-> x.version])
    /\ pushes' = (pushes \ {x}) \cup {[x EXCEPT !.at = "appended"]}
    /\ NoFault /\ UNCHANGED <<now, src, dedup>>

\* Variant for a mutation: registered before the log has the frame.
BuggyForwardFails(x) ==
    /\ x.at = "sent"
    /\ dedup' = dedup \cup {x.point}
    /\ pushes' = pushes \ {x}
    /\ Fault /\ UNCHANGED <<now, src, carried>>

\* ... whose error may leave the frame in the log all the same ...
ForwardFails(x) ==
    /\ x.at = "sent"
    /\ Carry([p \in {x.point} |-> x.version]) \/ UNCHANGED carried
    /\ pushes' = pushes \ {x}
    /\ Fault /\ UNCHANGED <<now, src, dedup>>

\* ... then the deduplication set (fastDedup.Add).
RegisterPush(x) ==
    /\ x.at = "appended"
    /\ dedup' = EvictLocked(now - Retention) \cup {x.point}
    /\ pushes' = pushes \ {x}
    /\ NoFault /\ UNCHANGED <<now, src, carried>>

ServeHTTP == \E x \in pushes : DropPush(x) \/ ForwardPush(x) \/ ForwardFails(x) \/ RegisterPush(x)
=============================================================================
