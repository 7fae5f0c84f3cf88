----------------------------- MODULE AtLeastOnce -----------------------------
(***************************************************************************)
(* What the pair of programs promises (README "At-Least-Once",             *)
(* docs/architecture.md section 1): a frame appended to the WAL may be     *)
(* delivered any number of times, in any order, and leaves the WAL only    *)
(* after it was delivered.  A restart of the sender may forget the latest  *)
(* commits, never invent one.                                              *)
(***************************************************************************)
EXTENDS Integers

CONSTANT LastFrame      \* how many frames are ever appended (a bound)

VARIABLES appended, committed, delivered
vars == <<appended, committed, delivered>>

Init == appended = 0 /\ committed = 0 /\ delivered = {}

AppendFrame ==
    /\ appended < LastFrame
    /\ appended' = appended + 1
    /\ UNCHANGED <<committed, delivered>>

Deliver ==
    /\ \E s \in 1 .. appended : delivered' = delivered \cup {s}
    /\ UNCHANGED <<appended, committed>>

Commit ==
    /\ committed + 1 \in delivered
    /\ committed' = committed + 1
    /\ UNCHANGED <<appended, delivered>>

Forget ==
    /\ committed' \in 0 .. committed
    /\ UNCHANGED <<appended, delivered>>

Next == AppendFrame \/ Deliver \/ Commit \/ Forget

Spec == Init /\ [][Next]_vars
=============================================================================
