----------------------------- MODULE SeqTracker -----------------------------
(***************************************************************************)
(* The receiver's in-order sequence tracker (type seqTracker of            *)
(* internal/receiver/receiver.go), as operators on a record                *)
(*   last    : the highest seq of the contiguous prefix it vouches for     *)
(*   pending : the seqs above last that completed out of order             *)
(* Every method holds the tracker's mutex for its whole body, so each is   *)
(* one operator applied in one step.                                       *)
(***************************************************************************)
EXTENDS Integers, FiniteSets

CONSTANTS JumpLimit,     \* seqJumpLimit: 100000 in the code
          PendingLimit   \* seqPendingLimit: 65536 in the code

ASSUME LimitsAssumption == JumpLimit \in Nat \ {0} /\ PendingLimit \in Nat \ {0}

Trackers == [last : Nat, pending : SUBSET Nat]

\* init: the value read from the last_seq file, nothing pending.
InitTracker(v) == [last |-> v, pending |-> {}]

\* Variants for mutations: the drain loop moves last before it looks; the highest
\* completed seq, whatever is missing below.
BuggyRunEndPast(last, P) ==
    CHOOSE e \in {s + 1 : s \in {last} \cup P} :
        e > last /\ last + 1 .. e - 1 \subseteq P /\ e \notin P
BuggyRunEnd(last, P) ==
    CHOOSE e \in {last} \cup P : \A s \in {last} \cup P : s <= e

\* The end of that run: last itself when last + 1 is not in P.
RunEnd(last, P) ==
    CHOOSE e \in {last} \cup P :
        /\ e >= last
        /\ last + 1 .. e \subseteq P
        /\ e + 1 \notin P

\* closeGap: jump to upTo and forget what it covers.  It does not drain the
\* frames that have become contiguous; the next done does.
CloseGap(t, upTo) ==
    LET reached == IF upTo > t.last THEN upTo ELSE t.last
    IN  [last |-> reached, pending |-> {s \in t.pending : s > reached}]

\* The drain loop of done, and the overflow rule that only ever clears pending.
Drain(t, P) ==
    LET reached == RunEnd(t.last, P)
        left    == P \ (t.last + 1 .. reached)
    IN  [last    |-> reached,
         pending |-> IF Cardinality(left) > PendingLimit THEN {} ELSE left]

\* done: ignore what is covered, leap over a jump beyond the limit, else
\* record seq and advance the contiguous prefix.
Done(t, seq) ==
    IF seq <= t.last                  THEN t
    ELSE IF seq > t.last + JumpLimit  THEN [last |-> seq, pending |-> {}]
    ELSE Drain(t, t.pending \cup {seq})

\* The boolean done returns: did last move?
Advances(t, seq) == Done(t, seq).last > t.last
=============================================================================
