------------------------------ MODULE WalQueue ------------------------------
(***************************************************************************)
(* What the write-ahead log promises its users (docs/architecture.md 4.1): *)
(* a queue of frames first .. next - 1, oldest first.  A restart may bring *)
(* back frames that were committed, find the frame whose append it broke   *)
(* off, and lose frames whose append was never reported as done; it loses  *)
(* no other, and no seq that was promised or committed is ever given to    *)
(* another frame.                                                          *)
(***************************************************************************)
EXTENDS Integers

VARIABLES
    first,      \* seq of the oldest frame not committed
    next,       \* seq of the next frame to append
    promised,   \* seqs of the frames whose append was reported as done
    committed   \* seqs ever committed

vars == <<first, next, promised, committed>>

Init == first = 1 /\ next = 1 /\ promised = {} /\ committed = {}

AppendFrame ==
    /\ next' = next + 1
    /\ promised' \in {promised, promised \cup {next}}
    /\ UNCHANGED <<first, committed>>

ReportDone ==
    /\ \E s \in 1 .. next - 1 : promised' = promised \cup (s .. next - 1)
    /\ UNCHANGED <<first, next, committed>>

Commit ==
    /\ first < next
    /\ first' = first + 1
    /\ committed' = committed \cup {first}
    /\ UNCHANGED <<next, promised>>

Restart ==
    /\ first' \in 1 .. first
    /\ next' \in first' .. next + 1
    /\ \A s \in promised \cup committed : s < next'
    /\ UNCHANGED <<promised, committed>>

Next == AppendFrame \/ ReportDone \/ Commit \/ Restart

Spec == Init /\ [][Next]_vars
=============================================================================
