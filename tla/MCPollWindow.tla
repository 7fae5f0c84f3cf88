---------------------------- MODULE MCPollWindow ----------------------------
(* Instance of PollWindow: one row too large for a frame, others that share a frame only   *)
(* when they compress well: rows alike take no more room than one of them.                 *)
EXTENDS PollWindow

Weights == [r \in Rows |-> IF r = 3 THEN 4 ELSE IF r % 2 = 0 THEN 2 ELSE 1]
Lines(points) == FoldSeq(LAMBDA r, n : Weights[r] + n, 0, points)
Compressed(points) == SumSet({Weights[r] : r \in ToSet(points)})
=============================================================================
