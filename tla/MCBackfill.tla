----------------------------- MODULE MCBackfill -----------------------------
(* Instance of Backfill: old data, a stretch without any, and recent data.  *)
EXTENDS Backfill

TwoAges == {5, 9}
ShortAndLong == {2, 6}
OldCursor == {11}
ShardsAnswer == {"shards"}
ShardsRefused == {"refused"}
\* Further values: a probe that may get no answer, no old checkpoint.
ProbeMayFail == {"shards", "nothing"}
NoLegacy == {}
=============================================================================
