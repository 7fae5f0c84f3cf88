------------------------------ MODULE MCPoller ------------------------------
(* Instance of Poller: three points, two of them in the same second.       *)
EXTENDS Poller

CONSTANTS p1, p2, p3

ThreePoints == {p1, p2, p3}
Stamps == [p \in Points |-> IF p = p1 THEN 1 ELSE 3]
OnePoint == {p1}
Large == {p3}
None == {}
=============================================================================
