----------------------------- MODULE MCDelivery -----------------------------
EXTENDS Delivery, TLC

Symmetry == Permutations(Calls) \cup Permutations(Slots)
=============================================================================
