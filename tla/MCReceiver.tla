----------------------------- MODULE MCReceiver -----------------------------
(***************************************************************************)
(* The receiver alone, called concurrently with any seqs in any order, the *)
(* same seq included.  Calls are interchangeable.                          *)
(***************************************************************************)
EXTENDS Receiver, TLC

CallSymmetry == Permutations(Calls)
=============================================================================
