------------------------------- MODULE MCWal -------------------------------
(* Instance of Wal: Leftovers of a failed write in a configuration file.   *)
EXTENDS Wal

Clean == {<<>>}
Partial == {<<>>, <<Torn>>}
=============================================================================
