-------------------------------- MODULE Link --------------------------------
(***************************************************************************)
(* The TCP connections between one sender and the receiver's server.       *)
(*                                                                         *)
(* Each direction of a connection is a reliable FIFO stream that may be    *)
(* cut at any point: wire carries frames, acks carries response bytes.     *)
(* The sender has at most one connection (Client.conn).  One it has        *)
(* abandoned may live on at the server, with frames still unread, so       *)
(* several slots exist; a slot is used again once both ends are closed.    *)
(*                                                                         *)
(* The seq of a response byte is auxiliary: the byte itself is only ok     *)
(* (0xff) or not (0x00), and no action of the sender reads more.           *)
(***************************************************************************)
EXTENDS Integers, Sequences

CONSTANTS Slots,      \* connections that may exist at once (a bound)
          NoConn      \* Client.conn == nil

ASSUME LinkAssumption == NoConn \notin Slots

VARIABLES
    conn,    \* Client.conn: the sender's connection, or NoConn
    sOpen,   \* slot -> is the server's end open (handleConn running)
    wire,    \* slot -> seqs of the frames sent and not yet read
    acks     \* slot -> responses written and not yet read

linkVars == <<conn, sOpen, wire, acks>>

Ack(seq, ok) == [seq |-> seq, ok |-> ok]

LinkInit ==
    /\ conn = NoConn
    /\ sOpen = [c \in Slots |-> FALSE]
    /\ wire = [c \in Slots |-> <<>>]
    /\ acks = [c \in Slots |-> <<>>]

LinkTypeOK(Seqs) ==
    /\ conn \in Slots \cup {NoConn}
    /\ sOpen \in [Slots -> BOOLEAN]
    /\ wire \in [Slots -> Seq(Seqs)]
    /\ acks \in [Slots -> Seq([seq : Seqs, ok : BOOLEAN])]

FreeSlots == {c \in Slots : c # conn /\ ~sOpen[c]}

\* EnsureConnected dials; the server accepts, or closes the new connection at
\* once because MaxConns exist (accepted = FALSE).
Dial(accepted) ==
    /\ conn = NoConn
    /\ \E c \in FreeSlots :
        /\ conn' = c
        /\ sOpen' = [sOpen EXCEPT ![c] = accepted]
    /\ UNCHANGED <<wire, acks>>

\* SendFrame wrote the whole frame; a server end that is closed drops it.
Put(seq) ==
    /\ conn # NoConn
    /\ wire' = [wire EXCEPT ![conn] = IF sOpen[conn] THEN Append(@, seq) ELSE @]
    /\ UNCHANGED <<conn, sOpen, acks>>

\* closeLocked: unread responses are lost, unread frames are still readable.
Hangup ==
    /\ conn' = NoConn
    /\ acks' = IF conn = NoConn THEN acks ELSE [acks EXCEPT ![conn] = <<>>]
    /\ UNCHANGED <<sOpen, wire>>
=============================================================================
