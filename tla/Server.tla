------------------------------- MODULE Server -------------------------------
(***************************************************************************)
(* The receiver's TCP server (internal/transport/tcp_server.go): one       *)
(* reader per connection that starts a HandleFrame call per frame, and one *)
(* writer per connection that answers in arrival order (connPipeline).     *)
(***************************************************************************)
EXTENDS Receiver, Link

CONSTANTS MaxInflight,  \* ServerConfig.MaxInflight
          Codec         \* frame type of the data frames: "gzip" or "zstd"

ASSUME ServerAssumption ==
    /\ MaxInflight \in Nat \ {0}
    /\ Codec \in {"gzip", "zstd"}

VARIABLES
    order,     \* slot -> calls whose answer is not written yet, oldest first
    dataIdx    \* slot -> data frames counted so far, 0 or "at least one" (1)

serverVars == <<order, dataIdx>>

ServerInit ==
    /\ order = [c \in Slots |-> <<>>]
    /\ dataIdx = [c \in Slots |-> 0]

ServerTypeOK ==
    /\ order \in [Slots -> Seq(Calls)]
    /\ dataIdx \in [Slots -> {0, 1}]

\* Only frames of type TypeData (gzip) are counted; every other frame, zstd
\* data included, is given index 0.
Counted(seq) == seq # Heartbeat /\ Codec = "gzip"

\* Does some connection still wait for the result of h?
Awaited(h) == \E c \in Slots : \E i \in DOMAIN order[c] : order[c][i] = h

\* The reader took a frame off the wire and, once the in-flight window has
\* room, starts its call.  The frame it holds while it waits is still in wire.
ReadFrame(c) ==
    /\ sOpen[c]
    /\ wire[c] # <<>>
    /\ Len(order[c]) < MaxInflight
    /\ \E h \in Calls :
        /\ call[h].pc = "free"
        /\ HandleFrame(h, Head(wire[c]), ~(Counted(Head(wire[c])) /\ dataIdx[c] > 0))
        /\ order' = [order EXCEPT ![c] = Append(@, h)]
    /\ dataIdx' = [dataIdx EXCEPT ![c] = IF Counted(Head(wire[c])) THEN 1 ELSE @]
    /\ wire' = [wire EXCEPT ![c] = Tail(@)]
    /\ UNCHANGED <<conn, sOpen, acks>>
    /\ UNCHANGED <<lastSeq, tracker, inflight, lastSeqFile, databaseVars>>

\* The writer answers the oldest frame once its call has returned; nobody reads
\* the answer of a connection the sender has left.
WriteAck(c) ==
    /\ sOpen[c]
    /\ order[c] # <<>>
    /\ LET h == Head(order[c])
       IN  /\ call[h].pc = "ret"
           /\ acks' = [acks EXCEPT ![c] =
                         IF c = conn THEN Append(@, Ack(call[h].seq, call[h].ok)) ELSE @]
           /\ call' = [call EXCEPT ![h] = Idle]
    /\ order' = [order EXCEPT ![c] = Tail(@)]
    /\ UNCHANGED <<conn, sOpen, wire, dataIdx>>
    /\ UNCHANGED <<lastSeq, tracker, inflight, lastSeqFile, databaseVars>>

\* A call whose connection is gone: setResult finds nobody waiting.
DropResult(h) ==
    /\ call[h].pc = "ret"
    /\ ~Awaited(h)
    /\ call' = [call EXCEPT ![h] = Idle]
    /\ UNCHANGED <<linkVars, serverVars>>
    /\ UNCHANGED <<lastSeq, tracker, inflight, lastSeqFile, databaseVars>>

\* handleConn returns: its running calls go on, unanswered.
CloseServerEnd(c) ==
    /\ sOpen' = [sOpen EXCEPT ![c] = FALSE]
    /\ wire' = [wire EXCEPT ![c] = <<>>]
    /\ order' = [order EXCEPT ![c] = <<>>]
    /\ dataIdx' = [dataIdx EXCEPT ![c] = 0]
    /\ UNCHANGED conn

\* The sender has left: end of stream once the wire is read, or a reset that
\* discards what is unread.
PeerGone(c) ==
    /\ sOpen[c]
    /\ c # conn
    /\ CloseServerEnd(c)
    /\ UNCHANGED <<acks, receiverVars>>

\* Read timeout, a cancelled context, a failed ACK write, a broken link.
ServerDrops(c) ==
    /\ sOpen[c]
    /\ c = conn
    /\ CloseServerEnd(c)
    /\ UNCHANGED <<acks, receiverVars>>

\* A damaged header: 0x00 is written at once, out of turn, and the connection
\* is closed.
BadHeader(c) ==
    /\ sOpen[c]
    /\ wire[c] # <<>>
    /\ acks' = [acks EXCEPT ![c] = IF c = conn THEN Append(@, Ack(Head(wire[c]), FALSE)) ELSE @]
    /\ CloseServerEnd(c)
    /\ UNCHANGED receiverVars

\* The receiver process dies and restarts: every connection with it.
CrashReceiver ==
    /\ RestartReceiver
    /\ sOpen' = [c \in Slots |-> FALSE]
    /\ wire' = [c \in Slots |-> <<>>]
    /\ order' = [c \in Slots |-> <<>>]
    /\ dataIdx' = [c \in Slots |-> 0]
    /\ UNCHANGED <<conn, acks>>
=============================================================================
