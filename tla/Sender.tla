------------------------------- MODULE Sender -------------------------------
(***************************************************************************)
(* Sender.Run and runPipeline (internal/sender/sender.go) over the WAL,    *)
(* seen here as the seqs 1 .. appended of which 1 .. acked are committed.  *)
(*                                                                         *)
(* A round sends a window of frames and reads one response for each.  With *)
(* Pipeline = 1 (stop-and-wait) the window is the head frame and every     *)
(* failure ends the round; with Pipeline > 1 (go-back-N) a failed round    *)
(* goes on with the rest of its window on a new connection.                *)
(***************************************************************************)
EXTENDS Link

CONSTANTS Pipeline,      \* SenderConfig.Pipeline
          LastFrame,     \* how many frames are ever appended (a bound)
          LateSendFails  \* may a write fail after the first frame of a round

ASSUME SenderAssumption ==
    /\ Pipeline \in Nat \ {0}
    /\ LastFrame \in Nat \ {0}
    /\ LateSendFails \in BOOLEAN

VARIABLES
    appended,   \* WAL: highest seq appended
    acked,      \* WAL: highest seq committed
    ckpt,       \* the value of acked a restart would find
    phase,      \* where the loop is: "peek", "send", "wait", "redial", "beat"
    win,        \* the frames of this round, oldest first
    pos         \* next one to send, or to read the response of

walVars == <<appended, acked, ckpt>>
senderVars == <<walVars, phase, win, pos>>

SenderInit ==
    /\ appended = 0
    /\ acked = 0
    /\ ckpt = 0
    /\ phase = "peek"
    /\ win = <<>>
    /\ pos = 1

SenderTypeOK ==
    /\ appended \in 0 .. LastFrame
    /\ acked \in 0 .. appended
    /\ ckpt \in 0 .. acked
    /\ phase \in {"peek", "send", "wait", "redial", "beat"}
    /\ win \in Seq(0 .. LastFrame) /\ Len(win) <= Pipeline
    /\ pos \in 1 .. Pipeline + 1

\* The poller appends a frame (wal.AppendBatch).
AppendFrame ==
    /\ appended < LastFrame
    /\ appended' = appended + 1
    /\ UNCHANGED <<acked, ckpt, phase, win, pos, linkVars>>

\* The seqs of PeekBatch(Pipeline).
Window ==
    LET n == IF appended - acked < Pipeline THEN appended - acked ELSE Pipeline
    IN  [i \in 1 .. n |-> acked + i]

Enter(p, w, i) == phase' = p /\ win' = w /\ pos' = i

\* EnsureConnected: the connection that exists, or a new one.  A dial that
\* fails only counts a retry and leaves everything as it was.
Connected == (conn # NoConn /\ UNCHANGED linkVars) \/ Dial(TRUE)

\* Run: Peek found a frame; the round sends the window PeekBatch returns.
StartRound ==
    /\ phase = "peek"
    /\ acked < appended
    /\ Connected
    /\ Enter("send", Window, 1)
    /\ UNCHANGED walVars

\* Run: Peek returned ErrEmpty and the heartbeat is due.
StartHeartbeat ==
    /\ phase = "peek"
    /\ acked = appended
    /\ Connected
    /\ Enter("beat", <<0>>, 1)
    /\ UNCHANGED walVars

SendHeartbeat ==
    /\ phase = "beat"
    /\ pos = 1
    /\ Put(0)
    /\ Enter("beat", win, 2)
    /\ UNCHANGED walVars

\* sendHeartbeat reads one response and ignores its value.
HeartbeatAck ==
    /\ phase = "beat"
    /\ pos = 2
    /\ acks[conn] # <<>>
    /\ acks' = [acks EXCEPT ![conn] = Tail(@)]
    /\ Enter("peek", <<>>, 1)
    /\ UNCHANGED <<walVars, conn, sOpen, wire>>

\* One SendFrame of the round; after the last one, read the responses.
SendFrame ==
    /\ phase = "send"
    /\ Put(win[pos])
    /\ IF pos < Len(win) THEN Enter("send", win, pos + 1) ELSE Enter("wait", win, 1)
    /\ UNCHANGED walVars

\* What is left of the round after a failure at pos.
Rest == SubSeq(win, pos, Len(win))
AfterFailure == IF Pipeline = 1 THEN Enter("peek", <<>>, 1) ELSE Enter("redial", Rest, 1)

\* SendFrame failed, the connection is closed.  runPipeline goes on from the
\* frame that failed: those it had sent before are dropped from the round.
SendFails ==
    /\ phase = "send"
    /\ pos = 1 \/ LateSendFails
    /\ Hangup
    /\ AfterFailure
    /\ UNCHANGED walVars

HeartbeatFails ==
    /\ phase = "beat"
    /\ Hangup
    /\ Enter("peek", <<>>, 1)
    /\ UNCHANGED walVars

\* runPipeline: EnsureConnected, then send the rest of the round.
Redial ==
    /\ phase = "redial"
    /\ Connected
    /\ Enter("send", win, 1)
    /\ UNCHANGED walVars

\* The dial succeeded and the server closed the connection at once; the sender
\* takes it for a good one.
DialRefused ==
    /\ phase \in {"peek", "redial"}
    /\ Dial(FALSE)
    /\ UNCHANGED senderVars

\* wal.Commit: only the head frame; the checkpoint is written when a segment is
\* removed and at most once a second otherwise.
Commit(seq) ==
    /\ acked' = IF seq = acked + 1 THEN acked + 1 ELSE acked
    /\ ckpt' \in {ckpt, acked'}

\* Variant for a mutation: any response byte taken for 0xff.
BuggyAckSuccess ==
    /\ phase = "wait"
    /\ acks[conn] # <<>>
    /\ acks' = [acks EXCEPT ![conn] = Tail(@)]
    /\ Commit(win[pos])
    /\ IF pos < Len(win) THEN Enter("wait", win, pos + 1) ELSE Enter("peek", <<>>, 1)
    /\ UNCHANGED <<appended, conn, sOpen, wire>>

\* 0xff: the frame is committed.
AckSuccess ==
    /\ phase = "wait"
    /\ acks[conn] # <<>>
    /\ Head(acks[conn]).ok
    /\ acks' = [acks EXCEPT ![conn] = Tail(@)]
    /\ Commit(win[pos])
    /\ IF pos < Len(win) THEN Enter("wait", win, pos + 1) ELSE Enter("peek", <<>>, 1)
    /\ UNCHANGED <<appended, conn, sOpen, wire>>

\* Variants for mutations: a frame that was refused is given up; a pipeline that
\* keeps its connection after 0x00.
BuggyAckFailDrops ==
    /\ phase = "wait"
    /\ acks[conn] # <<>>
    /\ ~Head(acks[conn]).ok
    /\ acks' = [acks EXCEPT ![conn] = Tail(@)]
    /\ Commit(win[pos])
    /\ AfterFailure
    /\ UNCHANGED <<appended, conn, sOpen, wire>>
BuggyAckFailKeepsConn ==
    /\ phase = "wait"
    /\ acks[conn] # <<>>
    /\ ~Head(acks[conn]).ok
    /\ acks' = [acks EXCEPT ![conn] = Tail(@)]
    /\ AfterFailure
    /\ UNCHANGED <<walVars, conn, sOpen, wire>>

\* 0x00, stop-and-wait: the connection is kept and the frame sent again.
\* 0x00, pipeline: a failure of the connection.
AckFail ==
    /\ phase = "wait"
    /\ acks[conn] # <<>>
    /\ ~Head(acks[conn]).ok
    /\ IF Pipeline = 1
       THEN /\ acks' = [acks EXCEPT ![conn] = Tail(@)]
            /\ UNCHANGED <<conn, sOpen, wire>>
       ELSE Hangup
    /\ AfterFailure
    /\ UNCHANGED walVars

\* Variant for a mutation: the dead connection is kept.
BuggyAckEOF ==
    /\ phase \in {"wait", "beat"}
    /\ phase = "beat" => pos = 2
    /\ ~sOpen[conn]
    /\ acks[conn] = <<>>
    /\ IF phase = "beat" THEN Enter("peek", <<>>, 1) ELSE AfterFailure
    /\ UNCHANGED <<walVars, linkVars>>

\* WaitAck failed: the stream ended (closed by the server), or ...
AckEOF ==
    /\ phase \in {"wait", "beat"}
    /\ phase = "beat" => pos = 2
    /\ ~sOpen[conn]
    /\ acks[conn] = <<>>
    /\ Hangup
    /\ IF phase = "beat" THEN Enter("peek", <<>>, 1) ELSE AfterFailure
    /\ UNCHANGED walVars

\* Variant for a mutation: the connection is kept, its late answer with it.
BuggyAckTimeout ==
    /\ phase = "wait"
    /\ AfterFailure
    /\ UNCHANGED <<walVars, linkVars>>

\* ... no response came in time, or the connection broke.
AckTimeout ==
    /\ phase = "wait"
    /\ Hangup
    /\ AfterFailure
    /\ UNCHANGED walVars

\* Variant for a mutation: the checkpoint is not read back.
BuggyCrashSender ==
    /\ acked' = 0
    /\ Hangup
    /\ Enter("peek", <<>>, 1)
    /\ UNCHANGED <<appended, ckpt>>

\* The process dies; wal.Open finds the checkpoint, which may be behind.
CrashSender ==
    /\ acked' = ckpt
    /\ Hangup
    /\ Enter("peek", <<>>, 1)
    /\ UNCHANGED <<appended, ckpt>>

SenderStep ==
    \/ StartRound \/ SendHeartbeat \/ HeartbeatAck \/ SendFrame
    \/ Redial \/ AckSuccess \/ AckFail \/ AckEOF
=============================================================================
