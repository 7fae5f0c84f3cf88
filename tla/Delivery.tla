------------------------------ MODULE Delivery ------------------------------
(***************************************************************************)
(* The sender, the link, the server and the receiver together: a frame     *)
(* from the sender's WAL to the target database.                           *)
(***************************************************************************)
EXTENDS Server, Sender

CONSTANT MaxFaults      \* how many faults a run may meet (a bound)

ASSUME DeliveryAssumption ==
    /\ MaxSeq = LastFrame
    /\ MaxFaults \in Nat
    /\ Pipeline <= JumpLimit

VARIABLE faults         \* faults met so far

vars == <<linkVars, senderVars, serverVars, receiverVars, faults>>

Init == LinkInit /\ SenderInit /\ ServerInit /\ ReceiverInit /\ faults = 0

TypeOK ==
    /\ LinkTypeOK(0 .. LastFrame)
    /\ SenderTypeOK
    /\ ServerTypeOK
    /\ ReceiverTypeOK
    /\ faults \in 0 .. MaxFaults
-----------------------------------------------------------------------------
(***************************************************************************)
(* Steps.  The sender's touch the link; the server's touch the link and    *)
(* start calls; a call's touch the receiver only.                          *)
(***************************************************************************)
SenderWorks == SenderStep /\ UNCHANGED <<serverVars, receiverVars, faults>>
ServerWorks(c) ==
    (ReadFrame(c) \/ WriteAck(c) \/ PeerGone(c)) /\ UNCHANGED <<senderVars, faults>>
CallWorks(h) == CallStep(h) /\ UNCHANGED <<linkVars, senderVars, serverVars, faults>>
ResultDropped(h) == DropResult(h) /\ UNCHANGED <<senderVars, faults>>

Poll == AppendFrame /\ UNCHANGED <<serverVars, receiverVars, faults>>
Idling == StartHeartbeat /\ UNCHANGED <<serverVars, receiverVars, faults>>

\* What the environment may do to them, MaxFaults times in all.
Fails == faults < MaxFaults /\ faults' = faults + 1
SenderFault ==
    /\ SendFails \/ HeartbeatFails \/ AckTimeout \/ DialRefused \/ CrashSender
    /\ UNCHANGED <<serverVars, receiverVars>>
ServerFault == (\E c \in Slots : ServerDrops(c) \/ BadHeader(c)) /\ UNCHANGED senderVars
ReceiverFault == CrashReceiver /\ UNCHANGED senderVars
CallFails == (\E h \in Calls : CallFault(h)) /\ UNCHANGED <<linkVars, senderVars, serverVars>>
Fault == Fails /\ (SenderFault \/ ServerFault \/ ReceiverFault \/ CallFails)

Next ==
    \/ SenderWorks \/ Poll \/ Idling
    \/ \E c \in Slots : ServerWorks(c)
    \/ \E h \in Calls : CallWorks(h) \/ ResultDropped(h)
    \/ Fault

Spec == Init /\ [][Next]_vars
-----------------------------------------------------------------------------
(***************************************************************************)
(* Safety                                                                  *)
(***************************************************************************)

\* A frame leaves the WAL only when it is in the database or isolated as
\* poison: over every connection, retry, restart and concurrent copy
\* (sender.go:155-162, receiver.go:35, docs/architecture.md section 1).
CommittedDelivered == 1 .. acked \subseteq Delivered

\* The response the sender takes for win[pos] is the response to win[pos]: a
\* stale or misplaced 0xff would commit a frame that was never written
\* (sender.go:178-181, the reason runPipeline closes the connection on 0x00).
AckAligned ==
    phase = "wait" /\ acks[conn] # <<>> /\ Head(acks[conn]).ok
        => Head(acks[conn]).seq = win[pos]

\* Stop-and-wait delivers in order: no frame reaches the database or the dead
\* letters before every older one has (docs/architecture.md section 1).
DeliveredInOrder == \A s \in Delivered : 1 .. s \subseteq Delivered

\* The receiver's tracker knows that frame s is done: below its prefix, or above it.
Tracked(s) == s <= tracker.last \/ s \in tracker.pending

\* When the sender commits a frame over a connection that is still up, the tracker
\* has that frame and every one below it, also after a restart with an old last_seq
\* file: no gap below a committed frame stays open, since all that the tracker may
\* still lack is the next drain (receiver.go:117-118, 300-303, 417-428).
CommittedTracked ==
    [][acked' > acked /\ sOpen[conn] => \A s \in 1 .. acked' : Tracked(s)]_vars

\* Refinement: frames in the database or isolated are the delivered ones.
Promise == INSTANCE AtLeastOnce WITH committed <- acked, delivered <- Delivered
KeepsPromise == Promise!Spec

\* A frame on its way, on any connection or in any call, was appended, and in
\* stop-and-wait no frame is on its way before all older ones are delivered:
\* this is what makes tryCloseGap's claim about the sender's head true.
InFlightFrames ==
    {call[h].seq : h \in {g \in Calls : call[g].pc # "free"}}
        \cup UNION {{wire[c][i] : i \in DOMAIN wire[c]} : c \in Slots}
HeadAuthority == \A s \in InFlightFrames \ {Heartbeat} : 1 .. s - 1 \subseteq Delivered
-----------------------------------------------------------------------------
(***************************************************************************)
(* Liveness                                                                *)
(***************************************************************************)

\* Every goroutine that can run runs.
Fairness ==
    /\ WF_vars(SenderWorks)
    /\ \A c \in Slots : WF_vars(ServerWorks(c))
    /\ \A h \in Calls : WF_vars(CallWorks(h)) /\ WF_vars(ResultDropped(h))

FairSpec == Spec /\ Fairness

\* Once faults stop, the WAL is drained for good: no nack, lost response,
\* abandoned connection, misplaced ACK or sequence gap blocks the head frame for
\* ever (receiver.go:115-118, where rejecting a jump would have).
Drained == <>[](acked = appended)
=============================================================================
