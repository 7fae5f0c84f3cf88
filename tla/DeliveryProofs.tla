--------------------------- MODULE DeliveryProofs ---------------------------
(***************************************************************************)
(* The whole system: a frame leaves the WAL only when it was delivered,    *)
(* for any number of frames, connections, concurrent calls and faults.     *)
(* In stop-and-wait mode (pipeline_window 1, the default) for any codec    *)
(* and any limits of the tracker; in pipeline mode for gzip frames whose   *)
(* rounds lose no frame in sending, as long as no frame jumps.             *)
(***************************************************************************)
EXTENDS Delivery, ReceiverProofs, SequenceTheorems

\* Stop-and-wait; or a pipeline whose data frames the server counts and whose writes
\* fail only at the first frame of a round.
Orderly == Pipeline = 1 \/ (Codec = "gzip" /\ ~LateSendFails)

\* Frames that may be sent first on a connection: appended, with nothing unsettled below.
Sendable == {s \in 0 .. appended : 1 .. s - 1 \subseteq Settled}

\* The first of the window whose response has not been read, how many of those from
\* there on have been sent, and the i-th of them.
First == IF phase = "wait" THEN pos ELSE 1
Sent ==
    IF phase = "wait" THEN Len(win) - pos + 1
    ELSE IF phase \in {"send", "beat"} THEN pos - 1 ELSE 0
Due(i) == win[First + i - 1]

\* The loop of Run: the window of a round is what follows the head of the WAL.
LoopInv ==
    /\ phase \in {"peek", "redial"} => pos = 1
    /\ phase \in {"send", "wait", "redial"} =>
          /\ pos <= Len(win)
          /\ \A i \in 1 .. Len(win) : win[i] = acked + i - First + 1
          /\ acked + Len(win) - First + 1 <= appended
    /\ phase = "beat" => win = <<Heartbeat>> /\ pos \in {1, 2}
    /\ phase \in {"send", "wait", "beat"} => conn \in Slots

\* Nothing is left on a slot that can be dialled.
SlotInv(c) ==
    /\ ~sOpen[c] => wire[c] = <<>> /\ order[c] = <<>>
    /\ c # conn => acks[c] = <<>>
Quiet(c) == wire[c] = <<>> /\ order[c] = <<>> /\ acks[c] = <<>>

\* Answers, calls and frames on the sender's connection, in a row, are the frames
\* the sender waits for: all of them as long as the server's end is open.
Under == Len(acks[conn]) + Len(order[conn]) + Len(wire[conn])
Counts == Under <= Sent /\ (sOpen[conn] => Under = Sent)
AckRow == \A i \in 1 .. Len(acks[conn]) : acks[conn][i].ok => acks[conn][i].seq = Due(i)
CallRow ==
    \A i \in 1 .. Len(order[conn]) : call[order[conn][i]].seq = Due(Len(acks[conn]) + i)
WireRow ==
    \A i \in 1 .. Len(wire[conn]) :
        wire[conn][i] = Due(Len(acks[conn]) + Len(order[conn]) + i)

\* Until the server has counted a data frame, all frames sent are still unread.
Uncounted ==
    phase = "send" /\ sOpen[conn] /\ dataIdx[conn] = 0 => Len(wire[conn]) = pos - 1

ConnInv == conn \in Slots => Counts /\ AckRow /\ CallRow /\ WireRow /\ Uncounted

\* A call is awaited by one connection at most, and is not free meanwhile.
OrderInv ==
    \A c \in Slots : \A i \in 1 .. Len(order[c]) :
        /\ call[order[c][i]].pc # "free"
        /\ \A d \in Slots : \A j \in 1 .. Len(order[d]) :
              order[d][j] = order[c][i] => d = c /\ j = i

\* What is on its way was appended; what is first on its connection, and in
\* stop-and-wait everything, may be sent.
MayBeSent(s) == s \in 0 .. appended /\ (Pipeline = 1 => s \in Sendable)
WireInv(c) ==
    /\ \A i \in 1 .. Len(wire[c]) :
          MayBeSent(wire[c][i]) /\ (wire[c][i] = Heartbeat => Len(wire[c]) = 1)
    /\ wire[c] # <<>> /\ dataIdx[c] = 0 => wire[c][1] \in Sendable
CarriedInv ==
    /\ \A c \in Slots : WireInv(c)
    /\ \A h \in Calls : MayBeSent(call[h].seq)

\* What is confirmed is settled.
ConfirmedInv ==
    /\ \A c \in Slots : \A i \in 1 .. Len(acks[c]) :
          acks[c][i].ok => acks[c][i].seq \in Settled \cup {Heartbeat}
    /\ 1 .. acked \subseteq Settled
    /\ Delivered \subseteq 1 .. appended

DeliveryInv ==
    /\ TypeOK
    /\ ReceiverInv
    /\ LoopInv
    /\ \A c \in Slots : SlotInv(c)
    /\ ConnInv
    /\ OrderInv
    /\ CarriedInv
    /\ ConfirmedInv
-----------------------------------------------------------------------------
\* Queues.
LEMMA QueueFacts ==
    ASSUME NEW X, NEW q \in Seq(X)
    PROVE  /\ Len(q) \in Nat /\ (q = <<>> <=> Len(q) = 0)
           /\ \A i \in 1 .. Len(q) : q[i] \in X
<1>1. Len(q) \in Nat /\ q \in [1 .. Len(q) -> X]
  BY LenProperties
<1>2. q = <<>> <=> Len(q) = 0
  BY EmptySeq
<1>3. QED
  BY <1>1, <1>2

LEMMA QueueTail ==
    ASSUME NEW X, NEW q \in Seq(X), q # <<>>
    PROVE  /\ Len(q) >= 1 /\ Head(q) = q[1] /\ Head(q) \in X
           /\ Tail(q) \in Seq(X) /\ Len(Tail(q)) = Len(q) - 1
           /\ \A i \in 1 .. Len(q) - 1 : Tail(q)[i] = q[i + 1]
<1>1. Len(q) \in Nat /\ Len(q) # 0
  BY QueueFacts
<1>2. QED
  BY <1>1, HeadTailProperties

LEMMA QueueAppend ==
    ASSUME NEW X, NEW q \in Seq(X), NEW e \in X
    PROVE  /\ Append(q, e) \in Seq(X) /\ Append(q, e) # <<>>
           /\ Len(Append(q, e)) = Len(q) + 1
           /\ \A i \in 1 .. Len(q) : Append(q, e)[i] = q[i]
           /\ Append(q, e)[Len(q) + 1] = e
<1>1. QED
  BY AppendProperties

LEMMA EmptyQueue == /\ \A X : <<>> \in Seq(X)
                    /\ Len(<<>>) = 0
OBVIOUS

\* What the assumptions say of the constants.
LEMMA DeliveryConstants ==
    /\ MaxSeq = LastFrame /\ LastFrame \in Nat \ {0} /\ MaxFaults \in Nat
    /\ Pipeline \in Nat \ {0} /\ NoConn \notin Slots /\ IsFiniteSet(Calls)
    /\ Codec \in {"gzip", "zstd"} /\ Heartbeat = 0
BY DeliveryAssumption, SenderAssumption, LinkAssumption, ReceiverAssumption, ServerAssumption
   DEF Heartbeat

LEMMA DeliveryInitInv == Init => DeliveryInv
<1> SUFFICES ASSUME Init PROVE DeliveryInv
  OBVIOUS
<1>1. ReceiverInv
  BY ReceiverInitInv DEF Init
<1>2. TypeOK
  BY <1>1, DeliveryConstants
     DEF Init, TypeOK, LinkInit, SenderInit, ServerInit, LinkTypeOK, SenderTypeOK,
         ServerTypeOK, ReceiverInv
<1>3. LoopInv /\ (\A c \in Slots : SlotInv(c)) /\ ConnInv /\ OrderInv
  BY DeliveryConstants, EmptyQueue
     DEF Init, LinkInit, SenderInit, ServerInit, LoopInv, SlotInv, ConnInv, OrderInv
<1>4. CarriedInv /\ ConfirmedInv
  BY EmptyQueue DEF Init, LinkInit, SenderInit, ReceiverInit, CarriedInv, WireInv, MayBeSent,
         ConfirmedInv, Sendable, Settled, Delivered, Idle, NewCall, Heartbeat
<1>5. QED
  BY <1>1, <1>2, <1>3, <1>4 DEF DeliveryInv
-----------------------------------------------------------------------------
(***************************************************************************)
(* What the operations of the link do to it.                               *)
(***************************************************************************)

\* The parts of the invariant about the link alone.
Answers == [seq : 0 .. LastFrame, ok : BOOLEAN]
LinkInv == LinkTypeOK(0 .. LastFrame) /\ ServerTypeOK /\ \A c \in Slots : SlotInv(c)

LEMMA LinkTypes ==
    ASSUME LinkInv
    PROVE  /\ conn \in Slots \cup {NoConn} /\ sOpen \in [Slots -> BOOLEAN]
           /\ wire \in [Slots -> Seq(0 .. LastFrame)] /\ acks \in [Slots -> Seq(Answers)]
           /\ order \in [Slots -> Seq(Calls)] /\ dataIdx \in [Slots -> {0, 1}]
BY DEF LinkInv, LinkTypeOK, ServerTypeOK, Answers

LEMMA SlotTypes ==
    ASSUME LinkInv, NEW c \in Slots
    PROVE  /\ wire[c] \in Seq(0 .. LastFrame) /\ Len(wire[c]) \in Nat
           /\ order[c] \in Seq(Calls) /\ Len(order[c]) \in Nat
           /\ acks[c] \in Seq(Answers) /\ Len(acks[c]) \in Nat
           /\ (wire[c] = <<>> <=> Len(wire[c]) = 0) /\ (order[c] = <<>> <=> Len(order[c]) = 0)
           /\ (acks[c] = <<>> <=> Len(acks[c]) = 0)
           /\ \A i \in 1 .. Len(order[c]) : order[c][i] \in Calls
           /\ sOpen[c] \in BOOLEAN /\ dataIdx[c] \in {0, 1}
<1>1. /\ wire[c] \in Seq(0 .. LastFrame) /\ order[c] \in Seq(Calls) /\ acks[c] \in Seq(Answers)
      /\ sOpen[c] \in BOOLEAN /\ dataIdx[c] \in {0, 1}
  BY LinkTypes
<1>2. Len(wire[c]) \in Nat /\ (wire[c] = <<>> <=> Len(wire[c]) = 0)
  BY <1>1, QueueFacts
<1>3. Len(acks[c]) \in Nat /\ (acks[c] = <<>> <=> Len(acks[c]) = 0)
  BY <1>1, QueueFacts
<1>4. /\ Len(order[c]) \in Nat /\ (order[c] = <<>> <=> Len(order[c]) = 0)
      /\ \A i \in 1 .. Len(order[c]) : order[c][i] \in Calls
  BY <1>1, QueueFacts
<1>5. QED
  BY <1>1, <1>2, <1>3, <1>4

LEMMA DialKeeps ==
    ASSUME LinkInv, NEW b \in BOOLEAN, Dial(b), UNCHANGED serverVars
    PROVE  LinkInv' /\ conn' \in Slots /\ UNCHANGED <<wire, acks>> /\ Quiet(conn)'
<1>1. PICK c \in FreeSlots : conn' = c /\ sOpen' = [sOpen EXCEPT ![c] = b]
  BY DEF Dial
<1>2. c \in Slots /\ c # conn /\ ~sOpen[c] /\ conn = NoConn /\ NoConn \notin Slots
  BY LinkAssumption DEF FreeSlots, Dial
<1>3. UNCHANGED <<wire, acks, order, dataIdx>>
  BY DEF Dial, serverVars
<1>4. LinkTypeOK(0 .. LastFrame)' /\ ServerTypeOK'
  BY <1>1, <1>2, <1>3 DEF LinkInv, LinkTypeOK, ServerTypeOK
<1>5. wire[c] = <<>> /\ order[c] = <<>> /\ acks[c] = <<>>
  BY <1>2 DEF LinkInv, SlotInv
<1>6. ASSUME NEW d \in Slots PROVE SlotInv(d)'
  <2>1. sOpen \in [Slots -> BOOLEAN] /\ SlotInv(d)
    BY DEF LinkInv, LinkTypeOK
  <2>2. QED
    BY <1>1, <1>2, <1>3, <1>5, <2>1 DEF SlotInv
<1>7. QED
  BY <1>1, <1>2, <1>3, <1>4, <1>5, <1>6 DEF LinkInv, Quiet

LEMMA PutKeeps ==
    ASSUME LinkInv, conn \in Slots, NEW s \in 0 .. LastFrame, Put(s), UNCHANGED serverVars
    PROVE  /\ LinkInv' /\ UNCHANGED <<conn, sOpen, acks, order, dataIdx>>
           /\ \A d \in Slots \ {conn} : wire'[d] = wire[d]
           /\ sOpen[conn] => wire'[conn] = Append(wire[conn], s)
           /\ ~sOpen[conn] => wire'[conn] = <<>> /\ wire[conn] = <<>>
<1>1. /\ wire' = [wire EXCEPT ![conn] = IF sOpen[conn] THEN Append(@, s) ELSE @]
      /\ UNCHANGED <<conn, sOpen, acks, order, dataIdx>>
  BY DEF Put, serverVars
<1>2. wire \in [Slots -> Seq(0 .. LastFrame)] /\ Append(wire[conn], s) \in Seq(0 .. LastFrame)
  BY LinkTypes, SlotTypes, QueueAppend
<1>3. /\ wire' \in [Slots -> Seq(0 .. LastFrame)]
      /\ wire'[conn] = IF sOpen[conn] THEN Append(wire[conn], s) ELSE wire[conn]
      /\ \A d \in Slots \ {conn} : wire'[d] = wire[d]
  BY <1>1, <1>2
<1>4. LinkTypeOK(0 .. LastFrame)' /\ ServerTypeOK'
  BY <1>1, <1>3 DEF LinkInv, LinkTypeOK, ServerTypeOK
<1>5. \A d \in Slots : SlotInv(d)'
  BY <1>1, <1>3 DEF LinkInv, SlotInv
<1>6. ~sOpen[conn] => wire[conn] = <<>>
  BY DEF LinkInv, SlotInv
<1>7. QED
  BY <1>1, <1>3, <1>4, <1>5, <1>6 DEF LinkInv

\* No response is invented.
AcksKept ==
    \A c \in Slots : \A i \in 1 .. Len(acks'[c]) :
        \E j \in 1 .. Len(acks[c]) : acks'[c][i] = acks[c][j]

LEMMA HangupKeeps ==
    ASSUME LinkInv, Hangup, UNCHANGED serverVars
    PROVE  LinkInv' /\ conn' = NoConn /\ UNCHANGED <<wire, order, dataIdx>> /\ AcksKept
<1>1. conn' = NoConn /\ UNCHANGED <<sOpen, wire, order, dataIdx>> /\ NoConn \notin Slots
  BY LinkAssumption DEF Hangup, serverVars
<1>2. acks \in [Slots -> Seq(Answers)] /\ conn \in Slots \cup {NoConn}
  BY LinkTypes
<1>3. acks' \in [Slots -> Seq(Answers)]
  BY <1>2, EmptyQueue DEF Hangup
<1>4. \A c \in Slots : acks'[c] = (IF c = conn THEN <<>> ELSE acks[c])
  BY <1>1, <1>2 DEF Hangup
<1>5. LinkTypeOK(0 .. LastFrame)' /\ ServerTypeOK'
  BY <1>1, <1>3 DEF LinkInv, LinkTypeOK, ServerTypeOK, Answers
<1>6. \A c \in Slots : SlotInv(c)'
  BY <1>1, <1>4 DEF LinkInv, SlotInv
<1>7. AcksKept
  <2>1. ASSUME NEW c \in Slots, NEW i \in 1 .. Len(acks'[c])
        PROVE  \E j \in 1 .. Len(acks[c]) : acks'[c][i] = acks[c][j]
    BY <1>4, EmptyQueue
  <2>2. QED
    BY <2>1 DEF AcksKept
<1>8. QED
  BY <1>1, <1>5, <1>6, <1>7 DEF LinkInv

\* The sender reads one response.
LEMMA TakeKeeps ==
    ASSUME LinkInv, conn \in Slots, acks[conn] # <<>>, acks' = [acks EXCEPT ![conn] = Tail(@)],
           UNCHANGED <<conn, sOpen, wire, serverVars>>
    PROVE  /\ LinkInv' /\ AcksKept /\ UNCHANGED <<order, dataIdx>>
           /\ acks'[conn] = Tail(acks[conn])
<1>1. acks \in [Slots -> Seq(Answers)] /\ UNCHANGED <<order, dataIdx>>
  BY LinkTypes DEF serverVars
<1>2. /\ Tail(acks[conn]) \in Seq(Answers) /\ Len(acks[conn]) \in Nat
      /\ Len(Tail(acks[conn])) = Len(acks[conn]) - 1
      /\ \A i \in 1 .. Len(acks[conn]) - 1 : Tail(acks[conn])[i] = acks[conn][i + 1]
  BY SlotTypes, QueueTail
<1>3. /\ acks' \in [Slots -> Seq(Answers)] /\ acks'[conn] = Tail(acks[conn])
      /\ \A c \in Slots \ {conn} : acks'[c] = acks[c]
  BY <1>1, <1>2
<1>4. LinkTypeOK(0 .. LastFrame)' /\ ServerTypeOK'
  BY <1>1, <1>3 DEF LinkInv, LinkTypeOK, ServerTypeOK, Answers
<1>5. \A c \in Slots : SlotInv(c)'
  BY <1>1, <1>3 DEF LinkInv, SlotInv
<1>6. ASSUME NEW c \in Slots, NEW i \in 1 .. Len(acks'[c])
      PROVE  \E j \in 1 .. Len(acks[c]) : acks'[c][i] = acks[c][j]
  <2>1. CASE c # conn
    BY <1>3, <2>1
  <2>2. CASE c = conn
    <3>1. i \in 1 .. Len(acks[c]) - 1 /\ acks'[c][i] = acks[c][i + 1]
      BY <1>2, <1>3, <2>2
    <3>2. i + 1 \in 1 .. Len(acks[c])
      BY <1>2, <2>2, <3>1
    <3>3. QED
      BY <3>1, <3>2
  <2>3. QED
    BY <2>1, <2>2
<1>7. QED
  BY <1>1, <1>3, <1>4, <1>5, <1>6 DEF LinkInv, AcksKept
-----------------------------------------------------------------------------
(***************************************************************************)
(* The sender's steps.                                                     *)
(***************************************************************************)

\* Facts every action below uses.
LEMMA SenderFacts ==
    ASSUME DeliveryInv
    PROVE  /\ LinkInv /\ SenderTypeOK /\ LoopInv /\ ConnInv
           /\ appended \in Nat /\ acked \in Nat /\ ckpt \in Nat
           /\ acked <= appended /\ ckpt <= acked /\ appended <= LastFrame
           /\ LastFrame \in Nat /\ NoConn \notin Slots /\ faults \in 0 .. MaxFaults
           /\ 1 .. acked \subseteq Settled
           /\ acked < appended => acked + 1 \in Sendable
           /\ Heartbeat = 0 /\ 0 \in Sendable
           /\ win \in Seq(0 .. LastFrame) /\ Len(win) \in Nat /\ Len(win) <= Pipeline
           /\ pos \in Nat \ {0} /\ Pipeline \in Nat \ {0}
<1>1. /\ appended \in Nat /\ acked \in Nat /\ ckpt \in Nat
      /\ acked <= appended /\ ckpt <= acked /\ appended <= LastFrame /\ LastFrame \in Nat
      /\ pos \in Nat \ {0} /\ Pipeline \in Nat \ {0}
  BY DeliveryConstants DEF DeliveryInv, TypeOK, SenderTypeOK
<1>2. win \in Seq(0 .. LastFrame) /\ Len(win) \in Nat /\ Len(win) <= Pipeline
  BY QueueFacts DEF DeliveryInv, TypeOK, SenderTypeOK
<1>3. 1 .. acked \subseteq Settled
  BY DEF DeliveryInv, ConfirmedInv
<1>4. LinkInv /\ SenderTypeOK /\ LoopInv /\ ConnInv
  BY DEF DeliveryInv, TypeOK, LinkInv
<1>5. NoConn \notin Slots /\ faults \in 0 .. MaxFaults /\ Heartbeat = 0
  BY DeliveryConstants DEF DeliveryInv, TypeOK
<1>6. (acked < appended => acked + 1 \in Sendable) /\ 0 \in Sendable
  BY <1>1, <1>3 DEF Sendable
<1>7. QED
  BY <1>1, <1>2, <1>3, <1>4, <1>5, <1>6

\* The sender keeps the invariant if what it sends may be sent, what it commits is
\* settled, and it invents no response.
LEMMA SenderMove ==
    ASSUME DeliveryInv, UNCHANGED <<serverVars, receiverVars>>,
           LinkInv', SenderTypeOK', faults' \in 0 .. MaxFaults, LoopInv', ConnInv',
           appended' \in Nat, appended' >= appended, 1 .. acked' \subseteq Settled, AcksKept,
           \A c \in Slots : wire'[c] = wire[c] \/ WireInv(c)'
    PROVE  DeliveryInv'
<1>1. UNCHANGED <<lastSeq, tracker, inflight, lastSeqFile, call, stored, dlq, relayed,
                  relayLost, order, dataIdx>>
  BY DEF receiverVars, serverVars, databaseVars
<1>2. Settled' = Settled /\ Delivered' = Delivered
  BY <1>1 DEF Settled, Delivered
<1>3. ReceiverInv'
  BY <1>1, <1>2 DEF DeliveryInv, ReceiverInv, ReceiverTypeOK, Vouched, CallSafe, CallKnows,
     Authorised
<1>4. TypeOK'
  BY <1>3 DEF TypeOK, LinkInv, ReceiverInv
<1>5. OrderInv'
  BY <1>1 DEF DeliveryInv, OrderInv
<1>6. \A s : (s \in Sendable => s \in Sendable') /\ (MayBeSent(s) => MayBeSent(s)')
  <2>1. appended \in Nat
    BY SenderFacts
  <2>2. Sendable \subseteq Sendable' /\ 0 .. appended \subseteq 0 .. appended'
    BY <1>2, <2>1 DEF Sendable
  <2>3. QED
    BY <2>2 DEF MayBeSent
<1>7. CarriedInv'
  <2>1. ASSUME NEW c \in Slots, wire'[c] = wire[c] PROVE WireInv(c)'
    BY <1>1, <1>6, <2>1 DEF DeliveryInv, CarriedInv, WireInv
  <2>2. \A h \in Calls : MayBeSent(call[h].seq)'
    BY <1>1, <1>6 DEF DeliveryInv, CarriedInv
  <2>3. QED
    BY <2>1, <2>2 DEF CarriedInv
<1>8. ConfirmedInv'
  <2>1. Delivered' \subseteq 1 .. appended'
    BY <1>2, SenderFacts DEF DeliveryInv, ConfirmedInv
  <2>2. ASSUME NEW c \in Slots, NEW i \in 1 .. Len(acks'[c]), acks'[c][i].ok
        PROVE  acks'[c][i].seq \in Settled \cup {Heartbeat}
    BY <2>2 DEF AcksKept, DeliveryInv, ConfirmedInv
  <2>3. QED
    BY <1>2, <2>1, <2>2 DEF ConfirmedInv
<1>9. QED
  BY <1>3, <1>4, <1>5, <1>7, <1>8 DEF DeliveryInv, LinkInv

\* Nothing is under way and nothing is waited for.
LEMMA QuietConn ==
    ASSUME conn' \in Slots => Quiet(conn)', Sent' = 0, phase' = "send" => pos' = 1
    PROVE  ConnInv'
<1> SUFFICES ASSUME conn' \in Slots PROVE (Counts /\ AckRow /\ CallRow /\ WireRow /\ Uncounted)'
  BY DEF ConnInv
<1>1. Len(wire'[conn']) = 0 /\ Len(order'[conn']) = 0 /\ Len(acks'[conn']) = 0
  BY EmptyQueue, Zenon DEF Quiet
<1>2. AckRow' /\ CallRow' /\ WireRow'
  BY <1>1 DEF AckRow, CallRow, WireRow
<1>3. Under' = 0
  BY <1>1 DEF Under
<1>4. QED
  BY <1>1, <1>2, <1>3 DEF Counts, Uncounted

LEMMA SumZero ==
    ASSUME NEW a \in Nat, NEW b \in Nat, NEW k \in Nat, a + b + k <= 0
    PROVE  a = 0 /\ b = 0 /\ k = 0
OBVIOUS

\* A connection the sender waits for nothing on is quiet.
LEMMA IdleConn ==
    ASSUME DeliveryInv, conn \in Slots, Sent = 0
    PROVE  Quiet(conn)
<1>1. /\ Len(wire[conn]) \in Nat /\ Len(order[conn]) \in Nat /\ Len(acks[conn]) \in Nat
      /\ Len(acks[conn]) + Len(order[conn]) + Len(wire[conn]) <= 0
  BY SenderFacts, SlotTypes DEF ConnInv, Counts, Under
<1>2. Len(wire[conn]) = 0 /\ Len(order[conn]) = 0 /\ Len(acks[conn]) = 0
  BY <1>1, SumZero
<1>3. QED
  BY <1>2, SenderFacts, SlotTypes DEF Quiet

LEMMA WindowSpec ==
    ASSUME DeliveryInv, acked < appended
    PROVE  /\ Window \in Seq(0 .. LastFrame) /\ Len(Window) \in Nat
           /\ 1 <= Len(Window) /\ Len(Window) <= Pipeline
           /\ acked + Len(Window) <= appended
           /\ \A i \in 1 .. Len(Window) : Window[i] = acked + i
<1> DEFINE n == IF appended - acked < Pipeline THEN appended - acked ELSE Pipeline
<1>1. n \in Nat /\ 1 <= n /\ n <= Pipeline /\ acked + n <= appended
  BY SenderFacts, SMTT(30)
<1>2. Window = [i \in 1 .. n |-> acked + i]
  BY DEF Window
<1> HIDE DEF n
<1>3. \A i \in 1 .. n : acked + i \in 0 .. LastFrame
  BY <1>1, SenderFacts, SMTT(30)
<1>4. Window \in Seq(0 .. LastFrame) /\ Len(Window) = n
  BY <1>1, <1>2, <1>3
<1>5. QED
  BY <1>1, <1>2, <1>4

\* A round or a heartbeat starts, on the connection that is there or on a new one.
LEMMA ConnectedKeeps ==
    ASSUME DeliveryInv, Sent = 0, Connected, UNCHANGED <<serverVars, receiverVars>>
    PROVE  LinkInv' /\ conn' \in Slots /\ UNCHANGED <<wire, acks>> /\ Quiet(conn)'
<1>1. CASE conn # NoConn /\ UNCHANGED linkVars
  <2>1. conn \in Slots /\ UNCHANGED <<conn, sOpen, wire, acks, order, dataIdx>>
    BY <1>1, SenderFacts, LinkTypes DEF linkVars, serverVars
  <2>2. Quiet(conn)
    BY <2>1, IdleConn
  <2>3. QED
    BY <2>1, <2>2, SenderFacts DEF LinkInv, LinkTypeOK, ServerTypeOK, SlotInv, Quiet
<1>2. CASE Dial(TRUE)
  BY <1>2, SenderFacts, DialKeeps
<1>3. QED
  BY <1>1, <1>2 DEF Connected

\* A step that dials, or goes on without a word, keeps the invariant.
LEMMA StartInv ==
    ASSUME DeliveryInv, UNCHANGED <<serverVars, receiverVars, walVars>>,
           faults' \in 0 .. MaxFaults,
           LinkInv', UNCHANGED <<wire, acks>>, Quiet(conn)',
           SenderTypeOK', LoopInv', Sent' = 0, phase' = "send" => pos' = 1
    PROVE  DeliveryInv'
<1>1. ConnInv'
  BY QuietConn
<1>2. AcksKept
  BY DEF AcksKept
<1>3. appended' = appended /\ acked' = acked
  BY DEF walVars
<1>4. QED
  BY <1>1, <1>2, <1>3, SenderFacts, SenderMove

LEMMA StartRoundInv ==
    ASSUME DeliveryInv, StartRound, UNCHANGED <<serverVars, receiverVars, faults>>
    PROVE  DeliveryInv'
<1>1. Sent = 0 /\ Connected /\ acked < appended /\ UNCHANGED walVars
  BY DEF StartRound, Sent
<1>2. LinkInv' /\ conn' \in Slots /\ UNCHANGED <<wire, acks>> /\ Quiet(conn)'
  BY <1>1, ConnectedKeeps
<1>3. PICK w : w = Window
  OBVIOUS
<1>4. phase' = "send" /\ pos' = 1 /\ win' = w /\ UNCHANGED <<appended, acked, ckpt>>
  BY <1>3 DEF StartRound, Enter, walVars
<1>5. /\ w \in Seq(0 .. LastFrame) /\ Len(w) \in Nat
      /\ 1 <= Len(w) /\ Len(w) <= Pipeline
      /\ acked + Len(w) <= appended
      /\ \A i \in 1 .. Len(w) : w[i] = acked + i
  BY <1>1, <1>3, WindowSpec
<1>6. SenderTypeOK'
  BY <1>4, <1>5, SenderFacts DEF SenderTypeOK
<1>7. LoopInv'
  <2>1. /\ acked + Len(w) - 1 + 1 <= appended
        /\ \A i \in 1 .. Len(w) : w[i] = acked + i - 1 + 1
    BY <1>5, SenderFacts, SMTT(30)
  <2>2. First' = 1
    BY <1>4 DEF First
  <2>3. QED
    BY <1>2, <1>4, <1>5, <2>1, <2>2 DEF LoopInv
<1>8. Sent' = 0
  BY <1>4 DEF Sent
<1>9. QED
  BY <1>1, <1>2, <1>4, <1>6, <1>7, <1>8, SenderFacts, StartInv

LEMMA StartHeartbeatInv ==
    ASSUME DeliveryInv, StartHeartbeat, UNCHANGED <<serverVars, receiverVars, faults>>
    PROVE  DeliveryInv'
<1>1. Sent = 0 /\ Connected /\ UNCHANGED walVars
  BY DEF StartHeartbeat, Sent
<1>2. LinkInv' /\ conn' \in Slots /\ UNCHANGED <<wire, acks>> /\ Quiet(conn)'
  BY <1>1, ConnectedKeeps
<1>3. phase' = "beat" /\ pos' = 1 /\ win' = <<0>> /\ UNCHANGED <<appended, acked, ckpt>>
  BY DEF StartHeartbeat, Enter, walVars
<1>4. SenderTypeOK'
  BY <1>3, SenderFacts DEF SenderTypeOK
<1>5. LoopInv' /\ Sent' = 0
  BY <1>2, <1>3, SenderFacts DEF LoopInv, Sent
<1>6. QED
  BY <1>1, <1>2, <1>3, <1>4, <1>5, SenderFacts, StartInv

LEMMA RedialInv ==
    ASSUME DeliveryInv, Redial, UNCHANGED <<serverVars, receiverVars, faults>>
    PROVE  DeliveryInv'
<1>1. Sent = 0 /\ Connected /\ UNCHANGED walVars
  BY DEF Redial, Sent
<1>2. LinkInv' /\ conn' \in Slots /\ UNCHANGED <<wire, acks>> /\ Quiet(conn)'
  BY <1>1, ConnectedKeeps
<1>3. /\ phase = "redial" /\ phase' = "send" /\ pos' = 1 /\ win' = win
      /\ UNCHANGED <<appended, acked, ckpt>>
  BY DEF Redial, Enter, walVars
<1>4. pos = 1 /\ First = 1 /\ First' = 1
  BY <1>3, SenderFacts DEF LoopInv, First
<1>5. SenderTypeOK'
  BY <1>3, <1>4, SenderFacts DEF SenderTypeOK
<1>6. LoopInv' /\ Sent' = 0
  BY <1>2, <1>3, <1>4, SenderFacts DEF LoopInv, Sent
<1>7. QED
  BY <1>1, <1>2, <1>3, <1>5, <1>6, SenderFacts, StartInv

LEMMA SentType ==
    ASSUME DeliveryInv
    PROVE  Sent \in Nat /\ First \in Nat \ {0} /\ (phase = "send" => Sent = pos - 1)
<1>1. CASE phase = "wait"
  BY <1>1, SenderFacts DEF LoopInv, Sent, First
<1>2. CASE phase # "wait"
  BY <1>2, SenderFacts DEF Sent, First
<1>3. QED
  BY <1>1, <1>2

LEMMA SumType == \A a \in Nat, b \in Nat, k \in Nat : a + b + k \in Nat
OBVIOUS

\* How long the three queues of the sender's connection are.
LEMMA ConnLengths ==
    ASSUME DeliveryInv, conn \in Slots
    PROVE  /\ Len(acks[conn]) \in Nat /\ Len(order[conn]) \in Nat /\ Len(wire[conn]) \in Nat
           /\ Len(acks[conn]) + Len(order[conn]) + Len(wire[conn]) <= Sent
           /\ sOpen[conn] => Len(acks[conn]) + Len(order[conn]) + Len(wire[conn]) = Sent
           /\ sOpen[conn] \in BOOLEAN
           /\ ~sOpen[conn] => Len(order[conn]) = 0 /\ Len(wire[conn]) = 0
<1>1. LinkInv /\ Counts /\ SlotInv(conn)
  BY SenderFacts DEF ConnInv, LinkInv
<1>2. ~sOpen[conn] => Len(order[conn]) = 0 /\ Len(wire[conn]) = 0
  BY <1>1, EmptyQueue DEF SlotInv
<1>3. QED
  BY <1>1, <1>2, SlotTypes DEF Counts, Under

\* Sending the next frame of the window, or the heartbeat.
LEMMA PutInv ==
    ASSUME DeliveryInv, UNCHANGED <<serverVars, receiverVars, faults, walVars>>,
           conn \in Slots, NEW s \in 0 .. LastFrame, s = Due(Sent + 1), Put(s), MayBeSent(s),
           sOpen[conn] /\ wire[conn] = <<>> /\ dataIdx[conn] = 0 => s \in Sendable,
           s = Heartbeat => wire[conn] = <<>>,
           \A i \in 1 .. Len(wire[conn]) : wire[conn][i] # Heartbeat,
           win' = win, First' = First, Sent' = Sent + 1, SenderTypeOK', LoopInv',
           phase' = "send" => phase = "send" /\ pos' = pos + 1
    PROVE  DeliveryInv'
<1>1. /\ LinkInv' /\ UNCHANGED <<conn, sOpen, acks, order, dataIdx>>
      /\ \A d \in Slots \ {conn} : wire'[d] = wire[d]
      /\ sOpen[conn] => wire'[conn] = Append(wire[conn], s)
      /\ ~sOpen[conn] => wire'[conn] = <<>> /\ wire[conn] = <<>>
  BY SenderFacts, PutKeeps
<1>2. UNCHANGED <<call, appended, acked, faults>> /\ Sendable' = Sendable
  BY DEF receiverVars, databaseVars, walVars, Sendable, Settled, Delivered
<1>3. \A i : Due(i)' = Due(i)
  BY DEF Due
<1>4. ConnInv /\ Sent \in Nat /\ pos \in Nat
  BY SenderFacts, SentType
<1>5. CASE ~sOpen[conn]
  <2>1. wire' = wire
    <3>1. wire \in [Slots -> Seq(0 .. LastFrame)] /\ wire' \in [Slots -> Seq(0 .. LastFrame)]
      BY <1>1, SenderFacts DEF LinkInv, LinkTypeOK
    <3>2. QED
      BY <1>1, <1>5, <3>1
  <2>2. Counts'
    <3>1. PICK n \in Nat : n = Sent /\ Under <= n
      BY <1>4, SentType DEF ConnInv, Counts
    <3>2. PICK u : u = Under
      OBVIOUS
    <3>3. Under' = u /\ Sent' = n + 1 /\ u <= n
      BY <1>1, <2>1, <3>1, <3>2 DEF Under
    <3>4. u \in Nat
      BY <3>2, ConnLengths, SumType DEF Under
    <3>5. QED
      BY <1>1, <1>5, <3>3, <3>4 DEF Counts
  <2>3. AckRow' /\ CallRow' /\ WireRow' /\ Uncounted'
    BY <1>1, <1>2, <1>3, <1>4, <1>5, <2>1 DEF ConnInv, AckRow, CallRow, WireRow, Uncounted
  <2>4. ConnInv'
    BY <2>2, <2>3 DEF ConnInv
  <2>5. AcksKept
    BY <1>1 DEF AcksKept
  <2>6. QED
    BY <1>1, <1>2, <2>1, <2>4, <2>5, SenderFacts, SenderMove
<1>6. CASE sOpen[conn]
  <2>1. PICK q \in Seq(0 .. LastFrame) : q = wire[conn]
    BY SenderFacts, SlotTypes
  <2>2. /\ wire'[conn] = Append(q, s) /\ Len(q) \in Nat /\ (q = <<>> <=> Len(q) = 0)
        /\ Append(q, s) # <<>> /\ Len(Append(q, s)) = Len(q) + 1
        /\ \A i \in 1 .. Len(q) : Append(q, s)[i] = q[i]
        /\ Append(q, s)[Len(q) + 1] = s
    BY <1>1, <1>6, <2>1, QueueAppend, QueueFacts
  <2>3. /\ Len(acks[conn]) \in Nat /\ Len(order[conn]) \in Nat
        /\ Len(acks[conn]) + Len(order[conn]) + Len(q) = Sent
        /\ Len(acks[conn]) + Len(order[conn]) + (Len(q) + 1) = Sent + 1
    <3>1. PICK a \in Nat, b \in Nat, n \in Nat :
              a = Len(acks[conn]) /\ b = Len(order[conn]) /\ n = Len(q)
      BY <2>2, ConnLengths
    <3>2. a + b + n = Sent
      BY <1>6, <2>1, <3>1, ConnLengths
    <3>3. a + b + (n + 1) = a + b + n + 1
      OBVIOUS
    <3>4. QED
      BY <3>1, <3>2, <3>3
  <2>4. Counts'
    <3>1. Under' = Len(acks[conn]) + Len(order[conn]) + (Len(q) + 1)
      BY <1>1, <2>2 DEF Under
    <3>2. Under' = Sent + 1 /\ Sent' = Sent + 1
      BY <2>3, <3>1, Zenon
    <3>3. Sent + 1 \in Nat
      BY <1>4, SentType
    <3>4. QED
      BY <3>2, <3>3 DEF Counts
  <2>5. AckRow' /\ CallRow'
    BY <1>1, <1>2, <1>3, <1>4 DEF ConnInv, AckRow, CallRow
  <2>6. WireRow'
    <3>1. ASSUME NEW i \in 1 .. Len(q) + 1
          PROVE  Append(q, s)[i] = Due(Len(acks[conn]) + Len(order[conn]) + i)
      <4>1. CASE i \in 1 .. Len(q)
        BY <1>4, <2>1, <2>2, <4>1 DEF ConnInv, WireRow
      <4>2. CASE i = Len(q) + 1
        BY <2>2, <2>3, <4>2
      <4>3. PICK m \in Nat : m = Len(q)
        BY <2>2
      <4>4. i \in 1 .. m \/ i = m + 1
        BY <4>3
      <4>5. QED
        BY <4>1, <4>2, <4>3, <4>4
    <3>2. QED
      BY <1>1, <1>3, <2>2, <3>1 DEF WireRow
  <2>7. Uncounted'
    <3>1. ASSUME phase' = "send", dataIdx[conn] = 0 PROVE Len(q) + 1 = pos' - 1
      BY <1>4, <1>6, <2>1, <2>2, <3>1 DEF ConnInv, Uncounted
    <3>2. QED
      BY <1>1, <2>2, <3>1 DEF Uncounted
  <2>8. ConnInv'
    BY <2>4, <2>5, <2>6, <2>7 DEF ConnInv
  <2>9. WireInv(conn)
    BY DEF DeliveryInv, CarriedInv
  <2>10. \A n : MayBeSent(n)' = MayBeSent(n)
    BY <1>2 DEF MayBeSent
  <2>11. ASSUME NEW i \in 1 .. Len(q) + 1
         PROVE  /\ MayBeSent(Append(q, s)[i])
                /\ Append(q, s)[i] = Heartbeat => Len(q) + 1 = 1
    <3>1. CASE i \in 1 .. Len(q)
      BY <2>1, <2>2, <2>9, <3>1 DEF WireInv
    <3>2. CASE i = Len(q) + 1
      BY <2>1, <2>2, <3>2
    <3>3. QED
      BY <2>2, <3>1, <3>2
  <2>12. dataIdx[conn] = 0 => Append(q, s)[1] \in Sendable
    <3>1. CASE q = <<>>
      BY <1>6, <2>1, <2>2, <3>1
    <3>2. CASE q # <<>>
      BY <2>1, <2>2, <2>9, <3>2 DEF WireInv
    <3>3. QED
      BY <3>1, <3>2
  <2>13. WireInv(conn)'
    BY <1>1, <1>2, <2>2, <2>10, <2>11, <2>12 DEF WireInv
  <2>14. \A d \in Slots : wire'[d] = wire[d] \/ WireInv(d)'
    BY <1>1, <2>13
  <2>15. AcksKept
    BY <1>1 DEF AcksKept
  <2>16. QED
    BY <1>1, <1>2, <2>8, <2>14, <2>15, SenderFacts, SenderMove
<1>7. QED
  BY <1>5, <1>6

LEMMA SendFrameInv ==
    ASSUME DeliveryInv, SendFrame, UNCHANGED <<serverVars, receiverVars, faults>>
    PROVE  DeliveryInv'
<1>1. /\ phase = "send" /\ Put(win[pos]) /\ win' = win /\ UNCHANGED walVars /\ conn' = conn
      /\ \/ pos < Len(win) /\ phase' = "send" /\ pos' = pos + 1
         \/ ~(pos < Len(win)) /\ phase' = "wait" /\ pos' = 1
  BY DEF SendFrame, Enter, Put
<1>2. /\ conn \in Slots /\ First = 1 /\ pos \in 1 .. Len(win) /\ Sent = pos - 1
      /\ win[pos] = acked + pos /\ acked + Len(win) <= appended
  <2>1. First = 1 /\ Sent = pos - 1 /\ pos <= Len(win) /\ pos \in Nat \ {0}
    BY <1>1, SenderFacts DEF LoopInv, First, Sent
  <2>2. /\ win[pos] = acked + pos - 1 + 1 /\ acked + Len(win) - 1 + 1 <= appended
        /\ conn \in Slots
    BY <1>1, <2>1, SenderFacts DEF LoopInv
  <2>3. QED
    BY <2>1, <2>2, SenderFacts, SMTT(30)
<1>3. PICK s \in 0 .. LastFrame : s = win[pos] /\ s # 0 /\ s \in 0 .. appended
  BY <1>2, SenderFacts, SMTT(30)
<1>4. First' = 1 /\ Sent' = Sent + 1
  BY <1>1, <1>2, SenderFacts, SMTT(30) DEF First, Sent
<1>5. s = Due(Sent + 1)
  <2>1. First + (Sent + 1) - 1 = pos
    BY <1>2, SenderFacts
  <2>2. QED
    BY <1>3, <2>1 DEF Due
<1>6. pos = 1 => s \in Sendable
  BY <1>2, <1>3, SenderFacts
<1>7. MayBeSent(s)
  BY <1>2, <1>3, <1>6, SenderFacts DEF MayBeSent
<1>8. sOpen[conn] /\ wire[conn] = <<>> /\ dataIdx[conn] = 0 => s \in Sendable
  <2>1. ASSUME sOpen[conn], wire[conn] = <<>>, dataIdx[conn] = 0 PROVE pos = 1
    BY <1>1, <1>2, <2>1, SenderFacts, EmptyQueue DEF ConnInv, Uncounted
  <2>2. QED
    BY <1>6, <2>1
<1>9. \A i \in 1 .. Len(wire[conn]) : wire[conn][i] # Heartbeat
  <2>1. SUFFICES ASSUME NEW i \in 1 .. Len(wire[conn]) PROVE wire[conn][i] # Heartbeat
    OBVIOUS
  <2>2. PICK k \in Nat : k = Len(acks[conn]) + Len(order[conn]) + i /\ 1 <= k /\ k <= Len(win)
    <3>1. PICK a \in Nat, b \in Nat, n \in Nat, m \in Nat, p \in Nat :
              /\ a = Len(acks[conn]) /\ b = Len(order[conn]) /\ n = Len(wire[conn])
              /\ m = Len(win) /\ p = pos
      BY <1>2, ConnLengths, SenderFacts
    <3>2. Len(acks[conn]) + Len(order[conn]) + Len(wire[conn]) <= Sent
      BY <1>2, ConnLengths
    <3>3. Sent = p - 1 /\ p \in 1 .. m
      BY <1>2, <3>1
    <3>4. a + b + n <= Sent
      BY <3>1, <3>2, Zenon
    <3>5. a + b + n <= p - 1 /\ p <= m
      BY <3>3, <3>4
    <3>6. i \in Nat /\ 1 <= i /\ i <= n
      BY <2>1, <3>1
    <3>7. a + b + i \in Nat /\ 1 <= a + b + i /\ a + b + i <= m
      BY <3>5, <3>6
    <3>8. QED
      BY <3>1, <3>7
  <2>3. wire[conn][i] = Due(k)
    BY <1>2, <2>2, SenderFacts DEF ConnInv, WireRow
  <2>4. Due(k) = win[k] /\ win[k] = acked + k
    <3>1. First + k - 1 = k
      BY <1>2, <2>2
    <3>2. k \in 1 .. Len(win) /\ acked \in Nat
      <4>1. 1 <= k /\ k <= Len(win) /\ Len(win) \in Nat /\ acked \in Nat
        BY <2>2, SenderFacts
      <4>2. QED
        BY <4>1
    <3>3. win[k] = acked + k - First + 1
      BY <1>1, <3>2, SenderFacts DEF LoopInv
    <3>4. acked + k - 1 + 1 = acked + k
      BY <3>2
    <3>5. QED
      BY <1>2, <3>1, <3>3, <3>4 DEF Due
  <2>5. acked \in Nat /\ Heartbeat = 0 /\ 1 <= k
    BY <2>2, SenderFacts
  <2>6. acked + k # 0
    BY <2>5
  <2>7. QED
    BY <2>3, <2>4, <2>5, <2>6
<1>10. pos' \in 1 .. Len(win) /\ pos' \in 1 .. Pipeline + 1
  <2>1. PICK n \in Nat, p \in Nat, k \in Nat :
            n = Len(win) /\ p = pos /\ k = Pipeline /\ n <= k /\ 1 <= p /\ p <= n
    <3>1. Len(win) \in Nat /\ pos \in Nat /\ Pipeline \in Nat /\ Len(win) <= Pipeline
      BY SenderFacts
    <3>2. pos \in 1 .. Len(win)
      BY <1>2
    <3>3. 1 <= pos /\ pos <= Len(win)
      BY <3>1, <3>2
    <3>4. QED
      BY <3>1, <3>3
  <2>2. pos' \in Nat /\ 1 <= pos' /\ pos' <= n
    BY <1>1, <2>1
  <2>3. QED
    BY <2>1, <2>2
<1>11. SenderTypeOK'
  BY <1>1, <1>10, SenderFacts DEF SenderTypeOK, walVars
<1>12. LoopInv'
  <2>1. LoopInv /\ UNCHANGED <<acked, appended>>
    BY <1>1, SenderFacts DEF walVars
  <2>2. QED
    BY <1>1, <1>2, <1>4, <1>10, <2>1 DEF LoopInv
<1>13. QED
  BY <1>1, <1>2, <1>3, <1>4, <1>5, <1>7, <1>8, <1>9, <1>11, <1>12, SenderFacts, PutInv

LEMMA SendHeartbeatInv ==
    ASSUME DeliveryInv, SendHeartbeat, UNCHANGED <<serverVars, receiverVars, faults>>
    PROVE  DeliveryInv'
<1>1. /\ phase = "beat" /\ pos = 1 /\ Put(0) /\ phase' = "beat" /\ win' = win /\ pos' = 2
      /\ UNCHANGED walVars /\ conn' = conn
  BY DEF SendHeartbeat, Enter, Put
<1>2. /\ conn \in Slots /\ win = <<Heartbeat>> /\ Sent = 0 /\ Sent' = 1
      /\ First = 1 /\ First' = 1
  BY <1>1, SenderFacts DEF LoopInv, Sent, First
<1>3. Quiet(conn) /\ wire[conn] = <<>>
  BY <1>2, IdleConn DEF Quiet
<1>4. 0 = Due(Sent + 1) /\ MayBeSent(0) /\ 0 \in Sendable /\ 0 \in 0 .. LastFrame
  BY <1>2, SenderFacts DEF Due, MayBeSent
<1>5. SenderTypeOK' /\ LoopInv'
  BY <1>1, <1>2, SenderFacts DEF SenderTypeOK, LoopInv, walVars
<1>6. \A i \in 1 .. Len(wire[conn]) : wire[conn][i] # Heartbeat
  BY <1>3, EmptyQueue
<1>7. QED
  BY <1>1, <1>2, <1>3, <1>4, <1>5, <1>6, SenderFacts, PutInv

\* The round ends on a connection on which nothing is left.
LEMMA TakeInv ==
    ASSUME DeliveryInv, UNCHANGED <<serverVars, receiverVars, faults>>,
           conn \in Slots, Sent = 1, acks[conn] # <<>>,
           acks' = [acks EXCEPT ![conn] = Tail(@)],
           UNCHANGED <<conn, sOpen, wire, appended>>, Enter("peek", <<>>, 1),
           acked' \in 0 .. appended, ckpt' \in 0 .. acked', 1 .. acked' \subseteq Settled
    PROVE  DeliveryInv'
<1>1. LinkInv' /\ AcksKept /\ UNCHANGED <<order, dataIdx>> /\ acks'[conn] = Tail(acks[conn])
  BY SenderFacts, TakeKeeps
<1>2. SenderTypeOK' /\ LoopInv'
  BY SenderFacts, EmptyQueue DEF SenderTypeOK, LoopInv, Enter
<1>3. Quiet(conn)'
  <2>1. /\ acks[conn] \in Seq(Answers) /\ Len(acks[conn]) >= 1
        /\ Len(Tail(acks[conn])) = Len(acks[conn]) - 1
    BY SenderFacts, SlotTypes, QueueTail
  <2>2. PICK a \in Nat, b \in Nat, n \in Nat :
            a = Len(acks[conn]) /\ b = Len(order[conn]) /\ n = Len(wire[conn])
    BY ConnLengths
  <2>3. a + b + n <= 1 /\ a >= 1
    BY <2>1, <2>2, ConnLengths, Zenon
  <2>4. a - 1 = 0 /\ b = 0 /\ n = 0
    BY <2>3
  <2>5. Len(acks'[conn]) = 0 /\ Len(order[conn]) = 0 /\ Len(wire[conn]) = 0
    BY <1>1, <2>1, <2>2, <2>4, Zenon
  <2>6. acks'[conn] \in Seq(Answers)
    BY <1>1, <2>1, SenderFacts, SlotTypes, QueueTail, EmptyQueue
  <2>7. acks'[conn] = <<>> /\ order[conn] = <<>> /\ wire[conn] = <<>>
    BY <2>5, <2>6, QueueFacts, SenderFacts, SlotTypes
  <2>8. QED
    BY <1>1, <2>7 DEF Quiet
<1>4. Sent' = 0 /\ phase' = "peek"
  BY DEF Enter, Sent
<1>5. ConnInv'
  BY <1>3, <1>4, QuietConn
<1>6. QED
  BY <1>1, <1>2, <1>5, SenderFacts, SenderMove

LEMMA HeartbeatAckInv ==
    ASSUME DeliveryInv, HeartbeatAck, UNCHANGED <<serverVars, receiverVars, faults>>
    PROVE  DeliveryInv'
<1>1. Enter("peek", <<>>, 1) /\ UNCHANGED <<appended, acked, ckpt>>
  BY DEF HeartbeatAck, walVars
<1>2. conn \in Slots /\ Sent = 1
  BY SenderFacts DEF HeartbeatAck, LoopInv, Sent
<1>3. QED
  BY <1>1, <1>2, SenderFacts, TakeInv DEF HeartbeatAck

\* The round goes on: every response, call and frame moves up by one.
LEMMA TakeNextInv ==
    ASSUME DeliveryInv, UNCHANGED <<serverVars, receiverVars, faults>>,
           conn \in Slots, acks[conn] # <<>>,
           acks' = [acks EXCEPT ![conn] = Tail(@)],
           UNCHANGED <<conn, sOpen, wire, appended, win>>,
           First' = First + 1, Sent' = Sent - 1, phase' = "wait",
           SenderTypeOK', LoopInv', 1 .. acked' \subseteq Settled
    PROVE  DeliveryInv'
<1>1. LinkInv' /\ AcksKept /\ UNCHANGED <<order, dataIdx>> /\ acks'[conn] = Tail(acks[conn])
  BY SenderFacts, TakeKeeps
<1>2. PICK q : q = Tail(acks[conn])
  OBVIOUS
<1>3. PICK a \in Nat, b \in Nat, n \in Nat, m \in Nat :
          /\ a + 1 = Len(acks[conn]) /\ b = Len(order[conn]) /\ n = Len(wire[conn])
          /\ m = Sent /\ Len(q) = a
          /\ \A i \in 1 .. a : q[i] = acks[conn][i + 1]
  <2>1. /\ acks[conn] \in Seq(Answers) /\ Len(acks[conn]) >= 1
        /\ Len(q) = Len(acks[conn]) - 1
        /\ \A i \in 1 .. Len(acks[conn]) - 1 : q[i] = acks[conn][i + 1]
    BY <1>2, SenderFacts, SlotTypes, QueueTail, SMTT(30)
  <2>2. PICK k \in Nat : k = Len(acks[conn])
    BY ConnLengths
  <2>3. k >= 1
    BY <2>1, <2>2
  <2>4. k - 1 \in Nat /\ k - 1 + 1 = k
    BY <2>3
  <2>5. QED
    BY <2>1, <2>2, <2>4, ConnLengths, SentType
<1>4. /\ a + 1 + b + n <= m /\ (sOpen[conn] => a + 1 + b + n = m)
  BY <1>3, ConnLengths, Zenon
<1>5. ASSUME NEW i \in Nat PROVE Due(i)' = Due(i + 1)
  <2>1. PICK f \in Nat : f = First
    BY SentType
  <2>2. f + 1 + i - 1 = f + (i + 1) - 1
    OBVIOUS
  <2>3. QED
    BY <2>1, <2>2 DEF Due
<1>6. Counts'
  <2>1. a + b + n <= m - 1 /\ (sOpen[conn] => a + b + n = m - 1)
    BY <1>4
  <2>2. Under' = a + b + n
    BY <1>1, <1>2, <1>3 DEF Under
  <2>3. QED
    BY <1>3, <2>1, <2>2 DEF Counts
<1>7. AckRow /\ CallRow /\ WireRow /\ UNCHANGED call
  BY SenderFacts DEF ConnInv, receiverVars
<1>8. /\ acks'[conn'] = q /\ Len(acks'[conn']) = a
      /\ order'[conn'] = order[conn] /\ Len(order'[conn']) = b
      /\ wire'[conn'] = wire[conn] /\ Len(wire'[conn']) = n
  BY <1>1, <1>2, <1>3
<1>9. AckRow'
  <2>1. ASSUME NEW i \in 1 .. a, q[i].ok PROVE q[i].seq = Due(i)'
    <3>1. i + 1 \in 1 .. Len(acks[conn])
      BY <1>3
    <3>2. Due(i)' = Due(i + 1)
      BY <1>5
    <3>3. QED
      BY <1>3, <1>7, <2>1, <3>1, <3>2 DEF AckRow
  <2>2. QED
    BY <1>8, <2>1 DEF AckRow
<1>10. CallRow'
  <2>1. ASSUME NEW i \in 1 .. b PROVE call[order[conn][i]].seq = Due(a + i)'
    <3>1. a + 1 + i = a + i + 1 /\ a + i \in Nat
      OBVIOUS
    <3>2. Due(a + i)' = Due(a + i + 1)
      BY <1>5, <3>1
    <3>3. QED
      BY <1>3, <1>7, <3>1, <3>2 DEF CallRow
  <2>2. QED
    BY <1>7, <1>8, <2>1 DEF CallRow
<1>11. WireRow'
  <2>1. ASSUME NEW i \in 1 .. n PROVE wire[conn][i] = Due(a + b + i)'
    <3>1. a + 1 + b + i = a + b + i + 1 /\ a + b + i \in Nat
      OBVIOUS
    <3>2. Due(a + b + i)' = Due(a + b + i + 1)
      BY <1>5, <3>1
    <3>3. QED
      BY <1>3, <1>7, <3>1, <3>2 DEF WireRow
  <2>2. QED
    BY <1>8, <2>1 DEF WireRow
<1>12. ConnInv'
  BY <1>6, <1>9, <1>10, <1>11 DEF ConnInv, Uncounted
<1>13. QED
  BY <1>1, <1>12, SenderFacts, SenderMove

\* The response taken is the one to the head frame, so what it commits is settled.
LEMMA AckSuccessInv ==
    ASSUME DeliveryInv, AckSuccess, UNCHANGED <<serverVars, receiverVars, faults>>
    PROVE  DeliveryInv'
<1>1. /\ phase = "wait" /\ acks[conn] # <<>> /\ Head(acks[conn]).ok
      /\ acks' = [acks EXCEPT ![conn] = Tail(@)] /\ UNCHANGED <<appended, conn, sOpen, wire>>
      /\ Commit(win[pos])
      /\ \/ pos < Len(win) /\ Enter("wait", win, pos + 1)
         \/ ~(pos < Len(win)) /\ Enter("peek", <<>>, 1)
  BY DEF AckSuccess
<1>2. /\ conn \in Slots /\ First = pos /\ pos \in 1 .. Len(win)
      /\ win[pos] = acked + 1 /\ Sent = Len(win) - pos + 1
      /\ acked + Len(win) - pos + 1 <= appended
      /\ \A i \in 1 .. Len(win) : win[i] = acked + i - pos + 1
  <2>1. /\ First = pos /\ Sent = Len(win) - pos + 1 /\ conn \in Slots /\ pos <= Len(win)
        /\ \A i \in 1 .. Len(win) : win[i] = acked + i - pos + 1
        /\ acked + Len(win) - pos + 1 <= appended
    BY <1>1, SenderFacts DEF LoopInv, First, Sent
  <2>2. pos \in 1 .. Len(win) /\ acked + pos - pos + 1 = acked + 1
    <3>1. pos \in Nat \ {0} /\ Len(win) \in Nat /\ acked \in Nat /\ pos <= Len(win)
      BY <2>1, SenderFacts
    <3>2. QED
      BY <3>1
  <2>3. win[pos] = acked + 1
    BY <2>1, <2>2
  <2>4. QED
    BY <2>1, <2>2, <2>3
<1>3. Head(acks[conn]).seq = acked + 1
  <2>1. 1 \in 1 .. Len(acks[conn]) /\ Head(acks[conn]) = acks[conn][1]
    <3>1. Len(acks[conn]) \in Nat /\ Len(acks[conn]) >= 1 /\ Head(acks[conn]) = acks[conn][1]
      BY <1>1, <1>2, SenderFacts, SlotTypes, QueueTail, ZenonT(60)
    <3>2. QED
      BY <3>1
  <2>2. acks[conn][1].seq = Due(1)
    BY <1>1, <1>2, <2>1, SenderFacts DEF ConnInv, AckRow
  <2>3. pos + 1 - 1 = pos
    BY SenderFacts
  <2>4. QED
    BY <1>2, <2>1, <2>2, <2>3 DEF Due
<1>4. acked + 1 \in Settled
  <2>1. 1 \in 1 .. Len(acks[conn]) /\ Head(acks[conn]) = acks[conn][1]
    <3>1. Len(acks[conn]) \in Nat /\ Len(acks[conn]) >= 1 /\ Head(acks[conn]) = acks[conn][1]
      BY <1>1, <1>2, SenderFacts, SlotTypes, QueueTail, ZenonT(60)
    <3>2. QED
      BY <3>1
  <2>2. acked + 1 \in Settled \cup {Heartbeat}
    BY <1>1, <1>2, <1>3, <2>1 DEF DeliveryInv, ConfirmedInv
  <2>3. acked + 1 # Heartbeat
    BY SenderFacts
  <2>4. QED
    BY <2>2, <2>3
<1>5. acked' = acked + 1 /\ ckpt' \in {ckpt, acked + 1}
  BY <1>1, <1>2 DEF Commit
<1>6. 1 .. acked' \subseteq Settled
  BY <1>4, <1>5, SenderFacts
<1>7. PICK n \in Nat, p \in Nat \ {0}, k \in Nat, a \in Nat, t \in Nat :
          n = Len(win) /\ p = pos /\ k = Pipeline /\ a = acked /\ t = appended
  BY SenderFacts
<1>8. n <= k /\ p <= n /\ a + n - p + 1 <= t /\ Sent = n - p + 1
  BY <1>2, <1>7, SenderFacts
<1>9. acked' \in 0 .. appended /\ ckpt' \in 0 .. acked'
  BY <1>5, <1>7, <1>8, SenderFacts, SMTT(30)
<1>10. CASE pos < Len(win)
  <2>1. phase' = "wait" /\ win' = win /\ pos' = pos + 1
    BY <1>1, <1>10 DEF Enter
  <2>2. First' = First + 1 /\ p < n /\ pos' = p + 1 /\ acked' = a + 1 /\ First' = p + 1
    BY <1>2, <1>5, <1>7, <1>10, <2>1 DEF First
  <2>3. Sent' = Sent - 1
    <3>1. Sent' = n - (p + 1) + 1
      BY <1>7, <2>1, <2>2 DEF Sent
    <3>2. QED
      BY <1>8, <3>1
  <2>4. SenderTypeOK'
    BY <1>1, <1>7, <1>8, <1>9, <2>1, <2>2, SenderFacts DEF SenderTypeOK
  <2>5. LoopInv'
    <3>1. p + 1 <= n /\ a + 1 + n - (p + 1) + 1 <= t
      BY <1>8, <2>2
    <3>2. ASSUME NEW i \in 1 .. n PROVE win[i] = a + 1 + i - (p + 1) + 1
      <4>1. win[i] = a + i - p + 1
        BY <1>2, <1>7
      <4>2. a + i - p + 1 = a + 1 + i - (p + 1) + 1
        OBVIOUS
      <4>3. QED
        BY <4>1, <4>2
    <3>3. QED
      BY <1>1, <1>2, <1>7, <2>1, <2>2, <3>1, <3>2 DEF LoopInv
  <2>6. QED
    BY <1>1, <1>2, <1>6, <2>1, <2>2, <2>3, <2>4, <2>5, TakeNextInv
<1>11. CASE ~(pos < Len(win))
  <2>1. Sent = 1
    BY <1>7, <1>8, <1>11
  <2>2. QED
    BY <1>1, <1>2, <1>6, <1>9, <1>11, <2>1, TakeInv
<1>12. QED
  BY <1>10, <1>11

\* The round ends with the connection.
LEMMA HangupInv ==
    ASSUME DeliveryInv, UNCHANGED <<serverVars, receiverVars, appended>>,
           faults' \in 0 .. MaxFaults, Hangup, SenderTypeOK', LoopInv', acked' \in 0 .. acked
    PROVE  DeliveryInv'
<1>1. LinkInv' /\ conn' = NoConn /\ UNCHANGED wire /\ AcksKept
  BY SenderFacts, HangupKeeps
<1>2. ConnInv'
  BY <1>1, SenderFacts DEF ConnInv
<1>3. 1 .. acked' \subseteq Settled
  BY SenderFacts
<1>4. QED
  BY <1>1, <1>2, <1>3, SenderFacts, SenderMove

LEMMA PeekLoop ==
    ASSUME DeliveryInv, Enter("peek", <<>>, 1), appended' = appended,
           acked' \in 0 .. appended, ckpt' \in 0 .. acked'
    PROVE  SenderTypeOK' /\ LoopInv'
BY SenderFacts, EmptyQueue DEF SenderTypeOK, LoopInv, Enter

\* What is left of a round that failed follows the head of the WAL.
LEMMA AfterFailureLoop ==
    ASSUME DeliveryInv, Orderly, phase = "wait" \/ (phase = "send" /\ (pos = 1 \/ LateSendFails)),
           AfterFailure, UNCHANGED walVars
    PROVE  SenderTypeOK' /\ LoopInv'
<1>1. CASE Pipeline = 1
  <2>1. Enter("peek", <<>>, 1) /\ UNCHANGED <<appended, acked, ckpt>>
    BY <1>1 DEF AfterFailure, walVars
  <2>2. acked' \in 0 .. appended /\ ckpt' \in 0 .. acked'
    BY <2>1, SenderFacts
  <2>3. QED
    BY <2>1, <2>2, PeekLoop
<1>2. CASE Pipeline # 1
  <2>1. phase' = "redial" /\ win' = Rest /\ pos' = 1 /\ UNCHANGED <<appended, acked, ckpt>>
    BY <1>2 DEF AfterFailure, Enter, walVars
  <2>2. First = pos
    BY <1>2 DEF Orderly, First
  <2>3. /\ pos <= Len(win) /\ \A i \in 1 .. Len(win) : win[i] = acked + i - pos + 1
        /\ acked + Len(win) - pos + 1 <= appended
    BY <2>2, SenderFacts DEF LoopInv
  <2>4. PICK n \in Nat, p \in Nat \ {0}, k \in Nat, a \in Nat :
            n = Len(win) /\ p = pos /\ k = Pipeline /\ a = acked
    BY SenderFacts
  <2>5. p <= n /\ n <= k
    BY <2>3, <2>4, SenderFacts
  <2>6. PICK r : r = SubSeq(win, p, n)
    OBVIOUS
  <2>7. /\ r \in Seq(0 .. LastFrame) /\ Len(r) = n - p + 1
        /\ \A i \in 1 .. n - p + 1 : r[i] = win[p + i - 1]
    <3>1. \A i \in 1 .. n : win[i] \in 0 .. LastFrame
      BY <2>4, SenderFacts, QueueFacts
    <3>2. \A i \in p .. n : win[i] \in 0 .. LastFrame
      BY <3>1
    <3>3. /\ SubSeq(win, p, n) \in Seq(0 .. LastFrame)
          /\ Len(SubSeq(win, p, n)) = IF p <= n THEN n - p + 1 ELSE 0
          /\ \A i \in 1 .. n - p + 1 : SubSeq(win, p, n)[i] = win[p + i - 1]
      BY <3>2, SubSeqProperties
    <3>4. QED
      BY <2>5, <2>6, <3>3
  <2>8. ASSUME NEW i \in 1 .. n - p + 1 PROVE r[i] = a + i - 1 + 1
    <3>1. p + i - 1 \in 1 .. n
      BY <2>5
    <3>2. win[p + i - 1] = a + (p + i - 1) - p + 1
      BY <2>3, <2>4, <3>1
    <3>3. a + (p + i - 1) - p + 1 = a + i - 1 + 1
      OBVIOUS
    <3>4. QED
      BY <2>7, <3>2, <3>3
  <2>9. win' = r /\ First' = 1
    BY <2>1, <2>4, <2>6 DEF Rest, First
  <2>10. 1 <= n - p + 1 /\ n - p + 1 <= k
    BY <2>5
  <2>11. SenderTypeOK'
    BY <2>1, <2>4, <2>7, <2>9, <2>10, SenderFacts DEF SenderTypeOK
  <2>12. a + (n - p + 1) - 1 + 1 <= appended
    <3>1. a + n - p + 1 <= appended /\ appended \in Nat
      BY <2>3, <2>4, SenderFacts
    <3>2. QED
      BY <3>1
  <2>13. LoopInv'
    BY <2>1, <2>4, <2>7, <2>8, <2>9, <2>10, <2>12 DEF LoopInv
  <2>14. QED
    BY <2>11, <2>13
<1>3. QED
  BY <1>1, <1>2

LEMMA FailInv ==
    ASSUME DeliveryInv, Orderly, phase = "wait" \/ (phase = "send" /\ (pos = 1 \/ LateSendFails)),
           AfterFailure, Hangup, UNCHANGED <<walVars, serverVars, receiverVars>>,
           faults' \in 0 .. MaxFaults
    PROVE  DeliveryInv'
<1>1. SenderTypeOK' /\ LoopInv'
  BY AfterFailureLoop
<1>2. appended' = appended /\ acked' \in 0 .. acked
  BY SenderFacts DEF walVars
<1>3. QED
  BY <1>1, <1>2, HangupInv

\* The round or the heartbeat is given up with the connection; a restart.
LEMMA GiveUpInv ==
    ASSUME DeliveryInv, Enter("peek", <<>>, 1), Hangup,
           UNCHANGED <<appended, serverVars, receiverVars>>, faults' \in 0 .. MaxFaults,
           acked' \in 0 .. acked, ckpt' \in 0 .. acked'
    PROVE  DeliveryInv'
<1>1. acked' \in 0 .. appended
  BY SenderFacts
<1>2. SenderTypeOK' /\ LoopInv'
  BY <1>1, PeekLoop
<1>3. QED
  BY <1>2, HangupInv

LEMMA AckFailInv ==
    ASSUME DeliveryInv, Orderly, AckFail, UNCHANGED <<serverVars, receiverVars, faults>>
    PROVE  DeliveryInv'
<1>1. CASE Pipeline = 1
  <2>1. /\ Enter("peek", <<>>, 1) /\ UNCHANGED <<appended, acked, ckpt>>
        /\ phase = "wait" /\ acks[conn] # <<>>
        /\ acks' = [acks EXCEPT ![conn] = Tail(@)] /\ UNCHANGED <<conn, sOpen, wire>>
    BY <1>1 DEF AckFail, AfterFailure, walVars
  <2>2. conn \in Slots /\ pos <= Len(win) /\ Sent = Len(win) - pos + 1
    BY <2>1, SenderFacts DEF LoopInv, Sent
  <2>3. Len(win) \in Nat /\ pos \in Nat \ {0} /\ Len(win) <= 1
    BY <1>1, SenderFacts
  <2>4. Sent = 1
    BY <2>2, <2>3
  <2>5. acked' \in 0 .. appended /\ ckpt' \in 0 .. acked' /\ 1 .. acked' \subseteq Settled
    BY <2>1, SenderFacts
  <2>6. QED
    BY <2>1, <2>2, <2>4, <2>5, TakeInv
<1>2. CASE Pipeline # 1
  BY <1>2, SenderFacts, FailInv DEF AckFail
<1>3. QED
  BY <1>1, <1>2

LEMMA AckEOFInv ==
    ASSUME DeliveryInv, Orderly, AckEOF, UNCHANGED <<serverVars, receiverVars, faults>>
    PROVE  DeliveryInv'
<1>1. CASE phase = "beat"
  <2>1. /\ Enter("peek", <<>>, 1) /\ Hangup /\ appended' = appended
        /\ acked' \in 0 .. acked /\ ckpt' \in 0 .. acked'
    BY <1>1, SenderFacts DEF AckEOF, walVars
  <2>2. QED
    BY <2>1, SenderFacts, GiveUpInv
<1>2. CASE phase # "beat"
  BY <1>2, SenderFacts, FailInv DEF AckEOF
<1>3. QED
  BY <1>1, <1>2

LEMMA SenderFaultInv ==
    ASSUME DeliveryInv, Orderly, SenderFault, faults' \in 0 .. MaxFaults
    PROVE  DeliveryInv'
<1>1. UNCHANGED <<serverVars, receiverVars>>
  BY DEF SenderFault
<1>2. CASE SendFails
  BY <1>1, <1>2, FailInv DEF SendFails
<1>3. CASE AckTimeout
  BY <1>1, <1>3, FailInv DEF AckTimeout
<1>4. CASE HeartbeatFails
  <2>1. /\ Enter("peek", <<>>, 1) /\ Hangup /\ appended' = appended
        /\ acked' \in 0 .. acked /\ ckpt' \in 0 .. acked'
    BY <1>4, SenderFacts DEF HeartbeatFails, walVars
  <2>2. QED
    BY <1>1, <2>1, GiveUpInv
<1>5. CASE CrashSender
  <2>1. /\ Enter("peek", <<>>, 1) /\ Hangup /\ appended' = appended
        /\ acked' \in 0 .. acked /\ ckpt' \in 0 .. acked'
    BY <1>5, SenderFacts DEF CrashSender
  <2>2. QED
    BY <1>1, <2>1, GiveUpInv
<1>6. CASE DialRefused
  <2>1. Dial(FALSE) /\ phase \in {"peek", "redial"} /\ UNCHANGED senderVars
    BY <1>6 DEF DialRefused
  <2>2. UNCHANGED <<appended, acked, ckpt, phase, win, pos, walVars>>
    BY <2>1 DEF senderVars, walVars
  <2>3. LinkInv' /\ conn' \in Slots /\ UNCHANGED <<wire, acks>> /\ Quiet(conn)'
    BY <1>1, <2>1, SenderFacts, DialKeeps
  <2>4. SenderTypeOK'
    BY <2>2, SenderFacts DEF SenderTypeOK
  <2>5. LoopInv'
    <3>1. First' = First
      BY <2>2 DEF First
    <3>2. QED
      BY <2>1, <2>2, <3>1, SenderFacts DEF LoopInv
  <2>6. Sent' = 0 /\ phase' # "send"
    BY <2>1, <2>2 DEF Sent
  <2>7. QED
    BY <1>1, <2>2, <2>3, <2>4, <2>5, <2>6, StartInv
<1>7. QED
  BY <1>2, <1>3, <1>4, <1>5, <1>6 DEF SenderFault

\* The sender's connection when nothing happens on it.
LEMMA ConnKept ==
    ASSUME ConnInv, UNCHANGED <<conn, phase, win, pos>>,
           conn \in Slots =>
               /\ sOpen'[conn] = sOpen[conn] /\ wire'[conn] = wire[conn]
               /\ acks'[conn] = acks[conn] /\ order'[conn] = order[conn]
               /\ dataIdx'[conn] = dataIdx[conn]
               /\ \A i \in 1 .. Len(order[conn]) :
                      call'[order[conn][i]].seq = call[order[conn][i]].seq
    PROVE  ConnInv'
<1> SUFFICES ASSUME conn \in Slots
             PROVE  (Counts /\ AckRow /\ CallRow /\ WireRow /\ Uncounted)'
  BY DEF ConnInv
<1>1. Sent' = Sent /\ \A i : Due(i)' = Due(i)
  BY DEF Sent, Due, First
<1>2. Counts /\ AckRow /\ CallRow /\ WireRow /\ Uncounted
  BY DEF ConnInv
<1>3. Counts' /\ AckRow' /\ WireRow' /\ Uncounted'
  BY <1>1, <1>2 DEF Counts, Under, AckRow, WireRow, Uncounted
<1>4. CallRow'
  BY <1>1, <1>2 DEF CallRow
<1>5. QED
  BY <1>3, <1>4

LEMMA PollInv ==
    ASSUME DeliveryInv, Poll
    PROVE  DeliveryInv'
<1>1. /\ appended' = appended + 1 /\ appended < LastFrame
      /\ UNCHANGED <<acked, ckpt, phase, win, pos, linkVars, serverVars, receiverVars, faults>>
      /\ UNCHANGED <<conn, sOpen, wire, acks, order, dataIdx, call>>
  BY DEF Poll, AppendFrame, linkVars, serverVars, receiverVars
<1>2. LinkInv'
  BY <1>1, SenderFacts DEF LinkInv, LinkTypeOK, ServerTypeOK, SlotInv
<1>3. SenderTypeOK'
  BY <1>1, SenderFacts DEF SenderTypeOK
<1>4. LoopInv'
  <2>1. First' = First
    BY <1>1 DEF First
  <2>2. PICK e : e = acked + Len(win) - First + 1
    OBVIOUS
  <2>3. phase \in {"send", "wait", "redial"} => e <= appended'
    <3>1. phase \in {"send", "wait", "redial"} => e <= appended
      BY <2>2, SenderFacts DEF LoopInv
    <3>2. e \in Int /\ appended \in Nat /\ appended' \in Nat
      BY <1>1, <2>2, SenderFacts, SentType, SMTT(30)
    <3>3. QED
      BY <1>1, <3>1, <3>2
  <2>4. QED
    BY <1>1, <2>1, <2>2, <2>3, SenderFacts DEF LoopInv
<1>5. ConnInv'
  BY <1>1, SenderFacts, ConnKept
<1>6. AcksKept
  BY <1>1 DEF AcksKept
<1>7. appended' \in Nat /\ appended' >= appended
  BY <1>1, SenderFacts
<1>8. QED
  BY <1>1, <1>2, <1>3, <1>4, <1>5, <1>6, <1>7, SenderFacts, SenderMove
-----------------------------------------------------------------------------
(***************************************************************************)
(* The server's steps.                                                     *)
(***************************************************************************)

\* What is left to show of a step that is not the sender's.
LEMMA ServerMove ==
    ASSUME DeliveryInv, UNCHANGED senderVars, conn' = conn, faults' \in 0 .. MaxFaults,
           LinkInv', ReceiverInv', ConnInv', OrderInv', CarriedInv', ConfirmedInv'
    PROVE  DeliveryInv'
<1>1. UNCHANGED <<appended, acked, ckpt, phase, win, pos>>
  BY DEF senderVars, walVars
<1>2. TypeOK'
  BY <1>1 DEF DeliveryInv, TypeOK, LinkInv, ReceiverInv, SenderTypeOK
<1>3. LoopInv'
  <2>1. First' = First
    BY <1>1 DEF First
  <2>2. QED
    BY <1>1, <2>1 DEF DeliveryInv, LoopInv
<1>4. QED
  BY <1>2, <1>3 DEF DeliveryInv, LinkInv

LEMMA ServerFacts ==
    ASSUME DeliveryInv
    PROVE  /\ LinkInv /\ ReceiverInv /\ ConnInv /\ OrderInv /\ CarriedInv /\ ConfirmedInv
           /\ call \in [Calls -> CallRecords] /\ faults \in 0 .. MaxFaults
           /\ \A h \in Calls : MayBeSent(call[h].seq) /\ CallKnows(h)
           /\ \A c \in Slots : WireInv(c) /\ SlotInv(c)
           /\ MaxSeq = LastFrame /\ Heartbeat = 0 /\ MayBeSent(0)
<1>1. MayBeSent(0)
  BY SenderFacts DEF MayBeSent
<1>2. QED
  BY <1>1, SenderFacts, DeliveryConstants
     DEF DeliveryInv, CarriedInv, ReceiverInv, ReceiverTypeOK, CallSafe, LinkInv

\* A step that is not the sender's and writes nothing to the databases.
LEMMA ServerSame ==
    ASSUME UNCHANGED senderVars, UNCHANGED databaseVars
    PROVE  /\ UNCHANGED <<appended, acked, phase, win, pos>>
           /\ Sent' = Sent /\ First' = First /\ \A i : Due(i)' = Due(i)
           /\ Settled' = Settled /\ Delivered' = Delivered /\ Sendable' = Sendable
           /\ \A s : MayBeSent(s)' = MayBeSent(s)
<1>1. UNCHANGED <<appended, acked, phase, win, pos, stored, dlq, relayed, relayLost>>
  BY DEF senderVars, walVars, databaseVars
<1>2. Sent' = Sent /\ First' = First /\ \A i : Due(i)' = Due(i)
  BY <1>1 DEF Sent, First, Due
<1>3. Settled' = Settled /\ Delivered' = Delivered /\ Sendable' = Sendable
  BY <1>1 DEF Settled, Delivered, Sendable
<1>4. \A s : MayBeSent(s)' = MayBeSent(s)
  BY <1>1, <1>3 DEF MayBeSent
<1>5. QED
  BY <1>1, <1>2, <1>3, <1>4

\* Responses that are confirmed by what was settled before.
LEMMA ConfirmedKept ==
    ASSUME ConfirmedInv, UNCHANGED senderVars, Settled \subseteq Settled',
           Delivered' \subseteq 1 .. appended,
           \A c \in Slots : \A i \in 1 .. Len(acks'[c]) : acks'[c][i].ok =>
               acks'[c][i].seq \in Settled \cup {Heartbeat}
    PROVE  ConfirmedInv'
BY DEF ConfirmedInv, senderVars, walVars

\* Connections that await the same calls, or none.
LEMMA OrderKept ==
    ASSUME OrderInv, \A d \in Slots : order'[d] = <<>> \/ order'[d] = order[d],
           \A d \in Slots : \A i \in 1 .. Len(order[d]) :
               call[order[d][i]].pc # "free" => call'[order[d][i]].pc # "free"
    PROVE  OrderInv'
<1> SUFFICES ASSUME NEW c \in Slots, NEW i \in 1 .. Len(order'[c])
             PROVE  /\ call'[order'[c][i]].pc # "free"
                    /\ \A d \in Slots : \A j \in 1 .. Len(order'[d]) :
                          order'[d][j] = order'[c][i] => d = c /\ j = i
  BY DEF OrderInv
<1>1. \A d \in Slots : \A j \in 1 .. Len(order'[d]) : order'[d] = order[d]
  BY EmptyQueue
<1>2. QED
  BY <1>1 DEF OrderInv

\* A server's end closes; a damaged header is answered first.
LEMMA CloseInv ==
    ASSUME DeliveryInv, NEW c \in Slots, CloseServerEnd(c),
           UNCHANGED <<senderVars, receiverVars>>, faults' \in 0 .. MaxFaults,
           \/ acks' = acks
           \/ /\ c = conn /\ wire[c] # <<>>
              /\ acks' = [acks EXCEPT ![c] = Append(@, Ack(Head(wire[c]), FALSE))]
    PROVE  DeliveryInv'
<1>1. /\ conn' = conn
      /\ \A d \in Slots : /\ sOpen'[d] = (IF d = c THEN FALSE ELSE sOpen[d])
                          /\ wire'[d] = (IF d = c THEN <<>> ELSE wire[d])
                          /\ order'[d] = (IF d = c THEN <<>> ELSE order[d])
                          /\ dataIdx'[d] = (IF d = c THEN 0 ELSE dataIdx[d])
      /\ sOpen' \in [Slots -> BOOLEAN] /\ wire' \in [Slots -> Seq(0 .. LastFrame)]
      /\ order' \in [Slots -> Seq(Calls)] /\ dataIdx' \in [Slots -> {0, 1}]
  BY ServerFacts, LinkTypes, EmptyQueue DEF CloseServerEnd
<1>2. PICK q \in Seq(Answers) : q = acks[c]
  BY ServerFacts, SlotTypes
<1>3. PICK r \in Seq(Answers) :
          /\ r = acks'[c] /\ Len(q) \in Nat
          /\ \/ r = q
             \/ c = conn /\ wire[c] # <<>> /\ Len(r) = Len(q) + 1 /\ ~r[Len(q) + 1].ok
          /\ \A i \in 1 .. Len(q) : r[i] = q[i]
          /\ \A d \in Slots \ {c} : acks'[d] = acks[d]
          /\ acks' \in [Slots -> Seq(Answers)]
  <2>1. acks \in [Slots -> Seq(Answers)] /\ Len(q) \in Nat
    BY ServerFacts, LinkTypes, QueueFacts
  <2>2. CASE acks' = acks
    BY <1>2, <2>1, <2>2
  <2>3. CASE /\ c = conn /\ wire[c] # <<>>
             /\ acks' = [acks EXCEPT ![c] = Append(@, Ack(Head(wire[c]), FALSE))]
    <3>1. PICK e \in Answers : e = Ack(Head(wire[c]), FALSE) /\ ~e.ok
      <4>1. Head(wire[c]) \in 0 .. LastFrame
        BY <2>3, ServerFacts, SlotTypes, QueueTail
      <4>2. Ack(Head(wire[c]), FALSE) \in Answers /\ ~Ack(Head(wire[c]), FALSE).ok
        BY <4>1 DEF Ack, Answers
      <4>3. QED
        BY <4>2
    <3>2. /\ Append(q, e) \in Seq(Answers) /\ Len(Append(q, e)) = Len(q) + 1
          /\ \A i \in 1 .. Len(q) : Append(q, e)[i] = q[i]
          /\ Append(q, e)[Len(q) + 1] = e
      BY QueueAppend
    <3>3. /\ acks'[c] = Append(q, e) /\ acks' \in [Slots -> Seq(Answers)]
          /\ \A d \in Slots \ {c} : acks'[d] = acks[d]
      BY <1>2, <2>1, <2>3, <3>1, <3>2
    <3>4. QED
      BY <2>1, <2>3, <3>1, <3>2, <3>3, ZenonT(60)
  <2>4. QED
    BY <2>2, <2>3
<1>4. LinkInv'
  <2>1. LinkTypeOK(0 .. LastFrame)' /\ ServerTypeOK'
    BY <1>1, <1>3, ServerFacts, LinkTypes DEF LinkTypeOK, ServerTypeOK, Answers
  <2>2. ASSUME NEW d \in Slots PROVE SlotInv(d)'
    <3>1. SlotInv(d)
      BY ServerFacts
    <3>2. d # conn => acks'[d] = acks[d]
      BY <1>2, <1>3
    <3>3. QED
      BY <1>1, <3>1, <3>2 DEF SlotInv
  <2>3. QED
    BY <2>1, <2>2 DEF LinkInv
<1>5. UNCHANGED <<call, databaseVars, phase, win, pos>>
  BY DEF receiverVars, senderVars
<1>6. ReceiverInv'
  <2>1. Settled' = Settled
    BY <1>5, ServerSame
  <2>2. QED
    BY <1>5, <2>1, ServerFacts DEF receiverVars, databaseVars, ReceiverInv, ReceiverTypeOK,
       Vouched, CallSafe, CallKnows, Authorised
<1>7. ConnInv'
  <2>1. CASE c = conn
    <3>1. Len(wire'[conn']) = 0 /\ Len(order'[conn']) = 0 /\ ~sOpen'[conn'] /\ acks'[conn'] = r
      BY <1>1, <1>3, <2>1, EmptyQueue
    <3>2. PICK a \in Nat, b \in Nat, n \in Nat :
              /\ a = Len(q) /\ b = Len(order[conn]) /\ n = Len(wire[conn])
              /\ (wire[conn] = <<>> <=> n = 0)
      BY <1>2, <1>3, <2>1, ServerFacts, SlotTypes
    <3>3. a + b + n <= Sent
      BY <1>2, <2>1, <3>2, ConnLengths, Zenon
    <3>4. Len(r) = a \/ (n # 0 /\ Len(r) = a + 1)
      BY <1>3, <2>1, <3>2
    <3>5. Len(r) \in Nat /\ Len(r) <= Sent
      BY <3>3, <3>4, SentType
    <3>6. Counts'
      <4>1. Under' = Len(r) /\ Sent' = Sent
        BY <1>5, <3>1, <3>5, ServerSame DEF Under
      <4>2. QED
        BY <3>1, <3>5, <4>1 DEF Counts
    <3>7. AckRow'
      <4>1. ASSUME NEW i \in 1 .. Len(r), r[i].ok PROVE r[i].seq = Due(i)
        <5>1. i \in 1 .. a /\ Len(acks[conn]) = a /\ r[i] = acks[conn][i]
          <6>1. CASE r = q
            BY <1>2, <2>1, <3>2, <4>1, <6>1
          <6>2. CASE r # q
            <7>1. Len(r) = a + 1 /\ ~r[a + 1].ok
              BY <1>3, <3>2, <6>2
            <7>2. i \in 1 .. a
              BY <4>1, <7>1
            <7>3. QED
              BY <1>2, <1>3, <2>1, <3>2, <7>2
          <6>3. QED
            BY <6>1, <6>2
        <5>2. QED
          BY <2>1, <4>1, <5>1, ServerFacts DEF ConnInv, AckRow
      <4>2. QED
        BY <1>5, <3>1, <4>1, ServerSame DEF AckRow
    <3>8. CallRow' /\ WireRow' /\ Uncounted'
      BY <3>1 DEF CallRow, WireRow, Uncounted
    <3>9. QED
      BY <3>6, <3>7, <3>8 DEF ConnInv
  <2>2. CASE c # conn
    BY <1>1, <1>3, <1>5, <2>2, ServerFacts, ConnKept
  <2>3. QED
    BY <2>1, <2>2
<1>8. OrderInv'
  BY <1>1, <1>5, ServerFacts, OrderKept
<1>9. CarriedInv'
  <2>1. ASSUME NEW d \in Slots PROVE WireInv(d)'
    <3>1. WireInv(d) /\ Sendable' = Sendable /\ \A s : MayBeSent(s)' = MayBeSent(s)
      BY <1>5, ServerFacts, ServerSame
    <3>2. CASE d = c
      <4>1. wire'[d] = <<>> /\ Len(wire'[d]) = 0
        BY <1>1, <3>2, EmptyQueue
      <4>2. QED
        BY <4>1 DEF WireInv
    <3>3. CASE d # c
      BY <1>1, <3>1, <3>3 DEF WireInv
    <3>4. QED
      BY <3>2, <3>3
  <2>2. QED
    BY <1>5, <2>1, ServerFacts, ServerSame DEF CarriedInv
<1>10. ConfirmedInv'
  <2>1. ASSUME NEW d \in Slots, NEW i \in 1 .. Len(acks'[d]), acks'[d][i].ok
        PROVE  acks'[d][i].seq \in Settled \cup {Heartbeat}
    <3>1. acks[d] \in Seq(Answers) /\ Len(acks[d]) \in Nat
      BY ServerFacts, SlotTypes
    <3>2. CASE d # c \/ r = q
      BY <1>2, <1>3, <2>1, <3>2, ServerFacts DEF ConfirmedInv
    <3>3. CASE d = c /\ r # q
      <4>1. Len(r) = Len(q) + 1 /\ ~r[Len(q) + 1].ok /\ i \in 1 .. Len(r) /\ r[i].ok
        BY <1>3, <2>1, <3>3
      <4>2. i \in 1 .. Len(q)
        BY <1>3, <4>1
      <4>3. QED
        BY <1>2, <1>3, <3>3, <4>1, <4>2, ServerFacts DEF ConfirmedInv
    <3>4. QED
      BY <3>2, <3>3
  <2>2. Settled' = Settled /\ Delivered' = Delivered
    BY <1>5, ServerSame
  <2>3. QED
    BY <2>1, <2>2, ServerFacts, ConfirmedKept DEF ConfirmedInv
<1>11. QED
  BY <1>1, <1>4, <1>6, <1>7, <1>8, <1>9, <1>10, ServerMove

LEMMA ServerClosesInv ==
    ASSUME DeliveryInv, NEW c \in Slots, PeerGone(c) \/ ServerDrops(c) \/ BadHeader(c),
           UNCHANGED senderVars, faults' \in 0 .. MaxFaults
    PROVE  DeliveryInv'
<1>1. CASE PeerGone(c) \/ ServerDrops(c)
  BY <1>1, CloseInv DEF PeerGone, ServerDrops
<1>2. CASE BadHeader(c)
  <2>1. CASE c = conn
    BY <1>2, <2>1, CloseInv DEF BadHeader
  <2>2. CASE c # conn
    <3>1. acks' = acks
      BY <1>2, <2>2, ServerFacts, LinkTypes DEF BadHeader
    <3>2. QED
      BY <1>2, <3>1, CloseInv DEF BadHeader
  <2>3. QED
    BY <2>1, <2>2
<1>3. QED
  BY <1>1, <1>2

LEMMA ReadFrameInv ==
    ASSUME DeliveryInv, Orderly, NEW c \in Slots, ReadFrame(c), UNCHANGED <<senderVars, faults>>
    PROVE  DeliveryInv'
<1>1. PICK w \in Seq(0 .. LastFrame), o \in Seq(Calls), s \in 0 .. LastFrame :
          /\ w = wire[c] /\ o = order[c] /\ s = w[1] /\ s = Head(wire[c]) /\ MayBeSent(s)
          /\ w # <<>> /\ Len(w) >= 1
  <2>1. wire[c] \in Seq(0 .. LastFrame) /\ order[c] \in Seq(Calls) /\ wire[c] # <<>>
    BY ServerFacts, SlotTypes DEF ReadFrame
  <2>2. /\ Head(wire[c]) = wire[c][1] /\ Head(wire[c]) \in 0 .. LastFrame
        /\ Len(wire[c]) \in Nat /\ Len(wire[c]) >= 1
    BY <2>1, QueueTail, QueueFacts
  <2>3. 1 \in 1 .. Len(wire[c])
    BY <2>2
  <2>4. MayBeSent(wire[c][1])
    BY <2>3, ServerFacts DEF WireInv
  <2>5. QED
    BY <2>1, <2>2, <2>4
<1> DEFINE b == ~(Counted(s) /\ dataIdx[c] > 0)
<1>2. PICK h \in Calls :
          /\ call[h].pc = "free" /\ HandleFrame(h, s, b)
          /\ order' = [order EXCEPT ![c] = Append(@, h)]
  BY <1>1 DEF ReadFrame
<1>3. PICK v \in Seq(0 .. LastFrame), p \in Seq(Calls), n \in Nat, k \in Nat :
          /\ v = Tail(w) /\ p = Append(o, h) /\ Len(w) = n + 1 /\ Len(v) = n
          /\ Len(o) = k /\ Len(p) = k + 1
          /\ \A i \in 1 .. n : v[i] = w[i + 1]
          /\ \A i \in 1 .. k : p[i] = o[i]
          /\ p[k + 1] = h
  <2>1. /\ Tail(w) \in Seq(0 .. LastFrame) /\ Len(Tail(w)) = Len(w) - 1 /\ Len(w) \in Nat
        /\ \A i \in 1 .. Len(w) - 1 : Tail(w)[i] = w[i + 1]
    BY <1>1, QueueTail, QueueFacts
  <2>2. /\ Append(o, h) \in Seq(Calls) /\ Len(Append(o, h)) = Len(o) + 1 /\ Len(o) \in Nat
        /\ \A i \in 1 .. Len(o) : Append(o, h)[i] = o[i]
        /\ Append(o, h)[Len(o) + 1] = h
    BY QueueAppend, QueueFacts
  <2>3. PICK m \in Nat : m = Len(w) /\ m >= 1
    BY <1>1, <2>1
  <2>4. m - 1 \in Nat /\ m - 1 + 1 = m
    BY <2>3
  <2>5. QED
    BY <2>1, <2>2, <2>3, <2>4
<1>4. /\ UNCHANGED <<conn, sOpen, acks, lastSeq, tracker, inflight, lastSeqFile, databaseVars>>
      /\ sOpen[c]
      /\ \A d \in Slots : /\ wire'[d] = (IF d = c THEN v ELSE wire[d])
                          /\ order'[d] = (IF d = c THEN p ELSE order[d])
                          /\ d # c => dataIdx'[d] = dataIdx[d]
      /\ dataIdx'[c] = (IF Counted(s) THEN 1 ELSE dataIdx[c])
      /\ wire' \in [Slots -> Seq(0 .. LastFrame)] /\ order' \in [Slots -> Seq(Calls)]
      /\ dataIdx' \in [Slots -> {0, 1}]
  <2>1. /\ wire' = [wire EXCEPT ![c] = v] /\ order' = [order EXCEPT ![c] = p]
        /\ dataIdx' = [dataIdx EXCEPT ![c] = IF Counted(s) THEN 1 ELSE @]
        /\ UNCHANGED <<conn, sOpen, acks, lastSeq, tracker, inflight, lastSeqFile, databaseVars>>
        /\ sOpen[c]
    BY <1>1, <1>2, <1>3 DEF ReadFrame
  <2>2. /\ wire \in [Slots -> Seq(0 .. LastFrame)] /\ order \in [Slots -> Seq(Calls)]
        /\ dataIdx \in [Slots -> {0, 1}]
    BY ServerFacts, LinkTypes
  <2>3. QED
    BY <2>1, <2>2
<1>5. /\ s = Heartbeat => n = 0
      /\ Codec # "gzip" => Pipeline = 1
      /\ Pipeline = 1 => s \in Sendable
      /\ dataIdx[c] = 0 => s \in Sendable
      /\ Counted(s) <=> s # Heartbeat /\ Codec = "gzip"
      /\ dataIdx[c] \in {0, 1}
  <2>1. s = Heartbeat => n = 0
    <3>1. 1 \in 1 .. Len(w)
      BY <1>3
    <3>2. s = Heartbeat => Len(w) = 1
      BY <1>1, <3>1, ServerFacts DEF WireInv
    <3>3. QED
      BY <1>3, <3>2
  <2>2. (Pipeline = 1 => s \in Sendable) /\ (dataIdx[c] = 0 => s \in Sendable)
    BY <1>1, ServerFacts DEF WireInv, MayBeSent
  <2>3. QED
    BY <2>1, <2>2, ServerFacts, SlotTypes DEF Orderly, Counted
<1>6. b \in BOOLEAN /\ (b => 1 .. s - 1 \subseteq Settled)
  <2>1. b => s \in Sendable
    BY <1>5, ServerFacts, SenderFacts
  <2>2. QED
    BY <2>1 DEF Sendable
<1>7. call' = [call EXCEPT ![h] = NewCall("decode", s, b)]
  BY <1>2 DEF HandleFrame
<1> HIDE DEF b
<1>8. /\ call'[h].seq = s /\ call'[h].pc = "decode"
      /\ \A g \in Calls \ {h} : call'[g] = call[g]
  BY <1>7, ServerFacts DEF NewCall
<1>9. ReceiverInv'
  <2>1. s \in Heartbeat .. MaxSeq
    BY ServerFacts
  <2>2. QED
    BY <1>2, <1>4, <1>6, <1>7, <2>1, ServerFacts, ResetCallInv
<1>10. LinkInv'
  <2>1. LinkTypeOK(0 .. LastFrame)' /\ ServerTypeOK'
    BY <1>4, ServerFacts, LinkTypes DEF LinkTypeOK, ServerTypeOK, Answers
  <2>2. ASSUME NEW d \in Slots PROVE SlotInv(d)'
    <3>1. SlotInv(d)
      BY ServerFacts
    <3>2. QED
      BY <1>4, <3>1 DEF SlotInv
  <2>3. QED
    BY <2>1, <2>2 DEF LinkInv
<1>11. \A d \in Slots : \A i \in 1 .. Len(order[d]) :
           order[d][i] # h /\ order[d][i] \in Calls /\ call'[order[d][i]] = call[order[d][i]]
  BY <1>2, <1>8, ServerFacts, SlotTypes DEF OrderInv
<1>12. OrderInv'
  <2>1. ASSUME NEW d \in Slots, NEW i \in 1 .. Len(order'[d])
        PROVE  \/ i \in 1 .. Len(order[d]) /\ order'[d][i] = order[d][i]
               \/ d = c /\ i = k + 1 /\ order'[d][i] = h
    <3>1. CASE d # c
      BY <1>4, <2>1, <3>1
    <3>2. CASE d = c
      <4>1. i \in 1 .. k + 1 /\ order'[d] = p /\ order[d] = o
        BY <1>1, <1>3, <1>4, <2>1, <3>2
      <4>2. i \in 1 .. k \/ i = k + 1
        BY <4>1
      <4>3. QED
        BY <1>3, <3>2, <4>1, <4>2
    <3>3. QED
      BY <3>1, <3>2
  <2>2. ASSUME NEW d \in Slots, NEW i \in 1 .. Len(order'[d])
        PROVE  call'[order'[d][i]].pc # "free"
    <3>1. CASE i \in 1 .. Len(order[d]) /\ order'[d][i] = order[d][i]
      <4>1. call[order[d][i]].pc # "free"
        BY <3>1, ServerFacts DEF OrderInv
      <4>2. QED
        BY <1>11, <3>1, <4>1
    <3>2. CASE order'[d][i] = h
      BY <1>8, <3>2
    <3>3. QED
      BY <2>1, <3>1, <3>2
  <2>3. ASSUME NEW d \in Slots, NEW i \in 1 .. Len(order'[d]),
               NEW e \in Slots, NEW j \in 1 .. Len(order'[e]), order'[e][j] = order'[d][i]
        PROVE  e = d /\ j = i
    <3>1. \/ i \in 1 .. Len(order[d]) /\ order'[d][i] = order[d][i]
          \/ d = c /\ i = k + 1 /\ order'[d][i] = h
      BY <2>1
    <3>2. \/ j \in 1 .. Len(order[e]) /\ order'[e][j] = order[e][j]
          \/ e = c /\ j = k + 1 /\ order'[e][j] = h
      BY <2>1
    <3>3. CASE /\ i \in 1 .. Len(order[d]) /\ order'[d][i] = order[d][i]
               /\ j \in 1 .. Len(order[e]) /\ order'[e][j] = order[e][j]
      <4>1. order[e][j] = order[d][i]
        BY <2>3, <3>3
      <4>2. QED
        BY <3>3, <4>1, ServerFacts DEF OrderInv
    <3>4. CASE order'[d][i] = h \/ order'[e][j] = h
      BY <1>11, <2>3, <3>1, <3>2, <3>4
    <3>5. QED
      BY <3>1, <3>2, <3>3, <3>4
  <2>4. QED
    BY <2>2, <2>3 DEF OrderInv
<1>13. UNCHANGED <<phase, win, pos>>
  BY DEF senderVars
<1>14. ConnInv'
  <2>1. CASE c # conn
    BY <1>4, <1>11, <1>13, <2>1, ServerFacts, ConnKept
  <2>2. CASE c = conn
    <3>1. /\ conn' = conn /\ sOpen'[conn] /\ acks'[conn] = acks[conn]
          /\ wire'[conn] = v /\ order'[conn] = p /\ wire[conn] = w /\ order[conn] = o
      BY <1>1, <1>4, <2>2
    <3>2. PICK a \in Nat : a = Len(acks[conn])
      BY <2>2, ConnLengths
    <3>3. a + k + (n + 1) = Sent
      <4>1. sOpen[conn]
        BY <1>4, <2>2
      <4>2. Len(acks[conn]) + Len(order[conn]) + Len(wire[conn]) = Sent
        BY <2>2, <4>1, ConnLengths
      <4>3. QED
        BY <1>3, <3>1, <3>2, <4>2, Zenon
    <3>4. a + (k + 1) + n = Sent
      BY <3>3
    <3>5. Counts'
      <4>1. Under' = a + (k + 1) + n /\ Sent' = Sent
        <5>1. Len(acks'[conn']) = a /\ Len(order'[conn']) = k + 1 /\ Len(wire'[conn']) = n
          BY <1>3, <3>1, <3>2, Zenon
        <5>2. Under' = Len(acks'[conn']) + Len(order'[conn']) + Len(wire'[conn'])
          BY DEF Under
        <5>3. Under' = a + (k + 1) + n
          BY <5>1, <5>2, Zenon
        <5>4. Sent' = Sent
          BY <1>13 DEF Sent
        <5>5. QED
          BY <5>3, <5>4
      <4>2. QED
        BY <3>4, <4>1, SentType DEF Counts
    <3>6. AckRow'
      BY <1>4, <2>2, <3>1, ServerFacts, ServerSame DEF ConnInv, AckRow
    <3>7. CallRow'
      <4>1. ASSUME NEW i \in 1 .. k + 1 PROVE call'[p[i]].seq = Due(a + i)
        <5>1. CASE i \in 1 .. k
          <6>1. call'[o[i]] = call[o[i]] /\ p[i] = o[i]
            BY <1>1, <1>3, <1>11, <5>1
          <6>2. QED
            BY <1>3, <2>2, <3>1, <3>2, <5>1, <6>1, ServerFacts DEF ConnInv, CallRow
        <5>2. CASE i = k + 1
          <6>1. 1 \in 1 .. Len(w) /\ a + k + 1 = a + (k + 1)
            <7>1. Len(w) = n + 1
              BY <1>3
            <7>2. QED
              BY <7>1
          <6>2. w[1] = Due(a + k + 1)
            BY <1>3, <2>2, <3>1, <3>2, <6>1, ServerFacts DEF ConnInv, WireRow
          <6>3. QED
            BY <1>1, <1>3, <1>8, <5>2, <6>1, <6>2
        <5>3. QED
          BY <5>1, <5>2
      <4>2. Len(order'[conn']) = k + 1 /\ order'[conn'] = p /\ Len(acks'[conn']) = a
        BY <1>3, <3>1, <3>2
      <4>3. \A i : Due(i)' = Due(i)
        BY <1>4, ServerSame
      <4>4. QED
        BY <4>1, <4>2, <4>3 DEF CallRow
    <3>8. WireRow'
      <4>1. ASSUME NEW i \in 1 .. n PROVE v[i] = Due(a + (k + 1) + i)
        <5>1. i + 1 \in 1 .. Len(w) /\ a + k + (i + 1) = a + (k + 1) + i
          BY <1>3
        <5>2. w[i + 1] = Due(a + k + (i + 1))
          BY <1>3, <2>2, <3>1, <3>2, <5>1, ServerFacts DEF ConnInv, WireRow
        <5>3. QED
          BY <1>3, <5>1, <5>2
      <4>2. /\ Len(order'[conn']) = k + 1 /\ Len(acks'[conn']) = a
            /\ wire'[conn'] = v /\ Len(wire'[conn']) = n
        BY <1>3, <3>1, <3>2
      <4>3. \A i : Due(i)' = Due(i)
        BY <1>4, ServerSame
      <4>4. QED
        BY <4>1, <4>2, <4>3 DEF WireRow
    <3>9. Uncounted'
      <4>1. SUFFICES ASSUME phase = "send", dataIdx'[c] = 0 PROVE FALSE
        BY <1>13, <2>2, <3>1 DEF Uncounted
      <4>2. ~Counted(s)
        BY <1>4, <4>1
      <4>3. Sent = pos - 1 /\ pos <= Len(win) /\ Len(win) <= Pipeline
        BY <4>1, SentType, SenderFacts DEF LoopInv
      <4>4. pos \in Nat /\ Len(win) \in Nat /\ Pipeline \in Nat
        BY SenderFacts
      <4>5. Pipeline # 1
        BY <3>3, <4>3, <4>4
      <4>6. s = Heartbeat
        BY <1>5, <4>2, <4>5
      <4>7. n = 0 /\ k + a + 1 = Sent /\ k + a + 1 <= Len(win)
        BY <1>5, <3>3, <4>3, <4>4, <4>6
      <4>8. w[1] = Due(a + k + 1)
        <5>1. 1 \in 1 .. Len(w)
          BY <1>3
        <5>2. QED
          BY <1>3, <2>2, <3>1, <3>2, <5>1, ServerFacts DEF ConnInv, WireRow
      <4>9. Due(a + k + 1) = win[a + k + 1] /\ win[a + k + 1] = acked + (a + k + 1)
        <5>1. First = 1 /\ LoopInv /\ acked \in Nat
          BY <4>1, SenderFacts DEF First
        <5>2. 1 + (a + k + 1) - 1 = a + k + 1 /\ a + k + 1 \in 1 .. Len(win)
          BY <4>4, <4>7
        <5>3. win[a + k + 1] = acked + (a + k + 1) - 1 + 1
          BY <4>1, <5>1, <5>2 DEF LoopInv
        <5>4. acked + (a + k + 1) - 1 + 1 = acked + (a + k + 1)
          BY <5>1
        <5>5. QED
          BY <5>1, <5>2, <5>3, <5>4 DEF Due
      <4>10. acked + (a + k + 1) # 0
        BY SenderFacts
      <4>11. QED
        BY <1>1, <4>6, <4>8, <4>9, <4>10, ServerFacts
    <3>10. QED
      BY <3>5, <3>6, <3>7, <3>8, <3>9 DEF ConnInv
  <2>3. QED
    BY <2>1, <2>2
<1>15. CarriedInv'
  <2>1. Sendable' = Sendable /\ \A t : MayBeSent(t)' = MayBeSent(t)
    BY <1>4, ServerSame
  <2>2. ASSUME NEW d \in Slots PROVE WireInv(d)'
    <3>1. CASE d # c
      BY <1>4, <2>1, <3>1, ServerFacts, ZenonT(60) DEF WireInv
    <3>2. CASE d = c
      <4>1. wire'[d] = v /\ wire[c] = w
        BY <1>1, <1>4, <3>2
      <4>2. ASSUME NEW i \in 1 .. n PROVE MayBeSent(v[i]) /\ v[i] # Heartbeat
        <5>1. i + 1 \in 1 .. Len(w) /\ Len(w) # 1 /\ v[i] = w[i + 1]
          BY <1>3
        <5>2. QED
          BY <4>1, <5>1, ServerFacts DEF WireInv
      <4>3. v # <<>> /\ dataIdx'[c] = 0 => v[1] \in Sendable
        <5>1. SUFFICES ASSUME v # <<>>, dataIdx'[c] = 0 PROVE v[1] \in Sendable
          OBVIOUS
        <5>2. n # 0
          BY <1>3, <5>1, QueueFacts
        <5>3. Pipeline = 1
          BY <1>4, <1>5, <5>1, <5>2
        <5>4. 1 \in 1 .. n
          BY <5>2
        <5>5. QED
          BY <4>2, <5>3, <5>4 DEF MayBeSent
      <4>4. QED
        BY <1>3, <2>1, <3>2, <4>1, <4>2, <4>3 DEF WireInv
    <3>3. QED
      BY <3>1, <3>2
  <2>3. \A g \in Calls : MayBeSent(call'[g].seq)
    BY <1>1, <1>8, ServerFacts
  <2>4. QED
    BY <2>1, <2>2, <2>3 DEF CarriedInv
<1>16. ConfirmedInv'
  BY <1>4, ServerFacts, ServerSame, ConfirmedKept DEF ConfirmedInv, senderVars, walVars
<1>17. QED
  BY <1>4, <1>9, <1>10, <1>12, <1>14, <1>15, <1>16, ServerFacts, ServerMove

LEMMA WriteAckInv ==
    ASSUME DeliveryInv, NEW c \in Slots, WriteAck(c), UNCHANGED <<senderVars, faults>>
    PROVE  DeliveryInv'
<1>1. PICK o \in Seq(Calls), h \in Calls, k \in Nat, p \in Seq(Calls) :
          /\ o = order[c] /\ h = o[1] /\ h = Head(order[c]) /\ o # <<>> /\ p = Tail(o)
          /\ Len(o) = k + 1 /\ Len(p) = k
          /\ \A i \in 1 .. k : p[i] = o[i + 1]
  <2>1. order[c] \in Seq(Calls) /\ order[c] # <<>>
    BY ServerFacts, SlotTypes DEF WriteAck
  <2>2. /\ Head(order[c]) = order[c][1] /\ Head(order[c]) \in Calls
        /\ Len(order[c]) \in Nat /\ Len(order[c]) >= 1
        /\ Tail(order[c]) \in Seq(Calls) /\ Len(Tail(order[c])) = Len(order[c]) - 1
        /\ \A i \in 1 .. Len(order[c]) - 1 : Tail(order[c])[i] = order[c][i + 1]
    BY <2>1, QueueTail, QueueFacts
  <2>3. PICK m \in Nat : m = Len(order[c]) /\ m >= 1
    BY <2>2
  <2>4. m - 1 \in Nat /\ m - 1 + 1 = m
    BY <2>3
  <2>5. QED
    BY <2>1, <2>2, <2>3, <2>4
<1>e. PICK e \in Answers : /\ e = Ack(call[h].seq, call[h].ok)
                           /\ e.seq = call[h].seq /\ e.ok = call[h].ok
  <2>1. call[h].seq \in 0 .. LastFrame /\ call[h].ok \in BOOLEAN
    BY ServerFacts DEF CallRecords
  <2>2. /\ Ack(call[h].seq, call[h].ok) \in Answers
        /\ Ack(call[h].seq, call[h].ok).seq = call[h].seq
        /\ Ack(call[h].seq, call[h].ok).ok = call[h].ok
    BY <2>1 DEF Ack, Answers
  <2>3. QED
    BY <2>2
<1>q. PICK q \in Seq(Answers) : q = acks[c]
  BY ServerFacts, SlotTypes
<1>w. /\ Append(q, e) \in Seq(Answers) /\ Len(q) \in Nat
      /\ Len(Append(q, e)) = Len(q) + 1
      /\ \A i \in 1 .. Len(q) : Append(q, e)[i] = q[i]
      /\ Append(q, e)[Len(q) + 1] = e
  BY QueueAppend, QueueFacts
<1>r. PICK r \in Seq(Answers) : r = Append(q, e)
  BY <1>w, Zenon
<1>a. PICK a \in Nat : a = Len(q)
  BY <1>w, Zenon
<1>2. /\ e = Ack(call[h].seq, call[h].ok)
      /\ e.seq = call[h].seq /\ e.ok = call[h].ok
      /\ q = acks[c] /\ r = Append(q, e) /\ Len(q) = a /\ Len(r) = a + 1
      /\ \A i \in 1 .. a : r[i] = q[i]
      /\ r[a + 1] = e
  BY <1>e, <1>q, <1>w, <1>r, <1>a, Zenon
<1>3. /\ UNCHANGED <<conn, sOpen, wire, dataIdx>>
      /\ UNCHANGED <<lastSeq, tracker, inflight, lastSeqFile, databaseVars>>
      /\ sOpen[c] /\ call[h].pc = "ret" /\ call' = [call EXCEPT ![h] = Idle]
      /\ \A d \in Slots : /\ order'[d] = (IF d = c THEN p ELSE order[d])
                          /\ acks'[d] = (IF d = c /\ c = conn THEN r ELSE acks[d])
      /\ order' \in [Slots -> Seq(Calls)] /\ acks' \in [Slots -> Seq(Answers)]
  <2>1. /\ order' = [order EXCEPT ![c] = p]
        /\ acks' = [acks EXCEPT ![c] = IF c = conn THEN r ELSE @]
        /\ UNCHANGED <<conn, sOpen, wire, dataIdx>>
        /\ UNCHANGED <<lastSeq, tracker, inflight, lastSeqFile, databaseVars>>
        /\ sOpen[c] /\ call[h].pc = "ret" /\ call' = [call EXCEPT ![h] = Idle]
    BY <1>1, <1>2 DEF WriteAck
  <2>2. order \in [Slots -> Seq(Calls)] /\ acks \in [Slots -> Seq(Answers)]
    BY ServerFacts, LinkTypes
  <2>3. QED
    BY <2>1, <2>2
<1>4. /\ call'[h] = Idle /\ Idle = NewCall("free", Heartbeat, FALSE) /\ call'[h].seq = 0
      /\ \A g \in Calls \ {h} : call'[g] = call[g]
  BY <1>3, ServerFacts DEF Idle, NewCall
<1>5. ReceiverInv'
  <2>1. Heartbeat \in Heartbeat .. MaxSeq
    BY ReceiverAssumption DEF Heartbeat
  <2>2. QED
    BY <1>3, <1>4, <2>1, ServerFacts, ResetCallInv
<1>6. LinkInv'
  <2>1. LinkTypeOK(0 .. LastFrame)' /\ ServerTypeOK'
    BY <1>3, ServerFacts, LinkTypes DEF LinkTypeOK, ServerTypeOK, Answers
  <2>2. ASSUME NEW d \in Slots PROVE SlotInv(d)'
    <3>1. SlotInv(d)
      BY ServerFacts
    <3>2. QED
      BY <1>3, <3>1 DEF SlotInv
  <2>3. QED
    BY <2>1, <2>2 DEF LinkInv
<1>7. 1 \in 1 .. Len(order[c]) /\ order[c][1] = h
  <2>1. Len(order[c]) = k + 1
    BY <1>1
  <2>2. QED
    BY <1>1, <2>1
<1>8. \A d \in Slots : \A i \in 1 .. Len(order[d]) :
          d # c \/ i # 1 => /\ order[d][i] # h /\ order[d][i] \in Calls
                            /\ call'[order[d][i]] = call[order[d][i]]
  <2>1. ASSUME NEW d \in Slots, NEW i \in 1 .. Len(order[d]), d # c \/ i # 1
        PROVE  order[d][i] # h /\ order[d][i] \in Calls
    BY <1>7, <2>1, ServerFacts, SlotTypes DEF OrderInv
  <2>2. QED
    BY <1>4, <2>1
<1>9. \A d \in Slots : \A i \in 1 .. Len(order'[d]) :
          IF d = c THEN /\ i + 1 \in 1 .. Len(order[d]) /\ order'[d][i] = order[d][i + 1]
                        /\ i + 1 # 1
                   ELSE i \in 1 .. Len(order[d]) /\ order'[d][i] = order[d][i]
  <2>1. ASSUME NEW i \in 1 .. k PROVE i + 1 \in 1 .. k + 1 /\ i + 1 # 1
    OBVIOUS
  <2>2. order'[c] = p /\ order[c] = o /\ Len(p) = k /\ Len(o) = k + 1
    BY <1>1, <1>3
  <2>3. ASSUME NEW d \in Slots, NEW i \in 1 .. Len(order'[d])
        PROVE  IF d = c THEN /\ i + 1 \in 1 .. Len(order[d]) /\ order'[d][i] = order[d][i + 1]
                             /\ i + 1 # 1
                        ELSE i \in 1 .. Len(order[d]) /\ order'[d][i] = order[d][i]
    <3>1. CASE d = c
      <4>1. i \in 1 .. k
        BY <2>2, <2>3, <3>1, Zenon
      <4>2. p[i] = o[i + 1] /\ i + 1 \in 1 .. k + 1 /\ i + 1 # 1
        BY <1>1, <2>1, <4>1
      <4>3. QED
        BY <2>2, <3>1, <4>2, Zenon
    <3>2. CASE d # c
      <4>1. order'[d] = order[d]
        BY <1>3, <3>2
      <4>2. QED
        BY <2>3, <3>2, <4>1
    <3>3. QED
      BY <3>1, <3>2
  <2>4. QED
    BY <2>3
<1>10. OrderInv'
  <2>1. ASSUME NEW d \in Slots, NEW i \in 1 .. Len(order'[d])
        PROVE  call'[order'[d][i]].pc # "free"
    <3>1. PICK j \in 1 .. Len(order[d]) : order'[d][i] = order[d][j] /\ (d # c \/ j # 1)
      BY <1>9, <2>1
    <3>2. call[order[d][j]].pc # "free"
      BY <3>1, ServerFacts DEF OrderInv
    <3>3. QED
      BY <1>8, <3>1, <3>2
  <2>2. ASSUME NEW d \in Slots, NEW i \in 1 .. Len(order'[d]),
               NEW f \in Slots, NEW j \in 1 .. Len(order'[f]), order'[f][j] = order'[d][i]
        PROVE  f = d /\ j = i
    <3>1. PICK x \in 1 .. Len(order[d]) :
              order'[d][i] = order[d][x] /\ x = (IF d = c THEN i + 1 ELSE i)
      BY <1>9, <2>2
    <3>2. PICK y \in 1 .. Len(order[f]) :
              order'[f][j] = order[f][y] /\ y = (IF f = c THEN j + 1 ELSE j)
      BY <1>9, <2>2
    <3>3. order[f][y] = order[d][x]
      BY <2>2, <3>1, <3>2
    <3>4. f = d /\ y = x
      BY <3>3, ServerFacts DEF OrderInv
    <3>5. i \in Int /\ j \in Int
      BY <2>2
    <3>6. QED
      BY <3>1, <3>2, <3>4, <3>5
  <2>3. QED
    BY <2>1, <2>2 DEF OrderInv
<1>11. UNCHANGED <<phase, win, pos>>
  BY DEF senderVars
<1>12. ConnInv'
  <2>1. CASE c # conn
    BY <1>3, <1>8, <1>11, <2>1, ServerFacts, ConnKept
  <2>2. CASE c = conn
    <3>1. /\ conn' = conn /\ wire'[conn] = wire[conn] /\ order[conn] = o /\ order'[conn] = p
          /\ acks[conn] = q /\ acks'[conn] = r
      BY <1>1, <1>2, <1>3, <2>2
    <3>2. PICK n \in Nat : n = Len(wire[conn])
      BY <2>2, ConnLengths
    <3>3. \A i : Due(i)' = Due(i)
      BY <1>3, ServerSame
    <3>4. a + (k + 1) + n = Sent
      <4>1. Len(acks[conn]) + Len(order[conn]) + Len(wire[conn]) = Sent
        BY <1>3, <2>2, ConnLengths
      <4>2. QED
        BY <1>1, <1>2, <3>1, <3>2, <4>1, Zenon
    <3>5. Counts'
      <4>1. Under' = (a + 1) + k + n /\ Sent' = Sent
        BY <1>1, <1>2, <1>3, <3>1, <3>2, ServerSame DEF Under
      <4>2. (a + 1) + k + n = Sent
        BY <3>4
      <4>3. QED
        BY <4>1, <4>2, SentType DEF Counts
    <3>6. AckRow /\ CallRow /\ WireRow /\ Uncounted
      BY <2>2, ServerFacts DEF ConnInv
    <3>7. AckRow'
      <4>1. ASSUME NEW i \in 1 .. a + 1, r[i].ok PROVE r[i].seq = Due(i)
        <5>1. CASE i \in 1 .. a
          BY <1>2, <3>1, <3>6, <4>1, <5>1 DEF AckRow
        <5>2. CASE i = a + 1
          <6>1. call[o[1]].seq = Due(a + 1)
            BY <1>2, <1>7, <2>2, <3>1, <3>6 DEF CallRow
          <6>2. QED
            BY <1>1, <1>2, <5>2, <6>1
        <5>3. QED
          BY <5>1, <5>2
      <4>2. acks'[conn'] = r /\ Len(acks'[conn']) = a + 1
        BY <1>2, <3>1
      <4>3. QED
        BY <3>3, <4>1, <4>2 DEF AckRow
    <3>8. CallRow'
      <4>1. ASSUME NEW i \in 1 .. k PROVE call'[p[i]].seq = Due(a + 1 + i)
        <5>1. i + 1 \in 1 .. k + 1 /\ a + (i + 1) = a + 1 + i /\ i + 1 # 1
          OBVIOUS
        <5>2. i + 1 \in 1 .. Len(o) /\ p[i] = o[i + 1]
          BY <1>1, <5>1
        <5>3. call[o[i + 1]].seq = Due(a + (i + 1))
          <6>1. \A j \in 1 .. Len(o) : call[o[j]].seq = Due(a + j)
            BY <1>2, <3>1, <3>6 DEF CallRow
          <6>2. QED
            BY <5>2, <6>1
        <5>4. call'[o[i + 1]] = call[o[i + 1]]
          <6>1. \A j \in 1 .. Len(o) : j # 1 => call'[o[j]] = call[o[j]]
            BY <1>1, <1>3, <1>8, <2>2
          <6>2. QED
            BY <5>1, <5>2, <6>1
        <5>5. QED
          BY <5>1, <5>2, <5>3, <5>4
      <4>2. order'[conn'] = p /\ Len(order'[conn']) = k /\ Len(acks'[conn']) = a + 1
        BY <1>1, <1>2, <3>1
      <4>3. QED
        BY <3>3, <4>1, <4>2 DEF CallRow
    <3>9. WireRow'
      <4>1. ASSUME NEW i \in 1 .. n PROVE wire[conn][i] = Due(a + 1 + k + i)
        <5>1. a + (k + 1) + i = a + 1 + k + i
          OBVIOUS
        <5>2. QED
          BY <1>1, <1>2, <3>1, <3>2, <3>6, <5>1, ZenonT(60) DEF WireRow
      <4>2. /\ order'[conn'] = p /\ Len(order'[conn']) = k /\ Len(acks'[conn']) = a + 1
            /\ wire'[conn'] = wire[conn] /\ Len(wire'[conn']) = n
        BY <1>1, <1>2, <3>1, <3>2
      <4>3. QED
        BY <3>3, <4>1, <4>2 DEF WireRow
    <3>10. Uncounted'
      BY <1>3, <1>11, <3>6 DEF Uncounted
    <3>11. QED
      BY <3>5, <3>7, <3>8, <3>9, <3>10 DEF ConnInv
  <2>3. QED
    BY <2>1, <2>2
<1>13. CarriedInv'
  <2>1. Sendable' = Sendable /\ \A t : MayBeSent(t)' = MayBeSent(t)
    BY <1>3, ServerSame
  <2>2. \A d \in Slots : WireInv(d)'
    BY <1>3, <2>1, ServerFacts DEF WireInv
  <2>3. \A g \in Calls : MayBeSent(call'[g].seq)
    BY <1>4, ServerFacts
  <2>4. QED
    BY <2>1, <2>2, <2>3 DEF CarriedInv
<1>14. ConfirmedInv'
  <2>1. ASSUME NEW d \in Slots, NEW i \in 1 .. Len(acks'[d]), acks'[d][i].ok
        PROVE  acks'[d][i].seq \in Settled \cup {Heartbeat}
    <3>1. CASE ~(d = c /\ c = conn)
      BY <1>3, <2>1, <3>1, ServerFacts DEF ConfirmedInv
    <3>2. CASE d = c /\ c = conn
      <4>1. acks'[d] = r /\ acks[c] = q /\ i \in 1 .. a + 1 /\ r[i].ok
        BY <1>2, <1>3, <2>1, <3>2
      <4>2. CASE i \in 1 .. a
        BY <1>2, <4>1, <4>2, ServerFacts DEF ConfirmedInv
      <4>3. CASE i = a + 1
        <5>1. call[h].ok /\ r[i].seq = call[h].seq
          BY <1>2, <4>1, <4>3
        <5>2. QED
          BY <4>1, <5>1, ServerFacts DEF CallKnows
      <4>4. QED
        BY <4>1, <4>2, <4>3
    <3>3. QED
      BY <3>1, <3>2
  <2>2. Settled' = Settled /\ Delivered' = Delivered
    BY <1>3, ServerSame
  <2>3. QED
    BY <2>1, <2>2, ServerFacts, ConfirmedKept DEF ConfirmedInv
<1>15. QED
  BY <1>3, <1>5, <1>6, <1>10, <1>12, <1>13, <1>14, ServerFacts, ServerMove

LEMMA DropResultInv ==
    ASSUME DeliveryInv, NEW h \in Calls, ResultDropped(h)
    PROVE  DeliveryInv'
<1>1. /\ call' = [call EXCEPT ![h] = Idle] /\ Idle = NewCall("free", Heartbeat, FALSE)
      /\ ~Awaited(h) /\ faults' = faults
      /\ UNCHANGED <<conn, sOpen, wire, acks, order, dataIdx, senderVars>>
      /\ UNCHANGED <<lastSeq, tracker, inflight, lastSeqFile, databaseVars>>
  BY DEF ResultDropped, DropResult, linkVars, serverVars, Idle
<1>2. call'[h].seq = 0 /\ \A g \in Calls \ {h} : call'[g] = call[g]
  BY <1>1, ServerFacts DEF NewCall
<1>3. ReceiverInv'
  <2>1. Heartbeat \in Heartbeat .. MaxSeq
    BY ReceiverAssumption DEF Heartbeat
  <2>2. QED
    BY <1>1, <2>1, ServerFacts, ResetCallInv
<1>4. \A d \in Slots : \A i \in 1 .. Len(order[d]) : call'[order[d][i]] = call[order[d][i]]
  <2>1. ASSUME NEW d \in Slots, NEW i \in 1 .. Len(order[d])
        PROVE  order[d][i] # h /\ order[d][i] \in Calls
    <3>1. order[d] \in Seq(Calls) /\ order[d][i] \in Calls
      BY ServerFacts, SlotTypes
    <3>2. i \in DOMAIN order[d]
      BY <3>1
    <3>3. QED
      BY <1>1, <3>1, <3>2 DEF Awaited
  <2>2. QED
    BY <1>2, <2>1
<1>5. LinkInv'
  BY <1>1, ServerFacts DEF LinkInv, LinkTypeOK, ServerTypeOK, SlotInv
<1>6. UNCHANGED <<phase, win, pos>>
  BY <1>1 DEF senderVars
<1>7. ConnInv' /\ OrderInv'
  BY <1>1, <1>4, <1>6, ServerFacts, ConnKept, OrderKept
<1>8. CarriedInv'
  <2>1. \A d \in Slots : WireInv(d)'
    BY <1>1, ServerFacts, ServerSame DEF WireInv
  <2>2. \A g \in Calls : MayBeSent(call'[g].seq)
    BY <1>2, ServerFacts
  <2>3. QED
    BY <1>1, <2>1, <2>2, ServerSame DEF CarriedInv
<1>9. ConfirmedInv'
  BY <1>1, ServerFacts, ServerSame DEF ConfirmedInv
<1>10. QED
  BY <1>1, <1>3, <1>5, <1>7, <1>8, <1>9, ServerFacts, ServerMove

\* A restart of the receiver closes every connection.
LEMMA CrashReceiverInv ==
    ASSUME DeliveryInv, CrashReceiver, UNCHANGED senderVars, faults' \in 0 .. MaxFaults
    PROVE  DeliveryInv'
<1>1. /\ UNCHANGED <<conn, acks, databaseVars>>
      /\ \A h \in Calls : call'[h].seq = 0
      /\ sOpen' = [d \in Slots |-> FALSE] /\ wire' = [d \in Slots |-> <<>>]
      /\ order' = [d \in Slots |-> <<>>] /\ dataIdx' = [d \in Slots |-> 0]
  BY DEF CrashReceiver, RestartReceiver, Idle, NewCall, Heartbeat
<1>2. ReceiverInv'
  BY ServerFacts, RestartInv DEF CrashReceiver
<1>3. LinkInv'
  <2>1. LinkTypeOK(0 .. LastFrame)' /\ ServerTypeOK'
    BY <1>1, EmptyQueue, ServerFacts, LinkTypes DEF LinkTypeOK, ServerTypeOK, Answers
  <2>2. \A d \in Slots : SlotInv(d)'
    BY <1>1, ServerFacts DEF SlotInv
  <2>3. QED
    BY <2>1, <2>2 DEF LinkInv
<1>4. \A d \in Slots : /\ order'[d] = <<>> /\ Len(order'[d]) = 0
                       /\ wire'[d] = <<>> /\ Len(wire'[d]) = 0 /\ ~sOpen'[d]
  BY <1>1, EmptyQueue
<1>5. OrderInv'
  BY <1>4 DEF OrderInv
<1>6. ConnInv'
  <2>1. CASE conn \notin Slots
    BY <1>1, <2>1 DEF ConnInv
  <2>2. CASE conn \in Slots
    <3>1. PICK a \in Nat, b \in Nat, n \in Nat :
              a = Len(acks[conn]) /\ b = Len(order[conn]) /\ n = Len(wire[conn])
      BY <2>2, ServerFacts, SlotTypes
    <3>2. a + b + n <= Sent
      BY <2>2, <3>1, ConnLengths, Zenon
    <3>3. a <= Sent
      BY <3>2, SentType
    <3>4. Counts'
      <4>1. Len(acks'[conn']) = a /\ Len(order'[conn']) = 0 /\ Len(wire'[conn']) = 0
        BY <1>1, <1>4, <2>2, <3>1
      <4>2. Under' = a /\ Sent' = Sent /\ ~sOpen'[conn']
        BY <1>1, <1>4, <2>2, <4>1, ServerSame DEF Under
      <4>3. QED
        BY <3>3, <4>2 DEF Counts
    <3>5. AckRow'
      BY <1>1, <2>2, ServerFacts, ServerSame DEF ConnInv, AckRow
    <3>6. CallRow' /\ WireRow' /\ Uncounted'
      BY <1>1, <1>4, <2>2 DEF CallRow, WireRow, Uncounted
    <3>7. QED
      BY <3>4, <3>5, <3>6 DEF ConnInv
  <2>3. QED
    BY <2>1, <2>2
<1>7. CarriedInv'
  <2>1. \A d \in Slots : WireInv(d)'
    BY <1>4 DEF WireInv
  <2>2. \A g \in Calls : MayBeSent(call'[g].seq)
    BY <1>1, ServerFacts
  <2>3. QED
    BY <1>1, <2>1, <2>2, ServerSame DEF CarriedInv
<1>8. ConfirmedInv'
  BY <1>1, ServerFacts, ServerSame DEF ConfirmedInv
<1>9. QED
  BY <1>1, <1>2, <1>3, <1>5, <1>6, <1>7, <1>8, ServerMove
-----------------------------------------------------------------------------
(***************************************************************************)
(* The calls' steps.                                                       *)
(***************************************************************************)

\* A step of a call delivers its own frame or nothing, and does not free the call.
LEMMA CallStepEffect ==
    ASSUME NEW h \in Calls, ReceiverInv, CallStep(h) \/ CallFault(h)
    PROVE  /\ call'[h].seq = call[h].seq /\ call'[h].pc # "free"
           /\ \A g \in Calls \ {h} : call'[g] = call[g]
           /\ stored \subseteq stored' /\ stored' \subseteq stored \cup {call[h].seq}
           /\ dlq \subseteq dlq' /\ dlq' \subseteq dlq \cup {call[h].seq}
           /\ relayed \subseteq relayed' /\ relayLost \subseteq relayLost'
<1>1. call \in [Calls -> CallRecords] /\ call[h] \in CallRecords
  BY DEF ReceiverInv, ReceiverTypeOK
<1>2. CASE DecodeFails(h) \/ CheckDuplicate(h) \/ AddInflight(h) \/ WritePermanent(h)
  <2>1. Moves(h) /\ call'[h].pc # "free"
    BY <1>1, <1>2, GotoMoves, FinishMoves
       DEF DecodeFails, CheckDuplicate, AddInflight, WritePermanent, Stages
  <2>2. QED
    BY <1>2, <2>1
       DEF DecodeFails, CheckDuplicate, AddInflight, WritePermanent, Moves, databaseVars
<1>3. CASE TryCloseGap(h) \/ Advance(h)
  <2>1. tracker'.last \in 0 .. MaxSeq
    BY <1>3, ReceiverInvTypes, CallStepTypes DEF CallStep, TypesInv, ReceiverTypeOK
  <2>2. tracker.last \in 0 .. MaxSeq
    BY DEF ReceiverInv, ReceiverTypeOK
  <2>3. Moves(h) /\ call'[h].pc # "free"
    <3>1. CASE TryCloseGap(h) /\ GapCloses(h)
      <4>1. call' = [call EXCEPT ![h].pc = "saveGap", ![h].upTo = tracker'.last]
        BY <3>1 DEF TryCloseGap, AdvanceSeq
      <4>2. QED
        BY <1>1, <2>1, <4>1, UpToMoves DEF Stages
    <3>2. CASE TryCloseGap(h) /\ ~GapCloses(h)
      BY <1>1, <3>2, GotoMoves DEF TryCloseGap, Stages
    <3>3. CASE Advance(h)
      <4>1. call' = [call EXCEPT ![h].pc = "save", ![h].upTo = tracker.last]
        BY <3>3 DEF Advance, AdvanceSeq
      <4>2. QED
        BY <1>1, <2>2, <4>1, UpToMoves DEF Stages
    <3>4. QED
      BY <1>3, <3>1, <3>2, <3>3
  <2>4. QED
    BY <1>3, <2>3 DEF TryCloseGap, Advance, Moves, databaseVars
<1>4. CASE SaveGap(h) \/ Save(h)
  <2>1. 0 \in 0 .. MaxSeq
    BY ReceiverAssumption
  <2>2. Moves(h) /\ call'[h].pc # "free"
    BY <1>1, <1>4, <2>1, UpToMoves DEF SaveGap, Save, SaveLastSeq, Stages
  <2>3. QED
    BY <1>4, <2>2 DEF SaveGap, Save, Moves, databaseVars
<1>5. CASE WriteOk(h) \/ WriteTransient(h)
  <2>1. Moves(h) /\ call'[h].pc # "free"
    BY <1>1, <1>5, GotoMoves, FinishMoves DEF WriteOk, WriteTransient, Stages
  <2>2. QED
    BY <1>5, <2>1 DEF WriteOk, WriteTransient, Moves
<1>6. CASE Isolate(h) \/ Relay(h)
  <2>1. Moves(h) /\ call'[h].pc # "free"
    BY <1>1, <1>6, GotoMoves, FinishMoves DEF Isolate, Relay, Stages
  <2>2. QED
    BY <1>6, <2>1 DEF Isolate, Relay, Moves
<1>7. CASE MarkDone(h) \/ RemoveInflight(h)
  <2>1. Moves(h) /\ call'[h].pc # "free"
    BY <1>1, <1>7, GotoMoves, FinishMoves DEF MarkDone, RemoveInflight, Stages
  <2>2. QED
    BY <1>7, <2>1 DEF MarkDone, RemoveInflight, Moves, databaseVars
<1>8. QED
  BY <1>2, <1>3, <1>4, <1>5, <1>6, <1>7 DEF CallStep, CallFault

\* In stop-and-wait what a frame jumps over was delivered before it.
LEMMA JumpsSafely ==
    ASSUME DeliveryInv, Pipeline = 1 \/ NoJump, NEW h \in Calls
    PROVE  SafeJump(h)
<1>1. CASE NoJump
  BY <1>1 DEF NoJump, SafeJump
<1>2. CASE Pipeline = 1
  BY <1>2, ServerFacts DEF MayBeSent, Sendable, SafeJump
<1>3. QED
  BY <1>1, <1>2

LEMMA CallWorksInv ==
    ASSUME DeliveryInv, Pipeline = 1 \/ NoJump, NEW h \in Calls, CallStep(h) \/ CallFault(h),
           UNCHANGED <<linkVars, senderVars, serverVars>>, faults' \in 0 .. MaxFaults
    PROVE  DeliveryInv'
<1>1. UNCHANGED <<conn, sOpen, wire, acks, order, dataIdx, appended, acked, phase, pos, win>>
  BY DEF linkVars, serverVars, senderVars, walVars
<1>2. ReceiverInv'
  BY ServerFacts, JumpsSafely, CallStepInv
<1>3. /\ call'[h].seq = call[h].seq /\ call'[h].pc # "free"
      /\ \A g \in Calls \ {h} : call'[g] = call[g]
      /\ stored \subseteq stored' /\ stored' \subseteq stored \cup {call[h].seq}
      /\ dlq \subseteq dlq' /\ dlq' \subseteq dlq \cup {call[h].seq}
      /\ relayed \subseteq relayed' /\ relayLost \subseteq relayLost'
  BY ServerFacts, CallStepEffect
<1>4. LinkInv'
  BY <1>1, ServerFacts DEF LinkInv, LinkTypeOK, ServerTypeOK, SlotInv
<1>5. Settled \subseteq Settled'
  BY <1>3 DEF Settled, Delivered
<1>6. \A s : (s \in Sendable => s \in Sendable') /\ (MayBeSent(s) => MayBeSent(s)')
  <2>1. Sendable \subseteq Sendable'
    BY <1>1, <1>5 DEF Sendable
  <2>2. QED
    BY <1>1, <2>1 DEF MayBeSent
<1>7. Delivered' \subseteq 1 .. appended
  <2>1. stored' \subseteq DataSeqs /\ dlq' \subseteq DataSeqs
    BY <1>2 DEF ReceiverInv, ReceiverTypeOK
  <2>2. call[h].seq \in 0 .. appended /\ Delivered \subseteq 1 .. appended
    BY ServerFacts DEF MayBeSent, ConfirmedInv
  <2>3. QED
    BY <1>3, <2>1, <2>2, SenderFacts DEF Delivered, DataSeqs
<1>8. \A g \in Calls : call'[g].seq = call[g].seq
                       /\ (call[g].pc # "free" => call'[g].pc # "free")
  BY <1>3
<1>9. \A d \in Slots : \A i \in 1 .. Len(order[d]) : order[d][i] \in Calls
  BY ServerFacts, SlotTypes
<1>10. ConnInv' /\ OrderInv'
  BY <1>1, <1>8, <1>9, ServerFacts, ConnKept, OrderKept
<1>11. CarriedInv'
  <2>1. \A d \in Slots : WireInv(d)'
    BY <1>1, <1>6, ServerFacts DEF WireInv
  <2>2. \A g \in Calls : MayBeSent(call[g].seq)'
    BY <1>6, <1>8, ServerFacts DEF MayBeSent
  <2>3. QED
    BY <2>1, <2>2 DEF CarriedInv
<1>12. ConfirmedInv'
  <2>1. \A d \in Slots : \A i \in 1 .. Len(acks'[d]) : acks'[d][i].ok =>
            acks'[d][i].seq \in Settled \cup {Heartbeat}
    BY <1>1, ServerFacts DEF ConfirmedInv
  <2>2. QED
    BY <1>5, <1>7, <2>1, ServerFacts, ConfirmedKept
<1>13. QED
  BY <1>1, <1>2, <1>4, <1>10, <1>11, <1>12, ServerMove
-----------------------------------------------------------------------------
(***************************************************************************)
(* The system.                                                             *)
(***************************************************************************)

LEMMA DeliveryNextInv ==
    ASSUME Orderly, Pipeline = 1 \/ NoJump, DeliveryInv, [Next]_vars
    PROVE  DeliveryInv'
<1>1. CASE SenderWorks
  BY <1>1, StartRoundInv, SendHeartbeatInv, HeartbeatAckInv, SendFrameInv, RedialInv,
     AckSuccessInv, AckFailInv, AckEOFInv DEF SenderWorks, SenderStep
<1>2. CASE Poll
  BY <1>2, PollInv
<1>3. CASE Idling
  BY <1>3, StartHeartbeatInv DEF Idling
<1>4. ASSUME NEW c \in Slots, ServerWorks(c) PROVE DeliveryInv'
  <2>1. faults' \in 0 .. MaxFaults /\ UNCHANGED <<senderVars, faults>>
    BY <1>4, ServerFacts DEF ServerWorks
  <2>2. QED
    BY <1>4, <2>1, ReadFrameInv, WriteAckInv, ServerClosesInv DEF ServerWorks
<1>5. ASSUME NEW h \in Calls, CallWorks(h) PROVE DeliveryInv'
  BY <1>5, ServerFacts, CallWorksInv DEF CallWorks
<1>6. ASSUME NEW h \in Calls, ResultDropped(h) PROVE DeliveryInv'
  BY <1>6, DropResultInv
<1>7. CASE Fault
  <2>1. faults' \in 0 .. MaxFaults
    BY <1>7, ServerFacts, DeliveryConstants DEF Fault, Fails
  <2>2. CASE SenderFault
    BY <2>1, <2>2, SenderFaultInv
  <2>3. CASE ServerFault
    BY <2>1, <2>3, ServerClosesInv DEF ServerFault
  <2>4. CASE ReceiverFault
    BY <2>1, <2>4, CrashReceiverInv DEF ReceiverFault
  <2>5. CASE CallFails
    BY <2>1, <2>5, CallWorksInv DEF CallFails
  <2>6. QED
    BY <1>7, <2>2, <2>3, <2>4, <2>5 DEF Fault
<1>8. CASE UNCHANGED vars
  <2>1. /\ UNCHANGED <<serverVars, receiverVars, linkVars, senderVars, faults>>
        /\ UNCHANGED <<conn, sOpen, wire, acks, order, dataIdx, call>>
        /\ UNCHANGED <<appended, acked, ckpt, phase, win, pos>>
    BY <1>8 DEF vars, linkVars, serverVars, receiverVars, senderVars, walVars
  <2>2. LinkInv' /\ SenderTypeOK' /\ LoopInv' /\ AcksKept
    <3>1. First' = First
      BY <2>1 DEF First
    <3>2. QED
      BY <2>1, <3>1, SenderFacts
         DEF LinkInv, LinkTypeOK, ServerTypeOK, SlotInv, SenderTypeOK, LoopInv, AcksKept
  <2>3. ConnInv'
    BY <2>1, SenderFacts, ConnKept
  <2>4. appended' \in Nat /\ appended' >= appended
    BY <2>1, SenderFacts
  <2>5. QED
    BY <2>1, <2>2, <2>3, <2>4, SenderFacts, SenderMove
<1>9. QED
  BY <1>1, <1>2, <1>3, <1>4, <1>5, <1>6, <1>7, <1>8 DEF Next

LEMMA StopAndWaitInvariant ==
    ASSUME Pipeline = 1
    PROVE  Spec => []DeliveryInv
<1>1. Orderly
  BY DEF Orderly
<1>2. DeliveryInv /\ [Next]_vars => DeliveryInv'
  BY <1>1, DeliveryNextInv
<1>3. QED
  BY <1>2, DeliveryInitInv, PTL DEF Spec

LEMMA PipelineInvariant ==
    ASSUME Codec = "gzip", ~LateSendFails
    PROVE  Spec /\ []NoJump => []DeliveryInv
<1>1. Orderly
  BY DEF Orderly
<1>2. DeliveryInv /\ NoJump /\ [Next]_vars => DeliveryInv'
  BY <1>1, DeliveryNextInv
<1>3. QED
  BY <1>2, DeliveryInitInv, PTL DEF Spec

\* What the invariant was made for.
LEMMA DeliveryInvImplies == DeliveryInv => TypeOK /\ CommittedDelivered /\ PrefixDelivered
BY ReceiverInvImplies DEF DeliveryInv, ConfirmedInv, CommittedDelivered, Settled

LEMMA DeliveryInvAligned == DeliveryInv => AckAligned
<1>1. SUFFICES ASSUME DeliveryInv, phase = "wait", acks[conn] # <<>>, Head(acks[conn]).ok
               PROVE  Head(acks[conn]).seq = win[pos]
  BY DEF AckAligned
<1>2. conn \in Slots /\ AckRow /\ pos \in Nat \ {0}
  BY <1>1, SenderFacts DEF LoopInv, ConnInv
<1>3. acks[conn] \in Seq(Answers)
  BY <1>1, <1>2, SenderFacts, SlotTypes
<1>4. 1 \in 1 .. Len(acks[conn]) /\ Head(acks[conn]) = acks[conn][1]
  BY <1>1, <1>3, QueueTail, QueueFacts
<1>5. Due(1) = win[pos]
  <2>1. pos + 1 - 1 = pos
    BY <1>2
  <2>2. QED
    BY <1>1, <1>2, <2>1 DEF Due, First
<1>6. QED
  BY <1>1, <1>2, <1>4, <1>5 DEF AckRow
-----------------------------------------------------------------------------
(***************************************************************************)
(* The promise as a refinement.                                            *)
(***************************************************************************)
Still == UNCHANGED <<appended, acked>> /\ Delivered' = Delivered

\* A step of a call delivers at most its own frame, which was appended and, in
\* stop-and-wait, may be sent.
Delivers ==
    /\ UNCHANGED <<appended, acked>>
    /\ \E s \in 1 .. appended :
          (Pipeline = 1 => s \in Sendable) /\ Delivered' = Delivered \cup {s}

LEMMA CallDelivers ==
    ASSUME DeliveryInv, DeliveryInv', NEW h \in Calls, CallStep(h) \/ CallFault(h),
           UNCHANGED senderVars
    PROVE  Still \/ Delivers
<1>1. UNCHANGED <<appended, acked>>
  BY DEF senderVars, walVars
<1>2. /\ ReceiverInv /\ Delivered' \subseteq 1 .. appended
      /\ Pipeline = 1 => call[h].seq \in Sendable
  BY <1>1 DEF DeliveryInv, ConfirmedInv, CarriedInv, MayBeSent
<1>3. Delivered \subseteq Delivered' /\ Delivered' \subseteq Delivered \cup {call[h].seq}
  BY <1>2, CallStepEffect DEF Delivered
<1>4. CASE call[h].seq \in Delivered'
  <2>1. Delivered' = Delivered \cup {call[h].seq} /\ call[h].seq \in 1 .. appended
    BY <1>2, <1>3, <1>4
  <2>2. QED
    BY <1>1, <1>2, <2>1 DEF Delivers
<1>5. CASE call[h].seq \notin Delivered'
  BY <1>1, <1>3, <1>5 DEF Still
<1>6. QED
  BY <1>4, <1>5

\* A positive response moves the WAL by the frame it confirms or not at all.
LEMMA AckCommits ==
    ASSUME DeliveryInv, DeliveryInv', AckSuccess, Delivered' = Delivered
    PROVE  Still \/ Promise!Commit
<1>1. appended' = appended /\ (acked' = acked + 1 \/ acked' = acked)
  BY DEF AckSuccess, Commit
<1>2. acked \in Nat /\ 1 .. acked' \subseteq Delivered'
  BY SenderAssumption DEF DeliveryInv, TypeOK, SenderTypeOK, ConfirmedInv, Settled
<1>3. ASSUME acked' = acked + 1 PROVE acked + 1 \in Delivered
  BY <1>2, <1>3
<1>4. QED
  BY <1>1, <1>3 DEF Still, Promise!Commit

\* What a step of the system is to the outside.
LEMMA StepEffect ==
    ASSUME Orderly, Pipeline = 1 \/ NoJump, DeliveryInv, [Next]_vars
    PROVE  Still \/ Delivers \/ Promise!AppendFrame \/ Promise!Commit \/ Promise!Forget
<1>1. DeliveryInv'
  BY DeliveryNextInv
<1>2. UNCHANGED databaseVars => Delivered' = Delivered
  BY DEF databaseVars, Delivered
<1>3. UNCHANGED receiverVars => Delivered' = Delivered
  BY <1>2 DEF receiverVars
<1>4. UNCHANGED walVars => UNCHANGED <<appended, acked>>
  BY DEF walVars
<1>5. UNCHANGED senderVars => UNCHANGED <<appended, acked>>
  BY <1>4 DEF senderVars
<1>6. CASE SenderWorks
  <2>1. SenderStep /\ Delivered' = Delivered
    BY <1>3, <1>6 DEF SenderWorks
  <2>2. CASE AckSuccess
    BY <1>1, <2>1, <2>2, AckCommits
  <2>3. CASE ~AckSuccess
    <3>1. UNCHANGED walVars
      BY <2>1, <2>3 DEF SenderStep, StartRound, SendHeartbeat, HeartbeatAck, SendFrame,
         Redial, AckFail, AckEOF
    <3>2. QED
      BY <1>4, <2>1, <3>1 DEF Still
  <2>4. QED
    BY <2>2, <2>3
<1>7. CASE Poll
  BY <1>3, <1>7 DEF Poll, AppendFrame, Promise!AppendFrame
<1>8. CASE Idling
  BY <1>3, <1>4, <1>8 DEF Idling, StartHeartbeat, Still
<1>9. ASSUME NEW c \in Slots, ServerWorks(c) PROVE Still
  <2>1. UNCHANGED senderVars /\ UNCHANGED databaseVars
    BY <1>9 DEF ServerWorks, ReadFrame, WriteAck, PeerGone, receiverVars
  <2>2. QED
    BY <1>2, <1>5, <2>1 DEF Still
<1>10. ASSUME NEW h \in Calls, CallWorks(h) PROVE Still \/ Delivers
  BY <1>1, <1>10, CallDelivers DEF CallWorks
<1>11. ASSUME NEW h \in Calls, ResultDropped(h) PROVE Still
  BY <1>2, <1>5, <1>11 DEF ResultDropped, DropResult, Still
<1>12. CASE Fault
  <2>1. CASE SenderFault
    <3>1. Delivered' = Delivered
      BY <1>3, <2>1 DEF SenderFault
    <3>2. CASE CrashSender
      <4>1. appended' = appended /\ acked' \in 0 .. acked
        BY <3>2 DEF CrashSender, DeliveryInv, TypeOK, SenderTypeOK
      <4>2. QED
        BY <3>1, <4>1 DEF Promise!Forget
    <3>3. CASE ~CrashSender
      <4>1. UNCHANGED walVars
        BY <2>1, <3>3
           DEF SenderFault, SendFails, HeartbeatFails, AckTimeout, DialRefused, senderVars
      <4>2. QED
        BY <1>4, <3>1, <4>1 DEF Still
    <3>4. QED
      BY <3>2, <3>3
  <2>2. CASE ServerFault
    BY <1>3, <1>5, <2>2 DEF ServerFault, ServerDrops, BadHeader, Still
  <2>3. CASE ReceiverFault
    BY <1>2, <1>5, <2>3 DEF ReceiverFault, CrashReceiver, RestartReceiver, Still
  <2>4. CASE CallFails
    BY <1>1, <2>4, CallDelivers DEF CallFails
  <2>5. QED
    BY <1>12, <2>1, <2>2, <2>3, <2>4 DEF Fault
<1>13. CASE UNCHANGED vars
  BY <1>3, <1>5, <1>13 DEF vars, Still
<1>14. QED
  BY <1>6, <1>7, <1>8, <1>9, <1>10, <1>11, <1>12, <1>13 DEF Next

LEMMA PromiseInit == Init => Promise!Init
BY DEF Init, SenderInit, ReceiverInit, Promise!Init, Delivered

LEMMA PromiseStep ==
    ASSUME Orderly, Pipeline = 1 \/ NoJump, DeliveryInv, [Next]_vars
    PROVE  [Promise!Next]_(Promise!vars)
<1>1. CASE Still
  BY <1>1 DEF Still, Promise!vars
<1>2. CASE Delivers
  <2>1. PICK s \in 1 .. appended : Delivered' = Delivered \cup {s}
    BY <1>2 DEF Delivers
  <2>2. QED
    BY <1>2, <2>1 DEF Delivers, Promise!Next, Promise!Deliver
<1>3. QED
  BY <1>1, <1>2, StepEffect DEF Promise!Next
-----------------------------------------------------------------------------
(***************************************************************************)
(* Stop-and-wait.                                                          *)
(***************************************************************************)

\* Every variable of the composed system keeps its type.
THEOREM DeliveryTypeCorrect ==
    ASSUME Pipeline = 1
    PROVE  Spec => []TypeOK
<1>1. QED
  BY DeliveryInvImplies, StopAndWaitInvariant, PTL

\* The promise: a frame leaves the WAL only when it is in the target database or
\* isolated as poison, whatever connections, retries and restarts there were
\* (sender.go:147-156, receiver.go:35).
THEOREM StopAndWaitDelivers ==
    ASSUME Pipeline = 1
    PROVE  Spec => []CommittedDelivered
<1>1. QED
  BY DeliveryInvImplies, StopAndWaitInvariant, PTL

\* A positive response is taken for the frame it was given for, although response
\* bytes carry no seq and late ones may be on their way.
THEOREM StopAndWaitAligned ==
    ASSUME Pipeline = 1
    PROVE  Spec => []AckAligned
<1>1. QED
  BY DeliveryInvAligned, StopAndWaitInvariant, PTL

\* No frame is on its way, on a live or an abandoned connection or in a running
\* call, before all older ones are delivered: what the receiver concludes from the
\* first frame of a connection is true (receiver.go:298-303).
THEOREM StopAndWaitAuthority ==
    ASSUME Pipeline = 1
    PROVE  Spec => []HeadAuthority
<1>1. DeliveryInv => HeadAuthority
  <2>1. SUFFICES ASSUME DeliveryInv, NEW s \in InFlightFrames PROVE MayBeSent(s)
    BY DEF HeadAuthority, MayBeSent, Sendable, Settled
  <2>2. CASE \E h \in Calls : s = call[h].seq
    BY <2>1, <2>2, ServerFacts
  <2>3. CASE \E c \in Slots : \E i \in DOMAIN wire[c] : s = wire[c][i]
    <3>1. PICK c \in Slots : \E i \in DOMAIN wire[c] : s = wire[c][i]
      BY <2>3
    <3>2. wire[c] \in Seq(0 .. LastFrame) /\ WireInv(c)
      BY <2>1, ServerFacts, SlotTypes
    <3>3. \E i \in 1 .. Len(wire[c]) : s = wire[c][i]
      BY <3>1, <3>2
    <3>4. QED
      BY <3>2, <3>3 DEF WireInv
  <2>4. QED
    BY <2>1, <2>2, <2>3 DEF InFlightFrames
<1>2. QED
  BY <1>1, StopAndWaitInvariant, PTL

\* last_seq, the tracker and the last_seq file cover only delivered frames in the
\* composed system too, jumps beyond the limit included: in stop-and-wait the frames
\* a jump passes over are delivered (receiver.go:246, 437).
THEOREM StopAndWaitPrefix ==
    ASSUME Pipeline = 1
    PROVE  Spec => []PrefixDelivered
<1>1. QED
  BY DeliveryInvImplies, StopAndWaitInvariant, PTL

\* Sender, link, server and receiver together implement the promise of at-least-once
\* delivery: a frame leaves the WAL only after its delivery, a restart of the sender
\* forgets commits and invents none (docs/architecture.md section 1).
THEOREM StopAndWaitKeepsPromise ==
    ASSUME Pipeline = 1
    PROVE  Spec => KeepsPromise
<1>1. Orderly
  BY DEF Orderly
<1>2. DeliveryInv /\ [Next]_vars => [Promise!Next]_(Promise!vars)
  BY <1>1, PromiseStep
<1>3. QED
  BY <1>2, PromiseInit, StopAndWaitInvariant, PTL DEF Spec, KeepsPromise, Promise!Spec

\* In stop-and-wait no frame reaches the database or the dead letters before every
\* older one has, late handlers of abandoned connections included
\* (docs/architecture.md section 1).
THEOREM StopAndWaitInOrder ==
    ASSUME Pipeline = 1
    PROVE  Spec => []DeliveredInOrder
<1>1. Init => DeliveredInOrder
  BY DEF Init, ReceiverInit, DeliveredInOrder, Delivered
<1>2. Orderly
  BY DEF Orderly
<1>3. ASSUME DeliveryInv, DeliveredInOrder, [Next]_vars PROVE DeliveredInOrder'
  <2>1. CASE Delivers
    <3>1. PICK s \in 1 .. appended : s \in Sendable /\ Delivered' = Delivered \cup {s}
      BY <2>1 DEF Delivers
    <3>2. s \in Nat /\ 1 .. s - 1 \subseteq Delivered
      BY <3>1 DEF Sendable, Settled
    <3>3. 1 .. s \subseteq Delivered'
      BY <3>1, <3>2
    <3>4. QED
      BY <1>3, <3>1, <3>3 DEF DeliveredInOrder
  <2>2. CASE Delivered' = Delivered
    BY <1>3, <2>2 DEF DeliveredInOrder
  <2>3. QED
    BY <1>2, <1>3, <2>1, <2>2, StepEffect
       DEF Still, Promise!AppendFrame, Promise!Commit, Promise!Forget
<1>4. QED
  BY <1>1, <1>3, StopAndWaitInvariant, PTL DEF Spec
-----------------------------------------------------------------------------
(***************************************************************************)
(* Go-back-N: any window, gzip frames, sends that fail only at the first   *)
(* frame of a round.  NoJump asks that no frame completes more than        *)
(* JumpLimit above what the tracker vouches for.                           *)
(***************************************************************************)

\* Every variable of the composed system keeps its type in pipeline mode.
THEOREM PipelineTypeCorrect ==
    ASSUME Codec = "gzip", ~LateSendFails
    PROVE  Spec /\ []NoJump => []TypeOK
<1>1. QED
  BY DeliveryInvImplies, PipelineInvariant, PTL

\* The promise in pipeline mode: several frames are on their way, on live and
\* abandoned connections, and complete in any order; a frame leaves the WAL only when
\* it is in the target database or isolated as poison (sender.go:182,
\* receiver.go:35).
THEOREM PipelineDelivers ==
    ASSUME Codec = "gzip", ~LateSendFails
    PROVE  Spec /\ []NoJump => []CommittedDelivered
<1>1. QED
  BY DeliveryInvImplies, PipelineInvariant, PTL

\* The i-th response is taken for the i-th frame of the round and was given for it,
\* after every failure in the middle of a round too (sender.go:178-181).
THEOREM PipelineAligned ==
    ASSUME Codec = "gzip", ~LateSendFails
    PROVE  Spec /\ []NoJump => []AckAligned
<1>1. QED
  BY DeliveryInvAligned, PipelineInvariant, PTL

\* last_seq, the tracker and the last_seq file cover only delivered frames in pipeline
\* mode: a gap is closed only on the word of a connection's first frame, and that word
\* is true (receiver.go:298-303).
THEOREM PipelinePrefix ==
    ASSUME Codec = "gzip", ~LateSendFails
    PROVE  Spec /\ []NoJump => []PrefixDelivered
<1>1. QED
  BY DeliveryInvImplies, PipelineInvariant, PTL

\* In pipeline mode too the system implements the promise of at-least-once delivery
\* (docs/architecture.md section 1).
THEOREM PipelineKeepsPromise ==
    ASSUME Codec = "gzip", ~LateSendFails
    PROVE  Spec /\ []NoJump => KeepsPromise
<1>1. Orderly
  BY DEF Orderly
<1>2. DeliveryInv /\ NoJump /\ [Next]_vars => [Promise!Next]_(Promise!vars)
  BY <1>1, PromiseStep
<1>3. QED
  BY <1>2, PromiseInit, PipelineInvariant, PTL DEF Spec, KeepsPromise, Promise!Spec

-----------------------------------------------------------------------------
(***************************************************************************)
(* What is committed is tracked.  A commit trusts the receiver to remember *)
(* the frame: in last_seq or in pending.  A call that still runs cannot    *)
(* take that back, because a committed frame is on its way a second time   *)
(* only over connections whose receiver has tracked all that is committed. *)
(***************************************************************************)
\* The retry of a refused head frame may close a gap: it is the first of a new
\* connection, or a frame the server does not count.
RetryLeads == IF Pipeline = 1 THEN Codec = "zstd" ELSE Codec = "gzip" /\ ~LateSendFails

Covered(n) == \A s \in 1 .. n : Tracked(s)

\* No frame is so far ahead of the tracker that it jumps, pending is not full, and the
\* head frame is close enough to last_seq for its gap to be closed.
Near ==
    /\ \A h \in Calls : call[h].seq <= tracker.last + JumpLimit
    /\ Cardinality(tracker.pending) < PendingLimit
    /\ Covered(acked) \/ acked < lastSeq + JumpLimit

\* What was confirmed is tracked, in a call and in a response.
CallTracked(h) == call[h].ok => call[h].seq = Heartbeat \/ Tracked(call[h].seq)
AckTracked(i) ==
    acks[conn][i].ok => acks[conn][i].seq = Heartbeat \/ Tracked(acks[conn][i].seq)

\* A committed frame that is still on its way was committed over a connection whose
\* receiver lives: everything committed is tracked.
UnderWay(s) ==
    \/ \E h \in Calls : call[h].seq = s
    \/ \E c \in Slots : \E i \in 1 .. Len(wire[c]) : wire[c][i] = s
Behind == \A s \in 1 .. acked : UnderWay(s) => Covered(acked)

\* The receiver has restarted since and nothing has reached it.
Silent == (\A c \in Slots : wire[c] = <<>>) /\ \A h \in Calls : call[h].seq = Heartbeat
Lost == ~sOpen[conn] /\ Silent

\* A response that confirms the head frame vouches for all below it.
AcksCovered ==
    \/ Lost
    \/ /\ \A i \in 1 .. Len(acks[conn]) : AckTracked(i)
       /\ acks[conn] # <<>> /\ acks[conn][1].ok =>
              acks[conn][1].seq = Heartbeat \/ Covered(acked)

\* The head frame of the round may still close the gap below it, or was refused.
Early(h) ==
    call[h].head /\ call[h].pc \in {"decode", "register", "gap"} /\ call[h].seq = acked + 1
Refused(h) == call[h].pc = "ret" /\ ~call[h].ok
HeadOpen ==
    IF acks[conn] # <<>> THEN ~acks[conn][1].ok
    ELSE order[conn] # <<>> /\ (Early(order[conn][1]) \/ Refused(order[conn][1]))

\* Once the head frame has passed that point, everything below it is tracked.
Touched == dataIdx[conn] = 1 \/ order[conn] # <<>> \/ acks[conn] # <<>>
Below ==
    sOpen[conn] =>
        IF phase \in {"send", "wait"} THEN Touched => Covered(acked) \/ HeadOpen
                                      ELSE dataIdx[conn] = 1 => Covered(acked)

Fresh(c) == dataIdx[c] = 1 => sOpen[c] /\ Codec = "gzip"

CoverInv ==
    /\ lastSeq <= tracker.last
    /\ \A h \in Calls : CallTracked(h)
    /\ InflightExact
    /\ Behind
    /\ conn \in Slots => AcksCovered /\ Below
    /\ \A c \in Slots : Fresh(c)

LEMMA CoverInitInv == Init => CoverInv
<1> SUFFICES ASSUME Init PROVE CoverInv
  OBVIOUS
<1>1. InflightExact
  <2>1. ASSUME NEW s \in DataSeqs
        PROVE  {h \in Calls : call[h].seq = s /\ call[h].pc \in Registered} = {}
    BY DEF Init, ReceiverInit, Idle, NewCall, Registered
  <2>2. QED
    BY <2>1, FS_EmptySet DEF InflightExact, Init, ReceiverInit
<1>2. lastSeq <= tracker.last /\ (\A h \in Calls : CallTracked(h))
  BY DEF Init, ReceiverInit, InitTracker, CallTracked, Idle, NewCall
<1>3. Behind /\ conn \notin Slots /\ \A c \in Slots : Fresh(c)
  BY LinkAssumption DEF Init, SenderInit, LinkInit, ServerInit, Behind, Fresh
<1>4. QED
  BY <1>1, <1>2, <1>3 DEF CoverInv
-----------------------------------------------------------------------------
\* done forgets no seq, as long as none jumps and pending has room.
LEMMA DoneTracks ==
    ASSUME NEW N \in Nat, NEW t \in TrackersTo(N), NEW seq \in 1 .. N,
           seq <= t.last + JumpLimit, Cardinality(t.pending) < PendingLimit
    PROVE  \A s \in 1 .. N : s <= t.last \/ s \in t.pending \/ s = seq
               => s <= Done(t, seq).last \/ s \in Done(t, seq).pending
<1> USE DEF TrackersTo
<1>1. CASE seq <= t.last
  BY <1>1 DEF Done
<1>2. CASE ~(seq <= t.last)
  <2> DEFINE P == t.pending \cup {seq}
             e == RunEnd(t.last, P)
             left == P \ (t.last + 1 .. e)
  <2>1. P \in SUBSET (1 .. N) /\ t.last \in 0 .. N
    OBVIOUS
  <2>2. e \in t.last .. N
    BY <2>1, RunEndSpec
  <2>3. ~(Cardinality(left) > PendingLimit)
    <3>1. IsFiniteSet(t.pending)
      <4>1. IsFiniteSet(1 .. N)
        BY FS_Interval
      <4>2. QED
        BY <4>1, FS_Subset
    <3>2. Cardinality(t.pending) \in Nat /\ PendingLimit \in Nat
      BY <3>1, FS_CardinalityType, LimitsAssumption
    <3>3. IsFiniteSet(P) /\ Cardinality(P) \in {Cardinality(t.pending), Cardinality(t.pending) + 1}
      BY <3>1, FS_AddElement
    <3> HIDE DEF P
    <3>4. Cardinality(P) \in Nat /\ Cardinality(P) <= PendingLimit
      BY <3>2, <3>3
    <3>5. Cardinality(left) \in Nat /\ Cardinality(left) <= Cardinality(P)
      <4>1. left \subseteq P
        OBVIOUS
      <4> HIDE DEF left
      <4>2. QED
        BY <3>3, <4>1, FS_Subset, FS_CardinalityType
    <3> HIDE DEF left
    <3>6. QED
      BY <3>2, <3>4, <3>5
  <2>4. Done(t, seq) = [last |-> e, pending |-> left]
    <3>1. ~(seq > t.last + JumpLimit)
      BY LimitsAssumption
    <3>2. Done(t, seq) = Drain(t, P)
      BY <1>2, <3>1 DEF Done
    <3>3. QED
      BY <2>3, <3>2 DEF Drain
  <2> HIDE DEF e
  <2>5. QED
    BY <2>1, <2>2, <2>4
<1>3. QED
  BY <1>1, <1>2

\* closeGap forgets none either.
LEMMA CloseGapTracks ==
    ASSUME NEW N \in Nat, NEW t \in TrackersTo(N), NEW upTo \in 0 .. N
    PROVE  /\ \A s \in 1 .. N : s <= t.last \/ s \in t.pending
               => s <= CloseGap(t, upTo).last \/ s \in CloseGap(t, upTo).pending
           /\ CloseGap(t, upTo).last >= upTo
BY DEF CloseGap, TrackersTo

\* Types of the receiver that the steps below use.
LEMMA CoverTypes ==
    ASSUME ReceiverInv
    PROVE  /\ tracker \in TrackersTo(MaxSeq) /\ tracker.last \in Nat
           /\ lastSeq \in Nat /\ lastSeq \in 0 .. MaxSeq /\ MaxSeq \in Nat /\ TypesInv
           /\ tracker.last \in 0 .. MaxSeq
           /\ call \in [Calls -> CallRecords] /\ JumpLimit \in Nat
           /\ \A h \in Calls : /\ call[h] \in CallRecords /\ call[h].seq \in 0 .. MaxSeq
                               /\ call[h].pc \in Registered => call[h].seq \in 1 .. MaxSeq
<1>1. /\ lastSeq \in 0 .. MaxSeq /\ tracker \in TrackersTo(MaxSeq)
      /\ call \in [Calls -> CallRecords] /\ TypesInv
  <2>1. TypesInv
    BY ReceiverInvTypes
  <2>2. ReceiverTypeOK
    BY <2>1 DEF TypesInv
  <2>3. lastSeq \in 0 .. MaxSeq /\ call \in [Calls -> CallRecords]
    BY <2>2 DEF ReceiverTypeOK
  <2>4. tracker \in TrackersTo(MaxSeq)
    BY <2>2 DEF ReceiverTypeOK, TrackersTo, DataSeqs
  <2>5. QED
    BY <2>1, <2>3, <2>4
<1>2. MaxSeq \in Nat /\ JumpLimit \in Nat
  BY ReceiverAssumption, LimitsAssumption
<1>3. lastSeq \in Nat /\ tracker.last \in 0 .. MaxSeq /\ tracker.last \in Nat
  BY <1>1, <1>2 DEF TrackersTo
<1>4. ASSUME NEW h \in Calls
      PROVE  /\ call[h] \in CallRecords /\ call[h].seq \in 0 .. MaxSeq
             /\ call[h].pc \in Registered => call[h].seq \in 1 .. MaxSeq
  <2>1. call[h] \in CallRecords /\ CallKnows(h)
    BY <1>1 DEF ReceiverInv, CallSafe
  <2>2. call[h].seq \in 0 .. MaxSeq
    BY <2>1 DEF CallRecords, Heartbeat
  <2>3. call[h].pc \in Registered => call[h].seq \in 1 .. MaxSeq
    BY <2>1 DEF CallKnows, DataSeqs
  <2>4. QED
    BY <2>1, <2>2, <2>3
<1>5. QED
  BY <1>1, <1>2, <1>3, <1>4

\* Last_seq stays behind the tracker, the tracker forgets nothing, and a call that
\* confirms a frame has it tracked.
TrackerGrows == \A s \in 1 .. MaxSeq : Tracked(s) => Tracked(s)'

LEMMA SameTracker == tracker' = tracker => TrackerGrows
BY DEF TrackerGrows, Tracked

LEMMA CallTracks ==
    ASSUME NEW h \in Calls, ReceiverInv, Near, lastSeq <= tracker.last, CallTracked(h),
           CallStep(h) \/ CallFault(h)
    PROVE  TrackerGrows /\ lastSeq' <= tracker'.last /\ CallTracked(h)'
<1>1. /\ tracker \in TrackersTo(MaxSeq) /\ tracker.last \in 0 .. MaxSeq /\ MaxSeq \in Nat
      /\ lastSeq \in 0 .. MaxSeq /\ call \in [Calls -> CallRecords] /\ JumpLimit \in Nat
      /\ call[h].seq \in 0 .. MaxSeq
      /\ call[h].pc \in Registered => call[h].seq \in 1 .. MaxSeq
      /\ call'[h].seq = call[h].seq
  BY CoverTypes, CallStepEffect
<1>2. CASE CheckDuplicate(h)
  <2>1. tracker' = tracker /\ lastSeq' = lastSeq
    BY <1>2 DEF CheckDuplicate
  <2>2. CASE call[h].seq = Heartbeat \/ call[h].seq <= lastSeq
    <3>1. call[h].seq = Heartbeat \/ call[h].seq <= tracker.last
      BY <1>1, <2>2
    <3>2. QED
      BY <1>1, <2>1, <3>1, SameTracker DEF CallTracked, Tracked
  <2>3. CASE ~(call[h].seq = Heartbeat \/ call[h].seq <= lastSeq)
    <3>1. call'[h].ok = call[h].ok
      BY <1>1, <1>2, <2>3, GotoMoves DEF CheckDuplicate, Stages
    <3>2. QED
      BY <1>1, <2>1, <3>1, SameTracker DEF CallTracked, Tracked
  <2>4. QED
    BY <2>2, <2>3
<1>3. CASE \/ DecodeFails(h) \/ AddInflight(h) \/ SaveGap(h) \/ WriteOk(h) \/ WriteTransient(h)
           \/ WritePermanent(h) \/ Isolate(h) \/ Relay(h) \/ Save(h) \/ RemoveInflight(h)
  <2>1. tracker' = tracker /\ lastSeq' = lastSeq
    BY <1>3 DEF DecodeFails, AddInflight, SaveGap, WriteOk, WriteTransient, WritePermanent,
       Isolate, Relay, Save, RemoveInflight
  <2>2. call'[h].ok => call[h].ok
    <3>1. CASE DecodeFails(h) \/ AddInflight(h) \/ WritePermanent(h) \/ RemoveInflight(h)
      BY <1>1, <3>1, GotoMoves, FinishMoves
         DEF DecodeFails, AddInflight, WritePermanent, RemoveInflight, Stages
    <3>2. CASE SaveGap(h) \/ Save(h)
      <4>1. 0 \in 0 .. MaxSeq
        BY <1>1
      <4>2. QED
        BY <1>1, <3>2, <4>1, UpToMoves DEF SaveGap, Save, SaveLastSeq, Stages
    <3>3. CASE WriteOk(h) \/ WriteTransient(h) \/ Isolate(h) \/ Relay(h)
      BY <1>1, <3>3, GotoMoves, FinishMoves
         DEF WriteOk, WriteTransient, Isolate, Relay, Stages
    <3>4. QED
      BY <1>3, <3>1, <3>2, <3>3
  <2>3. QED
    BY <1>1, <2>1, <2>2, SameTracker DEF CallTracked, Tracked
<1>4. CASE TryCloseGap(h)
  <2>1. CASE GapCloses(h)
    <3>1. call[h].seq - 1 \in 0 .. MaxSeq
      BY <1>1, <2>1 DEF GapCloses
    <3>2. PICK t : t = CloseGap(tracker, call[h].seq - 1)
      OBVIOUS
    <3>3. /\ t \in TrackersTo(MaxSeq) /\ t.last >= tracker.last
          /\ \A s \in 1 .. MaxSeq : s <= tracker.last \/ s \in tracker.pending
               => s <= t.last \/ s \in t.pending
      BY <1>1, <3>1, <3>2, CloseGapSpec, CloseGapTracks
    <3>4. tracker' = t /\ lastSeq' \in {t.last, lastSeq}
          /\ call' = [call EXCEPT ![h].pc = "saveGap", ![h].upTo = t.last]
      BY <1>4, <2>1, <3>2 DEF TryCloseGap, AdvanceSeq
    <3>5. TrackerGrows
      BY <3>3, <3>4 DEF TrackerGrows, Tracked
    <3>6. t.last \in 0 .. MaxSeq
      BY <3>3 DEF TrackersTo
    <3>7. call'[h].ok = call[h].ok
      BY <1>1, <3>4, <3>6, UpToMoves DEF Stages
    <3>8. lastSeq' <= tracker'.last
      BY <1>1, <3>3, <3>4, <3>6
    <3>9. call[h].seq \in 1 .. MaxSeq
      BY <1>1, <1>4 DEF TryCloseGap, Registered
    <3>10. QED
      BY <1>1, <3>5, <3>7, <3>8, <3>9 DEF CallTracked, TrackerGrows
  <2>2. CASE ~GapCloses(h)
    <3>1. tracker' = tracker /\ lastSeq' = lastSeq /\ Goto(h, "write")
      BY <1>4, <2>2 DEF TryCloseGap
    <3>2. call'[h].ok = call[h].ok
      BY <1>1, <3>1, GotoMoves DEF Stages
    <3>3. QED
      BY <1>1, <3>1, <3>2, SameTracker DEF CallTracked, Tracked
  <2>3. QED
    BY <2>1, <2>2
<1>5. CASE MarkDone(h)
  <2>1. call[h].seq \in 1 .. MaxSeq
    BY <1>1, <1>5 DEF MarkDone, Registered
  <2>2. call[h].seq <= tracker.last + JumpLimit
    BY DEF Near
  <2>3. PICK t : t = Done(tracker, call[h].seq)
    OBVIOUS
  <2>4. tracker' = t /\ lastSeq' = lastSeq
    BY <1>5, <2>3 DEF MarkDone
  <2>5. /\ t \in TrackersTo(MaxSeq) /\ t.last >= tracker.last
        /\ \A s \in 1 .. MaxSeq : s <= tracker.last \/ s \in tracker.pending \/ s = call[h].seq
             => s <= t.last \/ s \in t.pending
    BY <1>1, <2>1, <2>2, <2>3, DoneSpec, DoneTracks DEF Near
  <2>6. TrackerGrows /\ Tracked(call[h].seq)'
    BY <1>1, <2>1, <2>4, <2>5 DEF TrackerGrows, Tracked
  <2>7. t.last \in 0 .. MaxSeq
    BY <2>5 DEF TrackersTo
  <2>8. lastSeq' <= tracker'.last
    BY <1>1, <2>4, <2>5, <2>7
  <2>9. QED
    BY <2>6, <2>8 DEF CallTracked
<1>6. CASE Advance(h)
  <2>1. tracker' = tracker /\ lastSeq' \in {tracker.last, lastSeq}
        /\ call' = [call EXCEPT ![h].pc = "save", ![h].upTo = tracker.last]
    BY <1>6 DEF Advance, AdvanceSeq
  <2>2. call'[h].ok = call[h].ok
    BY <1>1, <2>1, UpToMoves DEF Stages
  <2>3. lastSeq' <= tracker'.last
    BY <1>1, <2>1
  <2>4. QED
    BY <1>1, <2>1, <2>2, <2>3, SameTracker DEF CallTracked, Tracked
<1>7. QED
  BY <1>2, <1>3, <1>4, <1>5, <1>6 DEF CallStep, CallFault

\* What the steps of a call do to the head frame of a round: it closes the gap, finds
\* it closed, is stopped by a committed frame that is still being handled, or fails.
LEMMA EarlyStep ==
    ASSUME NEW h \in Calls, ReceiverInv, InflightExact, Near, lastSeq <= tracker.last, Behind,
           acked \in Nat, acked' = acked, Early(h), CallTracked(h),
           CallStep(h) \/ CallFault(h)
    PROVE  Early(h)' \/ Refused(h)' \/ Covered(acked)'
<1>1. /\ tracker \in TrackersTo(MaxSeq) /\ tracker.last \in 0 .. MaxSeq /\ MaxSeq \in Nat
      /\ lastSeq \in 0 .. MaxSeq /\ call \in [Calls -> CallRecords] /\ JumpLimit \in Nat
      /\ call[h].seq \in 0 .. MaxSeq /\ TypesInv
      /\ call[h].seq = acked + 1 /\ call[h].head
      /\ call[h].pc \in {"decode", "register", "gap"}
  BY CoverTypes DEF Early
<1>2. TrackerGrows /\ lastSeq' <= tracker'.last
  BY CallTracks
<1>3. Covered(acked) => Covered(acked)'
  <2>1. \A s \in 1 .. acked : s \in 1 .. MaxSeq
    BY <1>1
  <2>2. QED
    BY <1>2, <2>1 DEF Covered, TrackerGrows
<1>4. ASSUME acked <= lastSeq PROVE Covered(acked)
  <2>1. acked <= tracker.last
    BY <1>1, <1>4
  <2>2. QED
    BY <1>1, <2>1 DEF Covered, Tracked
<1>5. CASE CheckDuplicate(h) \/ DecodeFails(h)
  <2>1. CASE DecodeFails(h)
    BY <1>1, <2>1, FinishMoves DEF DecodeFails, Refused, Stages
  <2>2. CASE CheckDuplicate(h) /\ call[h].seq <= lastSeq
    <3>1. acked <= lastSeq
      BY <1>1, <2>2
    <3>2. QED
      BY <1>3, <1>4, <3>1
  <2>3. CASE CheckDuplicate(h) /\ ~(call[h].seq <= lastSeq)
    <3>1. call[h].seq # Heartbeat
      BY <1>1 DEF Heartbeat
    <3>2. Goto(h, "register")
      BY <2>3, <3>1 DEF CheckDuplicate
    <3>3. Moves(h) /\ call'[h].pc = "register"
      BY <1>1, <3>2, GotoMoves DEF Stages
    <3>4. QED
      BY <1>1, <3>3 DEF Early, Moves
  <2>4. QED
    BY <1>5, <2>1, <2>2, <2>3
<1>6. CASE AddInflight(h)
  <2>1. Moves(h) /\ call'[h].pc = "gap"
    BY <1>1, <1>6, GotoMoves DEF AddInflight, Stages
  <2>2. QED
    BY <1>1, <2>1 DEF Early, Moves
<1>7. CASE TryCloseGap(h)
  <2>1. CASE GapCloses(h)
    <3>1. call[h].seq - 1 = acked /\ acked \in 0 .. MaxSeq
      BY <1>1
    <3>2. tracker' = CloseGap(tracker, acked)
      BY <1>7, <2>1, <3>1 DEF TryCloseGap
    <3>3. tracker' \in TrackersTo(MaxSeq) /\ tracker'.last >= acked
      BY <1>1, <3>1, <3>2, CloseGapSpec, CloseGapTracks
    <3>4. QED
      BY <1>1, <3>3 DEF Covered, Tracked, TrackersTo
  <2>2. CASE ~GapCloses(h)
    <3>1. CASE Covered(acked)
      BY <1>3, <3>1
    <3>2. CASE ~(call[h].seq > lastSeq + 1)
      <4>1. acked <= lastSeq
        BY <1>1, <3>2
      <4>2. QED
        BY <1>3, <1>4, <4>1
    <3>3. CASE \E s \in lastSeq + 1 .. call[h].seq - 1 : inflight[s] # 0
      <4>1. PICK s \in lastSeq + 1 .. call[h].seq - 1 : inflight[s] # 0
        BY <3>3
      <4>2. s \in 1 .. acked /\ s \in DataSeqs
        BY <1>1, <4>1 DEF DataSeqs
      <4>3. Holders(s) # {}
        BY <4>1, <4>2, FS_EmptySet DEF InflightExact, Holders
      <4>4. UnderWay(s)
        BY <4>3 DEF Holders, UnderWay
      <4>5. QED
        BY <1>3, <4>2, <4>4 DEF Behind
    <3>4. CASE acked < lastSeq + JumpLimit
      <4>1. call[h].seq <= lastSeq + JumpLimit
        BY <1>1, <3>4
      <4>2. QED
        BY <1>1, <2>2, <3>2, <3>3, <4>1 DEF GapCloses
    <3>5. QED
      BY <3>1, <3>4 DEF Near
  <2>3. QED
    BY <2>1, <2>2
<1>8. QED
  BY <1>1, <1>5, <1>6, <1>7 DEF CallStep, CallFault, SaveGap, WriteOk, WriteTransient,
     WritePermanent, Isolate, Relay, MarkDone, Advance, Save, RemoveInflight
-----------------------------------------------------------------------------
\* A step of a call.
LEMMA CallCover ==
    ASSUME DeliveryInv, CoverInv, Near, NEW h \in Calls, CallStep(h) \/ CallFault(h),
           UNCHANGED <<linkVars, senderVars, serverVars>>
    PROVE  CoverInv'
<1>1. UNCHANGED <<conn, sOpen, wire, acks, order, dataIdx, appended, acked, phase, pos, win>>
  BY DEF linkVars, serverVars, senderVars, walVars
<1>2. ReceiverInv /\ acked \in 0 .. MaxSeq /\ acked \in Nat /\ MaxSeq \in Nat
  BY ServerFacts, SenderFacts
<1>3. /\ lastSeq <= tracker.last /\ InflightExact /\ Behind /\ \A g \in Calls : CallTracked(g)
      /\ \A c \in Slots : Fresh(c)
  BY DEF CoverInv
<1>4. TrackerGrows /\ lastSeq' <= tracker'.last /\ CallTracked(h)'
  BY <1>2, <1>3, CallTracks
<1>5. /\ \A g \in Calls : call'[g].seq = call[g].seq
      /\ \A g \in Calls \ {h} : call'[g] = call[g]
  BY <1>2, CallStepEffect
<1>6. InflightExact'
  BY <1>2, <1>3, CoverTypes, CallStepExact
<1>7. \A g \in Calls : CallTracked(g)'
  <2>1. ASSUME NEW g \in Calls \ {h} PROVE CallTracked(g)'
    <3>1. call[g].seq \in 0 .. MaxSeq /\ CallTracked(g)
      BY <1>2, <1>3, CoverTypes
    <3>2. call[g].seq # Heartbeat => call[g].seq \in 1 .. MaxSeq
      BY <1>2, <3>1 DEF Heartbeat
    <3>3. QED
      BY <1>4, <1>5, <3>1, <3>2 DEF CallTracked, TrackerGrows
  <2>2. QED
    BY <1>4, <2>1
<1>8. Covered(acked) => Covered(acked)'
  <2>1. \A s \in 1 .. acked : s \in 1 .. MaxSeq
    BY <1>2
  <2>2. QED
    BY <1>1, <1>4, <2>1 DEF Covered, TrackerGrows
<1>9. Behind'
  <2>1. \A s : UnderWay(s)' => UnderWay(s)
    BY <1>1, <1>5 DEF UnderWay
  <2>2. QED
    BY <1>1, <1>3, <1>8, <2>1 DEF Behind
<1>10. ASSUME conn \in Slots PROVE AcksCovered'
  <2>1. AcksCovered
    BY <1>10 DEF CoverInv
  <2>2. Lost => Lost'
    BY <1>1, <1>5 DEF Lost, Silent
  <2>3. ASSUME NEW i \in 1 .. Len(acks[conn]), AckTracked(i) PROVE AckTracked(i)'
    <3>1. acks[conn][i] \in Answers
      BY <1>10, ServerFacts, SlotTypes, QueueFacts
    <3>2. acks[conn][i].seq \in 0 .. MaxSeq
      BY <3>1, DeliveryConstants DEF Answers
    <3>3. acks[conn][i].seq # Heartbeat => acks[conn][i].seq \in 1 .. MaxSeq
      BY <1>2, <3>2 DEF Heartbeat
    <3>4. QED
      BY <1>1, <1>4, <2>3, <3>3 DEF AckTracked, TrackerGrows
  <2>4. QED
    BY <1>1, <1>8, <2>1, <2>2, <2>3 DEF AcksCovered
<1>11. ASSUME conn \in Slots PROVE Below'
  <2>1. Below
    BY <1>11 DEF CoverInv
  <2>2. CASE phase \in {"send", "wait"} /\ sOpen[conn] /\ Touched /\ ~Covered(acked)
    <3>1. HeadOpen
      BY <2>1, <2>2 DEF Below
    <3>2. CASE acks[conn] # <<>>
      BY <1>1, <2>2, <3>1, <3>2 DEF Below, HeadOpen
    <3>3. CASE acks[conn] = <<>>
      <4>1. PICK g : g = order[conn][1]
        OBVIOUS
      <4>2. order[conn] # <<>> /\ (Early(g) \/ Refused(g))
        BY <3>1, <3>3, <4>1 DEF HeadOpen
      <4>3. g \in Calls
        BY <1>11, <4>1, <4>2, ServerFacts, SlotTypes, QueueTail
      <4>4. Early(g)' \/ Refused(g)' \/ Covered(acked)'
        <5>1. CASE g # h
          BY <1>1, <1>5, <4>2, <4>3, <5>1 DEF Early, Refused
        <5>2. CASE g = h /\ Early(g)
          BY <1>1, <1>2, <1>3, <5>2, EarlyStep
        <5>3. CASE g = h /\ Refused(g)
          BY <5>3 DEF Refused, CallStep, CallFault, CheckDuplicate, AddInflight, TryCloseGap,
             SaveGap, WriteOk, Isolate, Relay, MarkDone, Advance, Save, RemoveInflight,
             DecodeFails, WriteTransient, WritePermanent
        <5>4. QED
          BY <4>2, <5>1, <5>2, <5>3
      <4>5. HeadOpen' \/ Covered(acked)'
        BY <1>1, <3>3, <4>1, <4>2, <4>4 DEF HeadOpen
      <4>6. QED
        BY <1>1, <2>2, <4>5 DEF Below
    <3>4. QED
      BY <3>2, <3>3
  <2>3. CASE ~(phase \in {"send", "wait"} /\ sOpen[conn] /\ Touched /\ ~Covered(acked))
    BY <1>1, <1>8, <2>1, <2>3 DEF Below, Touched
  <2>4. QED
    BY <2>2, <2>3
<1>12. QED
  BY <1>1, <1>3, <1>4, <1>6, <1>7, <1>9, <1>10, <1>11 DEF CoverInv, Fresh
-----------------------------------------------------------------------------
\* What a step of the server, or the drop of a result, leaves as it was.
LEMMA ServerCover ==
    ASSUME DeliveryInv, CoverInv, UNCHANGED <<senderVars, lastSeq, tracker, conn>>,
           InflightExact', \A h \in Calls : CallTracked(h)',
           \A s : UnderWay(s)' => UnderWay(s) \/ s = Heartbeat,
           conn \in Slots => AcksCovered' /\ Below', \A c \in Slots : Fresh(c)'
    PROVE  CoverInv'
<1>1. acked' = acked /\ acked \in Nat
  BY SenderFacts DEF senderVars, walVars
<1>2. Covered(acked)' = Covered(acked)
  BY <1>1 DEF Covered, Tracked
<1>3. Behind'
  <2>1. ASSUME NEW s \in 1 .. acked, UnderWay(s)' PROVE Covered(acked)
    <3>1. UnderWay(s)
      BY <1>1, <2>1 DEF Heartbeat
    <3>2. QED
      BY <2>1, <3>1 DEF CoverInv, Behind
  <2>2. QED
    BY <1>1, <1>2, <2>1 DEF Behind
<1>4. QED
  BY <1>3 DEF CoverInv

\* A call that starts or ends, next to the others.
LEMMA ResetCover ==
    ASSUME DeliveryInv, CoverInv, NEW h \in Calls, call[h].pc \in {"free", "ret"},
           NEW stage \in {"free", "decode"}, NEW s, NEW b,
           call' = [call EXCEPT ![h] = NewCall(stage, s, b)],
           UNCHANGED <<inflight, tracker>>
    PROVE  /\ InflightExact' /\ \A g \in Calls : CallTracked(g)'
           /\ call'[h] = NewCall(stage, s, b) /\ \A g \in Calls \ {h} : call'[g] = call[g]
<1>1. call \in [Calls -> CallRecords] /\ InflightExact /\ \A g \in Calls : CallTracked(g)
  BY ServerFacts DEF CoverInv
<1>2. InflightExact'
  BY <1>1, ResetCallExact
<1>3. call'[h] = NewCall(stage, s, b) /\ \A g \in Calls \ {h} : call'[g] = call[g]
  BY <1>1
<1>4. ASSUME NEW g \in Calls PROVE CallTracked(g)'
  <2>1. CASE g = h
    BY <1>3, <2>1 DEF CallTracked, NewCall
  <2>2. CASE g # h
    BY <1>1, <1>3, <2>2 DEF CallTracked, Tracked
  <2>3. QED
    BY <2>1, <2>2
<1>5. QED
  BY <1>2, <1>3, <1>4

\* The first call of a connection is no other connection's.
LEMMA FirstCall ==
    ASSUME DeliveryInv, NEW c \in Slots, order[c] # <<>>
    PROVE  /\ order[c][1] \in Calls /\ call[order[c][1]].pc # "free" /\ Head(order[c]) = order[c][1]
           /\ Len(order[c]) \in Nat /\ Len(order[c]) >= 1
           /\ \A d \in Slots : order[d] # <<>> /\ order[d][1] = order[c][1] => d = c
<1>1. \A d \in Slots : /\ order[d] \in Seq(Calls) /\ Len(order[d]) \in Nat
                       /\ order[d] # <<>> => 1 \in 1 .. Len(order[d])
                       /\ \A i \in 1 .. Len(order[d]) : order[d][i] \in Calls
  BY ServerFacts, SlotTypes
<1>2. Head(order[c]) = order[c][1] /\ Len(order[c]) >= 1
  BY <1>1, QueueTail
<1>3. QED
  BY <1>1, <1>2, ServerFacts DEF OrderInv

\* A connection whose first call, responses and count stay as they are.
LEMMA BelowKept ==
    ASSUME DeliveryInv, conn \in Slots, Below, UNCHANGED <<senderVars, tracker, conn>>,
           ~sOpen'[conn] \/ /\ sOpen'[conn] = sOpen[conn] /\ acks'[conn] = acks[conn]
                            /\ order'[conn] = order[conn] /\ dataIdx'[conn] = dataIdx[conn]
                            /\ order[conn] # <<>> =>
                                   call'[order[conn][1]] = call[order[conn][1]]
    PROVE  Below'
<1>1. UNCHANGED <<acked, phase>>
  BY DEF senderVars, walVars
<1>2. Covered(acked)' = Covered(acked)
  BY <1>1 DEF Covered, Tracked
<1>3. CASE ~sOpen'[conn]
  BY <1>3 DEF Below
<1>4. CASE sOpen'[conn]
  <2>1. HeadOpen => HeadOpen'
    BY <1>1, <1>4 DEF HeadOpen, Early, Refused
  <2>2. QED
    BY <1>1, <1>2, <1>4, <2>1 DEF Below, Touched
<1>5. QED
  BY <1>3, <1>4

\* A server's end that closes, a frame that is read and one that is sent: what is on its
\* way afterwards.
LEMMA CloseMoves ==
    ASSUME DeliveryInv, NEW c \in Slots, CloseServerEnd(c), UNCHANGED receiverVars
    PROVE  \A s : UnderWay(s)' => UnderWay(s)
<1>1. call' = call /\ \A d \in Slots : wire'[d] = (IF d = c THEN <<>> ELSE wire[d])
  BY ServerFacts, LinkTypes, EmptyQueue DEF CloseServerEnd, receiverVars
<1>2. ASSUME NEW s, NEW d \in Slots, NEW i \in 1 .. Len(wire'[d]), wire'[d][i] = s
      PROVE  \E j \in 1 .. Len(wire[d]) : wire[d][j] = s
  <2>1. CASE d = c
    <3>1. wire'[d] = <<>>
      BY <1>1, <2>1
    <3>2. QED
      BY <1>2, <3>1, EmptyQueue
  <2>2. CASE d # c
    <3>1. wire'[d] = wire[d]
      BY <1>1, <2>2
    <3>2. QED
      BY <1>2, <3>1
  <2>3. QED
    BY <2>1, <2>2
<1>3. QED
  BY <1>1, <1>2 DEF UnderWay

LEMMA ReadFrameMoves ==
    ASSUME DeliveryInv, NEW c \in Slots, ReadFrame(c)
    PROVE  \A x : UnderWay(x)' => UnderWay(x)
<1>1. PICK h \in Calls :
          /\ \E b : call' = [call EXCEPT ![h] = NewCall("decode", Head(wire[c]), b)]
          /\ wire[c] # <<>> /\ wire' = [wire EXCEPT ![c] = Tail(@)]
  BY DEF ReadFrame, HandleFrame
<1>2. PICK s, b : s = Head(wire[c]) /\ call' = [call EXCEPT ![h] = NewCall("decode", s, b)]
  BY <1>1
<1>3. /\ call'[h] = NewCall("decode", s, b) /\ \A g \in Calls \ {h} : call'[g] = call[g]
      /\ wire'[c] = Tail(wire[c]) /\ \A d \in Slots \ {c} : wire'[d] = wire[d]
  BY <1>1, <1>2, ServerFacts, LinkTypes
<1>4. /\ s = wire[c][1] /\ Len(wire[c]) \in Nat /\ 1 \in 1 .. Len(wire[c])
      /\ Len(Tail(wire[c])) = Len(wire[c]) - 1
      /\ \A i \in 1 .. Len(wire[c]) - 1 : Tail(wire[c])[i] = wire[c][i + 1]
  BY <1>1, <1>2, ServerFacts, SlotTypes, QueueTail
<1>5. ASSUME NEW x, NEW g \in Calls, call'[g].seq = x PROVE UnderWay(x)
  <2>1. CASE g = h
    BY <1>3, <1>4, <1>5, <2>1 DEF UnderWay, NewCall
  <2>2. CASE g # h
    BY <1>3, <1>5, <2>2 DEF UnderWay
  <2>3. QED
    BY <2>1, <2>2
<1>6. ASSUME NEW x, NEW d \in Slots, NEW i \in 1 .. Len(wire'[d]), wire'[d][i] = x
      PROVE  UnderWay(x)
  <2>1. CASE d = c
    <3>1. i \in 1 .. Len(wire[c]) - 1 /\ i + 1 \in 1 .. Len(wire[c])
      <4>1. PICK k \in Nat : k = Len(wire[c])
        BY <1>4
      <4>2. Len(wire'[d]) = k - 1
        BY <1>3, <1>4, <2>1, <4>1
      <4>3. i \in 1 .. k - 1 /\ i + 1 \in 1 .. k
        BY <1>6, <4>2
      <4>4. QED
        BY <4>1, <4>3
    <3>2. wire[c][i + 1] = x
      BY <1>3, <1>4, <1>6, <2>1, <3>1
    <3>3. QED
      BY <3>1, <3>2 DEF UnderWay
  <2>2. CASE d # c
    BY <1>3, <1>6, <2>2 DEF UnderWay
  <2>3. QED
    BY <2>1, <2>2
<1>7. QED
  BY <1>5, <1>6 DEF UnderWay

LEMMA PutMoves ==
    ASSUME DeliveryInv, UNCHANGED <<serverVars, receiverVars>>, conn \in Slots,
           NEW s \in 0 .. LastFrame, Put(s)
    PROVE  \A x : UnderWay(x)' => UnderWay(x) \/ x = s
<1>1. /\ \A d \in Slots \ {conn} : wire'[d] = wire[d]
      /\ sOpen[conn] => wire'[conn] = Append(wire[conn], s)
      /\ ~sOpen[conn] => wire'[conn] = <<>>
      /\ call' = call
  BY SenderFacts, PutKeeps DEF receiverVars
<1>2. ASSUME NEW x, NEW d \in Slots, NEW i \in 1 .. Len(wire'[d]), wire'[d][i] = x, x # s
      PROVE  UnderWay(x)
  <2>1. CASE d # conn
    BY <1>1, <1>2, <2>1 DEF UnderWay
  <2>2. CASE d = conn /\ sOpen[conn]
    <3>1. PICK q \in Seq(0 .. LastFrame) : q = wire[conn]
      BY ServerFacts, SlotTypes
    <3>2. PICK k \in Nat : k = Len(q)
      BY <3>1, QueueFacts
    <3>3. wire'[d] = Append(q, s) /\ Len(Append(q, s)) = k + 1
          /\ Append(q, s)[k + 1] = s /\ \A j \in 1 .. k : Append(q, s)[j] = q[j]
      BY <1>1, <2>2, <3>1, <3>2, QueueAppend
    <3>4. i \in 1 .. k + 1 /\ i # k + 1
      BY <1>2, <3>3
    <3>5. i \in 1 .. k
      BY <3>4
    <3>6. QED
      BY <1>2, <3>1, <3>2, <3>3, <3>5 DEF UnderWay
  <2>3. CASE d = conn /\ ~sOpen[conn]
    BY <1>1, <1>2, <2>3, EmptyQueue
  <2>4. QED
    BY <2>1, <2>2, <2>3
<1>3. QED
  BY <1>1, <1>2 DEF UnderWay

LEMMA CloseCover ==
    ASSUME DeliveryInv, CoverInv, NEW c \in Slots, CloseServerEnd(c),
           UNCHANGED <<senderVars, receiverVars>>,
           \/ acks' = acks
           \/ /\ c = conn /\ wire[c] # <<>>
              /\ acks' = [acks EXCEPT ![c] = Append(@, Ack(Head(wire[c]), FALSE))]
    PROVE  CoverInv'
<1>1. /\ conn' = conn
      /\ \A d \in Slots : /\ sOpen'[d] = (IF d = c THEN FALSE ELSE sOpen[d])
                          /\ wire'[d] = (IF d = c THEN <<>> ELSE wire[d])
                          /\ order'[d] = (IF d = c THEN <<>> ELSE order[d])
                          /\ dataIdx'[d] = (IF d = c THEN 0 ELSE dataIdx[d])
  BY ServerFacts, LinkTypes, EmptyQueue DEF CloseServerEnd
<1>2. UNCHANGED <<lastSeq, tracker, inflight, call>> /\ acked' = acked
  BY DEF receiverVars, senderVars, walVars
<1>3. InflightExact' /\ \A h \in Calls : CallTracked(h)'
  BY <1>2 DEF CoverInv, InflightExact, CallTracked, Tracked
<1>4. \A s : UnderWay(s)' => UnderWay(s)
  BY CloseMoves
<1>5. ASSUME NEW d \in Slots PROVE Fresh(d)'
  <2>1. Fresh(d) /\ sOpen'[d] = (IF d = c THEN FALSE ELSE sOpen[d])
        /\ dataIdx'[d] = (IF d = c THEN 0 ELSE dataIdx[d])
    BY <1>1 DEF CoverInv
  <2>2. QED
    BY <2>1 DEF Fresh
<1>6. ASSUME conn \in Slots PROVE AcksCovered'
  <2>1. AcksCovered
    BY <1>6 DEF CoverInv
  <2>2. Lost => Lost'
    BY <1>1, <1>2, <1>6 DEF Lost, Silent
  <2>3. Covered(acked)' = Covered(acked)
    BY <1>2 DEF Covered, Tracked
  <2>4. CASE acks' = acks
    <3>1. \A i : AckTracked(i)' = AckTracked(i)
      BY <1>1, <1>2, <2>4 DEF AckTracked, Tracked
    <3>2. QED
      BY <1>1, <2>1, <2>2, <2>3, <2>4, <3>1 DEF AcksCovered
  <2>5. CASE /\ c = conn /\ wire[c] # <<>>
             /\ acks' = [acks EXCEPT ![c] = Append(@, Ack(Head(wire[c]), FALSE))]
    <3>1. PICK q \in Seq(Answers) : q = acks[c]
      BY ServerFacts, SlotTypes
    <3>2. PICK e \in Answers : e = Ack(Head(wire[c]), FALSE) /\ ~e.ok
      <4>1. Head(wire[c]) \in 0 .. LastFrame
        BY <2>5, ServerFacts, SlotTypes, QueueTail
      <4>2. Ack(Head(wire[c]), FALSE) \in Answers /\ ~Ack(Head(wire[c]), FALSE).ok
        BY <4>1 DEF Ack, Answers
      <4>3. QED
        BY <4>2
    <3>3. PICK r : r = Append(q, e)
      OBVIOUS
    <3>4. /\ Len(q) \in Nat /\ (q = <<>> <=> Len(q) = 0) /\ r # <<>>
          /\ Len(r) = Len(q) + 1
          /\ \A i \in 1 .. Len(q) : r[i] = q[i]
          /\ r[Len(q) + 1] = e
      BY <3>3, QueueAppend, QueueFacts
    <3>5. acks'[conn'] = r /\ acks[conn] = q /\ ~Lost
      <4>1. acks \in [Slots -> Seq(Answers)]
        BY ServerFacts, LinkTypes
      <4>2. acks'[c] = r
        BY <2>5, <3>1, <3>2, <3>3, <4>1
      <4>3. QED
        BY <1>1, <2>5, <3>1, <4>2 DEF Lost, Silent
    <3>6. ASSUME NEW i \in 1 .. Len(r), r[i].ok
          PROVE  r[i].seq = Heartbeat \/ Tracked(r[i].seq)
      <4>1. i \in 1 .. Len(q)
        <5>1. i # Len(q) + 1
          BY <3>2, <3>4, <3>6, Zenon
        <5>2. PICK k \in Nat : k = Len(q)
          BY <3>4
        <5>3. i \in 1 .. k + 1 /\ i # k + 1
          BY <3>4, <5>1, <5>2
        <5>4. i \in 1 .. k
          BY <5>3
        <5>5. QED
          BY <5>2, <5>4
      <4>2. r[i] = q[i] /\ AckTracked(i)
        BY <2>1, <3>4, <3>5, <4>1 DEF AcksCovered
      <4>3. QED
        BY <3>5, <3>6, <4>2 DEF AckTracked
    <3>7. ASSUME r[1].ok PROVE r[1].seq = Heartbeat \/ Covered(acked)
      <4>1. CASE q = <<>>
        <5>1. Len(q) = 0
          BY <3>4, <4>1
        <5>2. r[0 + 1] = e
          BY <3>4, <5>1, Zenon
        <5>3. r[1] = e
          BY <5>2
        <5>4. QED
          BY <3>2, <3>7, <5>3
      <4>2. CASE q # <<>>
        <5>1. 1 \in 1 .. Len(q)
          BY <3>4, <4>2
        <5>2. r[1] = q[1]
          BY <3>4, <5>1
        <5>3. QED
          BY <2>1, <3>5, <3>7, <4>2, <5>2 DEF AcksCovered
      <4>3. QED
        BY <4>1, <4>2
    <3>8. \A i \in 1 .. Len(acks'[conn']) : AckTracked(i)'
      BY <1>2, <3>5, <3>6 DEF AckTracked, Tracked
    <3>9. QED
      BY <2>3, <3>5, <3>7, <3>8 DEF AcksCovered
  <2>6. QED
    BY <2>4, <2>5
<1>7. ASSUME conn \in Slots PROVE Below'
  <2>1. Below
    BY <1>7 DEF CoverInv
  <2>2. c # conn => acks'[conn] = acks[conn]
    OBVIOUS
  <2>3. QED
    BY <1>1, <1>2, <1>7, <2>1, <2>2, BelowKept
<1>8. QED
  BY <1>1, <1>2, <1>3, <1>4, <1>5, <1>6, <1>7, ServerCover

\* The head frame is the first one due while the round runs; a heartbeat is alone.
LEMMA FirstDue ==
    ASSUME DeliveryInv, conn \in Slots
    PROVE  /\ phase \in {"send", "wait"} => Due(1) = acked + 1
           /\ phase = "beat" => Due(1) = Heartbeat
           /\ phase \in {"peek", "redial"} => Quiet(conn)
           /\ acks[conn] = <<>> /\ order[conn] # <<>> => call[order[conn][1]].seq = Due(1)
           /\ acks[conn] = <<>> /\ order[conn] = <<>> /\ wire[conn] # <<>> => wire[conn][1] = Due(1)
           /\ phase = "beat" => Len(acks[conn]) + Len(order[conn]) + Len(wire[conn]) <= 1
<1>1. /\ LoopInv /\ CallRow /\ WireRow /\ pos \in Nat \ {0} /\ acked \in Nat /\ Heartbeat = 0
  BY SenderFacts DEF ConnInv
<1>2. /\ Len(order[conn]) \in Nat /\ Len(wire[conn]) \in Nat
      /\ (wire[conn] = <<>> <=> Len(wire[conn]) = 0) /\ (order[conn] = <<>> <=> Len(order[conn]) = 0)
  BY ServerFacts, SlotTypes
<1>3. Due(1) = win[First] /\ First \in Nat \ {0}
  <2>1. First + 1 - 1 = First /\ First \in Nat \ {0}
    BY SentType
  <2>2. QED
    BY <2>1 DEF Due
<1>4. phase \in {"send", "wait"} => Due(1) = acked + 1
  <2>1. SUFFICES ASSUME phase \in {"send", "wait"} PROVE win[First] = acked + 1
    BY <1>3
  <2>2. First \in 1 .. Len(win)
    BY <1>1, <1>3, <2>1, SenderFacts DEF LoopInv, First
  <2>3. win[First] = acked + First - First + 1
    BY <1>1, <2>1, <2>2 DEF LoopInv
  <2>4. acked + First - First + 1 = acked + 1
    BY <1>1, <1>3
  <2>5. QED
    BY <2>3, <2>4
<1>5. phase = "beat" => Due(1) = Heartbeat
  BY <1>1, <1>3 DEF LoopInv, First
<1>6. phase \in {"peek", "redial"} => Quiet(conn)
  BY IdleConn DEF Sent
<1>7. acks[conn] = <<>> => Len(acks[conn]) = 0
  BY EmptyQueue
<1>8. ASSUME acks[conn] = <<>>, order[conn] # <<>> PROVE call[order[conn][1]].seq = Due(1)
  <2>1. 1 \in 1 .. Len(order[conn])
    BY <1>2, <1>8
  <2>2. call[order[conn][1]].seq = Due(0 + 1)
    BY <1>1, <1>7, <1>8, <2>1 DEF CallRow
  <2>3. QED
    BY <2>2
<1>9. ASSUME acks[conn] = <<>>, order[conn] = <<>>, wire[conn] # <<>>
      PROVE  wire[conn][1] = Due(1)
  <2>1. 1 \in 1 .. Len(wire[conn]) /\ Len(order[conn]) = 0 /\ Len(acks[conn]) = 0
    BY <1>2, <1>7, <1>9
  <2>2. wire[conn][1] = Due(0 + 0 + 1)
    BY <1>1, <2>1 DEF WireRow
  <2>3. QED
    BY <2>2
<1>10. ASSUME phase = "beat"
       PROVE  Len(acks[conn]) + Len(order[conn]) + Len(wire[conn]) <= 1
  <2>1. Sent \in {0, 1}
    BY <1>1, <1>10 DEF Sent, LoopInv
  <2>2. PICK n : n = Len(acks[conn]) + Len(order[conn]) + Len(wire[conn])
    OBVIOUS
  <2>3. n \in Nat /\ n <= Sent
    BY <2>2, ConnLengths, SumType
  <2>4. n <= 1
    BY <2>1, <2>3
  <2>5. QED
    BY <2>2, <2>4
<1>11. QED
  BY <1>4, <1>5, <1>6, <1>8, <1>9, <1>10

\* The server starts a call on the next frame of a connection.
LEMMA ReadFrameCover ==
    ASSUME DeliveryInv, CoverInv, NEW c \in Slots, ReadFrame(c), UNCHANGED senderVars
    PROVE  CoverInv'
<1>1. PICK h \in Calls :
          /\ call[h].pc = "free"
          /\ HandleFrame(h, Head(wire[c]), ~(Counted(Head(wire[c])) /\ dataIdx[c] > 0))
          /\ order' = [order EXCEPT ![c] = Append(@, h)]
  BY DEF ReadFrame
<1>2. /\ sOpen[c] /\ wire[c] # <<>> /\ UNCHANGED <<conn, sOpen, acks>>
      /\ dataIdx' = [dataIdx EXCEPT ![c] = IF Counted(Head(wire[c])) THEN 1 ELSE @]
      /\ wire' = [wire EXCEPT ![c] = Tail(@)]
      /\ UNCHANGED <<lastSeq, tracker, inflight, acked, phase>>
  BY DEF ReadFrame, senderVars, walVars
<1>3. PICK s, b : /\ s = Head(wire[c]) /\ b = ~(Counted(Head(wire[c])) /\ dataIdx[c] > 0)
                  /\ call' = [call EXCEPT ![h] = NewCall("decode", s, b)]
  BY <1>1 DEF HandleFrame
<1>4. /\ InflightExact' /\ (\A g \in Calls : CallTracked(g)')
      /\ call'[h] = NewCall("decode", s, b) /\ \A g \in Calls \ {h} : call'[g] = call[g]
  <2>1. call[h].pc \in {"free", "ret"} /\ "decode" \in {"free", "decode"}
    BY <1>1
  <2>2. UNCHANGED <<inflight, tracker>>
    BY <1>2
  <2>3. h \in Calls /\ call' = [call EXCEPT ![h] = NewCall("decode", s, b)]
    BY <1>1, <1>3
  <2>4. QED
    BY <2>1, <2>2, <2>3, ResetCover
<1>5. /\ s = wire[c][1] /\ Len(wire[c]) \in Nat /\ 1 \in 1 .. Len(wire[c])
      /\ Len(Tail(wire[c])) = Len(wire[c]) - 1
      /\ \A i \in 1 .. Len(wire[c]) - 1 : Tail(wire[c])[i] = wire[c][i + 1]
  BY <1>2, <1>3, ServerFacts, SlotTypes, QueueTail
<1>6. /\ wire'[c] = Tail(wire[c]) /\ \A d \in Slots \ {c} : wire'[d] = wire[d]
      /\ order'[c] = Append(order[c], h) /\ \A d \in Slots \ {c} : order'[d] = order[d]
      /\ dataIdx'[c] = (IF Counted(s) THEN 1 ELSE dataIdx[c])
      /\ \A d \in Slots \ {c} : dataIdx'[d] = dataIdx[d]
      /\ dataIdx[c] \in {0, 1}
  BY <1>1, <1>2, <1>3, ServerFacts, LinkTypes
<1>7. \A x : UnderWay(x)' => UnderWay(x)
  BY ReadFrameMoves
<1>8. ASSUME NEW d \in Slots PROVE Fresh(d)'
  <2>1. Fresh(d)
    BY DEF CoverInv
  <2>2. CASE d = c
    BY <1>2, <1>6, <2>1, <2>2 DEF Fresh, Counted
  <2>3. CASE d # c
    BY <1>2, <1>6, <2>1, <2>3 DEF Fresh
  <2>4. QED
    BY <2>2, <2>3
<1>9. ASSUME conn \in Slots PROVE AcksCovered'
  <2>1. AcksCovered /\ ~Lost
    BY <1>2, <1>9 DEF CoverInv, Lost, Silent
  <2>2. Covered(acked)' = Covered(acked) /\ \A i : AckTracked(i)' = AckTracked(i)
    BY <1>2 DEF Covered, Tracked, AckTracked
  <2>3. QED
    BY <1>2, <2>1, <2>2 DEF AcksCovered
<1>10. ASSUME conn \in Slots PROVE Below'
  <2>1. Below
    BY <1>10 DEF CoverInv
  <2>2. CASE c # conn
    <3>1. order[conn] # <<>> => call'[order[conn][1]] = call[order[conn][1]]
      BY <1>1, <1>4, <1>10, FirstCall
    <3>2. QED
      BY <1>2, <1>6, <1>10, <2>1, <2>2, <3>1, BelowKept
  <2>3. CASE c = conn
    <3>1. Covered(acked)' = Covered(acked)
      BY <1>2 DEF Covered, Tracked
    <3>2. order'[conn'] # <<>> /\ order'[conn'][1] = (IF order[conn] = <<>> THEN h ELSE order[conn][1])
      <4>1. PICK q \in Seq(Calls) : q = order[conn]
        BY <1>10, ServerFacts, SlotTypes
      <4>2. Append(q, h) # <<>> /\ Append(q, h)[1] = IF q = <<>> THEN h ELSE q[1]
        BY QueueAppend, QueueFacts
      <4>3. QED
        BY <1>2, <1>6, <2>3, <4>1, <4>2
    <3>3. CASE phase \in {"send", "wait"}
      <4>1. CASE Covered(acked)
        BY <1>2, <3>1, <3>3, <4>1 DEF Below
      <4>2. CASE acks[conn] # <<>> /\ ~Covered(acked)
        BY <1>2, <2>1, <2>3, <3>3, <4>2 DEF Below, Touched, HeadOpen
      <4>3. CASE acks[conn] = <<>> /\ order[conn] # <<>> /\ ~Covered(acked)
        <5>1. PICK g : g = order[conn][1]
          OBVIOUS
        <5>2. Early(g) \/ Refused(g)
          BY <1>2, <2>1, <2>3, <3>3, <4>3, <5>1 DEF Below, Touched, HeadOpen
        <5>3. g \in Calls \ {h}
          BY <1>1, <1>10, <4>3, <5>1, FirstCall
        <5>4. Early(g)' \/ Refused(g)'
          BY <1>2, <1>4, <5>2, <5>3 DEF Early, Refused
        <5>5. order'[conn'][1] = g
          BY <3>2, <4>3, <5>1
        <5>6. HeadOpen'
          BY <1>2, <3>2, <4>3, <5>4, <5>5 DEF HeadOpen
        <5>7. QED
          BY <1>2, <3>3, <5>6 DEF Below
      <4>4. CASE acks[conn] = <<>> /\ order[conn] = <<>> /\ ~Covered(acked)
        <5>1. dataIdx[conn] = 0
          BY <1>2, <1>6, <2>1, <2>3, <3>3, <4>4 DEF Below, Touched, HeadOpen
        <5>2. b = TRUE
          <6>1. ~(dataIdx[c] > 0)
            BY <2>3, <5>1
          <6>2. QED
            BY <1>3, <6>1
        <5>3. s = acked + 1
          BY <1>2, <1>5, <1>10, <2>3, <3>3, <4>4, FirstDue
        <5>4. Early(h)'
          BY <1>2, <1>4, <5>2, <5>3 DEF Early, NewCall
        <5>5. order'[conn'][1] = h
          BY <3>2, <4>4
        <5>6. HeadOpen'
          BY <1>2, <3>2, <4>4, <5>4, <5>5 DEF HeadOpen
        <5>7. QED
          BY <1>2, <3>3, <5>6 DEF Below
      <4>5. QED
        BY <4>1, <4>2, <4>3, <4>4
    <3>4. CASE phase \notin {"send", "wait"}
      <4>1. phase = "beat"
        <5>1. phase \notin {"peek", "redial"}
          BY <1>2, <1>10, <2>3, FirstDue DEF Quiet
        <5>2. QED
          BY <3>4, <5>1, SenderFacts DEF SenderTypeOK
      <4>2. s = Heartbeat
        <5>1. PICK a \in Nat, o \in Nat, w \in Nat :
                  /\ a = Len(acks[conn]) /\ o = Len(order[conn]) /\ w = Len(wire[conn])
                  /\ (acks[conn] = <<>> <=> a = 0) /\ (order[conn] = <<>> <=> o = 0)
          BY <1>10, ServerFacts, SlotTypes
        <5>2. a + o + w <= 1
          BY <1>10, <4>1, <5>1, FirstDue, Zenon
        <5>3. w >= 1
          BY <1>5, <2>3, <5>1
        <5>4. a = 0 /\ o = 0
          BY <5>2, <5>3
        <5>5. QED
          BY <1>2, <1>5, <1>10, <2>3, <4>1, <5>1, <5>4, FirstDue
      <4>3. dataIdx'[conn'] = dataIdx[conn]
        BY <1>2, <1>6, <2>3, <4>2 DEF Counted
      <4>4. QED
        BY <1>2, <2>1, <3>1, <3>4, <4>3 DEF Below
    <3>5. QED
      BY <3>3, <3>4
  <2>4. QED
    BY <2>2, <2>3
<1>11. UNCHANGED <<senderVars, lastSeq, tracker, conn>>
  BY <1>2
<1>12. QED
  BY <1>4, <1>7, <1>8, <1>9, <1>10, <1>11, ServerCover

\* The oldest call of a connection is answered.
LEMMA WriteAckCover ==
    ASSUME DeliveryInv, CoverInv, NEW c \in Slots, WriteAck(c), UNCHANGED senderVars
    PROVE  CoverInv'
<1>1. PICK h : h = Head(order[c])
  OBVIOUS
<1>2. /\ sOpen[c] /\ order[c] # <<>> /\ call[h].pc = "ret"
      /\ acks' = [acks EXCEPT ![c] = IF c = conn THEN Append(@, Ack(call[h].seq, call[h].ok)) ELSE @]
      /\ call' = [call EXCEPT ![h] = NewCall("free", Heartbeat, FALSE)]
      /\ order' = [order EXCEPT ![c] = Tail(@)]
      /\ UNCHANGED <<conn, sOpen, wire, dataIdx, lastSeq, tracker, inflight, acked, phase>>
  BY <1>1 DEF WriteAck, Idle, senderVars, walVars
<1>3. h \in Calls /\ h = order[c][1] /\ call[h] \in CallRecords
  BY <1>1, <1>2, FirstCall, ServerFacts
<1>4. /\ InflightExact' /\ (\A g \in Calls : CallTracked(g)')
      /\ call'[h] = NewCall("free", Heartbeat, FALSE) /\ \A g \in Calls \ {h} : call'[g] = call[g]
  <2>1. call[h].pc \in {"free", "ret"} /\ "free" \in {"free", "decode"}
    BY <1>2
  <2>2. UNCHANGED <<inflight, tracker>>
    BY <1>2
  <2>3. h \in Calls /\ call' = [call EXCEPT ![h] = NewCall("free", Heartbeat, FALSE)]
    BY <1>2, <1>3
  <2>4. QED
    BY <2>1, <2>2, <2>3, ResetCover
<1>5. \A x : UnderWay(x)' => UnderWay(x) \/ x = Heartbeat
  BY <1>2, <1>4 DEF UnderWay, NewCall
<1>6. \A d \in Slots : Fresh(d)'
  BY <1>2 DEF CoverInv, Fresh
<1>7. Covered(acked)' = Covered(acked) /\ \A s : Tracked(s)' = Tracked(s)
  BY <1>2 DEF Covered, Tracked
<1>8. PICK e \in Answers : e = Ack(call[h].seq, call[h].ok) /\ e.seq = call[h].seq /\ e.ok = call[h].ok
  <2>1. Ack(call[h].seq, call[h].ok) \in Answers
    BY <1>3, DeliveryConstants DEF CallRecords, Ack, Answers
  <2>2. QED
    BY <2>1 DEF Ack
<1>9. ASSUME c = conn, conn \in Slots, call[h].ok, acks[conn] = <<>>
      PROVE  call[h].seq = Heartbeat \/ Covered(acked)
  <2>1. CASE phase \in {"send", "wait"}
    <3>1. ~Early(h) /\ ~Refused(h)
      BY <1>2, <1>9 DEF Early, Refused
    <3>2. Touched /\ ~HeadOpen /\ Below
      BY <1>2, <1>3, <1>9, <3>1 DEF CoverInv, Touched, HeadOpen
    <3>3. QED
      BY <1>2, <1>9, <2>1, <3>2 DEF Below
  <2>2. CASE phase \notin {"send", "wait"}
    <3>1. call[h].seq = Due(1)
      BY <1>2, <1>3, <1>9, FirstDue
    <3>2. phase \notin {"peek", "redial"}
      BY <1>2, <1>9, FirstDue DEF Quiet
    <3>3. phase = "beat"
      BY <2>2, <3>2, SenderFacts DEF SenderTypeOK
    <3>4. QED
      BY <1>9, <3>1, <3>3, FirstDue
  <2>3. QED
    BY <2>1, <2>2
<1>10. PICK q, r : q = acks[c] /\ r = acks'[c] /\ q \in Seq(Answers)
  BY ServerFacts, SlotTypes
<1>11. /\ r = (IF c = conn THEN Append(q, e) ELSE q)
       /\ \A d \in Slots \ {c} : acks'[d] = acks[d] /\ order'[d] = order[d]
  BY <1>2, <1>8, <1>10, ServerFacts, LinkTypes
<1>12. /\ Len(q) \in Nat /\ (q = <<>> <=> Len(q) = 0) /\ Append(q, e) # <<>>
       /\ Len(Append(q, e)) = Len(q) + 1
       /\ \A i \in 1 .. Len(q) : Append(q, e)[i] = q[i]
       /\ Append(q, e)[Len(q) + 1] = e
  BY <1>8, <1>10, QueueAppend, QueueFacts
<1>13. Append(q, e)[1] = IF q = <<>> THEN e ELSE q[1]
  <2>1. CASE q = <<>>
    <3>1. Append(q, e)[0 + 1] = e
      BY <1>12, <2>1, Zenon
    <3>2. QED
      BY <2>1, <3>1
  <2>2. CASE q # <<>>
    <3>1. 1 \in 1 .. Len(q)
      BY <1>12, <2>2
    <3>2. QED
      BY <1>12, <2>2, <3>1
  <2>3. QED
    BY <2>1, <2>2
<1>14. ASSUME conn \in Slots PROVE AcksCovered'
  <2>1. AcksCovered
    BY <1>14 DEF CoverInv
  <2>2. CASE Lost
    <3>1. Lost'
      BY <1>2, <1>4, <2>2 DEF Lost, Silent, NewCall
    <3>2. QED
      BY <3>1 DEF AcksCovered
  <2>3. CASE c # conn /\ ~Lost
    <3>1. acks'[conn] = acks[conn]
      BY <1>11, <1>14, <2>3
    <3>2. \A i : AckTracked(i)' = AckTracked(i)
      BY <1>2, <1>7, <3>1 DEF AckTracked
    <3>3. QED
      BY <1>2, <1>7, <2>1, <2>3, <3>1, <3>2 DEF AcksCovered
  <2>4. CASE c = conn /\ ~Lost
    <3>1. acks'[conn'] = Append(q, e) /\ acks[conn] = q
      BY <1>2, <1>10, <1>11, <2>4
    <3>2. ASSUME NEW i \in 1 .. Len(Append(q, e)) PROVE AckTracked(i)'
      <4>1. CASE i = Len(q) + 1
        <5>1. acks'[conn'][i] = e /\ CallTracked(h)
          BY <1>3, <1>12, <3>1, <4>1 DEF CoverInv
        <5>2. QED
          BY <1>7, <1>8, <5>1 DEF AckTracked, CallTracked
      <4>2. CASE i # Len(q) + 1
        <5>1. PICK k \in Nat : k = Len(q)
          BY <1>12
        <5>2. i \in 1 .. k + 1 /\ i # k + 1
          BY <1>12, <3>2, <4>2, <5>1
        <5>3. i \in 1 .. k
          BY <5>2
        <5>4. acks'[conn'][i] = acks[conn][i] /\ AckTracked(i)
          BY <1>12, <2>1, <2>4, <3>1, <5>1, <5>3 DEF AcksCovered
        <5>5. QED
          BY <1>7, <5>4 DEF AckTracked
      <4>3. QED
        BY <4>1, <4>2
    <3>3. ASSUME Append(q, e)[1].ok
          PROVE  Append(q, e)[1].seq = Heartbeat \/ Covered(acked)
      <4>1. CASE q = <<>>
        <5>1. Append(q, e)[1] = e
          BY <1>13, <4>1
        <5>2. QED
          BY <1>8, <1>9, <1>14, <2>4, <3>1, <3>3, <4>1, <5>1
      <4>2. CASE q # <<>>
        BY <1>13, <2>1, <2>4, <3>1, <3>3, <4>2 DEF AcksCovered
      <4>3. QED
        BY <4>1, <4>2
    <3>4. QED
      BY <1>7, <3>1, <3>2, <3>3 DEF AcksCovered
  <2>5. QED
    BY <2>2, <2>3, <2>4
<1>15. ASSUME conn \in Slots PROVE Below'
  <2>1. Below
    BY <1>15 DEF CoverInv
  <2>2. CASE c # conn
    <3>1. order[conn] # <<>> => call'[order[conn][1]] = call[order[conn][1]]
      BY <1>2, <1>3, <1>4, <1>15, <2>2, FirstCall
    <3>2. QED
      BY <1>2, <1>11, <1>15, <2>1, <2>2, <3>1, BelowKept
  <2>3. CASE c = conn
    <3>1. acks'[conn'] = Append(q, e) /\ acks[conn] = q
      BY <1>2, <1>10, <1>11, <2>3
    <3>2. Touched
      BY <1>2, <2>3 DEF Touched
    <3>3. CASE phase \in {"send", "wait"} /\ ~Covered(acked)
      <4>1. HeadOpen
        BY <1>2, <2>1, <2>3, <3>2, <3>3 DEF Below
      <4>2. ~Append(q, e)[1].ok
        <5>1. CASE q = <<>>
          <6>1. Refused(h)
            BY <1>2, <1>3, <2>3, <3>1, <4>1, <5>1 DEF HeadOpen, Early
          <6>2. QED
            BY <1>8, <1>13, <5>1, <6>1 DEF Refused
        <5>2. CASE q # <<>>
          BY <1>13, <3>1, <4>1, <5>2 DEF HeadOpen
        <5>3. QED
          BY <5>1, <5>2
      <4>3. HeadOpen'
        BY <1>12, <3>1, <4>2 DEF HeadOpen
      <4>4. QED
        BY <1>2, <3>3, <4>3 DEF Below
    <3>4. CASE ~(phase \in {"send", "wait"} /\ ~Covered(acked))
      BY <1>2, <1>7, <2>1, <3>4 DEF Below
    <3>5. QED
      BY <3>3, <3>4
  <2>4. QED
    BY <2>2, <2>3
<1>16. UNCHANGED <<senderVars, lastSeq, tracker, conn>>
  BY <1>2
<1>17. QED
  BY <1>4, <1>5, <1>6, <1>14, <1>15, <1>16, ServerCover

LEMMA DropResultCover ==
    ASSUME DeliveryInv, CoverInv, NEW h \in Calls, DropResult(h), UNCHANGED senderVars
    PROVE  CoverInv'
<1>1. /\ call[h].pc = "ret" /\ ~Awaited(h)
      /\ call' = [call EXCEPT ![h] = NewCall("free", Heartbeat, FALSE)]
      /\ UNCHANGED <<conn, sOpen, wire, acks, order, dataIdx, lastSeq, tracker, inflight, acked>>
  BY DEF DropResult, Idle, linkVars, serverVars, senderVars, walVars
<1>2. /\ InflightExact' /\ (\A g \in Calls : CallTracked(g)')
      /\ call'[h] = NewCall("free", Heartbeat, FALSE) /\ \A g \in Calls \ {h} : call'[g] = call[g]
  <2>1. call[h].pc \in {"free", "ret"} /\ "free" \in {"free", "decode"}
    BY <1>1
  <2>2. UNCHANGED <<inflight, tracker>>
    BY <1>1
  <2>3. QED
    BY <1>1, <2>1, <2>2, ResetCover
<1>3. \A x : UnderWay(x)' => UnderWay(x) \/ x = Heartbeat
  BY <1>1, <1>2 DEF UnderWay, NewCall
<1>4. \A d \in Slots : Fresh(d)'
  BY <1>1 DEF CoverInv, Fresh
<1>5. ASSUME conn \in Slots PROVE AcksCovered' /\ Below'
  <2>1. AcksCovered /\ Below
    BY <1>5 DEF CoverInv
  <2>2. Covered(acked)' = Covered(acked) /\ \A i : AckTracked(i)' = AckTracked(i)
    BY <1>1 DEF Covered, Tracked, AckTracked
  <2>3. Lost => Lost'
    BY <1>1, <1>2 DEF Lost, Silent, NewCall
  <2>4. AcksCovered'
    BY <1>1, <2>1, <2>2, <2>3 DEF AcksCovered
  <2>5. order[conn] # <<>> => call'[order[conn][1]] = call[order[conn][1]]
    <3>1. ASSUME order[conn] # <<>> PROVE order[conn][1] \in Calls /\ order[conn][1] # h
      <4>1. order[conn][1] \in Calls /\ order[conn] \in Seq(Calls) /\ Len(order[conn]) >= 1
        BY <1>5, <3>1, FirstCall, ServerFacts, SlotTypes
      <4>2. 1 \in DOMAIN order[conn]
        BY <4>1
      <4>3. QED
        BY <1>1, <1>5, <4>1, <4>2 DEF Awaited
    <3>2. QED
      BY <1>2, <3>1
  <2>6. Below'
    BY <1>1, <1>5, <2>1, <2>5, BelowKept
  <2>7. QED
    BY <2>4, <2>6
<1>6. UNCHANGED <<senderVars, lastSeq, tracker, conn>>
  BY <1>1
<1>7. QED
  BY <1>2, <1>3, <1>4, <1>5, <1>6, ServerCover

\* A restart of the receiver forgets what was tracked, and everything on its way.
LEMMA CrashReceiverCover ==
    ASSUME DeliveryInv, CoverInv, CrashReceiver, UNCHANGED senderVars
    PROVE  CoverInv'
<1>1. /\ \A c \in Slots : sOpen'[c] = FALSE /\ wire'[c] = <<>> /\ dataIdx'[c] = 0
      /\ \A h \in Calls : call'[h] = Idle
      /\ lastSeq' = lastSeqFile /\ tracker' = InitTracker(lastSeqFile) /\ conn' = conn
      /\ acked' = acked
  BY DEF CrashReceiver, RestartReceiver, senderVars, walVars
<1>2. InflightExact'
  BY RestartExact DEF CrashReceiver
<1>3. lastSeq' <= tracker'.last
  <2>1. lastSeqFile \in 0 .. MaxSeq /\ MaxSeq \in Nat
    BY ServerFacts, CoverTypes DEF ReceiverInv, ReceiverTypeOK
  <2>2. QED
    BY <1>1, <2>1 DEF InitTracker
<1>4. \A h \in Calls : CallTracked(h)'
  BY <1>1 DEF CallTracked, Idle, NewCall
<1>5. Behind'
  <2>1. \A s : UnderWay(s)' => s = Heartbeat
    BY <1>1, EmptyQueue DEF UnderWay, Idle, NewCall
  <2>2. QED
    BY <2>1, SenderFacts DEF Behind, Heartbeat
<1>6. conn' \in Slots => AcksCovered' /\ Below'
  BY <1>1 DEF AcksCovered, Lost, Silent, Below, Idle, NewCall
<1>7. QED
  BY <1>1, <1>2, <1>3, <1>4, <1>5, <1>6 DEF CoverInv, Fresh
-----------------------------------------------------------------------------
\* What a step of the sender leaves as it was.
LEMMA SenderCover ==
    ASSUME CoverInv, UNCHANGED receiverVars, Behind', \A c \in Slots : Fresh(c)',
           conn' \in Slots => AcksCovered' /\ Below'
    PROVE  CoverInv'
<1>1. UNCHANGED <<lastSeq, tracker, inflight, call>>
  BY DEF receiverVars
<1>2. InflightExact' /\ \A h \in Calls : CallTracked(h)'
  BY <1>1 DEF CoverInv, InflightExact, CallTracked, Tracked
<1>3. QED
  BY <1>1, <1>2 DEF CoverInv

\* A step that sends nothing and commits nothing.
LEMMA QuietBehind ==
    ASSUME DeliveryInv, Behind, UNCHANGED <<tracker, call, wire>>, acked' \in 0 .. acked
    PROVE  Behind'
<1>1. acked \in Nat /\ 1 .. acked' \subseteq 1 .. acked
  BY SenderFacts
<1>2. \A s : UnderWay(s)' = UnderWay(s)
  BY DEF UnderWay
<1>3. Covered(acked) => Covered(acked)'
  BY <1>1 DEF Covered, Tracked
<1>4. QED
  BY <1>1, <1>2, <1>3 DEF Behind

\* The sender dials, or starts a round or a heartbeat on the connection it has.
LEMMA StartCover ==
    ASSUME DeliveryInv, CoverInv, UNCHANGED <<serverVars, receiverVars, walVars>>,
           phase \in {"peek", "redial"}, Connected \/ Dial(FALSE)
    PROVE  CoverInv'
<1>1. /\ UNCHANGED <<tracker, call, wire, acks, order, dataIdx, acked>>
      /\ Sent = 0
  BY DEF serverVars, receiverVars, walVars, Connected, linkVars, Dial, Sent
<1>2. Covered(acked)' = Covered(acked)
  BY <1>1 DEF Covered, Tracked
<1>3. Behind'
  BY <1>1, SenderFacts, QuietBehind DEF CoverInv
<1>4. CASE conn # NoConn /\ UNCHANGED linkVars
  <2>1. UNCHANGED <<conn, sOpen>>
    BY <1>4 DEF linkVars
  <2>2. \A c \in Slots : Fresh(c)'
    BY <1>1, <2>1 DEF CoverInv, Fresh
  <2>3. ASSUME conn \in Slots PROVE AcksCovered' /\ Below'
    <3>1. Quiet(conn) /\ Below
      BY <1>1, <2>3, IdleConn DEF CoverInv
    <3>2. AcksCovered'
      BY <1>1, <2>1, <3>1, EmptyQueue DEF Quiet, AcksCovered
    <3>3. dataIdx[conn] = 1 /\ sOpen[conn] => Covered(acked)
      BY <3>1 DEF Below
    <3>4. Below'
      BY <1>1, <1>2, <2>1, <3>1, <3>3 DEF Below, Touched, Quiet
    <3>5. QED
      BY <3>2, <3>4
  <2>4. QED
    BY <1>3, <2>1, <2>2, <2>3, SenderCover
<1>5. ASSUME NEW b \in BOOLEAN, Dial(b) PROVE CoverInv'
  <2>1. PICK c \in FreeSlots : conn' = c /\ sOpen' = [sOpen EXCEPT ![c] = b]
    BY <1>5 DEF Dial
  <2>2. c \in Slots /\ ~sOpen[c] /\ sOpen \in [Slots -> BOOLEAN] /\ dataIdx[c] \in {0, 1}
    BY <2>1, ServerFacts, LinkTypes DEF FreeSlots
  <2>3. dataIdx[c] = 0 /\ Quiet(c)'
    BY <1>5, <2>1, <2>2, SenderFacts, DialKeeps DEF CoverInv, Fresh
  <2>4. ASSUME NEW d \in Slots PROVE Fresh(d)'
    <3>1. Fresh(d)
      BY DEF CoverInv
    <3>2. QED
      BY <1>1, <2>1, <2>2, <2>3, <3>1 DEF Fresh
  <2>5. AcksCovered'
    BY <2>1, <2>3, EmptyQueue DEF Quiet, AcksCovered
  <2>6. Below'
    BY <1>1, <2>1, <2>3 DEF Quiet, Below, Touched
  <2>7. QED
    BY <1>3, <2>4, <2>5, <2>6, SenderCover
<1>6. QED
  BY <1>4, <1>5 DEF Connected

\* The sender hangs up, for whatever reason, and may forget commits.
LEMMA HangupCover ==
    ASSUME DeliveryInv, CoverInv, UNCHANGED <<serverVars, receiverVars>>, Hangup,
           acked' \in 0 .. acked
    PROVE  CoverInv'
<1>1. UNCHANGED <<tracker, call, wire, sOpen, dataIdx>> /\ conn' \notin Slots
  BY LinkAssumption DEF serverVars, receiverVars, Hangup
<1>2. Behind'
  BY <1>1, QuietBehind DEF CoverInv
<1>3. \A c \in Slots : Fresh(c)'
  BY <1>1 DEF CoverInv, Fresh
<1>4. QED
  BY <1>1, <1>2, <1>3, SenderCover

\* The next frame of the round, or the heartbeat, is sent: not a committed frame.
LEMMA PutCover ==
    ASSUME DeliveryInv, CoverInv, UNCHANGED <<serverVars, receiverVars, walVars>>,
           conn \in Slots, NEW s \in 0 .. LastFrame, Put(s), s \notin 1 .. acked,
           phase \in {"send", "wait"} <=> phase' \in {"send", "wait"}
    PROVE  CoverInv'
<1>1. /\ UNCHANGED <<conn, sOpen, acks, order, dataIdx>>
      /\ \A d \in Slots \ {conn} : wire'[d] = wire[d]
      /\ sOpen[conn] => wire'[conn] = Append(wire[conn], s)
      /\ ~sOpen[conn] => wire'[conn] = <<>>
  BY SenderFacts, PutKeeps
<1>2. UNCHANGED <<tracker, call, acked>>
  BY DEF receiverVars, walVars
<1>3. Covered(acked)' = Covered(acked) /\ \A i : AckTracked(i)' = AckTracked(i)
  BY <1>1, <1>2 DEF Covered, Tracked, AckTracked
<1>4. \A x : UnderWay(x)' => UnderWay(x) \/ x = s
  BY PutMoves
<1>5. Behind'
  <2>1. ASSUME NEW x \in 1 .. acked, UnderWay(x)' PROVE Covered(acked)
    BY <1>4, <2>1 DEF CoverInv, Behind
  <2>2. QED
    BY <1>2, <1>3, <2>1 DEF Behind
<1>6. \A c \in Slots : Fresh(c)'
  BY <1>1 DEF CoverInv, Fresh
<1>7. AcksCovered' /\ Below'
  <2>1. AcksCovered /\ Below
    BY DEF CoverInv
  <2>2. Lost => Lost'
    <3>1. ASSUME Lost, NEW d \in Slots PROVE wire'[d] = <<>>
      BY <1>1, <3>1 DEF Lost, Silent
    <3>2. QED
      BY <1>1, <1>2, <3>1 DEF Lost, Silent
  <2>3. AcksCovered'
    BY <1>1, <1>3, <2>1, <2>2 DEF AcksCovered
  <2>4. HeadOpen' = HeadOpen
    BY <1>1, <1>2 DEF HeadOpen, Early, Refused
  <2>5. QED
    BY <1>1, <1>3, <2>1, <2>3, <2>4 DEF Below, Touched
<1>8. QED
  BY <1>1, <1>5, <1>6, <1>7, SenderCover

\* The last response of the round is read and moves nothing in the WAL: that of a
\* heartbeat, or a refusal in stop-and-wait.
LEMMA LastAck ==
    ASSUME DeliveryInv, HeartbeatAck \/ (AckFail /\ Pipeline = 1)
    PROVE  conn' = conn /\ conn \in Slots /\ acks'[conn'] = <<>>
<1>1. /\ acks[conn] # <<>> /\ acks' = [acks EXCEPT ![conn] = Tail(@)] /\ conn' = conn
      /\ phase \in {"wait", "beat"} /\ (phase = "wait" => Pipeline = 1)
  BY DEF HeartbeatAck, AckFail
<1>2. conn \in Slots
  BY <1>1, SenderFacts DEF LoopInv
<1>3. PICK a \in Nat, o \in Nat, w \in Nat :
          a = Len(acks[conn]) /\ o = Len(order[conn]) /\ w = Len(wire[conn])
  BY <1>2, ServerFacts, SlotTypes
<1>4. a <= 1
  <2>1. a + o + w <= 1
    <3>1. CASE phase = "beat"
      BY <1>2, <1>3, <3>1, FirstDue, Zenon
    <3>2. CASE phase = "wait"
      <4>1. PICK m \in Nat : m = Sent
        BY SentType, Zenon
      <4>2. a + o + w <= m
        BY <1>2, <1>3, <4>1, ConnLengths, Zenon
      <4>3. m <= 1
        <5>1. m = Len(win) - pos + 1
          BY <3>2, <4>1 DEF Sent
        <5>2. PICK n \in Nat : n = Len(win) /\ n <= 1
          BY <1>1, <3>2, SenderFacts
        <5>3. n - pos + 1 <= 1
          BY <5>2, SenderFacts
        <5>4. QED
          BY <5>1, <5>2, <5>3
      <4>4. PICK i : i = a + o + w /\ i \in Nat
        BY SumType, Zenon
      <4>5. i <= 1
        BY <4>1, <4>2, <4>3, <4>4
      <4>6. QED
        BY <4>4, <4>5
    <3>3. QED
      BY <1>1, <3>1, <3>2
  <2>2. a \in Nat /\ o \in Nat /\ w \in Nat
    BY <1>3
  <2>3. QED
    BY <2>1, <2>2, SMT
<1>5. PICK q \in Seq(Answers) : q = acks[conn]
  BY <1>2, ServerFacts, SlotTypes
<1>6. acks'[conn'] = Tail(q)
  BY <1>1, <1>2, <1>5, ServerFacts, LinkTypes
<1>7. Tail(q) \in Seq(Answers) /\ Len(Tail(q)) = Len(q) - 1 /\ Len(q) \in Nat /\ Len(q) >= 1
  BY <1>1, <1>5, QueueTail, QueueFacts
<1>8. Len(Tail(q)) = 0
  <2>1. PICK k \in Nat : k = Len(q) /\ k <= 1 /\ k >= 1
    BY <1>3, <1>4, <1>5, <1>7
  <2>2. QED
    BY <1>7, <2>1
<1>9. QED
  BY <1>1, <1>2, <1>6, <1>7, <1>8, QueueFacts

LEMMA LastAckCover ==
    ASSUME DeliveryInv, CoverInv, UNCHANGED <<serverVars, receiverVars, walVars>>,
           UNCHANGED <<conn, sOpen, wire>>, conn \in Slots, acks'[conn'] = <<>>,
           phase' = "peek", phase \notin {"send", "wait"} \/ dataIdx[conn] = 0
    PROVE  CoverInv'
<1>1. UNCHANGED <<tracker, call, acked, dataIdx>>
  BY DEF receiverVars, serverVars, walVars
<1>2. Behind'
  BY <1>1, SenderFacts, QuietBehind DEF CoverInv
<1>3. \A c \in Slots : Fresh(c)'
  BY <1>1 DEF CoverInv, Fresh
<1>4. AcksCovered'
  BY EmptyQueue DEF AcksCovered
<1>5. Below'
  <2>1. Covered(acked)' = Covered(acked) /\ Below
    BY <1>1 DEF Covered, Tracked, CoverInv
  <2>2. QED
    BY <1>1, <2>1 DEF Below
<1>6. QED
  BY <1>2, <1>3, <1>4, <1>5, SenderCover

\* A positive response: the head frame is committed, and with it everything below is
\* tracked, unless the receiver has restarted and nothing is on its way.
LEMMA AckCommitsTracked ==
    ASSUME DeliveryInv, CoverInv, AckSuccess, UNCHANGED <<serverVars, receiverVars>>
    PROVE  /\ acked' = acked + 1 /\ conn \in Slots
           /\ Lost \/ Covered(acked')
<1>1. /\ phase = "wait" /\ acks[conn] # <<>> /\ Head(acks[conn]).ok /\ Commit(win[pos])
      /\ acked \in Nat
  BY SenderFacts DEF AckSuccess
<1>2. conn \in Slots /\ Heartbeat = 0
  BY <1>1, SenderFacts DEF LoopInv
<1>3. Head(acks[conn]) = acks[conn][1] /\ 1 \in 1 .. Len(acks[conn])
  <2>1. PICK q \in Seq(Answers) : q = acks[conn]
    BY <1>2, ServerFacts, SlotTypes
  <2>2. Head(q) = q[1] /\ Len(q) >= 1 /\ Len(q) \in Nat
    BY <1>1, <2>1, QueueTail, QueueFacts
  <2>3. QED
    BY <2>1, <2>2
<1>4. Head(acks[conn]).seq = win[pos]
  BY <1>1, DeliveryInvAligned DEF AckAligned
<1>5. win[pos] = acked + 1
  <2>1. Due(1) = acked + 1 /\ First = pos
    BY <1>1, <1>2, FirstDue DEF First
  <2>2. pos + 1 - 1 = pos
    BY SenderFacts
  <2>3. QED
    BY <2>1, <2>2 DEF Due
<1>6. acked' = acked + 1
  BY <1>1, <1>5 DEF Commit
<1>7. ASSUME ~Lost PROVE Covered(acked')
  <2>1. AckTracked(1) /\ (acks[conn][1].seq = Heartbeat \/ Covered(acked))
    BY <1>1, <1>2, <1>3, <1>7 DEF CoverInv, AcksCovered
  <2>2. acks[conn][1].seq = acked + 1 /\ acks[conn][1].seq # Heartbeat
    BY <1>1, <1>2, <1>3, <1>4, <1>5
  <2>3. Tracked(acked + 1) /\ Covered(acked)
    BY <1>1, <1>3, <2>1, <2>2 DEF AckTracked
  <2>4. \A s \in 1 .. acked + 1 : s \in 1 .. acked \/ s = acked + 1
    BY <1>1
  <2>5. QED
    BY <1>6, <2>3, <2>4 DEF Covered
<1>8. QED
  BY <1>2, <1>6, <1>7

LEMMA AckSuccessCover ==
    ASSUME DeliveryInv, CoverInv, AckSuccess, UNCHANGED <<serverVars, receiverVars>>
    PROVE  CoverInv'
<1>1. /\ acks[conn] # <<>> /\ acks' = [acks EXCEPT ![conn] = Tail(@)]
      /\ UNCHANGED <<conn, sOpen, wire, tracker, call, dataIdx>> /\ acked \in Nat
  BY SenderFacts DEF AckSuccess, serverVars, receiverVars
<1>2. acked' = acked + 1 /\ conn \in Slots /\ (Lost \/ Covered(acked'))
  BY AckCommitsTracked
<1>3. \A c \in Slots : Fresh(c)'
  BY <1>1 DEF CoverInv, Fresh
<1>4. CASE Lost
  <2>1. Lost' /\ \A s : UnderWay(s) => s = Heartbeat
    BY <1>1, <1>4, EmptyQueue DEF Lost, Silent, UnderWay
  <2>2. \A s : UnderWay(s)' = UnderWay(s)
    BY <1>1 DEF UnderWay
  <2>3. Behind'
    BY <1>1, <1>2, <2>1, <2>2 DEF Behind, Heartbeat
  <2>4. AcksCovered' /\ Below'
    BY <1>1, <1>4, <2>1 DEF AcksCovered, Below, Lost
  <2>5. QED
    BY <1>3, <2>3, <2>4, SenderCover
<1>5. CASE ~Lost
  <2>1. Covered(acked)'
    BY <1>1, <1>2, <1>5 DEF Covered, Tracked
  <2>2. Behind'
    BY <2>1 DEF Behind
  <2>3. Below'
    BY <2>1 DEF Below
  <2>4. AcksCovered'
    <3>1. PICK q, k : q = acks[conn] /\ q \in Seq(Answers) /\ k = Len(q) /\ k \in Nat /\ k >= 1
      BY <1>1, <1>2, ServerFacts, SlotTypes, QueueTail
    <3>2. acks'[conn'] = Tail(q)
      BY <1>1, <1>2, <3>1, ServerFacts, LinkTypes
    <3>3. Len(Tail(q)) = k - 1 /\ \A i \in 1 .. k - 1 : Tail(q)[i] = q[i + 1]
      BY <1>1, <3>1, QueueTail
    <3>4. ASSUME NEW i \in 1 .. Len(acks'[conn']) PROVE AckTracked(i)'
      <4>1. i \in 1 .. k - 1 /\ i + 1 \in 1 .. k
        BY <3>1, <3>2, <3>3, <3>4
      <4>2. acks'[conn'][i] = acks[conn][i + 1] /\ AckTracked(i + 1)
        BY <1>2, <1>5, <3>1, <3>2, <3>3, <4>1 DEF CoverInv, AcksCovered
      <4>3. QED
        BY <1>1, <4>2 DEF AckTracked, Tracked
    <3>5. QED
      BY <2>1, <3>4 DEF AcksCovered
  <2>5. QED
    BY <1>3, <2>2, <2>3, <2>4, SenderCover
<1>6. QED
  BY <1>4, <1>5

\* A step of the sender, or a fault it meets.
LEMMA SenderStepCover ==
    ASSUME RetryLeads, DeliveryInv, CoverInv, UNCHANGED <<serverVars, receiverVars>>,
           SenderStep \/ AppendFrame \/ StartHeartbeat \/ SendFails \/ HeartbeatFails
             \/ AckTimeout \/ DialRefused \/ CrashSender
    PROVE  CoverInv'
<1>1. /\ acked \in Nat /\ pos \in Nat \ {0} /\ LoopInv /\ acked <= appended
      /\ appended <= LastFrame /\ Heartbeat = 0
  BY SenderFacts
<1>2. UNCHANGED walVars => acked' = acked /\ acked' \in 0 .. acked
  BY <1>1 DEF walVars
<1>3. CASE StartRound \/ StartHeartbeat \/ Redial \/ DialRefused
  <2>1. UNCHANGED walVars
    BY <1>3 DEF StartRound, StartHeartbeat, Redial, DialRefused, senderVars
  <2>2. phase \in {"peek", "redial"} /\ (Connected \/ Dial(FALSE))
    BY <1>3 DEF StartRound, StartHeartbeat, Redial, DialRefused
  <2>3. QED
    BY <2>1, <2>2, StartCover
<1>4. CASE SendHeartbeat \/ SendFrame
  <2>1. UNCHANGED walVars /\ conn \in Slots
    BY <1>1, <1>4 DEF SendHeartbeat, SendFrame, LoopInv
  <2>2. CASE SendHeartbeat
    <3>1. 0 \in 0 .. LastFrame /\ 0 \notin 1 .. acked /\ Put(0)
          /\ (phase \in {"send", "wait"} <=> phase' \in {"send", "wait"})
      BY <1>1, <2>2, DeliveryConstants DEF SendHeartbeat, Enter
    <3>2. QED
      BY <2>1, <3>1, PutCover
  <2>3. CASE SendFrame
    <3>1. phase = "send" /\ Put(win[pos]) /\ phase' \in {"send", "wait"}
      BY <2>3 DEF SendFrame, Enter
    <3>2. pos \in 1 .. Len(win) /\ First = 1
      BY <1>1, <3>1, SenderFacts DEF LoopInv, First
    <3>3. win[pos] = acked + pos - 1 + 1
      BY <1>1, <3>1, <3>2 DEF LoopInv
    <3>4. win[pos] = acked + pos
      BY <1>1, <3>3
    <3>5. win[pos] \in 0 .. LastFrame
      BY <3>2, SenderFacts, QueueFacts
    <3>6. win[pos] \notin 1 .. acked
      BY <1>1, <3>4
    <3>7. QED
      BY <2>1, <3>1, <3>5, <3>6, PutCover
  <2>4. QED
    BY <1>4, <2>2, <2>3
<1>5. CASE HeartbeatAck
  <2>1. UNCHANGED walVars /\ phase = "beat" /\ phase' = "peek" /\ UNCHANGED <<conn, sOpen, wire>>
    BY <1>5 DEF HeartbeatAck, Enter
  <2>2. conn \in Slots /\ acks'[conn'] = <<>>
    BY <1>5, LastAck
  <2>3. QED
    BY <2>1, <2>2, LastAckCover
<1>6. CASE AckSuccess
  BY <1>6, AckSuccessCover
<1>7. CASE AckFail /\ Pipeline = 1
  <2>1. UNCHANGED walVars /\ phase' = "peek" /\ UNCHANGED <<conn, sOpen, wire>>
    BY <1>7 DEF AckFail, AfterFailure, Enter
  <2>2. conn \in Slots /\ acks'[conn'] = <<>>
    BY <1>7, LastAck
  <2>3. dataIdx[conn] = 0
    <3>1. Codec = "zstd" /\ Fresh(conn) /\ dataIdx[conn] \in {0, 1}
      BY <1>7, <2>2, ServerFacts, SlotTypes DEF RetryLeads, CoverInv
    <3>2. QED
      BY <3>1 DEF Fresh
  <2>4. QED
    BY <2>1, <2>2, <2>3, LastAckCover
<1>8. CASE (AckFail /\ Pipeline # 1) \/ AckEOF \/ SendFails \/ HeartbeatFails \/ AckTimeout
  <2>1. Hangup /\ UNCHANGED walVars
    BY <1>8 DEF AckFail, AckEOF, SendFails, HeartbeatFails, AckTimeout
  <2>2. QED
    BY <1>2, <2>1, HangupCover
<1>9. CASE CrashSender
  <2>1. Hangup /\ acked' \in 0 .. acked
    BY <1>9, SenderFacts DEF CrashSender
  <2>2. QED
    BY <2>1, HangupCover
<1>10. CASE AppendFrame
  <2>1. /\ UNCHANGED <<acked, phase, conn, sOpen, wire, acks, order, dataIdx, tracker, call>>
    BY <1>10 DEF AppendFrame, linkVars, serverVars, receiverVars
  <2>2. Behind'
    BY <1>1, <2>1, QuietBehind DEF CoverInv
  <2>3. /\ Covered(acked)' = Covered(acked) /\ \A i : AckTracked(i)' = AckTracked(i)
        /\ Lost' = Lost /\ HeadOpen' = HeadOpen
    BY <2>1 DEF Covered, Tracked, AckTracked, Lost, Silent, HeadOpen, Early, Refused
  <2>4. conn \in Slots => AcksCovered' /\ Below'
    BY <2>1, <2>3 DEF CoverInv, AcksCovered, Below, Touched
  <2>5. \A c \in Slots : Fresh(c)'
    BY <2>1 DEF CoverInv, Fresh
  <2>6. QED
    BY <2>1, <2>2, <2>4, <2>5, SenderCover
<1>11. QED
  BY <1>3, <1>4, <1>5, <1>6, <1>7, <1>8, <1>9, <1>10 DEF SenderStep
-----------------------------------------------------------------------------
LEMMA CoverNextInv ==
    ASSUME RetryLeads, DeliveryInv, CoverInv, Near, [Next]_vars
    PROVE  CoverInv'
<1>1. CASE SenderWorks \/ Poll \/ Idling \/ SenderFault
  BY <1>1, SenderStepCover DEF SenderWorks, Poll, Idling, SenderFault
<1>2. ASSUME NEW c \in Slots, ServerWorks(c) PROVE CoverInv'
  <2>1. UNCHANGED senderVars
    BY <1>2 DEF ServerWorks
  <2>2. QED
    BY <1>2, <2>1, ReadFrameCover, WriteAckCover, CloseCover DEF ServerWorks, PeerGone
<1>3. ASSUME NEW h \in Calls, CallWorks(h) PROVE CoverInv'
  BY <1>3, CallCover DEF CallWorks
<1>4. ASSUME NEW h \in Calls, ResultDropped(h) PROVE CoverInv'
  BY <1>4, DropResultCover DEF ResultDropped
<1>5. CASE ServerFault
  <2>1. PICK c \in Slots : ServerDrops(c) \/ BadHeader(c)
    BY <1>5 DEF ServerFault
  <2>2. /\ CloseServerEnd(c) /\ UNCHANGED <<senderVars, receiverVars>>
        /\ \/ acks' = acks
           \/ /\ c = conn /\ wire[c] # <<>>
              /\ acks' = [acks EXCEPT ![c] = Append(@, Ack(Head(wire[c]), FALSE))]
    <3>1. CASE ServerDrops(c)
      BY <1>5, <3>1 DEF ServerFault, ServerDrops
    <3>2. CASE BadHeader(c) /\ c = conn
      BY <1>5, <3>2 DEF ServerFault, BadHeader
    <3>3. CASE BadHeader(c) /\ c # conn
      <4>1. acks' = [acks EXCEPT ![c] = acks[c]]
        BY <3>3 DEF BadHeader
      <4>2. acks' = acks
        BY <4>1, ServerFacts, LinkTypes
      <4>3. QED
        BY <1>5, <3>3, <4>2 DEF ServerFault, BadHeader
    <3>4. QED
      BY <2>1, <3>1, <3>2, <3>3
  <2>3. QED
    BY <2>2, CloseCover
<1>6. CASE ReceiverFault
  BY <1>6, CrashReceiverCover DEF ReceiverFault
<1>7. CASE CallFails
  BY <1>7, CallCover DEF CallFails
<1>8. CASE UNCHANGED vars
  <2>1. /\ UNCHANGED <<acked, phase, conn, sOpen, wire, acks, order, dataIdx, tracker, call>>
        /\ UNCHANGED <<lastSeq, inflight>>
    BY <1>8 DEF vars, linkVars, serverVars, receiverVars, senderVars, walVars
  <2>2. Behind'
    BY <2>1, SenderFacts, QuietBehind DEF CoverInv
  <2>3. /\ Covered(acked)' = Covered(acked) /\ \A i : AckTracked(i)' = AckTracked(i)
        /\ Lost' = Lost /\ HeadOpen' = HeadOpen /\ \A h : CallTracked(h)' = CallTracked(h)
    BY <2>1 DEF Covered, Tracked, AckTracked, CallTracked, Lost, Silent, HeadOpen, Early, Refused
  <2>4. conn \in Slots => AcksCovered' /\ Below'
    BY <2>1, <2>3 DEF CoverInv, AcksCovered, Below, Touched
  <2>5. QED
    BY <2>1, <2>2, <2>3, <2>4 DEF CoverInv, Fresh, InflightExact
<1>9. QED
  BY <1>1, <1>2, <1>3, <1>4, <1>5, <1>6, <1>7, <1>8 DEF Next, Fault

\* What keeps gaps closing keeps frames from jumping.
LEMMA NearNeverJumps == ASSUME ReceiverInv, Near PROVE NoJump
<1>1. ASSUME NEW h \in Calls PROVE ~(call[h].seq > tracker.last + JumpLimit)
  <2>1. /\ call[h].seq <= tracker.last + JumpLimit /\ call[h].seq \in 0 .. MaxSeq
        /\ tracker.last \in Nat /\ JumpLimit \in Nat /\ MaxSeq \in Nat
    BY CoverTypes DEF Near
  <2>2. QED
    BY <2>1
<1>2. QED
  BY <1>1 DEF NoJump, Jumps

LEMMA CoverInvariant ==
    ASSUME RetryLeads
    PROVE  Spec /\ []Near => [](DeliveryInv /\ CoverInv)
<1>1. Orderly
  BY DeliveryConstants DEF RetryLeads, Orderly
<1>2. Init => DeliveryInv /\ CoverInv
  BY DeliveryInitInv, CoverInitInv
<1>3. DeliveryInv /\ CoverInv /\ Near /\ [Next]_vars => (DeliveryInv /\ CoverInv)'
  BY <1>1, ServerFacts, NearNeverJumps, DeliveryNextInv, CoverNextInv
<1>4. QED
  BY <1>2, <1>3, PTL DEF Spec

\* Commits move only on a positive response.
LEMMA CommitTracked ==
    ASSUME DeliveryInv, CoverInv, [Next]_vars, acked' > acked, sOpen[conn]
    PROVE  \A s \in 1 .. acked' : Tracked(s)
<1>1. acked \in Nat
  BY SenderFacts
<1>2. acked' # acked /\ ~(acked' \in 0 .. acked)
  BY <1>1
<1>3. AckSuccess /\ UNCHANGED <<serverVars, receiverVars>>
  <2>1. ~UNCHANGED walVars /\ ~UNCHANGED senderVars /\ ~Poll
    BY <1>2 DEF walVars, senderVars, Poll, AppendFrame
  <2>2. ~SenderFault
    <3>1. ~CrashSender
      BY <1>2, SenderFacts DEF CrashSender
    <3>2. QED
      BY <2>1, <3>1 DEF SenderFault, SendFails, HeartbeatFails, AckTimeout, DialRefused
  <2>3. SenderWorks
    BY <2>1, <2>2 DEF Next, vars, Idling, StartHeartbeat, ServerWorks, CallWorks, ResultDropped,
       Fault, ServerFault, ReceiverFault, CallFails
  <2>4. QED
    BY <2>1, <2>3 DEF SenderWorks, SenderStep, StartRound, SendHeartbeat, HeartbeatAck,
       SendFrame, Redial, AckFail, AckEOF
<1>4. Covered(acked')
  BY <1>3, AckCommitsTracked DEF Lost
<1>5. QED
  BY <1>4 DEF Covered

\* Every frame the sender commits over a live connection leaves no gap below it in the
\* receiver's tracker: restarts with an old last_seq file, refused head frames and copies on
\* abandoned connections included (receiver.go:117-118, 298-319, 417-428).
THEOREM CommitsAreTracked ==
    ASSUME RetryLeads
    PROVE  Spec /\ []Near => CommittedTracked
<1>1. DeliveryInv /\ CoverInv /\ [Next]_vars
        => [acked' > acked /\ sOpen[conn] => \A s \in 1 .. acked' : Tracked(s)]_vars
  BY CommitTracked
<1>2. QED
  BY <1>1, CoverInvariant, PTL DEF Spec, CommittedTracked
-----------------------------------------------------------------------------
(***************************************************************************)
(* Frames stay near, however high the seqs are.  The contiguous run of     *)
(* tracked frames reaches at most Lag beyond last, and no frame is sent    *)
(* more than Lag beyond that run: a window of frames follows the commits,  *)
(* and the commits follow the run.  Only a restart of the receiver takes   *)
(* the tracker back, to the last_seq file, while the sender goes on from   *)
(* where it is; the condition of the theorems is on that step alone.       *)
(***************************************************************************)

\* The receiver restarts with a last_seq file that is, with room for two windows, at
\* most Lag frames behind the commits.
KeepsUp(Lag) == Fails /\ ReceiverFault => acked + 2 * Pipeline <= lastSeqFile + Lag
FilesKeepUp(Lag) == [][KeepsUp(Lag)]_vars

\* A Lag that holds a window and fits twice into both limits: up to 32767 in the code.
LagFits(Lag) == Pipeline <= Lag /\ 2 * Lag <= JumpLimit /\ 2 * Lag < PendingLimit

\* The receiver has restarted after it confirmed frames that are not committed yet: these
\* commits need no receiver any more.
Unread ==
    conn \in Slots /\ Lost /\ acks[conn] # <<>> /\ acks[conn][1].ok /\ acks[conn][1].seq # Heartbeat

\* The commits, with those that can still be made, are close to last_seq or tracked.
Late(Lag) ==
    /\ acked + Pipeline <= lastSeq + Lag
    /\ Unread => acked + Pipeline + Len(acks[conn]) <= lastSeq + Lag
Known == Covered(acked) /\ (Unread => \A i \in 1 .. Len(acks[conn]) : AckTracked(i))
CommitsNear(Lag) == Late(Lag) \/ Known

\* Frames on their way, or done out of order, are close to the tracked run, and the run
\* is close to last.
FramesNear(Lag) ==
    \A s \in 1 .. MaxSeq : UnderWay(s) \/ s \in tracker.pending => Covered(s - Lag)
Reaches(t, n) == \A s \in 1 .. n : s <= t.last \/ s \in t.pending
RunsNear(t, Lag) ==
    /\ \A n \in 1 .. MaxSeq : Reaches(t, n) => n <= t.last + Lag
    /\ \A s \in t.pending : s > t.last

ReachInv(Lag) == CommitsNear(Lag) /\ FramesNear(Lag) /\ RunsNear(tracker, Lag)

LEMMA ReachInit == ASSUME Init, NEW Lag \in Nat PROVE ReachInv(Lag)
<1>1. /\ acked = 0 /\ conn \notin Slots /\ tracker = [last |-> 0, pending |-> {}]
      /\ (\A c \in Slots : wire[c] = <<>>) /\ \A h \in Calls : call[h].seq = 0
  BY LinkAssumption
     DEF Init, SenderInit, LinkInit, ReceiverInit, InitTracker, Idle, NewCall, Heartbeat
<1>2. Known
  BY <1>1 DEF Known, Covered, Unread
<1>3. \A s \in 1 .. MaxSeq : ~UnderWay(s) /\ s \notin tracker.pending
  BY <1>1, EmptyQueue DEF UnderWay
<1>4. RunsNear(tracker, Lag)
  <2>1. ASSUME NEW n \in 1 .. MaxSeq, Reaches(tracker, n) PROVE FALSE
    <3>1. n \in 1 .. n
      BY <2>1, ReceiverAssumption
    <3>2. n <= 0
      BY <1>1, <2>1, <3>1 DEF Reaches
    <3>3. QED
      BY <2>1, <3>2, ReceiverAssumption
  <2>2. QED
    BY <1>1, <2>1 DEF RunsNear
<1>5. QED
  BY <1>2, <1>3, <1>4 DEF ReachInv, CommitsNear, FramesNear

\* What the invariant is for.
LEMMA ReachNear ==
    ASSUME NEW Lag \in Nat, LagFits(Lag), DeliveryInv, CoverInv, ReachInv(Lag)
    PROVE  Near
<1>1. /\ tracker.last \in Nat /\ tracker.last \in 0 .. MaxSeq /\ lastSeq \in Nat /\ acked \in Nat
      /\ MaxSeq \in Nat /\ JumpLimit \in Nat /\ PendingLimit \in Nat /\ Pipeline \in Nat \ {0}
      /\ tracker.pending \subseteq 1 .. MaxSeq /\ \A h \in Calls : call[h].seq \in 0 .. MaxSeq
  BY ServerFacts, SenderFacts, CoverTypes, LimitsAssumption DEF TrackersTo
<1>2. Pipeline <= Lag /\ 2 * Lag <= JumpLimit /\ 2 * Lag < PendingLimit
  BY DEF LagFits
<1>3. ASSUME NEW s \in 1 .. MaxSeq, UnderWay(s) \/ s \in tracker.pending
      PROVE  s <= tracker.last + 2 * Lag
  <2>1. Covered(s - Lag)
    BY <1>3 DEF ReachInv, FramesNear
  <2>2. CASE s - Lag \in 1 .. MaxSeq
    <3>1. Reaches(tracker, s - Lag)
      BY <2>1 DEF Covered, Tracked, Reaches
    <3>2. s - Lag <= tracker.last + Lag
      BY <2>2, <3>1 DEF ReachInv, RunsNear
    <3>3. QED
      BY <1>1, <3>2
  <2>3. CASE s - Lag \notin 1 .. MaxSeq
    BY <1>1, <2>3
  <2>4. QED
    BY <2>2, <2>3
<1>4. ASSUME NEW h \in Calls PROVE call[h].seq <= tracker.last + JumpLimit
  <2>1. PICK s \in 0 .. MaxSeq : s = call[h].seq
    BY <1>1
  <2>2. s \in 1 .. MaxSeq => s <= tracker.last + 2 * Lag
    BY <1>3, <2>1 DEF UnderWay
  <2>3. s <= tracker.last + JumpLimit
    BY <1>1, <1>2, <2>2
  <2>4. QED
    BY <2>1, <2>3
<1>5. Cardinality(tracker.pending) < PendingLimit
  <2>1. PICK a \in Nat, b \in Nat : a = tracker.last + 1 /\ b = tracker.last + 2 * Lag
    BY <1>1
  <2>2. tracker.pending \subseteq a .. b
    <3>1. ASSUME NEW s \in tracker.pending PROVE s \in a .. b
      <4>1. s \in 1 .. MaxSeq
        BY <1>1
      <4>2. s > tracker.last
        BY DEF ReachInv, RunsNear
      <4>3. s <= tracker.last + 2 * Lag
        BY <1>3, <4>1
      <4>4. QED
        BY <1>1, <2>1, <4>1, <4>2, <4>3
    <3>2. QED
      BY <3>1
  <2>3. IsFiniteSet(a .. b) /\ Cardinality(a .. b) = IF a > b THEN 0 ELSE b - a + 1
    BY FS_Interval
  <2>4. Cardinality(a .. b) \in Nat /\ Cardinality(a .. b) <= 2 * Lag
    <3>1. PICK m : m = Cardinality(a .. b) /\ m = IF a > b THEN 0 ELSE b - a + 1
      BY <2>3
    <3>2. PICK l \in Nat : l = tracker.last
      BY <1>1
    <3>3. a = l + 1 /\ b = l + 2 * Lag
      BY <2>1, <3>2
    <3>4. m \in Nat /\ m <= 2 * Lag
      BY <3>1, <3>3
    <3>5. QED
      BY <3>1, <3>4
  <2>5. PICK k \in Nat : k = Cardinality(tracker.pending) /\ k <= Cardinality(a .. b)
    BY <2>2, <2>3, FS_Subset, FS_CardinalityType
  <2>6. k < PendingLimit
    BY <1>1, <1>2, <2>4, <2>5
  <2>7. QED
    BY <2>5, <2>6
<1>6. Covered(acked) \/ acked < lastSeq + JumpLimit
  <2>1. acked + Pipeline <= lastSeq + Lag => acked < lastSeq + JumpLimit
    BY <1>1, <1>2
  <2>2. QED
    BY <2>1 DEF ReachInv, CommitsNear, Late, Known
<1>7. QED
  BY <1>4, <1>5, <1>6 DEF Near
-----------------------------------------------------------------------------
\* The run of tracked frames when a gap is closed: a run that had been further than Lag
\* above the gap would have reached over it before.
LEMMA CloseGapRun ==
    ASSUME NEW Lag \in Nat, NEW t \in TrackersTo(MaxSeq), NEW u \in 0 .. MaxSeq,
           RunsNear(t, Lag), \A s \in t.pending : Reaches(t, s - Lag), MaxSeq \in Nat
    PROVE  RunsNear(CloseGap(t, u), Lag)
<1>1. PICK r : /\ r = (IF u > t.last THEN u ELSE t.last) /\ r \in 0 .. MaxSeq /\ r >= t.last
               /\ CloseGap(t, u) = [last |-> r, pending |-> {s \in t.pending : s > r}]
  <2>1. PICK r : r = IF u > t.last THEN u ELSE t.last
    OBVIOUS
  <2>2. t.last \in 0 .. MaxSeq
    BY DEF TrackersTo
  <2>3. r \in 0 .. MaxSeq /\ r >= t.last
    BY <2>1, <2>2
  <2>4. CloseGap(t, u) = [last |-> r, pending |-> {s \in t.pending : s > r}]
    BY <2>1, Zenon DEF CloseGap
  <2>5. QED
    BY <2>1, <2>3, <2>4
<1>2. t.last \in 0 .. MaxSeq /\ t.pending \subseteq 1 .. MaxSeq
  BY DEF TrackersTo
<1>3. PICK c : c = [last |-> r, pending |-> {s \in t.pending : s > r}]
  OBVIOUS
<1>4. ASSUME NEW n \in 1 .. MaxSeq, Reaches(c, n) PROVE n <= r + Lag
  <2>1. SUFFICES ASSUME ~(n <= r + Lag) PROVE FALSE
    OBVIOUS
  <2>2. \A s \in 1 .. n : s <= r \/ s \in t.pending
    BY <1>3, <1>4 DEF Reaches
  <2>3. n \in t.pending
    BY <1>1, <1>2, <2>1, <2>2
  <2>4. \A s \in 1 .. n - Lag : s <= t.last \/ s \in t.pending
    BY <2>3 DEF Reaches
  <2>5. ASSUME NEW s \in 1 .. n PROVE s <= t.last \/ s \in t.pending
    <3>1. CASE s <= n - Lag
      BY <2>4, <3>1
    <3>2. CASE ~(s <= n - Lag)
      <4>1. ~(s <= r)
        BY <1>1, <2>1, <3>2
      <4>2. QED
        BY <2>2, <4>1
    <3>3. QED
      BY <3>1, <3>2
  <2>6. n <= t.last + Lag
    BY <2>5 DEF Reaches, RunsNear
  <2>7. QED
    BY <1>1, <1>2, <2>1, <2>6
<1>5. QED
  BY <1>1, <1>3, <1>4 DEF RunsNear

\* When done drains, the run ends at last.
LEMMA DoneRun ==
    ASSUME NEW Lag \in Nat, NEW t \in TrackersTo(MaxSeq), NEW seq \in 1 .. MaxSeq,
           RunsNear(t, Lag), seq <= t.last + JumpLimit, MaxSeq \in Nat
    PROVE  RunsNear(Done(t, seq), Lag) /\ Done(t, seq).pending \subseteq t.pending \cup {seq}
<1>1. t.last \in 0 .. MaxSeq /\ t.pending \subseteq 1 .. MaxSeq /\ \A s \in t.pending : s > t.last
  BY DEF TrackersTo, RunsNear
<1>2. CASE seq <= t.last
  BY <1>2 DEF Done
<1>3. CASE ~(seq <= t.last)
  <2>1. PICK P : P = t.pending \cup {seq}
    OBVIOUS
  <2>2. P \in SUBSET (1 .. MaxSeq) /\ \A s \in P : s > t.last
    BY <1>1, <1>3, <2>1
  <2>3. PICK e : e = RunEnd(t.last, P)
    OBVIOUS
  <2>4. e \in t.last .. MaxSeq /\ e + 1 \notin P
    BY <1>1, <2>2, <2>3, RunEndSpec
  <2>5. ~(seq > t.last + JumpLimit)
    BY <1>1, LimitsAssumption
  <2>6. Done(t, seq) = Drain(t, P)
    BY <1>3, <2>1, <2>5 DEF Done
  <2>7. PICK left : /\ left \subseteq P \ (t.last + 1 .. e)
                    /\ Done(t, seq) = [last |-> e, pending |-> left]
    BY <2>3, <2>6 DEF Drain
  <2>8. PICK c : c = [last |-> e, pending |-> left]
    OBVIOUS
  <2>9. ASSUME NEW n \in 1 .. MaxSeq, Reaches(c, n) PROVE n <= e + Lag
    <3>1. CASE n <= e
      BY <1>1, <2>4, <3>1
    <3>2. CASE ~(n <= e)
      <4>1. e + 1 \in 1 .. n /\ ~(e + 1 <= e)
        BY <1>1, <2>4, <3>2
      <4>2. e + 1 \in left
        BY <2>8, <2>9, <4>1 DEF Reaches
      <4>3. QED
        BY <2>4, <2>7, <4>2
    <3>3. QED
      BY <3>1, <3>2
  <2>10. \A s \in left : s > e
    BY <1>1, <2>2, <2>4, <2>7
  <2>11. QED
    BY <2>1, <2>7, <2>8, <2>9, <2>10 DEF RunsNear
<1>4. QED
  BY <1>2, <1>3
-----------------------------------------------------------------------------
LEMMA LateSum ==
    ASSUME NEW a \in Nat, NEW p \in Nat, NEW l \in Nat, NEW g \in Nat,
           NEW b \in Nat, NEW m \in Nat, b <= a, l <= m, a + p <= l + g
    PROVE  b + p <= m + g
OBVIOUS

LEMMA LateSumRead ==
    ASSUME NEW a \in Nat, NEW p \in Nat, NEW k \in Nat, NEW l \in Nat, NEW g \in Nat,
           NEW b \in Nat, NEW m \in Nat, b <= a, l <= m, a + p + k <= l + g
    PROVE  b + p + k <= m + g
OBVIOUS

\* What stays tracked stays covered.
LEMMA CoveredGrows ==
    ASSUME DeliveryInv, TrackerGrows, NEW n \in Int, n <= MaxSeq, Covered(n)
    PROVE  \A s \in 1 .. n : Tracked(s)'
<1>1. MaxSeq \in Nat
  BY ServerFacts, CoverTypes
<1>2. \A s \in 1 .. n : s \in 1 .. MaxSeq
  BY <1>1
<1>3. QED
  BY <1>2 DEF Covered, TrackerGrows

LEMMA CommitsCovered ==
    ASSUME DeliveryInv, TrackerGrows, Covered(acked), acked' \in 0 .. acked
    PROVE  Covered(acked)'
<1>1. PICK a \in Nat, b \in Nat : a = acked /\ b = acked' /\ b <= a /\ a <= MaxSeq
  BY SenderFacts, ServerFacts
<1>2. \A s \in 1 .. a : Tracked(s)'
  BY <1>1, CoveredGrows
<1>3. \A s \in 1 .. b : s \in 1 .. a
  BY <1>1
<1>4. QED
  BY <1>1, <1>2, <1>3 DEF Covered

\* Responses that stay stay tracked.
LEMMA AckStays ==
    ASSUME DeliveryInv, TrackerGrows, conn \in Slots, NEW i \in 1 .. Len(acks[conn]),
           AckTracked(i), NEW a, a = acks[conn][i], a.ok
    PROVE  a.seq = Heartbeat \/ Tracked(a.seq)'
<1>1. acks[conn][i] \in Answers
  BY ServerFacts, SlotTypes, QueueFacts
<1>2. a.seq \in 0 .. MaxSeq /\ MaxSeq \in Nat
  BY <1>1, ServerFacts, CoverTypes, DeliveryConstants DEF Answers
<1>3. a.seq # Heartbeat => a.seq \in 1 .. MaxSeq
  BY <1>2, ServerFacts
<1>4. QED
  BY <1>3 DEF AckTracked, TrackerGrows

\* The frames near: a new one is near as well.
LEMMA FramesStay ==
    ASSUME DeliveryInv, TrackerGrows, NEW Lag \in Nat, FramesNear(Lag),
           \A s \in 1 .. MaxSeq : UnderWay(s)' \/ s \in tracker'.pending
               => UnderWay(s) \/ s \in tracker.pending \/ Covered(s - Lag)
    PROVE  FramesNear(Lag)'
<1>1. ASSUME NEW s \in 1 .. MaxSeq, UnderWay(s)' \/ s \in tracker'.pending
      PROVE  \A x \in 1 .. s - Lag : Tracked(x)'
  <2>1. Covered(s - Lag)
    BY <1>1 DEF FramesNear
  <2>2. s - Lag \in Int /\ s - Lag <= MaxSeq
    BY ServerFacts, CoverTypes
  <2>3. QED
    BY <2>1, <2>2, CoveredGrows
<1>2. QED
  BY <1>1 DEF FramesNear, Covered

\* A step that makes no commit and leaves the responses as they are.
LEMMA CommitsStay ==
    ASSUME DeliveryInv, CoverInv, TrackerGrows, NEW Lag \in Nat, CommitsNear(Lag),
           lastSeq' \in Nat, lastSeq <= lastSeq', conn' = conn, acked' = acked,
           conn \in Slots => acks'[conn] = acks[conn]
    PROVE  CommitsNear(Lag)'
<1>1. /\ acked \in Nat /\ acked' \in Nat /\ acked' <= acked /\ lastSeq \in Nat
      /\ Pipeline \in Nat
  BY SenderFacts, ServerFacts, CoverTypes
<1>2. Covered(acked) => Covered(acked)'
  <2>1. acked' \in 0 .. acked
    BY <1>1
  <2>2. QED
    BY <2>1, CommitsCovered
<1>3. ASSUME conn \in Slots, NEW i \in 1 .. Len(acks[conn]), AckTracked(i)
      PROVE  AckTracked(i)'
  <2>1. PICK a : a = acks[conn][i] /\ a = acks'[conn'][i]
    BY <1>3
  <2>2. a.ok => a.seq = Heartbeat \/ Tracked(a.seq)'
    BY <1>3, <2>1, AckStays
  <2>3. QED
    BY <2>1, <2>2 DEF AckTracked
<1>4. CASE Unread' /\ ~(Unread /\ Late(Lag))
  <2>1. conn \in Slots /\ acks'[conn'] = acks[conn] /\ acks[conn] # <<>>
        /\ acks[conn][1].ok /\ acks[conn][1].seq # Heartbeat
    BY <1>4 DEF Unread
  <2>2. Covered(acked) /\ \A i \in 1 .. Len(acks[conn]) : AckTracked(i)
    <3>1. CASE Unread
      BY <1>4, <3>1 DEF CommitsNear, Known
    <3>2. CASE ~Unread
      <4>1. ~Lost
        BY <2>1, <3>2 DEF Unread
      <4>2. QED
        BY <2>1, <4>1 DEF CoverInv, AcksCovered
    <3>3. QED
      BY <3>1, <3>2
  <2>3. \A i \in 1 .. Len(acks'[conn']) : AckTracked(i)'
    BY <1>3, <2>1, <2>2
  <2>4. QED
    BY <1>2, <2>2, <2>3 DEF CommitsNear, Known
<1>5. CASE ~Unread' \/ (Unread /\ Late(Lag))
  <2>1. CASE Late(Lag)
    <3>1. acked' + Pipeline <= lastSeq' + Lag
      <4>1. acked + Pipeline <= lastSeq + Lag
        BY <2>1 DEF Late
      <4>2. QED
        BY <1>1, <4>1, LateSum
    <3>2. ASSUME Unread' PROVE acked' + Pipeline + Len(acks'[conn']) <= lastSeq' + Lag
      <4>1. conn \in Slots /\ acks'[conn'] = acks[conn]
        BY <3>2 DEF Unread
      <4>2. PICK k \in Nat : k = Len(acks[conn])
        BY <4>1, ServerFacts, SlotTypes
      <4>3. acked + Pipeline + k <= lastSeq + Lag
        BY <1>5, <3>2, <4>2 DEF Late
      <4>4. acked' + Pipeline + k <= lastSeq' + Lag
        BY <1>1, <4>3, LateSumRead
      <4>5. QED
        BY <4>1, <4>2, <4>4
    <3>3. QED
      BY <3>1, <3>2 DEF CommitsNear, Late
  <2>2. CASE ~Late(Lag)
    BY <1>2, <1>5, <2>2 DEF CommitsNear, Known
  <2>3. QED
    BY <2>1, <2>2
<1>6. QED
  BY <1>4, <1>5

\* A step that makes no commit and leaves no commit to make without the receiver.
LEMMA CommitsQuiet ==
    ASSUME DeliveryInv, TrackerGrows, NEW Lag \in Nat, CommitsNear(Lag),
           lastSeq' \in Nat, lastSeq <= lastSeq', acked' \in 0 .. acked, ~Unread'
    PROVE  CommitsNear(Lag)'
<1>1. acked \in Nat /\ acked' \in Nat /\ acked' <= acked /\ lastSeq \in Nat /\ Pipeline \in Nat
  BY SenderFacts, ServerFacts, CoverTypes
<1>2. CASE Late(Lag)
  <2>1. acked + Pipeline <= lastSeq + Lag
    BY <1>2 DEF Late
  <2>2. acked' + Pipeline <= lastSeq' + Lag
    BY <1>1, <2>1, LateSum
  <2>3. QED
    BY <2>2 DEF CommitsNear, Late
<1>3. CASE ~Late(Lag)
  <2>1. Covered(acked)'
    BY <1>3, CommitsCovered DEF CommitsNear, Known
  <2>2. QED
    BY <2>1 DEF CommitsNear, Known
<1>4. QED
  BY <1>2, <1>3

\* Of a step that does not touch the receiver's numbers.
LEMMA ReachStays ==
    ASSUME DeliveryInv, NEW Lag \in Nat, ReachInv(Lag), UNCHANGED <<lastSeq, tracker>>,
           CommitsNear(Lag)',
           \A s \in 1 .. MaxSeq : UnderWay(s)' => UnderWay(s) \/ Covered(s - Lag)
    PROVE  ReachInv(Lag)'
<1>1. TrackerGrows
  BY SameTracker
<1>2. FramesNear(Lag)'
  BY <1>1, FramesStay DEF ReachInv
<1>3. RunsNear(tracker, Lag)'
  BY DEF ReachInv, RunsNear, Reaches
<1>4. QED
  BY <1>2, <1>3 DEF ReachInv
-----------------------------------------------------------------------------
\* What a step of a call may do to the tracker.
LEMMA TrackerStep ==
    ASSUME NEW h \in Calls, ReceiverInv, CallStep(h) \/ CallFault(h)
    PROVE  \/ tracker' = tracker
           \/ call[h].seq - 1 \in 0 .. MaxSeq /\ tracker' = CloseGap(tracker, call[h].seq - 1)
           \/ call[h].seq \in 1 .. MaxSeq /\ tracker' = Done(tracker, call[h].seq)
<1>1. /\ call[h].pc \in Registered => call[h].seq \in 1 .. MaxSeq
      /\ MaxSeq \in Nat
  BY CoverTypes
<1>2. CASE TryCloseGap(h) /\ GapCloses(h)
  <2>1. call[h].seq \in 1 .. MaxSeq
    BY <1>1, <1>2 DEF TryCloseGap, Registered
  <2>2. call[h].seq - 1 \in 0 .. MaxSeq
    BY <1>1, <2>1
  <2>3. QED
    BY <1>2, <2>2 DEF TryCloseGap
<1>3. CASE MarkDone(h)
  BY <1>1, <1>3 DEF MarkDone, Registered
<1>4. CASE ~(TryCloseGap(h) /\ GapCloses(h)) /\ ~MarkDone(h)
  BY <1>4 DEF CallStep, CallFault, CheckDuplicate, AddInflight, TryCloseGap, SaveGap, WriteOk,
     Isolate, Relay, Advance, Save, RemoveInflight, DecodeFails, WriteTransient, WritePermanent
<1>5. QED
  BY <1>2, <1>3, <1>4

LEMMA CallReach ==
    ASSUME NEW Lag \in Nat, DeliveryInv, CoverInv, Near, ReachInv(Lag), NEW h \in Calls,
           CallStep(h) \/ CallFault(h), UNCHANGED <<linkVars, senderVars, serverVars>>
    PROVE  ReachInv(Lag)'
<1>1. UNCHANGED <<conn, acks, wire, acked>>
  BY DEF linkVars, senderVars, walVars
<1>2. /\ ReceiverInv /\ lastSeq <= tracker.last /\ CallTracked(h) /\ TypesInv
      /\ tracker \in TrackersTo(MaxSeq) /\ MaxSeq \in Nat /\ lastSeq \in Nat
      /\ tracker.pending \subseteq 1 .. MaxSeq
  BY ServerFacts, CoverTypes DEF CoverInv, TrackersTo
<1>3. TrackerGrows /\ \A g \in Calls : call'[g].seq = call[g].seq
  BY <1>2, CallTracks, CallStepEffect
<1>4. lastSeq' \in Nat /\ lastSeq <= lastSeq'
  <2>1. TypesInv'
    BY <1>2, CallStepTypes
  <2>2. QED
    BY <1>2, <2>1, LastSeqMoves DEF TypesInv, ReceiverTypeOK
<1>5. CommitsNear(Lag)'
  BY <1>1, <1>3, <1>4, CommitsStay DEF ReachInv
<1>6. \A s : UnderWay(s)' => UnderWay(s)
  BY <1>1, <1>3 DEF UnderWay
<1>7. PICK t : t = tracker'
  OBVIOUS
<1>8. RunsNear(t, Lag) /\ t.pending \subseteq tracker.pending \cup {call[h].seq}
  <2>1. RunsNear(tracker, Lag)
    BY DEF ReachInv
  <2>2. CASE t = tracker
    BY <2>1, <2>2
  <2>3. CASE call[h].seq - 1 \in 0 .. MaxSeq /\ t = CloseGap(tracker, call[h].seq - 1)
    <3>1. PICK u \in 0 .. MaxSeq : t = CloseGap(tracker, u)
      BY <2>3
    <3>2. \A s \in tracker.pending : Reaches(tracker, s - Lag)
      BY <1>2 DEF ReachInv, FramesNear, Covered, Tracked, Reaches
    <3>3. RunsNear(t, Lag)
      BY <1>2, <2>1, <3>1, <3>2, CloseGapRun
    <3>4. t.pending \subseteq tracker.pending
      BY <1>2, <3>1, CloseGapSpec
    <3>5. QED
      BY <3>3, <3>4
  <2>4. CASE call[h].seq \in 1 .. MaxSeq /\ t = Done(tracker, call[h].seq)
    <3>1. PICK u \in 1 .. MaxSeq : u = call[h].seq /\ t = Done(tracker, u)
      BY <2>4
    <3>2. u <= tracker.last + JumpLimit
      BY <3>1 DEF Near
    <3>3. RunsNear(t, Lag) /\ t.pending \subseteq tracker.pending \cup {u}
      BY <1>2, <2>1, <3>1, <3>2, DoneRun
    <3>4. QED
      BY <3>1, <3>3
  <2>5. QED
    BY <1>2, <1>7, <2>2, <2>3, <2>4, TrackerStep
<1>9. FramesNear(Lag)'
  <2>1. ASSUME NEW s \in 1 .. MaxSeq, UnderWay(s)' \/ s \in tracker'.pending
        PROVE  UnderWay(s) \/ s \in tracker.pending
    BY <1>6, <1>7, <1>8, <2>1 DEF UnderWay
  <2>2. QED
    BY <1>3, <2>1, FramesStay DEF ReachInv
<1>10. RunsNear(tracker, Lag)'
  BY <1>7, <1>8 DEF RunsNear, Reaches
<1>11. QED
  BY <1>5, <1>9, <1>10 DEF ReachInv

\* Heartbeats do not count among the frames.
LEMMA NoFrame == ASSUME DeliveryInv, NEW s \in 1 .. MaxSeq PROVE s # Heartbeat
BY ServerFacts, CoverTypes

LEMMA ServerReach ==
    ASSUME NEW Lag \in Nat, DeliveryInv, CoverInv, ReachInv(Lag), NEW c \in Slots,
           ReadFrame(c) \/ WriteAck(c) \/ PeerGone(c) \/ ServerDrops(c), UNCHANGED senderVars
    PROVE  ReachInv(Lag)'
<1>1. UNCHANGED <<conn, acked, lastSeq, tracker>>
  BY DEF ReadFrame, WriteAck, PeerGone, ServerDrops, CloseServerEnd, receiverVars, senderVars,
     walVars
<1>2. TrackerGrows /\ lastSeq' \in Nat /\ lastSeq <= lastSeq' /\ acked' \in 0 .. acked
  BY <1>1, SameTracker, ServerFacts, CoverTypes, SenderFacts
<1>3. CommitsNear(Lag)'
  <2>1. CASE WriteAck(c) /\ c = conn
    <3>1. sOpen'[conn']
      BY <1>1, <2>1 DEF WriteAck
    <3>2. ~Unread'
      BY <3>1 DEF Unread, Lost
    <3>3. QED
      BY <1>2, <3>2, CommitsQuiet DEF ReachInv
  <2>2. CASE ~(WriteAck(c) /\ c = conn)
    <3>1. conn \in Slots => acks'[conn] = acks[conn]
      <4>1. acks \in [Slots -> Seq(Answers)]
        BY ServerFacts, LinkTypes
      <4>2. QED
        BY <2>2, <4>1 DEF ReadFrame, WriteAck, PeerGone, ServerDrops
    <3>2. QED
      BY <1>1, <1>2, <3>1, CommitsStay DEF ReachInv
  <2>3. QED
    BY <2>1, <2>2
<1>4. \A s : UnderWay(s)' => UnderWay(s) \/ s = Heartbeat
  <2>1. CASE ReadFrame(c)
    BY <2>1, ReadFrameMoves
  <2>2. CASE WriteAck(c)
    <3>1. PICK h : h = Head(order[c])
      OBVIOUS
    <3>2. call' = [call EXCEPT ![h] = Idle] /\ wire' = wire
      BY <2>2, <3>1 DEF WriteAck
    <3>3. QED
      BY <3>2, ServerFacts DEF UnderWay, Idle, NewCall
  <2>3. CASE PeerGone(c) \/ ServerDrops(c)
    BY <2>3, CloseMoves DEF PeerGone, ServerDrops
  <2>4. QED
    BY <2>1, <2>2, <2>3
<1>5. QED
  BY <1>1, <1>3, <1>4, NoFrame, ReachStays

LEMMA DropReach ==
    ASSUME NEW Lag \in Nat, DeliveryInv, CoverInv, ReachInv(Lag), NEW h \in Calls,
           DropResult(h), UNCHANGED senderVars
    PROVE  ReachInv(Lag)'
<1>1. /\ UNCHANGED <<conn, acks, wire, acked, lastSeq, tracker>>
      /\ call' = [call EXCEPT ![h] = Idle]
  BY DEF DropResult, linkVars, senderVars, walVars
<1>2. TrackerGrows /\ lastSeq' \in Nat /\ lastSeq <= lastSeq'
  BY <1>1, SameTracker, ServerFacts, CoverTypes
<1>3. CommitsNear(Lag)'
  BY <1>1, <1>2, CommitsStay DEF ReachInv
<1>4. \A s : UnderWay(s)' => UnderWay(s) \/ s = Heartbeat
  BY <1>1, ServerFacts DEF UnderWay, Idle, NewCall
<1>5. QED
  BY <1>1, <1>3, <1>4, NoFrame, ReachStays

\* A damaged header: the refusal comes after responses that were given while the server
\* still served the connection.
LEMMA BadHeaderReach ==
    ASSUME NEW Lag \in Nat, DeliveryInv, CoverInv, ReachInv(Lag), NEW c \in Slots,
           BadHeader(c), UNCHANGED senderVars
    PROVE  ReachInv(Lag)'
<1>1. /\ UNCHANGED <<conn, acked, lastSeq, tracker>> /\ wire[c] # <<>>
      /\ CloseServerEnd(c) /\ UNCHANGED receiverVars
  BY DEF BadHeader, CloseServerEnd, receiverVars, senderVars, walVars
<1>2. TrackerGrows /\ lastSeq' \in Nat /\ lastSeq <= lastSeq' /\ acked' \in 0 .. acked
  BY <1>1, SameTracker, ServerFacts, CoverTypes, SenderFacts
<1>3. \A s : UnderWay(s)' => UnderWay(s) \/ s = Heartbeat
  BY <1>1, CloseMoves
<1>4. acks \in [Slots -> Seq(Answers)]
  BY ServerFacts, LinkTypes
<1>5. CASE c # conn
  <2>1. conn \in Slots => acks'[conn] = acks[conn]
    BY <1>4, <1>5 DEF BadHeader
  <2>2. CommitsNear(Lag)'
    BY <1>1, <1>2, <2>1, CommitsStay DEF ReachInv
  <2>3. QED
    BY <1>1, <1>3, <2>2, NoFrame, ReachStays
<1>6. CASE c = conn
  <2>1. CASE ~Unread'
    <3>1. CommitsNear(Lag)'
      BY <1>2, <2>1, CommitsQuiet DEF ReachInv
    <3>2. QED
      BY <1>1, <1>3, <3>1, NoFrame, ReachStays
  <2>2. CASE Unread'
    <3>1. PICK q \in Seq(Answers) : q = acks[conn]
      BY <1>6, ServerFacts, SlotTypes
    <3>2. PICK e \in Answers : e = Ack(Head(wire[c]), FALSE) /\ ~e.ok
      <4>1. Head(wire[c]) \in 0 .. LastFrame
        BY <1>1, ServerFacts, SlotTypes, QueueTail
      <4>2. Ack(Head(wire[c]), FALSE) \in Answers /\ ~Ack(Head(wire[c]), FALSE).ok
        BY <4>1 DEF Ack, Answers
      <4>3. QED
        BY <4>2
    <3>3. PICK r : r = Append(q, e)
      OBVIOUS
    <3>4. /\ Len(q) \in Nat /\ (q = <<>> <=> Len(q) = 0) /\ Len(r) = Len(q) + 1
          /\ \A i \in 1 .. Len(q) : r[i] = q[i]
          /\ r[Len(q) + 1] = e
      BY <3>3, QueueAppend, QueueFacts
    <3>5. acks'[conn'] = r
      BY <1>1, <1>4, <1>6, <3>1, <3>2, <3>3 DEF BadHeader
    <3>6. r[1].ok /\ r[1].seq # Heartbeat
      BY <2>2, <3>5 DEF Unread
    <3>7. q # <<>>
      <4>1. SUFFICES ASSUME q = <<>> PROVE FALSE
        OBVIOUS
      <4>2. r[0 + 1] = e
        BY <3>4, <4>1, Zenon
      <4>3. r[1] = e
        BY <4>2
      <4>4. QED
        BY <3>2, <3>6, <4>3
    <3>8. r[1] = q[1]
      <4>1. 1 \in 1 .. Len(q)
        BY <3>4, <3>7
      <4>2. QED
        BY <3>4, <4>1
    <3>9. ~Lost
      BY <1>1, <1>6 DEF Lost, Silent
    <3>10. Covered(acked) /\ \A i \in 1 .. Len(acks[conn]) : AckTracked(i)
      BY <1>6, <3>1, <3>6, <3>7, <3>8, <3>9 DEF CoverInv, AcksCovered
    <3>11. ASSUME NEW i \in 1 .. Len(r) PROVE AckTracked(i)'
      <4>1. CASE i = Len(q) + 1
        BY <3>2, <3>4, <3>5, <4>1 DEF AckTracked
      <4>2. CASE i # Len(q) + 1
        <5>1. PICK k \in Nat : k = Len(q)
          BY <3>4
        <5>2. i \in 1 .. k + 1 /\ i # k + 1
          BY <3>4, <3>11, <4>2, <5>1
        <5>3. i \in 1 .. k
          BY <5>2
        <5>4. acks'[conn'][i] = acks[conn][i] /\ AckTracked(i)
          BY <3>1, <3>4, <3>5, <3>10, <5>1, <5>3
        <5>5. QED
          BY <1>1, <5>4 DEF AckTracked, Tracked
      <4>3. QED
        BY <4>1, <4>2
    <3>12. Covered(acked)'
      BY <1>2, <3>10, CommitsCovered
    <3>13. CommitsNear(Lag)'
      BY <3>5, <3>11, <3>12 DEF CommitsNear, Known
    <3>14. QED
      BY <1>1, <1>3, <3>13, NoFrame, ReachStays
  <2>3. QED
    BY <2>1, <2>2
<1>7. QED
  BY <1>5, <1>6

\* A frame that is sent is in the window that follows the commits.
LEMMA SentNear ==
    ASSUME NEW Lag \in Nat, LagFits(Lag), DeliveryInv, CoverInv, CommitsNear(Lag), phase = "send"
    PROVE  win[pos] \in 0 .. LastFrame /\ Covered(win[pos] - Lag)
<1>1. pos \in 1 .. Len(win) /\ First = 1 /\ Len(win) \in Nat /\ Len(win) <= Pipeline
      /\ acked \in Nat /\ LoopInv /\ Pipeline \in Nat
  BY SenderFacts DEF LoopInv, First
<1>2. win[pos] = acked + pos - 1 + 1
  BY <1>1 DEF LoopInv
<1>3. PICK s : s = win[pos]
  OBVIOUS
<1>4. s = acked + pos /\ s - Lag <= acked + Pipeline - Lag
  BY <1>1, <1>2, <1>3
<1>5. s \in 0 .. LastFrame
  BY <1>1, <1>3, SenderFacts, QueueFacts
<1>6. lastSeq \in Nat /\ tracker.last \in Nat /\ lastSeq <= tracker.last /\ Pipeline <= Lag
  BY ServerFacts, CoverTypes DEF CoverInv, LagFits
<1>7. CASE Late(Lag)
  <2>1. acked + Pipeline <= lastSeq + Lag
    BY <1>7 DEF Late
  <2>2. s - Lag <= tracker.last
    BY <1>1, <1>4, <1>6, <2>1
  <2>3. \A x \in 1 .. s - Lag : x <= tracker.last
    BY <1>4, <1>1, <1>6, <2>2
  <2>4. QED
    BY <1>3, <1>5, <2>3 DEF Covered, Tracked
<1>8. CASE Covered(acked)
  <2>1. \A x \in 1 .. s - Lag : x \in 1 .. acked
    BY <1>1, <1>4, <1>6
  <2>2. QED
    BY <1>3, <1>5, <1>8, <2>1 DEF Covered
<1>9. QED
  BY <1>7, <1>8 DEF CommitsNear, Known

\* A commit: by a response of a receiver that lives, which vouches for it, or by one
\* that was there to be read when the receiver restarted.
LEMMA AckReach ==
    ASSUME NEW Lag \in Nat, DeliveryInv, CoverInv, CommitsNear(Lag), AckSuccess,
           UNCHANGED <<serverVars, receiverVars>>
    PROVE  CommitsNear(Lag)'
<1>1. /\ acks[conn] # <<>> /\ acks' = [acks EXCEPT ![conn] = Tail(@)]
      /\ UNCHANGED <<conn, sOpen, wire, tracker, lastSeq, call>> /\ acked \in Nat
      /\ phase = "wait" /\ Head(acks[conn]).ok
  BY SenderFacts DEF AckSuccess, serverVars, receiverVars
<1>2. acked' = acked + 1 /\ conn \in Slots /\ (Lost \/ Covered(acked'))
  BY AckCommitsTracked
<1>3. PICK q \in Seq(Answers) : q = acks[conn]
  BY <1>2, ServerFacts, SlotTypes
<1>4. PICK k \in Nat : k = Len(q) /\ k >= 1
  BY <1>1, <1>3, QueueTail, QueueFacts
<1>5. /\ acks'[conn'] = Tail(q) /\ Len(Tail(q)) = k - 1 /\ Head(q) = q[1] /\ q[1].ok
      /\ \A i \in 1 .. k - 1 : Tail(q)[i] = q[i + 1]
  BY <1>1, <1>2, <1>3, <1>4, QueueTail, ServerFacts, LinkTypes
<1>6. q[1].seq = acked + 1 /\ q[1].seq # Heartbeat
  <2>1. q[1].seq = win[pos]
    BY <1>1, <1>3, <1>5, DeliveryInvAligned DEF AckAligned
  <2>2. Due(1) = acked + 1 /\ First = pos
    BY <1>1, <1>2, FirstDue DEF First
  <2>3. pos + 1 - 1 = pos
    BY SenderFacts
  <2>4. win[pos] = acked + 1
    BY <2>2, <2>3 DEF Due
  <2>5. QED
    BY <1>1, <2>1, <2>4 DEF Heartbeat
<1>7. CASE Covered(acked') /\ \A i \in 1 .. k : AckTracked(i)
  <2>1. ASSUME NEW i \in 1 .. Len(acks'[conn']) PROVE AckTracked(i)'
    <3>1. i \in 1 .. k - 1 /\ i + 1 \in 1 .. k
      BY <1>4, <1>5, <2>1
    <3>2. acks'[conn'][i] = acks[conn][i + 1] /\ AckTracked(i + 1)
      BY <1>3, <1>5, <1>7, <3>1
    <3>3. QED
      BY <1>1, <3>2 DEF AckTracked, Tracked
  <2>2. Covered(acked)'
    BY <1>1, <1>7 DEF Covered, Tracked
  <2>3. QED
    BY <2>1, <2>2 DEF CommitsNear, Known
<1>8. CASE ~Lost
  BY <1>1, <1>2, <1>3, <1>4, <1>7, <1>8 DEF CoverInv, AcksCovered
<1>9. CASE Lost
  <2>1. Unread
    BY <1>1, <1>2, <1>3, <1>5, <1>6, <1>9 DEF Unread
  <2>2. CASE Known
    <3>1. Covered(acked) /\ \A i \in 1 .. k : AckTracked(i)
      BY <1>3, <1>4, <2>1, <2>2 DEF Known
    <3>2. Tracked(acked + 1)
      <4>1. 1 \in 1 .. k
        BY <1>4
      <4>2. AckTracked(1)
        BY <3>1, <4>1
      <4>3. QED
        BY <1>3, <1>5, <1>6, <4>2 DEF AckTracked
    <3>3. \A s \in 1 .. acked + 1 : s \in 1 .. acked \/ s = acked + 1
      BY <1>1
    <3>4. Covered(acked')
      BY <1>2, <3>1, <3>2, <3>3 DEF Covered
    <3>5. QED
      BY <1>7, <3>1, <3>4
  <2>3. CASE Late(Lag)
    <3>1. PICK a \in Nat, l \in Nat, p \in Nat : a = acked /\ l = lastSeq /\ p = Pipeline
      BY SenderFacts, ServerFacts, CoverTypes
    <3>2. a + p + k <= l + Lag
      BY <1>3, <1>4, <2>1, <2>3, <3>1 DEF Late
    <3>3. a + 1 + p <= l + Lag /\ a + 1 + p + (k - 1) <= l + Lag
      BY <1>4, <3>2
    <3>4. acked' = a + 1 /\ lastSeq' = l /\ Len(acks'[conn']) = k - 1
      BY <1>1, <1>2, <1>5, <3>1
    <3>5. Late(Lag)'
      BY <3>1, <3>3, <3>4 DEF Late
    <3>6. QED
      BY <3>5 DEF CommitsNear
  <2>4. QED
    BY <2>2, <2>3 DEF CommitsNear
<1>10. QED
  BY <1>8, <1>9

LEMMA SenderReach ==
    ASSUME NEW Lag \in Nat, LagFits(Lag), DeliveryInv, CoverInv, ReachInv(Lag),
           UNCHANGED <<serverVars, receiverVars>>,
           SenderStep \/ AppendFrame \/ StartHeartbeat \/ SendFails \/ HeartbeatFails
             \/ AckTimeout \/ DialRefused \/ CrashSender
    PROVE  ReachInv(Lag)'
<1>1. UNCHANGED <<lastSeq, tracker, call>> /\ CommitsNear(Lag)
  BY DEF receiverVars, ReachInv
<1>2. TrackerGrows /\ lastSeq' \in Nat /\ lastSeq <= lastSeq' /\ acked \in 0 .. acked
  BY <1>1, SameTracker, ServerFacts, CoverTypes, SenderFacts
<1>3. ASSUME wire' = wire, CommitsNear(Lag)' PROVE ReachInv(Lag)'
  <2>1. \A s : UnderWay(s)' => UnderWay(s)
    BY <1>1, <1>3 DEF UnderWay
  <2>2. QED
    BY <1>1, <1>3, <2>1, ReachStays
<1>4. CASE StartRound \/ StartHeartbeat \/ Redial \/ DialRefused
  <2>1. UNCHANGED walVars /\ (Connected \/ Dial(FALSE))
    BY <1>4 DEF StartRound, StartHeartbeat, Redial, DialRefused, senderVars
  <2>2. acked' = acked /\ wire' = wire
    BY <2>1 DEF walVars, Connected, linkVars, Dial
  <2>3. CASE UNCHANGED linkVars
    <3>1. CommitsNear(Lag)'
      BY <1>1, <1>2, <2>2, <2>3, CommitsStay DEF linkVars
    <3>2. QED
      BY <1>3, <2>2, <3>1
  <2>4. ASSUME NEW b \in BOOLEAN, Dial(b) PROVE ReachInv(Lag)'
    <3>1. acks'[conn'] = <<>>
      BY <2>4, SenderFacts, DialKeeps DEF Quiet
    <3>2. ~Unread'
      BY <3>1 DEF Unread
    <3>3. CommitsNear(Lag)'
      BY <1>1, <1>2, <2>2, <3>2, CommitsQuiet
    <3>4. QED
      BY <1>3, <2>2, <3>3
  <2>5. QED
    BY <2>1, <2>3, <2>4 DEF Connected
<1>5. CASE SendHeartbeat \/ SendFrame
  <2>1. acked' = acked /\ conn \in Slots /\ conn' = conn /\ acks' = acks
    BY <1>5, SenderFacts DEF SendHeartbeat, SendFrame, LoopInv, walVars, Put
  <2>2. CommitsNear(Lag)'
    BY <1>1, <1>2, <2>1, CommitsStay
  <2>3. ASSUME NEW s \in 1 .. MaxSeq, UnderWay(s)' PROVE UnderWay(s) \/ Covered(s - Lag)
    <3>1. CASE SendHeartbeat
      <4>1. 0 \in 0 .. LastFrame /\ Put(0)
        BY <3>1, SenderFacts DEF SendHeartbeat
      <4>2. QED
        BY <2>1, <2>3, <4>1, PutMoves, ServerFacts, CoverTypes
    <3>2. CASE SendFrame
      <4>1. phase = "send" /\ Put(win[pos])
        BY <3>2 DEF SendFrame
      <4>2. win[pos] \in 0 .. LastFrame /\ Covered(win[pos] - Lag)
        BY <1>1, <4>1, SentNear
      <4>3. UnderWay(s) \/ s = win[pos]
        BY <2>1, <2>3, <4>1, <4>2, PutMoves
      <4>4. QED
        BY <4>2, <4>3
    <3>3. QED
      BY <1>5, <3>1, <3>2
  <2>4. QED
    BY <1>1, <2>2, <2>3, ReachStays
<1>6. CASE HeartbeatAck \/ (AckFail /\ Pipeline = 1)
  <2>1. acks'[conn'] = <<>> /\ acked' = acked /\ wire' = wire
    BY <1>6, LastAck DEF HeartbeatAck, AckFail, walVars
  <2>2. ~Unread'
    BY <2>1 DEF Unread
  <2>3. CommitsNear(Lag)'
    BY <1>1, <1>2, <2>1, <2>2, CommitsQuiet
  <2>4. QED
    BY <1>3, <2>1, <2>3
<1>7. CASE AckSuccess
  <2>1. wire' = wire
    BY <1>7 DEF AckSuccess
  <2>2. QED
    BY <1>1, <1>3, <1>7, <2>1, AckReach
<1>8. CASE \/ AckFail /\ Pipeline # 1
           \/ AckEOF \/ SendFails \/ HeartbeatFails \/ AckTimeout \/ CrashSender
  <2>1. Hangup /\ acked' \in 0 .. acked
    BY <1>2, <1>8, SenderFacts
       DEF AckFail, AckEOF, SendFails, HeartbeatFails, AckTimeout, CrashSender, walVars
  <2>2. ~Unread' /\ wire' = wire
    BY <2>1, LinkAssumption DEF Hangup, Unread
  <2>3. CommitsNear(Lag)'
    BY <1>1, <1>2, <2>1, <2>2, CommitsQuiet
  <2>4. QED
    BY <1>3, <2>2, <2>3
<1>9. CASE AppendFrame
  <2>1. UNCHANGED <<acked, conn, wire, acks>>
    BY <1>9 DEF AppendFrame, linkVars
  <2>2. CommitsNear(Lag)'
    BY <1>1, <1>2, <2>1, CommitsStay
  <2>3. QED
    BY <1>3, <2>1, <2>2
<1>10. QED
  BY <1>4, <1>5, <1>6, <1>7, <1>8, <1>9 DEF SenderStep

\* The responses that wait for the sender are to frames of its window.
LEMMA AcksInWindow ==
    ASSUME DeliveryInv, conn \in Slots
    PROVE  Len(acks[conn]) \in Nat /\ Len(acks[conn]) <= Pipeline
<1>1. PICK a \in Nat, o \in Nat, w \in Nat :
          a = Len(acks[conn]) /\ o = Len(order[conn]) /\ w = Len(wire[conn])
  BY ServerFacts, SlotTypes
<1>2. PICK m \in Nat : m = Sent
  BY SentType, Zenon
<1>3. a + o + w <= m
  BY <1>1, <1>2, ConnLengths, Zenon
<1>4. m <= Pipeline
  <2>1. PICK n \in Nat, i \in Nat \ {0}, p \in Nat \ {0} :
            n = Len(win) /\ i = pos /\ p = Pipeline /\ n <= p
    BY SenderFacts
  <2>2. CASE phase = "wait"
    <3>1. m = n - i + 1
      BY <1>2, <2>1, <2>2 DEF Sent
    <3>2. QED
      BY <2>1, <3>1
  <2>3. CASE phase = "send"
    <3>1. m = i - 1 /\ i <= n
      BY <1>2, <2>1, <2>3, SenderFacts DEF Sent, LoopInv
    <3>2. QED
      BY <2>1, <3>1
  <2>4. CASE phase = "beat"
    <3>1. m = i - 1 /\ i \in {1, 2}
      BY <1>2, <2>1, <2>4, SenderFacts DEF Sent, LoopInv
    <3>2. QED
      BY <2>1, <3>1
  <2>5. CASE phase \notin {"wait", "send", "beat"}
    <3>1. m = 0
      BY <1>2, <2>5 DEF Sent
    <3>2. QED
      BY <2>1, <3>1
  <2>6. QED
    BY <2>2, <2>3, <2>4, <2>5
<1>5. PICK i : i = a + o + w /\ a <= i
  OBVIOUS
<1>6. a <= Pipeline
  BY <1>2, <1>3, <1>4, <1>5, SenderFacts
<1>7. QED
  BY <1>1, <1>6

\* A restart of the receiver: nothing is on its way, and last_seq is close to the commits
\* because its file was.
LEMMA CrashReach ==
    ASSUME NEW Lag \in Nat, DeliveryInv, CrashReceiver, UNCHANGED senderVars,
           acked + 2 * Pipeline <= lastSeqFile + Lag
    PROVE  ReachInv(Lag)'
<1>1. /\ \A c \in Slots : wire'[c] = <<>>
      /\ \A h \in Calls : call'[h] = Idle
      /\ lastSeq' = lastSeqFile /\ tracker' = [last |-> lastSeqFile, pending |-> {}]
      /\ conn' = conn /\ acks' = acks /\ acked' = acked
  BY DEF CrashReceiver, RestartReceiver, InitTracker, senderVars, walVars
<1>2. lastSeqFile \in Nat /\ acked \in Nat /\ Pipeline \in Nat
  BY ServerFacts, SenderFacts, CoverTypes DEF ReceiverInv, ReceiverTypeOK
<1>3. Late(Lag)'
  <2>1. acked' + Pipeline <= lastSeq' + Lag
    BY <1>1, <1>2
  <2>2. ASSUME Unread' PROVE acked' + Pipeline + Len(acks'[conn']) <= lastSeq' + Lag
    <3>1. conn \in Slots
      BY <1>1, <2>2 DEF Unread
    <3>2. PICK k \in Nat : k = Len(acks[conn]) /\ k <= Pipeline
      BY <3>1, AcksInWindow
    <3>3. PICK a \in Nat, p \in Nat, f \in Nat : a = acked /\ p = Pipeline /\ f = lastSeqFile
      BY <1>2
    <3>4. k <= p /\ a + 2 * p <= f + Lag
      BY <3>2, <3>3
    <3>5. a + p + k <= f + Lag
      BY <3>4
    <3>6. QED
      BY <1>1, <3>2, <3>3, <3>5
  <2>3. QED
    BY <2>1, <2>2 DEF Late
<1>4. \A s \in 1 .. MaxSeq : ~UnderWay(s)' /\ s \notin tracker'.pending
  BY <1>1, NoFrame, EmptyQueue DEF UnderWay, Idle, NewCall
<1>5. RunsNear(tracker, Lag)'
  <2>1. PICK t : t = tracker' /\ t = [last |-> lastSeqFile, pending |-> {}]
    BY <1>1
  <2>2. ASSUME NEW n \in 1 .. MaxSeq, Reaches(t, n) PROVE n <= t.last + Lag
    <3>1. MaxSeq \in Nat
      BY ServerFacts, CoverTypes
    <3>2. n \in 1 .. n
      BY <3>1
    <3>3. n <= lastSeqFile
      BY <2>1, <2>2, <3>2 DEF Reaches
    <3>4. QED
      BY <1>2, <2>1, <3>1, <3>3
  <2>3. QED
    BY <2>1, <2>2 DEF RunsNear, Reaches
<1>6. QED
  BY <1>3, <1>4, <1>5 DEF ReachInv, CommitsNear, FramesNear

LEMMA ReachNext ==
    ASSUME NEW Lag \in Nat, LagFits(Lag), DeliveryInv, CoverInv, ReachInv(Lag), [Next]_vars,
           [KeepsUp(Lag)]_vars
    PROVE  ReachInv(Lag)'
<1>1. Near
  BY ReachNear
<1>2. CASE SenderWorks \/ Poll \/ Idling \/ SenderFault
  BY <1>2, SenderReach DEF SenderWorks, Poll, Idling, SenderFault
<1>3. ASSUME NEW c \in Slots, ServerWorks(c) PROVE ReachInv(Lag)'
  <2>1. UNCHANGED senderVars
    BY <1>3 DEF ServerWorks
  <2>2. QED
    BY <1>3, <2>1, ServerReach DEF ServerWorks
<1>4. ASSUME NEW h \in Calls, CallWorks(h) PROVE ReachInv(Lag)'
  BY <1>1, <1>4, CallReach DEF CallWorks
<1>5. ASSUME NEW h \in Calls, ResultDropped(h) PROVE ReachInv(Lag)'
  BY <1>5, DropReach DEF ResultDropped
<1>6. CASE ServerFault
  BY <1>6, ServerReach, BadHeaderReach DEF ServerFault
<1>7. CASE Fails /\ ReceiverFault
  <2>1. faults' # faults
    BY <1>7, SenderFacts, DeliveryConstants DEF Fails
  <2>2. acked + 2 * Pipeline <= lastSeqFile + Lag
    BY <1>7, <2>1 DEF KeepsUp, vars
  <2>3. QED
    BY <1>7, <2>2, CrashReach DEF ReceiverFault
<1>8. CASE CallFails
  BY <1>1, <1>8, CallReach DEF CallFails
<1>9. CASE UNCHANGED vars
  <2>1. /\ UNCHANGED <<acked, conn, wire, acks, tracker, call, lastSeq>>
    BY <1>9 DEF vars, linkVars, receiverVars, senderVars, walVars
  <2>2. TrackerGrows /\ lastSeq' \in Nat /\ lastSeq <= lastSeq'
    BY <2>1, SameTracker, ServerFacts, CoverTypes
  <2>3. CommitsNear(Lag)'
    BY <2>1, <2>2, CommitsStay DEF ReachInv
  <2>4. \A s : UnderWay(s)' => UnderWay(s)
    BY <2>1 DEF UnderWay
  <2>5. QED
    BY <2>1, <2>3, <2>4, ReachStays
<1>10. QED
  BY <1>2, <1>3, <1>4, <1>5, <1>6, <1>7, <1>8, <1>9 DEF Next, Fault

LEMMA ReachInvariant ==
    ASSUME RetryLeads, NEW Lag \in Nat, LagFits(Lag)
    PROVE  Spec /\ FilesKeepUp(Lag) => [](DeliveryInv /\ Near)
<1>1. Orderly
  BY DeliveryConstants DEF RetryLeads, Orderly
<1> DEFINE Inv == DeliveryInv /\ CoverInv /\ ReachInv(Lag)
<1>2. Init => Inv
  BY DeliveryInitInv, CoverInitInv, ReachInit
<1>3. Inv => Near
  BY ReachNear
<1>4. Inv /\ [Next]_vars /\ [KeepsUp(Lag)]_vars => Inv'
  <2> SUFFICES ASSUME Inv, [Next]_vars, [KeepsUp(Lag)]_vars PROVE Inv'
    OBVIOUS
  <2>1. Near /\ NoJump
    BY <1>3, ServerFacts, NearNeverJumps
  <2>2. (DeliveryInv /\ CoverInv)'
    BY <1>1, <2>1, DeliveryNextInv, CoverNextInv
  <2>3. ReachInv(Lag)'
    BY ReachNext
  <2>4. QED
    BY <2>2, <2>3
<1> HIDE DEF Inv
<1>5. Inv => DeliveryInv /\ Near
  BY <1>3 DEF Inv
<1>6. QED
  BY <1>2, <1>4, <1>5, PTL DEF Spec, FilesKeepUp

\* Frames stay near the tracker, however many are sent and in whatever order they complete,
\* are refused, sent again or overtaken, as long as each restart of the receiver finds a
\* last_seq file that keeps up (receiver.go:33, 298-303, 398, 437).
THEOREM FramesStayNear ==
    ASSUME RetryLeads, NEW Lag \in Nat, LagFits(Lag)
    PROVE  Spec /\ FilesKeepUp(Lag) => []Near
<1>1. QED
  BY ReachInvariant, PTL

\* In pipeline mode no frame jumps over the tracker's limit, under the same condition: the
\* window, the gap closed by the first frame of each connection and the drain keep every
\* frame close to what is tracked (receiver.go:430-437).
THEOREM PipelineNeverJumps ==
    ASSUME Pipeline # 1, Codec = "gzip", ~LateSendFails, NEW Lag \in Nat, LagFits(Lag)
    PROVE  Spec /\ FilesKeepUp(Lag) => []NoJump
<1>1. RetryLeads
  BY DEF RetryLeads
<1>2. DeliveryInv /\ Near => NoJump
  BY ServerFacts, NearNeverJumps
<1>3. QED
  BY <1>1, <1>2, ReachInvariant, PTL
=============================================================================
