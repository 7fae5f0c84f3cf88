--------------------------- MODULE ReceiverProofs ---------------------------
(***************************************************************************)
(* The receiver's safety for any number of concurrent calls, any seqs and  *)
(* any limits of the tracker, as long as no frame jumps.                   *)
(***************************************************************************)
EXTENDS Receiver, FiniteSetTheorems, WellFoundedInduction, TLAPS

-----------------------------------------------------------------------------
(***************************************************************************)
(* The tracker's operators, for any limits and any bound N on the seqs.    *)
(***************************************************************************)
\* Every nonempty set of naturals has a least element.
LEMMA LeastNatural ==
    ASSUME NEW T, T \subseteq Nat, T # {}
    PROVE  \E m \in T : \A n \in T : m <= n
<1> DEFINE R == {ss \in Nat \X Nat : ss[1] < ss[2]}
<1>1. IsWellFoundedOn(R, Nat)
  BY NatLessThanWellFounded DEF OpToRel
<1>2. PICK m \in T : \A n \in T : <<n, m>> \notin R
  <2> HIDE DEF R
  <2> QED BY <1>1, WFMin
<1>3. \A n \in T : m <= n
  <2> TAKE n \in T
  <2>1. <<n, m>> \notin R
    BY <1>2
  <2>2. ~ (n < m)
    BY <2>1
  <2> QED BY <2>2
<1> QED BY <1>3

\* RunEnd is what its name says, whatever set of completed seqs it is given.
LEMMA RunEndSpec ==
    ASSUME NEW N \in Nat, NEW last \in 0 .. N, NEW P \in SUBSET (1 .. N)
    PROVE  /\ RunEnd(last, P) \in {last} \cup P
           /\ RunEnd(last, P) \in last .. N
           /\ last + 1 .. RunEnd(last, P) \subseteq P
           /\ RunEnd(last, P) + 1 \notin P
<1> DEFINE T == {n \in Nat : n > last /\ n \notin P}
           IsEnd(e) == e >= last /\ last + 1 .. e \subseteq P /\ e + 1 \notin P
<1>1. N + 1 \in T
  OBVIOUS
<1>2. PICK m \in T : \A n \in T : m <= n
  BY <1>1, LeastNatural
<1>3. /\ m - 1 \in last .. N
      /\ last + 1 .. m - 1 \subseteq P
      /\ m \notin P
  BY <1>1, <1>2
<1>4. m - 1 \in {last} \cup P /\ IsEnd(m - 1)
  BY <1>3
<1>5. \E e \in {last} \cup P : IsEnd(e)
  BY <1>4
<1>6. RunEnd(last, P) \in {last} \cup P /\ IsEnd(RunEnd(last, P))
  BY <1>5 DEF RunEnd
<1>7. QED
  <2> DEFINE e == RunEnd(last, P)
  <2>1. e \in {last} \cup P /\ e >= last /\ last + 1 .. e \subseteq P /\ e + 1 \notin P
    BY <1>6
  <2> HIDE DEF e
  <2>2. e \in last .. N
    BY <2>1
  <2>3. QED
    BY <2>1, <2>2 DEF e

TrackersTo(N) == [last : 0 .. N, pending : SUBSET (1 .. N)]

\* closeGap raises last to upTo at most, and keeps only what is above it.
LEMMA CloseGapSpec ==
    ASSUME NEW N \in Nat, NEW t \in TrackersTo(N), NEW upTo \in 0 .. N
    PROVE  /\ CloseGap(t, upTo) \in TrackersTo(N)
           /\ CloseGap(t, upTo).last >= t.last
           /\ CloseGap(t, upTo).last \in {t.last, upTo}
           /\ CloseGap(t, upTo).pending \subseteq t.pending
BY DEF CloseGap, TrackersTo

\* done never moves last back, and moves it only over frames that were done:
\* those it covered, those pending, seq itself, and, for a jump beyond the
\* limit, those below seq.
LEMMA DoneSpec ==
    ASSUME NEW N \in Nat, NEW t \in TrackersTo(N), NEW seq \in 1 .. N
    PROVE  /\ Done(t, seq) \in TrackersTo(N)
           /\ Done(t, seq).last >= t.last
           /\ \A D : /\ 1 .. t.last \subseteq D
                     /\ t.pending \subseteq D
                     /\ seq \in D
                     /\ seq > t.last + JumpLimit => 1 .. seq - 1 \subseteq D
                     => /\ 1 .. Done(t, seq).last \subseteq D
                        /\ Done(t, seq).pending \subseteq D
<1> USE DEF TrackersTo
<1>1. CASE seq <= t.last
  <2>1. Done(t, seq) = t
    BY <1>1 DEF Done
  <2>2. QED
    BY <2>1
<1>2. CASE ~ (seq <= t.last) /\ seq > t.last + JumpLimit
  <2>1. Done(t, seq) = [last |-> seq, pending |-> {}]
    BY <1>2 DEF Done
  <2>2. QED
    BY <2>1, <1>2
<1>3. CASE ~ (seq <= t.last) /\ ~ (seq > t.last + JumpLimit)
  <2> DEFINE P == t.pending \cup {seq}
             e == RunEnd(t.last, P)
             left == P \ (t.last + 1 .. e)
  <2>1. P \in SUBSET (1 .. N) /\ t.last \in 0 .. N
    OBVIOUS
  <2>2. e \in t.last .. N /\ t.last + 1 .. e \subseteq P
    BY <2>1, RunEndSpec
  <2>3. Done(t, seq).last = e /\ Done(t, seq).pending \in {{}, left}
    BY <1>3 DEF Done, Drain
  <2>4. Done(t, seq) \in TrackersTo(N)
    <3>1. Done(t, seq) = [last |-> e, pending |-> IF Cardinality(left) > PendingLimit THEN {} ELSE left]
      BY <1>3 DEF Done, Drain
    <3> HIDE DEF e
    <3>2. left \subseteq 1 .. N
      BY <2>1
    <3> HIDE DEF left
    <3>3. QED
      BY <3>1, <3>2, <2>1, <2>2
  <2> HIDE DEF e
  <2>5. Done(t, seq).last >= t.last
    BY <2>2, <2>3
  <2>6. ASSUME NEW D, 1 .. t.last \subseteq D, t.pending \subseteq D, seq \in D
        PROVE  1 .. Done(t, seq).last \subseteq D /\ Done(t, seq).pending \subseteq D
    <3>1. P \subseteq D
      BY <2>6
    <3>2. 1 .. e \subseteq D
      BY <2>2, <2>6, <3>1
    <3>3. left \subseteq D
      BY <3>1
    <3>4. QED
      BY <2>3, <3>2, <3>3
  <2>7. QED
    BY <2>4, <2>5, <2>6
<1>4. QED
  BY <1>1, <1>2, <1>3

-----------------------------------------------------------------------------
\* Everything the receiver vouches for is settled.
Vouched ==
    /\ 1 .. lastSeq \subseteq Settled
    /\ 1 .. tracker.last \subseteq Settled
    /\ tracker.pending \subseteq Settled
    /\ 1 .. lastSeqFile \subseteq Settled

\* Below the first frame of a connection, which may close a gap, nothing is left to do.
Authorised(h) == call[h].head => 1 .. call[h].seq - 1 \subseteq Settled

\* No frame completes so far ahead of the tracker that done leaps over what is
\* between; or what it leaps over is settled.
Jumps(h) == call[h].pc = "mark" /\ call[h].seq > tracker.last + JumpLimit
NoJump == \A h \in Calls : ~Jumps(h)
SafeJump(h) == Jumps(h) => 1 .. call[h].seq - 1 \subseteq Settled

\* What a call knows at each stage.
CallKnows(h) ==
    /\ call[h].pc \in Registered \cup {"register"} => call[h].seq \in DataSeqs
    /\ call[h].pc = "relay" => call[h].seq \in stored
    /\ call[h].pc \in {"mark", "advance", "save"} => call[h].seq \in Settled
    /\ call[h].pc \in {"saveGap", "save"} => 1 .. call[h].upTo \subseteq Settled
    /\ call[h].ok /\ call[h].seq # Heartbeat => call[h].seq \in Settled

CallSafe(h) == CallKnows(h) /\ Authorised(h)

\* The inductive invariant.
ReceiverInv == ReceiverTypeOK /\ Vouched /\ \A h \in Calls : CallSafe(h)
-----------------------------------------------------------------------------
\* The invariant implies the properties it was made for.
LEMMA ReceiverInvImplies ==
    ReceiverInv => PrefixDelivered /\ ConfirmedDelivered /\ CoveredRelayed
BY DEF ReceiverInv, Vouched, CallSafe, CallKnows, Settled, PrefixDelivered, ConfirmedDelivered,
       CoveredRelayed

LEMMA ReceiverInitInv == ReceiverInit => ReceiverInv
<1> SUFFICES ASSUME ReceiverInit PROVE ReceiverInv
  OBVIOUS
<1>1. ReceiverTypeOK
  BY ReceiverAssumption DEF ReceiverInit, ReceiverTypeOK, InitTracker, CallRecords, Stages,
     Idle, NewCall, Heartbeat, DataSeqs
<1>2. Vouched
  BY DEF ReceiverInit, Vouched, InitTracker
<1>3. \A h \in Calls : CallSafe(h)
  BY DEF ReceiverInit, CallSafe, CallKnows, Authorised, Idle, NewCall, Registered, Heartbeat
<1>4. QED
  BY <1>1, <1>2, <1>3 DEF ReceiverInv

-----------------------------------------------------------------------------
(***************************************************************************)
(* The steps of one call.                                                  *)
(***************************************************************************)

\* The database and the dead letters only gain frames.
DatabaseGrows ==
    /\ stored \subseteq stored' /\ stored' \subseteq DataSeqs
    /\ dlq \subseteq dlq' /\ dlq' \subseteq DataSeqs
    /\ relayed \subseteq relayed' /\ relayed' \subseteq DataSeqs
    /\ relayLost \subseteq relayLost' /\ relayLost' \subseteq DataSeqs

LEMMA SettledGrows == DatabaseGrows => Settled \subseteq Settled'
BY DEF DatabaseGrows, Settled, Delivered

\* Call h, and no other, goes on; it keeps its frame.
Moves(h) ==
    /\ call' \in [Calls -> CallRecords]
    /\ \A g \in Calls \ {h} : call'[g] = call[g]
    /\ call'[h].seq = call[h].seq
    /\ call'[h].head = call[h].head

LEMMA GotoMoves ==
    ASSUME NEW h \in Calls, NEW stage \in Stages, call \in [Calls -> CallRecords],
           Goto(h, stage)
    PROVE  Moves(h) /\ call'[h].pc = stage /\ call'[h].ok = call[h].ok
                    /\ call'[h].upTo = call[h].upTo
<1>1. call'[h] = [call[h] EXCEPT !.pc = stage] /\ call[h] \in CallRecords
  BY DEF Goto
<1>2. call'[h] \in CallRecords
  BY <1>1 DEF CallRecords
<1>3. QED
  BY <1>1, <1>2 DEF Goto, Moves, CallRecords

LEMMA FinishMoves ==
    ASSUME NEW h \in Calls, NEW stage \in Stages, NEW b \in BOOLEAN,
           call \in [Calls -> CallRecords], Finish(h, stage, b)
    PROVE  Moves(h) /\ call'[h].pc = stage /\ call'[h].ok = b
                    /\ call'[h].upTo = call[h].upTo
<1>1. call'[h] = [call[h] EXCEPT !.pc = stage, !.ok = b] /\ call[h] \in CallRecords
  BY DEF Finish
<1>2. call'[h] \in CallRecords
  BY <1>1 DEF CallRecords
<1>3. QED
  BY <1>1, <1>2 DEF Finish, Moves, CallRecords

LEMMA UpToMoves ==
    ASSUME NEW h \in Calls, NEW stage \in Stages, NEW u \in 0 .. MaxSeq,
           call \in [Calls -> CallRecords],
           call' = [call EXCEPT ![h].pc = stage, ![h].upTo = u]
    PROVE  Moves(h) /\ call'[h].pc = stage /\ call'[h].ok = call[h].ok
                    /\ call'[h].upTo = u
<1>1. call'[h] = [call[h] EXCEPT !.pc = stage, !.upTo = u] /\ call[h] \in CallRecords
  OBVIOUS
<1>2. call'[h] \in CallRecords
  BY <1>1 DEF CallRecords
<1>3. QED
  BY <1>1, <1>2 DEF Moves, CallRecords

\* Any step of a call keeps the invariant if what it vouches for, and what the
\* call now knows, is settled.
LEMMA MoveInv ==
    ASSUME NEW h \in Calls, ReceiverInv, Moves(h), DatabaseGrows,
           lastSeq' \in 0 .. MaxSeq, lastSeqFile' \in 0 .. MaxSeq,
           tracker' \in TrackersTo(MaxSeq), inflight' \in [DataSeqs -> Nat],
           Vouched', CallKnows(h)'
    PROVE  ReceiverInv'
<1>1. ReceiverTypeOK'
  BY DEF ReceiverTypeOK, Moves, DatabaseGrows, TrackersTo, DataSeqs
<1>2. Settled \subseteq Settled'
  BY SettledGrows
<1>3. CallSafe(h)'
  BY <1>2 DEF ReceiverInv, CallSafe, Authorised, Moves
<1>4. ASSUME NEW g \in Calls \ {h} PROVE CallSafe(g)'
  <2>1. CallSafe(g) /\ call'[g] = call[g]
    BY DEF ReceiverInv, Moves
  <2>2. QED
    BY <1>2, <2>1 DEF CallSafe, CallKnows, Authorised, DatabaseGrows
<1>5. QED
  BY <1>1, <1>3, <1>4 DEF ReceiverInv, DatabaseGrows

\* The same when the step neither raises last_seq nor touches the tracker.
LEMMA QuietMoveInv ==
    ASSUME NEW h \in Calls, ReceiverInv, Moves(h), DatabaseGrows,
           UNCHANGED <<lastSeq, tracker, lastSeqFile>>, inflight' \in [DataSeqs -> Nat],
           CallKnows(h)'
    PROVE  ReceiverInv'
<1>1. Vouched'
  BY SettledGrows DEF ReceiverInv, Vouched
<1>2. QED
  BY <1>1, MoveInv DEF ReceiverInv, ReceiverTypeOK, TrackersTo, DataSeqs

LEMMA CallStepInv ==
    ASSUME NEW h \in Calls, ReceiverInv, SafeJump(h), CallStep(h) \/ CallFault(h)
    PROVE  ReceiverInv'
<1> DEFINE s == call[h].seq
<1>1. /\ call \in [Calls -> CallRecords] /\ inflight \in [DataSeqs -> Nat]
      /\ call[h] \in CallRecords /\ s \in Heartbeat .. MaxSeq
      /\ CallKnows(h)
  BY DEF ReceiverInv, ReceiverTypeOK, CallSafe, CallRecords
<1>2. /\ stored \subseteq DataSeqs /\ dlq \subseteq DataSeqs
      /\ relayed \subseteq DataSeqs /\ relayLost \subseteq DataSeqs
  BY DEF ReceiverInv, ReceiverTypeOK
<1>3. /\ tracker \in TrackersTo(MaxSeq) /\ lastSeq \in 0 .. MaxSeq
      /\ lastSeqFile \in 0 .. MaxSeq /\ Vouched /\ MaxSeq \in Nat
  BY ReceiverAssumption DEF ReceiverInv, ReceiverTypeOK, TrackersTo, DataSeqs
<1>4. UNCHANGED databaseVars => DatabaseGrows /\ Settled' = Settled
  BY <1>2 DEF databaseVars, DatabaseGrows, Settled, Delivered
<1> HIDE DEF s
<1>5. CASE DecodeFails(h)
  <2>1. Moves(h) /\ call'[h].pc = "ret" /\ call'[h].ok = FALSE
    BY <1>1, <1>5, FinishMoves DEF DecodeFails, Stages
  <2>2. QED
    BY <1>1, <1>4, <1>5, <2>1, QuietMoveInv DEF DecodeFails, CallKnows, Registered
<1>6. CASE CheckDuplicate(h)
  <2>1. CASE s = Heartbeat \/ s <= lastSeq
    <3>1. Moves(h) /\ call'[h].pc = "ret" /\ call'[h].ok = TRUE
      BY <1>1, <1>6, <2>1, FinishMoves DEF CheckDuplicate, Stages, s
    <3>2. s # Heartbeat => s \in Settled
      BY <1>1, <1>3, <2>1 DEF Vouched, Heartbeat
    <3>3. call'[h].seq = s
      BY <3>1 DEF Moves, s
    <3>4. CallKnows(h)'
      BY <1>4, <1>6, <3>1, <3>2, <3>3 DEF CheckDuplicate, CallKnows, Registered
    <3>5. QED
      BY <1>1, <1>4, <1>6, <3>1, <3>4, QuietMoveInv DEF CheckDuplicate
  <2>2. CASE ~ (s = Heartbeat \/ s <= lastSeq)
    <3>1. Moves(h) /\ call'[h].pc = "register" /\ call'[h].ok = call[h].ok
      BY <1>1, <1>6, <2>2, GotoMoves DEF CheckDuplicate, Stages, s
    <3>2. call'[h].seq = s /\ s \in DataSeqs
      BY <1>1, <2>2, <3>1 DEF Moves, s, DataSeqs, Heartbeat
    <3>3. CallKnows(h)'
      BY <1>1, <1>4, <1>6, <3>1, <3>2 DEF CheckDuplicate, CallKnows, s
    <3>4. QED
      BY <1>1, <1>4, <1>6, <3>1, <3>3, QuietMoveInv DEF CheckDuplicate
  <2>3. QED
    BY <2>1, <2>2
<1>7. CASE AddInflight(h)
  <2>1. Moves(h) /\ call'[h].pc = "gap" /\ call'[h].ok = call[h].ok
    BY <1>1, <1>7, GotoMoves DEF AddInflight, Stages
  <2>2. s \in DataSeqs /\ call'[h].seq = s
    BY <1>1, <1>7, <2>1 DEF AddInflight, CallKnows, Moves, s
  <2>3. inflight' \in [DataSeqs -> Nat]
    BY <1>1, <1>7, <2>2 DEF AddInflight, s
  <2>4. CallKnows(h)'
    BY <1>1, <1>4, <1>7, <2>1, <2>2 DEF AddInflight, CallKnows, s
  <2>5. QED
    BY <1>4, <1>7, <2>1, <2>3, <2>4, QuietMoveInv DEF AddInflight
<1>8. CASE TryCloseGap(h)
  <2>1. CASE ~ GapCloses(h)
    <3>1. Moves(h) /\ call'[h].pc = "write" /\ call'[h].ok = call[h].ok
      BY <1>1, <1>8, <2>1, GotoMoves DEF TryCloseGap, Stages
    <3>2. CallKnows(h)'
      BY <1>1, <1>4, <1>8, <3>1 DEF TryCloseGap, CallKnows, Moves, Registered
    <3>3. QED
      BY <1>1, <1>4, <1>8, <2>1, <3>1, <3>2, QuietMoveInv DEF TryCloseGap
  <2>2. CASE GapCloses(h)
    <3>1. s \in DataSeqs /\ s - 1 \in 0 .. MaxSeq
      BY <1>1, <1>3, <1>8 DEF TryCloseGap, CallKnows, Registered, s, DataSeqs
    <3>2. 1 .. s - 1 \subseteq Settled
      BY <2>2 DEF GapCloses, ReceiverInv, CallSafe, Authorised, s
    <3>3. tracker' = CloseGap(tracker, s - 1) /\ AdvanceSeq(h, tracker', "saveGap")
      BY <1>8, <2>2 DEF TryCloseGap, s
    <3>4. /\ tracker' \in TrackersTo(MaxSeq)
          /\ tracker'.last \in {tracker.last, s - 1}
          /\ tracker'.pending \subseteq tracker.pending
      BY <1>3, <3>1, <3>3, CloseGapSpec
    <3>5. lastSeq' \in {lastSeq, tracker'.last} /\ tracker'.last \in 0 .. MaxSeq
      BY <3>3, <3>4 DEF AdvanceSeq, TrackersTo
    <3>6. 1 .. tracker'.last \subseteq Settled
      BY <1>3, <3>2, <3>4 DEF Vouched
    <3>7. Vouched'
      BY <1>3, <1>4, <1>8, <3>4, <3>5, <3>6 DEF TryCloseGap, Vouched
    <3>8. /\ Moves(h) /\ call'[h].pc = "saveGap" /\ call'[h].ok = call[h].ok
          /\ call'[h].upTo = tracker'.last
      BY <1>1, <3>3, <3>5, UpToMoves DEF AdvanceSeq, Stages
    <3>9. CallKnows(h)'
      BY <1>1, <1>4, <1>8, <3>6, <3>8 DEF TryCloseGap, CallKnows, Moves, Registered
    <3>10. QED
      BY <1>1, <1>3, <1>4, <1>8, <3>4, <3>5, <3>7, <3>8, <3>9, MoveInv DEF TryCloseGap
  <2>3. QED
    BY <2>1, <2>2
<1>9. CASE SaveGap(h)
  <2>1. /\ Moves(h) /\ call'[h].pc = "write" /\ call'[h].ok = call[h].ok
        /\ lastSeqFile' \in {lastSeqFile, call[h].upTo}
    <3>1. SaveLastSeq(h, "write") /\ "write" \in Stages /\ 0 \in 0 .. MaxSeq
      BY <1>3, <1>9 DEF SaveGap, Stages
    <3>2. call' = [call EXCEPT ![h].pc = "write", ![h].upTo = 0]
      BY <3>1 DEF SaveLastSeq
    <3>3. Moves(h) /\ call'[h].pc = "write" /\ call'[h].ok = call[h].ok
      BY <1>1, <3>1, <3>2, UpToMoves
    <3>4. QED
      BY <3>1, <3>3 DEF SaveLastSeq
  <2>2. 1 .. call[h].upTo \subseteq Settled /\ call[h].upTo \in 0 .. MaxSeq
    BY <1>1, <1>9 DEF SaveGap, CallKnows, CallRecords
  <2>3. Vouched'
    BY <1>3, <1>4, <1>9, <2>1, <2>2 DEF SaveGap, SaveLastSeq, Vouched
  <2>4. CallKnows(h)'
    BY <1>1, <1>4, <1>9, <2>1 DEF SaveGap, SaveLastSeq, CallKnows, Moves, Registered
  <2>5. QED
    BY <1>1, <1>3, <1>4, <1>9, <2>1, <2>2, <2>3, <2>4, MoveInv DEF SaveGap, SaveLastSeq
<1>10. CASE WriteOk(h)
  <2>1. /\ Moves(h) /\ call'[h].pc = (IF RelayOn THEN "relay" ELSE "mark")
        /\ call'[h].ok = call[h].ok
    BY <1>1, <1>10, GotoMoves DEF WriteOk, Stages
  <2>2. s \in DataSeqs /\ call'[h].seq = s /\ stored' = stored \cup {s}
    BY <1>1, <1>10, <2>1 DEF WriteOk, CallKnows, Moves, Registered, s
  <2>3. DatabaseGrows
    BY <1>2, <1>10, <2>2 DEF WriteOk, DatabaseGrows
  <2>4. ~ RelayOn => s \in Settled'
    BY <2>2 DEF Settled, Delivered
  <2>5. CallKnows(h)'
    BY <1>1, <1>10, <2>1, <2>2, <2>3, <2>4, SettledGrows DEF WriteOk, CallKnows, s
  <2>6. QED
    BY <1>1, <1>10, <2>1, <2>3, <2>5, QuietMoveInv DEF WriteOk
<1>11. CASE WriteTransient(h)
  <2>1. Moves(h) /\ call'[h].pc = "leave" /\ call'[h].ok = FALSE
    BY <1>1, <1>11, FinishMoves DEF WriteTransient, Stages
  <2>2. s \in DataSeqs /\ call'[h].seq = s /\ stored' \in {stored, stored \cup {s}}
    BY <1>1, <1>11, <2>1 DEF WriteTransient, CallKnows, Moves, Registered, s
  <2>3. DatabaseGrows
    BY <1>2, <1>11, <2>2 DEF WriteTransient, DatabaseGrows
  <2>4. CallKnows(h)'
    BY <1>11, <2>1, <2>2 DEF WriteTransient, CallKnows
  <2>5. QED
    BY <1>1, <1>11, <2>1, <2>3, <2>4, QuietMoveInv DEF WriteTransient
<1>12. CASE WritePermanent(h)
  <2>1. Moves(h) /\ call'[h].pc = "isolate" /\ call'[h].ok = call[h].ok
    BY <1>1, <1>12, GotoMoves DEF WritePermanent, Stages
  <2>2. CallKnows(h)'
    BY <1>1, <1>4, <1>12, <2>1 DEF WritePermanent, CallKnows, Moves, Registered
  <2>3. QED
    BY <1>1, <1>4, <1>12, <2>1, <2>2, QuietMoveInv DEF WritePermanent
<1>13. CASE Isolate(h)
  <2>1. s \in DataSeqs
    BY <1>1, <1>13 DEF Isolate, CallKnows, Registered, s
  <2>2. CASE dlq' = dlq \cup {s} /\ Goto(h, "mark")
    <3>1. Moves(h) /\ call'[h].pc = "mark" /\ call'[h].ok = call[h].ok
      BY <1>1, <2>2, GotoMoves DEF Stages
    <3>2. DatabaseGrows
      BY <1>2, <1>13, <2>1, <2>2 DEF Isolate, DatabaseGrows
    <3>3. s \in Settled' /\ call'[h].seq = s
      BY <2>2, <3>1 DEF Settled, Delivered, Moves, s
    <3>4. CallKnows(h)'
      BY <2>1, <3>1, <3>3 DEF CallKnows
    <3>5. QED
      BY <1>1, <1>13, <3>1, <3>2, <3>4, QuietMoveInv DEF Isolate
  <2>3. CASE dlq' = dlq /\ Finish(h, "leave", FALSE)
    <3>1. Moves(h) /\ call'[h].pc = "leave" /\ call'[h].ok = FALSE
      BY <1>1, <2>3, FinishMoves DEF Stages
    <3>2. DatabaseGrows
      BY <1>2, <1>13, <2>3 DEF Isolate, DatabaseGrows
    <3>3. CallKnows(h)'
      BY <2>1, <3>1 DEF CallKnows, Moves, s
    <3>4. QED
      BY <1>1, <1>13, <3>1, <3>2, <3>3, QuietMoveInv DEF Isolate
  <2>4. QED
    BY <1>13, <2>2, <2>3 DEF Isolate, s
<1>14. CASE Relay(h)
  <2>1. Moves(h) /\ call'[h].pc = "mark" /\ call'[h].ok = call[h].ok
    BY <1>1, <1>14, GotoMoves DEF Relay, Stages
  <2>2. s \in DataSeqs /\ s \in stored /\ call'[h].seq = s
    BY <1>1, <1>14, <2>1 DEF Relay, CallKnows, Moves, Registered, s
  <2>3. DatabaseGrows
    BY <1>2, <1>14, <2>2 DEF Relay, DatabaseGrows, s
  <2>4. s \in Settled'
    BY <1>14, <2>2 DEF Relay, Settled, Delivered, s
  <2>5. CallKnows(h)'
    BY <2>1, <2>2, <2>4 DEF CallKnows
  <2>6. QED
    BY <1>1, <1>14, <2>1, <2>3, <2>5, QuietMoveInv DEF Relay
<1>15. CASE MarkDone(h)
  <2>1. s \in 1 .. MaxSeq /\ s \in Settled
    BY <1>1, <1>15 DEF MarkDone, CallKnows, Registered, s, DataSeqs
  <2>2. s > tracker.last + JumpLimit => 1 .. s - 1 \subseteq Settled
    BY <1>15 DEF MarkDone, SafeJump, Jumps, s
  <2>3. tracker' = Done(tracker, s)
    BY <1>15 DEF MarkDone, s
  <2>4. /\ tracker' \in TrackersTo(MaxSeq)
        /\ 1 .. tracker'.last \subseteq Settled
        /\ tracker'.pending \subseteq Settled
    BY <1>3, <2>1, <2>2, <2>3, DoneSpec DEF Vouched
  <2>5. /\ Moves(h) /\ call'[h].pc \in {"advance", "leave"} /\ call'[h].ok = TRUE
    BY <1>1, <1>15, FinishMoves DEF MarkDone, Stages
  <2>6. Vouched'
    BY <1>3, <1>4, <1>15, <2>4 DEF MarkDone, Vouched
  <2>7. CallKnows(h)'
    BY <1>4, <1>15, <2>1, <2>5 DEF MarkDone, CallKnows, Moves, s, DataSeqs
  <2>8. QED
    BY <1>1, <1>3, <1>4, <1>15, <2>4, <2>5, <2>6, <2>7, MoveInv DEF MarkDone
<1>16. CASE Advance(h)
  <2>1. AdvanceSeq(h, tracker, "save") /\ tracker.last \in 0 .. MaxSeq
    BY <1>3, <1>16 DEF Advance, TrackersTo
  <2>2. lastSeq' \in {lastSeq, tracker.last}
    BY <2>1 DEF AdvanceSeq
  <2>3. /\ Moves(h) /\ call'[h].pc = "save" /\ call'[h].ok = call[h].ok
        /\ call'[h].upTo = tracker.last
    BY <1>1, <2>1, UpToMoves DEF AdvanceSeq, Stages
  <2>4. Vouched'
    BY <1>3, <1>4, <1>16, <2>2 DEF Advance, Vouched
  <2>5. CallKnows(h)'
    BY <1>1, <1>3, <1>4, <1>16, <2>3 DEF Advance, CallKnows, Moves, Registered, Vouched
  <2>6. QED
    BY <1>1, <1>3, <1>4, <1>16, <2>1, <2>2, <2>3, <2>4, <2>5, MoveInv DEF Advance
<1>17. CASE Save(h)
  <2>1. /\ Moves(h) /\ call'[h].pc = "leave" /\ call'[h].ok = call[h].ok
        /\ lastSeqFile' \in {lastSeqFile, call[h].upTo}
    <3>1. SaveLastSeq(h, "leave") /\ "leave" \in Stages /\ 0 \in 0 .. MaxSeq
      BY <1>3, <1>17 DEF Save, Stages
    <3>2. call' = [call EXCEPT ![h].pc = "leave", ![h].upTo = 0]
      BY <3>1 DEF SaveLastSeq
    <3>3. Moves(h) /\ call'[h].pc = "leave" /\ call'[h].ok = call[h].ok
      BY <1>1, <3>1, <3>2, UpToMoves
    <3>4. QED
      BY <3>1, <3>3 DEF SaveLastSeq
  <2>2. 1 .. call[h].upTo \subseteq Settled /\ call[h].upTo \in 0 .. MaxSeq
    BY <1>1, <1>17 DEF Save, CallKnows, CallRecords
  <2>3. Vouched'
    BY <1>3, <1>4, <1>17, <2>1, <2>2 DEF Save, SaveLastSeq, Vouched
  <2>4. CallKnows(h)'
    BY <1>1, <1>4, <1>17, <2>1 DEF Save, SaveLastSeq, CallKnows, Moves, Registered
  <2>5. QED
    BY <1>1, <1>3, <1>4, <1>17, <2>1, <2>2, <2>3, <2>4, MoveInv DEF Save, SaveLastSeq
<1>18. CASE RemoveInflight(h)
  <2>1. Moves(h) /\ call'[h].pc = "ret" /\ call'[h].ok = call[h].ok
    BY <1>1, <1>18, GotoMoves DEF RemoveInflight, Stages
  <2>2. s \in DataSeqs
    BY <1>1, <1>18 DEF RemoveInflight, CallKnows, Registered, s
  <2>3. inflight' \in [DataSeqs -> Nat]
    BY <1>1, <1>18, <2>2 DEF RemoveInflight, s
  <2>4. CallKnows(h)'
    BY <1>1, <1>4, <1>18, <2>1 DEF RemoveInflight, CallKnows, Moves, Registered
  <2>5. QED
    BY <1>4, <1>18, <2>1, <2>3, <2>4, QuietMoveInv DEF RemoveInflight
<1>19. QED
  BY <1>5, <1>6, <1>7, <1>8, <1>9, <1>10, <1>11, <1>12, <1>13, <1>14, <1>15, <1>16,
     <1>17, <1>18 DEF CallStep, CallFault

\* A restart forgets the calls and falls back to the file, which vouches for less.
LEMMA RestartInv == ReceiverInv /\ RestartReceiver => ReceiverInv'
<1> SUFFICES ASSUME ReceiverInv, RestartReceiver PROVE ReceiverInv'
  OBVIOUS
<1>1. Settled' = Settled
  BY DEF RestartReceiver, databaseVars, Settled, Delivered
<1>2. ReceiverTypeOK'
  <2>1. Idle \in CallRecords
    BY ReceiverAssumption DEF Idle, NewCall, CallRecords, Stages, Heartbeat
  <2>2. QED
    BY <2>1 DEF ReceiverInv, RestartReceiver, databaseVars, ReceiverTypeOK, InitTracker
<1>3. Vouched'
  BY <1>1 DEF ReceiverInv, RestartReceiver, Vouched, InitTracker
<1>4. \A h \in Calls : CallSafe(h)'
  BY DEF RestartReceiver, CallSafe, CallKnows, Authorised, Idle, NewCall, Registered, Heartbeat
<1>5. QED
  BY <1>2, <1>3, <1>4 DEF ReceiverInv

\* A call that starts, or ends, keeps it, if the new frame is an authorised one.
LEMMA ResetCallInv ==
    ASSUME NEW h \in Calls, ReceiverInv,
           NEW stage \in {"free", "decode"}, NEW s \in Heartbeat .. MaxSeq, NEW b \in BOOLEAN,
           call' = [call EXCEPT ![h] = NewCall(stage, s, b)],
           UNCHANGED <<lastSeq, tracker, inflight, lastSeqFile, databaseVars>>,
           b => 1 .. s - 1 \subseteq Settled
    PROVE  ReceiverInv'
<1>1. Settled' = Settled
  BY DEF databaseVars, Settled, Delivered
<1>2. NewCall(stage, s, b) \in CallRecords
  BY ReceiverAssumption DEF NewCall, CallRecords, Stages
<1>3. ReceiverTypeOK'
  BY <1>2 DEF ReceiverInv, databaseVars, ReceiverTypeOK
<1>4. Vouched'
  BY <1>1 DEF ReceiverInv, Vouched
<1>5. ASSUME NEW g \in Calls PROVE CallSafe(g)'
  <2>1. CASE g = h
    <3>1. call'[g] = NewCall(stage, s, b)
      BY <2>1 DEF ReceiverInv, ReceiverTypeOK
    <3>2. QED
      BY <1>1, <3>1 DEF CallSafe, CallKnows, Authorised, NewCall, Registered
  <2>2. CASE g # h
    <3>1. call'[g] = call[g] /\ CallSafe(g) /\ stored' = stored
      BY <2>2 DEF ReceiverInv, ReceiverTypeOK, databaseVars
    <3>2. QED
      BY <1>1, <3>1 DEF CallSafe, CallKnows, Authorised
  <2>3. QED
    BY <2>1, <2>2
<1>6. QED
  BY <1>3, <1>4, <1>5 DEF ReceiverInv
-----------------------------------------------------------------------------
(***************************************************************************)
(* The receiver alone.  Nothing in it protects the frames a jump passes    *)
(* over, so there must be none.                                            *)
(***************************************************************************)

LEMMA ReceiverNextInv ==
    ASSUME NoJump, ReceiverInv, [ReceiverNext]_receiverVars
    PROVE  ReceiverInv'
<1>1. \A h \in Calls : SafeJump(h)
  BY DEF NoJump, SafeJump
<1>2. ASSUME NEW h \in Calls, StartCall(h) PROVE ReceiverInv'
  <2>1. PICK s \in Heartbeat .. MaxSeq, b \in BOOLEAN :
            (b => 1 .. s - 1 \subseteq Settled) /\ HandleFrame(h, s, b)
    BY <1>2 DEF StartCall
  <2>2. call' = [call EXCEPT ![h] = NewCall("decode", s, b)]
    BY <2>1 DEF HandleFrame
  <2>3. QED
    BY <1>1, <1>2, <2>1, <2>2, ResetCallInv DEF StartCall
<1>3. ASSUME NEW h \in Calls, TakeAck(h) PROVE ReceiverInv'
  <2>1. call' = [call EXCEPT ![h] = NewCall("free", Heartbeat, FALSE)]
    BY <1>3 DEF TakeAck, Idle
  <2>2. Heartbeat \in Heartbeat .. MaxSeq
    BY ReceiverAssumption DEF Heartbeat
  <2>3. QED
    BY <1>1, <1>3, <2>1, <2>2, ResetCallInv DEF TakeAck
<1>4. CASE UNCHANGED receiverVars
  BY <1>4 DEF receiverVars, databaseVars, ReceiverInv, ReceiverTypeOK, Vouched, CallSafe,
     CallKnows, Authorised, Settled, Delivered
<1>5. QED
  BY <1>1, <1>2, <1>3, <1>4, CallStepInv, RestartInv DEF ReceiverNext

\* The receiver alone keeps its invariant.
LEMMA ReceiverInvariant ==
    ReceiverSpec /\ []NoJump => []ReceiverInv
<1>1. ReceiverInv /\ NoJump /\ [ReceiverNext]_receiverVars => ReceiverInv'
  BY ReceiverNextInv
<1>2. QED
  BY <1>1, ReceiverInitInv, PTL DEF ReceiverSpec

\* last_seq, the tracker and the last_seq file never cover a frame that is neither
\* in the database nor in the dead letters (receiver.go:60-63, 101-107).
THEOREM ReceiverPrefixDelivered ==
    ReceiverSpec /\ []NoJump => []PrefixDelivered
BY ReceiverInvImplies, ReceiverInvariant, PTL

\* Whatever copies, poison packets and restarts there are, a call confirms only
\* frames that are in the database or in the dead letters (receiver.go:35).
THEOREM ReceiverConfirmedDelivered ==
    ReceiverSpec /\ []NoJump => []ConfirmedDelivered
BY ReceiverInvImplies, ReceiverInvariant, PTL

\* last_seq covers only frames that went to the relay, or that both the relay and
\* its dead letters refused, or that are poison (receiver.go:204-230).
THEOREM ReceiverCoveredRelayed ==
    ReceiverSpec /\ []NoJump => []CoveredRelayed
BY ReceiverInvImplies, ReceiverInvariant, PTL
-----------------------------------------------------------------------------
(***************************************************************************)
(* Types and reference counts, whatever jumps.                             *)
(***************************************************************************)

\* The frame of a call that is handled is a data frame.
FrameKnown(h) == call[h].pc \in Registered \cup {"register"} => call[h].seq \in DataSeqs
TypesInv == ReceiverTypeOK /\ \A h \in Calls : FrameKnown(h)

LEMMA ReceiverInvTypes == ReceiverInv => TypesInv
BY DEF ReceiverInv, TypesInv, CallSafe, CallKnows, FrameKnown

LEMMA MoveTypes ==
    ASSUME NEW h \in Calls, TypesInv, Moves(h), FrameKnown(h)',
           lastSeq' \in 0 .. MaxSeq, lastSeqFile' \in 0 .. MaxSeq,
           tracker' \in TrackersTo(MaxSeq), inflight' \in [DataSeqs -> Nat],
           stored' \subseteq DataSeqs, dlq' \subseteq DataSeqs,
           relayed' \subseteq DataSeqs, relayLost' \subseteq DataSeqs
    PROVE  TypesInv'
<1>1. ReceiverTypeOK'
  BY DEF ReceiverTypeOK, Moves, TrackersTo, DataSeqs
<1>2. ASSUME NEW g \in Calls \ {h} PROVE FrameKnown(g)'
  BY DEF TypesInv, FrameKnown, Moves
<1>3. QED
  BY <1>1, <1>2 DEF TypesInv

LEMMA CallStepTypes ==
    ASSUME NEW h \in Calls, TypesInv, CallStep(h) \/ CallFault(h)
    PROVE  TypesInv'
<1>1. /\ call \in [Calls -> CallRecords] /\ call[h] \in CallRecords /\ FrameKnown(h)
      /\ call[h].seq \in Heartbeat .. MaxSeq /\ call[h].upTo \in 0 .. MaxSeq
      /\ inflight \in [DataSeqs -> Nat] /\ MaxSeq \in Nat /\ 0 \in 0 .. MaxSeq
  BY ReceiverAssumption DEF TypesInv, ReceiverTypeOK, CallRecords
<1>2. /\ lastSeq \in 0 .. MaxSeq /\ lastSeqFile \in 0 .. MaxSeq
      /\ tracker \in TrackersTo(MaxSeq) /\ tracker.last \in 0 .. MaxSeq
      /\ stored \subseteq DataSeqs /\ dlq \subseteq DataSeqs
      /\ relayed \subseteq DataSeqs /\ relayLost \subseteq DataSeqs
  BY DEF TypesInv, ReceiverTypeOK, TrackersTo, DataSeqs
<1>3. call[h].pc \in Registered \cup {"register"} => call[h].seq \in 1 .. MaxSeq
  BY <1>1 DEF FrameKnown, DataSeqs
<1>4. CASE DecodeFails(h)
  <2>1. Moves(h) /\ call'[h].pc = "ret"
    BY <1>1, <1>4, FinishMoves DEF DecodeFails, Stages
  <2>2. QED
    BY <1>1, <1>2, <1>4, <2>1, MoveTypes DEF DecodeFails, FrameKnown, Registered, databaseVars
<1>5. CASE CheckDuplicate(h)
  <2>1. Moves(h) /\ call'[h].pc \in {"ret", "register"}
        /\ (call'[h].pc = "register" => call[h].seq # Heartbeat)
    <3>1. CASE call[h].seq = Heartbeat \/ call[h].seq <= lastSeq
      BY <1>1, <1>5, <3>1, FinishMoves DEF CheckDuplicate, Stages
    <3>2. CASE ~(call[h].seq = Heartbeat \/ call[h].seq <= lastSeq)
      BY <1>1, <1>5, <3>2, GotoMoves DEF CheckDuplicate, Stages
    <3>3. QED
      BY <3>1, <3>2
  <2>2. FrameKnown(h)'
    BY <1>1, <2>1 DEF FrameKnown, Moves, Registered, Heartbeat, DataSeqs
  <2>3. QED
    BY <1>1, <1>2, <1>5, <2>1, <2>2, MoveTypes DEF CheckDuplicate, databaseVars
<1>6. CASE AddInflight(h) \/ RemoveInflight(h)
  <2>1. call[h].seq \in DataSeqs
    BY <1>3, <1>6 DEF AddInflight, RemoveInflight, Registered, DataSeqs
  <2>2. Moves(h) /\ inflight' \in [DataSeqs -> Nat]
    BY <1>1, <1>6, <2>1, GotoMoves DEF AddInflight, RemoveInflight, Stages
  <2>3. FrameKnown(h)'
    BY <2>1, <2>2 DEF FrameKnown, Moves
  <2>4. QED
    BY <1>1, <1>2, <1>6, <2>2, <2>3, MoveTypes DEF AddInflight, RemoveInflight, databaseVars
<1>7. CASE TryCloseGap(h)
  <2>1. call[h].seq \in DataSeqs /\ call[h].seq - 1 \in 0 .. MaxSeq
    BY <1>1, <1>3, <1>7 DEF TryCloseGap, Registered, DataSeqs
  <2>2. /\ Moves(h) /\ tracker' \in TrackersTo(MaxSeq) /\ lastSeq' \in 0 .. MaxSeq
    <3>1. CASE GapCloses(h)
      <4>1. tracker' = CloseGap(tracker, call[h].seq - 1) /\ AdvanceSeq(h, tracker', "saveGap")
        BY <1>7, <3>1 DEF TryCloseGap
      <4>2. tracker' \in TrackersTo(MaxSeq)
        BY <1>1, <1>2, <2>1, <4>1, CloseGapSpec
      <4>3. tracker'.last \in 0 .. MaxSeq
        BY <4>2 DEF TrackersTo
      <4>4. QED
        BY <1>1, <1>2, <4>1, <4>2, <4>3, UpToMoves DEF AdvanceSeq, Stages
    <3>2. CASE ~GapCloses(h)
      BY <1>1, <1>2, <1>7, <3>2, GotoMoves DEF TryCloseGap, Stages
    <3>3. QED
      BY <3>1, <3>2
  <2>3. FrameKnown(h)'
    BY <2>1, <2>2 DEF FrameKnown, Moves
  <2>4. QED
    BY <1>1, <1>2, <1>7, <2>2, <2>3, MoveTypes DEF TryCloseGap, databaseVars
<1>8. CASE SaveGap(h) \/ Save(h)
  <2>1. call[h].seq \in DataSeqs
    BY <1>3, <1>8 DEF SaveGap, Save, Registered, DataSeqs
  <2>2. Moves(h) /\ lastSeqFile' \in 0 .. MaxSeq
    BY <1>1, <1>2, <1>8, UpToMoves DEF SaveGap, Save, SaveLastSeq, Stages
  <2>3. FrameKnown(h)'
    BY <2>1, <2>2 DEF FrameKnown, Moves
  <2>4. QED
    BY <1>1, <1>2, <1>8, <2>2, <2>3, MoveTypes DEF SaveGap, Save, databaseVars
<1>9. CASE WriteOk(h) \/ WriteTransient(h) \/ WritePermanent(h) \/ Isolate(h) \/ Relay(h)
  <2>1. call[h].seq \in DataSeqs
    BY <1>3, <1>9
       DEF WriteOk, WriteTransient, WritePermanent, Isolate, Relay, Registered, DataSeqs
  <2>2. Moves(h)
    BY <1>1, <1>9, GotoMoves, FinishMoves
       DEF WriteOk, WriteTransient, WritePermanent, Isolate, Relay, Stages
  <2>3. FrameKnown(h)'
    BY <2>1, <2>2 DEF FrameKnown, Moves
  <2>4. /\ stored' \subseteq DataSeqs /\ dlq' \subseteq DataSeqs
        /\ relayed' \subseteq DataSeqs /\ relayLost' \subseteq DataSeqs
        /\ UNCHANGED <<lastSeq, tracker, inflight, lastSeqFile>>
    BY <1>2, <1>9, <2>1
       DEF WriteOk, WriteTransient, WritePermanent, Isolate, Relay, databaseVars
  <2>5. QED
    BY <1>1, <1>2, <2>2, <2>3, <2>4, MoveTypes
<1>10. CASE MarkDone(h)
  <2>1. call[h].seq \in 1 .. MaxSeq
    BY <1>3, <1>10 DEF MarkDone, Registered
  <2>2. Moves(h)
    BY <1>1, <1>10, FinishMoves DEF MarkDone, Stages
  <2>3. tracker' \in TrackersTo(MaxSeq)
    BY <1>1, <1>2, <1>10, <2>1, DoneSpec DEF MarkDone
  <2>4. FrameKnown(h)'
    BY <2>1, <2>2 DEF FrameKnown, Moves, DataSeqs
  <2>5. QED
    BY <1>1, <1>2, <1>10, <2>2, <2>3, <2>4, MoveTypes DEF MarkDone, databaseVars
<1>11. CASE Advance(h)
  <2>1. call[h].seq \in DataSeqs
    BY <1>3, <1>11 DEF Advance, Registered, DataSeqs
  <2>2. Moves(h) /\ lastSeq' \in 0 .. MaxSeq
    BY <1>1, <1>2, <1>11, UpToMoves DEF Advance, AdvanceSeq, Stages
  <2>3. FrameKnown(h)'
    BY <2>1, <2>2 DEF FrameKnown, Moves
  <2>4. QED
    BY <1>1, <1>2, <1>11, <2>2, <2>3, MoveTypes DEF Advance, databaseVars
<1>12. QED
  BY <1>4, <1>5, <1>6, <1>7, <1>8, <1>9, <1>10, <1>11 DEF CallStep, CallFault

LEMMA ReceiverTypesInvariant == ReceiverSpec => []TypesInv
<1>1. ReceiverInit => TypesInv
  BY ReceiverInitInv, ReceiverInvTypes
<1>2. TypesInv /\ [ReceiverNext]_receiverVars => TypesInv'
  <2>1. SUFFICES ASSUME TypesInv, [ReceiverNext]_receiverVars PROVE TypesInv'
    OBVIOUS
  <2>2. \A stage \in {"free", "decode"}, s \in Heartbeat .. MaxSeq, b \in BOOLEAN :
            NewCall(stage, s, b) \in CallRecords /\ NewCall(stage, s, b).pc = stage
    BY ReceiverAssumption DEF NewCall, CallRecords, Stages
  <2>3. ASSUME NEW h \in Calls, NEW r \in CallRecords, r.pc \in {"free", "decode"},
               call' = [call EXCEPT ![h] = r],
               UNCHANGED <<lastSeq, tracker, inflight, lastSeqFile, databaseVars>>
        PROVE  TypesInv'
    BY <2>1, <2>3 DEF TypesInv, ReceiverTypeOK, FrameKnown, Registered, databaseVars
  <2>4. Heartbeat \in Heartbeat .. MaxSeq
    BY ReceiverAssumption DEF Heartbeat
  <2>5. ASSUME NEW h \in Calls, StartCall(h) \/ TakeAck(h) PROVE TypesInv'
    <3>1. \E stage \in {"free", "decode"}, s \in Heartbeat .. MaxSeq, b \in BOOLEAN :
              call' = [call EXCEPT ![h] = NewCall(stage, s, b)]
      BY <2>4, <2>5 DEF StartCall, TakeAck, HandleFrame, Idle
    <3>2. QED
      BY <2>2, <2>3, <2>5, <3>1, ZenonT(60) DEF StartCall, TakeAck
  <2>6. CASE RestartReceiver
    <3>1. Idle \in CallRecords /\ Idle.pc = "free"
      BY <2>2, <2>4 DEF Idle
    <3>2. QED
      BY <2>1, <2>6, <3>1 DEF RestartReceiver, TypesInv, ReceiverTypeOK, FrameKnown, Registered,
         databaseVars, InitTracker
  <2>7. CASE UNCHANGED receiverVars
    BY <2>1, <2>7 DEF receiverVars, databaseVars, TypesInv, ReceiverTypeOK, FrameKnown
  <2>8. QED
    BY <2>1, <2>5, <2>6, <2>7, CallStepTypes DEF ReceiverNext
<1>3. QED
  BY <1>1, <1>2, PTL DEF ReceiverSpec

\* The receiver's variables keep their types under any calls, jumps and restarts
\* (HandleFrame and New, receiver.go).
THEOREM ReceiverTypeCorrect == ReceiverSpec => []ReceiverTypeOK
<1>1. TypesInv => ReceiverTypeOK
  BY DEF TypesInv
<1>2. QED
  BY <1>1, ReceiverTypesInvariant, PTL

\* The registered calls of a seq.
Holders(s) == {h \in Calls : call[h].seq = s /\ call[h].pc \in Registered}

LEMMA HoldersFinite ==
    ASSUME NEW s
    PROVE  IsFiniteSet(Holders(s)) /\ Cardinality(Holders(s)) \in Nat
<1>1. IsFiniteSet(Holders(s))
  BY ReceiverAssumption, FS_Subset DEF Holders
<1>2. QED
  BY <1>1, FS_CardinalityType

\* A step that registers no call and unregisters none keeps the counts.
LEMMA HoldersSame ==
    ASSUME NEW h \in Calls, InflightExact, Moves(h), inflight' = inflight,
           call'[h].pc \in Registered <=> call[h].pc \in Registered
    PROVE  InflightExact'
<1>1. ASSUME NEW s \in DataSeqs PROVE Holders(s)' = Holders(s)
  BY DEF Holders, Moves
<1>2. QED
  BY <1>1 DEF InflightExact, Holders

LEMMA CallStepExact ==
    ASSUME NEW h \in Calls, TypesInv, InflightExact, CallStep(h) \/ CallFault(h)
    PROVE  InflightExact'
<1> SUFFICES ASSUME NEW s, s = call[h].seq PROVE InflightExact'
  OBVIOUS
<1>1. /\ call \in [Calls -> CallRecords] /\ inflight \in [DataSeqs -> Nat]
      /\ FrameKnown(h)
      /\ 0 \in 0 .. MaxSeq
  BY ReceiverAssumption DEF TypesInv, ReceiverTypeOK
<1>2. CASE AddInflight(h)
  <2>1. Moves(h) /\ call'[h].pc = "gap"
    BY <1>1, <1>2, GotoMoves DEF AddInflight, Stages
  <2>2. s \in DataSeqs /\ call[h].pc = "register"
    BY <1>1, <1>2 DEF AddInflight, FrameKnown
  <2>3. inflight' = [inflight EXCEPT ![s] = @ + 1]
    BY <1>2 DEF AddInflight
  <2>4. Holders(s)' = Holders(s) \cup {h} /\ h \notin Holders(s)
    BY <2>1, <2>2 DEF Holders, Moves, Registered
  <2>5. Cardinality(Holders(s)') = Cardinality(Holders(s)) + 1
    BY <2>4, HoldersFinite, FS_AddElement
  <2>6. ASSUME NEW q \in DataSeqs, q # s PROVE Holders(q)' = Holders(q)
    BY <2>1, <2>6 DEF Holders, Moves
  <2>7. \A q \in DataSeqs : inflight'[q] = Cardinality(Holders(q)')
    <3>1. \A q \in DataSeqs : inflight[q] = Cardinality(Holders(q))
      BY DEF InflightExact, Holders
    <3>2. inflight'[s] = Cardinality(Holders(s)')
      BY <1>1, <2>2, <2>3, <2>5, <3>1
    <3>3. ASSUME NEW q \in DataSeqs, q # s PROVE inflight'[q] = Cardinality(Holders(q)')
      <4>1. inflight'[q] = inflight[q]
        BY <1>1, <2>2, <2>3, <3>3
      <4>2. QED
        BY <2>6, <3>1, <3>3, <4>1
    <3>4. QED
      BY <3>2, <3>3
  <2>8. QED
    BY <2>7 DEF InflightExact, Holders
<1>3. CASE RemoveInflight(h)
  <2>1. Moves(h) /\ call'[h].pc = "ret"
    BY <1>1, <1>3, GotoMoves DEF RemoveInflight, Stages
  <2>2. s \in DataSeqs /\ call[h].pc = "leave"
    BY <1>1, <1>3 DEF RemoveInflight, FrameKnown, Registered
  <2>3. inflight' = [inflight EXCEPT ![s] = IF @ <= 1 THEN 0 ELSE @ - 1]
    BY <1>3 DEF RemoveInflight
  <2>4. Holders(s)' = Holders(s) \ {h} /\ h \in Holders(s)
    BY <2>1, <2>2 DEF Holders, Moves, Registered
  <2>5. /\ Cardinality(Holders(s)') = Cardinality(Holders(s)) - 1
        /\ Cardinality(Holders(s)') \in Nat
    BY <2>4, HoldersFinite, FS_RemoveElement, FS_CardinalityType
  <2>6. ASSUME NEW q \in DataSeqs, q # s PROVE Holders(q)' = Holders(q)
    BY <2>1, <2>6 DEF Holders, Moves
  <2>7. inflight[s] = Cardinality(Holders(s)) /\ Cardinality(Holders(s)) \in Nat
    BY <2>2, HoldersFinite DEF InflightExact, Holders
  <2>8. \A q \in DataSeqs : inflight'[q] = Cardinality(Holders(q)')
    <3>1. \A q \in DataSeqs : inflight[q] = Cardinality(Holders(q))
      BY DEF InflightExact, Holders
    <3>2. inflight'[s] = Cardinality(Holders(s)')
      BY <1>1, <2>2, <2>3, <2>5, <2>7
    <3>3. ASSUME NEW q \in DataSeqs, q # s PROVE inflight'[q] = Cardinality(Holders(q)')
      <4>1. inflight'[q] = inflight[q]
        BY <1>1, <2>2, <2>3, <3>3
      <4>2. QED
        BY <2>6, <3>1, <3>3, <4>1
    <3>4. QED
      BY <3>2, <3>3
  <2>9. QED
    BY <2>8 DEF InflightExact, Holders
<1>4. CASE DecodeFails(h)
  BY <1>1, <1>4, FinishMoves, HoldersSame DEF DecodeFails, Stages, Registered
<1>5. CASE CheckDuplicate(h)
  BY <1>1, <1>5, FinishMoves, GotoMoves, HoldersSame DEF CheckDuplicate, Stages, Registered
<1>6. CASE TryCloseGap(h)
  <2>1. Moves(h) /\ call'[h].pc \in Registered
    <3>1. CASE GapCloses(h)
      <4>1. tracker'.last \in 0 .. MaxSeq
        BY <1>6, <3>1, CallStepTypes DEF CallStep, TypesInv, ReceiverTypeOK
      <4>2. QED
        BY <1>1, <1>6, <3>1, <4>1, UpToMoves DEF TryCloseGap, AdvanceSeq, Stages, Registered
    <3>2. CASE ~ GapCloses(h)
      BY <1>1, <1>6, <3>2, GotoMoves DEF TryCloseGap, Stages, Registered
    <3>3. QED
      BY <3>1, <3>2
  <2>2. QED
    BY <1>6, <2>1, HoldersSame DEF TryCloseGap, Registered
<1>7. CASE SaveGap(h) \/ Save(h)
  <2>1. CASE SaveGap(h)
    <3>1. Moves(h) /\ call'[h].pc = "write"
      BY <1>1, <2>1, UpToMoves DEF SaveGap, SaveLastSeq, Stages
    <3>2. QED
      BY <2>1, <3>1, HoldersSame DEF SaveGap, SaveLastSeq, Registered
  <2>2. CASE Save(h)
    <3>1. Moves(h) /\ call'[h].pc = "leave"
      BY <1>1, <2>2, UpToMoves DEF Save, SaveLastSeq, Stages
    <3>2. QED
      BY <2>2, <3>1, HoldersSame DEF Save, SaveLastSeq, Registered
  <2>3. QED
    BY <1>7, <2>1, <2>2
<1>8. CASE WriteOk(h) \/ WriteTransient(h) \/ WritePermanent(h) \/ Relay(h)
  <2>1. Moves(h) /\ call'[h].pc \in Registered
    BY <1>1, <1>8, GotoMoves, FinishMoves
       DEF WriteOk, WriteTransient, WritePermanent, Relay, Stages, Registered
  <2>2. QED
    BY <1>8, <2>1, HoldersSame
       DEF WriteOk, WriteTransient, WritePermanent, Relay, Registered, databaseVars
<1>9. CASE Isolate(h) \/ MarkDone(h)
  <2>1. Moves(h) /\ call'[h].pc \in Registered
    BY <1>1, <1>9, GotoMoves, FinishMoves DEF Isolate, MarkDone, Stages, Registered
  <2>2. QED
    BY <1>9, <2>1, HoldersSame DEF Isolate, MarkDone, Registered
<1>10. CASE Advance(h)
  <2>1. tracker.last \in 0 .. MaxSeq
    BY DEF TypesInv, ReceiverTypeOK
  <2>2. Moves(h) /\ call'[h].pc = "save"
    BY <1>1, <1>10, <2>1, UpToMoves DEF Advance, AdvanceSeq, Stages
  <2>3. QED
    BY <1>10, <2>2, HoldersSame DEF Advance, Registered
<1>11. QED
  BY <1>2, <1>3, <1>4, <1>5, <1>6, <1>7, <1>8, <1>9, <1>10 DEF CallStep, CallFault


LEMMA RestartExact == RestartReceiver => InflightExact'
<1> SUFFICES ASSUME RestartReceiver PROVE InflightExact'
  OBVIOUS
<1>1. ASSUME NEW s \in DataSeqs
      PROVE  {h \in Calls : call'[h].seq = s /\ call'[h].pc \in Registered} = {}
  BY DEF RestartReceiver, Idle, NewCall, Registered
<1>2. QED
  BY <1>1, FS_EmptySet DEF InflightExact, RestartReceiver

\* A call that starts, or ends, was not registered and is not.
LEMMA ResetCallExact ==
    ASSUME NEW h \in Calls, InflightExact, call \in [Calls -> CallRecords],
           call[h].pc \in {"free", "ret"},
           NEW stage \in {"free", "decode"}, NEW s, NEW b,
           call' = [call EXCEPT ![h] = NewCall(stage, s, b)],
           inflight' = inflight
    PROVE  InflightExact'
<1>1. call'[h].pc = stage /\ \A g \in Calls \ {h} : call'[g] = call[g]
  BY DEF NewCall
<1>2. ASSUME NEW q \in DataSeqs PROVE Holders(q)' = Holders(q)
  BY <1>1 DEF Holders, Registered
<1>3. QED
  BY <1>2 DEF InflightExact, Holders

\* The in-flight counts are exactly the registered calls, copies of one seq and
\* restarts included, so that tryCloseGap sees every frame that may still fail
\* (receiver.go:255-271, 298-319).
THEOREM ReceiverInflightExact ==
    ReceiverSpec => []InflightExact
<1>1. ReceiverInit => InflightExact
  <2>1. SUFFICES ASSUME ReceiverInit PROVE InflightExact
    OBVIOUS
  <2>2. ASSUME NEW s \in DataSeqs
        PROVE  {h \in Calls : call[h].seq = s /\ call[h].pc \in Registered} = {}
    BY <2>1 DEF ReceiverInit, Idle, NewCall, Registered
  <2>3. QED
    BY <2>1, <2>2, FS_EmptySet DEF InflightExact, ReceiverInit
<1>2. TypesInv /\ InflightExact /\ [ReceiverNext]_receiverVars => InflightExact'
  <2>1. SUFFICES ASSUME TypesInv, InflightExact, [ReceiverNext]_receiverVars
                 PROVE  InflightExact'
    OBVIOUS
  <2>2. call \in [Calls -> CallRecords]
    BY <2>1 DEF TypesInv, ReceiverTypeOK
  <2>3. ASSUME NEW h \in Calls, StartCall(h) PROVE InflightExact'
    BY <2>1, <2>2, <2>3, ResetCallExact DEF StartCall, HandleFrame
  <2>4. ASSUME NEW h \in Calls, TakeAck(h) PROVE InflightExact'
    BY <2>1, <2>2, <2>4, ResetCallExact DEF TakeAck, Idle
  <2>5. CASE UNCHANGED receiverVars
    BY <2>1, <2>5 DEF receiverVars, InflightExact
  <2>6. QED
    BY <2>1, <2>3, <2>4, <2>5, CallStepExact, RestartExact DEF ReceiverNext
<1>3. QED
  BY <1>1, <1>2, ReceiverTypesInvariant, PTL DEF ReceiverSpec
-----------------------------------------------------------------------------
(***************************************************************************)
(* The three copies of last_seq: in the file, in memory, in the tracker.   *)
(***************************************************************************)

\* What a call may still write to the file was last_seq once.
SavesBehind(h) == call[h].upTo <= lastSeq
LastSeqBehind == lastSeqFile <= lastSeq /\ lastSeq <= tracker.last
FileInv == TypesInv /\ LastSeqBehind /\ \A h \in Calls : SavesBehind(h)

\* What a step of a call does to them.
LEMMA LastSeqMoves ==
    ASSUME NEW h \in Calls, TypesInv, CallStep(h) \/ CallFault(h)
    PROVE  /\ Moves(h) /\ lastSeq <= lastSeq' /\ lastSeqFile' \in {lastSeqFile, call[h].upTo}
           /\ lastSeq <= tracker.last => lastSeq' <= tracker'.last
           /\ SavesBehind(h) => SavesBehind(h)'
<1>1. /\ call \in [Calls -> CallRecords] /\ MaxSeq \in Nat /\ 0 \in 0 .. MaxSeq
      /\ call[h].seq \in Heartbeat .. MaxSeq /\ call[h].upTo \in 0 .. MaxSeq
      /\ call[h].pc \in Registered => call[h].seq \in 1 .. MaxSeq
  BY ReceiverAssumption DEF TypesInv, ReceiverTypeOK, CallRecords, FrameKnown, DataSeqs
<1>2. /\ lastSeq \in 0 .. MaxSeq /\ tracker \in TrackersTo(MaxSeq)
      /\ tracker.last \in 0 .. MaxSeq
  BY DEF TypesInv, ReceiverTypeOK, TrackersTo, DataSeqs
<1>3. CASE \/ DecodeFails(h) \/ CheckDuplicate(h) \/ AddInflight(h) \/ WriteOk(h)
           \/ WriteTransient(h) \/ WritePermanent(h) \/ Isolate(h) \/ Relay(h) \/ RemoveInflight(h)
  <2>1. UNCHANGED <<lastSeq, tracker, lastSeqFile>>
    BY <1>3 DEF DecodeFails, CheckDuplicate, AddInflight, WriteOk, WriteTransient,
       WritePermanent, Isolate, Relay, RemoveInflight
  <2>2. Moves(h) /\ call'[h].upTo = call[h].upTo
    <3>1. CASE DecodeFails(h) \/ CheckDuplicate(h) \/ AddInflight(h) \/ WriteOk(h)
      BY <1>1, <3>1, GotoMoves, FinishMoves
         DEF DecodeFails, CheckDuplicate, AddInflight, WriteOk, Stages
    <3>2. CASE WriteTransient(h) \/ WritePermanent(h) \/ Isolate(h) \/ Relay(h) \/ RemoveInflight(h)
      BY <1>1, <3>2, GotoMoves, FinishMoves
         DEF WriteTransient, WritePermanent, Isolate, Relay, RemoveInflight, Stages
    <3>3. QED
      BY <1>3, <3>1, <3>2
  <2>3. QED
    BY <1>2, <2>1, <2>2 DEF SavesBehind
<1>4. CASE TryCloseGap(h) /\ ~GapCloses(h)
  <2>1. UNCHANGED <<lastSeq, tracker, lastSeqFile>> /\ Goto(h, "write")
    BY <1>4 DEF TryCloseGap
  <2>2. Moves(h) /\ call'[h].upTo = call[h].upTo
    BY <1>1, <2>1, GotoMoves DEF Stages
  <2>3. QED
    BY <1>2, <2>1, <2>2 DEF SavesBehind
<1>5. ASSUME NEW stage \in Stages, NEW t, tracker' = t, t.last \in 0 .. MaxSeq,
             t.last >= tracker.last, lastSeqFile' = lastSeqFile, AdvanceSeq(h, t, stage)
      PROVE  /\ Moves(h) /\ lastSeq <= lastSeq' /\ lastSeqFile' \in {lastSeqFile, call[h].upTo}
             /\ lastSeq <= tracker.last => lastSeq' <= tracker'.last
             /\ SavesBehind(h) => SavesBehind(h)'
  <2>1. PICK u \in 0 .. MaxSeq : u = t.last
    BY <1>5
  <2>2. /\ lastSeq' = IF u > lastSeq THEN u ELSE lastSeq
        /\ call' = [call EXCEPT ![h].pc = stage, ![h].upTo = u]
    BY <1>5, <2>1 DEF AdvanceSeq
  <2>3. Moves(h) /\ call'[h].upTo = u
    BY <1>1, <1>5, <2>2, UpToMoves
  <2>4. lastSeq' \in {lastSeq, u} /\ lastSeq <= lastSeq' /\ u <= lastSeq'
    BY <1>2, <2>2
  <2>5. lastSeq <= tracker.last => lastSeq' <= u
    BY <1>2, <1>5, <2>1, <2>4
  <2>6. QED
    BY <1>5, <2>1, <2>3, <2>4, <2>5 DEF SavesBehind
<1>6. CASE TryCloseGap(h) /\ GapCloses(h)
  <2>1. PICK t : t = CloseGap(tracker, call[h].seq - 1)
    OBVIOUS
  <2>2. /\ tracker' = t /\ lastSeqFile' = lastSeqFile /\ AdvanceSeq(h, t, "saveGap")
    BY <1>6, <2>1 DEF TryCloseGap
  <2>3. call[h].seq - 1 \in 0 .. MaxSeq
    BY <1>1, <1>6 DEF TryCloseGap, Registered
  <2>4. t \in TrackersTo(MaxSeq) /\ t.last >= tracker.last
    BY <1>1, <1>2, <2>1, <2>3, CloseGapSpec
  <2>5. t.last \in 0 .. MaxSeq /\ "saveGap" \in Stages
    BY <2>4 DEF TrackersTo, Stages
  <2>6. QED
    BY <1>5, <2>2, <2>4, <2>5
<1>7. CASE Advance(h)
  <2>1. PICK t : t = tracker
    OBVIOUS
  <2>2. tracker' = t /\ lastSeqFile' = lastSeqFile /\ AdvanceSeq(h, t, "save")
    BY <1>7, <2>1 DEF Advance
  <2>3. t.last \in 0 .. MaxSeq /\ t.last >= tracker.last /\ "save" \in Stages
    BY <1>2, <2>1 DEF Stages
  <2>4. QED
    BY <1>5, <2>2, <2>3
<1>8. CASE SaveGap(h) \/ Save(h)
  <2>1. /\ UNCHANGED <<lastSeq, tracker>> /\ lastSeqFile' \in {lastSeqFile, call[h].upTo}
        /\ Moves(h) /\ call'[h].upTo = 0
    BY <1>1, <1>8, UpToMoves DEF SaveGap, Save, SaveLastSeq, Stages
  <2>2. QED
    BY <1>2, <2>1 DEF SavesBehind
<1>9. CASE MarkDone(h)
  <2>1. /\ UNCHANGED <<lastSeq, lastSeqFile>> /\ tracker' = Done(tracker, call[h].seq)
        /\ call[h].seq \in 1 .. MaxSeq
    BY <1>1, <1>9 DEF MarkDone, Registered
  <2>2. Moves(h) /\ call'[h].upTo = call[h].upTo
    BY <1>1, <1>9, FinishMoves DEF MarkDone, Stages
  <2>3. tracker' \in TrackersTo(MaxSeq) /\ tracker'.last >= tracker.last
    BY <1>1, <1>2, <2>1, DoneSpec
  <2>4. tracker'.last \in 0 .. MaxSeq
    BY <2>3 DEF TrackersTo
  <2>5. QED
    BY <1>2, <2>1, <2>2, <2>3, <2>4 DEF SavesBehind
<1>10. QED
  BY <1>3, <1>4, <1>6, <1>7, <1>8, <1>9 DEF CallStep, CallFault

LEMMA FileInvStep == FileInv /\ TypesInv' /\ [ReceiverNext]_receiverVars => FileInv'
<1> SUFFICES ASSUME FileInv, TypesInv', [ReceiverNext]_receiverVars PROVE FileInv'
  OBVIOUS
<1>1. /\ lastSeq \in Nat /\ lastSeqFile \in Nat /\ tracker.last \in Nat
      /\ lastSeq' \in Nat /\ lastSeqFile' \in Nat /\ tracker'.last \in Nat
      /\ \A h \in Calls : call[h].upTo \in Nat
      /\ LastSeqBehind /\ \A h \in Calls : SavesBehind(h)
  BY ReceiverAssumption DEF FileInv, TypesInv, ReceiverTypeOK, CallRecords
<1>2. ASSUME NEW h \in Calls, CallStep(h) \/ CallFault(h) PROVE FileInv'
  <2>1. /\ Moves(h) /\ lastSeq <= lastSeq' /\ lastSeqFile' \in {lastSeqFile, call[h].upTo}
        /\ lastSeq' <= tracker'.last /\ SavesBehind(h)'
    BY <1>1, <1>2, LastSeqMoves DEF FileInv, LastSeqBehind
  <2>2. LastSeqBehind'
    BY <1>1, <2>1 DEF LastSeqBehind, SavesBehind
  <2>3. ASSUME NEW g \in Calls \ {h} PROVE SavesBehind(g)'
    <3>1. call'[g] = call[g] /\ call[g].upTo <= lastSeq
      BY <1>1, <2>1 DEF Moves, SavesBehind
    <3>2. QED
      BY <1>1, <2>1, <3>1 DEF SavesBehind
  <2>4. QED
    BY <2>1, <2>2, <2>3 DEF FileInv
<1>3. Idle.upTo = 0 /\ \A s, b : NewCall("decode", s, b).upTo = 0
  BY DEF Idle, NewCall
<1>4. ASSUME NEW h \in Calls, StartCall(h) \/ TakeAck(h) PROVE FileInv'
  <2>1. UNCHANGED <<lastSeq, tracker, lastSeqFile>>
    BY <1>4 DEF StartCall, TakeAck
  <2>2. \E r : r.upTo = 0 /\ call' = [call EXCEPT ![h] = r]
    BY <1>3, <1>4 DEF StartCall, TakeAck, HandleFrame
  <2>3. ASSUME NEW g \in Calls PROVE SavesBehind(g)'
    <3>1. call \in [Calls -> CallRecords]
      BY DEF FileInv, TypesInv, ReceiverTypeOK
    <3>2. call'[g].upTo \in {0, call[g].upTo}
      BY <2>2, <3>1
    <3>3. QED
      BY <1>1, <2>1, <3>2 DEF SavesBehind
  <2>4. QED
    BY <1>1, <2>1, <2>3 DEF FileInv, LastSeqBehind
<1>5. CASE RestartReceiver
  <2>1. /\ lastSeq' = lastSeqFile /\ lastSeqFile' = lastSeqFile
        /\ tracker' = InitTracker(lastSeqFile) /\ \A h \in Calls : call'[h] = Idle
    BY <1>5 DEF RestartReceiver
  <2>2. LastSeqBehind'
    BY <1>1, <2>1 DEF LastSeqBehind, InitTracker
  <2>3. \A h \in Calls : SavesBehind(h)'
    BY <1>1, <1>3, <2>1 DEF SavesBehind
  <2>4. QED
    BY <2>2, <2>3 DEF FileInv
<1>6. CASE UNCHANGED receiverVars
  BY <1>1, <1>6 DEF receiverVars, FileInv, LastSeqBehind, SavesBehind
<1>7. QED
  BY <1>2, <1>4, <1>5, <1>6 DEF ReceiverNext

\* The file is never ahead of last_seq and last_seq never ahead of the tracker, although
\* calls publish and save values they loaded earlier, a later save may put an older value
\* back, and seqs may jump: a restart takes up less than was vouched for, never more
\* (advanceSeq and New, receiver.go:73-81, 324-345).
THEOREM LastSeqFileBehind == ReceiverSpec => []LastSeqBehind
<1>1. ReceiverInit => FileInv
  <2>1. ASSUME ReceiverInit PROVE TypesInv
    BY <2>1, ReceiverInitInv, ReceiverInvTypes
  <2>2. QED
    BY <2>1 DEF ReceiverInit, FileInv, LastSeqBehind, SavesBehind, InitTracker, Idle, NewCall
<1>2. FileInv => LastSeqBehind
  BY DEF FileInv
<1>3. QED
  BY <1>1, <1>2, FileInvStep, ReceiverTypesInvariant, PTL DEF ReceiverSpec
=============================================================================
