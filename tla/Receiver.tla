------------------------------ MODULE Receiver ------------------------------
(***************************************************************************)
(* Receiver.HandleFrame (internal/receiver/receiver.go) with the state it  *)
(* shares between the goroutines that run it: the atomic lastSeq, the      *)
(* tracker, the in-flight reference counts and the last_seq file.          *)
(*                                                                         *)
(* The server starts one goroutine per frame, on any number of             *)
(* connections, so several calls run at once.  A call is a record whose pc *)
(* names the next statement of HandleFrame that touches shared state; the  *)
(* actions of one call interleave with those of every other.               *)
(*                                                                         *)
(* InfluxDB is seen as the set of seqs whose points it holds: a write is   *)
(* idempotent (same series and timestamp overwrite), so writing twice is   *)
(* writing once.                                                           *)
(***************************************************************************)
EXTENDS SeqTracker

CONSTANTS Calls,      \* identities of concurrent HandleFrame calls (a bound)
          MaxSeq,     \* highest data seq that is ever appended (a bound)
          MayReject,  \* seqs of frames whose points InfluxDB may refuse for good
          RelayOn     \* is the relay WAL configured (cfg.RelayWAL # nil)

ASSUME ReceiverAssumption ==
    /\ IsFiniteSet(Calls)
    /\ MaxSeq \in Nat \ {0}
    /\ MayReject \subseteq 1 .. MaxSeq
    /\ RelayOn \in BOOLEAN

VARIABLES
    lastSeq,      \* Receiver.lastSeq, read without a lock by the duplicate test
    tracker,      \* Receiver.seqOrd
    inflight,     \* Receiver.inflightSeq: seq -> number of registered calls
    lastSeqFile,  \* what loadLastSeq returns after a restart
    call,         \* the running HandleFrame calls
    stored,       \* seqs whose points are in the target InfluxDB
    dlq,          \* seqs isolated in the receiver's dead letter directory
    relayed,      \* seqs in the relay WAL or the relay dead letter directory
    relayLost     \* seqs both of them refused (an error log is all that is left)

databaseVars == <<stored, dlq, relayed, relayLost>>
receiverVars == <<lastSeq, tracker, inflight, lastSeqFile, call, databaseVars>>

DataSeqs == 1 .. MaxSeq
Heartbeat == 0          \* a heartbeat carries seq 0 (sendHeartbeat)

\* "free": not running; "decode" .. "leave": next statement; "ret": returned.
\* ok is the answer; upTo is what advanceSeq was given and may write to the file.
Stages == {"free", "decode", "register", "gap", "saveGap", "write", "isolate",
           "relay", "mark", "advance", "save", "leave", "ret"}
CallRecords == [pc : Stages, seq : Heartbeat .. MaxSeq, head : BOOLEAN, ok : BOOLEAN,
                upTo : 0 .. MaxSeq]
NewCall(stage, seq, head) ==
    [pc |-> stage, seq |-> seq, head |-> head, ok |-> FALSE, upTo |-> 0]
Idle == NewCall("free", Heartbeat, FALSE)

\* Frames the receiver answers for: in the database, or isolated as poison.
Delivered == stored \cup dlq

\* Frames that 0xff may have been said of: delivered and, with a relay, offered to it.
Settled == {s \in Delivered : RelayOn => s \in relayed \cup relayLost \cup dlq}

\* The calls between addInflight and the deferred removeInflight.
Registered ==
    {"gap", "saveGap", "write", "isolate", "relay", "mark", "advance", "save", "leave"}

\* tryCloseGap keeps inflightMu while advanceSeq writes the file.
InflightMuFree == \A h \in Calls : call[h].pc # "saveGap"

ReceiverInit ==
    /\ lastSeq = 0
    /\ tracker = InitTracker(0)
    /\ inflight = [s \in DataSeqs |-> 0]
    /\ lastSeqFile = 0
    /\ call = [h \in Calls |-> Idle]
    /\ stored = {}
    /\ dlq = {}
    /\ relayed = {}
    /\ relayLost = {}

ReceiverTypeOK ==
    /\ lastSeq \in 0 .. MaxSeq
    /\ tracker \in [last : 0 .. MaxSeq, pending : SUBSET DataSeqs]
    /\ inflight \in [DataSeqs -> Nat]
    /\ lastSeqFile \in 0 .. MaxSeq
    /\ call \in [Calls -> CallRecords]
    /\ stored \subseteq DataSeqs
    /\ dlq \subseteq DataSeqs
    /\ relayed \subseteq DataSeqs
    /\ relayLost \subseteq DataSeqs
-----------------------------------------------------------------------------
Goto(h, stage) == call' = [call EXCEPT ![h].pc = stage]
Finish(h, stage, ack) == call' = [call EXCEPT ![h].pc = stage, ![h].ok = ack]

\* The server starts a call on a frame; head is "frameIdx == 0".
HandleFrame(h, seq, head) == call' = [call EXCEPT ![h] = NewCall("decode", seq, head)]

\* Decode rejects a damaged frame before anything is registered.
DecodeFails(h) ==
    /\ call[h].pc = "decode"
    /\ Finish(h, "ret", FALSE)
    /\ UNCHANGED <<lastSeq, tracker, inflight, lastSeqFile, databaseVars>>

\* Variant for a mutation: the duplicate test off by one.
BuggyCheckDuplicate(h) ==
    /\ call[h].pc = "decode"
    /\ IF call[h].seq <= lastSeq + 1 THEN Finish(h, "ret", TRUE) ELSE Goto(h, "register")
    /\ UNCHANGED <<lastSeq, tracker, inflight, lastSeqFile, databaseVars>>

\* A heartbeat, or a seq the contiguous prefix covers, is confirmed at once.
CheckDuplicate(h) ==
    /\ call[h].pc = "decode"
    /\ IF call[h].seq = Heartbeat \/ call[h].seq <= lastSeq
       THEN Finish(h, "ret", TRUE)
       ELSE Goto(h, "register")
    /\ UNCHANGED <<lastSeq, tracker, inflight, lastSeqFile, databaseVars>>

AddInflight(h) ==
    /\ call[h].pc = "register"
    /\ InflightMuFree
    /\ inflight' = [inflight EXCEPT ![call[h].seq] = @ + 1]
    /\ Goto(h, "gap")
    /\ UNCHANGED <<lastSeq, tracker, lastSeqFile, databaseVars>>

\* advanceSeq(seqOrd.load()), up to the file: the CAS loop keeps the larger value.
AdvanceSeq(h, t, stage) ==
    /\ lastSeq' = IF t.last > lastSeq THEN t.last ELSE lastSeq
    /\ call' = [call EXCEPT ![h].pc = stage, ![h].upTo = t.last]

\* The rest of advanceSeq: the save is throttled to one a second and may fail, so
\* it happens or not.  The value was loaded earlier; a newer one may be in the file.
SaveLastSeq(h, stage) ==
    /\ lastSeqFile' \in {lastSeqFile, call[h].upTo}
    /\ call' = [call EXCEPT ![h].pc = stage, ![h].upTo = 0]

\* Variant for a mutation: the frame itself counted among the gap.
BuggyGapClosesSelf(h) ==
    /\ call[h].head
    /\ call[h].seq > lastSeq + 1
    /\ call[h].seq <= lastSeq + JumpLimit
    /\ \A s \in lastSeq + 1 .. call[h].seq : inflight[s] = 0

\* tryCloseGap's test, made under inflightMu, with HandleFrame's own guards.
GapCloses(h) ==
    /\ call[h].head
    /\ call[h].seq > lastSeq + 1
    /\ call[h].seq <= lastSeq + JumpLimit
    /\ \A s \in lastSeq + 1 .. call[h].seq - 1 : inflight[s] = 0

\* Variant for a mutation: the gap closed up to the frame, not below it.
BuggyTryCloseGap(h) ==
    /\ call[h].pc = "gap"
    /\ InflightMuFree
    /\ IF GapCloses(h)
       THEN /\ tracker' = CloseGap(tracker, call[h].seq)
            /\ AdvanceSeq(h, tracker', "saveGap")
       ELSE Goto(h, "write") /\ UNCHANGED <<tracker, lastSeq>>
    /\ UNCHANGED <<inflight, lastSeqFile, databaseVars>>

TryCloseGap(h) ==
    /\ call[h].pc = "gap"
    /\ InflightMuFree
    /\ IF GapCloses(h)
       THEN /\ tracker' = CloseGap(tracker, call[h].seq - 1)
            /\ AdvanceSeq(h, tracker', "saveGap")
       ELSE Goto(h, "write") /\ UNCHANGED <<tracker, lastSeq>>
    /\ UNCHANGED <<inflight, lastSeqFile, databaseVars>>

SaveGap(h) ==
    /\ call[h].pc = "saveGap"
    /\ SaveLastSeq(h, "write")
    /\ UNCHANGED <<lastSeq, tracker, inflight, databaseVars>>

\* Variant for a mutation: markDone before the relay append.
BuggyWriteOk(h) ==
    /\ call[h].pc = "write"
    /\ stored' = stored \cup {call[h].seq}
    /\ tracker' = Done(tracker, call[h].seq)
    /\ Goto(h, IF RelayOn THEN "relay" ELSE "mark")
    /\ UNCHANGED <<lastSeq, inflight, lastSeqFile, dlq, relayed, relayLost>>

\* WriteRaw returned nil.
WriteOk(h) ==
    /\ call[h].pc = "write"
    /\ stored' = stored \cup {call[h].seq}
    /\ Goto(h, IF RelayOn THEN "relay" ELSE "mark")
    /\ UNCHANGED <<lastSeq, tracker, inflight, lastSeqFile, dlq, relayed, relayLost>>

\* Decompression failed, or a retryable error: the points may have reached the
\* database all the same (a timeout after the write took effect).
WriteTransient(h) ==
    /\ call[h].pc = "write"
    /\ stored' \in {stored, stored \cup {call[h].seq}}
    /\ Finish(h, "leave", FALSE)
    /\ UNCHANGED <<lastSeq, tracker, inflight, lastSeqFile, dlq, relayed, relayLost>>

\* classifyWriteError called it permanent: a poison packet.
WritePermanent(h) ==
    /\ call[h].pc = "write"
    /\ call[h].seq \in MayReject
    /\ Goto(h, "isolate")
    /\ UNCHANGED <<lastSeq, tracker, inflight, lastSeqFile, databaseVars>>

\* Variant for a mutation: confirmed even when the dead letter was not written.
BuggyIsolate(h) ==
    /\ call[h].pc = "isolate"
    /\ dlq' \in {dlq, dlq \cup {call[h].seq}}
    /\ Finish(h, "leave", TRUE)
    /\ UNCHANGED <<lastSeq, tracker, inflight, lastSeqFile, stored, relayed, relayLost>>

\* writeDLQJSON: only an isolated packet may be confirmed.
Isolate(h) ==
    /\ call[h].pc = "isolate"
    /\ \/ dlq' = dlq \cup {call[h].seq} /\ Goto(h, "mark")
       \/ dlq' = dlq /\ Finish(h, "leave", FALSE)
    /\ UNCHANGED <<lastSeq, tracker, inflight, lastSeqFile, stored, relayed, relayLost>>

\* RelayWAL.Append, or the relay DLQ when it fails; when that fails too the
\* code logs the error and goes on.
Relay(h) ==
    /\ call[h].pc = "relay"
    /\ \/ relayed' = relayed \cup {call[h].seq} /\ relayLost' = relayLost
       \/ relayLost' = relayLost \cup {call[h].seq} /\ relayed' = relayed
    /\ Goto(h, "mark")
    /\ UNCHANGED <<lastSeq, tracker, inflight, lastSeqFile, stored, dlq>>

\* markDone, first half: the tracker records the seq under its mutex.
MarkDone(h) ==
    /\ call[h].pc = "mark"
    /\ tracker' = Done(tracker, call[h].seq)
    /\ Finish(h, IF Advances(tracker, call[h].seq) THEN "advance" ELSE "leave", TRUE)
    /\ UNCHANGED <<lastSeq, inflight, lastSeqFile, databaseVars>>

\* markDone, second half: publish what the tracker now vouches for.
Advance(h) ==
    /\ call[h].pc = "advance"
    /\ AdvanceSeq(h, tracker, "save")
    /\ UNCHANGED <<tracker, inflight, lastSeqFile, databaseVars>>

Save(h) ==
    /\ call[h].pc = "save"
    /\ SaveLastSeq(h, "leave")
    /\ UNCHANGED <<lastSeq, tracker, inflight, databaseVars>>

\* Variant for a mutation: the entry deleted instead of counted down.
BuggyRemoveInflight(h) ==
    /\ call[h].pc = "leave"
    /\ InflightMuFree
    /\ inflight' = [inflight EXCEPT ![call[h].seq] = 0]
    /\ Goto(h, "ret")
    /\ UNCHANGED <<lastSeq, tracker, lastSeqFile, databaseVars>>

\* The deferred removeInflight, then the return to the server.
RemoveInflight(h) ==
    /\ call[h].pc = "leave"
    /\ InflightMuFree
    /\ inflight' = [inflight EXCEPT ![call[h].seq] = IF @ <= 1 THEN 0 ELSE @ - 1]
    /\ Goto(h, "ret")
    /\ UNCHANGED <<lastSeq, tracker, lastSeqFile, databaseVars>>

\* The process dies and New restores last_seq from its file: calls, tracker and
\* in-flight counts are gone, the database and the dead letters are not.
RestartReceiver ==
    /\ lastSeq' = lastSeqFile
    /\ tracker' = InitTracker(lastSeqFile)
    /\ inflight' = [s \in DataSeqs |-> 0]
    /\ call' = [h \in Calls |-> Idle]
    /\ UNCHANGED <<lastSeqFile, databaseVars>>

\* What a call does when nothing goes wrong, and what may go wrong.
CallStep(h) ==
    \/ CheckDuplicate(h) \/ AddInflight(h) \/ TryCloseGap(h) \/ SaveGap(h)
    \/ WriteOk(h) \/ Isolate(h) \/ Relay(h) \/ MarkDone(h) \/ Advance(h) \/ Save(h)
    \/ RemoveInflight(h)
CallFault(h) == DecodeFails(h) \/ WriteTransient(h) \/ WritePermanent(h)
-----------------------------------------------------------------------------
(***************************************************************************)
(* The receiver alone, called with any frame in any order.  A frame may be *)
(* the first of its connection only if the sender was told that all older  *)
(* ones are done: that is what HandleFrame takes the first frame for       *)
(* (receiver.go:43-47, 298-303).  Delivery says when the sender keeps it.  *)
(***************************************************************************)
StartCall(h) ==
    /\ call[h].pc = "free"
    /\ \E seq \in Heartbeat .. MaxSeq, head \in BOOLEAN :
        /\ head => 1 .. seq - 1 \subseteq Settled
        /\ HandleFrame(h, seq, head)
    /\ UNCHANGED <<lastSeq, tracker, inflight, lastSeqFile, databaseVars>>

TakeAck(h) ==
    /\ call[h].pc = "ret"
    /\ call' = [call EXCEPT ![h] = Idle]
    /\ UNCHANGED <<lastSeq, tracker, inflight, lastSeqFile, databaseVars>>

ReceiverNext ==
    \/ \E h \in Calls : CallStep(h) \/ CallFault(h) \/ StartCall(h) \/ TakeAck(h)
    \/ RestartReceiver

ReceiverSpec == ReceiverInit /\ [][ReceiverNext]_receiverVars
-----------------------------------------------------------------------------
(***************************************************************************)
(* Properties                                                              *)
(***************************************************************************)

\* last_seq never covers a frame that is neither in the database nor in the
\* dead letters, in memory, in the tracker or in the file: otherwise the
\* retransmission of that frame would be confirmed as a duplicate and lost
\* (receiver.go:60-63, 101-107).
PrefixDelivered ==
    /\ 1 .. lastSeq \subseteq Delivered
    /\ 1 .. tracker.last \subseteq Delivered
    /\ 1 .. lastSeqFile \subseteq Delivered

\* A call that confirms a data frame confirms one that is safe: the promise
\* "0xff = written" (receiver.go:35) for duplicates, concurrent copies, poison
\* packets and restarts alike.
ConfirmedDelivered ==
    \A h \in Calls :
        call[h].pc = "ret" /\ call[h].ok /\ call[h].seq # Heartbeat
            => call[h].seq \in Delivered

\* The reference counts are exactly the registered calls, so that tryCloseGap
\* sees every frame that may still fail (receiver.go:255-271).
InflightExact ==
    \A s \in DataSeqs :
        inflight[s] = Cardinality({h \in Calls : call[h].seq = s /\ call[h].pc \in Registered})

\* Every frame last_seq covers was offered to the next hop, unless it is poison:
\* once covered it is never handled again, so a frame that skipped the relay
\* append (a crash, a nack, a concurrent copy) would never reach that hop
\* (receiver.go:204-230).
CoveredRelayed ==
    RelayOn => 1 .. lastSeq \subseteq relayed \cup relayLost \cup dlq
=============================================================================
