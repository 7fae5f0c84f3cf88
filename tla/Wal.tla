-------------------------------- MODULE Wal --------------------------------
(***************************************************************************)
(* The segmented write-ahead log (internal/wal): segment files, the        *)
(* checkpoint file, the index in memory; crashes at every step.            *)
(*                                                                         *)
(* A record is one cell of its segment's file: s for the frame with seq s, *)
(* -s for that frame without the end of its payload, Torn for bytes that   *)
(* no scan takes for a record.  Offsets and sizes are counted in cells.    *)
(* The mutex is held for the whole of an operation, so only a crash comes  *)
(* between two steps of one.                                               *)
(***************************************************************************)
EXTENDS Integers, Sequences, FiniteSets

CONSTANTS
    SegSize,        \* records in a segment (segSize, 64 MB)
    MaxBatch,       \* frames of one AppendBatch (a bound)
    LastSeq,        \* highest seq appended (a bound)
    LastSegment,    \* highest segment number (a bound)
    MaxFaults,      \* faults in a run (a bound)
    LagAfterRemoval,\* may a crash, or a failed save, come between the removal
                    \* of a segment and the save of the checkpoint
    WriteBack,      \* TRUE: whatever was not synced is on disk all the same,
                    \* but for what the running batch wrote to the open segment
    CutPayload,     \* may a crash cut a record off in its payload
    Leftovers       \* what a failed append may leave in the file but not in
                    \* the index: subset of {<<>>, <<Torn>>}

ASSUME WalAssumption ==
    /\ SegSize \in Nat \ {0} /\ MaxBatch \in Nat \ {0}
    /\ LastSeq \in Nat /\ LastSegment \in Nat /\ MaxFaults \in Nat
    /\ LagAfterRemoval \in BOOLEAN /\ WriteBack \in BOOLEAN
    /\ CutPayload \in BOOLEAN

Torn == 0

VARIABLES
    segs,       \* the directory: number -> [cells, synced]; synced is how many
                \* of the cells are certain to survive a loss of power
    cpFile,     \* the checkpoint file: [next, start, acked]
    cp,         \* WAL.cp in memory
    pending,    \* index[acked:], entries [seg, off, seq]
    cur,        \* curFile: "open", "none" (nil) or "closed" (closed, not nil)
    curSeg,     \* number of the segment written to
    curOff,     \* where curFile is believed to end
    op,         \* next step of the operation that holds the mutex
    todo,       \* seqs of the batch: those already written
    left,       \* how many are still to be written
    grouped,    \* AppendBatch, or Append with its one frame
    running,    \* is the process up
    promised,   \* history: seqs whose append returned without an error
    committed,  \* history: seqs ever committed
    faults

diskVars == <<segs, cpFile>>
memVars == <<cp, pending, cur, curSeg, curOff>>
opVars == <<op, todo, left, grouped>>
history == <<promised, committed>>
vars == <<diskVars, memVars, opVars, running, history, faults>>

Checkpoints == [next : 0 .. LastSeq + 1, start : 0 .. LastSegment + 1, acked : 0 .. SegSize]
Entries == [seg : 0 .. LastSegment, off : Nat, seq : 1 .. LastSeq]

FilesTypeOK ==
    /\ DOMAIN segs \subseteq 0 .. LastSegment
    /\ segs \in [DOMAIN segs -> [cells : Seq(-LastSeq .. LastSeq), synced : Nat]]
    /\ \A g \in DOMAIN segs : segs[g].synced <= Len(segs[g].cells)

MemoryTypeOK ==
    /\ cpFile \in Checkpoints /\ cp \in Checkpoints
    /\ pending \in Seq(Entries)
    /\ cur \in {"open", "none", "closed"}
    /\ curSeg \in 0 .. LastSegment + 1 /\ curOff \in Nat

OpTypeOK ==
    /\ op \in {"idle", "space", "write", "sync", "clean", "cleaned", "save"}
    /\ todo \subseteq 1 .. LastSeq /\ left \in 0 .. MaxBatch /\ grouped \in BOOLEAN
    /\ running \in BOOLEAN
    /\ promised \subseteq 1 .. LastSeq /\ committed \subseteq 1 .. LastSeq
    /\ faults \in 0 .. MaxFaults

TypeOK == FilesTypeOK /\ MemoryTypeOK /\ OpTypeOK
-----------------------------------------------------------------------------
(***************************************************************************)
(* Open, as a function of what is on disk.                                 *)
(***************************************************************************)
NewFile == [cells |-> <<>>, synced |-> 0]

\* Removed first: the segments before the checkpoint's.
Alive == {g \in DOMAIN segs : g >= cpFile.start}
Oldest(S) == CHOOSE g \in S : \A h \in S : g <= h
Newest(S) == CHOOSE g \in S : \A h \in S : g >= h

\* Variant for a mutation: one record too many is taken for confirmed.
BuggyOpenAcked == cpFile.acked + 1

\* The segment to start from, and how much of it is confirmed.
OpenStart == IF Alive = {} THEN cpFile.start ELSE Oldest(Alive)
OpenAcked == IF cpFile.start \in Alive THEN cpFile.acked ELSE 0

\* indexSegment: bytes that are no record are skipped if a record follows, and
\* cut off if none does.  A record's header is read, its payload is not: one cut
\* off in its payload counts, and the scan goes on in the middle of what follows.
Scanned(g) ==
    LET cells == segs[g].cells
        scanned[p \in 1 .. Len(cells)] ==
            cells[p] # Torn /\ ~(p > 1 /\ scanned[p - 1] /\ cells[p - 1] < 0)
    IN  scanned
Records(g) == {p \in 1 .. Len(segs[g].cells) : Scanned(g)[p]}
LastRecord(g) == IF Records(g) = {} THEN 0 ELSE Newest(Records(g))

\* The middle of the last cell is where the cut is, if it follows such a record.
Remnant(g) ==
    IF 0 < LastRecord(g) /\ LastRecord(g) < Len(segs[g].cells)
       /\ segs[g].cells[LastRecord(g)] < 0
    THEN <<Torn>> ELSE <<>>
Repaired(g) == [cells |-> SubSeq(segs[g].cells, 1, LastRecord(g)) \o Remnant(g),
                synced |-> Oldest({segs[g].synced, LastRecord(g)})]

\* It refuses to cut off what the checkpoint calls confirmed.
Refused == \E g \in Alive : g = OpenStart /\ LastRecord(g) < OpenAcked
                            /\ Len(segs[g].cells) > LastRecord(g)

SeqAt(g, p) == IF segs[g].cells[p] < 0 THEN -segs[g].cells[p] ELSE segs[g].cells[p]

\* Variant for a mutation: the offset applied to every segment.
BuggyOpenEntries ==
    UNION {{[seg |-> g, off |-> p - 1, seq |-> SeqAt(g, p)] :
               p \in {q \in Records(g) : q > OpenAcked}} : g \in Alive}

\* The index: a record that ends at or before AckedBytes is confirmed.
OpenEntries ==
    UNION {{[seg |-> g, off |-> p - 1, seq |-> SeqAt(g, p)] :
               p \in {q \in Records(g) : g = OpenStart => q > OpenAcked}} : g \in Alive}

\* It is in the order of the scan: i - 1 entries come before the i-th.
Before(d, e) == d.seg < e.seg \/ (d.seg = e.seg /\ d.off < e.off)
Rank(e) == Cardinality({d \in OpenEntries : Before(d, e)})
OpenIndex == [i \in 1 .. Cardinality(OpenEntries) |-> CHOOSE e \in OpenEntries : Rank(e) = i - 1]

\* Variant for a mutation: the scan is not asked for the next seq.
BuggyOpenNext == cpFile.next

OpenNext == Newest({cpFile.next, 1} \cup {e.seq + 1 : e \in OpenEntries})
OpenSegment == IF Alive = {} THEN OpenStart ELSE Newest(Alive)

\* Variant for a mutation: the open segment is taken to be empty.
BuggyOpenOffset == 0
OpenOffset == IF OpenSegment \in Alive THEN Len(Repaired(OpenSegment).cells) ELSE 0

Open ==
    /\ ~running
    /\ ~Refused
    /\ OpenSegment <= LastSegment
    /\ segs' = [g \in Alive \cup {OpenSegment} |-> IF g \in Alive THEN Repaired(g) ELSE NewFile]
    /\ cp' = [next |-> OpenNext, start |-> OpenStart, acked |-> OpenAcked]
    /\ pending' = OpenIndex
    /\ cur' = "open" /\ curSeg' = OpenSegment /\ curOff' = OpenOffset
    /\ running' = TRUE
    /\ UNCHANGED <<cpFile, opVars, history, faults>>

Init ==
    /\ segs = [g \in {} |-> NewFile]
    /\ cpFile = [next |-> 0, start |-> 0, acked |-> 0]
    /\ cp = [next |-> 1, start |-> 0, acked |-> 0]
    /\ pending = <<>>
    /\ cur = "none" /\ curSeg = 0 /\ curOff = 0
    /\ op = "idle" /\ todo = {} /\ left = 0 /\ grouped = TRUE
    /\ running = FALSE
    /\ promised = {} /\ committed = {}
    /\ faults = 0
-----------------------------------------------------------------------------
(***************************************************************************)
(* AppendBatch, with one fsync for its frames, and Append.                 *)
(***************************************************************************)
At(stage) == running /\ op = stage
Go(stage) == op' = stage /\ UNCHANGED <<todo, left, grouped>>
Return == op' = "idle" /\ todo' = {} /\ left' = 0 /\ grouped' = TRUE
Fault == faults < MaxFaults /\ faults' = faults + 1
NoFault == UNCHANGED faults

StartAppend ==
    /\ At("idle")
    /\ \E n \in 1 .. MaxBatch : cp.next + n - 1 <= LastSeq /\ left' = n
    /\ grouped' \in {TRUE, left' > 1}
    /\ op' = "space" /\ todo' = {}
    /\ NoFault /\ UNCHANGED <<diskVars, memVars, running, history>>

Fits == curOff + 1 <= SegSize

\* ensureSpace, the file has room.
RoomLeft ==
    /\ At("space")
    /\ cur = "open" /\ Fits
    /\ Go("write")
    /\ NoFault /\ UNCHANGED <<diskVars, memVars, running, history>>

\* rotate: opens or creates the segment and appends where it ends.
OpenFile(g) ==
    /\ g <= LastSegment
    /\ segs' = [f \in DOMAIN segs \cup {g} |-> IF f \in DOMAIN segs THEN segs[f] ELSE NewFile]
    /\ cur' = "open" /\ curSeg' = g
    /\ curOff' = Len(segs'[g].cells)

\* ensureSpace, a new segment.  The old file is closed, not synced.
Rotate ==
    /\ At("space")
    /\ \/ cur = "none" /\ OpenFile(curSeg)
       \/ cur = "open" /\ ~Fits /\ OpenFile(curSeg + 1)
    /\ Go("write")
    /\ NoFault /\ UNCHANGED <<cpFile, cp, pending, running, history>>

\* The new segment cannot be created.  In place of a full one, curFile stays a
\* closed file and the number has moved.
RotateFails ==
    /\ At("space")
    /\ \/ cur = "none" /\ UNCHANGED <<cur, curSeg>>
       \/ cur = "open" /\ ~Fits /\ cur' = "closed" /\ curSeg' = curSeg + 1
    /\ Return
    /\ Fault /\ UNCHANGED <<diskVars, cp, pending, curOff, running, history>>

\* Closing a closed file is an error, writing to it too.
CloseFails ==
    /\ At("space")
    /\ cur = "closed"
    /\ Return
    /\ NoFault /\ UNCHANGED <<diskVars, memVars, running, history>>

AppendCell(c) == [segs EXCEPT ![curSeg].cells = Append(@, c)]

IndexFrame ==
    /\ pending' = Append(pending, [seg |-> curSeg, off |-> curOff, seq |-> cp.next])
    /\ curOff' = curOff + 1
    /\ cp' = [cp EXCEPT !.next = @ + 1]

\* AppendBatch indexes a frame when it is written, Append when it is synced.
WriteFrame ==
    /\ At("write")
    /\ cur = "open"
    /\ segs' = AppendCell(cp.next)
    /\ IF grouped THEN IndexFrame ELSE UNCHANGED <<cp, pending, curOff>>
    /\ todo' = todo \cup {cp.next} /\ left' = left - 1
    /\ op' = IF left > 1 THEN "space" ELSE "sync"
    /\ NoFault /\ UNCHANGED <<cpFile, cur, curSeg, grouped, running, history>>

\* The record head or the frame is written in part or not at all (disk full).
WriteFails ==
    /\ At("write")
    /\ cur = "open"
    /\ \E rest \in Leftovers : segs' = [segs EXCEPT ![curSeg].cells = @ \o rest]
    /\ Return
    /\ Fault /\ UNCHANGED <<cpFile, memVars, running, history>>

\* One fsync, of the file that is open now.
Sync ==
    /\ At("sync")
    /\ segs' = [segs EXCEPT ![curSeg].synced = Len(segs[curSeg].cells)]
    /\ IF grouped THEN UNCHANGED <<cp, pending, curOff>> ELSE IndexFrame
    /\ promised' = promised \cup todo
    /\ Return
    /\ NoFault /\ UNCHANGED <<cpFile, cur, curSeg, running, committed>>

\* The caller gets an error.  The frames of a batch stay in the file and in the
\* index, the one of Append in the file alone.
SyncFails ==
    /\ At("sync")
    /\ grouped \/ <<Torn>> \in Leftovers
    /\ Return
    /\ Fault /\ UNCHANGED <<diskVars, memVars, running, history>>
-----------------------------------------------------------------------------
(***************************************************************************)
(* Commit                                                                  *)
(***************************************************************************)

\* What Peek finds at an entry's place is that entry's frame.
Readable(e) ==
    /\ e.seg \in DOMAIN segs
    /\ e.off < Len(segs[e.seg].cells)
    /\ segs[e.seg].cells[e.off + 1] = e.seq

\* Variant for a mutation: the confirmed offset one record too far.
BuggyCommit ==
    /\ At("idle")
    /\ pending # <<>> /\ Readable(Head(pending))
    /\ cp' = [cp EXCEPT !.acked = IF Head(pending).off + 2 <= SegSize
                                  THEN Head(pending).off + 2 ELSE @]
    /\ pending' = Tail(pending)
    /\ committed' = committed \cup {Head(pending).seq}
    /\ Go("clean")
    /\ NoFault /\ UNCHANGED <<diskVars, cur, curSeg, curOff, running, promised>>

\* The sender commits the frame PeekBatch gave it, oldest first.  It gets no
\* confirmation for one that is not whole.
Commit ==
    /\ At("idle")
    /\ pending # <<>> /\ Readable(Head(pending))
    /\ cp' = [cp EXCEPT !.acked = Head(pending).off + 1]
    /\ pending' = Tail(pending)
    /\ committed' = committed \cup {Head(pending).seq}
    /\ Go("clean")
    /\ NoFault /\ UNCHANGED <<diskVars, cur, curSeg, curOff, running, promised>>

SegDone == pending # <<>> => Head(pending).seg # cp.start

\* The oldest segment holds nothing unconfirmed: it is removed, even the one
\* written to; its successor's file is created by the next append.
RemoveSegment ==
    /\ running /\ op \in {"clean", "cleaned"}
    /\ SegDone
    /\ segs' = [g \in DOMAIN segs \ {cp.start} |-> segs[g]]
    /\ cp' = [cp EXCEPT !.start = @ + 1, !.acked = 0]
    /\ IF cp.start = curSeg
       THEN cur' = "none" /\ curSeg' = curSeg + 1 /\ curOff' = 0
       ELSE UNCHANGED <<cur, curSeg, curOff>>
    /\ Go(IF pending = <<>> THEN "save" ELSE "cleaned")
    /\ NoFault /\ UNCHANGED <<cpFile, pending, running, history>>

\* After an earlier removal the error leaves the checkpoint unsaved.
RemoveFails ==
    /\ running
    /\ op \in {"clean", "cleaned"} /\ (op = "cleaned" => LagAfterRemoval)
    /\ SegDone
    /\ Return
    /\ Fault /\ UNCHANGED <<diskVars, memVars, running, history>>

\* Nothing removed: the save is throttled to one a second, so it happens or not.
SkipOrSave ==
    /\ At("clean")
    /\ ~SegDone
    /\ cpFile' \in {cpFile, cp}
    /\ Return
    /\ NoFault /\ UNCHANGED <<segs, memVars, running, history>>

\* Something removed: saved at once, by a temporary file and a rename.
SaveAfterRemoval ==
    /\ running /\ op \in {"cleaned", "save"}
    /\ op = "cleaned" => ~SegDone
    /\ cpFile' = cp \/ (LagAfterRemoval /\ cpFile' = cpFile)
    /\ Return
    /\ NoFault /\ UNCHANGED <<segs, memVars, running, history>>

\* SetCursor and ApplyBackfillPolicy save the whole checkpoint; the save may fail.
SetCursor ==
    /\ At("idle")
    /\ cpFile' \in {cpFile, cp}
    /\ NoFault /\ UNCHANGED <<segs, memVars, opVars, running, history>>
-----------------------------------------------------------------------------
(***************************************************************************)
(* The end of the process.                                                 *)
(***************************************************************************)
Close ==
    /\ At("idle")
    /\ cpFile' \in {cpFile, cp}
    /\ running' = FALSE
    /\ NoFault /\ UNCHANGED <<segs, memVars, opVars, history>>

\* How much of a segment is on disk for certain when the machine stops.
OfBatch(g) == {p \in segs[g].synced + 1 .. Len(segs[g].cells) : segs[g].cells[p] \in todo}
Certain(g) ==
    IF ~WriteBack THEN segs[g].synced
    ELSE Len(segs[g].cells) - IF g = curSeg THEN Cardinality(OfBatch(g)) ELSE 0

\* What may be found in its place: a prefix, with a piece of the next record
\* behind it if there was or was going to be one.
Pieces(c) == {<<>>, <<Torn>>} \cup IF CutPayload /\ c > 0 THEN {<<-c>>} ELSE {}
Writing(g) == g = curSeg /\ op = "write" /\ cur = "open"
Survivors(g) ==
    LET cells == segs[g].cells
        Cut(n) == IF n < Len(cells) THEN Pieces(cells[n + 1])
                  ELSE IF Writing(g) THEN Pieces(cp.next) ELSE {<<>>}
    IN  UNION {{[cells |-> SubSeq(cells, 1, n) \o rest, synced |-> segs[g].synced] :
                   rest \in Cut(n)} : n \in Certain(g) .. Len(cells)}

Crash ==
    /\ running
    /\ op \in {"cleaned", "save"} => LagAfterRemoval
    /\ \E disk \in [DOMAIN segs -> UNION {Survivors(g) : g \in DOMAIN segs}] :
          /\ \A g \in DOMAIN segs : disk[g] \in Survivors(g)
          /\ segs' = disk
    /\ running' = FALSE
    /\ Return
    /\ Fault /\ UNCHANGED <<cpFile, memVars, history>>

AppendStep ==
    \/ StartAppend \/ RoomLeft \/ Rotate \/ RotateFails \/ CloseFails
    \/ WriteFrame \/ WriteFails \/ Sync \/ SyncFails
CommitStep == Commit \/ RemoveSegment \/ RemoveFails \/ SkipOrSave \/ SaveAfterRemoval

Next == Open \/ AppendStep \/ CommitStep \/ SetCursor \/ Close \/ Crash

Spec == Init /\ [][Next]_vars
-----------------------------------------------------------------------------
(***************************************************************************)
(* Safety                                                                  *)
(***************************************************************************)
Seqs == {pending[i].seq : i \in DOMAIN pending}

\* A frame whose append returned without an error stays in the queue until it is
\* committed, over every crash (docs/architecture.md 4.1 and 7, wal.go:423).
KeptUntilCommitted == running => promised \ committed \subseteq Seqs

\* A seq that was committed is not given to a new frame: the receiver would take
\* the frame for a duplicate and confirm it unwritten (receiver.go:103).
NextFresh == running => \A s \in committed : s < cp.next

\* The queue is without holes and in order up to the next seq: the receiver's
\* last_seq moves over consecutive seqs only.
NoHoles == running => \A i \in DOMAIN pending : pending[i].seq = cp.next - Len(pending) + i - 1

\* The index and the files agree, over rotation, removal, repair and crashes.
EntriesReadable == running => \A i \in DOMAIN pending : Readable(pending[i])

\* Refinement: until Open has run again, a crash is not visible in the queue.
Queue == INSTANCE WalQueue WITH first <- cp.next - Len(pending), next <- cp.next
KeepsQueue == Queue!Spec
=============================================================================
