# influx-sync in TLA+

influx-sync copies the points of one InfluxDB to another across a bad link. A *sender* polls
(or is pushed) points, packs them into frames, keeps the frames in a write-ahead log and ships
them over TCP; a *receiver* writes each frame to the target database, answers one byte per frame
(0xff written, 0x00 not) and may relay what it wrote to a next hop. The promise is at-least-once:
a frame leaves the WAL only when it is in the target database, or isolated there as a dead letter.

## 1. Inventory

| Part | State | Operations | What is hard | What makes it correct |
|---|---|---|---|---|
| Receiver frame handler (`receiver.go`, `dlq.go`) | `lastSeq` (atomic), `seqOrd` = last + pending, `inflightSeq` counts, `last_seq` file, dead letters | HandleFrame: decode, duplicate test, register, close gap, write, isolate, relay, mark done, save, unregister; New after a restart | runs once per frame in its own goroutine, on any number of connections; copies of one frame at a time; saves throttled to one a second | last_seq covers only safe frames; 0xff only for safe frames; every covered frame was offered to the relay |
| TCP server (`tcp_server.go`) | per connection: order of running calls, results, data frame index; connection count | read a frame, wait for the window, start a call; write ACKs in arrival order; close | calls end out of order, ACK bytes carry no seq; calls outlive connections | the n-th byte answers the n-th frame; the frame index means "head of the sender's WAL" |
| TCP client (`tcp_client.go`) | one connection or none | EnsureConnected, SendFrame, WaitAck, Close | timeout shorter than the server's work; half-dead streams | an answer taken is the answer to the frame asked about |
| Sender loop (`sender.go`) | round: window and position | Run, runPipeline, sendHeartbeat | failures between sends, between answers, restarts | commits only what was confirmed; never stuck once faults stop |
| WAL (`wal.go`, `cursor.go`, `wal/dlq.go`) | segments, index, acked, nextSeq, acked offset, checkpoint, cursor | Open/scan, AppendBatch, Peek, PeekBatch, Commit, SetCursor, Close | crash between write, remove, save; short writes; full disk | an appended frame is found again until committed; seqs are never reused |
| Poller (`poller.go`) | cursor, window length, prefetch, pending flag, timer, backpressure | wait for a trigger, query a window in parallel segments, merge, filter, cut into frames, append, move the cursor | frames too large, WAL full, notifications that coalesce, windows cut short by the watermark | no point between two cursors is skipped; no signal is lost |
| Fast path and signals (`fastpath.go`, `signal.go`) | dedup set | accept a push, append, register, notify the poller | two writers of one WAL, a push that is lost or merged | what the fast path claims to have sent need not be polled again |
| InfluxDB client (`influx/client.go`) | schema cache and its flights | QueryRange (pages, dense timestamps), ensureSchema, ProbeOldestData, WriteRaw | pages that end inside one timestamp, LIMIT per series; discoveries shared by several queries, and failing | a range query returns every row exactly once; no column is guessed for good |
| Start-up (`cmd/sender`, `cmd/receiver`) | backfill policy record, initial cursor, relay wiring | choose the cursor, start the parts, stop them | a probe that fails during a one-time decision | the policy's rewind happens once, and does happen |
| Codec, line protocol, config, metrics, log, bench | none that another part reads | encode, parse, count | byte-level | out of scope (section 8) |

How they interact: the poller and the fast path append to the WAL; the sender loop peeks and
commits; the link carries frames one way and bytes back; the server's reader starts `HandleFrame`
calls that share the receiver's state through an atomic, two mutexes and a file; the relay is a
second WAL and sender loop inside the receiver process.

`PROJECT.json` lists, under `hazards`, each place where this is hard to test, with the property
that covers it or the reason why none does yet.

## 2. Modules

```
SeqTracker      the tracker's operators (init, closeGap, done)
  Receiver      HandleFrame calls over the shared state; restart       -- ReceiverSpec
    Server      connections' readers and ACK writers  ---+
Link            TCP streams between sender and server ---+-- Delivery  -- Spec, FairSpec
  Sender        Run and runPipeline                   ---+
AtLeastOnce     the promise, implemented by Delivery
Wal             segment files, checkpoint, index, with crashes           -- Spec
WalQueue        the queue the log promises, implemented by Wal
Backpressure    levels of the disk and their hysteresis --+-- Poller, PollTrigger
FastPath        source, pushes, deduplication set
  Poller        poll loop beside the fast path; restart                  -- Spec, FairSpec
PollTrigger     Notify, timer, token, wakeups, poll loop                 -- Spec, FairSpec
RangeQuery      parallel segments and pages of one window
  PollWindow    the window joined, cut into frames, appended             -- Spec, FairSpec
SchemaCache     discovery of a measurement's columns                     -- Spec, FairSpec
OldestData      operators of the probe for the oldest data
  Backfill      starts of the sender: policy, rewind, first cursor       -- Spec, FairSpec
MCReceiver, MCDelivery, MCWal, MCPoller, MCPollWindow, MCBackfill    instances for TLC
ReceiverProofs, DeliveryProofs, BackfillProofs, PollerProofs,
PollTriggerProofs, PollWindowProofs, SchemaCacheProofs, WalProofs    theorems
```

**SeqTracker** (`receiver.go:387-461`). A tracker is the record `[last, pending]`; each method
holds the mutex for all of its body, so each is one operator. `RunEnd` is the drain loop,
`CloseGap` does not drain (as in the code), `Done` has the jump and overflow rules. The code's
two limits are `JumpLimit` (100000) and `PendingLimit` (65536).

**Receiver** (`receiver.go:64-345`). A running `HandleFrame` is a record in `call` whose `pc` is
the next statement that touches shared state; nothing else is atomic:

| pc | statement |
|---|---|
| decode | `Decode`, heartbeat, duplicate test against the atomic `lastSeq` |
| register | `addInflight` |
| gap, saveGap | gap tests and `tryCloseGap`; its `advanceSeq` saving the file, under `inflightMu` |
| write | decompress, `WriteRaw` and the classification of its error |
| isolate | `writeDLQJSON` for a poison packet |
| relay | `RelayWAL.Append`, or the relay's dead letters, or neither |
| mark, advance, save | `seqTracker.done`; `load` and the CAS loop of `advanceSeq`; the throttled save |
| leave, ret | the deferred `removeInflight`; the returned answer, not yet taken |

The database is the set of seqs whose points it holds, because a rewrite of the same point
overwrites it. A failed write may have taken effect. `Delivered` is database or dead letters.
`advanceSeq` loads, publishes and saves; the load and the CAS are one step (the CAS only keeps
the larger value, so it may be taken at the time of the load), the save is a step of its own and
writes what was loaded, even when a newer value is already in the file. In `ReceiverSpec` any
frame may come at any time; it may come as the first of a connection (`head`) only if every older
frame is settled, which is what the code takes for granted there. The code reads `lastSeq`
twice on the way to closing a gap, the model once: an older value only widens the range tested.

**Link, Server, Sender** model `tcp_client.go`, `tcp_server.go` and `sender.go`. A connection is
a slot with a FIFO each way; the sender has at most one, and connections it has given up live on
at the server, with unread frames and running calls, which is where late copies come from. Each
ACK in the model carries the seq it answers as auxiliary data: no action of the sender reads it.
`ReadFrame` gives a frame `head = TRUE` (frame index 0) exactly as the code does: a data frame
that is not of type `TypeData`, zstd included, always has index 0. `Window`, `AfterFailure` and
`Rest` are the two modes of the sender: with `Pipeline = 1` every failure goes back to `Peek`,
with more the round goes on with what is left of it on a new connection. The WAL is, at this
level, `appended`, `acked` and the value of `acked` a restart finds (`ckpt`).

**Delivery** composes them; `faults` bounds, and lets fairness rely on the end of, what the
environment may do: failed sends, timeouts, refused or broken connections, damaged headers and
frames, transient and permanent write errors, crashes of either process.

**AtLeastOnce** is the abstract promise: frames are appended, delivered any number of times in
any order, committed only after delivery; a restart may forget commits. `Delivery!KeepsPromise`
is the refinement (`committed <- acked`, `delivered <- Delivered`).

**Wal** (`wal.go`, `cursor.go`). `Delivery` takes the log as a queue; `Wal` models how it is one.
The disk is `segs` (files by number) and `cpFile`; `cp`, `pending` (`index[acked:]`), `cur`,
`curSeg` and `curOff` are the fields of `WAL`. A file is a sequence of cells: a record counts as
one, and so does a record without the end of its payload (`-seq`) and a stretch of bytes that the
scan takes for no record (`Torn`). The mutex is held
for the whole of an operation, so the stages (`op`) of `AppendBatch` and `commitLocked` are apart
only for the sake of crashes and errors between them; `Append` (the fast path and the relay) takes the same
way with one frame, which it indexes only when it is synced (`grouped = FALSE`):

| op | statement |
|---|---|
| space | `ensureSpace` and `rotate`, or their errors (`RotateFails` leaves a closed `curFile`) |
| write | the two `Write` calls of a record and, for a batch, the index entry, or a write in part |
| sync | the `Sync` of the file open now; the batch is then reported as done (`promised`) |
| clean, cleaned | the loop of `commitLocked`: `os.Remove`, next segment |
| save | `persistLocked` after a removal; the throttled save happens or not |

`Open` is one action, a function of what is on disk: it writes nothing but what a second `Open`
would compute again (removing old segments, cutting a torn tail, creating an empty file). Its index is
the records found, each at its `Rank` in the order of the scan. After
`Crash` the memory variables keep their values, unread, until `Open` sets them. A crash leaves of
the running batch any prefix, with a torn record behind it if one was being written. Four
constants hold back the behaviours of findings 3 to 6 so that the rest can be checked:
`LagAfterRemoval` (a crash or a failed save between removal and save), `WriteBack` (only what the
running batch wrote to the open segment can be lost) and `Leftovers` (what a failed write, or a failed sync of `Append`, leaves behind), `CutPayload` (a crash in the middle of a payload).

**FastPath** (`fastpath.go`). `src` is what the source database holds: for each point (a series and
a timestamp) the version last written. `Write` adds a push, which is lost or dropped (`DropPush`)
or handled by `ServeHTTP`: the append (`ForwardPush`, `ForwardFails`) and the registration in the
deduplication set (`RegisterPush`, with the eviction of old partitions) are two steps, because
calls run at once and the poller filters in between. `carried` is what was ever appended, by
either side; that the log keeps it is `Wal`'s matter.

**Poller** (`poller.go:222-505`). One poll loop, one prefetch goroutine, any number of pushes.
`poll.pc` is where the loop is:

| pc | statement |
|---|---|
| idle | `Run` waits; `Wake` decides the backpressure with its hysteresis |
| begin | `pollOnce`: where the window ends, and whether it is sliced, taken from the prefetch or queried |
| query, slice | `QueryRange` of the window, or `pollSliced`'s of the next slice |
| filter | the next prefetch is launched, the streak and the deduplication set brought up to date, the result filtered |
| append | `appendFrames` |
| cursor | `SetCursor`, and the next slice |

A query is one read of the source at one moment. `slot` is the prefetch; it reads when its
goroutine runs, which may be any time before the loop looks for it. `streak` counts empty or thin
windows only as far as `windowSize` tells them apart. A poll may begin at any time, of which
`PollTrigger` says when it does; a window is read in one step and appended in one, which `PollWindow`
takes apart: a failed append leaves a prefix (by timestamp) in the log, and a point too large for a
frame is skipped. `main.go:154` sets the fast path after the poller has
started, without synchronisation: all it can do is leave a window unfiltered, which is also what an
empty deduplication set does.

**PollTrigger** (`poller.go:175-322`, `signal.go`). `SetPending` is the compare-and-swap of `Notify`,
`ResetTimer` the rest of it, apart because handlers run at once. `timer` is what is left of the
timer, `tick` the value in its channel, `courier` the goroutine that clears the flag and then offers
the token, `token` the channel of one, `loop` the poll loop (`slow` is the five seconds it waits when
degraded), `at` each handler and each goroutine that waits for the watermark. A restart keeps nothing
of this, so there is none. `owed` is auxiliary: why a poll must still begin. `sincePoll` counts only up
to the interval; the timer armed for an hour at the start goes off, in the model, after an interval.

**RangeQuery**, **PollWindow** (`client.go:206-300`, `poller.go:516-789`). A row is a number in the order
of its timestamp; rows may share one and belong to one of several measurements. Every segment is a
record `[from, out, carried, pages, seen, offset]` of `QueryRange`: a full page makes the next one begin at its last
timestamp, an all-equal page reads that timestamp by offsets (`DensePage`). `Missable` are rows an
answer leaves out at the ends of a segment, which is why the code overlaps neighbours by a nanosecond
(`poller.go:519`); `Join` is the merge with its set of rows seen at the boundary. Then the window is
appended: `Stretch` is a part of it with its batch size, `Frame` one frame, `Good` those before the
first that is too large, `Remaining` what is left after it was halved; a failed append ends the window
with an error and leaves the frames before it. Workers that encode frames at once do not show: their
results are taken in order. How long lines and what is sent of them are (`PayloadLen`, `CompressedLen`) is
left open, any size for any frame, except that a point too large by itself makes every frame too large
that carries it (`WindowAssumption`): lines only get longer by what is added, and a point that does not
compress to the limit by itself does not do so among others.

**SchemaCache** (`client.go:372-475`). One measurement, any number of queries. `flying` is the entry of
`schemaFlights`; `call[q].pc` is `wait` on its channel, `tags` and `fields` for the two SHOW statements,
either of which may fail, `publish` the section under the lock, `woken` after the channel was closed and
before the second look into the cache. `degraded` is the entry left by a failure, with its shorter
time to live. `used` is what was known to the last rows a query converted.

**OldestData**, **Backfill** (`main.go:60-121`, `cursor.go`, `WAL.ApplyBackfillPolicy`,
`ProbeOldestData`). One start is `Begin` (the clock is read, the configuration may be another one),
`Probe`, `ApplyBackfillPolicy` (cursor and policy saved together), `InitCursor`, and then `Poll`,
which is `Poller` in one step; `Stop` may come anywhere. `Init` is a new installation or one with
the checkpoint of an old version. `owed` is auxiliary: what the documentation says the configured
policies ask for. The two ways of the probe, `OldestByShards` and `OldestByCount` (rounds of
doubled spans, then a bisection), are operators of `OldestData`.

**WalQueue** is the queue `first .. next - 1`: append, report, commit, and a restart that may bring
back committed frames and drop unreported ones, and never gives a promised or committed seq to
another frame. `Wal!KeepsQueue` is the refinement.

Operators named `Buggy...` are mutated forms of the definition below them; no specification uses
them. They show that the property they are paired with can fail.

## 3. Runs

| Run | Question | Result |
|---|---|---|
| `receiver` | Do concurrent calls on any seqs in any order (copies of one seq included), with failures, relay and restarts, ever vouch for a frame that is not safe? | never, 4.2 M states |
| `stop_and_wait` | Does the default configuration (window 1, zstd) keep the promise, deliver in order, align ACKs and drain? | yes, 0.35 M states |
| `pipeline` | Does go-back-N with gzip, when no write fails after the first of a round, and does last_seq keep up? | yes, 0.55 M states |
| `pipeline_zstd` | ... with zstd frames? | **no** (finding 1) |
| `poller` | Do growing, sliced and prefetched windows ever pass a point that the log lacks, and does every point get there, over failed queries, appends and saves, lost pushes, a full disk, restarts? | never; yes; 0.6 M states |
| `backfill` | Does the start keep to what was configured, over changes of the policy, upgrades, stops? | yes, 0.1 M states |
| `backfill_shards_refused` | ... when the shard groups may not be listed? | **no** (finding 8) |
| `wal` | Does the log keep each promised frame until it is committed, over crashes, failures, rotation and removal, and is it the queue `Delivery` takes it for? | yes, 0.18 M states |
| `poll_trigger` | Whatever handlers, timer, goroutines and loop do at once, is a signal, or a window cut short, ever forgotten, and does the poll begin without the ticker? | never; it does; 0.13 M states |
| `poll_window` | Does a window of one measurement come out of pages, dense timestamps, segments and halved frames with every row once and in order, and does it come to an end? | yes, 51 000 states |
| `poll_window_series` | ... with two measurements? | **no** (finding 10) |
| `schema` | Do queries that share discoveries ever discover twice, wait for nothing, or forget a column when one discovery fails, and are all columns known in the end? | never; yes; 0.34 M states |

Several findings below have no run of their own; each names the setting with which TLC finds it.

Properties and the code they are about:

- Each module has a type invariant (`TypeOK`, `ReceiverTypeOK`); the runs `receiver`, `stop_and_wait`,
  `poller` and `backfill` check theirs, those of `PollTrigger`, `PollWindow`, `SchemaCache` and `Wal`
  are proved.
- `PrefixDelivered`: `lastSeq`, the tracker and the file cover only delivered frames. It can only
  fail by an interleaving of at least two calls, a gap closed wrongly, or a jump.
- `ConfirmedDelivered`, `CommittedDelivered`: 0xff, and leaving the WAL, mean delivered.
- `InflightExact`: the counts `tryCloseGap` reads are exactly the registered calls.
- `CoveredRelayed`: what `lastSeq` covers was offered to the relay, or is poison.
- `AckAligned`: the 0xff the sender takes for a frame was written for that frame.
- `DeliveredInOrder`, `HeadAuthority`: stop-and-wait never has a frame on its way, on any
  connection, before all older ones are delivered; this is what makes "first frame of a
  connection = head of the WAL" enough to close a gap.
- `CommittedTracked`: what is committed over a live connection is below the tracker's `last` or in its
  `pending`, without a gap, so a restart with an old `last_seq` file does not freeze duplicate detection.
  It does not say that `last` itself has followed: `closeGap` (`receiver.go:417-428`) does not drain. When the
  late head frame of an abandoned connection closes a gap below a frame that is pending already, that frame
  may be confirmed and committed while `last` is still behind it, until the next `done` drains it (seen
  with three calls and two faults).
- `KeepsPromise`: every step of the system is a step of `AtLeastOnce` or changes nothing there.
- `Drained`: once faults stop, everything appended is committed for good.
- `KeptUntilCommitted`: a frame whose append was reported as done is in the queue until it is
  committed. Several crashes, an old checkpoint and a removal have to work together to break it.
- `NextFresh`: no committed seq is given again; the receiver would confirm the new frame unwritten.
- `NoHoles`: the queue is consecutive up to the next seq, whatever the scan skipped or cut.
- `EntriesReadable`: the index and the files agree, so `Peek` returns the frame it names.
- `KeepsQueue`: all of that step by step, restarts included.
- `NoPointSkipped`: below the cursor the log has every point in the version the source holds.
- `FilteredForwarded`: the poller leaves out only points that are in the log already.
- `PrefetchComplete`: a window that was read ahead is not written to afterwards.
- `AllCarried`: no failure, pause or abandoned prefetch stops the cursor for good.
- `NoSignalLost`: until a poll has begun after a signal, the timer runs or will be set, a tick or a token
  is under way, or the loop waits in its degraded state; only a paused loop drops signals.
- `NoWindowForgotten`, `OneSleeper`: after a window cut short somebody sleeps, notifies or polls, and
  sleepers do not pile up, although the flag is cleared before `Notify` is called.
- `Answered`: and the poll does begin, though no ticker helps.
- `WindowExact`: a window has exactly the rows of the source, in the order of time.
- `FramesInOrder`: the log gets each point once, in order, in frames that fit; a failure leaves a prefix.
- `Ends`: pages, offsets and halves always get further.
- `NothingMissing`: the part of `WindowExact` that `QueryRange` promises for several measurements.
- `SingleFlight`: one discovery at a time, and who waits waits for one that runs.
- `KeepsKnown`: a complete entry is not replaced by one that knows less.
- `Learned`: in the end no query guesses a column, and nobody waits for ever.
- `AskedCarried`: the cursor leaves behind nothing that the configuration asked for.
- `RewindOnce`: only a recorded change of the policy moves it back, an upgrade never.
- `AskedArrives`: what was asked for gets into the log in the end.

### Bounds

- `MaxSeq = LastFrame` = 2 or 3 frames. Two give every order of a pair, three a gap of two frames
  below a third; in `receiver` three frames with `JumpLimit = 3` and `PendingLimit = 1` also reach
  the overflow rule. In the delivery runs the limits are out of reach, as in the code.
- `Calls` = 2 concurrent calls (3 in `pipeline_zstd`), `Slots` = 2 connections: the present one
  and one abandoned; a copy of a frame needs one of each. A third only adds further copies.
- `MaxFaults` = 2 (1 for the pipeline): enough for "crash, then a failed write" and "timeout, then
  a late answer". It is also why `Drained` can be asked: faults end.
- `MayReject = {2}`: frame 2 may be poison, frame 1 not, so both kinds meet in every order.
- `LateSendFails = FALSE` in `pipeline` excludes exactly finding 2; `Codec = "gzip"` exactly
  finding 1.
- `MaxInflight` = 2 so that the reader does wait for its window.
- `wal`: 5 frames in segments of 2 and batches of up to 2, so that a batch starts in one segment
  and ends in the next, whole segments are removed with one half confirmed behind them, and the log
  empties and starts again; 3 faults: a failure, a crash, and a crash after that. `LastSegment = 8`
  is never reached. Between appends nothing else is bounded.
- `poller`: three points at the times 1, 3, 3 (two must be skipped or kept together, one of them is
  too large for a frame) and a clock up to 6, so that windows of 1, 2 and 4 occur, and with them
  plain, prefetched and sliced ones; two failures. Points are written once here
  (`MaxVersion = 1`) and at most `Lateness = Watermark` late, which is what the watermark is for; a
  point that comes later than that is lost by design.
- `poll_trigger`: two handlers, so that one finds the flag set by the other before its timer is; two
  wakers, one asleep and one between the flag and `Notify`; an interval of 2, so that the timer may run
  for the whole of it, a part, or not at all; a watermark of 1.
- `poll_window`: 5 rows at any times of 0 .. 4, the last of them outside (`Init` has every placement), pages of 2 and dense pages of
  4, so that a page ends inside a timestamp, a timestamp fills two pages, and one is denser than a dense
  page; two segments that meet at time 2, one of which may fail; batches of 4 rows for frames
  of 4 units before and 3 after compression (rows of one weight cost as much as one of them), one row
  too heavy by itself: either limit alone refuses some frame, and halving goes down to single rows.
  `poll_window_series`: 4 rows, two measurements, one segment.
- `schema`: three queries (one discovers, one waits, one was woken), three columns of which one is a tag,
  two failed requests or cancelled waits.
- `backfill`: data at two ages with an empty stretch of more than a window between, two bounded
  policies of which one reaches only the younger data, three starts with any policies, and a clock
  that runs on for three ticks. `Hour = 1` and `Shard = 4` put several doublings and
  several shard groups into the history.
- No run constrains states otherwise. `receiver` and `pipeline_zstd` use symmetry; the runs
  with liveness do not.

### Fairness

Weak fairness of the sender's loop, of every connection's reader and writer, and of every running
call: each is a goroutine that the Go scheduler runs when it can. Faults, `AppendFrame` and
heartbeats have no fairness. Writes succeed in the end because failures are faults and faults are
finite; nothing stronger is assumed of the database or of the link. In `Poller` the clock, the poll
loop and the prefetch goroutine are fair, the timer of `Run` being what makes the loop go on; in
`Backfill` the clock and the process, which its service manager starts again. In `PollTrigger` the clock,
the runtime's timer and every goroutine are fair, the ticker and the handlers are not. In `PollWindow` the
query and the loop are. In `SchemaCache` the calls and the clock are weakly fair, and `Read` strongly: an
entry lives for 30 seconds at least and a query comes every few, so a query does not find it expired
each time; without it, a woken query could look only when the entry is stale again, for ever. Writes to the source,
pushes, faults and stops are not. Deadlock is checked in every run but the two of
`PollWindow`, whose one window ends: an idle system can always send a heartbeat, save its cursor, poll a
window that is not there yet, or let time pass.

## 4. Findings

1. `tcp_server.go:238` counts only `TypeData` frames for the frame index, although the comment at
   `tcp_server.go:27-29` says data frames. With zstd, the default codec, every frame has index 0,
   and with `pipeline_window > 1` the handler of frame k+1 may close the gap over frame k before
   k is registered or after k failed; k is then confirmed as a duplicate and leaves the WAL
   unwritten. No fault is needed. The default window of 1 is not exposed.
2. (No run: `pipeline` with `LateSendFails = TRUE`, two frames, three calls and two faults violates
   `CommittedDelivered`.) `sender.go:230` goes on, after a failed send in the middle of a round, from the frame that
   failed. The frames sent before it are unanswered and still in the WAL, so the new connection
   does not start with the head of the WAL, against `receiver.go:44` and `docs/protocol.md:66`;
   the receiver closes the gap over them.
3. (No run: `wal` with `LagAfterRemoval = TRUE` violates `NextFresh`.) `wal.go:592` removes a fully confirmed segment before `wal.go:616` saves the checkpoint, and
   `docs/architecture.md:74` says that a lagging checkpoint loses nothing. If it was the only
   segment, a restart finds no record and the old `next_seq`: seqs that were committed since that
   save are given to new frames, which the receiver confirms as duplicates. A checkpoint on disk
   with an offset then applies to the new file of the same number, too: with two crashes
   `KeptUntilCommitted` fails as well, or `Open` refuses at a torn record for good.
4. (No run: `wal` with `WriteBack = FALSE` violates `KeptUntilCommitted`.) `ensureSpace` closes a full segment without a sync (`wal.go:502`), `AppendBatch` syncs only the
   file open at its end (`wal.go:459`). Frames of a batch that rolls over may be lost with the
   power after the batch was reported and the cursor moved, against `docs/architecture.md:152`.
5. (No run: `wal` with `Leftovers <- Partial` violates `EntriesReadable`.) A write that fails half way (`wal.go:447`, `450`) leaves the file longer than `curOffset`. With
   `O_APPEND` the next record starts behind the leftover, but is indexed before it (against
   `wal.go:46`); `Peek` returns bytes that are no frame until the log is opened again. A failed sync of `Append` (`wal.go:407`) leaves a
   whole record that is not indexed, with the same effect, and its seq is given again.
6. (No run: `wal` with `CutPayload = TRUE` violates `KeptUntilCommitted`.) `indexSegment` (`wal.go:287`) checks that a record's head and 24-byte frame header are there, not
   that its payload is, against `wal.go:221-223` and `docs/architecture.md:75`. A record cut in its
   payload is indexed and blocks the head of the queue; at the next `Open` the scan goes on in the
   middle of the frame appended behind it and cuts that frame off, after its append was reported.
7. (No run: `poller` with `MaxVersion = 2` violates `NoPointSkipped` and `LostPushCovered`.) The key of the
   deduplication set is series and timestamp (`fastpath.go:245`). If a point is
   written again with another field or value and that push is lost, the poller finds the new version
   and filters it out, against `docs/a4-fast-path.md:54-60` ("no direction in which data is lost").
8. When `SHOW SHARD GROUPS` is refused, `oldestByCountBinary` answers the present: its bisection
   (`client.go:839`) moves the wrong end. All data counted lies after `lo`, the oldest of it in the
   first half (the last but one doubling found less), so the first `mid` and every later one counts
   less than all, and `lo` runs to `now`. A gap in the data also ends the doublings early, and data
   older than 16 hours counts as none. With `backfill: all` or `Nd` the cursor then starts at the
   present, the policy is recorded as applied, and no history is copied, against
   `docs/configuration.md:201`.
9. (No run: `backfill` with `Answers <- ProbeMayFail` violates `AskedCarried`.) A probe that fails
   altogether has the same effect (`main.go:75-86`): it is logged, and the one rewind is used up.
10. `QueryRange` reads several measurements (`/.*/` by default) in one statement. The answer has one
    series after the other and `LIMIT` holds for each, but a page counts as full when all series together
    have `Limit` rows, and the next page begins at the timestamp of the last row of the last series
    (`client.go:292`). Rows of the other series between their own last row and that timestamp are never
    read, and the cursor passes them, against `client.go:206`. Nor is the result in the order of time.
11. (No run; seen on reading.) The query of a dense timestamp (`client.go:263`) drops the options' tag
    columns and measurements: with `measurements:` configured, rows of others come along.
12. (No run: `schema` with `NeverForgets` as its property violates it.) A failed discovery keeps what was
    known only once: the entry it leaves is degraded, and at the next failure what little was found
    replaces it (`client.go:419-423`), although the comment (`client.go:410`, N8) wants known types kept,
    because a column written with a guessed type makes the target refuse the right one ever after.
13. (No run: `poll_trigger` with `SpacedPolls` as its property violates it.) A signal that comes while a poll
    runs sets the timer by the end of the poll before (`poller.go:179`), so a second poll follows at once:
    the smallest interval of `docs/configuration.md:247` and `poller.go:216` is not kept then. It costs a
    query and loses nothing.

## 5. Proofs

TLAPS checks these for every value of the constants.

Operators of `SeqTracker`, in `ReceiverProofs`: `RunEndSpec` (the drain loop's end exists, lies in `last .. N`, everything up
to it is completed and the next is not), `CloseGapSpec` and `DoneSpec` (`last` never moves back
and moves only over frames that are done, given, for a jump, that those below it are). The least
element that `RunEnd` needs comes from well-foundedness of `<` on Nat (`LeastNatural`).

The rest of `ReceiverProofs`: `ReceiverTypeOK` and `InflightExact` are invariants of `ReceiverSpec`, for any finite
set of calls, any `MaxSeq`, `JumpLimit` and `PendingLimit`, any `MayReject`, with relay or without.
`PrefixDelivered`, `ConfirmedDelivered` and `CoveredRelayed` are invariants of the behaviours with
`[]NoJump`: no frame completes more than `JumpLimit` above what the tracker vouches for. The hypothesis
is needed, a jump covers frames nobody handled (the hazard at `receiver.go:437`), and the receiver alone
cannot meet it: which seqs it is called with is the sender's doing (see the composed system below).

`LastSeqFileBehind` needs no condition: the `last_seq` file is never ahead of `lastSeq`, nor that of the
tracker, although calls save values they loaded earlier and a later save may put an older value back.
It is inductive with `SavesBehind`: what a call may still write was `lastSeq` once.

None of the properties is inductive. `ReceiverInv` adds

- `Vouched`: not only `lastSeq` but also the tracker's `last` and `pending` and the file cover
  settled frames, where `Settled` is "delivered and, with a relay, offered to it"; one notion
  carries both `PrefixDelivered` and `CoveredRelayed`;
- `CallKnows`: what each stage of a call knows (at `relay` the frame is stored, from `mark` on it
  is settled, what `save` is about to write covers settled frames, a positive answer is about a
  settled frame);
- `Authorised`: a call that may close a gap (the first of its connection) has nothing unsettled below it.

`MoveInv` shows once that a step of one call keeps the invariant if what it publishes is settled
(nothing settled is ever lost, other calls keep their records); `CallStepInv` has one case per
action, and needs that what the step jumps over, if it jumps, is settled (`SafeJump`). `Authorised` is a condition on
how the receiver is used: in `ReceiverSpec` it is the guard of `StartCall`, in `Delivery` it is proved (below).
`InflightExact` is proved on top of `ReceiverInv`, with the finite-set theorems for "one more" and
"one less".

`DeliveryProofs` is about the composed system, for any number of frames, connections, calls and
faults, in both modes.

- Stop-and-wait (`Pipeline = 1`, the default window), either codec, any tracker limits: `TypeOK`,
  `CommittedDelivered`, `AckAligned`, `HeadAuthority`, `PrefixDelivered` and `DeliveredInOrder` are
  invariants of `Spec`, and `Spec => KeepsPromise`: it refines `AtLeastOnce`. No bound on jumps is
  needed here: the frames a jump passes over are delivered.
- Go-back-N with a window of any size, when frames are gzip and no write fails after the first of a
  round: `TypeOK`, `CommittedDelivered`, `AckAligned` and `PrefixDelivered` are invariants of the
  behaviours with `[]NoJump`, and these refine `AtLeastOnce`. `PipelineNeverJumps` says when
  `[]NoJump` holds (below: not always). Each of the three hypotheses excludes one known
  defect, without it TLC finds the promise broken: zstd frames (finding 1, run `pipeline_zstd`), late
  send failures (finding 2), jumps (the hazard at `receiver.go:437`). `HeadAuthority` and
  `DeliveredInOrder` are promises of stop-and-wait and false here: frames of one window overtake each
  other.

One invariant carries both modes (`Orderly` is what they share). `DeliveryInv` is `ReceiverInv` and

- `LoopInv`: the window of a round is the run of frames that follows the head of the WAL, from the
  first whose response is still to come, and `conn` is a connection;
- `SlotInv`: an end the server has closed holds no frame and no call, and only the sender's connection
  holds responses: nothing of an abandoned connection can be met on a new one;
- `ConnInv`: on the sender's connection the responses, the running calls and the wire, in a row, are
  the frames sent and not yet answered, in the order of the window, so that the i-th response is the
  one to the i-th frame (`AckRow`, `CallRow`, `WireRow`); all of them are there while the server's end is
  open, a prefix once it is closed (`Counts`). Responses read shift the row by one, and a frame read by the
  server moves over the border between two parts of it;
- `Uncounted`: as long as the server has counted no data frame on it, all that was sent is unread, so the
  frame it takes for the first is the first of the round;
- `OrderInv`: no call is awaited twice, none that is awaited is free;
- `CarriedInv`: every frame on a wire or in a call was appended; the first unread frame of a
  connection without counted frames, abandoned ones included, is `Sendable` (everything below it is
  settled), and in stop-and-wait every frame is. `Sendable` only grows, so late copies stay sendable;
  this is what `ReadFrame` needs for `Authorised`;
- `ConfirmedInv`: every positive answer and every committed frame is settled.

`CommittedTracked` holds in both modes when the retry of a refused head frame may close a gap (`RetryLeads`:
zstd in stop-and-wait, gzip in go-back-N; with gzip in stop-and-wait the retry is the second frame of its
connection, may not, and the property fails with two faults), in the behaviours where no frame is beyond the
tracker's limits (`[]Near`: no call is more than `JumpLimit` ahead of the tracker, fewer than `PendingLimit`
frames are pending, and the commits are tracked or less than `JumpLimit` ahead of `last_seq`).
It is an action property about what earlier steps left behind, and `CoverInv` says what that is:

- `AcksCovered`: the responses on the sender's connection are about tracked frames, and when the first of
  them is positive everything committed is tracked; unless the receiver has restarted since, then the
  connection is dead and nothing is on its way (`Lost`);
- `Below`: as soon as the server has counted a frame of the connection, everything committed is tracked or the
  head frame is still in the calls or was refused (`HeadOpen`), and then the sender commits nothing;
- `Behind`: a committed frame is on its way a second time only if all that is committed is tracked, so that
  a late call never closes a gap over frames nobody counted;
- `InflightExact`, because `tryCloseGap` reads the counts.

What the tracker knows it never forgets but by a restart (`DoneTracks`, `CloseGapTracks`), and what a first
frame has passed is tracked below it (`FirstCall`). TLC checked `CoverInv` on both instances first.

Neither `[]NoJump` nor `[]Near` holds of every behaviour. In these settings only one step can break them: a restart of the
receiver takes the tracker back to the `last_seq` file while the sender goes on from its own checkpoint.
`FilesKeepUp(Lag)` is a condition on that step alone: at each restart of the receiver the commits and two windows
are at most `Lag` beyond the file. Under it, and with no bound on the seqs, `FramesStayNear` proves `[]Near`
where `RetryLeads` holds, and `PipelineNeverJumps` `[]NoJump` in go-back-N, for any `Lag` that holds a window and fits twice into
the limits (`LagFits`; with the code's 100000 and 65536, up to 32767). The condition is not proved
of the system, and the code does not guarantee it: the file is saved at most once a second, a failed save is
only logged (receiver.go:331-345), and a lost file counts as 0. When it fails in go-back-N, a jump may happen
(the hazard at `receiver.go:437`). The invariant is `ReachInv`, on top of `DeliveryInv` and `CoverInv`:

- `FramesNear`: of what is on its way or was done out of order, the frames more than `Lag` below are tracked;
- `RunsNear`: the run of tracked frames that begins at the tracker's `last` is at most `Lag` long. The drain keeps
  it short; a run may be there at all because `tryCloseGap` moves `last` without draining;
- `CommitsNear`: the commits and a window are within `Lag` of `last_seq` (`Late`), or all the commits
  are tracked (`Known`). Both also speak of responses that were positive before the receiver restarted and
  that the sender still reads (`Unread`): it commits them with no receiver behind them.

A frame is sent at most a window beyond the commits. If these are tracked (`Known`) it is near the run, if not it is
near `last_seq` with them (`Late`). A gap that is closed leaves a short run because the frames pending were near
the run before (`CloseGapRun`), and so does a frame that is done (`DoneRun`). A frame on its way is then at most
twice `Lag` beyond `last`: once for the run, once beyond it. After a restart `KeepsUp` gives `Late`; the
second window is for the commits that are still to be read.

The lemmas `DialKeeps`, `PutKeeps`, `HangupKeeps` and `TakeKeeps` say what the link's operations do
to this, `SenderMove` and `ServerMove` what a step of a side must show, `CallStepEffect` that a
call delivers its own frame or nothing; then there is one lemma per action. `StepEffect` sorts the
steps into those that are silent, deliver an appended frame, append, commit or forget, which gives
the refinement and the order.

`BackfillProofs`: `TypeOK`, `AskedCarried` and `RewindOnce`, for any history, clock, windows,
bounded policies, old checkpoints and number of starts. The hypothesis `ProbeAnswered` (shard
groups are listed, the database is not empty, nothing is as old as the shard group of 1970 whose
start is 0) is needed: findings 8 and 9 are what happens without it. `AskedCarried` is not
inductive: `BackfillInv` adds `StartKnows`, that from the probe on its answer is not after any
data, and that a first cursor still to be saved leaves out nothing that is asked for; and
`HistoryKept`. `ShardsFindOldest` is the lemma about the probe, `BoundaryKnown` about the boundary
computed from it, `AppliedCursor` about what recording a policy may do to the cursor.

`PollerProofs`: `TypeOK`, `NoPointSkipped`, `FilteredForwarded` and `PrefetchComplete`, for any points,
timestamps, windows, caps, retention, clock and number of faults. The hypothesis `SourceOnTime` says that
points are written once and at most a watermark late: finding 7, and the loss by design of points that
come later, are what happens without it. `NoPointSkipped` is not inductive: `PollerInv` adds what each
stage of a poll knows of its window (`PollKnows`: it begins at the cursor, it ends in the past, at `filter`
the result is complete, at `append` what it lacks is in the log, at `cursor` all of it is), that of the
prefetch (`SlotKnows`) and that of a push between its append and its registration (`PathKnows`). `Closed` is
the notion that carries it: before a closed time nothing is written any more (`AroundPoll`). That the
streak stays below `WindowCap` rests on `n < 2^n` and is left out: `TypeOK` says only that it is a
natural number, and no other part needs more.

`PollTriggerProofs`: `TypeOK`, `NoSignalLost`, `NoWindowForgotten` and `OneSleeper`, for any number of
handlers and wakers, any interval and watermark. `TriggerInv` adds `FlagHasTimer` (while the flag is set, so
that other signals are merged, the timer is set or about to be, or has gone off and the flag will be cleared),
`FlagHasSleeper` (the flag of the wakeup is set exactly as long as one goroutine sleeps) and
`WindowIsLast` (the window owed is the last poll's).

`SchemaCacheProofs`: `TypeOK`, `SingleFlight` and `KeepsKnown`, for any number of queries and faults, any columns,
tags configured or discovered. `SchemaInv` adds `Learnt`: a discovery that has not failed knows at each stage
at least what the cache does, which holds because nobody else publishes meanwhile.

`WalProofs`, in two layers. `WalInv` needs `CleanCuts` only: no crash cuts a record in its payload and no failed
append leaves bytes behind (findings 6 and 5 are what happens otherwise). From it follow `TypeOK` and
`EntriesReadable`, for any segment size, batch size, number of faults, with anything unsynced lost and with
a checkpoint as old as it may be. Its parts are `FilesInv` (the files are those from `cp.start` to the one
written to), `CellsInv` (they hold records, the last cell of one may be torn only while the log is closed),
`StageInv` (what each stage of an append knows), `TailInv` (`curOff` is the end of the file) and `IndexInv` (the
index is readable and in the order of the files).

The other properties need `Durable` as well: only records of the running batch can be lost, and the
checkpoint is saved in one step with the removal (findings 4 and 3). `NoHoles`, `NextFresh`,
`KeptUntilCommitted` and the refinement `KeepsQueue` follow from `LogInv`. Its idea is to number the cells through
all segments (`Place`), so that a seq and a place differ by a constant (`SeqOf`): `ChainInv` says that of the
files, over the ends of the segments, `QueueInv` of the index, `SavedInv` that the checkpoint on disk calls nothing
confirmed that is not, `BatchInv` that seqs from some `b` on belong to the running batch and neither a caller
nor the checkpoint has heard of them, `RestInv` that a crash leaves all records below that `b`. What a crash
can lose is bounded by a cardinality (`CrashLog`); what `Open` finds is counted by a bijection between
entries and places (`OpenPlaces`, `OpenCount`), from which `OpenGives` reads off the new index, next seq and end.
In the refinement an indexed record is `AppendFrame`, the fsync of a batch `ReportDone`, `Commit` is `Commit`, `Open`
is `Restart`, and every other step, a crash too, is not seen. TLC checked `WalInv` and `LogInv` on the
instance of `wal` (and `WalInv` with all that may be lost there) before they were proved.

`PollWindowProofs` proves `FramesInOrder`, `WindowExact` and `TypeOK`, for any number of rows at any times, any
window, page size, factor for dense pages, number of segments, page limit, batch size and frame sizes.

- `FramesInOrder` holds with any number of measurements. `FrameInv` says it of the stage where frames are
  appended: `Chain` (what is left to do is the rest of the window, stretch by stretch, each within its batch
  size) and `LoggedTo` (the log is what can be sent of the window up to where that begins). `FramesCarry` and
  `RestOfStretch` show it for the good frames of a stretch and for the halves of a bad one.
- `WindowExact` has the hypothesis `Measurements = {1}`: with more than one it is false (`poll_window_series`). Per
  segment, `SegOK` says how far it is read: what it has is an initial part of what it holds, in order
  (`Covers`); a page that begins at a timestamp has read everything before it and carries the rows of it that
  were read (`PageOK`); at a dense timestamp nothing in front of the offset is unread (`DenseOK`); a segment that
  is done has all (`DoneOK`). A row may only be read twice at such a timestamp, and the carried rows or the rows
  seen are the ones left out. `JoinOrdered` is the merge: all that is at the boundary in the one segment is
  its tail, in the other its head. `HeldTogether` is the reason for the overlap: what a segment
  leaves out at its first nanosecond the segment before holds.
- `WindowTypeCorrect`: pages begin inside their segment and are counted down to zero at most, whatever the answers.

These modules compute with sequences. What the folds of the library give (`FlattenSeq`, the filter `Only`, `SelectInSeq`)
is characterised by recursive functions, and facts about them are proved by induction over lengths, with
the property as a set (`Induction`, from the least element).

Only model-checked: liveness (`Drained`, `AllCarried`, `AskedArrives`, `Answered`, `Ends`, `Learned`), which with
fairness is out of the prover's reach, and the three runs that expect a violation.

## 6. Plan

The poller's trigger, the reading of a window, `Append` and the schema cache of the first plan are done.
What is left, in this order:

1. **Wal**: whether appends ever succeed again after `RotateFails` (they do not before a restart).
2. **Order of versions**: the order in which versions of a point get into the log and, at the receiver,
   into the database (hazards at `fastpath.go:323` and `receiver.go:166`).
3. **Relay**: two deliveries in a row, `CoveredRelayed` as the interface.

## 7. Simplifications that matter

- A frame is its seq; two frames never share a point. That an old copy written late may overwrite
  a newer value of the same point (receiver.go:166) is therefore not seen by these modules.
- Records of the log have one length, so what is missing of a record cut in its payload ends inside
  the next one. Damage inside a payload that is complete is not modelled (the receiver's CRC).
- The `last_seq` and checkpoint files are written atomically (write to a temporary file, rename);
  the loss of a rename or of a directory entry in a power failure is not modelled.
- Back-off, retry counters, warning throttles and metrics change no state that another step
  reads, and are left out.
- `Poller` reads a window in one step: the window ends a watermark before the clock, so nothing is
  written into it while it is read, and `PollWindow` shows that pages and segments come to the same. Time is
  counted in seconds, as in the partitions of the deduplication set.
- In `PollWindow` rows keep their identity: with a degraded schema the key of a row lacks its unknown tags,
  and `client.go:273` would take two series at one dense timestamp for one. The abort beyond 10 million rows
  of one timestamp (`client.go:284`) is left out. So is a point that cannot be turned into line protocol, which
  fails its window each time.
- `SchemaCache` has one measurement; flights of different ones do not meet.
- A gap beyond `JumpLimit` with several frames in flight (receiver.go:437) is listed as a hazard;
  no delivery run reaches it, and the proofs exclude it by the hypothesis `NoJump` (section 5: it takes a
  restart with a `last_seq` file far behind). `pipeline` with `JumpLimit = 2`, five frames and two faults
  violates `CommittedDelivered`.

## 8. Not modelled

Byte layout, CRC, compression and line-protocol text (character-level, stateless); YAML
configuration (its values are the CONSTANTS); metrics and logging (write-only); HTTP and JSON
(pure I/O); `MoveToDLQ` (no caller) and the directory lock of the WAL; the load generators and the delay proxy
under `bench/` (not part of the system).
