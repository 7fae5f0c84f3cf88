------------------------------ MODULE Backfill ------------------------------
(***************************************************************************)
(* The start of the sender (cmd/sender/main.go): how much history is to be *)
(* copied is configured; the checkpoint records the policy that was last   *)
(* applied, and only a change of it moves the cursor back, once.           *)
(*                                                                         *)
(* The cursor and the policy are the two fields of the checkpoint this is  *)
(* about; they are saved together.  Polling is abstracted to windows that  *)
(* are read, appended and passed in one step: module Poller shows that.    *)
(***************************************************************************)
EXTENDS OldestData

CONSTANTS
    History,        \* timestamps the source holds when the sender is installed
    Today,          \* the time then
    MaxTime,        \* the end of time (a bound)
    Window,         \* length of a polled window
    Watermark,      \* how far behind the clock polling ends
    Durations,      \* bounded backfills that may be configured
    Answers,        \* what the probe may be answered
    LegacyCursors,  \* cursors of an old version's checkpoint
    MaxStarts       \* starts of the process (a bound)

\* The values of checkpoint.BackfillNs.
BackfillNone == 0
BackfillAll == -1
Policies == {BackfillNone, BackfillAll} \cup Durations

ASSUME BackfillAssumption ==
    /\ Today \in Nat /\ MaxTime \in Nat /\ Today <= MaxTime
    /\ IsFiniteSet(History) /\ History \subseteq 1 .. Today - 1
    /\ Window \in Nat \ {0} /\ Watermark \in Nat /\ Watermark < Today
    /\ Durations \subseteq 1 .. Today - 1 /\ LegacyCursors \subseteq 1 .. Today - 1
    /\ Answers \subseteq {"shards", "refused", "nothing"} /\ Answers # {}
    /\ MaxStarts \in Nat

VARIABLES
    now,        \* the clock
    data,       \* timestamps the source holds
    pc,         \* where run() is: "down", "probe", "apply", "init", "up"
    conf,       \* sync.backfill of this start
    started,    \* the time this start has read
    oldest,     \* the probe's result
    cursor,     \* the checkpoint's cursor, 0 when there is none
    policy,     \* the checkpoint's backfill_ns
    legacy,     \* the checkpoint has no such field
    carried,    \* timestamps whose data is in the WAL
    owed,       \* history: timestamps the configuration has asked for
    starts      \* starts so far

checkpoint == <<cursor, policy, legacy>>
vars == <<now, data, pc, conf, started, oldest, checkpoint, carried, owed, starts>>

TypeOK ==
    /\ now \in Today .. MaxTime /\ started \in 0 .. now
    /\ data \subseteq 1 .. MaxTime /\ carried \subseteq data /\ owed \subseteq data
    /\ pc \in {"down", "probe", "apply", "init", "up"}
    /\ conf \in Policies /\ policy \in Policies
    /\ oldest \in 0 .. now /\ cursor \in 0 .. now
    /\ legacy \in BOOLEAN
    /\ starts \in 0 .. MaxStarts
-----------------------------------------------------------------------------
\* A new installation, or one whose checkpoint an old version has written.
Init ==
    /\ now = Today /\ data = History
    /\ pc = "down" /\ conf = BackfillNone /\ started = 0 /\ oldest = 0
    /\ policy = BackfillNone
    /\ \/ cursor = 0 /\ legacy = FALSE
       \/ cursor \in LegacyCursors /\ legacy = TRUE
    /\ carried = {} /\ owed = {}
    /\ starts = 0

\* The clock goes on, and the source may be written to meanwhile.  What is
\* written while a cursor is in force is asked for, whatever the policy.
PassTime ==
    /\ now < MaxTime
    /\ now' = now + 1
    /\ data' \in {data, data \cup {now}}
    /\ owed' = IF cursor = 0 THEN owed ELSE owed \cup (data' \ data)
    /\ UNCHANGED <<pc, conf, started, oldest, checkpoint, carried, starts>>

\* The configuration may be another one at each start.
Begin(c) ==
    /\ pc = "down" /\ starts < MaxStarts
    /\ starts' = starts + 1
    /\ conf' = c /\ started' = now /\ oldest' = 0
    /\ pc' = IF c = BackfillNone THEN "apply" ELSE "probe"
    /\ UNCHANGED <<now, data, checkpoint, carried, owed>>

Probe ==
    /\ pc = "probe"
    /\ \E answer \in Answers : oldest' = ProbeOldestData(answer, data, now)
    /\ pc' = "apply"
    /\ UNCHANGED <<now, data, conf, started, checkpoint, carried, owed, starts>>

\* Where a backfill begins, 0 if that is not known.
Boundary == IF conf = BackfillAll THEN oldest ELSE Max({started - conf, oldest})

Rewinds == conf # BackfillNone /\ Boundary > 0 /\ Boundary < cursor

\* Variant for a mutation: an old checkpoint is treated like any other.
BuggyApplied ==
    /\ cursor' = IF conf # policy /\ Rewinds THEN Boundary ELSE cursor
    /\ policy' = conf
    /\ legacy' = FALSE

\* ApplyBackfillPolicy: the checkpoint it saves.
Applied ==
    /\ cursor' = IF ~legacy /\ conf # policy /\ Rewinds THEN Boundary ELSE cursor
    /\ policy' = conf
    /\ legacy' = FALSE

\* What the documentation says the configuration asks for: all data, or that of
\* the last days; an upgrade, and a start without a change, ask for nothing new.
Asked ==
    LET wanted == {d \in data : conf = BackfillAll \/ (conf # BackfillNone /\ d >= started - conf)}
    IN  IF cursor = 0 THEN wanted
        ELSE IF legacy \/ conf = policy THEN owed
        ELSE owed \cup wanted

ApplyBackfillPolicy ==
    /\ pc = "apply"
    /\ Applied
    /\ owed' = Asked
    /\ pc' = "init"
    /\ UNCHANGED <<now, data, conf, started, oldest, carried, starts>>

\* The first cursor.
BuggyInitialCursor == started + Watermark
InitialCursor ==
    IF conf # BackfillNone /\ Boundary > 0 THEN Boundary ELSE started - Watermark

InitCursor ==
    /\ pc = "init"
    /\ cursor' = IF cursor = 0 THEN InitialCursor ELSE cursor
    /\ pc' = "up"
    /\ UNCHANGED <<now, data, conf, started, oldest, policy, legacy, carried, owed, starts>>

\* The process ends at any point: killed, or because a save failed.  (Closing the
\* log may then save the checkpoint after all: the next step was taken before.)
Stop ==
    /\ pc # "down" /\ starts < MaxStarts
    /\ pc' = "down"
    /\ UNCHANGED <<now, data, conf, started, oldest, checkpoint, carried, owed, starts>>

\* A window, also an empty one, is read, appended and passed.
WindowEnd == Min({cursor + Window, now - Watermark})
InWindow == {d \in data : cursor <= d /\ d < WindowEnd}

\* Variant for a mutation: an empty window is not passed.
BuggyPoll ==
    /\ pc = "up" /\ WindowEnd > cursor
    /\ carried' = carried \cup InWindow
    /\ cursor' = IF InWindow = {} THEN cursor ELSE WindowEnd
    /\ UNCHANGED <<now, data, pc, conf, started, oldest, policy, legacy, owed, starts>>

Poll ==
    /\ pc = "up" /\ WindowEnd > cursor
    /\ carried' = carried \cup InWindow
    /\ cursor' = WindowEnd
    /\ UNCHANGED <<now, data, pc, conf, started, oldest, policy, legacy, owed, starts>>

NoWindow ==
    /\ pc = "up" /\ WindowEnd <= cursor
    /\ UNCHANGED vars

Run ==
    \/ \E c \in Policies : Begin(c)
    \/ Probe \/ ApplyBackfillPolicy \/ InitCursor \/ Poll \/ NoWindow

Next == PassTime \/ Run \/ Stop

Spec == Init /\ [][Next]_vars

\* The clock runs; a sender that is down is started again, and one that is up works.
FairSpec == Spec /\ WF_vars(PassTime) /\ WF_vars(Run)
-----------------------------------------------------------------------------
(***************************************************************************)
(* Properties                                                              *)
(***************************************************************************)
\* The cursor never leaves behind anything the configuration has asked for
\* (docs/configuration.md 5.4, docs/backfill-redesign.md 2): over changes of the
\* policy, upgrades, a stop between the two saves of a start, and the probe.
AskedCarried == \A d \in owed : d < cursor => d \in carried

\* The cursor moves back only in the step that records a change of the policy, and
\* never on an upgrade: a restart does not send history again (wal.go:655-659).
RewindOnce == [][cursor' < cursor => policy' # policy /\ ~legacy]_vars

\* What was asked for gets into the log, empty stretches and restarts notwithstanding.
Reached(d) == d < MaxTime - Watermark => d \in carried
AskedArrives == <>[](\A d \in owed : Reached(d))
=============================================================================
