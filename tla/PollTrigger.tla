---------------------------- MODULE PollTrigger -----------------------------
(***************************************************************************)
(* What makes the poller poll (internal/sender/poller.go, signal.go):      *)
(* Notify with its flag and timer, the goroutine that turns the timer into *)
(* a token for the poll loop, the loop itself, and the goroutines that     *)
(* wake it up after a window was cut short by the watermark.               *)
(*                                                                         *)
(* Time is what is left of the timers and how long ago the last poll       *)
(* ended.  Nothing is done on time: anything may be late, never early.     *)
(***************************************************************************)
EXTENDS Integers, FiniteSets, Backpressure

CONSTANTS
    Handlers,           \* HTTP handlers of signals and pushes, which call Notify
    Wakers,             \* goroutines that wait for the watermark; a bound on their number
    MinSignalInterval,
    Watermark

ASSUME TriggerAssumption ==
    /\ IsFiniteSet(Wakers) /\ Handlers \cap Wakers = {}
    /\ MinSignalInterval \in Nat \ {0} /\ Watermark \in Nat

VARIABLES
    signalPending,      \* the flag: a signal waits for the timer
    timer,              \* what is left of signalTimer, or Off
    tick,               \* the value in signalTimer.C
    courier,            \* the goroutine behind the timer: "wait", "clear", "offer"
    token,              \* the value in signalCh
    at,                 \* where each handler or waker is
    left,               \* what is left of a waker's sleep
    wakeupScheduled,
    loop,               \* the poll loop: "select", "slow", "poll", "stamp", "arm"
    blocked,            \* result of pollOnce
    sincePoll,          \* age of lastPoll, as far as Notify tells it apart
    bp,                 \* state of the backpressure
    owed                \* why a poll must still begin (auxiliary)

timerVars == <<signalPending, timer, tick>>
loopVars == <<loop, blocked, bp>>
wakeVars == <<left, wakeupScheduled>>
vars == <<timerVars, courier, token, at, wakeVars, loopVars, sincePoll, owed>>

Callers == Handlers \cup Wakers
Off == -1

TypeOK ==
    /\ signalPending \in BOOLEAN /\ tick \in BOOLEAN /\ token \in BOOLEAN
    /\ timer \in {Off} \cup 0 .. MinSignalInterval
    /\ courier \in {"wait", "clear", "offer"}
    /\ at \in [Callers -> {"idle", "sleep", "notify", "reset"}]
    /\ \A h \in Handlers : at[h] \in {"idle", "reset"}
    /\ left \in [Wakers -> 0 .. Watermark]
    /\ wakeupScheduled \in BOOLEAN
    /\ loop \in {"select", "slow", "poll", "stamp", "arm"}
    /\ blocked \in BOOLEAN
    /\ sincePoll \in 0 .. MinSignalInterval
    /\ bp \in Pressures
    /\ owed \subseteq {"signal", "window"}
-----------------------------------------------------------------------------
\* NewPoller: the last poll is long ago.  The timer is armed, for an hour in the
\* code, and goes off one day although there was no signal.
Init ==
    /\ signalPending = FALSE /\ timer = MinSignalInterval /\ tick = FALSE
    /\ courier = "wait" /\ token = FALSE
    /\ at = [c \in Callers |-> "idle"]
    /\ left = [w \in Wakers |-> 0] /\ wakeupScheduled = FALSE
    /\ loop = "select" /\ blocked = FALSE /\ bp = "normal"
    /\ sincePoll = MinSignalInterval
    /\ owed = {}

Step(c, stage) == at' = [at EXCEPT ![c] = stage]

(***************************************************************************)
(* Notify                                                                  *)
(***************************************************************************)

\* Variant for a mutation: a signal that finds the loop polling is dropped.
BuggySetPending(c) ==
    /\ signalPending' = (signalPending \/ loop # "poll")
    /\ Step(c, IF signalPending \/ loop = "poll" THEN "idle" ELSE "reset")
    /\ owed' = owed \cup {"signal"}

\* The compare-and-swap of the flag; a signal that finds it set is merged.
SetPending(c) ==
    /\ signalPending' = TRUE
    /\ Step(c, IF signalPending THEN "idle" ELSE "reset")
    /\ owed' = owed \cup {"signal"}

\* A write to the source is pushed, and its handler calls Notify.
Signal(h) ==
    /\ at[h] = "idle"
    /\ SetPending(h)
    /\ UNCHANGED <<timer, tick, courier, token, wakeVars, loopVars, sincePoll>>

\* The timer is set to what is left of the interval since the last poll.
ResetTimer(c) ==
    /\ at[c] = "reset"
    /\ timer' = MinSignalInterval - sincePoll
    /\ Step(c, "idle")
    /\ UNCHANGED <<signalPending, tick, courier, token, wakeVars, loopVars, sincePoll, owed>>

(***************************************************************************)
(* The timer and the goroutine behind it                                   *)
(***************************************************************************)

\* The runtime puts a value into the channel of the timer, if there is room.
Fire ==
    /\ timer = 0
    /\ timer' = Off /\ tick' = TRUE
    /\ UNCHANGED <<signalPending, courier, token, at, wakeVars, loopVars, sincePoll, owed>>

ReceiveTick ==
    /\ courier = "wait" /\ tick
    /\ tick' = FALSE
    /\ courier' = "clear"
    /\ UNCHANGED <<signalPending, timer, token, at, wakeVars, loopVars, sincePoll, owed>>

ClearPending ==
    /\ courier = "clear"
    /\ signalPending' = FALSE
    /\ courier' = "offer"
    /\ UNCHANGED <<timer, tick, token, at, wakeVars, loopVars, sincePoll, owed>>

\* Not blocking: a token that is there already stands for this signal, too.
OfferToken ==
    /\ courier = "offer"
    /\ token' = TRUE
    /\ courier' = "wait"
    /\ UNCHANGED <<timerVars, at, wakeVars, loopVars, sincePoll, owed>>

(***************************************************************************)
(* The poll loop                                                           *)
(***************************************************************************)
BeginPoll == loop' = "poll" /\ owed' = {}

\* What the loop does with a trigger depends on the backpressure: a paused
\* loop drops it, a degraded one waits for five seconds.
Triggered ==
    \E usage \in Usages :
        /\ bp' = NextPressure(bp, usage)
        /\ \/ bp' = "paused" /\ UNCHANGED <<loop, owed>>
           \/ bp' = "degraded" /\ loop' = "slow" /\ UNCHANGED owed
           \/ bp' = "normal" /\ BeginPoll
        /\ UNCHANGED <<timerVars, courier, at, wakeVars, blocked, sincePoll>>

TakeToken ==
    /\ loop = "select" /\ token
    /\ token' = FALSE
    /\ Triggered

\* The ticker, which the properties below do not rely on.
Tick ==
    /\ loop = "select"
    /\ Triggered
    /\ UNCHANGED token

\* Variant for a mutation: a signal that comes meanwhile starts the wait anew.
BuggySlowEnds ==
    /\ loop = "slow"
    /\ token' = FALSE
    /\ IF token THEN UNCHANGED <<loop, owed>> ELSE BeginPoll
    /\ UNCHANGED <<timerVars, courier, at, wakeVars, blocked, bp, sincePoll>>

SlowEnds ==
    /\ loop = "slow"
    /\ BeginPoll
    /\ UNCHANGED <<timerVars, courier, token, at, wakeVars, blocked, bp, sincePoll>>

\* pollOnce returns whether the watermark has cut the window short.
PollEnds(cut) ==
    /\ loop = "poll"
    /\ blocked' = cut
    /\ loop' = "stamp"
    /\ owed' = IF cut THEN owed \cup {"window"} ELSE owed
    /\ UNCHANGED <<timerVars, courier, token, at, wakeVars, bp, sincePoll>>

StoreLastPoll ==
    /\ loop = "stamp"
    /\ sincePoll' = 0
    /\ loop' = IF blocked THEN "arm" ELSE "select"
    /\ UNCHANGED <<timerVars, courier, token, at, wakeVars, blocked, bp, owed>>

\* Variant for a mutation: every poll that was cut short starts a sleeper.
BuggyScheduleWakeup ==
    /\ loop = "arm"
    /\ wakeupScheduled' = TRUE
    /\ \E w \in Wakers :
          /\ at[w] = "idle"
          /\ Step(w, "sleep")
          /\ left' = [left EXCEPT ![w] = Watermark]
    /\ loop' = "select"
    /\ UNCHANGED <<timerVars, courier, token, blocked, bp, sincePoll, owed>>

\* One sleeper at a time, which calls Notify when it wakes up.
ScheduleWakeup ==
    /\ loop = "arm"
    /\ wakeupScheduled' = TRUE
    /\ \/ wakeupScheduled /\ UNCHANGED <<at, left>>
       \/ ~wakeupScheduled
          /\ \E w \in Wakers :
                /\ at[w] = "idle"
                /\ Step(w, "sleep")
                /\ left' = [left EXCEPT ![w] = Watermark]
    /\ loop' = "select"
    /\ UNCHANGED <<timerVars, courier, token, blocked, bp, sincePoll, owed>>

(***************************************************************************)
(* The goroutine that waits for the watermark                              *)
(***************************************************************************)
\* Variant for a mutation: the sleeper leaves the flag set.
BuggyWakeUp(w) ==
    /\ at[w] = "sleep" /\ left[w] = 0
    /\ UNCHANGED wakeupScheduled
    /\ Step(w, "notify")
    /\ UNCHANGED <<timerVars, courier, token, left, loopVars, sincePoll, owed>>

WakeUp(w) ==
    /\ at[w] = "sleep" /\ left[w] = 0
    /\ wakeupScheduled' = FALSE
    /\ Step(w, "notify")
    /\ UNCHANGED <<timerVars, courier, token, left, loopVars, sincePoll, owed>>

WakerNotifies(w) ==
    /\ at[w] = "notify"
    /\ SetPending(w)
    /\ UNCHANGED <<timer, tick, courier, token, wakeVars, loopVars, sincePoll>>

-----------------------------------------------------------------------------
Less(n) == IF n > 0 THEN n - 1 ELSE n

PassTime ==
    /\ timer' = Less(timer)
    /\ left' = [w \in Wakers |-> Less(left[w])]
    /\ sincePoll' = IF sincePoll < MinSignalInterval THEN sincePoll + 1 ELSE sincePoll
    /\ UNCHANGED <<signalPending, tick, courier, token, at, wakeupScheduled, loopVars, owed>>

CourierStep == ReceiveTick \/ ClearPending \/ OfferToken
LoopStep == TakeToken \/ SlowEnds \/ (\E cut \in BOOLEAN : PollEnds(cut)) \/ StoreLastPoll \/ ScheduleWakeup
WakerStep(w) == WakeUp(w) \/ WakerNotifies(w) \/ ResetTimer(w)

Next ==
    \/ PassTime \/ Fire \/ CourierStep \/ LoopStep \/ Tick
    \/ \E h \in Handlers : Signal(h) \/ ResetTimer(h)
    \/ \E w \in Wakers : WakerStep(w)

Spec == Init /\ [][Next]_vars

\* The clock runs, and the runtime and every goroutine that can go on do so.
\* No signal need come, and the ticker need not tick.
FairSpec ==
    /\ Spec
    /\ WF_vars(PassTime) /\ WF_vars(Fire) /\ WF_vars(CourierStep) /\ WF_vars(LoopStep)
    /\ \A h \in Handlers : WF_vars(ResetTimer(h))
    /\ \A w \in Wakers : WF_vars(WakerStep(w))
-----------------------------------------------------------------------------
(***************************************************************************)
(* Properties                                                              *)
(***************************************************************************)

\* The timer is running, will be set, or has gone off and the loop will learn it.
OnItsWay ==
    \/ timer # Off \/ tick \/ courier \in {"clear", "offer"} \/ token
    \/ \E c \in Callers : at[c] = "reset"
    \/ loop = "slow"

\* No signal is lost (poller.go:173, architecture.md:111): until a poll has begun
\* after it, the next one is on its way without the ticker, whatever the signals,
\* the timer and the loop were doing when it came.  Only a paused loop drops signals.
NoSignalLost == "signal" \in owed /\ bp # "paused" => OnItsWay

\* After a poll that the watermark cut short somebody sleeps, or is about to wake
\* the loop, until another poll has begun (poller.go:269).
Awaited == loop \in {"stamp", "arm"} \/ \E w \in Wakers : at[w] \in {"sleep", "notify"}
NoWindowForgotten == "window" \in owed /\ bp # "paused" => Awaited \/ OnItsWay

\* However polls, wakeups and signals interleave, sleeping goroutines do not pile up
\* (poller.go:271).
OneSleeper == Cardinality({w \in Wakers : at[w] = "sleep"}) <= 1

\* And the poll does begin.
Answered == \A why \in {"signal", "window"} : why \in owed ~> (why \notin owed \/ bp = "paused")

\* A signal starts a poll only when the interval has passed since the last one
\* (poller.go:216: the delay timer guarantees the smallest interval).
SpacedPolls == [][token /\ ~token' /\ loop' = "poll" => sincePoll = MinSignalInterval]_vars
=============================================================================
