-------------------------- MODULE PollTriggerProofs --------------------------
(***************************************************************************)
(* Proofs about PollTrigger, for any number of handlers and wakers, any    *)
(* interval between signals and any watermark.                             *)
(***************************************************************************)
EXTENDS PollTrigger, FiniteSetTheorems, TLAPS

\* A flag that is set, which makes Notify do nothing, has a timer behind it: set,
\* about to be set, or gone off with the flag not cleared yet.
FlagHasTimer ==
    signalPending =>
        \/ timer # Off \/ tick \/ courier = "clear"
        \/ \E c \in Callers : at[c] = "reset"

\* The flag of the wakeup is set exactly as long as one goroutine sleeps.
FlagHasSleeper ==
    /\ wakeupScheduled => \E w \in Wakers : at[w] = "sleep"
    /\ \A w \in Wakers : at[w] = "sleep" => wakeupScheduled
    /\ \A v, w \in Wakers : at[v] = "sleep" /\ at[w] = "sleep" => v = w

\* A window is owed only by the last poll, and that poll arms the wakeup.
WindowIsLast ==
    /\ loop = "poll" => "window" \notin owed
    /\ loop = "stamp" /\ "window" \in owed => blocked

TriggerInv ==
    TypeOK /\ FlagHasTimer /\ FlagHasSleeper /\ WindowIsLast /\ NoSignalLost /\ NoWindowForgotten
-----------------------------------------------------------------------------
LEMMA InitInv == Init => TriggerInv
<1> SUFFICES ASSUME Init PROVE TriggerInv
  OBVIOUS
<1> USE TriggerAssumption DEF Init, Callers
<1>1. TypeOK
  <2>1. /\ at \in [Callers -> {"idle", "sleep", "notify", "reset"}]
        /\ \A h \in Handlers : at[h] \in {"idle", "reset"}
        /\ left \in [Wakers -> 0 .. Watermark]
    OBVIOUS
  <2>2. /\ timer \in {Off} \cup 0 .. MinSignalInterval
        /\ sincePoll \in 0 .. MinSignalInterval
    OBVIOUS
  <2>3. QED BY <2>1, <2>2 DEF TypeOK, Pressures
<1>2. FlagHasTimer /\ FlagHasSleeper /\ WindowIsLast
  BY DEF FlagHasTimer, FlagHasSleeper, WindowIsLast
<1>3. NoSignalLost /\ NoWindowForgotten
  BY DEF NoSignalLost, NoWindowForgotten
<1>4. QED BY <1>1, <1>2, <1>3 DEF TriggerInv

LEMMA NextPressureType ==
    ASSUME NEW p \in Pressures, NEW usage \in Usages
    PROVE  NextPressure(p, usage) \in Pressures
BY DEF NextPressure, Pressures, Usages

\* Notify: the flag and the timer behind it, whoever calls.
LEMMA SetPendingInv ==
    ASSUME TriggerInv, NEW c \in Callers, SetPending(c), at[c] \in {"idle", "notify"},
           UNCHANGED <<timer, tick, courier, token, wakeVars, loopVars, sincePoll>>
    PROVE  TriggerInv'
<1> USE DEF TriggerInv, SetPending, Step, loopVars, wakeVars, Callers
<1>1. at' = [at EXCEPT ![c] = IF signalPending THEN "idle" ELSE "reset"]
  OBVIOUS
<1>2. TypeOK'
  BY DEF TypeOK
<1>3. \A d \in Callers : at[d] = "reset" => at'[d] = "reset"
  BY <1>1 DEF TypeOK
<1>4. \A w \in Wakers : at'[w] = "sleep" <=> at[w] = "sleep"
  BY <1>1 DEF TypeOK
<1>5. ~signalPending => at'[c] = "reset"
  BY <1>1 DEF TypeOK
<1>6. FlagHasTimer'
  BY <1>3, <1>5 DEF FlagHasTimer
<1>7. FlagHasSleeper'
  BY <1>4 DEF FlagHasSleeper
<1>8. WindowIsLast'
  BY DEF WindowIsLast
<1>9. OnItsWay'
  BY <1>6 DEF FlagHasTimer, OnItsWay
<1>10. QED BY <1>2, <1>6, <1>7, <1>8, <1>9 DEF NoSignalLost, NoWindowForgotten

\* The timer is set by whoever set the flag.
LEMMA ResetTimerInv ==
    ASSUME TriggerInv, NEW c \in Callers, ResetTimer(c)
    PROVE  TriggerInv'
<1> USE DEF TriggerInv, ResetTimer, Step, loopVars, wakeVars, Callers
<1>1. timer' \in 0 .. MinSignalInterval /\ timer' # Off
  BY TriggerAssumption DEF TypeOK, Off
<1>2. TypeOK'
  BY <1>1 DEF TypeOK
<1>3. \A w \in Wakers : at'[w] = "sleep" <=> at[w] = "sleep"
  BY DEF TypeOK
<1>4. FlagHasTimer' /\ WindowIsLast'
  BY <1>1 DEF FlagHasTimer, WindowIsLast
<1>5. FlagHasSleeper'
  BY <1>3 DEF FlagHasSleeper
<1>6. OnItsWay'
  BY <1>1 DEF OnItsWay
<1>7. QED BY <1>2, <1>4, <1>5, <1>6 DEF NoSignalLost, NoWindowForgotten

\* The timer, its goroutine and the clock hand a signal on and never drop it.
LEMMA TimerInv ==
    ASSUME TriggerInv, Fire \/ CourierStep \/ PassTime
    PROVE  TriggerInv'
<1> USE DEF TriggerInv
<1>1. CASE Fire
  <2> USE <1>1 DEF Fire, loopVars, wakeVars
  <2>1. TypeOK' /\ FlagHasTimer' /\ FlagHasSleeper' /\ WindowIsLast'
    BY DEF TypeOK, FlagHasTimer, FlagHasSleeper, WindowIsLast
  <2>2. OnItsWay'
    BY DEF OnItsWay
  <2>3. QED BY <2>1, <2>2 DEF NoSignalLost, NoWindowForgotten
<1>2. CASE ReceiveTick
  <2> USE <1>2 DEF ReceiveTick, loopVars, wakeVars
  <2>1. TypeOK' /\ FlagHasTimer' /\ FlagHasSleeper' /\ WindowIsLast'
    BY DEF TypeOK, FlagHasTimer, FlagHasSleeper, WindowIsLast
  <2>2. OnItsWay'
    BY DEF OnItsWay
  <2>3. QED BY <2>1, <2>2 DEF NoSignalLost, NoWindowForgotten
<1>3. CASE ClearPending
  <2> USE <1>3 DEF ClearPending, loopVars, wakeVars
  <2>1. TypeOK' /\ FlagHasTimer' /\ FlagHasSleeper' /\ WindowIsLast'
    BY DEF TypeOK, FlagHasTimer, FlagHasSleeper, WindowIsLast
  <2>2. OnItsWay'
    BY DEF OnItsWay
  <2>3. QED BY <2>1, <2>2 DEF NoSignalLost, NoWindowForgotten
<1>4. CASE OfferToken
  <2> USE <1>4 DEF OfferToken, timerVars, loopVars, wakeVars
  <2>1. TypeOK' /\ FlagHasTimer' /\ FlagHasSleeper' /\ WindowIsLast'
    BY DEF TypeOK, FlagHasTimer, FlagHasSleeper, WindowIsLast
  <2>2. OnItsWay'
    BY DEF OnItsWay
  <2>3. QED BY <2>1, <2>2 DEF NoSignalLost, NoWindowForgotten
<1>5. CASE PassTime
  <2> USE <1>5, TriggerAssumption DEF PassTime, Less, loopVars
  <2>1. timer' # Off <=> timer # Off
    BY DEF TypeOK, Off
  <2>2. timer' \in {Off} \cup 0 .. MinSignalInterval /\ sincePoll' \in 0 .. MinSignalInterval
    BY DEF TypeOK, Off
  <2>3. left' \in [Wakers -> 0 .. Watermark]
    BY DEF TypeOK
  <2>4. TypeOK'
    BY <2>2, <2>3 DEF TypeOK
  <2>5. FlagHasTimer' /\ FlagHasSleeper' /\ WindowIsLast'
    BY <2>1 DEF FlagHasTimer, FlagHasSleeper, WindowIsLast
  <2>6. OnItsWay' <=> OnItsWay
    BY <2>1 DEF OnItsWay
  <2>7. Awaited' <=> Awaited
    BY DEF Awaited
  <2>8. QED BY <2>4, <2>5, <2>6, <2>7 DEF NoSignalLost, NoWindowForgotten
<1>6. QED BY <1>1, <1>2, <1>3, <1>4, <1>5 DEF CourierStep

\* A trigger starts a poll, waits in the degraded loop, or is dropped by a paused one.
LEMMA TriggeredInv ==
    ASSUME TriggerInv, loop = "select", Triggered, token' \in BOOLEAN
    PROVE  TriggerInv'
<1> USE DEF TriggerInv, timerVars, wakeVars
<1>1. PICK usage \in Usages :
        /\ bp' = NextPressure(bp, usage)
        /\ \/ bp' = "paused" /\ UNCHANGED <<loop, owed>>
           \/ bp' = "degraded" /\ loop' = "slow" /\ UNCHANGED owed
           \/ bp' = "normal" /\ BeginPoll
        /\ UNCHANGED <<timerVars, courier, at, wakeVars, blocked, sincePoll>>
  BY DEF Triggered
<1>2. bp' \in Pressures
  BY <1>1, NextPressureType DEF TypeOK
<1>3. TypeOK'
  BY <1>1, <1>2 DEF TypeOK, BeginPoll
<1>4. FlagHasTimer' /\ FlagHasSleeper'
  BY <1>1 DEF FlagHasTimer, FlagHasSleeper
<1>5. WindowIsLast'
  BY <1>1 DEF WindowIsLast, BeginPoll
<1>6. bp' = "paused" \/ loop' = "slow" \/ owed' = {}
  BY <1>1 DEF BeginPoll
<1>7. NoSignalLost' /\ NoWindowForgotten'
  BY <1>6 DEF NoSignalLost, NoWindowForgotten, OnItsWay
<1>8. QED BY <1>3, <1>4, <1>5, <1>7

\* The end of a poll: who sleeps, and for which window.
LEMMA LoopInv ==
    ASSUME TriggerInv, LoopStep \/ Tick
    PROVE  TriggerInv'
<1> USE DEF TriggerInv
<1>1. CASE TakeToken
  BY <1>1, TriggeredInv DEF TakeToken
<1>2. CASE Tick
  <2>1. token' \in BOOLEAN
    BY <1>2 DEF Tick, TypeOK
  <2>2. QED BY <1>2, <2>1, TriggeredInv DEF Tick
<1>3. CASE SlowEnds
  <2> USE <1>3 DEF SlowEnds, BeginPoll, timerVars, wakeVars
  <2>1. TypeOK' /\ FlagHasTimer' /\ FlagHasSleeper' /\ WindowIsLast'
    BY DEF TypeOK, FlagHasTimer, FlagHasSleeper, WindowIsLast
  <2>2. QED BY <2>1 DEF NoSignalLost, NoWindowForgotten
<1>4. ASSUME NEW cut \in BOOLEAN, PollEnds(cut) PROVE TriggerInv'
  <2> USE <1>4 DEF PollEnds, timerVars, wakeVars
  <2>1. TypeOK' /\ FlagHasTimer' /\ FlagHasSleeper'
    BY DEF TypeOK, FlagHasTimer, FlagHasSleeper
  <2>2. WindowIsLast'
    BY DEF WindowIsLast
  <2>3. NoSignalLost'
    BY DEF NoSignalLost, OnItsWay
  <2>4. NoWindowForgotten'
    BY DEF NoWindowForgotten, Awaited
  <2>5. QED BY <2>1, <2>2, <2>3, <2>4
<1>5. CASE StoreLastPoll
  <2> USE <1>5 DEF StoreLastPoll, timerVars, wakeVars
  <2>1. TypeOK'
    BY TriggerAssumption DEF TypeOK
  <2>2. FlagHasTimer' /\ FlagHasSleeper' /\ WindowIsLast'
    BY DEF FlagHasTimer, FlagHasSleeper, WindowIsLast
  <2>3. NoSignalLost'
    BY DEF NoSignalLost, OnItsWay
  <2>4. NoWindowForgotten'
    BY DEF NoWindowForgotten, Awaited, WindowIsLast
  <2>5. QED BY <2>1, <2>2, <2>3, <2>4
<1>6. CASE ScheduleWakeup
  <2> USE <1>6, TriggerAssumption DEF ScheduleWakeup, Step, timerVars, Callers
  <2>1. CASE wakeupScheduled /\ UNCHANGED <<at, left>>
    <3>1. TypeOK' /\ FlagHasTimer' /\ FlagHasSleeper' /\ WindowIsLast'
      BY <2>1 DEF TypeOK, FlagHasTimer, FlagHasSleeper, WindowIsLast
    <3>2. NoSignalLost'
      BY <2>1 DEF NoSignalLost, OnItsWay
    <3>3. Awaited'
      BY <2>1, <3>1 DEF Awaited, FlagHasSleeper
    <3>4. QED BY <3>1, <3>2, <3>3 DEF NoWindowForgotten
  <2>2. CASE ~wakeupScheduled
    <3>1. PICK w \in Wakers :
            at[w] = "idle" /\ at' = [at EXCEPT ![w] = "sleep"] /\ left' = [left EXCEPT ![w] = Watermark]
      BY <2>2
    <3>2. TypeOK'
      BY <3>1 DEF TypeOK
    <3>3. \A c \in Callers : at[c] = "reset" => at'[c] = "reset"
      BY <3>1 DEF TypeOK
    <3>4. \A v \in Wakers : at'[v] = "sleep" <=> v = w
      BY <2>2, <3>1 DEF TypeOK, FlagHasSleeper
    <3>5. FlagHasTimer' /\ WindowIsLast'
      BY <3>3 DEF FlagHasTimer, WindowIsLast
    <3>6. FlagHasSleeper'
      BY <3>4 DEF FlagHasSleeper
    <3>7. NoSignalLost'
      BY <3>3 DEF NoSignalLost, OnItsWay
    <3>8. Awaited'
      BY <3>4 DEF Awaited
    <3>9. QED BY <3>2, <3>5, <3>6, <3>7, <3>8 DEF NoWindowForgotten
  <2>3. QED BY <2>1, <2>2
<1>7. QED BY <1>1, <1>2, <1>3, <1>4, <1>5, <1>6 DEF LoopStep

\* The sleeper clears the flag before it calls Notify.
LEMMA WakeUpInv ==
    ASSUME TriggerInv, NEW w \in Wakers, WakeUp(w)
    PROVE  TriggerInv'
<1> USE TriggerAssumption DEF TriggerInv, WakeUp, Step, loopVars, timerVars, Callers
<1>1. TypeOK'
  BY DEF TypeOK
<1>2. \A c \in Callers : at[c] = "reset" => at'[c] = "reset"
  BY DEF TypeOK
<1>3. \A v \in Wakers : at'[v] # "sleep"
  BY DEF TypeOK, FlagHasSleeper
<1>4. at'[w] = "notify"
  BY DEF TypeOK
<1>5. FlagHasTimer' /\ WindowIsLast'
  BY <1>2 DEF FlagHasTimer, WindowIsLast
<1>6. FlagHasSleeper'
  BY <1>3 DEF FlagHasSleeper
<1>7. NoSignalLost'
  BY <1>2 DEF NoSignalLost, OnItsWay
<1>8. Awaited'
  BY <1>4 DEF Awaited
<1>9. QED BY <1>1, <1>5, <1>6, <1>7, <1>8 DEF NoWindowForgotten

LEMMA StepInv ==
    ASSUME TriggerInv, [Next]_vars
    PROVE  TriggerInv'
<1>1. ASSUME NEW h \in Handlers, Signal(h) PROVE TriggerInv'
  BY <1>1, SetPendingInv DEF Signal, Callers
<1>2. ASSUME NEW w \in Wakers, WakerNotifies(w) PROVE TriggerInv'
  BY <1>2, SetPendingInv DEF WakerNotifies, Callers
<1>3. ASSUME NEW c \in Callers, ResetTimer(c) PROVE TriggerInv'
  BY <1>3, ResetTimerInv
<1>4. ASSUME NEW w \in Wakers, WakeUp(w) PROVE TriggerInv'
  BY <1>4, WakeUpInv
<1>5. CASE PassTime \/ Fire \/ CourierStep
  BY <1>5, TimerInv
<1>6. CASE LoopStep \/ Tick
  BY <1>6, LoopInv
<1>7. CASE UNCHANGED vars
  <2> USE <1>7 DEF vars, timerVars, wakeVars, loopVars, TriggerInv
  <2>1. TypeOK' /\ FlagHasTimer' /\ FlagHasSleeper' /\ WindowIsLast'
    BY DEF TypeOK, FlagHasTimer, FlagHasSleeper, WindowIsLast
  <2>2. (OnItsWay' <=> OnItsWay) /\ (Awaited' <=> Awaited)
    BY DEF OnItsWay, Awaited
  <2>3. QED BY <2>1, <2>2 DEF NoSignalLost, NoWindowForgotten
<1>8. QED BY <1>1, <1>2, <1>3, <1>4, <1>5, <1>6, <1>7 DEF Next, WakerStep, Callers

THEOREM TriggerInvariant == Spec => []TriggerInv
<1>1. TriggerInv /\ [Next]_vars => TriggerInv'
  BY StepInv
<1>2. QED BY <1>1, InitInv, PTL DEF Spec
-----------------------------------------------------------------------------
\* Every variable of the trigger keeps its type.
THEOREM TriggerTypeCorrect == Spec => []TypeOK
<1>1. TriggerInv => TypeOK
  BY DEF TriggerInv
<1>2. QED BY <1>1, TriggerInvariant, PTL

\* No signal is lost: until a poll begins after it, one is on its way without the
\* ticker (Notify, the timer's goroutine and the poll loop, poller.go:175-277).
THEOREM TriggerNoSignalLost == Spec => []NoSignalLost
<1>1. TriggerInv => NoSignalLost
  BY DEF TriggerInv
<1>2. QED BY <1>1, TriggerInvariant, PTL

\* A window cut short by the watermark has a sleeper or a poll to come.
THEOREM TriggerNoWindowForgotten == Spec => []NoWindowForgotten
<1>1. TriggerInv => NoWindowForgotten
  BY DEF TriggerInv
<1>2. QED BY <1>1, TriggerInvariant, PTL

\* At most one goroutine waits for the watermark (wakeupScheduled, poller.go:271).
THEOREM TriggerOneSleeper == Spec => []OneSleeper
<1>1. TriggerInv => OneSleeper
  <2> SUFFICES ASSUME TriggerInv PROVE OneSleeper
    OBVIOUS
  <2> DEFINE S == {w \in Wakers : at[w] = "sleep"}
  <2>1. \A v, w \in S : v = w
    BY DEF TriggerInv, FlagHasSleeper
  <2>2. CASE S = {}
    BY <2>2, FS_EmptySet DEF OneSleeper
  <2>3. CASE \E w : w \in S
    <3>1. PICK w : w \in S
      BY <2>3
    <3>2. S = {w}
      BY <2>1, <3>1
    <3>3. Cardinality(S) = 1
      BY <3>2, FS_Singleton
    <3>4. QED BY <3>3 DEF OneSleeper
  <2>4. QED BY <2>2, <2>3
<1>2. QED BY <1>1, TriggerInvariant, PTL
=============================================================================
