----------------------------- MODULE IdlePolicy -----------------------------
(***************************************************************************)
(* suspend.c and timersource.c: the idle check, the timer source that runs  *)
(* it on the suspend thread, the requests of the main thread to run it at   *)
(* once, and its watchdog; composed with the display status it goes by.     *)
(*                                                                          *)
(* Time is counted in ticks and kept relative: the expiration of the source *)
(* is the ticks left until it (left), now matters only modulo the           *)
(* granularity (phase).                                                     *)
(***************************************************************************)
EXTENDS DisplayStatus, Integers, FiniteSetsExt

CONSTANTS
    Gran,        \* wait_idle_granularity_ms
    WaitIdle,    \* wait_idle_ms
    Holds,       \* how long a suspend cycle may hold the next one back
    Durations,   \* durations of activities
    Grace,       \* IDLE_CHECK_OVERDUE_GRACE_US
    MaxLate,     \* bound: how far the source may be overdue
    MaxEvents    \* bound: calls, changes and faults from outside

ASSUME IdlePolicyAssumption ==
    /\ Gran \in Nat \ {0} /\ WaitIdle \in Nat /\ WaitIdle >= Gran
    /\ Holds \subseteq Nat /\ Durations \subseteq Nat /\ Holds # {}
    /\ \A n \in Holds : n >= Gran
    /\ Grace \in Nat /\ MaxLate \in Nat /\ MaxEvents \in Nat

VARIABLES
    interval,    \* the source's interval_ms
    left,        \* the source's expiration_us, from now
    alive,       \* the source is not destroyed
    phase,       \* the time, modulo Gran
    thread,      \* the suspend thread: where it is, and the wait it has computed
    deadline,    \* when its poll ends, {} for never
    woken,       \* g_main_context_wakeup has been called
    posted,      \* an idle event waits for the suspend loop
    firing,      \* the main thread is between the two halves of ScheduleIdleCheck(0)
    hold,        \* sNoSuspendBeforeUs, from now
    busy,        \* time left of the longest activity
    veto,        \* an alarm is about to fire, or /tmp/suspend_active is missing
    since,       \* time since the last idle check began, up to MaxLate + 1
    events,      \* events from outside so far
    wanted       \* history: the request for a check at once that no check has read the
                 \* state for yet: "none", "check", or one "lost" to another write

timerVars == <<interval, left, alive>>
threadVars == <<thread, deadline, posted, since>>
outsideVars == <<hold, busy, veto, events>>
vars == <<timerVars, threadVars, outsideVars, phase, woken, firing, wanted, displayVars>>

-----------------------------------------------------------------------------
(* The timer source.                                                        *)

\* g_timer_set_expiration, from now: never at once, and rounded to the granularity, up
\* from a quarter of it and down below that. A granularity of 0, which turns the rounding
\* off, and waits below the granularity, which it may round down to now, are left out;
\* the configuration file may ask for both.
Expiration(n) ==
    LET ahead == IF n = 0 THEN 1 ELSE n
        remainder == (phase + ahead) % Gran
    IN  ahead - remainder + (IF remainder >= Gran \div 4 THEN Gran ELSE 0)

SetInterval(n) ==
    /\ interval' = n
    /\ left' = Expiration(n)

\* A call from outside the loop wakes it, if the source is attached to it.
Wakeup == woken' = (woken \/ alive)

\* A request not yet served is lost to a write that sets the source's expiration anew.
Overwrites == wanted' = IF wanted = "check" THEN "lost" ELSE wanted

\* prepare and check
Ready == alive /\ left <= 0

-----------------------------------------------------------------------------
(* The suspend thread: its main loop, the idle check, the suspend cycle.    *)

Goto(at) == thread' = [thread EXCEPT !.at = at]

\* The source, of a higher priority, is dispatched before an idle event.
Dispatch ==
    /\ thread.at = "loop"
    /\ Ready
    /\ Goto("check")
    /\ since' = 0
    /\ UNCHANGED <<timerVars, deadline, posted, outsideVars, phase, woken, firing, wanted,
                   displayVars>>

BeginCycle ==
    /\ thread.at = "loop"
    /\ ~Ready
    /\ posted
    /\ posted' = FALSE
    /\ Goto("cycle")
    /\ UNCHANGED <<timerVars, deadline, since, outsideVars, phase, woken, firing, wanted,
                   displayVars>>

Poll ==
    /\ thread.at = "loop"
    /\ ~Ready /\ ~posted
    /\ Goto("poll")
    /\ deadline' = IF alive THEN {left} ELSE {}
    /\ UNCHANGED <<timerVars, posted, since, outsideVars, phase, woken, firing, wanted,
                   displayVars>>

PollOver == thread.at = "poll" /\ (woken \/ \E t \in deadline : t <= 0)

PollEnds ==
    /\ PollOver
    /\ Goto("loop")
    /\ woken' = FALSE
    /\ deadline' = {}
    /\ UNCHANGED <<timerVars, posted, since, outsideVars, phase, firing, wanted, displayVars>>

\* Mutant: the wait is the difference of the two times.
IdleCheckSubtracts ==
    /\ thread.at = "check"
    /\ thread' = IF displayOn
                 THEN [thread EXCEPT !.at = "rearm"]
                 ELSE [at |-> "resched", wait |-> hold - WaitIdle]
    /\ posted' = (posted \/ (~displayOn /\ hold = 0 /\ busy = 0 /\ ~veto))
    /\ wanted' = "none"
    /\ UNCHANGED <<timerVars, deadline, since, outsideVars, phase, woken, firing, displayVars>>

\* Mutant: the hold is compared the wrong way round.
IdleCheckInverted ==
    /\ thread.at = "check"
    /\ thread' = IF displayOn
                 THEN [thread EXCEPT !.at = "rearm"]
                 ELSE [at |-> "resched", wait |-> Max({WaitIdle, busy, hold})]
    /\ posted' = (posted \/ (~displayOn /\ hold > 0 /\ busy = 0 /\ ~veto))
    /\ wanted' = "none"
    /\ UNCHANGED <<timerVars, deadline, since, outsideVars, phase, woken, firing, displayVars>>

\* IdleCheck up to its reading of the longest activity: with the display off and the
\* hold over, an idle device is to suspend; the next check is to come after the longest
\* of the activities and of the hold. What was asked for up to here is served. The early
\* return of a shutdown, here and in the watchdog, is left out: nothing begins one here.
IdleCheck ==
    /\ thread.at = "check"
    /\ thread' = IF displayOn
                 THEN [thread EXCEPT !.at = "rearm"]
                 ELSE [at |-> "resched", wait |-> Max({WaitIdle, busy, hold})]
    /\ posted' = (posted \/ (~displayOn /\ hold = 0 /\ busy = 0 /\ ~veto))
    /\ wanted' = "none"
    /\ UNCHANGED <<timerVars, deadline, since, outsideVars, phase, woken, firing, displayVars>>

\* its last statement, ScheduleIdleCheck(wait_idle_ms, true)
Reschedule ==
    /\ thread.at = "resched"
    /\ SetInterval(thread.wait)
    /\ Overwrites
    /\ Goto("rearm")
    /\ UNCHANGED <<alive, deadline, posted, since, outsideVars, phase, woken, firing,
                   displayVars>>

\* Mutant: the source is not re-armed after its callback.
RearmForgotten ==
    /\ thread.at = "rearm"
    /\ Goto("loop")
    /\ UNCHANGED <<timerVars, deadline, posted, since, outsideVars, phase, woken, firing,
                   wanted, displayVars>>

\* g_timer_source_dispatch after the callback
Rearm ==
    /\ thread.at = "rearm"
    /\ left' = Expiration(interval)
    /\ Overwrites
    /\ Goto("loop")
    /\ UNCHANGED <<interval, alive, deadline, posted, since, outsideVars, phase, woken,
                   firing, displayVars>>

\* The charger or a client declines the cycle before anything is scheduled, or it ends in
\* a resume or an abort, which hold the next one back and schedule the next check.
EndCycle ==
    /\ thread.at = "cycle"
    /\ Goto("loop")
    /\ \/ UNCHANGED <<interval, left, hold, woken, wanted>>
       \/ /\ hold' \in Holds
          /\ SetInterval(hold')
          /\ Wakeup
          /\ Overwrites
    /\ UNCHANGED <<alive, deadline, posted, since, busy, veto, events, phase, firing,
                   displayVars>>

ThreadStep ==
    \/ Dispatch \/ BeginCycle \/ Poll \/ PollEnds
    \/ IdleCheck \/ Reschedule \/ Rearm \/ EndCycle

-----------------------------------------------------------------------------
(* The main thread.                                                         *)

Event == events < MaxEvents /\ events' = events + 1

\* ScheduleIdleCheck(0, false): the interval is set, then the source fired
ScheduleNow ==
    /\ SetInterval(WaitIdle)
    /\ Wakeup
    /\ firing' = TRUE

\* Mutant: the source is fired first and its interval set after that.
FireNowThenSet ==
    /\ firing
    /\ firing' = FALSE
    /\ SetInterval(WaitIdle)
    /\ Wakeup
    /\ wanted' = "check"
    /\ UNCHANGED <<alive, threadVars, outsideVars, phase, displayVars>>

\* g_timer_source_fire_now
FireNow ==
    /\ firing
    /\ firing' = FALSE
    /\ left' = 0
    /\ Wakeup
    /\ wanted' = "check"
    /\ UNCHANGED <<interval, alive, threadVars, outsideVars, phase, displayVars>>

\* SuspendRetryReset, as far as the idle check sees it
RetryReset == hold' \in {hold} \cup Holds

\* PwrEventActivityStart and PwrEventActivityStop
Activity(n) ==
    /\ ~firing
    /\ Event
    /\ busy' = n
    /\ IF n = 0 THEN UNCHANGED hold ELSE RetryReset
    /\ ScheduleNow
    /\ UNCHANGED <<alive, threadVars, veto, phase, wanted, displayVars>>

\* TESTSuspendCallback: ScheduleIdleCheck(100, false)
TestSuspend ==
    /\ ~firing
    /\ Event
    /\ SetInterval(Gran)
    /\ Wakeup
    /\ Overwrites
    /\ UNCHANGED <<alive, threadVars, hold, busy, veto, phase, firing, displayVars>>

\* IdleCheckWatchdog: a source that was destroyed is replaced, one that is overdue, and
\* has not run, is fired, unless the suspend thread is in a cycle.
Overdue == left < -Grace /\ left > -since

\* Mutant: an overdue source is only reported.
WatchdogReports ==
    /\ ~firing
    /\ ~alive
    /\ alive' = TRUE
    /\ SetInterval(WaitIdle)
    /\ woken' = TRUE
    /\ Overwrites
    /\ UNCHANGED <<threadVars, outsideVars, phase, firing, displayVars>>

Watchdog ==
    /\ ~firing
    /\ \/ /\ ~alive
          /\ alive' = TRUE
          /\ SetInterval(WaitIdle)
          /\ woken' = TRUE
          /\ Overwrites
          /\ UNCHANGED firing
       \/ /\ alive
          /\ thread.at # "cycle"
          /\ Overdue
          /\ ScheduleNow
          /\ UNCHANGED <<alive, wanted>>
    /\ UNCHANGED <<threadVars, outsideVars, phase, displayVars>>

\* DisplayStatusCb; a display that has gone off asks for a check at once.
DisplayReply ==
    /\ ~firing
    /\ DisplayStatusCb
    /\ IF displayOn' = displayOn THEN UNCHANGED hold ELSE RetryReset
    /\ IF displayOn /\ ~displayOn'
       THEN ScheduleNow
       ELSE UNCHANGED <<interval, left, woken, firing>>
    /\ UNCHANGED <<alive, threadVars, busy, veto, events, phase, wanted>>

DisplayServer(accepted) ==
    /\ ~firing
    /\ DisplayServerStatusCb(accepted)
    /\ UNCHANGED <<timerVars, threadVars, outsideVars, phase, woken, firing, wanted>>

-----------------------------------------------------------------------------
(* Outside events.                                                          *)

DisplayChanges ==
    /\ Event
    /\ ServerStarts \/ ServerStops \/ ScreenSwitches
    /\ UNCHANGED <<timerVars, threadVars, hold, busy, veto, phase, woken, firing, wanted>>

DisplayAnswers ==
    /\ ServerReplies
    /\ UNCHANGED <<timerVars, threadVars, outsideVars, phase, woken, firing, wanted>>

VetoChanges ==
    /\ Event
    /\ veto' = ~veto
    /\ UNCHANGED <<timerVars, threadVars, hold, busy, phase, woken, firing, wanted, displayVars>>

\* What the watchdog is for: the source is destroyed, or the poll does not end in time.
SourceLost ==
    /\ Event
    /\ \/ alive' = FALSE /\ UNCHANGED deadline
       \/ deadline # {} /\ deadline' = {} /\ UNCHANGED alive
    /\ UNCHANGED <<interval, left, thread, posted, since, hold, busy, veto, phase, woken,
                   firing, wanted, displayVars>>

Down(n) == IF n = 0 THEN 0 ELSE n - 1

\* Time passes in the poll and in a cycle; the loop and a check take less than a tick.
Tick ==
    /\ thread.at \in {"poll", "cycle"} /\ ~PollOver
    /\ left > -MaxLate
    /\ left' = left - 1
    /\ phase' = (phase + 1) % Gran
    /\ deadline' = {t - 1 : t \in deadline}
    /\ hold' = Down(hold)
    /\ busy' = Down(busy)
    /\ since' = Min({since + 1, MaxLate + 1})
    /\ UNCHANGED <<interval, alive, thread, posted, veto, events, woken, firing, wanted,
                   displayVars>>

-----------------------------------------------------------------------------
Init ==
    /\ DisplayInit
    /\ interval = WaitIdle
    /\ phase = 0
    /\ left = Expiration(WaitIdle)
    /\ alive = TRUE
    /\ thread = [at |-> "loop", wait |-> WaitIdle]
    /\ deadline = {}
    /\ woken = FALSE /\ posted = FALSE /\ firing = FALSE
    /\ hold = 0 /\ busy = 0 /\ since = MaxLate + 1 /\ events = 0
    /\ veto = FALSE
    /\ wanted = "none"

MainStep ==
    \/ FireNow \/ DisplayReply
    \/ \E accepted \in BOOLEAN : DisplayServer(accepted)

Next ==
    \/ ThreadStep \/ MainStep \/ Watchdog
    \/ \E n \in Durations \cup {0} : Activity(n)
    \/ TestSuspend \/ DisplayChanges \/ DisplayAnswers \/ VetoChanges \/ SourceLost
    \/ Tick

Spec == Init /\ [][Next]_vars

\* Both threads go on, the display manager answers, the watchdog's period comes round
\* and time passes.
FairSpec ==
    /\ Spec
    /\ WF_vars(ThreadStep) /\ WF_vars(MainStep) /\ WF_vars(Watchdog)
    /\ WF_vars(DisplayAnswers) /\ WF_vars(Tick)

-----------------------------------------------------------------------------
(* Properties.                                                              *)

\* The types of the source, the threads and the display: no wait is negative.
TypeOK ==
    /\ DisplayTypeOK
    /\ interval \in Nat /\ left \in Int /\ phase \in 0 .. Gran - 1
    /\ thread \in [at : {"loop", "poll", "check", "resched", "rearm", "cycle"}, wait : Nat]
    /\ deadline \in SUBSET Int
    /\ {alive, woken, posted, firing, veto} \subseteq BOOLEAN
    /\ wanted \in {"none", "check", "lost"}
    /\ {hold, busy, since, events} \subseteq Nat

\* The source is due, and a poll under way is to end.
RequestIsDue ==
    wanted = "check" /\ ~firing /\ alive => left <= 0 /\ (thread.at = "poll" => woken)

\* The source is due within the longest wait there is and what rounding adds to it.
Waits == {WaitIdle} \cup Holds \cup Durations
WaitIsBounded == \E m \in Waits : left <= m + Gran

\* The suspend thread does not sleep past the time the source is due.
PollEndsInTime ==
    thread.at = "poll" /\ alive /\ ~woken => \A t \in deadline : t <= left

\* A request to check at once, whenever it is made, leaves the source due and ends the
\* suspend thread's poll, until a check reads the state; unless another request is half
\* made, the source is destroyed, or the request is lost. Lost is a request that one of
\* these writes overtakes: the check's own rescheduling or re-arming after its reading,
\* the rescheduling at the end of a cycle, TESTSuspend's, and that of a new source. For
\* those "the idle countdown starts from here" (suspend.c:1253) does not hold; they wait
\* for the time that was written, never beyond the longest wait there is, and no poll
\* outlasts it but one that fails to end.
RequestIsKept == RequestIsDue /\ WaitIsBounded /\ PollEndsInTime

\* No busy loop: a check does not begin in the tick the last one began in, unless the
\* main thread has asked for it since and that request is not lost, whatever either
\* thread has written to the source.
NoBusyLoop ==
    [][thread.at = "loop" /\ thread'.at = "check" => since > 0 \/ wanted = "check"]_vars

\* The idle check never stops for good, whatever befalls its source.
ChecksGoOn == []<>(thread.at = "check")

\* With the display off for good, no activity left and no alarm near, the device tries
\* to suspend, however the display manager came and went and whoever wrote to the timer;
\* given that it is up and has accepted the subscription: after a refused one the display
\* is believed on until the manager comes up again.
OffLeadsToAttempt ==
    <>[](token /\ up /\ ~screen /\ busy = 0 /\ ~veto) => []<>(thread.at = "cycle")

=============================================================================
