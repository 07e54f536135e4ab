------------------------------ MODULE Timeouts ------------------------------
(***************************************************************************)
(* timeout_alarm.c and reference_time.c: the table of timeouts, the RTC     *)
(* alarm and the timer source that serve it, the clock they are measured    *)
(* by, and the two threads that arm them.                                   *)
(*                                                                          *)
(* Time is counted in ticks of one second and kept relative: an expiry is   *)
(* the seconds left of it in reference time, an armed alarm or timer the    *)
(* seconds left of that.  drift is how far the wall clock is ahead of the   *)
(* reference clock, the delta that the next update_reference_time absorbs.  *)
(* A tick passes only outside the code modelled here: selecting a row and   *)
(* arming the alarm for it take much less than a second.                    *)
(***************************************************************************)
EXTENDS Integers, FiniteSets

CONSTANTS
    Keys,        \* (app_id, key, public_bus) triples
    MaxLeft,     \* bound: a timeout is set at most this far ahead
    MaxLate,     \* bound: how far overdue a row may grow
    Hour,        \* the interval of an otherwise idle timer, in ticks
    MaxWakeup,   \* MAX_WAKEUP_SECS, in ticks
    Jumps,       \* by how much the wall clock is set forward or back
    MaxUpsets,   \* bound: clock settings and restarts of the daemon
    NoRow        \* no row in the table for a key

Row == [left : Int, wakeup : BOOLEAN, calendar : BOOLEAN]

ASSUME TimeoutsAssumption ==
    /\ MaxLeft \in Nat /\ MaxLate \in Nat /\ MaxUpsets \in Nat
    /\ Hour \in Nat \ {0} /\ MaxWakeup \in Nat \ {0}
    /\ Jumps \subseteq Nat
    /\ NoRow \notin Row

VARIABLES
    rows,      \* the AlarmTimeout table: the row of each key, or NoRow
    drift,     \* wall clock minus reference clock
    rtc,       \* seconds until the armed RTC alarm, {} when cleared
    timer,     \* seconds until sTimerCheck is due
    job,       \* the main thread inside _timeout_set, _timeout_clear or _update_timeouts
    sus,       \* the suspend thread around queue_next_wakeup and the kernel's sleep
    poked,     \* a resume signal or an RTC callback waits for the main loop
    upsets     \* clock settings and restarts so far

vars == <<rows, drift, rtc, timer, job, sus, poked, upsets>>

Choice == [rtc : SUBSET Int, timer : Nat]
Nothing == [rtc |-> {}, timer |-> Hour]

Pending(k) == rows[k] # NoRow
WakeupRow(k) == Pending(k) /\ rows[k].wakeup
Relative(k) == Pending(k) /\ ~rows[k].calendar
Due(k) == Pending(k) /\ rows[k].left <= 0
Awake == sus.at # "down"
MainIdle == Awake /\ job.at = "idle"

Shifted(by) == [k \in Keys |-> IF Pending(k) THEN [rows[k] EXCEPT !.left = @ - by] ELSE NoRow]

-----------------------------------------------------------------------------
(* _queue_next_timeout, which both threads run: the selection, and later    *)
(* the arming of what was selected.                                         *)

\* the rows of the two SELECTs, WHERE expiry > now
Wakeups == {k \in Keys : WakeupRow(k) /\ rows[k].left > 0}
Future == {k \in Keys : Pending(k) /\ rows[k].left > 0}

\* ORDER BY expiry LIMIT 1
FirstOf(S) == {k \in S : \A j \in S : rows[k].left <= rows[j].left}

Clamp(n) == IF n < 1 THEN 1 ELSE IF n > MaxWakeup THEN MaxWakeup ELSE n

\* A pending wakeup row decides both the alarm and the timer: no other row is
\* looked at then.
Selection ==
    IF Wakeups # {}
    THEN {[rtc |-> {rows[k].left}, timer |-> Clamp(rows[k].left)] : k \in FirstOf(Wakeups)}
    ELSE IF Future # {}
    THEN {[rtc |-> {}, timer |-> Clamp(rows[k].left)] : k \in FirstOf(Future)}
    ELSE {Nothing}

\* nyx arms or clears the RTC alarm, or refuses and leaves it as it is; the timer is
\* set either way, and its expiration rounded to the next whole second at the latest.
ArmFor(choice, ok) ==
    /\ rtc' = IF ok THEN choice.rtc ELSE rtc
    /\ timer' \in {choice.timer, choice.timer + 1}

-----------------------------------------------------------------------------
(* The main thread.                                                         *)

Idle == [at |-> "idle", key |-> {}, row |-> NoRow, delta |-> 0, todo |-> {},
         choice |-> Nothing, stale |-> FALSE]

Updating == [Idle EXCEPT !.at = "sync"]

\* sus.blind is a history variable: the rows the suspend thread's alarm is not known to
\* be early enough for, because it has not seen them as they are now.
Missed(K) == IF sus.at = "on" THEN sus ELSE [sus EXCEPT !.blind = @ \cup K]
Rearmed(for) == IF sus.at = "armed" THEN [sus EXCEPT !.blind = Keys \ for] ELSE sus

\* timeout/set: "in" counts from the reference clock, "at" names a wall clock time.
NewRow(n, wakeup, calendar) ==
    [left |-> IF calendar THEN n + drift ELSE n, wakeup |-> wakeup, calendar |-> calendar]

\* The row with the same key is deleted before the new one is inserted.  With
\* keep_existing and such a row nothing changes, and the request is no step.
Set(k, n, wakeup, calendar) ==
    /\ MainIdle
    /\ rows' = [rows EXCEPT ![k] = NoRow]
    /\ job' = [Idle EXCEPT !.at = "insert", !.key = {k}, !.row = NewRow(n, wakeup, calendar)]
    /\ UNCHANGED <<drift, rtc, timer, sus, poked, upsets>>

Insert ==
    /\ Awake /\ job.at = "insert"
    /\ \E k \in job.key :
        /\ rows' = [rows EXCEPT ![k] = job.row]
        /\ sus' = Missed({k})
    /\ job' = Updating
    /\ UNCHANGED <<drift, rtc, timer, poked, upsets>>

\* timeout/clear; without a matching row only an error is replied
Clear(k) ==
    /\ MainIdle
    /\ Pending(k)
    /\ rows' = [rows EXCEPT ![k] = NoRow]
    /\ job' = Updating
    /\ UNCHANGED <<drift, rtc, timer, sus, poked, upsets>>

\* The calls that consist of _update_timeouts: the timer's, the resume signal's and
\* the RTC callback's second half.
TimerCheck ==
    /\ MainIdle
    /\ timer = 0
    /\ job' = Updating
    /\ UNCHANGED <<rows, drift, rtc, timer, sus, poked, upsets>>

Poke ==
    /\ MainIdle
    /\ poked
    /\ poked' = FALSE
    /\ job' = Updating
    /\ UNCHANGED <<rows, drift, rtc, timer, sus, upsets>>

\* _recalculate_timeouts with these rows left to update, and what follows it
Adjusting(delta, todo) ==
    IF todo = {} THEN [Idle EXCEPT !.at = "expire"]
    ELSE [Idle EXCEPT !.at = "adjust", !.delta = delta, !.todo = todo]

\* update_reference_time: the reference clock jumps by the drift, and with it the time
\* left of every row.  A delta of -1 is taken for the error value: the rows are not
\* adjusted.
Sync ==
    /\ Awake /\ job.at = "sync"
    /\ drift' = 0
    /\ rows' = Shifted(drift)
    /\ job' = IF drift \in {0, -1}
              THEN [Idle EXCEPT !.at = "expire"]
              ELSE Adjusting(drift, {k \in Keys : Relative(k)})
    /\ sus' = IF drift = 0 THEN sus ELSE Missed(Keys)
    /\ UNCHANGED <<rtc, timer, poked, upsets>>

\* Mutant: the adjustment goes the wrong way.
AdjustBackwards(k) ==
    /\ Awake /\ job.at = "adjust"
    /\ k \in job.todo
    /\ rows' = [rows EXCEPT ![k].left = @ - job.delta]
    /\ job' = Adjusting(job.delta, job.todo \ {k})
    /\ UNCHANGED <<drift, rtc, timer, sus, poked, upsets>>

\* _recalculate_timeouts: one UPDATE per relative row
Adjust(k) ==
    /\ Awake /\ job.at = "adjust"
    /\ k \in job.todo
    /\ rows' = [rows EXCEPT ![k].left = @ + job.delta]
    /\ job' = Adjusting(job.delta, job.todo \ {k})
    /\ UNCHANGED <<drift, rtc, timer, sus, poked, upsets>>

\* Mutant: the row is not deleted, and found again at once.
ExpireKeepsRow(k) ==
    /\ Awake /\ job.at = "expire"
    /\ k \in FirstOf({j \in Keys : Due(j)})
    /\ UNCHANGED vars

\* _expire_timeouts: the message is sent, then the row is deleted, earliest first
Expire(k) ==
    /\ Awake /\ job.at = "expire"
    /\ k \in FirstOf({j \in Keys : Due(j)})
    /\ rows' = [rows EXCEPT ![k] = NoRow]
    /\ UNCHANGED <<drift, rtc, timer, job, sus, poked, upsets>>

Select ==
    /\ Awake /\ job.at = "expire"
    /\ ~\E k \in Keys : Due(k)
    /\ \E choice \in Selection : job' = [job EXCEPT !.at = "arm", !.choice = choice]
    /\ UNCHANGED <<rows, drift, rtc, timer, sus, poked, upsets>>

\* The result of _queue_next_timeout is ignored here.
Arm(ok) ==
    /\ Awake /\ job.at = "arm"
    /\ ArmFor(job.choice, ok)
    /\ job' = Idle
    /\ sus' = Rearmed(IF ok /\ ~job.stale THEN Keys ELSE {})
    /\ UNCHANGED <<rows, drift, poked, upsets>>

-----------------------------------------------------------------------------
(* The suspend thread: queue_next_wakeup as the last check of StateSleep,   *)
(* then the kernel.                                                         *)

On == [at |-> "on", choice |-> Nothing, blind |-> {}]

\* The selection cannot see rows that are due, and sees those still to be adjusted with
\* a stale expiry.
SusSelect ==
    /\ sus.at = "on"
    /\ \E choice \in Selection :
        sus' = [at |-> "arm", choice |-> choice,
                blind |-> job.todo \cup {k \in Keys : Due(k)}]
    /\ UNCHANGED <<rows, drift, rtc, timer, job, poked, upsets>>

\* Mutant: the device suspends although the alarm was refused.
SusArmIgnoresRefusal(ok) ==
    /\ sus.at = "arm"
    /\ ArmFor(sus.choice, ok)
    /\ sus' = [On EXCEPT !.at = "armed", !.blind = sus.blind]
    /\ UNCHANGED <<rows, drift, job, poked, upsets>>

\* A refusal of the alarm ends the attempt; the resume signal follows.
SusArm(ok) ==
    /\ sus.at = "arm"
    /\ ArmFor(sus.choice, ok)
    /\ sus' = IF ok THEN [On EXCEPT !.at = "armed", !.blind = sus.blind] ELSE On
    /\ poked' = (poked \/ ~ok)
    /\ UNCHANGED <<rows, drift, job, upsets>>

\* MachineSleep: the kernel goes down, or refuses
KernelSleeps ==
    /\ sus.at = "armed"
    /\ sus' = [sus EXCEPT !.at = "down"]
    /\ UNCHANGED <<rows, drift, rtc, timer, job, poked, upsets>>

KernelRefuses ==
    /\ sus.at = "armed"
    /\ sus' = On
    /\ poked' = TRUE
    /\ UNCHANGED <<rows, drift, rtc, timer, job, upsets>>

\* Mutant: nobody listens to the resume signal.
WakeUnheard ==
    /\ sus.at = "down"
    /\ sus' = On
    /\ UNCHANGED <<rows, drift, rtc, timer, job, poked, upsets>>

\* By the RTC alarm, or by anything else.  The resume signal reaches _resume_callback.
Wake ==
    /\ sus.at = "down"
    /\ sus' = On
    /\ poked' = TRUE
    /\ UNCHANGED <<rows, drift, rtc, timer, job, upsets>>

-----------------------------------------------------------------------------
(* Outside events.                                                          *)

\* nyx calls _rtc_alarm_fired, which queues an update onto the main loop.
RtcFires ==
    /\ Awake
    /\ \E t \in rtc : t <= 0
    /\ rtc' = {}
    /\ poked' = TRUE
    /\ sus' = Rearmed({})
    /\ UNCHANGED <<rows, drift, timer, job, upsets>>

\* A second passes.  Whatever is due runs first; the timer's clock stops in suspend.
\* A main thread frozen before it arms has read the clock too long ago.
Tick ==
    /\ \A t \in rtc : t > 0
    /\ Awake => job.at = "idle" /\ ~poked /\ sus.at = "on" /\ timer > 0
    /\ \A k \in Keys : Pending(k) => rows[k].left > -MaxLate
    /\ rows' = Shifted(1)
    /\ rtc' = {t - 1 : t \in rtc}
    /\ timer' = IF Awake THEN timer - 1 ELSE timer
    /\ job' = [job EXCEPT !.stale = job.at = "arm"]
    /\ UNCHANGED <<drift, sus, poked, upsets>>

\* The wall clock is set.  An RTC alarm kept by the realtime clock moves with it, one
\* in hardware does not.
SetClock(d) ==
    /\ Awake
    /\ upsets < MaxUpsets
    /\ upsets' = upsets + 1
    /\ drift' = drift + d
    /\ rtc' \in {rtc, {t - d : t \in rtc}}
    /\ sus' = Rearmed({})
    /\ UNCHANGED <<rows, timer, job, poked>>

\* sleepd dies and is started again: the table survives, the offset of the reference
\* clock does not.  _alarms_timeout_init sets it from the wall clock without looking
\* at the rows, and ends in _update_timeouts.
Restart ==
    /\ Awake
    /\ upsets < MaxUpsets
    /\ upsets' = upsets + 1
    /\ rows' = Shifted(drift)
    /\ drift' = 0
    /\ timer' = Hour
    /\ job' = Updating
    /\ sus' = On
    /\ poked' = FALSE
    /\ UNCHANGED rtc

-----------------------------------------------------------------------------
Init ==
    /\ rows = [k \in Keys |-> NoRow]
    /\ drift = 0
    /\ rtc = {}
    /\ timer = Hour
    /\ job = Idle
    /\ sus = On
    /\ poked = FALSE
    /\ upsets = 0

Caller ==
    \E k \in Keys :
        \/ Clear(k)
        \/ \E n \in 0 .. MaxLeft, w \in BOOLEAN, c \in BOOLEAN : Set(k, n, w, c)

JobStep ==
    \/ Insert \/ Sync \/ Select
    \/ \E k \in Keys : Adjust(k) \/ Expire(k)
    \/ \E ok \in BOOLEAN : Arm(ok)

Dispatch == TimerCheck \/ Poke

SusStep == KernelSleeps \/ KernelRefuses \/ \E ok \in BOOLEAN : SusArm(ok)

Next ==
    \/ Caller \/ JobStep \/ Dispatch
    \/ SusSelect \/ SusStep \/ Wake
    \/ RtcFires \/ Tick \/ Restart
    \/ \E d \in Jumps : SetClock(d) \/ SetClock(-d)

Spec == Init /\ [][Next]_vars

\* A call in progress goes on, a source that is ready is dispatched, the suspend thread
\* leaves StateSleep, an alarm that is due fires and time passes.
FairSpec ==
    /\ Spec
    /\ WF_vars(JobStep) /\ WF_vars(Dispatch) /\ WF_vars(SusStep)
    /\ WF_vars(RtcFires) /\ WF_vars(Tick)

-----------------------------------------------------------------------------
(* Properties.                                                              *)

\* The types of the table, the clocks and what each thread has in hand.
TypeOK ==
    /\ rows \in [Keys -> Row \cup {NoRow}]
    /\ drift \in Int
    /\ rtc \in SUBSET Int
    /\ timer \in Nat
    /\ job \in [at : {"idle", "insert", "sync", "adjust", "expire", "arm"},
                key : SUBSET Keys, row : Row \cup {NoRow}, delta : Int,
                todo : SUBSET Keys, choice : Choice, stale : BOOLEAN]
    /\ sus \in [at : {"on", "arm", "armed", "down"}, choice : Choice, blind : SUBSET Keys]
    /\ poked \in BOOLEAN
    /\ upsets \in Nat

\* The device never sleeps past a wakeup timeout: while the kernel is down no wakeup
\* row is overdue, except one that was already due when queue_next_wakeup looked, or
\* that the main thread changed between that look and the arming of the alarm.
WakesInTime ==
    ~Awake => \A k \in Keys \ sus.blind : WakeupRow(k) => rows[k].left >= 0

\* Nothing is left to run: no source of the main loop is ready.
Quiet ==
    /\ MainIdle /\ sus.at = "on" /\ ~poked
    /\ timer > 0 /\ \A t \in rtc : t > 0

\* While the device is awake a timeout is delivered when it is due, whatever the
\* suspend thread and the clock have done to the timer; a non-wakeup one may be held
\* up, but only as long as a wakeup timeout is pending.
DeliveredOnTime ==
    Quiet => \A k \in Keys : Due(k) /\ rows[k].left < 0 =>
                 ~rows[k].wakeup /\ \E w \in Keys : WakeupRow(w)

\* What the header of _queue_next_timeout says: the timer covers every timeout.
TimerCoversEveryTimeout ==
    Quiet => \A k \in Keys : Pending(k) => rows[k].left >= 0

\* The time left of a relative row once the adjustments in progress are done
Remaining(k) == rows[k].left + (IF k \in job.todo THEN job.delta ELSE 0)

\* Setting the wall clock does not move a relative timeout: the time it has left
\* changes with the time that passes and in no other way, unless the daemon is
\* restarted before it has followed a change of the clock, or the clock was set back
\* by exactly one second, which _update_timeouts takes for an error.
RelativeKeepDistance ==
    [][\A k \in Keys : Relative(k) /\ Relative(k)' =>
           \/ Tick
           \/ Restart /\ (drift # 0 \/ job.todo # {})
           \/ Sync /\ drift = -1
           \/ Remaining(k)' = Remaining(k)]_vars

\* A timeout that is due is delivered, or taken back by its owner or by the clock, or
\* the device goes to sleep; also after a crash.
DueIsDelivered ==
    \A k \in Keys : Due(k) ~> (~Due(k) \/ ~Awake)

=============================================================================
