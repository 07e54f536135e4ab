# sleepd in TLA+

A model of sleepd, the webOS power daemon: when the device may suspend, who is
asked first, what happens when somebody objects, and how it is shut down. The
modules are translated from the C sources under `src/`; `PROJECT.json` maps each
definition to its lines, lists the runs, the hazards they are aimed at, and the
theorems. Paths below are relative to `src/src/`.

## 1. The system

sleepd has two threads. The **main thread** runs a GLib loop: luna-service methods
and signals, the charger and display subscriptions, timeouts and alarms, shutdown.
The **suspend thread** runs a loop of its own: the idle check, and the suspend state
machine, which blocks that loop for the whole of a cycle (votes of up to 30 s and
5 s, the kernel suspend itself). The two share the client table, the vote counters,
the activity roster and a number of flags; only the roster and the two wait objects
have a lock.

| Component | State | Operations | What is hard |
|---|---|---|---|
| Suspend state machine (`pwrevents/suspend.c`) | current state, pending event, forced flag, posted updates | one state function per state; TriggerSuspend, TriggerResume, ForceResume, SuspendInhibitForShutdown | decisions on flags the main thread changes meanwhile; many ways back to On |
| Retry policy (`suspend.c`) | back-off, hold deadline, refusal streak (atomics) | SuspendHoldOff, SuspendRetryReset, SuspendRetryBackOff | each function is several atomic accesses, both threads run them |
| Idle check (`suspend.c`, `utils/timersource.c`) | timer source, last check | IdleCheck, ScheduleIdleCheck, watchdog | rescheduled from both threads |
| Suspend clients (`pwrevents/client.c`, `suspend_ipc.c`) | table, require flags, answers, four counters | identify, cancel, register, ack | counters beside the table, no lock, answers out of turn |
| Activities (`pwrevents/activity.c`) | sorted roster, frozen flag, kernel wakelocks | start, end, expiry, freeze, thaw | roster under a mutex, wakelocks outside it |
| Client wakelocks (`suspend_ipc.c`) | table of holders | wakeLockRegister, setWakeLock, cancel | two bus handles |
| Machine, charger (`pwrevents/machine.c`) | charger flag | MachineSleep, ChargerStatus | the kernel may refuse |
| Display (`suspend.c`) | display flag, subscription token | DisplayStatusCb, DisplayServerStatusCb | the display manager restarts |
| Shutdown (`pwrevents/shutdown.c`) | state, two client tables, one ack count, timeout id, forced action, caller | initiate, acks, machineOff, machineReboot, cancel | two rounds share counter and timeout; forced actions meet sequences |
| Timeouts (`alarms/timeout_alarm.c`, `smartsql.c`) | sqlite table, RTC alarm, timer | set, clear, expire, queue_next_wakeup (suspend thread) | two threads arm the RTC; restart |
| Alarms (`alarms/alarm.c`) | sorted queue, XML file | add, remove, recalculate | file rewritten in place; crash between writes |
| Reference time, time saver (`alarms/reference_time.c`, `utils/timesaver.c`) | offset, saved time | update, save, restore | clock changes |
| Wait objects (`utils/wait.c`) | mutex, condition | wait with timeout, signal | lost signal, spurious wakeup |
| Start-up, JSON, luna, sysfs and logging helpers | none that outlives a call | | |

How they interact: a luna `activityStart`, a display, charger or RTC event calls
SuspendRetryReset, some of them TriggerResume; `forceSuspend` and the idle check
call TriggerSuspend, which posts an update to the suspend thread; a cycle
broadcasts suspendRequest and prepareSuspend and waits on a wait object that the
ack handlers signal; StateSleep asks the activities, the charger, the shutdown
flag, the timeouts (queue_next_wakeup) and the kernel, in that order; shutdown
inhibits suspends through a flag and a kernel wakelock.

## 2. Modules

| Module | Models | |
|---|---|---|
| `PwrClients` | `client.c` | action fragments over the table and counters |
| `Activities` | `activity.c` | action fragments over roster, freeze and wakelocks |
| `Suspend` | `suspend.c`, `suspend_ipc.c`, `wait.c`, parts of `machine.c` | extends the two above; both threads |
| `SuspendCycle` | what clients may rely on | the abstract specification `Suspend` implements |
| `RetryBackoff` | SuspendHoldOff, SuspendRetryReset, SuspendRetryBackOff | at the grain of single atomic accesses |
| `Shutdown` | `shutdown.c` | one luna message or timeout per action |
| `Timeouts` | `timeout_alarm.c`, `reference_time.c` | the table, the RTC alarm and the timer, armed by both threads; clock changes, restarts |
| `Alarms` | `alarm.c` | the queue, its XML file and its timeout rows, with a crash between any two writes |
| `DisplayStatus` | the display subscription of `suspend.c` | action fragments over the subscription and the bus's two streams |
| `IdlePolicy` | the idle check and its watchdog in `suspend.c`, `timersource.c` | extends `DisplayStatus`; both threads and the timer source |
| `WakeLockClients` | wakeLockRegister, setWakeLock and clientCancel of `suspend_ipc.c` | the table of holders, the kernel's locks and the bus |
| `SuspendProofs`, `SuspendVoteProofs`, `RetryBackoffProofs`, `ShutdownProofs`, `TimeoutsProofs`, `AlarmsProofs`, `IdlePolicyProofs`, `WakeLockClientsProofs` | | theorems |

**Suspend.** `pc` is the suspend thread's control point: its loop, or a state
function of `kStateMachine`. A state function is split where the main thread can
act in between and make a difference: StateSuspendRequest into the zeroing of the
counters, one step per client of PwrEventVoteInit's walk, the broadcast, the wait
and the decision; StateSleep into the clock reading, the activity check, the other
vetoes, the kernel call, the wake and the return. `main` is the main thread's
control point: handlers that touch wakelocks or signal a wait object have several
steps. `queue` is the updates posted to the suspend loop. While the kernel is down
(`down`) nothing runs. `owed` is a history variable (a prepareSuspend has been
broadcast, no resume since), `asked` records which clients have a signal to answer
and is used only to tell polite clients from others.

Three switches describe the callers. `Churn`: clients may register and leave during a
vote; the unlocked updates of the counters are then a choice among the values the
race can leave (`RacyAdd`). `Revotes`: they may answer unasked, late or again.
"recall" in `Stimuli`: a resume may also be asked for between a prepareSuspend and its
resume; without it such a call waits (`MayAskResume`).

**SuspendCycle** is the protocol as a client sees it: asked, told to prepare, the kernel
down, told to resume, with the kernel going down only while a prepareSuspend is
unanswered. `Suspend` implements it without "recall". With it, it does not: ForceResume
broadcasts a resume and the cycle goes on to suspend the kernel.

Time is abstracted to what is read of it: an activity is live or expired, a hold is
on or over. A clock reading that is kept (`sTimeOnSuspended`) is the set `past` of
entries that had expired when it was taken.

**RetryBackoff** has time in ticks. Deadlines are kept as the time left, so that
the state space is finite and the tick counts everything down. Each thread's `at`
is its next atomic access; reading the clock and storing the deadline are two
steps. IdleCheck's look at the hold and StateOn's acting on the event it posts are two
steps as well: `posted` counts the idle events that wait for the suspend loop, with
forced cycles before, between and behind them. History variables: `raced`, the two
threads have been inside the policy at the same time; `awake`, the time since the last
resume broadcast; `old`, which deadlines, on record or in the main thread's hands, were
computed before that broadcast; `stale`, how many of the posted events are from before
it, or were posted on the word of such a deadline.

**Shutdown** runs on the main thread only. `run` is the record of the machine's
globals, and each state function of the C code is an operator from one such record
to the next, calling the next state's operator where shutdown_state_dispatch would
loop. `run.timer` is the timeout whose id is on record, `run.stale` counts armed
timeouts whose id has been overwritten or dropped. Two history variables: `tested`,
TESTresetShutdownState has been called; `rude`, a client has acked twice or out of
its round, or has come or gone during one.

**Timeouts** keeps time relative, in ticks of a second: a row's `left` is its expiry
minus the reference clock, `drift` is how far the wall clock has moved away from the
reference clock, the delta that the next update_reference_time absorbs. `job` is the
call the main thread is in (_timeout_set, _timeout_clear, _update_timeouts), one step
per SQL statement that changes a row, one for the selection and one for the arming of
what was selected; `sus` is the suspend thread around queue_next_wakeup and the
kernel's sleep, with the same two steps. `sus.blind` is a history variable: the rows
that the suspend thread's alarm need not be early enough for, because they were due,
or changed, after it had looked. `poked` is a resume signal or an RTC callback
waiting for the main loop.

**Alarms** runs on the main thread; a call is the list `todo` of its steps, each with
at most one effect on file or table, so that a crash (`Restart`) can come between any
two. alarm_write_db is two: fopen empties the file, fclose has it filled. Of module
`Timeouts` only what it shows is kept: a row that is due is delivered before the next
second. History variables: `owed`, the alarms whose callers have been answered and
that have neither fired nor been removed; `short`, the file was last written while it
was being read; `torn`, a crash or a clock change came between a row and its alarm;
`lossy`, the daemon died with an incomplete file.

**DisplayStatus**: the hub's announcements (`hub`) and the replies to our calls
(`inbox`) each keep their order and are not ordered with each other. **IdlePolicy**
composes it with the timer source (`interval`, `left`, `alive`), the suspend
thread's loop (`thread`, `deadline`, `woken`) and the main thread's ScheduleIdleCheck,
whose two halves are two steps (`firing`). Only the time modulo the granularity
(`phase`) matters for the rounding. `wanted` is a history variable: a check at once has
been asked for, no check has read the state since, and the request is still pending
("check") or "lost" to a write that set the expiration anew (`Overwrites`).

**WakeLockClients** numbers the registrations: a number is the unique token of the
registering message. `watched` are those whose end the bus will report.

Operators marked `Mutant` are deliberately wrong versions of the definition that
follows them; no specification uses them. They are what shows that a property can
fail.

## 3. What is checked

### Runs that pass

| Run | Instance | Shows |
|---|---|---|
| `SuspendWakelocks` | 2 activities, no clients, all outside events, wakelocks | `TypeOK`; `ShutdownKeepsAwake`: once SuspendInhibitForShutdown has returned the kernel does not go down, also for a cycle past its look at the flag; `NoSleepUnderActivity`: an idle cycle never suspends under an activity whose start has returned |
| `SuspendVote` | 2 clients, both rounds, timeouts, spurious wakeups | `ApprovalNeedsEveryAck`: the counters never approve a round without the recorded ACK of each client that requires it; `EveryPrepareResumed` |
| `SuspendLive` | 1 client, 1 activity, no wakelocks, display and resume events, fairness | `NoSleepUnderActivity` where it rests on the freeze; `FrozenOnlyInSleep`: no way out of StateSleep leaves it on; `PreparedClientsAreResumed`, `HandlersReturn` (no handler stuck on a wait object's lock), `ForceSuspendIsServed`, `ImplementsCycle` (refinement of `SuspendCycle`, its fairness included) as long as no resume is asked for between a prepareSuspend and its resume |
| `Backoff` | base 2, cap 7 ticks, 2 idle events under way | `HoldBounded`, `RefusalsDouble` under every interleaving, and `MinimumTimeAwake` for every idle event that is not outdated; `LoneResetTakesEffect` as long as the threads have not met |
| `Shutdown` | 2 names, 2 callers, clients that may do anything, fairness | `TypeOK`, `TimerMatchesRound`, `HeldAwakeThroughout`; `StageNeedsAcks` until a client has been rude; `SequenceEnds`, `ForcedActionRuns` |
| `Timeouts` | 2 keys, one clock change or restart, fairness | `WakesInTime`: the kernel is not down with a wakeup row overdue that the suspend thread could have seen; `DeliveredOnTime`; `RelativeKeepDistance`: setting the clock does not move a relative timeout; `DueIsDelivered`, also after a crash |
| `Alarms` | 2 ids, two clock changes or restarts, fairness | `TypeOK`, `IdsAreUnique`; `FileHoldsQueue`; `AnsweredAlarmsSurvive` a crash at any point outside the write itself; `AlarmsAreBacked` by a row due at the same time; `DueAlarmsFire` |
| `IdlePolicy` | granularity and idle wait 8 ticks, 2 outside events, fairness | `TypeOK`; `RequestIsKept`: a check asked for at once stays due until one reads the state, unless one of five writes overtakes it, the source is always due within the longest wait, and no poll outlasts it; `DisplayBelieved`; `NoBusyLoop`; `ChecksGoOn` with a lost source or a stuck poll; `OffLeadsToAttempt` |
| `WakeLockClients` | 2 names, 3 registrations, fairness | `KernelFollowsTable`; `OnlyTheGoneAreCancelled`: a late cancellation spares the new holder of the name; `CrashedClientsAreReleased` |

Why the bounds are enough. Two activities: one to hold the device and one that
comes or goes meanwhile; the wakelocks of different ids do not interact otherwise.
Two clients: one whose answer is missing and one whose answer could stand in for
it. One or two queued updates: the one being acted on and one posted behind it.
`MaxCount` 2 is the number of clients; it only binds when answers repeat. Base 2
and cap 7: the cap is neither a multiple of the base nor reached in one doubling,
so the clamping, the doubling and the halved comparison all matter. Two idle events: one
that is acted on and one posted before or after it. Two names in each
of the two shutdown tables: a round with one ack missing of two; `MaxStale` and
`MaxAcks` only bind with the test's reset or with rude clients. Two timeouts: one that
has been seen and one that comes in between, of each kind; `MaxLeft` 1 with clock
jumps of 2, so that a change of the clock makes pending rows overdue and puts due
ones off; one upset, since each undoes what the last one left. Two alarm ids, so that
an id is reused after a restart and a file is half read. The granularity of 8 has a
quarter of 2: the rounding goes up, down and nowhere. Two outside events: a display
manager that goes and comes back, a source lost with an activity. Three
registrations: a name taken over while the cancellation of its first holder is under
way, beside another one. The safety results that are proved (section 4) hold without
the bounds.

Fairness. `Suspend!FairSpec`: a step of the cycle that stays possible is taken (the
suspend thread is scheduled, a timed wait ends, the kernel wakes by alarm or key), and
a handler that has begun goes on. The latter is strong fairness: the kernel's sleep
stops the main thread too, so that a handler is not continuously enabled while cycles
go on, and only a scheduler that starves it for ever between two sleeps would violate
it. No fairness for calls of clients, for idle checks, for spurious wakeups or for the
end of a hold. `Shutdown!FairSpec`: an armed GLib timeout is dispatched; clients may
never answer. `Timeouts`, `Alarms` and `IdlePolicy`: a call in progress goes on, a
ready source is dispatched, what the bus has accepted is delivered, the watchdog's
period comes round, time passes. `WakeLockClients`: the bus delivers a cancellation it
has to report.

Deadlock is checked except in `Shutdown`, which stops when nyx has taken the device
down, and `WakeLockClients`, where all tokens may have been used and all callers gone.

### Runs that end in a counterexample

Each states what a comment of the code says, and shows how the code departs from it.

| Run | Comment | What happens |
|---|---|---|
| `VoteRevotes` | "true when all clients have acked" (`client.c:614`) | An ACK is counted whenever it differs from the answer on record; a NACK afterwards, or the walk of PwrEventVoteInit resetting the answer, does not take it off. The count then stands for another client |
| `WakelockLeak` | a wakelock must not be left "with no roster entry left to ever release it" (`activity.c:536`) | The roster mutex is released before the wakelock is taken; the idle check removes the entry, expired meanwhile, in between |
| `TimeoutsTimer` | "The timer source covers the same timeout while the device is awake, and every non-wakeup timeout" (`timeout_alarm.c:587`) | with a wakeup timeout pending the timer is set for it alone (`:663`); a non-wakeup one that is due before it waits for it. `DeliveredOnTime` states what does hold |

### Noticed while reading, no run

- A NACK that is recorded after the wait has timed out, or by a client that does
  not require the round, does not stop it (`suspend.c:138-140` reads otherwise).
- StateOn acts on an idle event without looking again at the display (`suspend.c:684`).
- Without kernel wakelocks a shutdown that begins after `suspend.c:1066` does not
  stop the suspend in progress; `ShutdownKeepsAwake` is stated for the instance with
  wakelocks and proved under that assumption.
- The "minimum time awake after a resume" (`src/files/conf/sleepd.conf:33`) is not kept by
  two kinds of idle event, since only IdleCheck looks at the hold (`suspend.c:410`) and
  StateOn does not (`:684`): one posted before the resume, behind the event of another
  cycle, and one posted after a reset that had read the clock before the resume stored
  its deadline over that of the resume (`:548`). `MinimumTimeAwake` excepts exactly these
  two; TLC refutes it without either exception.
- A second initiate replaces the first caller, who gets no reply (`shutdown.c:947-954`);
  `SequenceEnds` promises an answer to the caller on record.
- Cancelling an application by name looks its id up among the services
  (`shutdown.c:603`): the application stays registered until its subscription ends.
- TESTresetShutdownState leaves the timeout and a forced action in place
  (`shutdown.c:978`).
- One counter serves both shutdown tables and counts every ack (`shutdown.c:382`): one
  of the other table's, a late or a repeated one stands in for a client that has not
  answered, while `shutdown.c:208-210` says "if all the registered applications respond
  back". `StageNeedsAcks` holds until the first such ack (`rude`).
- ForceResume broadcasts resume at once, and its update is dispatched after the cycle
  in progress: the kernel may go down after clients were told that the device is awake
  (`suspend.c:1494`; `suspend.h:48-52` says it unwinds the suspend path). With "recall"
  among the `Stimuli` of `SuspendLive`, TLC refutes `ImplementsCycle` in this way; without
  it, it holds.
- A reset between the load and the store of SuspendRetryBackOff is overwritten
  (`suspend.c:603`): `LoneResetTakesEffect` is stated for threads that have not met.
- A clock set back by exactly one second gives a delta of -1, which _update_timeouts
  takes for the error value: the relative timeouts are not adjusted
  (`timeout_alarm.c:743`). `RelativeKeepDistance` exempts that step.
- _recalculate_timeouts reads the expiry with atoi (`timeout_alarm.c:338`), an int.
- The comment at `alarm.c:997` says that the recalculation is also done on init; it is
  not. A crash between a change of the clock and the recalculation leaves relative
  alarms and timeouts off by the change (`torn`).
- The alarm file is truncated before it is written, without a temporary file
  (`alarm.c:918`); a start-up that fires an expired alarm rewrites it with what has
  been read so far (`lossy`, `short`).
- alarmRemove clears the timeout first, which may fire alarms and free the iterator it
  goes on to remove (`alarm.c:684-688`).
- A wakelock client on the com.webos.service.power handle is not reported when it
  drops, although `suspend_ipc.c:144-146` says that "a crashed client must not leak its
  wakelock"; nor are kernel locks released when sleepd itself restarts.
- "The idle countdown starts from here, not from the next poll" (`suspend.c:1253`) does
  not hold for a request that another write overtakes: one made after a running check has
  read the state and before it has rescheduled and re-armed itself (`suspend.c:484`,
  `timersource.c:161`), one made during a cycle that ends in a resume or an abort
  (`suspend.c:1147`, `:1188`),
  one followed at once by TESTSuspend (`suspend_ipc.c:629`), one made of a source that is
  being replaced. Such a request waits for the time written instead, which may be the
  duration of an activity that has just ended. `RequestIsKept` says so.
- "Never let the expiration land on now" (`timersource.c:78`) needs an interval of at
  least a quarter of the granularity; below that the rounding can reach back. The
  intervals of the shipped configuration are long enough, which `IdlePolicy` assumes;
  `config.c:129-134` takes any.

## 4. What is proved

The theorems hold for every set of clients, activities, names and callers and every
bound, under the `ASSUME`s of the modules (finite sets, Boolean switches, a positive
base interval; the cap may be anything, also below the base).

**SuspendProofs.** `TypeCorrect`. The safety properties are not inductive: that the
kernel is not down under an activity depends on what each half-finished handler has
still to do. `SafetyInv` adds
- `DownInv`: the kernel is down exactly at "Asleep";
- `ShutdownInv`: with wakelocks, once the flag is set the wakelock is held, or
  SuspendInhibitForShutdown is about to take it;
- `ActivityInv`: a handler at startInsert has no entry (`HandlerInv`); entries in
  `past` have really expired (`PastInv`); with wakelocks each live entry has its
  wakelock, except the one being started (`LockInv`); frozen activities are not
  live, and between the freeze and the kernel call of an idle cycle they are frozen
  (`FreezeInv`).

From it: `FrozenSafe`, `PrepareSafe`, `ActivitySafe`, and `ShutdownSafe` for kernels
with wakelocks. None of these uses any assumption on the clients: they hold with
`Churn` and `Revotes`. `CycleImplemented` proves the safety part of the refinement:
initial states map to initial states and every step to a step of `SuspendCycle` or
to a stutter. It assumes that "recall" is not among the `Stimuli`, and needs
`PreparedInv`: from the prepareSuspend to the end of the cycle no resume has been sent.

**SuspendVoteProofs.** The votes count, the property speaks of sets: `RoundInv` says that,
as far as PwrEventVoteInit's walk has come, the number of a round is the cardinality of
the clients that require it and its acks that of the clients on record with an ACK; and
that a client with a signal to answer has not acknowledged it yet, so that no ACK is
counted twice. Equal cardinalities of a set and its subset then make `VoteSafe`. It
assumes neither `Churn` nor `Revotes`, which the run `VoteRevotes` shows to be necessary,
and nothing about when a wait ends.

**RetryBackoffProofs.** `BackoffInv` adds to the type and to `HoldBounded` that every
delay and deadline still in flight in either thread is within the limit, and what
the back-off on record is after a refusal. From it `HoldSafe` and `DoublingSafe`,
for any base and cap and every interleaving of the atomic accesses. `LoneInv` is about
threads that have not met: one of them at most is inside the policy (`ApartInv`), and a
back-off at its base goes with a hold of at most the base unless a reset is about to
store one (`ResetInv`). From it `ResetSafe`. `AwakeInv` needs no such assumption: a
deadline that is not `old` ends the minimum time after the resume at the earliest, and
an idle event that is not stale was posted after that time. From it `AwakeSafe`.

**ShutdownProofs.** A lemma per state function says what it leaves of the record;
`DispatchCases` puts them together. `ShutdownTypeCorrect`, `ShutdownHeldAwake` and
`TimerSafe` hold whatever the clients do. `StagesSafe`: as long as no client has been
rude, the count of a round is the cardinality of the set of clients that have acked in
it, all of them still registered, and no service has acked while the applications are
asked; as many acks as clients are then the acks of all of them.

**TimeoutsProofs.** `WakesInTime` speaks of a sleeping device only. `CoverInv` says what
holds on the way there: the alarm the suspend thread has selected, armed or sleeps
under is no later than any wakeup row it is not blind to, and one the main thread is
about to arm over it is no later than any wakeup row at all, unless the main thread
was frozen in between. `JobInv` says which rows are still to be adjusted. Together with
the types they are inductive (`TimeoutsInvariant`), for any keys, bounds and jumps of
the clock. From it `WakesSafe`, and `DistanceSafe` from `JobInv` step by step. `TimerInv`
is the same for the timer: unless an update is on its way, the timer of an awake device
is due no more than its rounding after any row it answers for, also the one the main
thread is about to set. From it `DeliveredSafe`.

**AlarmsProofs.** A call of `alarm.c` is the list of steps it has still to take, and what
is true of the queue, the file and the rows between two steps depends on which are left.
`Ordered` says which steps may follow which; lemmas on sequences, proved from the
library's, carry it from call to call. On it rest

- `OrderInv`: alarms are left to be read only before the end of alarm_read_db, an
  adjustment is in progress only until the file is written after it;
- `IdsInv`: the next id is past all ids but those still to be read;
- `FileInv`: with no write pending the file is what has been read and what is to be read;
- `SurviveInv`: an answered alarm is in memory or to be read, and on disk but for the
  time of a write; the alarm being added or removed is not owed;
- `BackInv`: once the adjustment in progress has reached it, an answered alarm has its
  row, or a look for expired alarms is pending (`RowsBack`); the row to be set is that of
  its alarm (`RowIsAlarm`); what is owed on disk is as it is in memory (`FileBack`), which
  is what a restart needs.

Moving and adjusting alarms keep ids and commute with membership (`ShiftFacts`,
`AdjustFacts`). From `AlarmsInvariant`: `IdsSafe`, `FileSafe`, `SurviveSafe` and
`BackedSafe`, for any number of alarms, crashes and changes of the clock.

**IdlePolicyProofs.** `StreamInv` says what the last reply under way, or when there is none
the belief itself, is worth; `SpansInv` that nothing shorter than the granularity reaches
the source; `BoundInv` that nothing longer than the longest wait does, nor may yet; `BusyInv`
that, after a check, the next is not due in the same tick unless asked for. The three parts
of `RequestIsKept` are inductive given these and the types. From them `DisplaySafe`, `RequestSafe`, `NoBusyLoopSafe` and `IdleTypeCorrect`, for any granularity,
waits and holds.

**WakeLockClientsProofs.** `KernelFollowsTable` is inductive together with the types and
`ToldAreGone`, that a cancellation on its way is of a caller that is gone; a lemma says
what wakelock_client_free leaves of a set of entries. From it `KernelFollows` and
`CancelsSpareTheLiving`.

Only model-checked: everything under fairness (`PreparedClientsAreResumed`,
`HandlersReturn`, `ForceSuspendIsServed`, the fairness half of `ImplementsCycle`,
`SequenceEnds`, `ForcedActionRuns`, `DueIsDelivered`, `DueAlarmsFire`, `ChecksGoOn`,
`OffLeadsToAttempt`, `CrashedClientsAreReleased`), which this prover does not reach.
Every other property of a passing run is a theorem.

## 5. Abstractions, and what is not modelled

- Payloads, replies, logging, NACK statistics; a handler that rejects its message
  changes nothing and is no action.
- In `Suspend` the idle check may run at any time the suspend thread is in its loop,
  and may decline although its conditions hold (a near wakeup, `/tmp/suspend_active`);
  when it runs is the subject of `IdlePolicy`, which in turn sees of a cycle only that
  it ends. `enable_idle_check_thread` is taken to be true: without it there is no
  suspend thread.
- `IdlePolicy`: the store of the 64-bit expiration is taken to be atomic; what a
  display manager that has gone left in the queue is read before the next one's
  replies. The granularity is not 0 and no wait is shorter than it. A shutdown, on which
  the check and the watchdog return at once (`suspend.c:361`, `:505`), does not begin.
- `Timeouts` and `Alarms`: sqlite statements and file writes succeed (the table cannot
  be left half changed by one statement), nyx may refuse an alarm; a nyx without RTC
  alarms (NYX_ERROR_NOT_IMPLEMENTED) is taken not to be the case, since nothing can
  wake such a device. A second passes only outside the code. An alarm whose
  subscription is refused uses up an id and is not modelled.
- `charger` stands for `chargerIsConnected && !suspend_with_charger`.
- `Suspend` sees of the retry policy whether a hold is on and whether there is a
  streak, and takes a refusal to have grown the back-off (cap above base).
- RTC callbacks are main-thread handlers; nyx may call them on a thread of its own.
- A rehash of the client table under PwrEventVoteInit's walk is undefined behaviour;
  the model has the walk meet or miss the entry, not a corrupted table.
- A failing broadcast or sysfs write is not modelled; queue_next_wakeup and
  MachineSleep may fail.
- `clientCancel` stands for clientCancelByName too, as far as suspend clients go.
- Shutdown: one entry per name and table; `nyx_system_set_alarm` of
  state_shutdown_action is left out; `num_nack` is always 0.
- Not modelled: the time saver (`timesaver.c`), which saves the wall clock and restores
  it at boot before the daemon does anything else; start-up, configuration and the
  charger subscription of `main.c`, which forwards to ChargerStatus; parsing and reply
  helpers, sysfs access, logging: no state that the properties see. The RTC watchdog
  (`WITHOUT_RTC_WATCHDOG` unset) refers to a function that the sources do not have.

## 6. Plan

Done: all modules of section 2, and the proof of every property that needs no fairness.
Left, for proof: the safety steps behind the liveness properties, that is which steps may
undo the progress each of them waits for (`SequenceEnds`, `DueIsDelivered`), as action
properties with theorems of their own.

## 7. Running it

    tlc -config SuspendVote.cfg Suspend
    tlapm SuspendProofs.tla
