------------------------------- MODULE Suspend --------------------------------
(***************************************************************************)
(* The suspend/resume state machine of pwrevents/suspend.c and the luna    *)
(* handlers of pwrevents/suspend_ipc.c that drive it.                      *)
(*                                                                         *)
(* Two threads run.  The suspend thread dispatches the idle check and the  *)
(* posted state updates; one update runs the state machine from On until   *)
(* it is back in On.  The main thread runs one luna handler at a time.     *)
(* Both share, without a common lock, the client table (PwrClients), the   *)
(* activities (Activities) and the flags declared here.                    *)
(*                                                                         *)
(* pc is the suspend thread's control point: "loop" is its main loop, the  *)
(* other values are the state functions, split where the main thread can   *)
(* act in between and be noticed.  main is the main thread's: "idle", or   *)
(* the rest of a handler that is more than one step.                       *)
(***************************************************************************)
EXTENDS PwrClients, Activities, Sequences

CONSTANTS
    MaxQueue,   \* bound: state updates posted and not yet dispatched
    Churn,      \* clients may register and leave while a vote is under way
    Revotes,    \* clients may answer again, late, or unasked
    Stimuli,    \* which outside events an instance offers besides client calls
    NoOne       \* the subject of an idle main thread

ASSUME SuspendAssumption ==
    /\ MaxQueue \in Nat \ {0}
    /\ Churn \in BOOLEAN /\ Revotes \in BOOLEAN
    /\ Stimuli \subseteq {"resume", "recall", "shutdown", "charger", "display", "alarm"}
    /\ NoOne \notin Ids \cup Clients

VARIABLES
    pc,         \* suspend thread: control point
    event,      \* gSuspendEvent
    forced,     \* gForcedSuspend
    timedout,   \* the local timeout of the two vote states
    queue,      \* SuspendStateUpdate sources attached to suspend_loop
    down,       \* the kernel is suspended
    held,       \* now < sNoSuspendBeforeUs
    refusing,   \* sRefusalStreak # 0
    inhibited,  \* gShutdownInProgress
    shutlock,   \* kernel wakelock "sleepd_shutdown" is held
    charger,    \* MachineCanSleep() is false: on the charger, and that matters
    display,    \* gDisplayIsOn
    main,       \* main thread: control point and subject
    owed,       \* history: prepareSuspend broadcast, no resume since
    asked       \* clients: asked[r] have a round r signal to answer

threadVars == <<pc, event, forced, timedout, queue, down>>
flagVars == <<held, refusing, inhibited, shutlock, charger, display>>
vars == <<clientVars, activityVars, threadVars, flagVars, main, owed, asked>>

Events == {"None", "Force", "Idle"}

MainIdle == [at |-> "idle", who |-> NoOne]

MainStates ==
    [at : {"idle", "shutdownLock"}, who : {NoOne}]
    \cup [at : {"startUnlock", "startInsert", "startLock", "endUnlock"}, who : Ids]
    \cup [at : {"signalSR", "signalPS"}, who : Clients]

ControlPoints ==
    {"loop", "On", "OnIdle", "SuspendRequest", "VoteInit", "SRWait",
     "SRDecide", "PrepareSuspend", "PSWait", "PSDecide", "Sleep",
     "SleepActivities", "SleepVetoes", "MachineSleep", "Asleep", "Woken",
     "KernelResume", "ActivityResume", "AbortSuspend"}

ThreadTypeOK ==
    /\ pc \in ControlPoints
    /\ event \in Events
    /\ queue \in Seq(Events)
    /\ Len(queue) <= MaxQueue
    /\ main \in MainStates
    /\ asked \in [Rounds -> SUBSET Clients]

FlagTypeOK ==
    /\ forced \in BOOLEAN /\ timedout \in BOOLEAN /\ down \in BOOLEAN
    /\ held \in BOOLEAN /\ refusing \in BOOLEAN /\ inhibited \in BOOLEAN
    /\ shutlock \in BOOLEAN /\ charger \in BOOLEAN /\ display \in BOOLEAN
    /\ owed \in BOOLEAN

\* The types of both threads, the flags, the client table and the activities.
TypeOK == ClientsTypeOK /\ ActivitiesTypeOK /\ ThreadTypeOK /\ FlagTypeOK

\* SuspendInit, with the display taken to be on until the display manager
\* says otherwise and the charger unplugged until the battery service does.
SuspendInit ==
    /\ PwrEventClientTableCreate
    /\ _activity_init
    /\ pc = "loop" /\ event = "None" /\ queue = <<>>
    /\ forced = FALSE /\ timedout = FALSE /\ down = FALSE
    /\ held = FALSE /\ refusing = FALSE /\ inhibited = FALSE
    /\ shutlock = FALSE /\ charger = FALSE /\ display = TRUE
    /\ main = MainIdle
    /\ owed = FALSE
    /\ asked = [r \in Rounds |-> {}]

-------------------------------------------------------------------------------
(* Pieces shared by several handlers. *)

MachineCanSleep == ~charger

SuspendInhibited == inhibited

\* gCurrentStateNode.state == kPowerStateOn, as the main thread reads it.
InStateOn == pc \in {"loop", "On"}

\* Attach one more SuspendStateUpdate source.
Post(e) == Len(queue) < MaxQueue /\ queue' = Append(queue, e)

\* TriggerSuspend: dropped once a shutdown has begun.
TriggerSuspend(e) ==
    IF SuspendInhibited THEN UNCHANGED queue ELSE Post(e)

\* TriggerResume(kPowerEventNone).
TriggerResume == IF InStateOn THEN UNCHANGED queue ELSE Post("None")

\* SuspendRetryReset: the streak ends; if the back-off had grown, the current
\* hold is replaced by the base one.
SuspendRetryReset ==
    /\ refusing' = FALSE
    /\ held' = (held \/ refusing)

\* SuspendRetryBackOff, as far as this module sees it: module RetryBackoff has
\* the delays.
SuspendRetryBackOff == refusing' = TRUE /\ held' = TRUE

SendResume == owed' = FALSE

\* What the kernel lets through: no suspend while a wakelock is held.
KernelMaySuspend == wakelock = {} /\ ~shutlock

-------------------------------------------------------------------------------
(* Main thread: activities. *)

MainAt(step) == ~down /\ main.at = step

\* _activity_start / _activity_stop, first half: the entry leaves the roster,
\* and its wakelock is released only if there was one.
StopEntry(i, unlocking, next) ==
    /\ _activity_remove_id(i)
    /\ main' = IF roster[i] # "none" THEN [at |-> unlocking, who |-> i] ELSE next
    /\ UNCHANGED <<frozen, wakelock>>

\* activityStartCallback up to and including the removal of the old entry.
ActivityStart(i) ==
    /\ MainAt("idle")
    /\ IF Wakelocks THEN TriggerResume ELSE UNCHANGED queue
    /\ SuspendRetryReset
    /\ StopEntry(i, "startUnlock", [at |-> "startInsert", who |-> i])
    /\ UNCHANGED <<clientVars, pc, event, forced, timedout, down, inhibited,
                   shutlock, charger, display, owed, asked>>

ActivityStartUnlock ==
    /\ MainAt("startUnlock")
    /\ _activity_wakelock_unlock(main.who)
    /\ main' = [main EXCEPT !.at = "startInsert"]
    /\ UNCHANGED <<clientVars, roster, past, frozen, threadVars, flagVars, owed, asked>>

\* Frozen: the handler replies "Activities Frozen" and nothing else happens.
ActivityStartInsert ==
    /\ MainAt("startInsert")
    /\ IF frozen
       THEN /\ main' = MainIdle
            /\ UNCHANGED <<roster, past>>
       ELSE /\ _activity_insert(main.who)
            /\ main' = [main EXCEPT !.at = "startLock"]
    /\ UNCHANGED <<clientVars, frozen, wakelock, threadVars, flagVars, owed, asked>>

ActivityStartLock ==
    /\ MainAt("startLock")
    /\ _activity_wakelock_lock(main.who)
    /\ main' = MainIdle
    /\ UNCHANGED <<clientVars, roster, past, frozen, threadVars, flagVars, owed, asked>>

\* activityEndCallback.
ActivityStop(i) ==
    /\ MainAt("idle")
    /\ StopEntry(i, "endUnlock", MainIdle)
    /\ UNCHANGED <<clientVars, threadVars, flagVars, owed, asked>>

ActivityStopUnlock ==
    /\ MainAt("endUnlock")
    /\ _activity_wakelock_unlock(main.who)
    /\ main' = MainIdle
    /\ UNCHANGED <<clientVars, roster, past, frozen, threadVars, flagVars, owed, asked>>

-------------------------------------------------------------------------------
(* Main thread: clients and their votes. *)

\* With Churn FALSE clients come and go only between suspend cycles.
TableMayChange == Churn \/ InStateOn

identifyCallback(c) ==
    /\ MainAt("idle") /\ TableMayChange
    /\ PwrEventClientRegister(c)
    /\ UNCHANGED <<activityVars, threadVars, flagVars, main, owed, asked>>

\* The bus reports that a subscriber has gone.
clientCancel(c) ==
    /\ MainAt("idle") /\ TableMayChange
    /\ PwrEventClientUnregister(c)
    /\ asked' = [r \in Rounds |-> asked[r] \ {c}]
    /\ UNCHANGED <<activityVars, threadVars, flagVars, main, owed>>

suspendRequestRegister(c, reg) ==
    /\ MainAt("idle") /\ TableMayChange
    /\ PwrEventClientSuspendRequestRegister(c, reg)
    /\ UNCHANGED <<activityVars, threadVars, flagVars, main, owed, asked>>

prepareSuspendRegister(c, reg) ==
    /\ MainAt("idle") /\ TableMayChange
    /\ PwrEventClientPrepareSuspendRegister(c, reg)
    /\ UNCHANGED <<activityVars, threadVars, flagVars, main, owed, asked>>

\* With Revotes FALSE a client answers a broadcast at most once.
MayVote(r, c) == c \in table /\ (Revotes \/ c \in asked[r])

\* The vote is recorded without the wait object's lock; if it decides the
\* round the handler goes on to WaitObjectSignal.
AfterVote(r, c, a, signal) ==
    /\ main' = IF VoteDecides(r, a) THEN [at |-> signal, who |-> c] ELSE MainIdle
    /\ asked' = [asked EXCEPT ![r] = @ \ {c}]
    /\ UNCHANGED <<activityVars, threadVars, flagVars, owed>>

suspendRequestAck(c, a) ==
    /\ MainAt("idle") /\ MayVote("SR", c)
    /\ PwrEventVoteSuspendRequest(c, a)
    /\ AfterVote("SR", c, a, "signalSR")

prepareSuspendAck(c, a) ==
    /\ MainAt("idle") /\ MayVote("PS", c)
    /\ PwrEventVotePrepareSuspend(c, a)
    /\ AfterVote("PS", c, a, "signalPS")

\* Mutant: a signal that insists on finding a waiter.
SignalNeedsWaiter(signal, waiting, decide) ==
    /\ MainAt(signal)
    /\ pc = waiting
    /\ pc' = decide
    /\ timedout' = FALSE
    /\ main' = MainIdle
    /\ UNCHANGED <<clientVars, activityVars, event, forced, queue, down, flagVars,
                   owed, asked>>

\* WaitObjectSignal takes the lock first: the suspend thread holds the one of
\* gWaitSuspendResponse from before PwrEventVoteInit until it waits.  A signal
\* that finds nobody waiting is lost.
WaitObjectSignal(signal, waiting, decide) ==
    /\ MainAt(signal)
    /\ signal = "signalSR" => pc # "VoteInit"
    /\ pc' = IF pc = waiting THEN decide ELSE pc
    /\ timedout' = IF pc = waiting THEN FALSE ELSE timedout
    /\ main' = MainIdle
    /\ UNCHANGED <<clientVars, activityVars, event, forced, queue, down, flagVars,
                   owed, asked>>

SignalSuspendResponse == WaitObjectSignal("signalSR", "SRWait", "SRDecide")

SignalPrepareSuspend == WaitObjectSignal("signalPS", "PSWait", "PSDecide")

-------------------------------------------------------------------------------
(* Main thread: the remaining luna methods and status callbacks. *)

forceSuspendCallback ==
    /\ MainAt("idle")
    /\ TriggerSuspend("Force")
    /\ UNCHANGED <<clientVars, activityVars, pc, event, forced, timedout, down,
                   flagVars, main, owed, asked>>

\* Without "recall" a resume is asked for only while no prepareSuspend is unanswered.
MayAskResume == "recall" \in Stimuli \/ ~owed

\* ForceResume: poke the state machine, which sees it once the cycle in progress has
\* ended, and broadcast regardless.
resumeCallback ==
    /\ MainAt("idle") /\ MayAskResume
    /\ TriggerResume
    /\ SendResume
    /\ UNCHANGED <<clientVars, activityVars, pc, event, forced, timedout, down,
                   flagVars, main, asked>>

\* Mutant: the flag alone, no kernel wakelock.
InhibitByFlagOnly ==
    /\ MainAt("idle") /\ ~inhibited
    /\ inhibited' = TRUE
    /\ UNCHANGED <<clientVars, activityVars, threadVars, held, refusing, shutlock,
                   charger, display, main, owed, asked>>

\* SuspendInhibitForShutdown: the compare-and-exchange, then the wakelock.
SuspendInhibitForShutdown ==
    /\ MainAt("idle") /\ ~inhibited
    /\ inhibited' = TRUE
    /\ main' = IF Wakelocks THEN [at |-> "shutdownLock", who |-> NoOne] ELSE MainIdle
    /\ UNCHANGED <<clientVars, activityVars, threadVars, held, refusing, shutlock,
                   charger, display, owed, asked>>

ShutdownLock ==
    /\ MainAt("shutdownLock")
    /\ shutlock' = TRUE
    /\ main' = MainIdle
    /\ UNCHANGED <<clientVars, activityVars, threadVars, held, refusing, inhibited,
                   charger, display, owed, asked>>

\* A charger payload that changes what is known of the charger.
ChargerStatus ==
    /\ MainAt("idle")
    /\ charger' = ~charger
    /\ SuspendRetryReset
    /\ UNCHANGED <<clientVars, activityVars, threadVars, inhibited, shutlock,
                   display, main, owed, asked>>

\* A display payload, error or hub message that changes gDisplayIsOn.
DisplayStatusCb ==
    /\ MainAt("idle")
    /\ display' = ~display
    /\ SuspendRetryReset
    /\ UNCHANGED <<clientVars, activityVars, threadVars, inhibited, shutlock,
                   charger, main, owed, asked>>

\* The RTC alarm fired.
_rtc_alarm_fired ==
    /\ MainAt("idle")
    /\ SuspendRetryReset
    /\ TriggerResume
    /\ UNCHANGED <<clientVars, activityVars, pc, event, forced, timedout, down,
                   inhibited, shutlock, charger, display, main, owed, asked>>

\* The display manager has gone: unknown counts as on.
DisplayServerStatusCb ==
    /\ MainAt("idle") /\ ~display
    /\ display' = TRUE
    /\ UNCHANGED <<clientVars, activityVars, threadVars, held, refusing, inhibited,
                   shutlock, charger, main, owed, asked>>

-------------------------------------------------------------------------------
(* Suspend thread: its main loop. *)

SuspendAt(point) == ~down /\ pc = point

\* The conditions under which an idle check starts a suspend cycle.  It may
\* decline even so: a wakeup timeout is near, or /tmp/suspend_active is absent.
IdleCheckTriggers == ~display /\ ~held /\ PwrEventActivityCanSleep

IdleCheck ==
    /\ SuspendAt("loop") /\ ~SuspendInhibited
    /\ PwrEventActivityRemoveExpired
    /\ \/ UNCHANGED queue
       \/ IdleCheckTriggers /\ TriggerSuspend("Idle")
    /\ UNCHANGED <<clientVars, frozen, pc, event, forced, timedout, down, flagVars,
                   main, owed, asked>>

\* Dispatch of a posted source: SuspendStateUpdate enters the state machine,
\* which is in On whenever the thread is in its loop.
SuspendStateUpdate ==
    /\ SuspendAt("loop") /\ queue # <<>>
    /\ event' = Head(queue)
    /\ queue' = Tail(queue)
    /\ pc' = "On"
    /\ UNCHANGED <<clientVars, activityVars, forced, timedout, down, flagVars,
                   main, owed, asked>>

-------------------------------------------------------------------------------
(* Suspend thread: the state functions. *)

\* Mutant: the event is cleared before it is looked at.
StateOnClearsFirst ==
    /\ SuspendAt("On")
    /\ event' = "None"
    /\ forced' = FALSE
    /\ pc' = "loop"
    /\ UNCHANGED <<clientVars, activityVars, timedout, queue, down, flagVars,
                   main, owed, asked>>

\* kPowerStateLast leaves the machine in On and ends the update.
StateOn ==
    /\ SuspendAt("On")
    /\ pc' = CASE event = "Force" -> "SuspendRequest"
               [] event = "Idle"  -> "OnIdle"
               [] event = "None"  -> "loop"
    /\ forced' = (event = "Force")
    /\ event' = "None"
    /\ UNCHANGED <<clientVars, activityVars, timedout, queue, down, flagVars,
                   main, owed, asked>>

\* Mutant: one past the last entry of kStateMachine.
StateOnIdleRunsOff ==
    /\ SuspendAt("OnIdle")
    /\ pc' = "Last"
    /\ UNCHANGED <<clientVars, activityVars, event, forced, timedout, queue, down,
                   flagVars, main, owed, asked>>

StateOnIdle ==
    /\ SuspendAt("OnIdle")
    /\ pc' = IF MachineCanSleep THEN "SuspendRequest" ELSE "On"
    /\ UNCHANGED <<clientVars, activityVars, event, forced, timedout, queue, down,
                   flagVars, main, owed, asked>>

\* With Revotes FALSE the clients that require round r have it to answer.
Ask(r) == asked' = IF Revotes THEN asked ELSE [asked EXCEPT ![r] = req[r]]

\* ... and an answer that comes after the decision is never sent.
Close(r) == asked' = [asked EXCEPT ![r] = {}]

\* StateSuspendRequest: lock, PwrEventVoteInit (its helper once per client),
\* broadcast, wait unless the counters already approve.
StateSuspendRequest ==
    /\ SuspendAt("SuspendRequest")
    /\ PwrEventVoteInit
    /\ pc' = "VoteInit"
    /\ UNCHANGED <<activityVars, event, forced, timedout, queue, down, flagVars,
                   main, owed, asked>>

CountClient(c) ==
    /\ SuspendAt("VoteInit")
    /\ PwrEventVoteInitHelper(c)
    /\ UNCHANGED <<activityVars, threadVars, flagVars, main, owed, asked>>

SendSuspendRequest ==
    /\ SuspendAt("VoteInit") /\ todo = {}
    /\ Ask("SR")
    /\ pc' = IF PwrEventClientsApproveSuspendRequest THEN "SRDecide" ELSE "SRWait"
    /\ timedout' = FALSE
    /\ UNCHANGED <<clientVars, activityVars, event, forced, queue, down, flagVars,
                   main, owed>>

\* WaitObjectWait without a signal: the timeout (30 s, 5 s), or one of the
\* spurious wakeups pthread_cond_timedwait may have, which looks like a signal.
WaitObjectWait(waiting, decide, late) ==
    /\ SuspendAt(waiting)
    /\ pc' = decide
    /\ timedout' = late
    /\ UNCHANGED <<clientVars, activityVars, event, forced, queue, down, flagVars,
                   main, owed, asked>>

WaitTimesOut ==
    \/ WaitObjectWait("SRWait", "SRDecide", TRUE)
    \/ WaitObjectWait("PSWait", "PSDecide", TRUE)

SpuriousWakeup ==
    \/ WaitObjectWait("SRWait", "SRDecide", FALSE)
    \/ WaitObjectWait("PSWait", "PSDecide", FALSE)

\* How a round ends: silence counts as consent, otherwise the counters decide.
RoundPasses(r) == timedout \/ Approve(r)

\* Mutant: a refused suspendRequest is aborted like a refused prepareSuspend.
RefusalIsAborted ==
    /\ SuspendAt("SRDecide")
    /\ pc' = IF RoundPasses("SR") THEN "PrepareSuspend" ELSE "AbortSuspend"
    /\ Close("SR")
    /\ UNCHANGED <<clientVars, activityVars, event, forced, timedout, queue, down,
                   flagVars, main, owed>>

DecideSuspendRequest ==
    /\ SuspendAt("SRDecide")
    /\ pc' = IF RoundPasses("SR") THEN "PrepareSuspend" ELSE "On"
    /\ Close("SR")
    /\ UNCHANGED <<clientVars, activityVars, event, forced, timedout, queue, down,
                   flagVars, main, owed>>

StatePrepareSuspend ==
    /\ SuspendAt("PrepareSuspend")
    /\ owed' = TRUE
    /\ Ask("PS")
    /\ pc' = IF PwrEventClientsApprovePrepareSuspend THEN "PSDecide" ELSE "PSWait"
    /\ timedout' = FALSE
    /\ UNCHANGED <<clientVars, activityVars, event, forced, queue, down, flagVars,
                   main>>

\* Mutant: a refused prepareSuspend goes straight back to On.
RefusalSkipsAbort ==
    /\ SuspendAt("PSDecide")
    /\ pc' = IF RoundPasses("PS") THEN "Sleep" ELSE "On"
    /\ Close("PS")
    /\ UNCHANGED <<clientVars, activityVars, event, forced, timedout, queue, down,
                   flagVars, main, owed>>

DecidePrepareSuspend ==
    /\ SuspendAt("PSDecide")
    /\ pc' = IF RoundPasses("PS") THEN "Sleep" ELSE "AbortSuspend"
    /\ Close("PS")
    /\ UNCHANGED <<clientVars, activityVars, event, forced, timedout, queue, down,
                   flagVars, main, owed>>

-------------------------------------------------------------------------------
(* Suspend thread: StateSleep and the way back. *)

\* Announces the attempt (not during a refusal streak), reads the clock into
\* sTimeOnSuspended and saves the time to disk.
StateSleep ==
    /\ SuspendAt("Sleep")
    /\ ReadClock
    /\ pc' = "SleepActivities"
    /\ UNCHANGED <<clientVars, roster, frozen, wakelock, event, forced, timedout,
                   queue, down, flagVars, main, owed, asked>>

\* CheckActivitiesActive returns NoneActive; without wakelocks it also freezes.
CheckActivitiesActive ==
    IF Wakelocks THEN UNCHANGED frozen ELSE PwrEventFreezeActivities

\* Mutant: thaws only after a real suspend.
LeaveSleepThawsOnWake(next) ==
    /\ frozen' = (frozen /\ next # "KernelResume")
    /\ forced' = FALSE
    /\ pc' = next

\* The end of StateSleep, on every path but the activity one.
LeaveSleep(next) ==
    /\ PwrEventThawActivities
    /\ forced' = FALSE
    /\ pc' = next

\* An idle cycle yields to an activity; a forced one does not ask.
SleepActivities ==
    /\ SuspendAt("SleepActivities")
    /\ IF forced
       THEN pc' = "SleepVetoes" /\ UNCHANGED <<frozen, forced>>
       ELSE /\ CheckActivitiesActive
            /\ pc' = IF NoneActive THEN "SleepVetoes" ELSE "ActivityResume"
            /\ forced' = FALSE
    /\ UNCHANGED <<clientVars, roster, past, wakelock, event, timedout, queue, down,
                   flagVars, main, owed, asked>>

\* The charger (idle cycles only) and a shutdown in progress stop the attempt.
SleepVetoed == (~forced /\ ~MachineCanSleep) \/ SuspendInhibited

\* queue_next_wakeup() may fail as well.
SleepVetoes ==
    /\ SuspendAt("SleepVetoes")
    /\ \/ LeaveSleep("AbortSuspend")
       \/ ~SleepVetoed /\ pc' = "MachineSleep" /\ UNCHANGED <<frozen, forced>>
    /\ UNCHANGED <<clientVars, roster, past, wakelock, event, timedout, queue, down,
                   flagVars, main, owed, asked>>

\* MachineSleep() returns false: the kernel never went down.
MachineSleepRefused ==
    /\ SuspendAt("MachineSleep")
    /\ LeaveSleep("AbortSuspend")
    /\ SuspendRetryBackOff
    /\ UNCHANGED <<clientVars, roster, past, wakelock, event, timedout, queue, down,
                   inhibited, shutlock, charger, display, main, owed, asked>>

\* MachineSleep() suspends the kernel: until KernelWakes nothing else runs.
MachineSleep ==
    /\ SuspendAt("MachineSleep") /\ KernelMaySuspend
    /\ down' = TRUE
    /\ pc' = "Asleep"
    /\ UNCHANGED <<clientVars, activityVars, event, forced, timedout, queue,
                   flagVars, main, owed, asked>>

KernelWakes ==
    /\ down /\ pc = "Asleep"
    /\ down' = FALSE
    /\ pc' = "Woken"
    /\ UNCHANGED <<clientVars, activityVars, event, forced, timedout, queue,
                   flagVars, main, owed, asked>>

SleepReturns ==
    /\ SuspendAt("Woken")
    /\ LeaveSleep("KernelResume")
    /\ UNCHANGED <<clientVars, roster, past, wakelock, event, timedout, queue, down,
                   flagVars, main, owed, asked>>

\* The three ways back to On thaw, broadcast resume and hold the next attempt.
ThawWithoutWakelocks ==
    IF Wakelocks THEN UNCHANGED frozen ELSE PwrEventThawActivities

\* Mutant: an aborted suspend is not announced.
AbortSilently ==
    /\ SuspendAt("AbortSuspend")
    /\ ThawWithoutWakelocks
    /\ held' = TRUE
    /\ pc' = "On"
    /\ UNCHANGED <<clientVars, roster, past, wakelock, event, forced, timedout,
                   queue, down, refusing, inhibited, shutlock, charger, display,
                   main, owed, asked>>

StateAbortSuspend ==
    /\ SuspendAt("AbortSuspend")
    /\ ThawWithoutWakelocks
    /\ SendResume
    /\ held' = TRUE
    /\ pc' = "On"
    /\ UNCHANGED <<clientVars, roster, past, wakelock, event, forced, timedout,
                   queue, down, refusing, inhibited, shutlock, charger, display,
                   main, asked>>

_stateResume(state) ==
    /\ SuspendAt(state)
    /\ ThawWithoutWakelocks
    /\ SendResume
    /\ refusing' = FALSE
    /\ held' = TRUE
    /\ pc' = "On"
    /\ UNCHANGED <<clientVars, roster, past, wakelock, event, forced, timedout,
                   queue, down, inhibited, shutlock, charger, display, main, asked>>

StateKernelResume == _stateResume("KernelResume")

StateActivityResume == _stateResume("ActivityResume")

-------------------------------------------------------------------------------
(* The passing of time, as far as the threads can see it. *)

ActivityExpires(i) ==
    /\ ~down
    /\ Expire(i)
    /\ UNCHANGED <<clientVars, threadVars, flagVars, main, owed, asked>>

HoldEnds ==
    /\ ~down /\ held
    /\ held' = FALSE
    /\ UNCHANGED <<clientVars, activityVars, threadVars, refusing, inhibited,
                   shutlock, charger, display, main, owed, asked>>

-------------------------------------------------------------------------------

\* One handler of the main thread begins.
MainBegins ==
    \/ \E i \in Ids : ActivityStart(i) \/ ActivityStop(i)
    \/ \E c \in Clients : identifyCallback(c) \/ clientCancel(c)
    \/ \E c \in Clients, reg \in BOOLEAN :
          suspendRequestRegister(c, reg) \/ prepareSuspendRegister(c, reg)
    \/ \E c \in Clients, a \in {"ACK", "NACK"} :
          suspendRequestAck(c, a) \/ prepareSuspendAck(c, a)
    \/ forceSuspendCallback
    \/ "resume" \in Stimuli /\ resumeCallback
    \/ "shutdown" \in Stimuli /\ SuspendInhibitForShutdown
    \/ "charger" \in Stimuli /\ ChargerStatus
    \/ "display" \in Stimuli /\ (DisplayStatusCb \/ DisplayServerStatusCb)
    \/ "alarm" \in Stimuli /\ _rtc_alarm_fired

\* One handler of the main thread goes on.
MainContinues ==
    \/ ActivityStartUnlock \/ ActivityStartInsert \/ ActivityStartLock
    \/ ActivityStopUnlock \/ SignalSuspendResponse \/ SignalPrepareSuspend
    \/ ShutdownLock

\* One step of a suspend cycle, whoever takes it: thread, timer or kernel.
CycleStep ==
    \/ SuspendStateUpdate \/ StateOn \/ StateOnIdle
    \/ StateSuspendRequest \/ SendSuspendRequest \/ DecideSuspendRequest
    \/ \E c \in Clients : CountClient(c)
    \/ StatePrepareSuspend \/ DecidePrepareSuspend \/ WaitTimesOut
    \/ StateSleep \/ SleepActivities \/ SleepVetoes
    \/ MachineSleep \/ MachineSleepRefused \/ KernelWakes \/ SleepReturns
    \/ StateAbortSuspend \/ StateKernelResume \/ StateActivityResume

TimePasses == HoldEnds \/ \E i \in Ids : ActivityExpires(i)

Next ==
    \/ MainBegins \/ MainContinues
    \/ IdleCheck \/ CycleStep \/ SpuriousWakeup
    \/ TimePasses

Spec == SuspendInit /\ [][Next]_vars

\* Both threads are scheduled, timed waits end and the kernel wakes up again
\* (the wakeup alarm, the power key).  Nothing obliges a client to call, an
\* idle check to find the device idle or a wakeup to be spurious.  The kernel's
\* sleep stops the main thread too: a handler that could go on again and again
\* between two sleeps is scheduled at some time.
FairSpec == Spec /\ WF_vars(CycleStep) /\ SF_vars(MainContinues)

-------------------------------------------------------------------------------
(* Safety. *)

\* The points between the freeze and the thaw of StateSleep.
InsideSleep == pc \in {"SleepVetoes", "MachineSleep", "Asleep", "Woken"}

\* Activities are frozen only while StateSleep is under way (suspend.c:1056-1096):
\* no path out of it, veto, refusal or wake, leaves activityStart failing.
FrozenOnlyInSleep == frozen => InsideSleep /\ ~forced

\* The points at which the clients have no unanswered prepareSuspend.
BeforePrepare ==
    pc \in {"loop", "On", "OnIdle", "SuspendRequest", "VoteInit", "SRWait",
            "SRDecide", "PrepareSuspend"}

\* A client that acted on prepareSuspend has been sent a resume by the time the
\* state machine is back in On (suspend.c:1019-1022 says why they wait for it).
EveryPrepareResumed == BeforePrepare => ~owed

\* Once SuspendInhibitForShutdown has returned the kernel is never down again
\* (suspend.c:1498-1521): the flag stops cycles that have still to be checked,
\* the wakelock those already past the check.
ShutdownKeepsAwake == down => ~inhibited \/ main.at = "shutdownLock"

KernelGoesDown == ~down /\ down'

\* An idle cycle never takes the kernel down under an activity whose start has
\* been answered and whose time is not over (suspend.c:1056 with the wakelock
\* of activity.c:439, or with the freeze of activity.c:747).
NoSleepUnderActivity ==
    [][KernelGoesDown /\ ~forced =>
         \A i \in Ids : roster[i] = "live" =>
             main = [at |-> "startLock", who |-> i]]_vars

\* A round that passes without timing out has the recorded ACK of every client
\* that requires it (suspend.c:136-146, the counters of client.c:683-697).
ApprovalNeedsEveryAck ==
    [][\A r \in Rounds :
         /\ pc = (IF r = "SR" THEN "SRDecide" ELSE "PSDecide")
         /\ pc' = (IF r = "SR" THEN "PrepareSuspend" ELSE "Sleep")
         /\ ~timedout
         => \A c \in req[r] : ack[r][c] = "ACK"]_vars

(* Liveness, under FairSpec. *)

\* prepareSuspend is always followed by resume: no vote, veto, refusal or wake
\* leaves the clients prepared for ever (suspend.c:1119-1191).
PreparedClientsAreResumed == owed ~> ~owed

\* No luna handler stays stuck: the lock WaitObjectSignal needs is always given
\* up, also when the suspend thread is between PwrEventVoteInit and its wait.
HandlersReturn == main.at # "idle" ~> main.at = "idle"

\* A forceSuspend that was accepted gets its vote, whatever is queued before it
\* and however the cycle in progress ends (suspend.c:611-633, 673-703).
ForceSuspendIsServed ==
    (\E k \in DOMAIN queue : queue[k] = "Force") ~> pc = "SuspendRequest"

-------------------------------------------------------------------------------
(* The client protocol of SuspendCycle is implemented: each control point is in *)
(* one phase of it.                                                            *)

Phase ==
    CASE pc \in {"loop", "On", "OnIdle", "SuspendRequest", "VoteInit"} -> "awake"
      [] pc \in {"SRWait", "SRDecide", "PrepareSuspend"} -> "asking"
      [] pc \in {"PSWait", "PSDecide", "Sleep", "SleepActivities", "SleepVetoes",
                 "MachineSleep"} -> "preparing"
      [] pc = "Asleep" -> "asleep"
      [] OTHER -> "returning"

Cycle == INSTANCE SuspendCycle WITH phase <- Phase

\* As long as nobody calls the resume method between a prepareSuspend and its resume
\* ("recall" \notin Stimuli), every behaviour of the two threads is a behaviour of
\* SuspendCycle: the signals go out in the order the clients rely on, the kernel goes
\* down only between a prepareSuspend and its resume, and every cycle ends
\* (suspend.c:611-1204).  A recall breaks it: ForceResume (suspend.c:1489-1496) tells
\* the clients resume and lets the cycle go on to the kernel.
ImplementsCycle == Cycle!CycleSpec

-------------------------------------------------------------------------------
(* What a comment of the code says and the code does not do.                   *)

\* activity.c:536-538: a wakelock must not be left "with no roster entry left to
\* ever release it".  An entry being started or stopped is still accounted for.
EveryWakelockHasAnEntry ==
    \A i \in wakelock : roster[i] # "none" \/ main.who = i
===============================================================================
