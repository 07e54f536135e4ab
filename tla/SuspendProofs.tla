----------------------------- MODULE SuspendProofs -----------------------------
(***************************************************************************)
(* Machine-checked proofs about module Suspend, for every set of clients   *)
(* and activities and every bound on the queue and the counters.           *)
(*                                                                         *)
(* The frame lemmas say which actions touch the client table and which the *)
(* activities; every other step leaves them alone, and the invariance      *)
(* proofs only look at the former.                                         *)
(***************************************************************************)
EXTENDS Suspend, TLAPS

\* The steps that change the client table or its counters.
ClientStep ==
    \/ \E c \in Clients : identifyCallback(c) \/ clientCancel(c)
    \/ \E c \in Clients, reg \in BOOLEAN :
          suspendRequestRegister(c, reg) \/ prepareSuspendRegister(c, reg)
    \/ \E c \in Clients, a \in {"ACK", "NACK"} :
          suspendRequestAck(c, a) \/ prepareSuspendAck(c, a)
    \/ StateSuspendRequest
    \/ \E c \in Clients : CountClient(c)

\* The steps of the main thread that change the roster or a wakelock.
RosterStep ==
    \/ \E i \in Ids : ActivityStart(i) \/ ActivityStop(i) \/ ActivityExpires(i)
    \/ ActivityStartUnlock \/ ActivityStartInsert \/ ActivityStartLock
    \/ ActivityStopUnlock \/ IdleCheck

\* The steps of the suspend thread that read the clock, freeze or thaw.
FreezeStep ==
    \/ StateSleep \/ SleepActivities \/ SleepVetoes \/ MachineSleepRefused
    \/ SleepReturns \/ StateAbortSuspend \/ StateKernelResume \/ StateActivityResume

\* Every step that is not a client step leaves the client table alone.
LEMMA ClientFrame == [Next]_vars => ClientStep \/ UNCHANGED clientVars
  <1>1. MainContinues => UNCHANGED clientVars
    BY DEF MainContinues, ActivityStartUnlock, ActivityStartInsert, ActivityStartLock,
       ActivityStopUnlock, SignalSuspendResponse, SignalPrepareSuspend,
       WaitObjectSignal, ShutdownLock
  <1>2. MainBegins => ClientStep \/ UNCHANGED clientVars
    BY DEF MainBegins, ClientStep, ActivityStart, ActivityStop, forceSuspendCallback,
       resumeCallback, SuspendInhibitForShutdown, ChargerStatus, DisplayStatusCb,
       DisplayServerStatusCb, _rtc_alarm_fired
  <1>3. CycleStep => ClientStep \/ UNCHANGED clientVars
    BY DEF CycleStep, ClientStep, SuspendStateUpdate, StateOn, StateOnIdle,
       SendSuspendRequest, DecideSuspendRequest, StatePrepareSuspend,
       DecidePrepareSuspend, WaitTimesOut, WaitObjectWait, StateSleep,
       SleepActivities, SleepVetoes, MachineSleep, MachineSleepRefused, KernelWakes,
       SleepReturns, StateAbortSuspend, StateKernelResume, StateActivityResume,
       _stateResume
  <1>4. IdleCheck \/ SpuriousWakeup \/ TimePasses => UNCHANGED clientVars
    BY DEF IdleCheck, SpuriousWakeup, TimePasses, WaitObjectWait, HoldEnds,
       ActivityExpires
  <1>5. QED
    BY <1>1, <1>2, <1>3, <1>4 DEF Next, vars

\* Every step that is neither a roster nor a freeze step leaves the activities alone.
LEMMA ActivityFrame == [Next]_vars => RosterStep \/ FreezeStep \/ UNCHANGED activityVars
  <1>1. MainContinues => RosterStep \/ UNCHANGED activityVars
    BY DEF MainContinues, RosterStep, SignalSuspendResponse, SignalPrepareSuspend,
       WaitObjectSignal, ShutdownLock
  <1>2. MainBegins => RosterStep \/ UNCHANGED activityVars
    BY DEF MainBegins, RosterStep, identifyCallback, clientCancel,
       suspendRequestRegister, prepareSuspendRegister, suspendRequestAck,
       prepareSuspendAck, AfterVote, forceSuspendCallback, resumeCallback,
       SuspendInhibitForShutdown, ChargerStatus, DisplayStatusCb,
       DisplayServerStatusCb, _rtc_alarm_fired
  <1>3. CycleStep => FreezeStep \/ UNCHANGED activityVars
    BY DEF CycleStep, FreezeStep, SuspendStateUpdate, StateOn, StateOnIdle,
       StateSuspendRequest, CountClient, SendSuspendRequest, DecideSuspendRequest,
       StatePrepareSuspend, DecidePrepareSuspend, WaitTimesOut, WaitObjectWait,
       MachineSleep, KernelWakes
  <1>4. IdleCheck \/ SpuriousWakeup \/ TimePasses => RosterStep \/ UNCHANGED activityVars
    BY DEF RosterStep, SpuriousWakeup, TimePasses, WaitObjectWait, HoldEnds
  <1>5. QED
    BY <1>1, <1>2, <1>3, <1>4 DEF Next, vars, activityVars
-------------------------------------------------------------------------------
(* Type correctness, one group of variables at a time. *)

\* The client handlers and PwrEventVoteInit keep the table well formed.
LEMMA ClientsTypeStep == TypeOK /\ [Next]_vars => ClientsTypeOK'
  <1> SUFFICES ASSUME TypeOK, [Next]_vars
               PROVE  ClientsTypeOK'
    OBVIOUS
  <1> USE DEF TypeOK, ClientsTypeOK, Rounds, Answers
  <1>1. CASE UNCHANGED clientVars
    BY <1>1 DEF clientVars
  <1>2. ASSUME NEW c \in Clients, identifyCallback(c) \/ clientCancel(c)
        PROVE  ClientsTypeOK'
    BY <1>2 DEF identifyCallback, clientCancel, PwrEventClientRegister,
       PwrEventClientUnregister, ForgetEntry
  <1>3. ASSUME NEW c \in Clients, NEW reg \in BOOLEAN,
               suspendRequestRegister(c, reg) \/ prepareSuspendRegister(c, reg)
        PROVE  ClientsTypeOK'
    BY <1>3 DEF suspendRequestRegister, prepareSuspendRegister,
       PwrEventClientSuspendRequestRegister, PwrEventClientPrepareSuspendRegister,
       RequireRound, RacyAdd, clientVars
  <1>4. ASSUME NEW c \in Clients, NEW a \in {"ACK", "NACK"},
               suspendRequestAck(c, a) \/ prepareSuspendAck(c, a)
        PROVE  ClientsTypeOK'
    BY <1>4 DEF suspendRequestAck, prepareSuspendAck, PwrEventVoteSuspendRequest,
       PwrEventVotePrepareSuspend, Vote, CountedAcks
  <1>5. CASE StateSuspendRequest
    BY <1>5 DEF StateSuspendRequest, PwrEventVoteInit
  <1>6. ASSUME NEW c \in Clients, CountClient(c)
        PROVE  ClientsTypeOK'
    BY <1>6 DEF CountClient, PwrEventVoteInitHelper
  <1>7. QED
    BY <1>1, <1>2, <1>3, <1>4, <1>5, <1>6, ClientFrame DEF ClientStep

\* Roster, freeze flag and wakelocks stay well formed.
LEMMA ActivitiesTypeStep == TypeOK /\ [Next]_vars => ActivitiesTypeOK'
  <1> SUFFICES ASSUME TypeOK, [Next]_vars
               PROVE  ActivitiesTypeOK'
    OBVIOUS
  <1> USE DEF TypeOK, ActivitiesTypeOK
  <1>1. CASE UNCHANGED activityVars
    BY <1>1 DEF activityVars
  <1>2. ASSUME NEW i \in Ids, ActivityStart(i) \/ ActivityStop(i) \/ ActivityExpires(i)
        PROVE  ActivitiesTypeOK'
    BY <1>2 DEF ActivityStart, ActivityStop, ActivityExpires, StopEntry,
       _activity_remove_id, Expire
  <1>3. CASE \/ ActivityStartUnlock \/ ActivityStartInsert \/ ActivityStartLock
             \/ ActivityStopUnlock
    BY <1>3 DEF ActivityStartUnlock, ActivityStartInsert, ActivityStartLock,
       ActivityStopUnlock, _activity_wakelock_lock, _activity_wakelock_unlock,
       _activity_insert, MainAt, ThreadTypeOK, MainStates
  <1>4. CASE IdleCheck
    BY <1>4 DEF IdleCheck, PwrEventActivityRemoveExpired, Expired
  <1>5. CASE FreezeStep
    BY <1>5 DEF FreezeStep, StateSleep, ReadClock, Expired, SleepActivities,
       CheckActivitiesActive, PwrEventFreezeActivities, NoneActive, SleepVetoes,
       LeaveSleep, PwrEventThawActivities, MachineSleepRefused, SleepReturns,
       StateAbortSuspend, ThawWithoutWakelocks, StateKernelResume,
       StateActivityResume, _stateResume
  <1>6. QED
    BY <1>1, <1>2, <1>3, <1>4, <1>5, ActivityFrame DEF RosterStep

\* What posting a state update does to the queue.
LEMMA PostType ==
    ASSUME ThreadTypeOK, NEW e \in Events, Post(e) \/ UNCHANGED queue
    PROVE  queue' \in Seq(Events) /\ Len(queue') <= MaxQueue
  <1>1. CASE UNCHANGED queue
    BY <1>1 DEF ThreadTypeOK
  <1>2. CASE Post(e)
    <2>1. queue' = Append(queue, e) /\ Len(queue) < MaxQueue
      BY <1>2 DEF Post
    <2>2. Len(queue') = Len(queue) + 1 /\ queue' \in Seq(Events)
      BY <2>1 DEF ThreadTypeOK
    <2>3. QED
      BY <2>1, <2>2, SuspendAssumption DEF ThreadTypeOK
  <1>3. QED
    BY <1>1, <1>2

\* The queue holds events and stays within its bound.
LEMMA QueueStep ==
    TypeOK /\ [Next]_vars => queue' \in Seq(Events) /\ Len(queue') <= MaxQueue
  <1> SUFFICES ASSUME TypeOK, [Next]_vars
               PROVE  queue' \in Seq(Events) /\ Len(queue') <= MaxQueue
    OBVIOUS
  <1> DEFINE Posts == \/ UNCHANGED queue
                      \/ \E e \in Events : Post(e)
                      \/ SuspendStateUpdate
  <1>1. Posts => queue' \in Seq(Events) /\ Len(queue') <= MaxQueue
    <2>1. CASE \E e \in Events : Post(e) \/ UNCHANGED queue
      BY <2>1, PostType DEF TypeOK
    <2>2. CASE SuspendStateUpdate
      BY <2>2, SuspendAssumption DEF TypeOK, ThreadTypeOK, SuspendStateUpdate, Events
    <2>3. QED
      BY <2>1, <2>2 DEF Events
  <1>2. MainBegins => Posts
    BY DEF MainBegins, Events, ActivityStart, ActivityStop, identifyCallback,
       clientCancel, suspendRequestRegister, prepareSuspendRegister,
       suspendRequestAck, prepareSuspendAck, AfterVote, forceSuspendCallback,
       resumeCallback, SuspendInhibitForShutdown, ChargerStatus, DisplayStatusCb,
       DisplayServerStatusCb, _rtc_alarm_fired, TriggerResume, TriggerSuspend,
       threadVars
  <1>3. MainContinues => Posts
    BY DEF MainContinues, ActivityStartUnlock, ActivityStartInsert, ActivityStartLock,
       ActivityStopUnlock, SignalSuspendResponse, SignalPrepareSuspend,
       WaitObjectSignal, ShutdownLock, threadVars
  <1>4. IdleCheck \/ SpuriousWakeup \/ TimePasses => Posts
    BY DEF Events, IdleCheck, TriggerSuspend, SpuriousWakeup, TimePasses,
       WaitObjectWait, HoldEnds, ActivityExpires, threadVars
  <1>5. CycleStep => Posts
    BY DEF CycleStep, StateOn, StateOnIdle, StateSuspendRequest, CountClient,
       SendSuspendRequest, DecideSuspendRequest, StatePrepareSuspend,
       DecidePrepareSuspend, WaitTimesOut, WaitObjectWait, StateSleep,
       SleepActivities, SleepVetoes, MachineSleep, MachineSleepRefused, KernelWakes,
       SleepReturns, StateAbortSuspend, StateKernelResume, StateActivityResume,
       _stateResume, threadVars
  <1>6. UNCHANGED vars => Posts
    BY DEF vars, threadVars
  <1>7. QED
    BY <1>1, <1>2, <1>3, <1>4, <1>5, <1>6 DEF Next

\* The control points of the suspend thread and the event it handles.
LEMMA ControlStep == TypeOK /\ [Next]_vars => pc' \in ControlPoints /\ event' \in Events
  <1> SUFFICES ASSUME TypeOK, [Next]_vars
               PROVE  pc' \in ControlPoints /\ event' \in Events
    OBVIOUS
  <1> USE DEF TypeOK, ThreadTypeOK, ControlPoints, Events
  <1>1. CASE MainBegins
    BY <1>1 DEF MainBegins, ActivityStart, ActivityStop, identifyCallback,
       clientCancel, suspendRequestRegister, prepareSuspendRegister,
       suspendRequestAck, prepareSuspendAck, AfterVote, forceSuspendCallback,
       resumeCallback, SuspendInhibitForShutdown, ChargerStatus, DisplayStatusCb,
       DisplayServerStatusCb, _rtc_alarm_fired, threadVars
  <1>2. CASE MainContinues
    BY <1>2 DEF MainContinues, ActivityStartUnlock, ActivityStartInsert,
       ActivityStartLock, ActivityStopUnlock, SignalSuspendResponse,
       SignalPrepareSuspend, WaitObjectSignal, ShutdownLock, threadVars
  <1>3. CASE IdleCheck \/ SpuriousWakeup \/ TimePasses
    BY <1>3 DEF IdleCheck, SpuriousWakeup, TimePasses, WaitObjectWait, HoldEnds,
       ActivityExpires, threadVars
  <1>4. CASE SuspendStateUpdate
    BY <1>4 DEF SuspendStateUpdate
  <1>5. CASE CycleStep /\ ~SuspendStateUpdate
    BY <1>5 DEF CycleStep, StateOn, StateOnIdle, StateSuspendRequest, CountClient,
       SendSuspendRequest, DecideSuspendRequest, StatePrepareSuspend,
       DecidePrepareSuspend, WaitTimesOut, WaitObjectWait, StateSleep,
       SleepActivities, SleepVetoes, LeaveSleep, MachineSleep, MachineSleepRefused,
       KernelWakes, SleepReturns, StateAbortSuspend, StateKernelResume,
       StateActivityResume, _stateResume, threadVars
  <1>6. CASE UNCHANGED vars
    BY <1>6 DEF vars, threadVars
  <1>7. QED
    BY <1>1, <1>2, <1>3, <1>4, <1>5, <1>6 DEF Next

\* The main thread's control point and the clients with a signal to answer.
LEMMA MainStep ==
    TypeOK /\ [Next]_vars => main' \in MainStates /\ asked' \in [Rounds -> SUBSET Clients]
  <1> SUFFICES ASSUME TypeOK, [Next]_vars
               PROVE  main' \in MainStates /\ asked' \in [Rounds -> SUBSET Clients]
    OBVIOUS
  <1> USE DEF TypeOK, ThreadTypeOK, Rounds
  <1>1. CASE UNCHANGED <<main, asked>>
    BY <1>1
  <1>2. ASSUME NEW i \in Ids, ActivityStart(i) \/ ActivityStop(i)
        PROVE  main' \in MainStates /\ UNCHANGED asked
    BY <1>2 DEF ActivityStart, ActivityStop, StopEntry, MainStates, MainIdle
  <1>3. ASSUME NEW c \in Clients, clientCancel(c)
        PROVE  main' = main /\ asked' \in [Rounds -> SUBSET Clients]
    BY <1>3 DEF clientCancel
  <1>4. ASSUME NEW c \in Clients, NEW a \in {"ACK", "NACK"},
               suspendRequestAck(c, a) \/ prepareSuspendAck(c, a)
        PROVE  main' \in MainStates /\ asked' \in [Rounds -> SUBSET Clients]
    <2>1. PICK r \in Rounds, s \in {"signalSR", "signalPS"} : AfterVote(r, c, a, s)
      BY <1>4 DEF suspendRequestAck, prepareSuspendAck
    <2>2. QED
      BY <2>1 DEF AfterVote, MainStates, MainIdle
  <1>5. CASE SuspendInhibitForShutdown
    BY <1>5 DEF SuspendInhibitForShutdown, MainStates, MainIdle
  <1>6. MainBegins => main' \in MainStates /\ asked' \in [Rounds -> SUBSET Clients]
    BY <1>2, <1>3, <1>4, <1>5 DEF MainBegins, identifyCallback, suspendRequestRegister,
       prepareSuspendRegister, forceSuspendCallback, resumeCallback, ChargerStatus,
       DisplayStatusCb, DisplayServerStatusCb, _rtc_alarm_fired
  <1>7. MainContinues => main' \in MainStates /\ UNCHANGED asked
    <2>1. CASE ActivityStartUnlock \/ ActivityStartInsert
      BY <2>1 DEF ActivityStartUnlock, ActivityStartInsert, MainAt, MainStates, MainIdle
    <2>2. MainIdle \in MainStates
      BY DEF MainStates, MainIdle
    <2>3. MainContinues /\ ~(ActivityStartUnlock \/ ActivityStartInsert)
          => main' = MainIdle /\ UNCHANGED asked
      BY DEF MainContinues, ActivityStartLock, ActivityStopUnlock,
         SignalSuspendResponse, SignalPrepareSuspend, WaitObjectSignal, ShutdownLock
    <2>4. QED
      BY <2>1, <2>2, <2>3
  <1>8. IdleCheck \/ SpuriousWakeup \/ TimePasses => UNCHANGED <<main, asked>>
    BY DEF IdleCheck, SpuriousWakeup, TimePasses, WaitObjectWait, HoldEnds,
       ActivityExpires
  <1>9. CASE \/ SendSuspendRequest \/ StatePrepareSuspend
             \/ DecideSuspendRequest \/ DecidePrepareSuspend
    BY <1>9 DEF SendSuspendRequest, StatePrepareSuspend, DecideSuspendRequest,
       DecidePrepareSuspend, Ask, Close, ClientsTypeOK
  <1>10. CycleStep => main' \in MainStates /\ asked' \in [Rounds -> SUBSET Clients]
    BY <1>9 DEF CycleStep, SuspendStateUpdate, StateOn, StateOnIdle, StateSuspendRequest,
       CountClient, WaitTimesOut, WaitObjectWait, StateSleep, SleepActivities,
       SleepVetoes, MachineSleep, MachineSleepRefused, KernelWakes, SleepReturns,
       StateAbortSuspend, StateKernelResume, StateActivityResume, _stateResume
  <1>11. QED
    BY <1>1, <1>6, <1>7, <1>8, <1>10 DEF Next, vars

\* The flags of suspend.c are Booleans after every step.
LEMMA FlagTypeStep == TypeOK /\ [Next]_vars => FlagTypeOK'
  <1> SUFFICES ASSUME TypeOK, [Next]_vars
               PROVE  FlagTypeOK'
    OBVIOUS
  <1> USE DEF TypeOK, FlagTypeOK
  <1>1. CASE UNCHANGED <<forced, timedout, down, flagVars, owed>>
    BY <1>1 DEF flagVars
  <1>2. ASSUME NEW i \in Ids, ActivityStart(i)
        PROVE  FlagTypeOK'
    BY <1>2 DEF ActivityStart, SuspendRetryReset
  <1>3. CASE ChargerStatus
    BY <1>3 DEF ChargerStatus, SuspendRetryReset, threadVars
  <1>4. CASE DisplayStatusCb
    BY <1>4 DEF DisplayStatusCb, SuspendRetryReset, threadVars
  <1>5. CASE DisplayServerStatusCb
    BY <1>5 DEF DisplayServerStatusCb, threadVars
  <1>6. CASE _rtc_alarm_fired
    BY <1>6 DEF _rtc_alarm_fired, SuspendRetryReset
  <1>7. CASE resumeCallback
    BY <1>7 DEF resumeCallback, SendResume, flagVars
  <1>8. CASE SuspendInhibitForShutdown
    BY <1>8 DEF SuspendInhibitForShutdown, threadVars
  <1>9. CASE ShutdownLock
    BY <1>9 DEF ShutdownLock, threadVars
  <1>10. CASE SignalSuspendResponse \/ SignalPrepareSuspend
    BY <1>10 DEF SignalSuspendResponse, SignalPrepareSuspend, WaitObjectSignal, flagVars
  <1>11. CASE WaitTimesOut \/ SpuriousWakeup
    BY <1>11 DEF WaitTimesOut, SpuriousWakeup, WaitObjectWait, flagVars
  <1>12. CASE HoldEnds
    BY <1>12 DEF HoldEnds, threadVars
  <1>13. CASE StateOn
    BY <1>13 DEF StateOn, flagVars
  <1>14. CASE SendSuspendRequest \/ StatePrepareSuspend
    BY <1>14 DEF SendSuspendRequest, StatePrepareSuspend, flagVars
  <1>15. CASE SleepActivities \/ SleepVetoes \/ SleepReturns
    <2>1. CASE SleepActivities
      BY <2>1 DEF SleepActivities, LeaveSleep, flagVars
    <2>2. CASE SleepVetoes
      BY <2>2 DEF SleepVetoes, LeaveSleep, flagVars
    <2>3. CASE SleepReturns
      BY <2>3 DEF SleepReturns, LeaveSleep, flagVars
    <2> QED
      BY <1>15, <2>1, <2>2, <2>3
  <1>16. CASE MachineSleep \/ KernelWakes
    BY <1>16 DEF MachineSleep, KernelWakes, flagVars
  <1>17. CASE MachineSleepRefused
    BY <1>17 DEF MachineSleepRefused, LeaveSleep, SuspendRetryBackOff
  <1>18. CASE StateAbortSuspend
    BY <1>18 DEF StateAbortSuspend, SendResume
  <1>19. CASE StateKernelResume \/ StateActivityResume
    BY <1>19 DEF StateKernelResume, StateActivityResume, _stateResume, SendResume
  <1>20. CASE MainBegins
    BY <1>1, <1>2, <1>3, <1>4, <1>5, <1>6, <1>7, <1>8, <1>20 DEF MainBegins,
       ActivityStop, identifyCallback, clientCancel, suspendRequestRegister,
       prepareSuspendRegister, suspendRequestAck, prepareSuspendAck, AfterVote,
       forceSuspendCallback, threadVars
  <1>21. CASE MainContinues
    BY <1>1, <1>9, <1>10, <1>21 DEF MainContinues, ActivityStartUnlock,
       ActivityStartInsert, ActivityStartLock, ActivityStopUnlock, threadVars
  <1>22. CASE IdleCheck \/ TimePasses
    BY <1>1, <1>12, <1>22 DEF IdleCheck, TimePasses, ActivityExpires, threadVars
  <1>23. CASE CycleStep
    BY <1>1, <1>11, <1>13, <1>14, <1>15, <1>16, <1>17, <1>18, <1>19, <1>23
       DEF CycleStep, SuspendStateUpdate, StateOnIdle, StateSuspendRequest,
       CountClient, DecideSuspendRequest, DecidePrepareSuspend, StateSleep, threadVars
  <1>24. QED
    BY <1>1, <1>11, <1>20, <1>21, <1>22, <1>23 DEF Next, vars, threadVars

\* Every variable keeps its type, whatever the two threads do (the state of
\* suspend.c, client.c and activity.c).
THEOREM TypeCorrect == Spec => []TypeOK
  <1>1. SuspendInit => TypeOK
    <2> SUFFICES ASSUME SuspendInit PROVE TypeOK
      OBVIOUS
    <2> USE DEF SuspendInit
    <2>1. ClientsTypeOK
      BY DEF PwrEventClientTableCreate, ClientsTypeOK, Rounds, Answers
    <2>2. ActivitiesTypeOK
      BY DEF _activity_init, ActivitiesTypeOK
    <2>3. ThreadTypeOK
      BY SuspendAssumption DEF ThreadTypeOK, ControlPoints, Events, MainIdle,
         MainStates, Rounds
    <2>4. FlagTypeOK
      BY DEF FlagTypeOK
    <2>5. QED
      BY <2>1, <2>2, <2>3, <2>4 DEF TypeOK
  <1>2. TypeOK /\ [Next]_vars => TypeOK'
    BY ClientsTypeStep, ActivitiesTypeStep, QueueStep, ControlStep, MainStep,
       FlagTypeStep DEF TypeOK, ThreadTypeOK
  <1>3. QED
    BY <1>1, <1>2, PTL DEF Spec
-------------------------------------------------------------------------------
(* The inductive invariant behind the safety theorems. *)

\* The kernel is down exactly while the suspend thread is inside MachineSleep.
DownInv == down <=> pc = "Asleep"

\* Once the handler that began a shutdown has gone on, its wakelock is held.
ShutdownInv == Wakelocks /\ inhibited => shutlock \/ main.at = "shutdownLock"

\* The entry a start or stop handler is busy with has left the roster.
HandlerInv ==
    main.at \in {"startUnlock", "startInsert", "endUnlock"} => roster[main.who] = "none"

\* What had expired at an earlier reading of the clock has expired.
PastInv == \A i \in past : roster[i] = "expired"

\* A live activity holds its wakelock, unless its start is about to take it.
LockInv ==
    Wakelocks => \A i \in Ids : roster[i] = "live" =>
                     i \in wakelock \/ main = [at |-> "startLock", who |-> i]

\* Frozen activities are not live, and an idle cycle without wakelocks is frozen
\* from its look at the roster until the kernel call.
FreezeInv ==
    /\ frozen => \A i \in Ids : roster[i] # "live"
    /\ ~Wakelocks /\ ~forced /\ pc \in {"SleepVetoes", "MachineSleep"} => frozen

ActivityInv == HandlerInv /\ PastInv /\ LockInv /\ FreezeInv

SafetyInv ==
    DownInv /\ ShutdownInv /\ ActivityInv /\ FrozenOnlyInSleep /\ EveryPrepareResumed

\* What a step of the main thread, or the passing of time, may do to the suspend
\* thread: nothing, except that a signal ends its wait.
LEMMA OthersMoveOnly ==
    ASSUME TypeOK, \/ MainBegins \/ MainContinues \/ IdleCheck \/ SpuriousWakeup
                   \/ TimePasses \/ UNCHANGED vars
    PROVE  /\ UNCHANGED <<forced, down>>
           /\ \/ UNCHANGED pc
              \/ pc = "SRWait" /\ pc' = "SRDecide"
              \/ pc = "PSWait" /\ pc' = "PSDecide"
  <1> DEFINE Moves == /\ UNCHANGED <<forced, down>>
                      /\ \/ UNCHANGED pc
                         \/ pc = "SRWait" /\ pc' = "SRDecide"
                         \/ pc = "PSWait" /\ pc' = "PSDecide"
  <1>1. MainBegins => Moves
    BY DEF MainBegins, ActivityStart, ActivityStop, identifyCallback,
       clientCancel, suspendRequestRegister, prepareSuspendRegister,
       suspendRequestAck, prepareSuspendAck, AfterVote, forceSuspendCallback,
       resumeCallback, SuspendInhibitForShutdown, ChargerStatus, DisplayStatusCb,
       DisplayServerStatusCb, _rtc_alarm_fired, threadVars
  <1>2. MainContinues => Moves
    BY DEF MainContinues, ActivityStartUnlock, ActivityStartInsert,
       ActivityStartLock, ActivityStopUnlock, SignalSuspendResponse,
       SignalPrepareSuspend, WaitObjectSignal, ShutdownLock, threadVars
  <1>3. IdleCheck \/ SpuriousWakeup \/ TimePasses => Moves
    BY DEF IdleCheck, SpuriousWakeup, TimePasses, WaitObjectWait, SuspendAt, HoldEnds,
       ActivityExpires, threadVars
  <1>4. UNCHANGED vars => Moves
    BY DEF vars, threadVars
  <1>5. QED
    BY <1>1, <1>2, <1>3, <1>4

\* The kernel goes down and comes back with the suspend thread's control point.
LEMMA DownStep == TypeOK /\ DownInv /\ [Next]_vars => DownInv'
  <1> SUFFICES ASSUME TypeOK, DownInv, [Next]_vars
               PROVE  DownInv'
    OBVIOUS
  <1>1. CASE MachineSleep \/ KernelWakes
    BY <1>1 DEF DownInv, MachineSleep, KernelWakes
  <1>2. CASE CycleStep /\ ~(MachineSleep \/ KernelWakes)
    <2>1. UNCHANGED down /\ ~down /\ pc' # "Asleep"
      BY <1>2 DEF CycleStep, SuspendAt, SuspendStateUpdate, StateOn, StateOnIdle,
         StateSuspendRequest, CountClient, SendSuspendRequest, DecideSuspendRequest,
         StatePrepareSuspend, DecidePrepareSuspend, WaitTimesOut, WaitObjectWait,
         StateSleep, SleepActivities, SleepVetoes, LeaveSleep, MachineSleepRefused,
         SleepReturns, StateAbortSuspend, StateKernelResume, StateActivityResume,
         _stateResume, threadVars, TypeOK, ThreadTypeOK, Events
    <2>2. QED
      BY <2>1 DEF DownInv
  <1>3. CASE ~CycleStep
    BY <1>3, OthersMoveOnly DEF DownInv, Next
  <1>4. QED
    BY <1>1, <1>2, <1>3

\* Every way out of StateSleep thaws, and nothing but StateSleep freezes.
LEMMA FrozenStep == TypeOK /\ FrozenOnlyInSleep /\ [Next]_vars => FrozenOnlyInSleep'
  <1> SUFFICES ASSUME TypeOK, FrozenOnlyInSleep, [Next]_vars
               PROVE  FrozenOnlyInSleep'
    OBVIOUS
  <1> USE DEF FrozenOnlyInSleep, InsideSleep
  <1>1. CASE FreezeStep
    BY <1>1 DEF FreezeStep, SuspendAt, StateSleep, SleepActivities,
       CheckActivitiesActive, PwrEventFreezeActivities, NoneActive, SleepVetoes,
       LeaveSleep, PwrEventThawActivities, MachineSleepRefused, SleepReturns,
       StateAbortSuspend, ThawWithoutWakelocks, StateKernelResume,
       StateActivityResume, _stateResume
  <1>2. CASE CycleStep /\ ~FreezeStep
    BY <1>2 DEF CycleStep, FreezeStep, SuspendAt, SuspendStateUpdate, StateOn,
       StateOnIdle, StateSuspendRequest, CountClient, SendSuspendRequest,
       DecideSuspendRequest, StatePrepareSuspend, DecidePrepareSuspend,
       WaitTimesOut, WaitObjectWait, MachineSleep, KernelWakes, threadVars,
       activityVars
  <1>3. CASE ~CycleStep
    <2>1. UNCHANGED frozen
      BY <1>3, ActivityFrame DEF RosterStep, FreezeStep, CycleStep, ActivityStart, ActivityStop, ActivityExpires,
         ActivityStartUnlock, ActivityStartInsert, ActivityStartLock,
         ActivityStopUnlock, IdleCheck, StopEntry, Expire, activityVars
    <2>2. QED
      BY <1>3, <2>1, OthersMoveOnly DEF Next
  <1>4. QED
    BY <1>1, <1>2, <1>3

\* Only StatePrepareSuspend makes a resume owed, and no path leads back to On but
\* through a resume.
LEMMA OwedStep == TypeOK /\ EveryPrepareResumed /\ [Next]_vars => EveryPrepareResumed'
  <1> SUFFICES ASSUME TypeOK, EveryPrepareResumed, [Next]_vars
               PROVE  EveryPrepareResumed'
    OBVIOUS
  <1> USE DEF EveryPrepareResumed, BeforePrepare
  <1>1. CASE CycleStep
    BY <1>1 DEF CycleStep, SuspendAt, SuspendStateUpdate, StateOn, StateOnIdle,
       StateSuspendRequest, CountClient, SendSuspendRequest, DecideSuspendRequest,
       StatePrepareSuspend, DecidePrepareSuspend, WaitTimesOut, WaitObjectWait,
       StateSleep, SleepActivities, SleepVetoes, LeaveSleep, MachineSleep,
       MachineSleepRefused, KernelWakes, SleepReturns, StateAbortSuspend,
       StateKernelResume, StateActivityResume, _stateResume, SendResume, threadVars
  <1>2. CASE ~CycleStep
    <2>1. owed' = owed \/ owed' = FALSE
      BY <1>2 DEF Next, MainBegins, ActivityStart, ActivityStop, identifyCallback,
         clientCancel, suspendRequestRegister, prepareSuspendRegister,
         suspendRequestAck, prepareSuspendAck, AfterVote, forceSuspendCallback,
         resumeCallback, SendResume, SuspendInhibitForShutdown, ChargerStatus,
         DisplayStatusCb, DisplayServerStatusCb, _rtc_alarm_fired, MainContinues,
         ActivityStartUnlock, ActivityStartInsert, ActivityStartLock,
         ActivityStopUnlock, SignalSuspendResponse, SignalPrepareSuspend,
         WaitObjectSignal, ShutdownLock, IdleCheck, SpuriousWakeup, TimePasses,
         WaitObjectWait, HoldEnds, ActivityExpires, vars
    <2>2. QED
      BY <1>2, <2>1, OthersMoveOnly DEF Next
  <1>3. QED
    BY <1>1, <1>2

\* The shutdown wakelock follows the flag, and is never released.
LEMMA ShutdownStep == TypeOK /\ ShutdownInv /\ [Next]_vars => ShutdownInv'
  <1> SUFFICES ASSUME TypeOK, ShutdownInv, [Next]_vars
               PROVE  ShutdownInv'
    OBVIOUS
  <1> USE DEF ShutdownInv
  <1>1. CASE SuspendInhibitForShutdown
    BY <1>1 DEF SuspendInhibitForShutdown
  <1>2. CASE ShutdownLock
    BY <1>2 DEF ShutdownLock
  <1>3. CASE UNCHANGED <<inhibited, shutlock>> /\ (main.at = "shutdownLock" => UNCHANGED main)
    BY <1>3
  <1>4. CASE MainBegins
    BY <1>1, <1>3, <1>4 DEF MainBegins, MainAt, ActivityStart, ActivityStop,
       identifyCallback, clientCancel, suspendRequestRegister, prepareSuspendRegister,
       suspendRequestAck, prepareSuspendAck, AfterVote, forceSuspendCallback,
       resumeCallback, ChargerStatus, DisplayStatusCb, DisplayServerStatusCb,
       _rtc_alarm_fired, flagVars
  <1>5. CASE MainContinues
    BY <1>2, <1>3, <1>5 DEF MainContinues, MainAt, ActivityStartUnlock,
       ActivityStartInsert, ActivityStartLock, ActivityStopUnlock,
       SignalSuspendResponse, SignalPrepareSuspend, WaitObjectSignal, flagVars
  <1>6. CASE IdleCheck \/ SpuriousWakeup \/ TimePasses \/ UNCHANGED vars
    BY <1>3, <1>6 DEF IdleCheck, SpuriousWakeup, TimePasses, WaitObjectWait, HoldEnds,
       ActivityExpires, flagVars, vars
  <1>7. CASE CycleStep
    BY <1>3, <1>7 DEF CycleStep, SuspendStateUpdate, StateOn, StateOnIdle,
       StateSuspendRequest, CountClient, SendSuspendRequest, DecideSuspendRequest,
       StatePrepareSuspend, DecidePrepareSuspend, WaitTimesOut, WaitObjectWait,
       StateSleep, SleepActivities, SleepVetoes, MachineSleep,
       MachineSleepRefused, KernelWakes, SleepReturns, StateAbortSuspend,
       StateKernelResume, StateActivityResume, _stateResume, flagVars
  <1>8. QED
    BY <1>4, <1>5, <1>6, <1>7 DEF Next

\* While the kernel is down the main thread stands still: it goes down without a
\* finished SuspendInhibitForShutdown and none can finish before it wakes.
LEMMA ShutdownAwakeStep ==
    ASSUME Wakelocks, TypeOK, DownInv, ShutdownInv, ShutdownKeepsAwake, [Next]_vars
    PROVE  ShutdownKeepsAwake'
  <1> USE DEF ShutdownKeepsAwake
  <1>1. CASE MachineSleep
    BY <1>1 DEF MachineSleep, KernelMaySuspend, ShutdownInv, flagVars
  <1>2. CASE down /\ ~KernelWakes
    <2>1. UNCHANGED vars
      BY <1>2 DEF DownInv, Next, MainBegins, MainAt, ActivityStart, ActivityStop, identifyCallback,
         clientCancel, suspendRequestRegister, prepareSuspendRegister,
         suspendRequestAck, prepareSuspendAck, forceSuspendCallback,
         resumeCallback, SuspendInhibitForShutdown, ChargerStatus,
         DisplayStatusCb, DisplayServerStatusCb, _rtc_alarm_fired, MainContinues,
         ActivityStartUnlock, ActivityStartInsert, ActivityStartLock,
         ActivityStopUnlock, SignalSuspendResponse, SignalPrepareSuspend,
         WaitObjectSignal, ShutdownLock, IdleCheck, SpuriousWakeup, TimePasses,
         WaitObjectWait, HoldEnds, ActivityExpires, CycleStep, SuspendAt,
         SuspendStateUpdate, StateOn, StateOnIdle, StateSuspendRequest, CountClient,
         SendSuspendRequest, DecideSuspendRequest, StatePrepareSuspend,
         DecidePrepareSuspend, WaitTimesOut, StateSleep, SleepActivities, SleepVetoes,
         MachineSleep, MachineSleepRefused, SleepReturns, StateAbortSuspend,
         StateKernelResume, StateActivityResume, _stateResume
    <2>2. QED
      BY <2>1 DEF vars, threadVars, flagVars
  <1>3. CASE KernelWakes
    BY <1>3 DEF KernelWakes
  <1>4. CASE ~down /\ ~MachineSleep
    <2>1. ~down'
      <3>1. CASE CycleStep
        BY <1>4, <3>1 DEF CycleStep, SuspendStateUpdate, StateOn, StateOnIdle,
         StateSuspendRequest, CountClient, SendSuspendRequest, DecideSuspendRequest,
         StatePrepareSuspend, DecidePrepareSuspend, WaitTimesOut, WaitObjectWait,
         StateSleep, SleepActivities, SleepVetoes, MachineSleepRefused, KernelWakes,
         SleepReturns, StateAbortSuspend, StateKernelResume, StateActivityResume,
         _stateResume, threadVars
      <3>2. CASE ~CycleStep
        BY <1>4, <3>2, OthersMoveOnly DEF Next
      <3>3. QED
        BY <3>1, <3>2
    <2>2. QED
      BY <2>1
  <1>5. QED
    BY <1>1, <1>2, <1>3, <1>4

\* A step that is no roster step moves the main thread only to where no activity
\* handler is, or leaves it alone.
LEMMA MainFrame ==
    ASSUME TypeOK, [Next]_vars, ~RosterStep
    PROVE  \/ UNCHANGED main
           \/ /\ main.at \notin {"startUnlock", "startInsert", "startLock", "endUnlock"}
              /\ main'.at \notin {"startUnlock", "startInsert", "startLock", "endUnlock"}
  <1> DEFINE Busy == {"startUnlock", "startInsert", "startLock", "endUnlock"}
  <1> DEFINE Stays == UNCHANGED main \/ (main.at \notin Busy /\ main'.at \notin Busy)
  <1>1. MainBegins => Stays
    BY DEF MainBegins, RosterStep, MainAt, MainIdle, identifyCallback, clientCancel,
       suspendRequestRegister, prepareSuspendRegister, suspendRequestAck,
       prepareSuspendAck, AfterVote, forceSuspendCallback, resumeCallback,
       SuspendInhibitForShutdown, ChargerStatus, DisplayStatusCb,
       DisplayServerStatusCb, _rtc_alarm_fired
  <1>2. MainContinues => Stays
    <2>1. MainContinues => main.at \in {"signalSR", "signalPS", "shutdownLock"} /\ main' = MainIdle
      BY DEF MainContinues, RosterStep, MainAt, SignalSuspendResponse,
         SignalPrepareSuspend, WaitObjectSignal, ShutdownLock
    <2>2. QED
      BY <2>1 DEF MainIdle
  <1>3. IdleCheck \/ SpuriousWakeup \/ TimePasses \/ UNCHANGED vars => Stays
    BY DEF RosterStep, SpuriousWakeup, TimePasses, WaitObjectWait, HoldEnds, vars
  <1>4. CycleStep => Stays
    BY DEF CycleStep, SuspendStateUpdate, StateOn, StateOnIdle,
       StateSuspendRequest, CountClient, SendSuspendRequest, DecideSuspendRequest,
       StatePrepareSuspend, DecidePrepareSuspend, WaitTimesOut, WaitObjectWait,
       StateSleep, SleepActivities, SleepVetoes, MachineSleep, MachineSleepRefused,
       KernelWakes, SleepReturns, StateAbortSuspend, StateKernelResume,
       StateActivityResume, _stateResume
  <1>5. QED
    BY <1>1, <1>2, <1>3, <1>4 DEF Next

\* The steps of the main thread on the roster and the wakelocks.
LEMMA RosterInvStep ==
    ASSUME TypeOK, HandlerInv, PastInv, LockInv, RosterStep
    PROVE  HandlerInv' /\ PastInv' /\ LockInv'
  <1> USE DEF TypeOK, ActivitiesTypeOK, HandlerInv, PastInv, LockInv
  <1>1. ASSUME NEW i \in Ids, ActivityStart(i)
        PROVE  HandlerInv' /\ PastInv' /\ LockInv'
    BY <1>1 DEF ActivityStart, MainAt, StopEntry, _activity_remove_id
  <1>2. ASSUME NEW i \in Ids, ActivityStop(i)
        PROVE  HandlerInv' /\ PastInv' /\ LockInv'
    BY <1>2 DEF ActivityStop, MainAt, MainIdle, StopEntry, _activity_remove_id
  <1>3. ASSUME NEW i \in Ids, ActivityExpires(i)
        PROVE  HandlerInv' /\ PastInv' /\ LockInv'
    BY <1>3 DEF ActivityExpires, Expire
  <1>4. CASE ActivityStartUnlock
    BY <1>4 DEF ActivityStartUnlock, MainAt, _activity_wakelock_unlock, ThreadTypeOK,
       MainStates
  <1>5. CASE ActivityStartInsert
    BY <1>5 DEF ActivityStartInsert, MainAt, MainIdle, _activity_insert, ThreadTypeOK,
       MainStates
  <1>6. CASE ActivityStartLock
    BY <1>6 DEF ActivityStartLock, MainAt, MainIdle, _activity_wakelock_lock,
       ThreadTypeOK, MainStates
  <1>7. CASE ActivityStopUnlock
    BY <1>7 DEF ActivityStopUnlock, MainAt, MainIdle, _activity_wakelock_unlock,
       ThreadTypeOK, MainStates
  <1>8. CASE IdleCheck
    BY <1>8 DEF IdleCheck, PwrEventActivityRemoveExpired, Expired, ThreadTypeOK,
       MainStates
  <1>9. QED
    BY <1>1, <1>2, <1>3, <1>4, <1>5, <1>6, <1>7, <1>8 DEF RosterStep

\* The activities' invariant survives the steps of both threads.
LEMMA ActivityInvStep ==
    TypeOK /\ ActivityInv /\ FrozenOnlyInSleep /\ [Next]_vars => ActivityInv'
  <1> SUFFICES ASSUME TypeOK, ActivityInv, FrozenOnlyInSleep, [Next]_vars
               PROVE  ActivityInv'
    OBVIOUS
  <1> USE DEF ActivityInv
  <1>1. CASE RosterStep
    <2>1. HandlerInv' /\ PastInv' /\ LockInv'
      BY <1>1, RosterInvStep
    <2>2. FreezeInv'
      <3>1. UNCHANGED <<frozen, forced, pc>>
        BY <1>1 DEF RosterStep, ActivityStart, ActivityStop, ActivityExpires,
           ActivityStartUnlock, ActivityStartInsert, ActivityStartLock,
           ActivityStopUnlock, IdleCheck, StopEntry, Expire, threadVars
      <3>2. ASSUME frozen, NEW i \in Ids
            PROVE  roster'[i] # "live"
        BY <1>1, <3>2 DEF FreezeInv, RosterStep, ActivityStart, ActivityStop,
           ActivityExpires, ActivityStartUnlock, ActivityStartInsert,
           ActivityStartLock, ActivityStopUnlock, IdleCheck, StopEntry, Expire,
           _activity_remove_id, PwrEventActivityRemoveExpired, TypeOK,
           ActivitiesTypeOK
      <3>3. QED
        BY <3>1, <3>2 DEF FreezeInv
    <2>3. QED
      BY <2>1, <2>2
  <1>2. CASE ~RosterStep
    <2>1. UNCHANGED <<roster, wakelock>>
      BY <1>2, ActivityFrame DEF FreezeStep, StateSleep, SleepActivities, SleepVetoes,
         MachineSleepRefused, SleepReturns, StateAbortSuspend, StateKernelResume,
         StateActivityResume, _stateResume, activityVars
    <2>2. HandlerInv' /\ LockInv'
      BY <1>2, <2>1, MainFrame DEF HandlerInv, LockInv
    <2>3. PastInv'
      BY <1>2, <2>1, ActivityFrame DEF PastInv, FreezeStep, StateSleep, ReadClock, Expired,
         SleepActivities, SleepVetoes, MachineSleepRefused, SleepReturns,
         StateAbortSuspend, StateKernelResume, StateActivityResume, _stateResume,
         activityVars
    <2>4. FreezeInv'
      <3>1. CASE FreezeStep
        BY <2>1, <3>1 DEF FreezeInv, FrozenOnlyInSleep, InsideSleep, FreezeStep, SuspendAt, StateSleep,
           SleepActivities, CheckActivitiesActive, PwrEventFreezeActivities,
           NoneActive, PastInv, SleepVetoes, LeaveSleep, PwrEventThawActivities,
           MachineSleepRefused, SleepReturns, StateAbortSuspend,
           ThawWithoutWakelocks, StateKernelResume, StateActivityResume, _stateResume
      <3>2. CASE CycleStep /\ ~FreezeStep
        BY <2>1, <3>2 DEF FreezeInv, FreezeStep, CycleStep, SuspendAt, SuspendStateUpdate,
           StateOn, StateOnIdle, StateSuspendRequest, CountClient,
           SendSuspendRequest, DecideSuspendRequest, StatePrepareSuspend,
           DecidePrepareSuspend, WaitTimesOut, WaitObjectWait, MachineSleep,
           KernelWakes, activityVars, threadVars, TypeOK, ThreadTypeOK, Events
      <3>3. CASE ~CycleStep
        <4>1. ~FreezeStep
          BY <3>3 DEF FreezeStep, CycleStep
        <4>2. QED
          BY <1>2, <3>3, <4>1, ActivityFrame, OthersMoveOnly DEF FreezeInv, Next,
             activityVars
      <3>4. QED
        BY <3>1, <3>2, <3>3
    <2>5. QED
      BY <2>2, <2>3, <2>4
  <1>3. QED
    BY <1>1, <1>2
-------------------------------------------------------------------------------
(* Theorems. *)

\* The inductive invariant holds in every reachable state.
THEOREM SafetyInvariant == Spec => []SafetyInv
  <1>1. SuspendInit => SafetyInv
    BY DEF SuspendInit, _activity_init, MainIdle, SafetyInv, DownInv, ShutdownInv,
       ActivityInv, HandlerInv, PastInv, LockInv, FreezeInv, FrozenOnlyInSleep,
       EveryPrepareResumed
  <1>2. TypeOK /\ SafetyInv /\ [Next]_vars => SafetyInv'
    BY DownStep, ShutdownStep, ActivityInvStep, FrozenStep, OwedStep DEF SafetyInv
  <1>3. QED
    BY <1>1, <1>2, TypeCorrect, PTL DEF Spec

\* No path out of StateSleep leaves the activities frozen (suspend.c:1056-1096).
THEOREM FrozenSafe == Spec => []FrozenOnlyInSleep
  BY SafetyInvariant, PTL DEF SafetyInv

\* prepareSuspend is always paired with a resume before the state machine is back
\* in On, however the round, the vetoes and the kernel call end.
THEOREM PrepareSafe == Spec => []EveryPrepareResumed
  BY SafetyInvariant, PTL DEF SafetyInv

\* Where the kernel has wakelocks, it is never down after a completed
\* SuspendInhibitForShutdown, not even for a cycle already past the flag's check.
THEOREM ShutdownSafe == ASSUME Wakelocks PROVE Spec => []ShutdownKeepsAwake
  <1>1. SuspendInit => ShutdownKeepsAwake
    BY DEF SuspendInit, ShutdownKeepsAwake
  <1>2. TypeOK /\ SafetyInv /\ ShutdownKeepsAwake /\ [Next]_vars => ShutdownKeepsAwake'
    BY ShutdownAwakeStep DEF SafetyInv
  <1>3. QED
    BY <1>1, <1>2, TypeCorrect, SafetyInvariant, PTL DEF Spec

\* An idle cycle never takes the kernel down under an activity whose start has
\* returned, with the wakelocks of activity.c or with its freeze.
THEOREM ActivitySafe == Spec => NoSleepUnderActivity
  <1> DEFINE Awake == KernelGoesDown /\ ~forced =>
                        \A i \in Ids : roster[i] = "live" =>
                            main = [at |-> "startLock", who |-> i]
  <1>1. TypeOK /\ SafetyInv /\ [Next]_vars => [Awake]_vars
    <2> SUFFICES ASSUME TypeOK, SafetyInv, [Next]_vars, KernelGoesDown, ~forced,
                        NEW i \in Ids, roster[i] = "live"
                 PROVE  main = [at |-> "startLock", who |-> i]
      OBVIOUS
    <2>1. MachineSleep
      <3>1. CASE CycleStep
        BY <3>1 DEF KernelGoesDown, CycleStep, SuspendStateUpdate, StateOn, StateOnIdle,
           StateSuspendRequest, CountClient, SendSuspendRequest, DecideSuspendRequest,
           StatePrepareSuspend, DecidePrepareSuspend, WaitTimesOut, WaitObjectWait,
           StateSleep, SleepActivities, SleepVetoes, MachineSleepRefused, KernelWakes,
           SleepReturns, StateAbortSuspend, StateKernelResume, StateActivityResume,
           _stateResume, threadVars
      <3>2. CASE ~CycleStep
        BY <3>2, OthersMoveOnly DEF KernelGoesDown, Next
      <3>3. QED
        BY <3>1, <3>2
    <2>2. wakelock = {} /\ pc = "MachineSleep"
      BY <2>1 DEF MachineSleep, KernelMaySuspend, SuspendAt
    <2>3. CASE Wakelocks
      BY <2>2, <2>3 DEF SafetyInv, ActivityInv, LockInv
    <2>4. CASE ~Wakelocks
      BY <2>2, <2>4 DEF SafetyInv, ActivityInv, FreezeInv
    <2>5. QED
      BY <2>3, <2>4
  <1>2. QED
    BY <1>1, TypeCorrect, SafetyInvariant, PTL DEF Spec, NoSleepUnderActivity

\* Without a recall, a resume is owed from prepareSuspend until it is sent.
PreparedInv == BeforePrepare \/ owed

\* Only the ends of a cycle, which lead back to On, pay what is owed.
LEMMA PreparedStep ==
    ASSUME "recall" \notin Stimuli, TypeOK, PreparedInv, [Next]_vars
    PROVE  PreparedInv'
  <1> USE DEF PreparedInv, BeforePrepare
  <1>1. CASE CycleStep
    <2>1. CASE StateAbortSuspend \/ StateKernelResume \/ StateActivityResume
      BY <2>1 DEF StateAbortSuspend, StateKernelResume, StateActivityResume, _stateResume
    <2>2. CASE StatePrepareSuspend
      BY <2>2 DEF StatePrepareSuspend
    <2>3. CASE ~(StateAbortSuspend \/ StateKernelResume \/ StateActivityResume
                 \/ StatePrepareSuspend)
      <3>1. UNCHANGED owed
        BY <1>1, <2>3 DEF CycleStep, SuspendStateUpdate, StateOn, StateOnIdle,
           StateSuspendRequest, CountClient, SendSuspendRequest, DecideSuspendRequest,
           DecidePrepareSuspend, WaitTimesOut, WaitObjectWait, StateSleep,
           SleepActivities, SleepVetoes, MachineSleep, MachineSleepRefused, KernelWakes,
           SleepReturns
      <3>2. ~BeforePrepare' => ~BeforePrepare
        BY <1>1, <2>3 DEF CycleStep, SuspendAt, SuspendStateUpdate, StateOn, StateOnIdle,
           StateSuspendRequest, CountClient, SendSuspendRequest, DecideSuspendRequest,
           DecidePrepareSuspend, WaitTimesOut, WaitObjectWait, StateSleep,
           SleepActivities, SleepVetoes, LeaveSleep, MachineSleep, MachineSleepRefused,
           KernelWakes, SleepReturns, threadVars, TypeOK, ThreadTypeOK, Events
      <3>3. QED
        BY <3>1, <3>2
    <2>4. QED
      BY <2>1, <2>2, <2>3
  <1>2. CASE ~CycleStep
    <2>1. owed' = owed \/ ~owed
      <3>1. CASE resumeCallback
        BY <3>1 DEF resumeCallback, MayAskResume
      <3>2. CASE ~resumeCallback
        BY <1>2, <3>2 DEF Next, MainBegins, ActivityStart, ActivityStop, identifyCallback,
           clientCancel, suspendRequestRegister, prepareSuspendRegister,
           suspendRequestAck, prepareSuspendAck, AfterVote, forceSuspendCallback,
           SuspendInhibitForShutdown, ChargerStatus,
           DisplayStatusCb, DisplayServerStatusCb, _rtc_alarm_fired, MainContinues,
           ActivityStartUnlock, ActivityStartInsert, ActivityStartLock,
           ActivityStopUnlock, SignalSuspendResponse, SignalPrepareSuspend,
           WaitObjectSignal, ShutdownLock, IdleCheck, SpuriousWakeup, TimePasses,
           WaitObjectWait, HoldEnds, ActivityExpires, vars
      <3>3. QED
        BY <3>1, <3>2
    <2>2. QED
      BY <1>2, <2>1, OthersMoveOnly DEF Next
  <1>3. QED
    BY <1>1, <1>2

\* Each step of the two threads is a step of the client protocol or leaves its
\* variables alone.
LEMMA CycleSimulation ==
    ASSUME "recall" \notin Stimuli, TypeOK, PreparedInv, [Next]_vars
    PROVE  [Cycle!CycleNext]_(Cycle!cycleVars)
  <1> USE DEF Cycle!CycleNext, Cycle!cycleVars, Cycle!Ask, Cycle!Refused, Cycle!Prepare,
      Cycle!GoDown, Cycle!GiveUp, Cycle!WakeUp, Cycle!Resume, Phase
  <1>1. CASE \/ SuspendStateUpdate \/ StateOn \/ StateOnIdle \/ StateSuspendRequest
             \/ \E c \in Clients : CountClient(c)
    BY <1>1 DEF SuspendAt, SuspendStateUpdate, StateOn, StateOnIdle,
       StateSuspendRequest, CountClient, threadVars, TypeOK, ThreadTypeOK, Events
  <1>2. CASE \/ SendSuspendRequest \/ DecideSuspendRequest
             \/ StatePrepareSuspend \/ DecidePrepareSuspend
    BY <1>2 DEF SuspendAt, SendSuspendRequest, DecideSuspendRequest,
       StatePrepareSuspend, DecidePrepareSuspend
  <1>3. CASE \/ StateSleep \/ SleepActivities \/ SleepVetoes \/ MachineSleep
             \/ MachineSleepRefused \/ KernelWakes \/ SleepReturns
    BY <1>3 DEF SuspendAt, StateSleep, SleepActivities, SleepVetoes, LeaveSleep,
       MachineSleep, MachineSleepRefused, KernelWakes, SleepReturns, PreparedInv,
       BeforePrepare
  <1>4. CASE StateAbortSuspend \/ StateKernelResume \/ StateActivityResume
    BY <1>4 DEF SuspendAt, StateAbortSuspend, StateKernelResume, StateActivityResume,
       _stateResume, SendResume
  <1>5. CASE resumeCallback
    <2>1. ~owed /\ owed' = FALSE /\ UNCHANGED pc
      BY <1>5 DEF resumeCallback, MayAskResume, SendResume
    <2>2. owed' = owed
      BY <2>1, Zenon DEF TypeOK, FlagTypeOK
    <2>3. QED
      BY <2>1, <2>2
  <1>6. CASE WaitTimesOut \/ SpuriousWakeup
    BY <1>6 DEF SuspendAt, WaitTimesOut, SpuriousWakeup, WaitObjectWait
  <1>7. CASE MainBegins /\ ~resumeCallback
    BY <1>7 DEF MainBegins, ActivityStart, ActivityStop, identifyCallback, clientCancel,
       suspendRequestRegister, prepareSuspendRegister, suspendRequestAck,
       prepareSuspendAck, AfterVote, forceSuspendCallback, SuspendInhibitForShutdown,
       ChargerStatus, DisplayStatusCb, DisplayServerStatusCb, _rtc_alarm_fired,
       threadVars
  <1>8. CASE MainContinues
    BY <1>8 DEF MainContinues, ActivityStartUnlock, ActivityStartInsert,
       ActivityStartLock, ActivityStopUnlock, SignalSuspendResponse,
       SignalPrepareSuspend, WaitObjectSignal, ShutdownLock, threadVars
  <1>9. CASE IdleCheck \/ TimePasses \/ UNCHANGED vars
    BY <1>9 DEF IdleCheck, TimePasses, HoldEnds, ActivityExpires, vars, threadVars
  <1>10. QED
    BY <1>1, <1>2, <1>3, <1>4, <1>5, <1>6, <1>7, <1>8, <1>9 DEF Next, CycleStep

\* As long as nobody asks for a resume between a prepareSuspend and its resume, the two
\* threads implement the safety part of the client protocol: the signals go out in its
\* order and the kernel is down only between a prepareSuspend and the resume that
\* ends the cycle (suspend.c:611-1204).
THEOREM CycleImplemented == ASSUME "recall" \notin Stimuli PROVE Spec => Cycle!CycleSafe
  <1>1. SuspendInit => Cycle!CycleInit /\ PreparedInv
    BY DEF SuspendInit, Cycle!CycleInit, Phase, PreparedInv, BeforePrepare
  <1>2. TypeOK /\ PreparedInv /\ [Next]_vars => PreparedInv'
    BY PreparedStep
  <1>3. TypeOK /\ PreparedInv /\ [Next]_vars => [Cycle!CycleNext]_(Cycle!cycleVars)
    BY CycleSimulation
  <1>4. QED
    BY <1>1, <1>2, <1>3, TypeCorrect, PTL DEF Spec, Cycle!CycleSafe
===============================================================================
