-------------------------- MODULE IdlePolicyProofs --------------------------
(***************************************************************************)
(* Proofs about modules IdlePolicy and DisplayStatus, for any granularity,  *)
(* any waits and holds and any number of events.                            *)
(***************************************************************************)
EXTENDS IdlePolicy, TLAPS

Newest == inbox[Len(inbox)]

\* What the last reply under way, or when there is none the belief itself, is worth: a
\* subscription ends its stream with the state of the screen, an ended one with the
\* error; between two subscriptions the display is believed on.
StreamInv ==
    /\ subscribed /\ inbox # <<>> => Newest = State(screen)
    /\ subscribed /\ inbox = <<>> => displayOn \/ ~screen
    /\ ~subscribed /\ inbox # <<>> => Newest = "error"
    /\ ~subscribed /\ inbox = <<>> /\ ~asked => displayOn
    /\ token /\ subscribed /\ inbox = <<>> /\ ~asked => displayOn = screen

\* Nothing shorter than the granularity is ever given to the source.
SpansInv == interval >= Gran /\ thread.wait >= Gran

\* Every wait the source is given, or may yet be given, is one of those there are, or
\* what is left of one.
Bounded(n) == \E m \in Waits : n <= m
BoundInv == Bounded(interval) /\ Bounded(thread.wait) /\ Bounded(hold) /\ Bounded(busy)

\* Once a check is over, the next one is not due in the same tick unless it was asked for.
BusyInv ==
    thread.at \notin {"check", "resched", "rearm"} /\ since = 0 /\ wanted # "check" => left > 0

IdleInv ==
    TypeOK /\ StreamInv /\ SpansInv /\ BoundInv /\ RequestIsKept /\ BusyInv

-----------------------------------------------------------------------------
(* The display status.                                                      *)

DisplayStep ==
    \/ ServerStarts \/ ServerStops \/ ScreenSwitches \/ ServerReplies \/ DisplayStatusCb
    \/ \E accepted \in BOOLEAN : DisplayServerStatusCb(accepted)

LEMMA StateType == \A lit \in BOOLEAN : State(lit) \in {"on", "off"} /\ (State(lit) = "off" <=> ~lit)
  BY DEF State

\* What appending to the stream of replies and reading from it leave at its end.
LEMMA InboxEnd ==
    ASSUME NEW s \in Seq({"on", "off", "error"})
    PROVE  /\ \A e \in {"on", "off", "error"} :
                /\ Append(s, e) \in Seq({"on", "off", "error"}) /\ Append(s, e) # <<>>
                /\ Append(s, e)[Len(Append(s, e))] = e
           /\ s # <<>> => /\ Tail(s) \in Seq({"on", "off", "error"})
                          /\ Head(s) \in {"on", "off", "error"}
           /\ s # <<>> /\ Tail(s) # <<>> => Tail(s)[Len(Tail(s))] = s[Len(s)]
           /\ s # <<>> /\ Tail(s) = <<>> => s[Len(s)] = Head(s)
  <1>1. ASSUME NEW e \in {"on", "off", "error"}
        PROVE  /\ Append(s, e) \in Seq({"on", "off", "error"}) /\ Append(s, e) # <<>>
               /\ Append(s, e)[Len(Append(s, e))] = e
    OBVIOUS
  <1>2. ASSUME s # <<>>
        PROVE  /\ Tail(s) \in Seq({"on", "off", "error"}) /\ Len(Tail(s)) = Len(s) - 1
               /\ Head(s) \in {"on", "off", "error"} /\ Head(s) = s[1]
    BY <1>2
  <1>3. ASSUME s # <<>>, Tail(s) # <<>>
        PROVE  Tail(s)[Len(Tail(s))] = s[Len(s)]
    <2>1. Len(Tail(s)) \in Nat /\ Len(Tail(s)) > 0 /\ Len(Tail(s)) = Len(s) - 1
      BY <1>2, <1>3
    <2>2. \A i \in 1 .. Len(Tail(s)) : Tail(s)[i] = s[i + 1]
      BY <1>3
    <2>3. Len(Tail(s)) \in 1 .. Len(Tail(s)) /\ Len(Tail(s)) + 1 = Len(s)
      BY <2>1
    <2>4. QED
      BY <2>2, <2>3
  <1>4. ASSUME s # <<>>, Tail(s) = <<>>
        PROVE  s[Len(s)] = Head(s)
    <2>0. Len(Tail(s)) = 0
      <3>1. Len(<<>>) = 0
        OBVIOUS
      <3>2. QED
        BY <1>4, <3>1, Zenon
    <2>1. Len(s) = 1
      BY <1>2, <1>4, <2>0
    <2>2. QED
      BY <1>2, <1>4, <2>1
  <1>5. QED
    BY <1>1, <1>2, <1>3, <1>4

\* The types of the display status, one by one.
DisplayTypes ==
    /\ screen \in BOOLEAN /\ up \in BOOLEAN /\ asked \in BOOLEAN /\ subscribed \in BOOLEAN
    /\ token \in BOOLEAN /\ displayOn \in BOOLEAN
    /\ hub \in Seq(BOOLEAN) /\ inbox \in Seq({"on", "off", "error"})

LEMMA DisplayTypesEq == DisplayTypeOK <=> DisplayTypes
  BY DEF DisplayTypeOK, DisplayTypes

\* Every step of the display manager, of the hub and of the two callbacks keeps the types.
LEMMA DisplayTypeStep == DisplayTypes /\ DisplayStep => DisplayTypes'
  <1> SUFFICES ASSUME DisplayTypes, DisplayStep
               PROVE  DisplayTypes'
    OBVIOUS
  <1>1. hub' \in Seq(BOOLEAN)
    <2>1. /\ hub \in Seq(BOOLEAN)
          /\ Append(hub, TRUE) \in Seq(BOOLEAN) /\ Append(hub, FALSE) \in Seq(BOOLEAN)
          /\ hub # <<>> => Tail(hub) \in Seq(BOOLEAN)
      BY DEF DisplayTypes
    <2>2. QED
      BY ONLY <2>1, DisplayStep, Zenon DEF DisplayStep, ServerStarts, ServerStops,
         ScreenSwitches, ServerReplies, DisplayStatusCb, DisplayServerStatusCb
  <1>2. screen' \in BOOLEAN /\ up' \in BOOLEAN
    BY DEF DisplayTypes, DisplayStep, ServerStarts, ServerStops, ScreenSwitches, ServerReplies,
       DisplayStatusCb, DisplayServerStatusCb
  <1>3. asked' \in BOOLEAN /\ subscribed' \in BOOLEAN /\ token' \in BOOLEAN /\ displayOn' \in BOOLEAN
    BY Zenon DEF DisplayTypes, DisplayStep, ServerStarts, ServerStops, ScreenSwitches, ServerReplies,
       DisplayStatusCb, DisplayServerStatusCb, DisplayStatusSubscribe
  <1>4. inbox' \in Seq({"on", "off", "error"})
    <2>1. inbox \in Seq({"on", "off", "error"}) /\ screen \in BOOLEAN
      BY DEF DisplayTypes
    <2>2. /\ State(screen) \in {"on", "off", "error"} /\ State(screen') \in {"on", "off", "error"}
      BY <1>2, <2>1, StateType
    <2>3. /\ \A e \in {"on", "off", "error"} : Append(inbox, e) \in Seq({"on", "off", "error"})
          /\ inbox # <<>> => Tail(inbox) \in Seq({"on", "off", "error"})
      BY <2>1, InboxEnd
    <2>4. <<>> \in Seq({"on", "off", "error"})
      OBVIOUS
    <2>5. QED
      BY <2>1, <2>2, <2>3, <2>4 DEF DisplayStep, ServerStarts, ServerStops, ScreenSwitches,
         ServerReplies, DisplayStatusCb, DisplayServerStatusCb, DisplayStatusSubscribe
  <1>5. QED
    BY <1>1, <1>2, <1>3, <1>4 DEF DisplayTypes

\* Every such step keeps what the streams are worth.
LEMMA StreamStep == DisplayTypes /\ StreamInv /\ DisplayStep => StreamInv'
  <1> SUFFICES ASSUME DisplayTypes, StreamInv, DisplayStep
               PROVE  StreamInv'
    OBVIOUS
  <1>0. /\ inbox \in Seq({"on", "off", "error"}) /\ screen \in BOOLEAN /\ screen' \in BOOLEAN
        /\ token \in BOOLEAN /\ displayOn \in BOOLEAN /\ asked \in BOOLEAN
        /\ subscribed \in BOOLEAN /\ up \in BOOLEAN
    BY DisplayTypeStep DEF DisplayTypes
  <1>1. CASE ServerStarts
    BY <1>1 DEF ServerStarts, StreamInv, Newest
  <1>2. CASE ServerStops
    <2>1. CASE subscribed
      <3>1. inbox' # <<>> /\ Newest' = "error"
        BY <1>0, <1>2, <2>1, InboxEnd DEF ServerStops, Newest
      <3>2. QED
        BY <1>2, <3>1 DEF ServerStops, StreamInv
    <2>2. CASE ~subscribed
      BY <1>2, <2>2 DEF ServerStops, StreamInv, Newest
    <2>3. QED
      BY <2>1, <2>2
  <1>3. CASE ScreenSwitches
    <2>1. CASE subscribed
      <3>1. inbox' # <<>> /\ Newest' = State(screen')
        BY <1>0, <1>3, <2>1, InboxEnd, StateType DEF ScreenSwitches, Newest
      <3>2. QED
        BY <1>3, <2>1, <3>1 DEF ScreenSwitches, StreamInv
    <2>2. CASE ~subscribed
      BY <1>3, <2>2 DEF ScreenSwitches, StreamInv, Newest
    <2>3. QED
      BY <2>1, <2>2
  <1>4. CASE ServerReplies
    <2>1. inbox' # <<>> /\ Newest' = IF up THEN State(screen) ELSE "error"
      BY <1>0, <1>4, InboxEnd, StateType DEF ServerReplies, Newest
    <2>2. QED
      BY <1>4, <2>1 DEF ServerReplies, StreamInv
  <1>5. CASE DisplayStatusCb
    <2>1. /\ inbox # <<>> /\ inbox' = Tail(inbox) /\ displayOn' = (Head(inbox) # "off")
          /\ UNCHANGED <<screen, asked, subscribed>>
          /\ subscribed => Newest = State(screen)
          /\ ~subscribed => Newest = "error"
      BY <1>5 DEF DisplayStatusCb, StreamInv
    <2>2. CASE inbox' # <<>>
      <3>1. Newest' = Newest
        BY <1>0, <2>1, <2>2, InboxEnd DEF Newest
      <3>2. QED
        BY <2>1, <2>2, <3>1 DEF StreamInv
    <2>3. CASE inbox' = <<>>
      <3>1. Newest = Head(inbox)
        BY <1>0, <2>1, <2>3, InboxEnd DEF Newest
      <3>2. (subscribed => displayOn' = screen) /\ (~subscribed => displayOn')
        BY <1>0, <2>1, <3>1, StateType
      <3>3. QED
        BY <1>0, <2>1, <2>3, <3>2 DEF StreamInv
    <2>4. QED
      BY <2>2, <2>3
  <1>6. ASSUME NEW accepted \in BOOLEAN, DisplayServerStatusCb(accepted)
        PROVE  StreamInv'
    <2>1. CASE Head(hub) /\ token
      BY <1>6, <2>1 DEF DisplayServerStatusCb, DisplayStatusSubscribe, StreamInv
    <2>2. CASE Head(hub) /\ ~token
      BY <1>6, <2>2 DEF DisplayServerStatusCb, DisplayStatusSubscribe, StreamInv, Newest
    <2>3. CASE ~Head(hub)
      BY <1>6, <2>3 DEF DisplayServerStatusCb, StreamInv, Newest
    <2>4. QED
      BY <2>1, <2>2, <2>3
  <1>7. QED
    BY <1>1, <1>2, <1>3, <1>4, <1>5, <1>6 DEF DisplayStep

\* Of the steps of the whole only those of the display touch its variables.
LEMMA DisplayOrNot == [Next]_vars => DisplayStep \/ UNCHANGED displayVars
  BY Zenon DEF Next, vars, ThreadStep, Dispatch, BeginCycle, Poll, PollEnds, IdleCheck, Reschedule, Rearm,
     EndCycle, MainStep, FireNow, DisplayReply, DisplayServer, Watchdog, Activity, TestSuspend,
     DisplayChanges, DisplayAnswers, VetoChanges, SourceLost, Tick, DisplayStep

-----------------------------------------------------------------------------
(* The operators of the timer source.                                       *)

LEMMA MaxOfThree ==
    ASSUME NEW a \in Nat, NEW b \in Nat, NEW c \in Nat
    PROVE  Max({a, b, c}) \in {a, b, c} /\ Max({a, b, c}) >= a
  <1>1. \E x \in {a, b, c} : \A y \in {a, b, c} : x >= y
    OBVIOUS
  <1>2. Max({a, b, c}) \in {a, b, c} /\ \A y \in {a, b, c} : Max({a, b, c}) >= y
    BY <1>1 DEF Max
  <1>3. QED
    BY <1>2

LEMMA MinOfTwo ==
    ASSUME NEW a \in Nat, NEW b \in Nat, a > 0, b > 0
    PROVE  Min({a, b}) \in Nat /\ Min({a, b}) > 0
  <1>1. \E x \in {a, b} : \A y \in {a, b} : x =< y
    OBVIOUS
  <1>2. Min({a, b}) \in {a, b}
    BY <1>1 DEF Min
  <1>3. QED
    BY <1>2

\* Rounding never brings an expiration of a granularity or more down to now, and never
\* puts it off by more than the granularity.
LEMMA ExpirationAhead ==
    ASSUME NEW n \in Nat, phase \in 0 .. Gran - 1
    PROVE  /\ Expiration(n) \in Int
           /\ n >= Gran => Expiration(n) > 0 /\ Expiration(n) <= n + Gran
  <1> DEFINE ahead == IF n = 0 THEN 1 ELSE n
             remainder == (phase + ahead) % Gran
  <1>1. Gran \in Nat /\ Gran > 0 /\ phase + ahead \in Nat
    BY IdlePolicyAssumption
  <1>2. remainder \in 0 .. Gran - 1
    BY <1>1
  <1>3. Expiration(n) = ahead - remainder + (IF remainder >= Gran \div 4 THEN Gran ELSE 0)
    BY DEF Expiration
  <1>4. ahead \in Nat /\ (n >= Gran => ahead = n)
    BY <1>1
  <1> HIDE DEF ahead, remainder
  <1>5. QED
    BY <1>1, <1>2, <1>3, <1>4

ThreadType == [at : {"loop", "poll", "check", "resched", "rearm", "cycle"}, wait : Nat]

\* The types of the source and of the threads, one by one: what is not Boolean, and what is.
SourceTypes ==
    /\ interval \in Nat /\ left \in Int /\ phase \in 0 .. Gran - 1
    /\ thread \in ThreadType /\ deadline \in SUBSET Int
    /\ wanted \in {"none", "check", "lost"}
    /\ hold \in Nat /\ busy \in Nat /\ since \in Nat /\ events \in Nat

FlagTypes ==
    /\ alive \in BOOLEAN /\ woken \in BOOLEAN /\ posted \in BOOLEAN /\ firing \in BOOLEAN
    /\ veto \in BOOLEAN

LEMMA TypesEq == TypeOK <=> DisplayTypes /\ SourceTypes /\ FlagTypes
  <1>1. {alive, woken, posted, firing, veto} \subseteq BOOLEAN <=> FlagTypes
    BY DEF FlagTypes
  <1>2. {hold, busy, since, events} \subseteq Nat <=>
            hold \in Nat /\ busy \in Nat /\ since \in Nat /\ events \in Nat
    OBVIOUS
  <1>3. QED
    BY <1>1, <1>2, DisplayTypesEq, Zenon DEF TypeOK, SourceTypes, ThreadType

\* What is given to the source: its interval, when it is next due.
LEMMA SetIntervalAhead ==
    ASSUME NEW n \in Nat, phase \in 0 .. Gran - 1, SetInterval(n)
    PROVE  /\ interval' \in Nat /\ left' \in Int
           /\ n >= Gran => interval' >= Gran /\ left' > 0
  BY ExpirationAhead DEF SetInterval

\* Only the place of the suspend thread changes.
LEMMA GotoType ==
    ASSUME thread \in ThreadType,
           NEW at \in {"loop", "poll", "check", "resched", "rearm", "cycle"}, Goto(at)
    PROVE  thread' \in ThreadType /\ thread'.at = at /\ thread'.wait = thread.wait
  BY DEF Goto, ThreadType

\* Every wait there is.
LEMMA WaitsAreLong ==
    /\ Gran \in Nat /\ Gran > 0 /\ WaitIdle \in Nat /\ WaitIdle >= Gran
    /\ \A n \in Holds : n \in Nat /\ n >= Gran
    /\ \A n \in Durations : n \in Nat
    /\ MaxLate \in Nat
  BY IdlePolicyAssumption

\* The next state is one of the types, and its waits are long.
LEMMA FlagStep == DisplayTypes /\ FlagTypes /\ [Next]_vars => FlagTypes'
  BY Zenon DEF DisplayTypes, FlagTypes, Next, vars, timerVars, threadVars, outsideVars, ThreadStep,
     Dispatch, BeginCycle, Poll, PollEnds, IdleCheck, Reschedule, Rearm, EndCycle, MainStep, FireNow,
     DisplayReply, DisplayServer, Watchdog, Activity, TestSuspend, DisplayChanges, DisplayAnswers,
     VetoChanges, SourceLost, Tick, ScheduleNow, Wakeup

LEMMA SourceStep == SourceTypes /\ SpansInv /\ [Next]_vars => SourceTypes' /\ SpansInv'
  <1> SUFFICES ASSUME SourceTypes, SpansInv, [Next]_vars
               PROVE  SourceTypes' /\ SpansInv'
    OBVIOUS
  <1> USE WaitsAreLong
  <1>0. /\ interval \in Nat /\ left \in Int /\ phase \in 0 .. Gran - 1
        /\ thread \in ThreadType /\ deadline \in SUBSET Int
        /\ wanted \in {"none", "check", "lost"}
        /\ hold \in Nat /\ busy \in Nat /\ since \in Nat /\ events \in Nat
        /\ interval >= Gran /\ thread.wait >= Gran /\ thread.wait \in Nat
    BY DEF SourceTypes, SpansInv, ThreadType
  <1> DEFINE Timed == interval' \in Nat /\ interval' >= Gran /\ left' \in Int
             Threaded == thread' \in ThreadType /\ thread'.wait >= Gran
             Rest == /\ phase' \in 0 .. Gran - 1 /\ deadline' \in SUBSET Int
                     /\ wanted' \in {"none", "check", "lost"}
                     /\ hold' \in Nat /\ busy' \in Nat /\ since' \in Nat /\ events' \in Nat
  <1>q. Timed /\ Threaded /\ Rest => SourceTypes' /\ SpansInv'
    BY DEF SourceTypes, SpansInv
  <1>s. ASSUME NEW n \in Nat, n >= Gran, SetInterval(n)
        PROVE  Timed
    BY <1>0, <1>s, SetIntervalAhead
  <1>u. ASSUME UNCHANGED timerVars
        PROVE  Timed
    BY <1>0, <1>u DEF timerVars
  <1>v. ASSUME UNCHANGED thread
        PROVE  Threaded
    BY <1>0, <1>v
  <1>g. ASSUME NEW at \in {"loop", "poll", "check", "resched", "rearm", "cycle"}, Goto(at)
        PROVE  Threaded
    BY <1>0, <1>g, GotoType
  <1>h. ASSUME RetryReset
        PROVE  hold' \in Nat
    BY <1>0, <1>h DEF RetryReset
  <1> HIDE DEF Timed, Threaded
  <1>1. CASE Dispatch \/ BeginCycle
    <2>1. Threaded
      BY <1>1, <1>g DEF Dispatch, BeginCycle
    <2>2. CASE Dispatch
      BY <1>0, <2>2, <1>q, <1>u, <2>1 DEF Dispatch, outsideVars
    <2>3. CASE BeginCycle
      BY <1>0, <2>3, <1>q, <1>u, <2>1 DEF BeginCycle, outsideVars
    <2>4. QED
      BY <1>1, <2>2, <2>3
  <1>2. CASE Poll \/ PollEnds
    <2>1. Threaded
      BY <1>2, <1>g DEF Poll, PollEnds
    <2>2. QED
      BY <1>0, <1>2, <1>q, <1>u, <2>1 DEF Poll, PollEnds, outsideVars
  <1>3. CASE IdleCheck
    <2>1. Threaded
      <3>1. CASE displayOn
        <4>1. Goto("rearm")
          BY <1>3, <3>1 DEF IdleCheck, Goto
        <4>2. QED
          BY <1>g, <4>1
      <3>2. CASE ~displayOn
        <4>1. thread' = [at |-> "resched", wait |-> Max({WaitIdle, busy, hold})]
          BY <1>3, <3>2 DEF IdleCheck
        <4>2. Max({WaitIdle, busy, hold}) \in Nat /\ Max({WaitIdle, busy, hold}) >= Gran
          BY <1>0, MaxOfThree
        <4>3. QED
          BY <4>1, <4>2 DEF Threaded, ThreadType
      <3>3. QED
        BY <3>1, <3>2
    <2>2. QED
      BY <1>0, <1>3, <1>q, <1>u, <2>1 DEF IdleCheck, outsideVars
  <1>4. CASE Reschedule
    <2>1. Threaded /\ Timed
      BY <1>0, <1>4, <1>g, <1>s DEF Reschedule
    <2>2. QED
      BY <1>0, <1>4, <1>q, <2>1 DEF Reschedule, outsideVars, Overwrites
  <1>5. CASE Rearm
    <2>1. Threaded
      BY <1>5, <1>g DEF Rearm
    <2>2. Timed
      BY <1>0, <1>5, ExpirationAhead DEF Rearm, Timed
    <2>3. QED
      BY <1>0, <1>5, <1>q, <2>1, <2>2 DEF Rearm, outsideVars, Overwrites
  <1>6. CASE EndCycle
    <2>1. Threaded
      BY <1>6, <1>g DEF EndCycle
    <2>2. Timed /\ hold' \in Nat
      <3>1. CASE UNCHANGED <<interval, left, hold>>
        BY <1>0, <3>1 DEF Timed
      <3>2. CASE hold' \in Holds /\ SetInterval(hold')
        BY <1>s, <3>2
      <3>3. QED
        BY <1>6, <3>1, <3>2 DEF EndCycle
    <2>3. QED
      BY <1>0, <1>6, <1>q, <2>1, <2>2 DEF EndCycle, Overwrites
  <1>7. CASE FireNow
    <2>1. Timed
      BY <1>0, <1>7 DEF FireNow, Timed
    <2>2. QED
      BY <1>0, <1>7, <1>q, <1>v, <2>1 DEF FireNow, threadVars, outsideVars
  <1>8. ASSUME NEW n \in Durations \cup {0}, Activity(n)
        PROVE  SourceTypes' /\ SpansInv'
    <2>1. Timed
      BY <1>8, <1>s DEF Activity, ScheduleNow
    <2>2. hold' \in Nat /\ busy' \in Nat /\ events' \in Nat
      BY <1>0, <1>8, <1>h DEF Activity, Event
    <2>3. QED
      BY <1>0, <1>8, <1>q, <1>v, <2>1, <2>2 DEF Activity, threadVars
  <1>9. CASE TestSuspend
    <2>1. Timed
      BY <1>9, <1>s DEF TestSuspend
    <2>2. QED
      BY <1>0, <1>9, <1>q, <1>v, <2>1 DEF TestSuspend, Event, threadVars, Overwrites
  <1>10. CASE Watchdog
    <2>1. Timed
      BY <1>10, <1>s DEF Watchdog, ScheduleNow
    <2>2. QED
      BY <1>0, <1>10, <1>q, <1>v, <2>1 DEF Watchdog, threadVars, outsideVars, Overwrites
  <1>11. CASE DisplayReply
    <2>1. Timed
      <3>1. CASE ScheduleNow
        BY <1>s, <3>1 DEF ScheduleNow
      <3>2. CASE UNCHANGED <<interval, left>>
        BY <1>0, <3>2 DEF Timed
      <3>3. QED
        BY <1>11, <3>1, <3>2 DEF DisplayReply
    <2>2. hold' \in Nat
      BY <1>0, <1>11, <1>h DEF DisplayReply
    <2>3. QED
      BY <1>0, <1>11, <1>q, <1>v, <2>1, <2>2 DEF DisplayReply, threadVars
  <1>12. ASSUME NEW accepted \in BOOLEAN, DisplayServer(accepted)
         PROVE  SourceTypes' /\ SpansInv'
    BY <1>0, <1>12, <1>q, <1>u, <1>v DEF DisplayServer, threadVars, outsideVars
  <1>13. CASE DisplayChanges \/ DisplayAnswers \/ VetoChanges
    <2>1. events' \in Nat
      BY <1>0, <1>13 DEF DisplayChanges, DisplayAnswers, VetoChanges, Event, outsideVars
    <2>2. QED
      BY <1>0, <1>13, <1>q, <1>u, <1>v, <2>1
         DEF DisplayChanges, DisplayAnswers, VetoChanges, threadVars, outsideVars
  <1>14. CASE SourceLost
    <2>1. Timed
      BY <1>0, <1>14 DEF SourceLost, Timed
    <2>2. events' \in Nat /\ deadline' \in SUBSET Int
      <3>1. events' = events + 1 /\ (deadline' = deadline \/ deadline' = {})
        BY <1>14, Zenon DEF SourceLost, Event
      <3>2. deadline' \in SUBSET Int
        BY <1>0, <3>1, Zenon
      <3>3. events' \in Nat
        BY <1>0, <3>1
      <3>4. QED
        BY <3>2, <3>3
    <2>3. QED
      BY <1>0, <1>14, <1>q, <1>v, <2>1, <2>2 DEF SourceLost
  <1>15. CASE Tick
    <2>1. Timed
      BY <1>0, <1>15 DEF Tick, Timed
    <2>2. since' \in Nat
      <3>1. since + 1 \in Nat /\ since + 1 > 0 /\ MaxLate + 1 \in Nat /\ MaxLate + 1 > 0
        BY <1>0
      <3>2. QED
        BY <1>15, <3>1, MinOfTwo DEF Tick
    <2>3. phase' \in 0 .. Gran - 1 /\ deadline' \in SUBSET Int /\ hold' \in Nat /\ busy' \in Nat
      BY <1>0, <1>15 DEF Tick, Down
    <2>4. QED
      BY <1>0, <1>15, <1>q, <1>v, <2>1, <2>2, <2>3 DEF Tick
  <1>16. CASE UNCHANGED vars
    BY <1>0, <1>16, <1>q, <1>u, <1>v DEF vars, threadVars, outsideVars
  <1>17. QED
    BY <1>1, <1>2, <1>3, <1>4, <1>5, <1>6, <1>7, <1>8, <1>9, <1>10, <1>11, <1>12, <1>13, <1>14,
       <1>15, <1>16 DEF Next, ThreadStep, MainStep

\* What is given to the source is bounded when the wait is.
LEMMA SetIntervalBounded ==
    ASSUME NEW n \in Nat, n >= Gran, Bounded(n), phase \in 0 .. Gran - 1, SetInterval(n)
    PROVE  Bounded(interval') /\ WaitIsBounded'
  <1>1. PICK m \in Waits : n <= m
    BY DEF Bounded
  <1>2. m \in Nat /\ Gran \in Nat
    BY WaitsAreLong DEF Waits
  <1>3. interval' = n /\ left' \in Int /\ left' <= n + Gran
    BY ExpirationAhead DEF SetInterval
  <1>4. left' <= m + Gran
    BY <1>1, <1>2, <1>3
  <1>5. QED
    BY <1>1, <1>3, <1>4 DEF Bounded, WaitIsBounded

\* A step of either thread or from outside keeps all waits bounded.
LEMMA BoundStep ==
    /\ SourceTypes /\ SpansInv /\ BoundInv /\ WaitIsBounded /\ [Next]_vars
    => BoundInv' /\ WaitIsBounded'
  <1> SUFFICES ASSUME SourceTypes, SpansInv, BoundInv, WaitIsBounded, [Next]_vars
               PROVE  BoundInv' /\ WaitIsBounded'
    OBVIOUS
  <1>0. /\ interval \in Nat /\ interval >= Gran /\ left \in Int /\ phase \in 0 .. Gran - 1
        /\ thread \in ThreadType /\ thread.wait \in Nat /\ thread.wait >= Gran
        /\ hold \in Nat /\ busy \in Nat
    BY DEF SourceTypes, SpansInv, ThreadType
  <1>i. Bounded(interval) /\ Bounded(thread.wait) /\ Bounded(hold) /\ Bounded(busy)
    BY DEF BoundInv
  <1>w. /\ Gran \in Nat /\ WaitIdle \in Nat /\ WaitIdle >= Gran
        /\ \A m \in Waits : m \in Nat
        /\ Bounded(0) /\ Bounded(WaitIdle) /\ Bounded(Gran)
        /\ \A n \in Holds \cup Durations : n \in Nat /\ Bounded(n)
        /\ \A n \in Holds : n >= Gran
    BY WaitsAreLong DEF Waits, Bounded
  \* the source and what may be given to it next
  <1> DEFINE Timed == Bounded(interval') /\ WaitIsBounded'
             Threaded == Bounded(thread'.wait)
             Rest == Bounded(hold') /\ Bounded(busy')
  <1>q. Timed /\ Threaded /\ Rest => BoundInv' /\ WaitIsBounded'
    BY DEF BoundInv
  <1>s. ASSUME NEW n \in Nat, n >= Gran, Bounded(n), SetInterval(n)
        PROVE  Timed
    BY <1>0, <1>s, SetIntervalBounded
  <1>u. ASSUME UNCHANGED <<interval, left>>
        PROVE  Timed
    BY <1>i, <1>u DEF WaitIsBounded
  <1>g. ASSUME NEW at \in {"loop", "poll", "check", "resched", "rearm", "cycle"}, Goto(at)
        PROVE  Threaded
    BY <1>0, <1>g, <1>i, GotoType
  <1>v. ASSUME UNCHANGED thread
        PROVE  Threaded
    BY <1>i, <1>v
  <1>h. ASSUME RetryReset
        PROVE  Bounded(hold')
    BY <1>h, <1>i, <1>w DEF RetryReset
  <1>r. ASSUME UNCHANGED <<hold, busy>>
        PROVE  Rest
    BY <1>i, <1>r
  <1> HIDE DEF Timed, Threaded, Rest
  <1>1. CASE Dispatch \/ BeginCycle \/ Poll \/ PollEnds
    <2>1. UNCHANGED <<interval, left>> /\ UNCHANGED <<hold, busy>>
      BY <1>1, Zenon DEF Dispatch, BeginCycle, Poll, PollEnds, timerVars, outsideVars
    <2>2. Threaded
      BY <1>1, <1>g DEF Dispatch, BeginCycle, Poll, PollEnds
    <2>3. QED
      BY <1>q, <1>r, <1>u, <2>1, <2>2
  <1>2. CASE IdleCheck
    <2>1. UNCHANGED <<interval, left>> /\ UNCHANGED <<hold, busy>>
      BY <1>2, Zenon DEF IdleCheck, timerVars, outsideVars
    <2>2. Threaded
      <3>1. CASE displayOn
        <4>1. Goto("rearm")
          BY <1>2, <3>1 DEF IdleCheck, Goto
        <4>2. QED
          BY <1>g, <4>1
      <3>2. CASE ~displayOn
        <4>1. thread'.wait = Max({WaitIdle, busy, hold})
          BY <1>2, <3>2 DEF IdleCheck
        <4>2. Max({WaitIdle, busy, hold}) \in {WaitIdle, busy, hold}
          BY <1>0, <1>w, MaxOfThree
        <4>3. QED
          BY <1>i, <1>w, <4>1, <4>2 DEF Threaded
      <3>3. QED
        BY <3>1, <3>2
    <2>3. QED
      BY <1>q, <1>r, <1>u, <2>1, <2>2
  <1>3. CASE Reschedule
    <2>1. Threaded /\ Timed
      BY <1>0, <1>3, <1>g, <1>i, <1>s DEF Reschedule
    <2>2. QED
      BY <1>3, <1>q, <1>r, <2>1 DEF Reschedule, outsideVars
  <1>4. CASE Rearm
    <2>1. Threaded
      BY <1>4, <1>g DEF Rearm
    <2>2. Timed
      <3>1. interval' = interval /\ SetInterval(interval)
        BY <1>4 DEF Rearm, SetInterval
      <3>2. QED
        BY <1>0, <1>i, <1>s, <3>1
    <2>3. QED
      BY <1>4, <1>q, <1>r, <2>1, <2>2 DEF Rearm, outsideVars
  <1>5. CASE EndCycle
    <2>1. Threaded
      BY <1>5, <1>g DEF EndCycle
    <2>2. CASE UNCHANGED <<interval, left, hold>>
      BY <1>5, <1>q, <1>r, <1>u, <2>1, <2>2 DEF EndCycle
    <2>3. CASE hold' \in Holds /\ SetInterval(hold')
      <3>1. Timed /\ Bounded(hold')
        BY <1>s, <1>w, <2>3
      <3>2. Bounded(busy')
        BY <1>5, <1>i DEF EndCycle
      <3>3. QED
        BY <1>q, <2>1, <3>1, <3>2 DEF Rest
    <2>4. QED
      BY <1>5, <2>2, <2>3 DEF EndCycle
  <1>6. CASE FireNow
    <2>1. Timed
      <3>1. interval' = interval /\ left' = 0
        BY <1>6 DEF FireNow
      <3>2. \E m \in Waits : 0 <= m + Gran
        BY <1>w DEF Bounded
      <3>3. QED
        BY <1>i, <3>1, <3>2 DEF Timed, WaitIsBounded
    <2>2. QED
      BY <1>6, <1>q, <1>r, <1>v, <2>1 DEF FireNow, threadVars, outsideVars
  <1>7. ASSUME NEW n \in Durations \cup {0}, Activity(n)
        PROVE  BoundInv' /\ WaitIsBounded'
    <2>1. Timed
      BY <1>7, <1>s, <1>w DEF Activity, ScheduleNow
    <2>2. Bounded(busy')
      BY <1>7, <1>w DEF Activity
    <2>3. Bounded(hold')
      BY <1>7, <1>h, <1>i DEF Activity
    <2>4. QED
      BY <1>7, <1>q, <1>v, <2>1, <2>2, <2>3 DEF Activity, threadVars, Rest
  <1>8. CASE TestSuspend
    <2>1. Timed
      BY <1>8, <1>s, <1>w DEF TestSuspend
    <2>2. QED
      BY <1>8, <1>q, <1>r, <1>v, <2>1 DEF TestSuspend, threadVars
  <1>9. CASE Watchdog
    <2>1. Timed
      BY <1>9, <1>s, <1>w DEF Watchdog, ScheduleNow
    <2>2. QED
      BY <1>9, <1>q, <1>r, <1>v, <2>1 DEF Watchdog, threadVars, outsideVars
  <1>10. CASE DisplayReply
    <2>1. Timed
      <3>1. CASE ScheduleNow
        BY <1>s, <1>w, <3>1 DEF ScheduleNow
      <3>2. CASE UNCHANGED <<interval, left>>
        BY <1>u, <3>2
      <3>3. QED
        BY <1>10, <3>1, <3>2 DEF DisplayReply
    <2>2. Bounded(hold') /\ Bounded(busy')
      BY <1>10, <1>h, <1>i DEF DisplayReply
    <2>3. QED
      BY <1>10, <1>q, <1>v, <2>1, <2>2 DEF DisplayReply, threadVars, Rest
  <1>11. CASE \/ \E accepted \in BOOLEAN : DisplayServer(accepted)
              \/ DisplayChanges \/ DisplayAnswers \/ VetoChanges \/ SourceLost \/ UNCHANGED vars
    <2>1. UNCHANGED <<interval, left>> /\ UNCHANGED <<hold, busy>> /\ UNCHANGED thread
      BY <1>11, Zenon DEF DisplayServer, DisplayChanges, DisplayAnswers, VetoChanges, SourceLost,
         vars, timerVars, threadVars, outsideVars
    <2>2. QED
      BY <1>q, <1>r, <1>u, <1>v, <2>1
  <1>12. CASE Tick
    <2>1. Timed
      <3>1. PICK m \in Waits : left <= m + Gran
        BY DEF WaitIsBounded
      <3>2. interval' = interval /\ left' <= m + Gran
        BY <1>0, <1>12, <1>w, <3>1 DEF Tick
      <3>3. QED
        BY <1>i, <3>2 DEF Timed, WaitIsBounded
    <2>2. ASSUME NEW n \in Nat, Bounded(n)
          PROVE  Bounded(Down(n))
      BY <1>w, <2>2 DEF Bounded, Down
    <2>3. Rest
      BY <1>0, <1>12, <1>i, <2>2 DEF Tick, Rest
    <2>4. QED
      BY <1>12, <1>q, <1>v, <2>1, <2>3 DEF Tick
  <1>13. QED
    BY <1>1, <1>2, <1>3, <1>4, <1>5, <1>6, <1>7, <1>8, <1>9, <1>10, <1>11, <1>12
       DEF Next, ThreadStep, MainStep

\* A step of either thread or from outside keeps a request that was made and is not lost.
LEMMA RequestStep == SourceTypes /\ RequestIsDue /\ [Next]_vars => RequestIsDue'
  <1> SUFFICES ASSUME SourceTypes, RequestIsDue, [Next]_vars, wanted' = "check", ~firing', alive'
               PROVE  left' <= 0 /\ (thread'.at = "poll" => woken')
    BY DEF RequestIsDue
  <1>0. left \in Int /\ thread \in ThreadType
    BY DEF SourceTypes
  <1>i. wanted = "check" /\ ~firing /\ alive => left <= 0 /\ (thread.at = "poll" => woken)
    BY DEF RequestIsDue
  <1>1. CASE Dispatch \/ BeginCycle
    <2>1. thread'.at # "poll"
      BY <1>0, <1>1, GotoType DEF Dispatch, BeginCycle
    <2>2. UNCHANGED <<left, alive, firing, wanted>>
      BY <1>1 DEF Dispatch, BeginCycle, timerVars
    <2>3. QED
      BY <1>i, <2>1, <2>2
  <1>2. CASE Poll
    BY <1>2, <1>i DEF Poll, Ready, timerVars
  <1>3. CASE PollEnds
    <2>1. thread'.at = "loop"
      BY <1>0, <1>3, GotoType DEF PollEnds
    <2>2. UNCHANGED <<left, alive, firing, wanted>>
      BY <1>3 DEF PollEnds, timerVars
    <2>3. QED
      BY <1>i, <2>1, <2>2
  <1>4. CASE IdleCheck \/ Reschedule \/ Rearm \/ TestSuspend
    BY <1>4 DEF IdleCheck, Reschedule, Rearm, TestSuspend, Overwrites
  <1>5. CASE EndCycle
    <2>1. thread'.at = "loop"
      BY <1>0, <1>5, GotoType DEF EndCycle
    <2>2. UNCHANGED <<left, alive, firing, wanted>>
      BY <1>5 DEF EndCycle, Overwrites
    <2>3. QED
      BY <1>i, <2>1, <2>2
  <1>6. CASE FireNow
    <2>1. left' = 0 /\ alive
      BY <1>6 DEF FireNow
    <2>2. woken'
      BY <1>6, <2>1, Zenon DEF FireNow, Wakeup
    <2>3. QED
      BY <2>1, <2>2
  <1>7. CASE DisplayReply
    <2>1. thread' = thread /\ wanted' = wanted /\ alive' = alive
      BY <1>7 DEF DisplayReply, threadVars
    <2>2. CASE ScheduleNow
      BY <2>2 DEF ScheduleNow
    <2>3. CASE UNCHANGED <<interval, left, woken, firing>>
      BY <1>i, <2>1, <2>3
    <2>4. QED
      BY <1>7, <2>2, <2>3 DEF DisplayReply
  <1>8. CASE Watchdog \/ \E n \in Durations \cup {0} : Activity(n)
    BY <1>8 DEF Watchdog, Activity, ScheduleNow, Overwrites
  <1>9. CASE Tick
    <2>1. UNCHANGED <<alive, thread, woken, firing, wanted>> /\ left' = left - 1
      BY <1>9 DEF Tick
    <2>2. QED
      BY <1>0, <1>i, <2>1
  <1>10. CASE \/ \E accepted \in BOOLEAN : DisplayServer(accepted)
              \/ DisplayChanges \/ DisplayAnswers \/ VetoChanges \/ SourceLost \/ UNCHANGED vars
    <2>1. UNCHANGED <<left, thread, woken, firing, wanted>> /\ alive
      BY <1>10, Zenon DEF DisplayServer, DisplayChanges, DisplayAnswers, VetoChanges, SourceLost,
         vars, timerVars, threadVars
    <2>2. QED
      BY <1>i, <2>1
  <1>11. QED
    BY <1>1, <1>2, <1>3, <1>4, <1>5, <1>6, <1>7, <1>8, <1>9, <1>10 DEF Next, ThreadStep, MainStep

\* No write from either thread leaves the suspend thread asleep past the time it sets.
LEMMA PollStep == SourceTypes /\ PollEndsInTime /\ [Next]_vars => PollEndsInTime'
  <1> SUFFICES ASSUME SourceTypes, PollEndsInTime, [Next]_vars,
                      thread'.at = "poll", alive', ~woken'
               PROVE  \A t \in deadline' : t <= left'
    BY DEF PollEndsInTime
  <1>0. left \in Int /\ thread \in ThreadType /\ deadline \in SUBSET Int
    BY DEF SourceTypes
  <1>i. thread.at = "poll" /\ alive /\ ~woken => \A t \in deadline : t <= left
    BY DEF PollEndsInTime
  \* every write of the main thread wakes the poll
  <1>w. ASSUME Wakeup, alive
        PROVE  FALSE
    BY <1>w, Zenon DEF Wakeup
  <1>1. CASE ThreadStep
    <2>1. Poll
      <3>1. ~(Dispatch \/ BeginCycle \/ PollEnds \/ Reschedule \/ Rearm \/ EndCycle)
        BY <1>0, GotoType DEF Dispatch, BeginCycle, PollEnds, Reschedule, Rearm, EndCycle
      <3>2. ~IdleCheck
        BY <1>0 DEF IdleCheck, ThreadType
      <3>3. QED
        BY <1>1, <3>1, <3>2 DEF ThreadStep
    <2>2. left' = left /\ (deadline' = {left} \/ deadline' = {})
      BY <2>1 DEF Poll, timerVars
    <2>3. QED
      BY <1>0, <2>2
  <1>2. CASE FireNow \/ TestSuspend \/ \E n \in Durations \cup {0} : Activity(n)
    BY <1>2, <1>w DEF FireNow, TestSuspend, Activity, ScheduleNow
  <1>3. CASE Watchdog
    BY <1>3, <1>w, Zenon DEF Watchdog, ScheduleNow
  <1>4. CASE DisplayReply
    <2>1. UNCHANGED <<thread, deadline>> /\ alive
      BY <1>4 DEF DisplayReply, threadVars
    <2>2. CASE ScheduleNow
      BY <1>w, <2>1, <2>2 DEF ScheduleNow
    <2>3. CASE UNCHANGED <<interval, left, woken, firing>>
      BY <1>i, <2>1, <2>3
    <2>4. QED
      BY <1>4, <2>2, <2>3 DEF DisplayReply
  <1>5. CASE Tick
    <2>1. UNCHANGED <<alive, thread, woken>> /\ left' = left - 1 /\ deadline' = {t - 1 : t \in deadline}
      BY <1>5 DEF Tick
    <2>2. QED
      BY <1>0, <1>i, <2>1
  <1>6. CASE SourceLost
    <2>1. UNCHANGED <<left, thread, woken>> /\ alive
      BY <1>6, Zenon DEF SourceLost
    <2>2. deadline' = {} \/ deadline' = deadline
      BY <1>6, Zenon DEF SourceLost
    <2>3. QED
      BY <1>i, <2>1, <2>2
  <1>7. CASE \/ \E accepted \in BOOLEAN : DisplayServer(accepted)
             \/ DisplayChanges \/ DisplayAnswers \/ VetoChanges \/ UNCHANGED vars
    <2>1. UNCHANGED <<left, thread, woken, deadline>> /\ alive
      BY <1>7, Zenon DEF DisplayServer, DisplayChanges, DisplayAnswers, VetoChanges, vars,
         timerVars, threadVars
    <2>2. QED
      BY <1>i, <2>1
  <1>8. QED
    BY <1>1, <1>2, <1>3, <1>4, <1>5, <1>6, <1>7 DEF Next, MainStep

\* A step of either thread or from outside leaves the next check for a later tick.
LEMMA BusyStep == SourceTypes /\ SpansInv /\ BusyInv /\ [Next]_vars => BusyInv'
  <1> SUFFICES ASSUME SourceTypes, SpansInv, BusyInv, [Next]_vars,
                      thread'.at \notin {"check", "resched", "rearm"}, since' = 0, wanted' # "check"
               PROVE  left' > 0
    BY DEF BusyInv
  <1>0. /\ left \in Int /\ thread \in ThreadType /\ phase \in 0 .. Gran - 1
        /\ since \in Nat /\ interval \in Nat /\ interval >= Gran
    BY DEF SourceTypes, SpansInv
  \* the source and the history are left alone, and no check has just ended
  <1>u. ASSUME left' = left, since' = since, wanted' = wanted,
               thread.at \notin {"check", "resched", "rearm"}
        PROVE  left' > 0
    BY <1>u DEF BusyInv
  <1>s. ASSUME NEW n \in Nat, n >= Gran, SetInterval(n)
        PROVE  left' > 0
    BY <1>0, <1>s, SetIntervalAhead
  <1>1. CASE Dispatch
    BY <1>0, <1>1, GotoType DEF Dispatch
  <1>2. CASE BeginCycle \/ Poll \/ PollEnds
    <2>1. UNCHANGED <<left, since, wanted>> /\ thread.at \in {"loop", "poll"}
      BY <1>2 DEF BeginCycle, Poll, PollEnds, PollOver, timerVars
    <2>2. QED
      BY <1>u, <2>1
  <1>3. CASE IdleCheck
    <2>1. thread'.at \in {"rearm", "resched"}
      BY <1>0, <1>3 DEF IdleCheck, ThreadType
    <2>2. QED
      BY <2>1
  <1>4. CASE Reschedule
    BY <1>0, <1>4, GotoType DEF Reschedule
  <1>5. CASE Rearm
    BY <1>0, <1>5, ExpirationAhead DEF Rearm
  <1>6. CASE EndCycle
    <2>1. since' = since /\ thread.at = "cycle"
      BY <1>6 DEF EndCycle
    <2>2. CASE UNCHANGED <<interval, left, hold, woken, wanted>>
      BY <1>u, <2>1, <2>2
    <2>3. CASE hold' \in Holds /\ SetInterval(hold')
      BY <1>s, <2>3, WaitsAreLong
    <2>4. QED
      BY <1>6, <2>2, <2>3 DEF EndCycle
  <1>7. CASE FireNow
    BY <1>7 DEF FireNow
  \* the rest finds the suspend thread where it is
  <1>v. ASSUME UNCHANGED <<thread, since, wanted, left>>
        PROVE  left' > 0
    BY <1>u, <1>v
  <1>8. CASE DisplayReply
    <2>1. CASE ScheduleNow
      BY <1>s, <2>1, WaitsAreLong DEF ScheduleNow
    <2>2. CASE UNCHANGED <<interval, left, woken, firing>>
      BY <1>8, <1>v, <2>2 DEF DisplayReply, threadVars
    <2>3. QED
      BY <1>8, <2>1, <2>2 DEF DisplayReply
  <1>9. CASE Watchdog \/ TestSuspend \/ \E n \in Durations \cup {0} : Activity(n)
    <2>1. SetInterval(WaitIdle) \/ SetInterval(Gran)
      BY <1>9 DEF Watchdog, TestSuspend, Activity, ScheduleNow
    <2>2. QED
      BY <1>s, <2>1, WaitsAreLong
  <1>10. CASE Tick
    <2>1. since + 1 \in Nat /\ since + 1 > 0 /\ MaxLate + 1 \in Nat /\ MaxLate + 1 > 0
      BY <1>0, WaitsAreLong
    <2>2. since' > 0 /\ since' \in Nat
      BY <1>10, <2>1, MinOfTwo DEF Tick
    <2>3. QED
      BY <2>2
  <1>11. CASE \/ \E accepted \in BOOLEAN : DisplayServer(accepted)
              \/ DisplayChanges \/ DisplayAnswers \/ VetoChanges \/ SourceLost \/ UNCHANGED vars
    <2>1. UNCHANGED <<thread, since, wanted, left>>
      BY <1>11, Zenon DEF DisplayServer, DisplayChanges, DisplayAnswers, VetoChanges, SourceLost, vars,
         timerVars, threadVars
    <2>2. QED
      BY <1>v, <2>1
  <1>12. QED
    BY <1>1, <1>2, <1>3, <1>4, <1>5, <1>6, <1>7, <1>8, <1>9, <1>10, <1>11
       DEF Next, ThreadStep, MainStep

-----------------------------------------------------------------------------
(* The theorems.                                                            *)

\* The invariant holds in every reachable state.
THEOREM IdleInvariant == Spec => []IdleInv
  <1>1. Init => IdleInv
    <2> SUFFICES ASSUME Init PROVE IdleInv
      OBVIOUS
    <2>1. phase \in 0 .. Gran - 1 /\ interval = WaitIdle /\ left = Expiration(WaitIdle)
      BY WaitsAreLong DEF Init
    <2>2. left \in Int /\ left > 0
      BY <2>1, WaitsAreLong, ExpirationAhead
    <2>3. thread = [at |-> "loop", wait |-> WaitIdle] /\ thread \in ThreadType
      BY WaitsAreLong DEF Init, ThreadType
    <2>4. SourceTypes
      BY <2>1, <2>2, <2>3, WaitsAreLong DEF Init, SourceTypes
    <2>5. FlagTypes
      BY DEF Init, FlagTypes
    <2>6. DisplayTypes
      <3>1. hub = <<up>> /\ up \in BOOLEAN /\ inbox = <<>>
        BY DEF Init, DisplayInit
      <3>2. hub \in Seq(BOOLEAN) /\ inbox \in Seq({"on", "off", "error"})
        BY <3>1
      <3>3. QED
        BY <3>2 DEF Init, DisplayInit, DisplayTypes
    <2>7. StreamInv
      BY DEF Init, DisplayInit, StreamInv
    <2>8. SpansInv /\ BusyInv /\ RequestIsDue /\ PollEndsInTime
      BY <2>1, <2>2, <2>3, WaitsAreLong DEF Init, SpansInv, RequestIsDue, PollEndsInTime, BusyInv
    <2>10. BoundInv /\ WaitIsBounded
      <3>1. Expiration(WaitIdle) <= WaitIdle + Gran
        BY <2>1, WaitsAreLong, ExpirationAhead
      <3>2. WaitIdle \in Waits /\ hold = 0 /\ busy = 0 /\ thread.wait = WaitIdle
        BY <2>3 DEF Init, Waits
      <3>3. QED
        BY <2>1, <3>1, <3>2, WaitsAreLong DEF BoundInv, Bounded, WaitIsBounded
    <2>9. QED
      BY <2>4, <2>5, <2>6, <2>7, <2>8, <2>10, TypesEq DEF IdleInv, RequestIsKept
  <1>2. IdleInv /\ [Next]_vars => IdleInv'
    <2> SUFFICES ASSUME IdleInv, [Next]_vars PROVE IdleInv'
      OBVIOUS
    <2>1. /\ DisplayTypes /\ SourceTypes /\ FlagTypes /\ StreamInv /\ SpansInv /\ BoundInv
          /\ RequestIsDue /\ WaitIsBounded /\ PollEndsInTime /\ BusyInv
      BY TypesEq DEF IdleInv, RequestIsKept
    <2>2. DisplayTypes' /\ StreamInv'
      <3>1. CASE DisplayStep
        BY <2>1, <3>1, DisplayTypeStep, StreamStep
      <3>2. CASE UNCHANGED displayVars
        BY <2>1, <3>2 DEF displayVars, DisplayTypes, StreamInv, Newest
      <3>3. QED
        BY <3>1, <3>2, DisplayOrNot
    <2>3. /\ SourceTypes' /\ SpansInv' /\ FlagTypes' /\ BoundInv'
          /\ RequestIsDue' /\ WaitIsBounded' /\ PollEndsInTime' /\ BusyInv'
      BY <2>1, SourceStep, FlagStep, BoundStep, RequestStep, PollStep, BusyStep
    <2>4. TypeOK'
      <3>1. (DisplayTypes /\ SourceTypes /\ FlagTypes)' => TypeOK'
        BY TypesEq, PTL
      <3>2. QED
        BY <2>2, <2>3, <3>1
    <2>5. QED
      BY <2>2, <2>3, <2>4 DEF IdleInv, RequestIsKept
  <1>3. QED
    BY <1>1, <1>2, PTL DEF Spec

\* Source, threads and display status are well typed; in particular no wait given to the
\* source is negative, whatever hold and activities it is computed from
\* (suspend.c:350-488).
THEOREM IdleTypeCorrect == Spec => []TypeOK
  BY IdleInvariant, PTL DEF IdleInv

\* A request to check at once leaves the source due and ends the poll until a check reads
\* the state, unless a later write overtakes it: the check's own rescheduling or re-arming,
\* the end of a cycle, TESTSuspend, a new source. Even then the source is due within the
\* longest wait, and no poll outlasts it (timersource.c:73-257, suspend.c:294-331, 484).
THEOREM RequestSafe == Spec => []RequestIsKept
  BY IdleInvariant, PTL DEF IdleInv

\* However often the display manager comes and goes, and in whatever order its replies
\* and the hub's announcements are read, the belief about the display is right once
\* they all have been (suspend.c:1217-1332).
THEOREM DisplaySafe == Spec => []DisplayBelieved
  <1>1. IdleInv => DisplayBelieved
    <2> SUFFICES ASSUME IdleInv, Settled
                 PROVE  /\ ~displayOn => subscribed /\ ~screen
                        /\ token => displayOn = (subscribed => screen)
      BY DEF DisplayBelieved
    <2>1. DisplayTypes /\ StreamInv
      BY TypesEq DEF IdleInv
    <2>2. displayOn \in BOOLEAN /\ screen \in BOOLEAN /\ subscribed \in BOOLEAN
      BY <2>1 DEF DisplayTypes
    <2>3. CASE subscribed
      BY <2>1, <2>2, <2>3, Zenon DEF Settled, StreamInv
    <2>4. CASE ~subscribed
      BY <2>1, <2>2, <2>4, Zenon DEF Settled, StreamInv
    <2>5. QED
      BY <2>3, <2>4
  <1>2. QED
    BY <1>1, IdleInvariant, PTL

\* For any granularity and any waits of at least that, rounding an expiration down never
\* makes a check due in the tick the last one began in (timersource.c:73-103).
THEOREM NoBusyLoopSafe == Spec => NoBusyLoop
  <1>1. IdleInv /\ [Next]_vars =>
            [thread.at = "loop" /\ thread'.at = "check" => since > 0 \/ wanted = "check"]_vars
    <2> SUFFICES ASSUME IdleInv, Next, thread.at = "loop", thread'.at = "check", wanted # "check"
                 PROVE  since > 0
      OBVIOUS
    <2>0. thread \in ThreadType /\ since \in Nat /\ left \in Int
      BY TypesEq DEF IdleInv, SourceTypes
    <2>1. CASE ThreadStep
      <3>1. Dispatch
        <4>1. ~BeginCycle /\ ~Poll
          BY <2>0, GotoType DEF BeginCycle, Poll
        <4>2. ~(PollEnds \/ IdleCheck \/ Reschedule \/ Rearm \/ EndCycle)
          BY DEF PollEnds, PollOver, IdleCheck, Reschedule, Rearm, EndCycle
        <4>3. QED
          BY <2>1, <4>1, <4>2 DEF ThreadStep
      <3>2. left <= 0
        BY <3>1 DEF Dispatch, Ready
      <3>3. QED
        BY <2>0, <3>2 DEF IdleInv, BusyInv
    <2>2. CASE ~ThreadStep
      <3>1. UNCHANGED thread
        BY <2>2, Zenon DEF Next, MainStep, FireNow, DisplayReply, DisplayServer, Watchdog,
           Activity, TestSuspend, DisplayChanges, DisplayAnswers, VetoChanges, SourceLost, Tick, threadVars
      <3>2. QED
        BY <3>1
    <2>3. QED
      BY <2>1, <2>2
  <1>2. QED
    BY <1>1, IdleInvariant, PTL DEF Spec, NoBusyLoop

=============================================================================
