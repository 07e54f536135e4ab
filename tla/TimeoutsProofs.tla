--------------------------- MODULE TimeoutsProofs ---------------------------
(***************************************************************************)
(* Proofs about module Timeouts, for any set of keys, any bounds and any    *)
(* changes of the clock.                                                    *)
(***************************************************************************)
EXTENDS Timeouts, TLAPS

\* The record of the main thread's call in progress.
JobType ==
    [at : {"idle", "insert", "sync", "adjust", "expire", "arm"},
     key : SUBSET Keys, row : Row \cup {NoRow}, delta : Int,
     todo : SUBSET Keys, choice : Choice, stale : BOOLEAN]

SusType == [at : {"on", "arm", "armed", "down"}, choice : Choice, blind : SUBSET Keys]

\* Rows are left to adjust only while they are being adjusted, and are relative ones;
\* the row about to be inserted has been deleted before.
JobInv ==
    /\ job.at # "adjust" => job.todo = {}
    /\ \A k \in job.todo : Relative(k)
    /\ job.at = "insert" => \A k \in job.key : ~Pending(k)

\* An alarm among A goes off no later than the row of key k is due.
Covers(A, k) == \E t \in A : 0 <= t /\ t <= rows[k].left

\* Whatever alarm the suspend thread has chosen, has armed or sleeps under covers the
\* wakeup rows it is not blind to; what the main thread is about to arm covers all of
\* them, unless it slept in between; rows still to be adjusted are not counted on.
CoverInv ==
    /\ sus.at = "arm" => \A k \in Keys \ sus.blind : WakeupRow(k) => Covers(sus.choice.rtc, k)
    /\ sus.at \in {"armed", "down"} =>
           \A k \in Keys \ sus.blind : WakeupRow(k) => Covers(rtc, k)
    /\ job.at = "arm" /\ ~job.stale => \A k \in Keys : WakeupRow(k) => Covers(job.choice.rtc, k)
    /\ sus.at # "on" => job.todo \subseteq sus.blind

\* The rows the timer answers for: the wakeup rows, and the others when there is none.
Relevant(k) == Pending(k) /\ (rows[k].wakeup \/ ~\E w \in Keys : WakeupRow(w))

\* Unless an update is on its way, the timer of an idle main thread, and the one it is
\* about to set, is due no more than the rounding after any row it answers for.
TimerInv ==
    sus.at = "on" /\ ~poked =>
        /\ job.at = "idle" => \A k \in Keys : Relevant(k) => timer <= rows[k].left + 1
        /\ job.at = "arm" => \A k \in Keys : Relevant(k) => job.choice.timer <= rows[k].left

TimeoutsInv == TypeOK /\ JobInv /\ CoverInv

-----------------------------------------------------------------------------
(* The values the actions build.                                            *)

LEMMA NothingType == Nothing \in Choice
  BY TimeoutsAssumption DEF Nothing, Choice

LEMMA IdleIsJob == Idle \in JobType /\ Idle.at = "idle" /\ Idle.todo = {} /\ Idle.stale = FALSE
  BY NothingType DEF Idle, JobType

\* The fields of a record of JobType are replaced one by one.
LEMMA AtReplaced ==
    \A r \in JobType, a \in {"insert", "sync", "adjust", "expire", "arm"} :
        /\ [r EXCEPT !.at = a] \in JobType
        /\ [r EXCEPT !.at = a].at = a
        /\ [r EXCEPT !.at = a].todo = r.todo
        /\ [r EXCEPT !.at = a].stale = r.stale
  BY DEF JobType

LEMMA UpdatingType == Updating \in JobType /\ Updating.at = "sync" /\ Updating.todo = {}
  BY IdleIsJob, AtReplaced DEF Updating

LEMMA ExpiringType ==
    /\ [Idle EXCEPT !.at = "expire"] \in JobType
    /\ [Idle EXCEPT !.at = "expire"].at = "expire"
    /\ [Idle EXCEPT !.at = "expire"].todo = {}
  BY IdleIsJob, AtReplaced

\* A call that begins with the deletion of the row it is to insert.
LEMMA InsertingType ==
    ASSUME NEW k \in Keys, NEW row \in Row \cup {NoRow}, NEW j,
           j = [Idle EXCEPT !.at = "insert", !.key = {k}, !.row = row]
    PROVE  j \in JobType /\ j.at = "insert" /\ j.key = {k} /\ j.todo = {}
  <1>1. \A r \in JobType :
          /\ [r EXCEPT !.at = "insert", !.key = {k}, !.row = row] \in JobType
          /\ [r EXCEPT !.at = "insert", !.key = {k}, !.row = row].at = "insert"
          /\ [r EXCEPT !.at = "insert", !.key = {k}, !.row = row].key = {k}
          /\ [r EXCEPT !.at = "insert", !.key = {k}, !.row = row].todo = r.todo
    BY DEF JobType
  <1>2. /\ [Idle EXCEPT !.at = "insert", !.key = {k}, !.row = row] \in JobType
        /\ [Idle EXCEPT !.at = "insert", !.key = {k}, !.row = row].at = "insert"
        /\ [Idle EXCEPT !.at = "insert", !.key = {k}, !.row = row].key = {k}
        /\ [Idle EXCEPT !.at = "insert", !.key = {k}, !.row = row].todo = {}
    BY ONLY <1>1, IdleIsJob, Zenon
  <1>3. QED
    BY <1>2, Zenon

LEMMA ArmingType ==
    \A r \in JobType, choice \in Choice :
        /\ [r EXCEPT !.at = "arm", !.choice = choice] \in JobType
        /\ [r EXCEPT !.at = "arm", !.choice = choice].at = "arm"
        /\ [r EXCEPT !.at = "arm", !.choice = choice].choice = choice
        /\ [r EXCEPT !.at = "arm", !.choice = choice].todo = r.todo
  BY DEF JobType

LEMMA StaleType ==
    \A r \in JobType, b \in BOOLEAN :
        /\ [r EXCEPT !.stale = b] \in JobType
        /\ [r EXCEPT !.stale = b].stale = b
        /\ [r EXCEPT !.stale = b].at = r.at
        /\ [r EXCEPT !.stale = b].todo = r.todo
        /\ [r EXCEPT !.stale = b].key = r.key
        /\ [r EXCEPT !.stale = b].delta = r.delta
  BY DEF JobType

\* _recalculate_timeouts with these rows left.
LEMMA AdjustingType ==
    ASSUME NEW delta \in Int, NEW todo \in SUBSET Keys
    PROVE  /\ Adjusting(delta, todo) \in JobType
           /\ Adjusting(delta, todo).todo = todo
           /\ todo # {} => Adjusting(delta, todo).delta = delta
           /\ Adjusting(delta, todo).at = IF todo = {} THEN "expire" ELSE "adjust"
  <1>1. CASE todo = {}
    BY <1>1, ExpiringType DEF Adjusting
  <1>2. CASE todo # {}
    <2>1. Adjusting(delta, todo) = [Idle EXCEPT !.at = "adjust", !.delta = delta, !.todo = todo]
      BY <1>2, Zenon DEF Adjusting
    <2>2. /\ [Idle EXCEPT !.at = "adjust", !.delta = delta, !.todo = todo] \in JobType
          /\ [Idle EXCEPT !.at = "adjust", !.delta = delta, !.todo = todo].at = "adjust"
          /\ [Idle EXCEPT !.at = "adjust", !.delta = delta, !.todo = todo].todo = todo
          /\ [Idle EXCEPT !.at = "adjust", !.delta = delta, !.todo = todo].delta = delta
      <3>1. \A r \in JobType :
              /\ [r EXCEPT !.at = "adjust", !.delta = delta, !.todo = todo] \in JobType
              /\ [r EXCEPT !.at = "adjust", !.delta = delta, !.todo = todo].at = "adjust"
              /\ [r EXCEPT !.at = "adjust", !.delta = delta, !.todo = todo].todo = todo
              /\ [r EXCEPT !.at = "adjust", !.delta = delta, !.todo = todo].delta = delta
        BY DEF JobType
      <3>2. QED
        BY ONLY <3>1, IdleIsJob, Zenon
    <2>3. QED
      BY <1>2, <2>1, <2>2, Zenon
  <1>3. QED
    BY <1>1, <1>2

\* The suspend thread's record with more rows it cannot answer for.
LEMMA SusReplaced ==
    \A r \in SusType, B \in SUBSET Keys, a \in {"armed", "down"} :
        /\ [r EXCEPT !.blind = B] \in SusType
        /\ [r EXCEPT !.blind = B].blind = B
        /\ [r EXCEPT !.blind = B].at = r.at
        /\ [r EXCEPT !.blind = B].choice = r.choice
        /\ [r EXCEPT !.at = a] \in SusType
        /\ [r EXCEPT !.at = a].at = a
        /\ [r EXCEPT !.at = a].blind = r.blind
        /\ [r EXCEPT !.at = a, !.blind = B] \in SusType
        /\ [r EXCEPT !.at = a, !.blind = B].at = a
        /\ [r EXCEPT !.at = a, !.blind = B].blind = B
  <1> SUFFICES ASSUME NEW r \in SusType, NEW B \in SUBSET Keys, NEW a \in {"armed", "down"}
               PROVE  /\ [r EXCEPT !.blind = B] \in SusType
                      /\ [r EXCEPT !.blind = B].blind = B
                      /\ [r EXCEPT !.blind = B].at = r.at
                      /\ [r EXCEPT !.blind = B].choice = r.choice
                      /\ [r EXCEPT !.at = a] \in SusType
                      /\ [r EXCEPT !.at = a].at = a
                      /\ [r EXCEPT !.at = a].blind = r.blind
                      /\ [r EXCEPT !.at = a, !.blind = B] \in SusType
                      /\ [r EXCEPT !.at = a, !.blind = B].at = a
                      /\ [r EXCEPT !.at = a, !.blind = B].blind = B
    OBVIOUS
  <1>0. /\ [r EXCEPT !.blind = B] \in SusType
        /\ [r EXCEPT !.blind = B].blind = B
        /\ [r EXCEPT !.blind = B].at = r.at
        /\ [r EXCEPT !.blind = B].choice = r.choice
    BY DEF SusType
  <1>1. /\ [r EXCEPT !.at = a] \in SusType
        /\ [r EXCEPT !.at = a].at = a /\ [r EXCEPT !.at = a].blind = r.blind
    BY DEF SusType
  <1>2. /\ [r EXCEPT !.at = a, !.blind = B] \in SusType
        /\ [r EXCEPT !.at = a, !.blind = B].at = a
        /\ [r EXCEPT !.at = a, !.blind = B].blind = B
    BY DEF SusType
  <1> QED
    BY <1>0, <1>1, <1>2

LEMMA OnType == On \in SusType /\ On.at = "on"
  BY NothingType DEF On, SusType

\* Time passing, or the reference clock jumping, leaves rows rows.
LEMMA ShiftedRows ==
    ASSUME rows \in [Keys -> Row \cup {NoRow}], NEW by \in Int
    PROVE  /\ Shifted(by) \in [Keys -> Row \cup {NoRow}]
           /\ \A k \in Keys : Pending(k) =>
                /\ Shifted(by)[k] # NoRow
                /\ Shifted(by)[k].left = rows[k].left - by
                /\ Shifted(by)[k].wakeup = rows[k].wakeup
                /\ Shifted(by)[k].calendar = rows[k].calendar
           /\ \A k \in Keys : ~Pending(k) => Shifted(by)[k] = NoRow
  <1>1. ASSUME NEW k \in Keys, Pending(k)
        PROVE  /\ [rows[k] EXCEPT !.left = @ - by] \in Row
               /\ [rows[k] EXCEPT !.left = @ - by].left = rows[k].left - by
               /\ [rows[k] EXCEPT !.left = @ - by].wakeup = rows[k].wakeup
               /\ [rows[k] EXCEPT !.left = @ - by].calendar = rows[k].calendar
    BY <1>1 DEF Pending, Row
  <1>2. QED
    BY <1>1, TimeoutsAssumption DEF Shifted

\* Every selection is a well typed choice.
LEMMA SelectionType ==
    ASSUME rows \in [Keys -> Row \cup {NoRow}], NEW choice \in Selection
    PROVE  choice \in Choice
  <1>1. \A k \in Keys : Pending(k) => rows[k].left \in Int
    BY DEF Pending, Row
  <1>2. \A n \in Int : Clamp(n) \in Nat
    BY TimeoutsAssumption DEF Clamp
  <1>3. ASSUME NEW k \in Keys, Pending(k)
        PROVE  /\ [rtc |-> {rows[k].left}, timer |-> Clamp(rows[k].left)] \in Choice
               /\ [rtc |-> {}, timer |-> Clamp(rows[k].left)] \in Choice
    BY <1>1, <1>2, <1>3 DEF Choice
  <1>4. QED
    BY <1>3, NothingType DEF Selection, FirstOf, Wakeups, WakeupRow, Future

\* The alarm of a selection is early enough for every wakeup row that is not yet due.
LEMMA SelectionCovers ==
    ASSUME rows \in [Keys -> Row \cup {NoRow}], NEW choice \in Selection,
           NEW k \in Keys, WakeupRow(k), rows[k].left > 0
    PROVE  Covers(choice.rtc, k)
  <1>1. k \in Wakeups /\ Wakeups # {}
    BY DEF Wakeups
  <1>2. PICK f \in FirstOf(Wakeups) :
            choice = [rtc |-> {rows[f].left}, timer |-> Clamp(rows[f].left)]
    BY <1>1 DEF Selection
  <1>3. /\ rows[f].left \in Int /\ choice.rtc = {rows[f].left}
        /\ rows[f].left <= rows[k].left /\ rows[f].left > 0
    BY <1>1, <1>2 DEF FirstOf, Wakeups, WakeupRow, Pending, Row
  <1>4. QED
    BY <1>3 DEF Covers

\* With no row due, the timer of a selection is early enough for the rows it answers for.
LEMMA SelectionTimer ==
    ASSUME rows \in [Keys -> Row \cup {NoRow}], NEW choice \in Selection,
           ~\E k \in Keys : Due(k), NEW k \in Keys, Relevant(k)
    PROVE  choice.timer <= rows[k].left
  <1>1. \A j \in Keys : Pending(j) => rows[j].left \in Int /\ rows[j].left > 0
    BY DEF Due, Pending, Row
  <1>2. \A n \in Int : n > 0 => Clamp(n) \in Int /\ Clamp(n) <= n
    BY TimeoutsAssumption DEF Clamp
  <1>3. CASE Wakeups # {}
    <2>1. PICK f \in FirstOf(Wakeups) :
            choice = [rtc |-> {rows[f].left}, timer |-> Clamp(rows[f].left)]
      BY <1>3 DEF Selection
    <2>2. k \in Wakeups
      BY <1>1, <1>3 DEF Relevant, Wakeups, WakeupRow
    <2>3. Pending(f) /\ f \in Keys /\ rows[f].left <= rows[k].left
      BY <2>1, <2>2 DEF FirstOf, Wakeups, WakeupRow
    <2>4. QED
      BY <1>1, <1>2, <2>1, <2>3 DEF Relevant
  <1>4. CASE Wakeups = {}
    <2>1. k \in Future
      BY <1>1 DEF Relevant, Future
    <2>2. PICK f \in FirstOf(Future) : choice = [rtc |-> {}, timer |-> Clamp(rows[f].left)]
      BY <1>4, <2>1 DEF Selection
    <2>3. Pending(f) /\ f \in Keys /\ rows[f].left <= rows[k].left
      BY <2>1, <2>2 DEF FirstOf, Future
    <2>4. QED
      BY <1>1, <1>2, <2>2, <2>3 DEF Relevant
  <1>5. QED
    BY <1>3, <1>4
-----------------------------------------------------------------------------
(* The steps, one lemma for each group of conjuncts.                        *)

\* A step of any of the actors keeps the types.
LEMMA TypeStep == TypeOK /\ JobInv /\ [Next]_vars => TypeOK'
  <1> SUFFICES ASSUME TypeOK, JobInv, [Next]_vars
               PROVE  TypeOK'
    OBVIOUS
  <1> USE TimeoutsAssumption
  <1>0. /\ rows \in [Keys -> Row \cup {NoRow}] /\ drift \in Int /\ rtc \in SUBSET Int
        /\ timer \in Nat /\ job \in JobType /\ sus \in SusType
        /\ poked \in BOOLEAN /\ upsets \in Nat
    BY DEF TypeOK, JobType, SusType
  <1> DEFINE Typed == /\ rows' \in [Keys -> Row \cup {NoRow}] /\ drift' \in Int
                      /\ rtc' \in SUBSET Int /\ timer' \in Nat /\ job' \in JobType
                      /\ sus' \in SusType /\ upsets' \in Nat
  <1>p. poked' \in BOOLEAN
    BY <1>0, Zenon DEF Next, Caller, Set, Clear, JobStep, Insert, Sync, Select, Adjust, Expire, Arm,
       Dispatch, TimerCheck, Poke, SusSelect, SusStep, KernelSleeps, KernelRefuses, SusArm, Wake,
       RtcFires, Tick, Restart, SetClock, vars
  <1>t. Typed => TypeOK'
    BY <1>p DEF TypeOK, JobType, SusType
  <1>m. /\ \A K \in SUBSET Keys : Missed(K) \in SusType
        /\ \A K \in SUBSET Keys : Rearmed(K) \in SusType
    <2>1. /\ sus.blind \in SUBSET Keys
          /\ \A B \in SUBSET Keys : [sus EXCEPT !.blind = B] \in SusType
      BY <1>0 DEF SusType
    <2>2. QED
      BY <1>0, <2>1 DEF Missed, Rearmed
  <1>c. ASSUME NEW choice \in Choice, NEW ok \in BOOLEAN, ArmFor(choice, ok)
        PROVE  rtc' \in SUBSET Int /\ timer' \in Nat
    BY <1>0, <1>c DEF ArmFor, Choice
  <1>j. /\ job.choice \in Choice /\ sus.choice \in Choice /\ sus.blind \in SUBSET Keys
        /\ job.row \in Row \cup {NoRow} /\ job.delta \in Int /\ job.todo \in SUBSET Keys
        /\ job.key \in SUBSET Keys
    BY <1>0 DEF JobType, SusType
  <1>n. Hour \in Nat
    OBVIOUS
  <1> SUFFICES Typed
    BY <1>t
  <1> HIDE DEF Typed
  <1>1. ASSUME NEW k \in Keys, NEW n \in 0 .. MaxLeft, NEW w \in BOOLEAN, NEW c \in BOOLEAN,
               Set(k, n, w, c)
        PROVE  Typed
    <2>1. NewRow(n, w, c) \in Row
      BY <1>0 DEF NewRow, Row
    <2>2. job' \in JobType
      BY <1>1, <2>1, InsertingType DEF Set
    <2>3. QED
      BY <1>0, <1>1, <2>2 DEF Set, Typed
  <1>2. ASSUME NEW k \in Keys, Clear(k)
        PROVE  Typed
    BY <1>0, <1>2, UpdatingType DEF Clear, Typed
  <1>3. CASE Insert
    <2>1. PICK k \in job.key : rows' = [rows EXCEPT ![k] = job.row] /\ sus' = Missed({k})
      BY <1>3 DEF Insert
    <2>2. k \in Keys /\ sus' \in SusType
      BY <1>j, <1>m, <2>1
    <2>3. QED
      BY <1>0, <1>3, <1>j, <2>1, <2>2, UpdatingType DEF Insert, Typed
  <1>4. CASE Sync
    <2>1. rows' \in [Keys -> Row \cup {NoRow}]
      BY <1>0, <1>4, ShiftedRows DEF Sync
    <2>2. job' \in JobType
      <3>1. Adjusting(drift, {k \in Keys : Relative(k)}) \in JobType
        BY <1>0, AdjustingType
      <3>2. QED
        BY <1>4, <3>1, ExpiringType DEF Sync
    <2>3. sus' \in SusType
      BY <1>0, <1>4, <1>m DEF Sync
    <2>4. QED
      BY <1>0, <1>4, <2>1, <2>2, <2>3 DEF Sync, Typed
  <1>5. ASSUME NEW k \in Keys, Adjust(k)
        PROVE  Typed
    <2>1. job' \in JobType
      BY <1>5, <1>j, AdjustingType DEF Adjust
    <2>2. rows' \in [Keys -> Row \cup {NoRow}]
      <3>1. rows[k] \in Row
        BY <1>0, <1>5 DEF Adjust, JobInv, Relative, Pending
      <3>2. [rows[k] EXCEPT !.left = @ + job.delta] \in Row
        BY <1>j, <3>1 DEF Row
      <3>3. rows' = [rows EXCEPT ![k] = [rows[k] EXCEPT !.left = @ + job.delta]]
        BY <1>5 DEF Adjust
      <3>4. QED
        BY <1>0, <3>2, <3>3
    <2>3. QED
      BY <1>0, <1>5, <2>1, <2>2 DEF Adjust, Typed
  <1>6. ASSUME NEW k \in Keys, Expire(k)
        PROVE  Typed
    BY <1>0, <1>6 DEF Expire, Typed
  <1>7. CASE Select
    <2>1. PICK choice \in Selection : job' = [job EXCEPT !.at = "arm", !.choice = choice]
      BY <1>7 DEF Select
    <2>2. job' \in JobType
      BY <1>0, <2>1, SelectionType, ArmingType
    <2>3. QED
      BY <1>0, <1>7, <2>2 DEF Select, Typed
  <1>8. ASSUME NEW ok \in BOOLEAN, Arm(ok)
        PROVE  Typed
    <2>1. rtc' \in SUBSET Int /\ timer' \in Nat
      BY <1>8, <1>c, <1>j DEF Arm
    <2>2. sus' \in SusType
      BY <1>8, <1>m DEF Arm
    <2>3. QED
      BY <1>0, <1>8, <2>1, <2>2, IdleIsJob DEF Arm, Typed
  <1>9. CASE Dispatch
    BY <1>0, <1>9, UpdatingType DEF Dispatch, TimerCheck, Poke, Typed
  <1>10. CASE SusSelect
    <2>1. PICK choice \in Selection :
            sus' = [at |-> "arm", choice |-> choice,
                    blind |-> job.todo \cup {k \in Keys : Due(k)}]
      BY <1>10 DEF SusSelect
    <2>2. sus' \in SusType
      BY <1>0, <1>j, <2>1, SelectionType DEF SusType
    <2>3. QED
      BY <1>0, <1>10, <2>2 DEF SusSelect, Typed
  <1>11. ASSUME NEW ok \in BOOLEAN, SusArm(ok)
         PROVE  Typed
    <2>1. rtc' \in SUBSET Int /\ timer' \in Nat
      BY <1>11, <1>c, <1>j DEF SusArm
    <2>2. [On EXCEPT !.at = "armed", !.blind = sus.blind] \in SusType
      BY <1>j, OnType, SusReplaced
    <2>3. sus' \in SusType
      BY <1>11, <2>2, OnType DEF SusArm
    <2>4. poked' \in BOOLEAN
      BY <1>11 DEF SusArm
    <2>5. QED
      BY <1>0, <1>11, <2>1, <2>3, <2>4 DEF SusArm, Typed
  <1>12. CASE KernelSleeps
    <2>1. sus' \in SusType
      BY <1>0, <1>12 DEF KernelSleeps, SusType
    <2>2. QED
      BY <1>0, <1>12, <2>1 DEF KernelSleeps, Typed
  <1>13. CASE KernelRefuses \/ Wake
    BY <1>0, <1>13, OnType DEF KernelRefuses, Wake, Typed
  <1>14. CASE RtcFires
    <2>1. sus' \in SusType
      BY <1>14, <1>m DEF RtcFires
    <2>2. QED
      BY <1>0, <1>14, <2>1 DEF RtcFires, Typed
  <1>15. CASE Tick
    <2>1. rows' \in [Keys -> Row \cup {NoRow}]
      BY <1>0, <1>15, ShiftedRows DEF Tick
    <2>2. job' \in JobType
      BY <1>0, <1>15, StaleType DEF Tick
    <2>3. timer' \in Nat
      BY <1>0, <1>15 DEF Tick
    <2>4. rtc' \in SUBSET Int
      BY <1>0, <1>15 DEF Tick
    <2>5. QED
      BY <1>0, <1>15, <2>1, <2>2, <2>3, <2>4 DEF Tick, Typed
  <1>16. ASSUME NEW d \in Int, SetClock(d)
         PROVE  Typed
    <2>1. sus' \in SusType
      BY <1>16, <1>m DEF SetClock
    <2>2. QED
      BY <1>0, <1>16, <2>1 DEF SetClock, Typed
  <1>17. CASE Restart
    <2>1. rows' \in [Keys -> Row \cup {NoRow}]
      BY <1>0, <1>17, ShiftedRows DEF Restart
    <2>2. QED
      BY <1>0, <1>17, <1>n, <2>1, UpdatingType, OnType DEF Restart, Typed
  <1>18. CASE UNCHANGED vars
    BY <1>0, <1>18 DEF vars, Typed
  <1>19. ASSUME NEW d \in Jumps
         PROVE  d \in Int /\ -d \in Int
    OBVIOUS
  <1>20. QED
    BY <1>1, <1>2, <1>3, <1>4, <1>5, <1>6, <1>7, <1>8, <1>9, <1>10, <1>11, <1>12, <1>13,
       <1>14, <1>15, <1>16, <1>17, <1>18, <1>19
       DEF Next, Caller, JobStep, SusStep
\* The main thread's call in progress stays in order.
LEMMA JobInvStep == TypeOK /\ JobInv /\ [Next]_vars => JobInv'
  <1> SUFFICES ASSUME TypeOK, JobInv, [Next]_vars
               PROVE  JobInv'
    OBVIOUS
  <1> USE TimeoutsAssumption
  <1>0. /\ rows \in [Keys -> Row \cup {NoRow}] /\ drift \in Int /\ job \in JobType
        /\ job.todo \in SUBSET Keys /\ job.key \in SUBSET Keys /\ job.delta \in Int
        /\ job.stale \in BOOLEAN
    BY DEF TypeOK, JobType
  <1>j. /\ job.at # "adjust" => job.todo = {}
        /\ \A k \in job.todo : Relative(k)
        /\ job.at = "insert" => \A k \in job.key : ~Pending(k)
    BY DEF JobInv
  <1>s. ASSUME NEW by \in Int, rows' = Shifted(by), NEW k \in Keys
        PROVE  (Pending(k)' <=> Pending(k)) /\ (Relative(k)' <=> Relative(k))
    <2>1. /\ Pending(k) => Shifted(by)[k] # NoRow /\ Shifted(by)[k].calendar = rows[k].calendar
          /\ ~Pending(k) => Shifted(by)[k] = NoRow
      BY <1>0, ShiftedRows
    <2>2. QED
      BY <1>s, <2>1 DEF Pending, Relative
  <1>u. ASSUME job'.at \in {"idle", "sync", "expire", "arm"}, job'.todo = {}
        PROVE  JobInv'
    BY <1>u DEF JobInv
  <1>1. ASSUME NEW k \in Keys, NEW n \in 0 .. MaxLeft, NEW w \in BOOLEAN, NEW c \in BOOLEAN,
               Set(k, n, w, c)
        PROVE  JobInv'
    <2>1. NewRow(n, w, c) \in Row
      BY <1>0 DEF NewRow, Row
    <2>2. job'.at = "insert" /\ job'.key = {k} /\ job'.todo = {}
      BY <1>1, <2>1, InsertingType DEF Set
    <2>3. ~Pending(k)'
      BY <1>0, <1>1 DEF Set, Pending
    <2>4. QED
      BY <2>2, <2>3 DEF JobInv
  <1>2. CASE \/ \E k \in Keys : Clear(k)
             \/ Insert \/ Dispatch \/ Restart
    <2>1. job' = Updating
      BY <1>2 DEF Clear, Insert, Dispatch, TimerCheck, Poke, Restart
    <2>2. QED
      BY <1>u, <2>1, UpdatingType
  <1>3. CASE Sync
    <2>1. rows' = Shifted(drift)
      BY <1>3 DEF Sync
    <2>2. CASE drift \in {0, -1}
      BY <1>3, <1>u, <2>2, ExpiringType DEF Sync
    <2>3. CASE drift \notin {0, -1}
      <3>1. job' = Adjusting(drift, {k \in Keys : Relative(k)})
        BY <1>3, <2>3 DEF Sync
      <3>2. /\ job'.todo = {k \in Keys : Relative(k)}
            /\ job'.at = IF job'.todo = {} THEN "expire" ELSE "adjust"
        BY <1>0, <3>1, AdjustingType
      <3>3. \A k \in job'.todo : Relative(k)'
        BY <1>0, <1>s, <2>1, <3>2
      <3>4. QED
        BY <3>2, <3>3 DEF JobInv
    <2>4. QED
      BY <2>2, <2>3
  <1>4. ASSUME NEW k \in Keys, Adjust(k)
        PROVE  JobInv'
    <2>1. /\ job'.todo = job.todo \ {k}
          /\ job'.at = IF job'.todo = {} THEN "expire" ELSE "adjust"
      BY <1>0, <1>4, AdjustingType DEF Adjust
    <2>2. \A j \in Keys \ {k} : rows'[j] = rows[j]
      BY <1>0, <1>4 DEF Adjust
    <2>3. \A j \in job'.todo : Relative(j)'
      BY <1>0, <1>j, <2>1, <2>2 DEF Relative, Pending
    <2>4. QED
      BY <2>1, <2>3 DEF JobInv
  <1>5. CASE \/ Select \/ \E k \in Keys : Expire(k)
             \/ \E ok \in BOOLEAN : Arm(ok)
    <2>1. CASE Select
      <3>1. PICK choice \in Selection : job' = [job EXCEPT !.at = "arm", !.choice = choice]
        BY <2>1 DEF Select
      <3>2. choice \in Choice /\ job.todo = {}
        BY <1>0, <1>j, <2>1, SelectionType DEF Select
      <3>3. job'.at = "arm" /\ job'.todo = job.todo
        BY <1>0, <3>1, <3>2, ArmingType
      <3>4. QED
        BY <1>u, <3>2, <3>3
    <2>2. CASE \E k \in Keys : Expire(k)
      BY <1>j, <1>u, <2>2 DEF Expire
    <2>3. CASE \E ok \in BOOLEAN : Arm(ok)
      BY <1>u, <2>3, IdleIsJob DEF Arm
    <2>4. QED
      BY <1>5, <2>1, <2>2, <2>3
  <1>6. CASE Tick
    <2>1. rows' = Shifted(1) /\ job' = [job EXCEPT !.stale = (job.at = "arm")]
      BY <1>6 DEF Tick
    <2>2. job'.at = job.at /\ job'.todo = job.todo /\ job'.key = job.key
      BY <1>0, <2>1, StaleType
    <2>3. \A k \in Keys : (Pending(k)' <=> Pending(k)) /\ (Relative(k)' <=> Relative(k))
      BY <1>s, <2>1
    <2>4. QED
      BY <1>0, <1>j, <2>2, <2>3 DEF JobInv
  <1>7. CASE UNCHANGED <<rows, job>>
    BY <1>7 DEF JobInv, Relative, Pending
  <1>8. CASE \/ SusSelect \/ SusStep \/ Wake \/ RtcFires \/ UNCHANGED vars
             \/ \E d \in Jumps : SetClock(d) \/ SetClock(-d)
    BY <1>7, <1>8 DEF SusSelect, SusStep, KernelSleeps, KernelRefuses, SusArm, Wake, RtcFires,
       SetClock, vars
  <1>9. QED
    BY <1>1, <1>2, <1>3, <1>4, <1>5, <1>6, <1>8 DEF Next, Caller, JobStep

\* An alarm in force still covers the wakeup rows it is counted on for.
LEMMA CoverStep == TypeOK /\ JobInv /\ CoverInv /\ [Next]_vars => CoverInv'
  <1> SUFFICES ASSUME TypeOK, JobInv, CoverInv, [Next]_vars
               PROVE  CoverInv'
    OBVIOUS
  <1> USE TimeoutsAssumption
  <1>0. /\ rows \in [Keys -> Row \cup {NoRow}] /\ drift \in Int /\ rtc \in SUBSET Int
        /\ job \in JobType /\ sus \in SusType
        /\ job.todo \in SUBSET Keys /\ job.key \in SUBSET Keys /\ job.delta \in Int
        /\ job.choice \in Choice /\ sus.choice \in Choice /\ sus.blind \in SUBSET Keys
        /\ job.stale \in BOOLEAN
    BY DEF TypeOK, JobType, SusType
  <1>j. job.at # "adjust" => job.todo = {}
    BY DEF JobInv
  <1> DEFINE ArmCovered == sus.at = "arm" =>
                             \A k \in Keys \ sus.blind : WakeupRow(k) => Covers(sus.choice.rtc, k)
             SleepCovered == sus.at \in {"armed", "down"} =>
                               \A k \in Keys \ sus.blind : WakeupRow(k) => Covers(rtc, k)
             JobCovered == job.at = "arm" /\ ~job.stale =>
                             \A k \in Keys : WakeupRow(k) => Covers(job.choice.rtc, k)
             TodoBlind == sus.at # "on" => job.todo \subseteq sus.blind
  <1>c. ArmCovered /\ SleepCovered /\ JobCovered /\ TodoBlind
    BY DEF CoverInv
  <1>q. ArmCovered' /\ SleepCovered' /\ JobCovered' /\ TodoBlind' => CoverInv'
    BY DEF CoverInv
  <1> SUFFICES ArmCovered' /\ SleepCovered' /\ JobCovered' /\ TodoBlind'
    BY <1>q
  \* rows a step leaves alone, or removes, are covered as before
  <1>r. ASSUME NEW k \in Keys, rows'[k] = rows[k] \/ rows'[k] = NoRow, WakeupRow(k)'
        PROVE  WakeupRow(k) /\ rows'[k].left = rows[k].left
    BY <1>r DEF WakeupRow, Pending
  <1>m. ASSUME NEW K \in SUBSET Keys, sus' = Missed(K)
        PROVE  /\ sus'.at = sus.at /\ sus'.choice = sus.choice
               /\ sus.at # "on" => sus'.blind = sus.blind \cup K
    <2>1. CASE sus.at = "on"
      BY <1>m, <2>1 DEF Missed
    <2>2. CASE sus.at # "on"
      <3>1. sus' = [sus EXCEPT !.blind = sus.blind \cup K]
        BY <1>m, <2>2 DEF Missed
      <3>2. QED
        BY <1>0, <3>1 DEF SusType
    <2>3. QED
      BY <2>1, <2>2
  <1>a. ASSUME NEW K \in SUBSET Keys, sus' = Rearmed(K)
        PROVE  /\ sus'.at = sus.at /\ sus'.choice = sus.choice
               /\ sus.at # "armed" => sus'.blind = sus.blind
               /\ sus.at = "armed" => sus'.blind = Keys \ K
    <2>1. CASE sus.at # "armed"
      BY <1>a, <2>1 DEF Rearmed
    <2>2. CASE sus.at = "armed"
      <3>1. sus' = [sus EXCEPT !.blind = Keys \ K]
        BY <1>a, <2>2 DEF Rearmed
      <3>2. QED
        BY <1>0, <2>2, <3>1 DEF SusType
    <2>3. QED
      BY <2>1, <2>2
  \* a main thread that is not about to arm, and has nothing to adjust
  <1>i. ASSUME job'.at # "arm", job'.todo = {}
        PROVE  JobCovered' /\ TodoBlind'
    BY <1>i
  \* rows are left alone or removed, alarm and suspend thread left alone
  <1>k. ASSUME UNCHANGED <<rtc, sus>>, \A k \in Keys : rows'[k] = rows[k] \/ rows'[k] = NoRow
        PROVE  ArmCovered' /\ SleepCovered'
    <2>1. sus'.at = sus.at /\ sus'.blind = sus.blind /\ sus'.choice = sus.choice /\ rtc' = rtc
      BY <1>k
    <2>2. \A k \in Keys : WakeupRow(k)' => WakeupRow(k) /\ rows'[k].left = rows[k].left
      BY <1>k, <1>r
    <2>3. QED
      BY <1>c, <2>1, <2>2 DEF Covers
  <1>1. CASE Caller
    <2>1. PICK k \in Keys : \/ Clear(k)
                            \/ \E n \in 0 .. MaxLeft, w \in BOOLEAN, c \in BOOLEAN : Set(k, n, w, c)
      BY <1>1 DEF Caller
    <2>2. UNCHANGED <<rtc, sus>> /\ \A l \in Keys : rows'[l] = rows[l] \/ rows'[l] = NoRow
      BY <1>0, <2>1 DEF Clear, Set
    <2>3. job'.at # "arm" /\ job'.todo = {}
      <3>1. CASE Clear(k)
        BY <3>1, UpdatingType DEF Clear
      <3>2. ASSUME NEW n \in 0 .. MaxLeft, NEW w \in BOOLEAN, NEW c \in BOOLEAN, Set(k, n, w, c)
            PROVE  job'.at # "arm" /\ job'.todo = {}
        <4>1. NewRow(n, w, c) \in Row
          BY <1>0 DEF NewRow, Row
        <4>2. QED
          BY <3>2, <4>1, InsertingType DEF Set
      <3>3. QED
        BY <2>1, <3>1, <3>2
    <2>4. QED
      BY <1>i, <1>k, <2>2, <2>3
  <1>2. CASE Insert
    <2>1. PICK k \in job.key : rows' = [rows EXCEPT ![k] = job.row] /\ sus' = Missed({k})
      BY <1>2 DEF Insert
    <2>2. /\ sus'.at = sus.at /\ sus'.choice = sus.choice
          /\ sus.at # "on" => sus'.blind = sus.blind \cup {k}
      <3>1. {k} \in SUBSET Keys
        BY <1>0
      <3>2. QED
        BY <1>m, <2>1, <3>1
    <2>3. \A l \in Keys \ {k} : rows'[l] = rows[l]
      BY <1>0, <2>1
    <2>4. \A l \in Keys \ {k} : WakeupRow(l)' => WakeupRow(l) /\ rows'[l].left = rows[l].left
      BY <1>r, <2>3
    <2>5. rtc' = rtc /\ job' = Updating
      BY <1>2 DEF Insert
    <2>6. ArmCovered' /\ SleepCovered'
      BY <1>c, <2>2, <2>4, <2>5 DEF Covers
    <2>7. QED
      BY <1>i, <2>5, <2>6, UpdatingType
  <1>3. CASE Sync
    <2>1. rtc' = rtc /\ rows' = Shifted(drift)
      BY <1>3 DEF Sync
    <2>2. CASE drift = 0
      <3>1. sus' = sus /\ job'.at # "arm" /\ job'.todo = {}
        BY <1>3, <2>2, ExpiringType DEF Sync
      <3>2. \A k \in Keys : WakeupRow(k)' => WakeupRow(k) /\ rows'[k].left = rows[k].left
        <4>1. \A k \in Keys : Pending(k) => rows[k].left \in Int
          BY <1>0 DEF Pending, Row
        <4>2. \A k \in Keys : Pending(k) => /\ rows'[k].left = rows[k].left - drift
                                            /\ rows'[k].wakeup = rows[k].wakeup
          BY <1>0, <2>1, ShiftedRows
        <4>3. \A k \in Keys : ~Pending(k) => rows'[k] = NoRow
          BY <1>0, <2>1, ShiftedRows
        <4>4. QED
          BY <2>2, <4>1, <4>2, <4>3 DEF WakeupRow, Pending
      <3>3. ArmCovered' /\ SleepCovered'
        BY <1>c, <2>1, <3>1, <3>2 DEF Covers
      <3>4. QED
        BY <1>i, <3>1, <3>3
    <2>3. CASE drift # 0
      <3>1. sus' = Missed(Keys)
        BY <1>3, <2>3 DEF Sync
      <3>2. sus'.at = sus.at /\ (sus.at # "on" => sus'.blind = Keys)
        BY <1>0, <1>m, <3>1
      <3>3. job'.at # "arm" /\ job'.todo \subseteq Keys
        <4>1. CASE drift = -1
          BY <1>3, <4>1, ExpiringType DEF Sync
        <4>2. CASE drift # -1
          <5>1. job' = Adjusting(drift, {k \in Keys : Relative(k)})
            BY <1>3, <2>3, <4>2 DEF Sync
          <5>2. QED
            BY <1>0, <5>1, AdjustingType
        <4>3. QED
          BY <4>1, <4>2
      <3>4. QED
        BY <3>2, <3>3
    <2>4. QED
      BY <2>2, <2>3
  <1>4. ASSUME NEW k \in Keys, Adjust(k)
        PROVE  ArmCovered' /\ SleepCovered' /\ JobCovered' /\ TodoBlind'
    <2>1. UNCHANGED <<rtc, sus>> /\ k \in job.todo /\ \A l \in Keys \ {k} : rows'[l] = rows[l]
      BY <1>0, <1>4 DEF Adjust
    <2>2. job'.at # "arm" /\ job'.todo = job.todo \ {k}
      BY <1>0, <1>4, AdjustingType DEF Adjust
    <2>3. \A l \in Keys \ {k} : WakeupRow(l)' => WakeupRow(l) /\ rows'[l].left = rows[l].left
      BY <1>r, <2>1
    <2>4. sus.at # "on" => k \in sus.blind
      BY <1>c, <2>1
    <2>5. sus'.at = sus.at /\ sus'.blind = sus.blind /\ sus'.choice = sus.choice /\ rtc' = rtc
      BY <2>1
    <2>6. ArmCovered' /\ SleepCovered'
      BY <1>c, <2>3, <2>4, <2>5 DEF Covers
    <2>7. JobCovered' /\ TodoBlind'
      BY <1>c, <2>2, <2>5
    <2>8. QED
      BY <2>6, <2>7
  <1>5. ASSUME NEW k \in Keys, Expire(k)
        PROVE  ArmCovered' /\ SleepCovered' /\ JobCovered' /\ TodoBlind'
    <2>1. UNCHANGED <<rtc, sus>> /\ \A l \in Keys : rows'[l] = rows[l] \/ rows'[l] = NoRow
      BY <1>0, <1>5 DEF Expire
    <2>2. job'.at # "arm" /\ job'.todo = {}
      BY <1>5, <1>j DEF Expire
    <2>3. QED
      BY <1>i, <1>k, <2>1, <2>2
  <1>6. CASE Select
    <2>1. PICK choice \in Selection : job' = [job EXCEPT !.at = "arm", !.choice = choice]
      BY <1>6 DEF Select
    <2>2. choice \in Choice /\ job.todo = {}
      BY <1>0, <1>6, <1>j, SelectionType DEF Select
    <2>3. job'.at = "arm" /\ job'.choice = choice /\ job'.todo = {}
      BY <1>0, <2>1, <2>2, ArmingType
    <2>4. rows' = rows /\ UNCHANGED <<rtc, sus>>
      BY <1>6 DEF Select
    <2>5. ASSUME NEW k \in Keys, WakeupRow(k)
          PROVE  Covers(choice.rtc, k)
      <3>1. rows[k].left > 0
        BY <1>0, <1>6, <2>5 DEF Select, Due, WakeupRow, Pending, Row
      <3>2. QED
        BY <1>0, <2>5, <3>1, SelectionCovers
    <2>6. JobCovered'
      BY <2>3, <2>4, <2>5 DEF WakeupRow, Pending, Covers
    <2>7. TodoBlind'
      BY <2>3
    <2>8. QED
      BY <1>k, <2>4, <2>6, <2>7
  <1>7. ASSUME NEW ok \in BOOLEAN, Arm(ok)
        PROVE  ArmCovered' /\ SleepCovered' /\ JobCovered' /\ TodoBlind'
    <2>1. /\ rows' = rows /\ job' = Idle
          /\ rtc' = IF ok THEN job.choice.rtc ELSE rtc
          /\ sus' = Rearmed(IF ok /\ ~job.stale THEN Keys ELSE {})
          /\ job.at = "arm"
      BY <1>7 DEF Arm, ArmFor
    <2>2. /\ sus'.at = sus.at /\ sus'.choice = sus.choice
          /\ sus.at # "armed" => sus'.blind = sus.blind
          /\ sus.at = "armed" => sus'.blind = Keys \ (IF ok /\ ~job.stale THEN Keys ELSE {})
      BY <1>a, <2>1
    <2>3. sus.at # "down"
      BY <1>7 DEF Arm, Awake
    <2>4. ArmCovered'
      BY <1>c, <2>1, <2>2 DEF WakeupRow, Pending, Covers
    <2>5. SleepCovered'
      <3>1. CASE ok /\ ~job.stale
        <4>1. \A k \in Keys : WakeupRow(k) => Covers(job.choice.rtc, k)
          BY <1>c, <2>1, <3>1
        <4>2. rtc' = job.choice.rtc
          BY <2>1, <3>1
        <4>3. QED
          BY <2>1, <4>1, <4>2 DEF WakeupRow, Pending, Covers
      <3>2. CASE ~(ok /\ ~job.stale)
        BY <2>2, <2>3, <3>2
      <3>3. QED
        BY <3>1, <3>2
    <2>6. QED
      BY <1>i, <2>1, <2>4, <2>5, IdleIsJob
  <1>8. CASE Dispatch
    BY <1>8, <1>i, <1>k, UpdatingType DEF Dispatch, TimerCheck, Poke
  <1>9. CASE SusSelect
    <2>1. PICK choice \in Selection :
            sus' = [at |-> "arm", choice |-> choice,
                    blind |-> job.todo \cup {k \in Keys : Due(k)}]
      BY <1>9 DEF SusSelect
    <2>2. UNCHANGED <<rows, rtc, job>>
      BY <1>9 DEF SusSelect
    <2>3. ASSUME NEW k \in Keys, WakeupRow(k), ~Due(k)
          PROVE  Covers(choice.rtc, k)
      <3>1. rows[k].left > 0
        BY <1>0, <2>3 DEF Due, WakeupRow, Pending, Row
      <3>2. QED
        BY <1>0, <2>3, <3>1, SelectionCovers
    <2>4. /\ sus'.at = "arm" /\ sus'.choice = choice
          /\ sus'.blind = job.todo \cup {k \in Keys : Due(k)}
      BY <2>1
    <2>5. ArmCovered'
      BY <2>2, <2>3, <2>4 DEF WakeupRow, Pending, Covers
    <2>6. JobCovered'
      BY <1>c, <2>2 DEF WakeupRow, Pending, Covers
    <2>7. QED
      BY <2>2, <2>4, <2>5, <2>6
  <1>n. On.at = "on"
    BY OnType
  \* the suspend thread is back in On, main thread and rows left alone
  <1>o. ASSUME sus' = On, UNCHANGED <<rows, job>>
        PROVE  ArmCovered' /\ SleepCovered' /\ JobCovered' /\ TodoBlind'
    <2>1. JobCovered'
      BY <1>c, <1>o DEF WakeupRow, Pending, Covers
    <2>2. QED
      BY <1>n, <1>o, <2>1
  <1>10. ASSUME NEW ok \in BOOLEAN, SusArm(ok)
         PROVE  ArmCovered' /\ SleepCovered' /\ JobCovered' /\ TodoBlind'
    <2>1. UNCHANGED <<rows, job>> /\ sus.at = "arm"
      BY <1>10 DEF SusArm
    <2>2. CASE ok
      <3>1. rtc' = sus.choice.rtc /\ sus' = [On EXCEPT !.at = "armed", !.blind = sus.blind]
        BY <1>10, <2>2 DEF SusArm, ArmFor
      <3>2. sus'.at = "armed" /\ sus'.blind = sus.blind
        <4>1. /\ [On EXCEPT !.at = "armed", !.blind = sus.blind].at = "armed"
              /\ [On EXCEPT !.at = "armed", !.blind = sus.blind].blind = sus.blind
          <5>1. \A r \in SusType, B \in SUBSET Keys :
                  /\ [r EXCEPT !.at = "armed", !.blind = B].at = "armed"
                  /\ [r EXCEPT !.at = "armed", !.blind = B].blind = B
            BY DEF SusType
          <5>2. QED
            BY ONLY <1>0, <5>1, OnType, Zenon
        <4>2. QED
          BY <3>1, <4>1, Zenon
      <3>3. SleepCovered'
        BY <1>c, <2>1, <3>1, <3>2 DEF WakeupRow, Pending, Covers
      <3>4. JobCovered' /\ TodoBlind'
        BY <1>c, <2>1, <3>2 DEF WakeupRow, Pending, Covers
      <3>5. QED
        BY <3>2, <3>3, <3>4
    <2>3. CASE ~ok
      BY <1>10, <1>o, <2>1, <2>3 DEF SusArm
    <2>4. QED
      BY <2>2, <2>3
  <1>11. CASE KernelSleeps
    <2>1. UNCHANGED <<rows, rtc, job>> /\ sus.at = "armed"
      BY <1>11 DEF KernelSleeps
    <2>2. sus'.at = "down" /\ sus'.blind = sus.blind
      BY <1>0, <1>11 DEF KernelSleeps, SusType
    <2>3. SleepCovered' /\ JobCovered'
      BY <1>c, <2>1, <2>2 DEF WakeupRow, Pending, Covers
    <2>4. QED
      BY <1>c, <2>1, <2>2, <2>3
  <1>12. CASE KernelRefuses \/ Wake
    BY <1>12, <1>o DEF KernelRefuses, Wake
  \* the alarm is changed behind the suspend thread's back
  <1>b. ASSUME UNCHANGED <<rows, job>>, sus' = Rearmed({}), sus.at # "down"
        PROVE  ArmCovered' /\ SleepCovered' /\ JobCovered' /\ TodoBlind'
    <2>1. /\ sus'.at = sus.at /\ sus'.choice = sus.choice
          /\ sus.at # "armed" => sus'.blind = sus.blind
          /\ sus.at = "armed" => sus'.blind = Keys
      BY <1>a, <1>b
    <2>2. ArmCovered' /\ JobCovered'
      BY <1>b, <1>c, <2>1 DEF WakeupRow, Pending, Covers
    <2>3. SleepCovered' /\ TodoBlind'
      BY <1>0, <1>b, <1>c, <2>1
    <2>4. QED
      BY <2>2, <2>3
  <1>13. CASE RtcFires
    BY <1>13, <1>b DEF RtcFires, Awake
  <1>14. CASE \E d \in Jumps : SetClock(d) \/ SetClock(-d)
    BY <1>14, <1>b DEF SetClock, Awake
  <1>15. CASE Tick
    <2>1. /\ rows' = Shifted(1) /\ rtc' = {t - 1 : t \in rtc} /\ sus' = sus
          /\ job' = [job EXCEPT !.stale = (job.at = "arm")]
          /\ \A t \in rtc : t > 0
      BY <1>15 DEF Tick
    <2>2. job'.at = job.at /\ job'.todo = job.todo /\ job'.stale = (job.at = "arm")
      BY <1>0, <2>1, StaleType
    <2>3. sus.at \in {"on", "down"}
      BY <1>0, <1>15 DEF Tick, Awake, SusType
    <2>4. JobCovered' /\ TodoBlind' /\ ArmCovered'
      BY <1>c, <2>1, <2>2, <2>3
    <2>5. ASSUME NEW k \in Keys, WakeupRow(k)', Covers(rtc, k)
          PROVE  Covers(rtc, k)'
      <3>1. Pending(k)
        BY <1>0, <2>1, <2>5, ShiftedRows DEF WakeupRow, Pending
      <3>2. rows[k].left \in Int /\ rows'[k].left = rows[k].left - 1
        <4>1. rows[k].left \in Int
          BY <1>0, <3>1 DEF Pending, Row
        <4>2. rows'[k].left = rows[k].left - 1
          BY <1>0, <2>1, <3>1, ShiftedRows
        <4>3. QED
          BY <4>1, <4>2
      <3>3. PICK t \in rtc : 0 <= t /\ t <= rows[k].left
        BY <2>5 DEF Covers
      <3>4. t - 1 \in rtc' /\ 0 <= t - 1 /\ t - 1 <= rows'[k].left
        BY <1>0, <2>1, <3>2, <3>3
      <3>5. QED
        BY <3>4 DEF Covers
    <2>6. ASSUME NEW k \in Keys, WakeupRow(k)'
          PROVE  WakeupRow(k)
      <3>1. Pending(k)
        BY <1>0, <2>1, <2>6, ShiftedRows DEF WakeupRow, Pending
      <3>2. rows'[k].wakeup = rows[k].wakeup
        BY <1>0, <2>1, <3>1, ShiftedRows
      <3>3. QED
        BY <2>6, <3>1, <3>2, Zenon DEF WakeupRow
    <2>7. SleepCovered'
      BY <1>c, <2>1, <2>5, <2>6
    <2>8. QED
      BY <2>4, <2>7
  <1>16. CASE Restart
    <2>1. sus' = On /\ job' = Updating
      BY <1>16 DEF Restart
    <2>2. QED
      BY <1>i, <1>n, <2>1, UpdatingType
  <1>17. CASE UNCHANGED vars
    BY <1>17, <1>c DEF vars, WakeupRow, Pending, Covers
  <1>18. QED
    BY <1>1, <1>2, <1>3, <1>4, <1>5, <1>6, <1>7, <1>8, <1>9, <1>10, <1>11, <1>12, <1>13, <1>14,
       <1>15, <1>16, <1>17 DEF Next, JobStep, SusStep

\* A step of any of the actors keeps the timer early enough.
LEMMA TimerStep == TypeOK /\ TimerInv /\ [Next]_vars => TimerInv'
  <1> SUFFICES ASSUME TypeOK, TimerInv, [Next]_vars
               PROVE  TimerInv'
    OBVIOUS
  <1> USE TimeoutsAssumption
  <1>0. /\ rows \in [Keys -> Row \cup {NoRow}] /\ timer \in Nat
        /\ job \in JobType /\ sus \in SusType /\ job.choice.timer \in Nat
        /\ \A k \in Keys : Pending(k) => rows[k].left \in Int
    BY DEF TypeOK, JobType, SusType, Choice, Pending, Row
  \* the thread is in the middle of a call, which ends in a new timer
  <1>v. ASSUME job'.at \notin {"idle", "arm"}
        PROVE  TimerInv'
    BY <1>v DEF TimerInv
  \* an update is due, or the suspend thread has the timer in its hands
  <1>w. ASSUME poked' \/ sus'.at # "on"
        PROVE  TimerInv'
    BY <1>w DEF TimerInv
  <1>1. CASE Caller
    <2>1. job'.at \in {"sync", "insert"}
      <3>1. ASSUME NEW k \in Keys, Clear(k)
            PROVE  job'.at = "sync"
        BY <3>1, UpdatingType DEF Clear
      <3>2. ASSUME NEW k \in Keys, NEW n \in 0 .. MaxLeft, NEW w \in BOOLEAN,
                   NEW c \in BOOLEAN, Set(k, n, w, c)
            PROVE  job'.at = "insert"
        <4>1. NewRow(n, w, c) \in Row
          BY DEF TypeOK, NewRow, Row
        <4>2. QED
          BY <3>2, <4>1, InsertingType DEF Set
      <3>3. QED
        BY <1>1, <3>1, <3>2 DEF Caller
    <2>2. QED
      BY <1>v, <2>1
  <1>2. CASE Insert \/ Dispatch \/ Restart
    <2>1. job'.at = "sync"
      BY <1>2, UpdatingType DEF Insert, Dispatch, TimerCheck, Poke, Restart
    <2>2. QED
      BY <1>v, <2>1
  <1>3. CASE Sync
    <2>1. job'.at \in {"expire", "adjust"}
      <3>1. {k \in Keys : Relative(k)} \in SUBSET Keys /\ drift \in Int
        BY DEF TypeOK
      <3>2. QED
        BY <1>3, <3>1, AdjustingType, ExpiringType DEF Sync
    <2>2. QED
      BY <1>v, <2>1
  <1>4. ASSUME NEW k \in Keys, Adjust(k) \/ Expire(k)
        PROVE  TimerInv'
    <2>1. job'.at \in {"expire", "adjust"}
      <3>1. job.delta \in Int /\ job.todo \ {k} \in SUBSET Keys
        BY <1>0 DEF JobType
      <3>2. QED
        BY <1>4, <3>1, AdjustingType DEF Adjust, Expire
    <2>2. QED
      BY <1>v, <2>1
  <1>5. CASE Select
    <2>1. PICK choice \in Selection : job' = [job EXCEPT !.at = "arm", !.choice = choice]
      BY <1>5 DEF Select
    <2>2. job'.at = "arm" /\ job'.choice = choice
      BY <1>0, <2>1, SelectionType, ArmingType
    <2>3. rows' = rows /\ ~\E k \in Keys : Due(k)
      BY <1>5 DEF Select
    <2>4. \A k \in Keys : Relevant(k) => choice.timer <= rows[k].left
      BY <1>0, <2>3, SelectionTimer
    <2>5. QED
      BY <2>2, <2>3, <2>4 DEF TimerInv, Relevant, Pending, WakeupRow
  <1>6. ASSUME NEW ok \in BOOLEAN, Arm(ok)
        PROVE  TimerInv'
    <2>1. /\ job.at = "arm" /\ rows' = rows /\ poked' = poked /\ job' = Idle
          /\ timer' \in {job.choice.timer, job.choice.timer + 1}
      BY <1>6 DEF Arm, ArmFor
    <2>2. sus'.at = sus.at
      BY <1>0, <1>6 DEF Arm, Rearmed, SusType
    <2>3. ASSUME sus.at = "on", ~poked, NEW k \in Keys, Relevant(k)
          PROVE  timer' <= rows[k].left + 1
      <3>1. job.choice.timer <= rows[k].left /\ rows[k].left \in Int
        BY <1>0, <2>1, <2>3 DEF TimerInv, Relevant
      <3>2. QED
        BY <1>0, <2>1, <3>1
    <2>4. QED
      BY <2>1, <2>2, <2>3, IdleIsJob DEF TimerInv, Relevant, Pending, WakeupRow
  <1>7. CASE SusSelect \/ KernelSleeps
    <2>1. sus'.at # "on"
      BY <1>0, <1>7 DEF SusSelect, KernelSleeps, SusType
    <2>2. QED
      BY <1>w, <2>1
  <1>8. ASSUME NEW ok \in BOOLEAN, SusArm(ok)
        PROVE  TimerInv'
    <2>1. ok => sus'.at = "armed"
      <3>1. sus.blind \in SUBSET Keys
        BY <1>0 DEF SusType
      <3>2. [On EXCEPT !.at = "armed", !.blind = sus.blind].at = "armed"
        BY <3>1, OnType DEF SusType
      <3>3. QED
        BY <1>8, <3>2 DEF SusArm
    <2>2. ~ok => poked'
      BY <1>8 DEF SusArm
    <2>3. QED
      BY <1>w, <2>1, <2>2
  <1>9. CASE KernelRefuses \/ Wake \/ RtcFires
    BY <1>9, <1>w DEF KernelRefuses, Wake, RtcFires
  <1>10. CASE Tick
    <2>1. CASE sus.at = "down"
      BY <1>10, <1>w, <2>1 DEF Tick
    <2>2. CASE sus.at # "down"
      <3>1. /\ job.at = "idle" /\ ~poked /\ sus.at = "on" /\ timer' = timer - 1
            /\ rows' = Shifted(1) /\ job' = [job EXCEPT !.stale = (job.at = "arm")]
        BY <1>10, <2>2 DEF Tick, Awake
      <3>2. job'.at = "idle"
        BY <1>0, <3>1, StaleType
      <3>3. ASSUME NEW k \in Keys
            PROVE  /\ Pending(k)' <=> Pending(k)
                   /\ WakeupRow(k)' <=> WakeupRow(k)
                   /\ Relevant(k)' => rows'[k].left = rows[k].left - 1
        BY <1>0, <3>1, ShiftedRows DEF Pending, WakeupRow, Relevant
      <3>4. ASSUME NEW k \in Keys, Relevant(k)'
            PROVE  Relevant(k)
        BY <3>3, <3>4 DEF Relevant, WakeupRow
      <3>5. ASSUME NEW k \in Keys, Relevant(k)'
            PROVE  timer' <= rows'[k].left + 1
        <4>1. timer <= rows[k].left + 1 /\ rows[k].left \in Int
          BY <1>0, <3>1, <3>4, <3>5 DEF TimerInv, Relevant
        <4>2. QED
          BY <1>0, <3>1, <3>3, <3>5, <4>1
      <3>6. QED
        BY <3>2, <3>5 DEF TimerInv
    <2>3. QED
      BY <2>1, <2>2
  <1>11. CASE \E d \in Jumps : SetClock(d) \/ SetClock(-d)
    <2>1. UNCHANGED <<rows, timer, job, poked>> /\ sus' = Rearmed({})
      BY <1>11 DEF SetClock
    <2>2. sus'.at = sus.at
      BY <1>0, <2>1 DEF Rearmed, SusType
    <2>3. QED
      BY <2>1, <2>2 DEF TimerInv, Relevant, Pending, WakeupRow
  <1>12. CASE UNCHANGED vars
    BY <1>12 DEF vars, TimerInv, Relevant, Pending, WakeupRow
  <1>13. QED
    BY <1>1, <1>2, <1>3, <1>4, <1>5, <1>6, <1>7, <1>8, <1>9, <1>10, <1>11, <1>12
       DEF Next, JobStep, SusStep

-----------------------------------------------------------------------------
(* The theorems.                                                            *)

\* The invariant holds in every reachable state.
THEOREM TimeoutsInvariant == Spec => []TimeoutsInv
  <1>1. Init => TimeoutsInv
    <2> SUFFICES ASSUME Init PROVE TimeoutsInv
      OBVIOUS
    <2> USE TimeoutsAssumption
    <2>1. job = Idle /\ sus = On /\ job.at = "idle" /\ job.todo = {} /\ sus.at = "on"
      BY IdleIsJob, OnType DEF Init
    <2>2. job \in JobType /\ sus \in SusType
      BY <2>1, IdleIsJob, OnType
    <2>3. poked \in BOOLEAN
      BY DEF Init
    <2>4. TypeOK
      BY <2>2, <2>3 DEF Init, TypeOK, JobType, SusType
    <2>5. JobInv /\ CoverInv
      BY <2>1 DEF JobInv, CoverInv
    <2>6. QED
      BY <2>4, <2>5 DEF TimeoutsInv
  <1>2. TimeoutsInv /\ [Next]_vars => TimeoutsInv'
    BY TypeStep, JobInvStep, CoverStep DEF TimeoutsInv
  <1>3. QED
    BY <1>1, <1>2, PTL DEF Spec

\* Table, alarm, timer and both threads are well typed.
THEOREM TimeoutsTypeCorrect == Spec => []TypeOK
  BY TimeoutsInvariant, PTL DEF TimeoutsInv

\* For any number of timeouts and whatever the main thread, the callers and the clock
\* do meanwhile, the device does not sleep past a wakeup timeout it is not blind to
\* (timeout_alarm.c:583-733).
THEOREM WakesSafe == Spec => []WakesInTime
  <1>1. TimeoutsInv => WakesInTime
    <2> SUFFICES ASSUME TimeoutsInv, sus.at = "down", NEW k \in Keys \ sus.blind, WakeupRow(k)
                 PROVE  rows[k].left >= 0
      BY DEF WakesInTime, Awake
    <2>1. rtc \in SUBSET Int /\ rows[k].left \in Int
      BY DEF TimeoutsInv, TypeOK, WakeupRow, Pending, Row
    <2>2. PICK t \in rtc : 0 <= t /\ t <= rows[k].left
      BY DEF TimeoutsInv, CoverInv, Covers
    <2>3. QED
      BY <2>1, <2>2
  <1>2. QED
    BY <1>1, TimeoutsInvariant, PTL

\* For any number of timeouts, whatever the suspend thread did to the shared timer and
\* the clock to the table: no timeout is overdue in an idle, awake device, but for one
\* without wakeup that a pending wakeup timeout hides from the selection
\* (timeout_alarm.c:583-733).
THEOREM DeliveredSafe == Spec => []DeliveredOnTime
  <1>1. Init => TimerInv
    BY DEF Init, TimerInv, Relevant, Pending
  <1>2. TypeOK /\ TimerInv => DeliveredOnTime
    <2> SUFFICES ASSUME TypeOK, TimerInv, Quiet, NEW k \in Keys, Due(k), rows[k].left < 0
                 PROVE  ~rows[k].wakeup /\ \E w \in Keys : WakeupRow(w)
      BY DEF DeliveredOnTime
    <2>1. rows[k].left \in Int /\ timer \in Nat
      BY DEF TypeOK, Due, Pending, Row
    <2>2. ~Relevant(k)
      BY <2>1 DEF Quiet, MainIdle, TimerInv
    <2>3. QED
      BY <2>2 DEF Relevant, Due
  <1>3. QED
    BY <1>1, <1>2, TimerStep, TimeoutsTypeCorrect, PTL DEF Spec

\* For any number of timeouts and any changes of the clock, whichever step of whatever
\* call they meet, the time left of a relative timeout changes only as time passes, but
\* for the two cases the property names (timeout_alarm.c:302-361, reference_time.c:57-89).
THEOREM DistanceSafe == Spec => RelativeKeepDistance
  <1> DEFINE Kept(k) == Relative(k) /\ Relative(k)' =>
                          \/ Tick
                          \/ Restart /\ (drift # 0 \/ job.todo # {})
                          \/ Sync /\ drift = -1
                          \/ Remaining(k)' = Remaining(k)
  <1>1. TimeoutsInv /\ [Next]_vars => [\A k \in Keys : Kept(k)]_vars
    <2> SUFFICES ASSUME TimeoutsInv, Next, NEW k \in Keys, Relative(k), Relative(k)', ~Tick,
                        ~(Restart /\ (drift # 0 \/ job.todo # {})), ~(Sync /\ drift = -1)
                 PROVE  Remaining(k)' = Remaining(k)
      OBVIOUS
    <2> USE TimeoutsAssumption
    <2>0. /\ rows \in [Keys -> Row \cup {NoRow}] /\ drift \in Int
          /\ job \in JobType /\ job.todo \in SUBSET Keys /\ job.delta \in Int
          /\ job.key \in SUBSET Keys /\ rows[k].left \in Int /\ Pending(k)
      BY DEF TimeoutsInv, TypeOK, JobType, Relative, Pending, Row
    <2>j. /\ job.at # "adjust" => job.todo = {}
          /\ job.at = "insert" => \A l \in job.key : ~Pending(l)
      BY DEF TimeoutsInv, JobInv
    \* nothing is being adjusted before or after, and the row is left alone
    <2>n. ASSUME job.todo = {}, job'.todo = {}, rows'[k].left = rows[k].left
          PROVE  Remaining(k)' = Remaining(k)
      BY <2>n DEF Remaining
    <2>u. ASSUME UNCHANGED <<rows, job>>
          PROVE  Remaining(k)' = Remaining(k)
      BY <2>u DEF Remaining
    <2>1. CASE Caller
      <3>1. PICK l \in Keys : \/ Clear(l)
                              \/ \E n \in 0 .. MaxLeft, w \in BOOLEAN, c \in BOOLEAN : Set(l, n, w, c)
        BY <2>1 DEF Caller
      <3>2. job.at = "idle" /\ rows' = [rows EXCEPT ![l] = NoRow]
        BY <3>1 DEF Clear, Set, MainIdle
      <3>3. l # k
        BY <2>0, <3>2 DEF Relative, Pending
      <3>4. job'.todo = {}
        <4>1. CASE Clear(l)
          BY <4>1, UpdatingType DEF Clear
        <4>2. ASSUME NEW n \in 0 .. MaxLeft, NEW w \in BOOLEAN, NEW c \in BOOLEAN, Set(l, n, w, c)
              PROVE  job'.todo = {}
          <5>1. NewRow(n, w, c) \in Row
            BY <2>0 DEF NewRow, Row
          <5>2. QED
            BY <4>2, <5>1, InsertingType DEF Set
        <4>3. QED
          BY <3>1, <4>1, <4>2
      <3>5. QED
        BY <2>0, <2>j, <2>n, <3>2, <3>3, <3>4
    <2>2. CASE Insert
      <3>1. PICK l \in job.key : rows' = [rows EXCEPT ![l] = job.row]
        BY <2>2 DEF Insert
      <3>2. l # k /\ rows'[k] = rows[k]
        BY <2>0, <2>2, <2>j, <3>1 DEF Insert
      <3>3. QED
        BY <2>2, <2>j, <2>n, <3>2, UpdatingType DEF Insert
    <2>3. CASE Sync
      <3>1. rows'[k].left = rows[k].left - drift
        BY <2>0, <2>3, ShiftedRows DEF Sync
      <3>2. job.todo = {} /\ drift # -1
        BY <2>3, <2>j DEF Sync
      <3>3. CASE drift = 0
        <4>1. job'.todo = {}
          BY <2>3, <3>3, ExpiringType DEF Sync
        <4>2. QED
          BY <2>0, <2>n, <3>1, <3>2, <3>3, <4>1
      <3>4. CASE drift # 0
        <4>1. job' = Adjusting(drift, {l \in Keys : Relative(l)})
          BY <2>3, <3>2, <3>4 DEF Sync
        <4>2. job'.todo = {l \in Keys : Relative(l)} /\ job'.delta = drift
          BY <2>0, <4>1, AdjustingType
        <4>3. QED
          BY <2>0, <3>1, <3>2, <4>2 DEF Remaining
      <3>5. QED
        BY <3>3, <3>4
    <2>4. ASSUME NEW l \in Keys, Adjust(l)
          PROVE  Remaining(k)' = Remaining(k)
      <3>1. /\ job' = Adjusting(job.delta, job.todo \ {l}) /\ l \in job.todo
            /\ rows' = [rows EXCEPT ![l].left = @ + job.delta]
        BY <2>4 DEF Adjust
      <3>2. /\ job'.todo = job.todo \ {l}
            /\ job.todo \ {l} # {} => job'.delta = job.delta
        BY <2>0, <3>1, AdjustingType
      <3>3. CASE l = k
        <4>1. rows'[k].left = rows[k].left + job.delta
          <5>1. rows[k] \in Row
            BY <2>0 DEF Pending
          <5>2. rows'[k] = [rows[k] EXCEPT !.left = @ + job.delta]
            BY <2>0, <3>1, <3>3
          <5>3. QED
            BY <5>1, <5>2 DEF Row
        <4>2. k \in job.todo /\ k \notin job'.todo
          BY <3>1, <3>2, <3>3
        <4>3. QED
          BY <2>0, <4>1, <4>2 DEF Remaining
      <3>4. CASE l # k
        <4>1. rows'[k] = rows[k]
          BY <2>0, <3>1, <3>4
        <4>2. k \in job'.todo <=> k \in job.todo
          BY <3>2, <3>4
        <4>3. k \in job.todo => job'.delta = job.delta
          BY <3>2, <3>4
        <4>4. QED
          BY <4>1, <4>2, <4>3 DEF Remaining
      <3>5. QED
        BY <3>3, <3>4
    <2>5. ASSUME NEW l \in Keys, Expire(l)
          PROVE  Remaining(k)' = Remaining(k)
      <3>1. rows' = [rows EXCEPT ![l] = NoRow] /\ job' = job
        BY <2>5 DEF Expire
      <3>2. rows'[k] = rows[k]
        BY <2>0, <3>1 DEF Relative, Pending
      <3>3. QED
        BY <3>1, <3>2 DEF Remaining
    <2>6. CASE Select
      <3>1. PICK choice \in Selection : job' = [job EXCEPT !.at = "arm", !.choice = choice]
        BY <2>6 DEF Select
      <3>2. choice \in Choice /\ job.todo = {} /\ rows' = rows
        BY <2>0, <2>6, <2>j, SelectionType DEF Select
      <3>3. job'.todo = job.todo
        BY <2>0, <3>1, <3>2, ArmingType
      <3>4. QED
        BY <2>n, <3>2, <3>3
    <2>7. CASE Dispatch \/ \E ok \in BOOLEAN : Arm(ok)
      <3>1. rows' = rows /\ job'.todo = {} /\ job.at # "adjust"
        BY <2>7, UpdatingType, IdleIsJob DEF Dispatch, TimerCheck, Poke, Arm, MainIdle
      <3>2. QED
        BY <2>j, <2>n, <3>1
    <2>8. CASE Restart
      <3>1. drift = 0 /\ job.todo = {} /\ rows' = Shifted(drift) /\ job' = Updating
        BY <2>8 DEF Restart
      <3>2. rows'[k].left = rows[k].left
        BY <2>0, <3>1, ShiftedRows
      <3>3. QED
        BY <2>n, <3>1, <3>2, UpdatingType
    <2>9. CASE \/ SusSelect \/ SusStep \/ Wake \/ RtcFires
               \/ \E d \in Jumps : SetClock(d) \/ SetClock(-d)
      BY <2>9, <2>u DEF SusSelect, SusStep, KernelSleeps, KernelRefuses, SusArm, Wake, RtcFires,
         SetClock
    <2>10. QED
      BY <2>1, <2>2, <2>3, <2>4, <2>5, <2>6, <2>7, <2>8, <2>9 DEF Next, JobStep
  <1>2. QED
    BY <1>1, TimeoutsInvariant, PTL DEF Spec, RelativeKeepDistance
=============================================================================
