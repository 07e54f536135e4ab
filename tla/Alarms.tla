------------------------------- MODULE Alarms -------------------------------
(***************************************************************************)
(* alarm.c: the older alarm interface, a queue kept in memory and in        *)
(* alarms.xml, each alarm backed by a row of the timeout table that calls   *)
(* internalAlarmFired when it is due.                                       *)
(*                                                                          *)
(* Everything runs on the main thread; what makes it hard is that the       *)
(* daemon may die between any two writes.  A call is therefore the list of  *)
(* the steps still to be taken (todo), each with at most one effect on the  *)
(* file or the table.  Time is kept relative as in module Timeouts, whose   *)
(* table is reduced here to what that module shows of it: a row that is due *)
(* is delivered before the next second passes.                              *)
(***************************************************************************)
EXTENDS Integers, Sequences, FiniteSets

CONSTANTS
    MaxId,      \* bound: the largest alarm id handed out
    MaxLeft,    \* bound: an alarm is set at most this far ahead
    MaxLate,    \* bound: how far overdue an alarm may grow
    Jumps,      \* by how much the wall clock is set forward or back
    MaxUpsets   \* bound: clock settings and restarts of the daemon

ASSUME AlarmsAssumption ==
    /\ MaxId \in Nat /\ MaxLeft \in Nat /\ MaxLate \in Nat /\ MaxUpsets \in Nat
    /\ Jumps \subseteq Nat

Ids == 0 .. MaxId
Alarm == [id : Ids, left : Int, calendar : BOOLEAN]
Steps == {"notify", "write", "fill", "row", "answer", "sync", "adjust", "recalc",
          "expire", "drop", "read"}

VARIABLES
    queue,     \* gAlarmQueue->alarms
    nextId,    \* gAlarmQueue->seq_id
    file,      \* the alarms in alarms.xml
    rows,      \* the timeout rows of the alarms
    loading,   \* alarms of the file that alarm_read_db has still to add
    called,    \* an internalAlarmFired call is on its way
    drift,     \* wall clock minus reference clock
    delta,     \* the adjustment in progress, 0 when there is none
    arg,       \* the alarm of the call in progress
    todo,      \* the steps left of the call in progress
    upsets,    \* clock settings and restarts so far
    owed,      \* history: answered, neither fired nor to be removed
    short,     \* history: the file was last written while it was being read
    torn,      \* history: the clock was changed between a row and its alarm
    lossy      \* history: the daemon died with an incomplete file

mem == <<queue, nextId, loading, called, delta, arg>>
hist == <<owed, short, torn, lossy>>
vars == <<mem, file, rows, drift, todo, upsets, hist>>

NoAlarm == [id |-> 0, left |-> 0, calendar |-> FALSE]
IdsOf(A) == {a.id : a \in A}
Expired(A) == {a \in A : a.left <= 0}
Shift(A, by) == {[a EXCEPT !.left = @ - by] : a \in A}
AdjustRelative(A, by) ==
    {IF a.calendar THEN a ELSE [a EXCEPT !.left = @ + by] : a \in A}

Idle == todo = <<>>
At(step) == todo # <<>> /\ Head(todo) = step
Then(steps) == todo' = steps \o Tail(todo)

-----------------------------------------------------------------------------
(* Calls.                                                                   *)

\* alarm_queue_add: inserted, and the next id moved past that of the alarm; the call
\* of notify_alarms that ends it is a step of its own
AlarmQueueAdd(a) ==
    /\ queue' = queue \cup {a}
    /\ nextId' = IF a.id >= nextId THEN a.id + 1 ELSE nextId

\* Mutant: a new alarm is not written to the file.
AddUnsaved(n, calendar) ==
    /\ Idle
    /\ nextId \in Ids
    /\ arg' = [id |-> nextId, left |-> IF calendar THEN n + drift ELSE n,
               calendar |-> calendar]
    /\ AlarmQueueAdd(arg')
    /\ todo' = <<"notify", "row", "sync", "answer">>
    /\ owed' = owed \ {nextId}
    /\ UNCHANGED <<file, rows, loading, called, drift, delta, upsets, short, torn, lossy>>

\* alarmAdd and alarmAddCalendar: alarm_queue_new, then a timeout of the same expiry,
\* then the answer
Add(n, calendar) ==
    /\ Idle
    /\ nextId \in Ids
    /\ arg' = [id |-> nextId, left |-> IF calendar THEN n + drift ELSE n,
               calendar |-> calendar]
    /\ AlarmQueueAdd(arg')
    /\ todo' = <<"notify", "write", "row", "sync", "answer">>
    /\ owed' = owed \ {nextId}
    /\ UNCHANGED <<file, rows, loading, called, drift, delta, upsets, short, torn, lossy>>

\* alarmRemove: the timeout is cleared, which updates the timeouts if there was one,
\* then the alarm is taken from the queue
Remove(id) ==
    /\ Idle
    /\ \E a \in queue : a.id = id /\ arg' = a
    /\ rows' = {r \in rows : r.id # id}
    /\ todo' = (IF id \in IdsOf(rows) THEN <<"sync">> ELSE <<>>) \o <<"drop", "write">>
    /\ owed' = owed \ {id}
    /\ UNCHANGED <<queue, nextId, file, loading, called, drift, delta, upsets, short, torn,
                   lossy>>

\* The update may have fired the alarm already: the iterator is then used after it was
\* freed, with no effect, or with a crash.
Drop ==
    /\ At("drop")
    /\ queue' = {a \in queue : a.id # arg.id}
    /\ Then(<<>>)
    /\ UNCHANGED <<nextId, file, rows, loading, called, drift, delta, arg, upsets, hist>>

InternalAlarmFired ==
    /\ Idle
    /\ called
    /\ called' = FALSE
    /\ todo' = <<"notify">>
    /\ UNCHANGED <<queue, nextId, file, rows, loading, drift, delta, arg, upsets, hist>>

\* _update_timeouts, by the timer or the RTC alarm for a row that is due, or by the
\* resume signal or the hourly check for no such reason
Update ==
    /\ Idle
    /\ Expired(rows) # {} \/ drift # 0
    /\ todo' = <<"sync">>
    /\ UNCHANGED <<mem, file, rows, drift, upsets, hist>>

-----------------------------------------------------------------------------
(* Steps.                                                                   *)

\* Mutant: the file is not written after alarms have fired.
NotifyUnsaved ==
    /\ At("notify")
    /\ queue' = queue \ Expired(queue)
    /\ owed' = owed \ IdsOf(Expired(queue))
    /\ Then(<<>>)
    /\ UNCHANGED <<nextId, file, rows, loading, called, drift, delta, arg, upsets, short,
                   torn, lossy>>

\* Mutant: an internalAlarmFired call finds nothing to fire in the second it is due.
NotifyLate ==
    /\ At("notify")
    /\ queue' = {a \in queue : a.left >= 0}
    /\ owed' = owed \ {a.id : a \in {b \in queue : b.left < 0}}
    /\ Then(<<"write">>)
    /\ UNCHANGED <<nextId, file, rows, loading, called, drift, delta, arg, upsets, short,
                   torn, lossy>>

\* notify_alarms: fire and remove what has expired, then write the file
Notify ==
    /\ At("notify")
    /\ queue' = queue \ Expired(queue)
    /\ owed' = owed \ IdsOf(Expired(queue))
    /\ Then(IF Expired(queue) = {} THEN <<>> ELSE <<"write">>)
    /\ UNCHANGED <<nextId, file, rows, loading, called, drift, delta, arg, upsets, short,
                   torn, lossy>>

\* alarm_write_db: fopen empties the file, fclose has it written
Write ==
    /\ At("write")
    /\ file' = {}
    /\ Then(<<"fill">>)
    /\ UNCHANGED <<mem, rows, drift, upsets, hist>>

Fill ==
    /\ At("fill")
    /\ file' = queue
    /\ short' = (loading # {})
    /\ delta' = 0
    /\ Then(<<>>)
    /\ UNCHANGED <<queue, nextId, rows, loading, called, drift, arg, upsets, owed, torn,
                   lossy>>

\* _timeout_set: the row of the same key is replaced
SetRow ==
    /\ At("row")
    /\ rows' = {r \in rows : r.id # arg.id} \cup {arg}
    /\ Then(<<>>)
    /\ UNCHANGED <<mem, file, drift, upsets, hist>>

Answer ==
    /\ At("answer")
    /\ owed' = owed \cup ({arg.id} \cap IdsOf(queue))
    /\ Then(<<>>)
    /\ UNCHANGED <<mem, file, rows, drift, upsets, short, torn, lossy>>

\* _update_timeouts, as far as alarms see it: the reference clock follows the wall
\* clock; unless the delta is 0 or -1 the rows are adjusted, then the alarms
Sync ==
    /\ At("sync")
    /\ queue' = Shift(queue, drift)
    /\ file' = Shift(file, drift)
    /\ rows' = Shift(rows, drift)
    /\ drift' = 0
    /\ IF drift \in {0, -1}
       THEN delta' = 0 /\ Then(<<"expire">>)
       ELSE delta' = drift /\ Then(<<"adjust", "recalc", "notify", "expire">>)
    /\ torn' = (torn \/ (called /\ drift < 0))
    /\ UNCHANGED <<nextId, loading, called, arg, upsets, owed, short, lossy>>

AdjustRows ==
    /\ At("adjust")
    /\ rows' = AdjustRelative(rows, delta)
    /\ Then(<<>>)
    /\ UNCHANGED <<mem, file, drift, upsets, hist>>

\* Mutant: the alarms are not adjusted.
RecalculateNothing ==
    /\ At("recalc")
    /\ Then(<<"write">>)
    /\ UNCHANGED <<mem, file, rows, drift, upsets, hist>>

\* recalculate_alarms
Recalculate ==
    /\ At("recalc")
    /\ queue' = AdjustRelative(queue, delta)
    /\ Then(<<"write">>)
    /\ UNCHANGED <<nextId, file, rows, loading, called, drift, delta, arg, upsets, hist>>

\* _expire_timeouts: a row that is due is removed, and its call sent
ExpireRows ==
    /\ At("expire")
    /\ rows' = rows \ Expired(rows)
    /\ called' = (called \/ Expired(rows) # {})
    /\ Then(<<>>)
    /\ UNCHANGED <<queue, nextId, file, loading, drift, delta, arg, upsets, hist>>

\* Mutant: the next id is not moved past the ids of the file.
ReadKeepsNextId ==
    /\ At("read")
    /\ IF loading = {}
       THEN /\ Then(<<>>)
            /\ UNCHANGED <<queue, loading>>
       ELSE \E a \in loading :
            /\ \A b \in loading : a.left <= b.left
            /\ queue' = queue \cup {a}
            /\ loading' = loading \ {a}
            /\ todo' = <<"notify">> \o todo
    /\ UNCHANGED <<nextId, file, rows, called, drift, delta, arg, upsets, hist>>

\* Mutant: the ids of the file are counted on top of the next id.
ReadAddsIds ==
    /\ At("read")
    /\ IF loading = {}
       THEN /\ Then(<<>>)
            /\ UNCHANGED <<queue, nextId, loading>>
       ELSE \E a \in loading :
            /\ \A b \in loading : a.left <= b.left
            /\ queue' = queue \cup {a}
            /\ nextId' = nextId + a.id + 1
            /\ loading' = loading \ {a}
            /\ todo' = <<"notify">> \o todo
    /\ UNCHANGED <<file, rows, called, drift, delta, arg, upsets, hist>>

\* alarm_read_db: the alarms are added one by one in the order of the file, which is
\* that of their expiry; each addition ends in notify_alarms
Read ==
    /\ At("read")
    /\ IF loading = {}
       THEN /\ Then(<<>>)
            /\ UNCHANGED <<queue, nextId, loading>>
       ELSE \E a \in loading :
            /\ \A b \in loading : a.left <= b.left
            /\ AlarmQueueAdd(a)
            /\ loading' = loading \ {a}
            /\ todo' = <<"notify">> \o todo
    /\ UNCHANGED <<file, rows, called, drift, delta, arg, upsets, hist>>

-----------------------------------------------------------------------------
(* Outside events.                                                          *)

\* sleepd dies and is started again: reference clock, alarm_init, _update_timeouts
Restart ==
    /\ upsets < MaxUpsets
    /\ upsets' = upsets + 1
    /\ file' = Shift(file, drift)
    /\ rows' = Shift(rows, drift)
    /\ loading' = file'
    /\ drift' = 0
    /\ queue' = {}
    /\ nextId' = 0
    /\ called' = FALSE
    /\ delta' = 0
    /\ arg' = NoAlarm
    /\ todo' = <<"read", "notify", "sync">>
    /\ torn' = (torn \/ drift # 0 \/ delta # 0)
    /\ lossy' = (lossy \/ short \/ At("fill"))
    /\ UNCHANGED <<owed, short>>

SetClock(d) ==
    /\ upsets < MaxUpsets
    /\ upsets' = upsets + 1
    /\ drift' = drift + d
    /\ UNCHANGED <<mem, file, rows, todo, hist>>

\* A second passes; a timeout that is due and a call on its way come first.
Tick ==
    /\ Idle /\ ~called /\ Expired(rows) = {}
    /\ \A a \in queue \cup file : a.left > -MaxLate
    /\ queue' = Shift(queue, 1)
    /\ file' = Shift(file, 1)
    /\ rows' = Shift(rows, 1)
    /\ UNCHANGED <<nextId, loading, called, drift, delta, arg, todo, upsets, owed, short,
                   torn, lossy>>

-----------------------------------------------------------------------------
Init ==
    /\ queue = {} /\ file = {} /\ rows = {} /\ loading = {}
    /\ nextId = 0 /\ drift = 0 /\ delta = 0 /\ upsets = 0
    /\ called = FALSE
    /\ arg = NoAlarm
    /\ todo = <<>>
    /\ owed = {} /\ short = FALSE /\ torn = FALSE /\ lossy = FALSE

Step ==
    \/ Notify \/ Write \/ Fill \/ SetRow \/ Answer \/ Drop \/ Read
    \/ Sync \/ AdjustRows \/ Recalculate \/ ExpireRows

Caller ==
    \/ \E n \in 0 .. MaxLeft, c \in BOOLEAN : Add(n, c)
    \/ \E id \in Ids : Remove(id)

Next ==
    \/ Caller \/ Step \/ InternalAlarmFired \/ Update
    \/ Restart \/ Tick
    \/ \E d \in Jumps : SetClock(d) \/ SetClock(-d)

Spec == Init /\ [][Next]_vars

\* A call in progress goes on, a call that has arrived is made, the timeouts are served
\* and time passes.
FairSpec ==
    /\ Spec
    /\ WF_vars(Step) /\ WF_vars(InternalAlarmFired) /\ WF_vars(Update) /\ WF_vars(Tick)

-----------------------------------------------------------------------------
(* Properties.                                                              *)

\* The types of queue, file and rows; ids and the steps of a call stay in range.
TypeOK ==
    /\ {queue, file, rows, loading} \subseteq SUBSET Alarm
    /\ nextId \in 0 .. MaxId + 1
    /\ {called, short, torn, lossy} \subseteq BOOLEAN
    /\ {drift, delta} \subseteq Int
    /\ arg \in Alarm
    /\ todo \in Seq(Steps)
    /\ upsets \in Nat
    /\ owed \subseteq Ids

\* No two alarms share an id, also after a restart: alarmRemove would remove both and
\* both would use one row.
IdsAreUnique ==
    \A a, b \in queue \cup loading : a.id = b.id => a = b

\* Between calls the file holds the queue, so that a restart finds every alarm; except
\* after a start-up that fired an alarm, which leaves only what had been read by then.
FileHoldsQueue ==
    Idle /\ ~short => file = queue

\* An answered alarm survives a crash at any point of any later call, unless it finds
\* the file opened for writing but not yet written, or left incomplete by a start-up.
AnsweredAlarmsSurvive ==
    Idle /\ ~lossy => owed \subseteq IdsOf(queue)

\* An answered alarm does not depend on somebody else's: it has a timeout row due at
\* the same time, or the call of that row is on its way; unless the daemon died before
\* rows and alarms had both followed a change of the clock, or the clock was set back
\* while the call of an expired row was on its way.
AlarmsAreBacked ==
    Idle /\ ~torn =>
        \A a \in queue : a.id \in owed => a \in rows \/ (called /\ a.left <= 0)

\* An alarm that is due is fired.
Overdue(id) == ~torn /\ id \in owed /\ \E a \in queue : a.id = id /\ a.left <= 0
DueAlarmsFire == \A id \in Ids : Overdue(id) ~> ~Overdue(id)

=============================================================================
