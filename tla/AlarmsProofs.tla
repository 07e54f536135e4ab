---------------------------- MODULE AlarmsProofs ----------------------------
(***************************************************************************)
(* Proofs about module Alarms, for any bounds on ids, times and restarts    *)
(* and any changes of the clock.                                            *)
(***************************************************************************)
EXTENDS Alarms, TLAPS, SequenceTheorems

Elems(s) == {s[i] : i \in 1 .. Len(s)}

\* The steps still to be taken, and those after the first of them.
Pending == Elems(todo)
Rest == Elems(Tail(todo))

\* Which steps may come after which in a call in progress, and which must come next.
MayFollow(x, y) ==
    /\ x # "answer"
    /\ y \notin {"fill", "adjust"}
    /\ y = "recalc" => x = "adjust"
    /\ y \in {"read", "row"} => x \in {"notify", "write", "fill"}
    /\ x = "drop" => y = "write"
    /\ x = "read" => y \in {"notify", "sync"}
    /\ x = "sync" => y # "notify"

Needs(x) == CASE x = "drop" -> {"write"} [] x = "read" -> {"notify"}
              [] x = "adjust" -> {"recalc"} [] OTHER -> {}

Ordered(s) ==
    \A i \in 1 .. Len(s) :
        /\ \A k \in 1 .. Len(s) :
              i < k => MayFollow(s[i], s[k]) /\ (s[k] = "recalc" => k = i + 1)
        /\ \A y \in Needs(s[i]) : i < Len(s) /\ s[i + 1] = y

\* A call is in order; alarms are left to be read only before the end of alarm_read_db;
\* an adjustment is in progress only until the file is written after it.
OrderInv ==
    /\ Ordered(todo)
    /\ loading # {} => "read" \in Pending
    /\ delta # 0 => todo # <<>> /\ Head(todo) \in {"adjust", "recalc", "write", "fill"}

Unique(A) == \A a, b \in A : a.id = b.id => a = b

\* Ids are unique in memory and on disk, and the next one is past them all, but for
\* those of alarms still to be read.
IdsInv ==
    /\ Unique(queue \cup loading) /\ Unique(file)
    /\ \A a \in queue : a.id < nextId
    /\ \A a \in file : a.id < nextId \/ a \in loading

\* With no write under way the file holds what has been read and what is to be read.
FileInv == ~short /\ Pending \cap {"write", "fill"} = {} => file = queue \cup loading

\* An alarm that is owed is in memory or to be read, and on disk but for the time of a
\* write; one being added or removed is not owed.
SurviveInv ==
    /\ ~lossy => /\ owed \subseteq IdsOf(queue \cup loading)
                 /\ ~short /\ "fill" \notin Pending => owed \subseteq IdsOf(file)
    /\ Pending \cap {"drop", "answer"} # {} => arg.id \notin owed

\* The alarm of an addition in progress, while it is in the queue, and the alarms that
\* have, or had, a row: those owed, and the one being added once its row is set.
Added == IF "answer" \in Pending THEN {arg.id} \cap IdsOf(queue) ELSE {}
Wanted == owed \cup (IF "row" \in Pending THEN {} ELSE Added)

\* An alarm or a row once the adjustment in progress has reached it.
Adj(a, by) == IF a.calendar THEN a ELSE [a EXCEPT !.left = @ + by]
QueueDelta == IF Pending \cap {"adjust", "recalc"} # {} THEN delta ELSE 0
RowsDelta == IF "adjust" \in Pending THEN delta ELSE 0

\* An alarm will have its row when the adjustment in progress is over, or a look for
\* expired alarms is on its way.
Backed(a) ==
    \/ Adj(a, QueueDelta) \in AdjustRelative(rows, RowsDelta)
    \/ (called \/ "notify" \in Pending) /\ Adj(a, QueueDelta).left <= 0
RowsBack == ~torn => \A a \in queue \cup loading : a.id \in Wanted => Backed(a)

\* The row to be set is that of its alarm.
RowIsAlarm == "row" \in Pending => \A a \in queue \cup file : a.id = arg.id => a = arg

\* What is owed on disk is as it is in memory.
FileBack == delta = 0 => \A a \in file : a.id \in owed \cup Added => a \in queue \cup loading

BackInv == RowsBack /\ RowIsAlarm /\ FileBack

AlarmsInv == TypeOK /\ OrderInv /\ IdsInv /\ FileInv /\ SurviveInv /\ BackInv

-----------------------------------------------------------------------------
(* Alarms whose time is moved.                                              *)

Moved(a, by) == [a EXCEPT !.left = @ - by]

LEMMA MovedAlarm ==
    ASSUME NEW a \in Alarm, NEW by \in Int
    PROVE  /\ Moved(a, by) \in Alarm /\ Moved(a, by).id = a.id
           /\ Moved(a, by).calendar = a.calendar /\ Moved(a, by).left = a.left - by
  BY DEF Moved, Alarm

LEMMA AdjAlarm ==
    ASSUME NEW a \in Alarm, NEW by \in Int
    PROVE  /\ Adj(a, by) \in Alarm /\ Adj(a, by).id = a.id
           /\ Adj(a, by).calendar = a.calendar
           /\ Adj(a, by).left = IF a.calendar THEN a.left ELSE a.left + by
  BY DEF Adj, Alarm

LEMMA SameAlarm ==
    ASSUME NEW a \in Alarm, NEW b \in Alarm,
           a.id = b.id, a.left = b.left, a.calendar = b.calendar
    PROVE  a = b
  BY DEF Alarm

LEMMA MovedNot == ASSUME NEW a \in Alarm PROVE Moved(a, 0) = a
  <1>1. 0 \in Int /\ a.left - 0 = a.left
    BY DEF Alarm
  <1> QED
    BY <1>1, MovedAlarm, SameAlarm

LEMMA AdjNot == ASSUME NEW a \in Alarm PROVE Adj(a, 0) = a
  <1>1. 0 \in Int /\ a.left + 0 = a.left
    BY DEF Alarm
  <1> QED
    BY <1>1, AdjAlarm, SameAlarm

\* Moving the clock on and adjusting afterwards commute.
LEMMA AdjMoved ==
    ASSUME NEW a \in Alarm, NEW m \in Int, NEW n \in Int
    PROVE  Adj(Moved(a, m), n) = Moved(Adj(a, n), m)
  <1>1. Moved(a, m) \in Alarm /\ Adj(a, n) \in Alarm
    BY MovedAlarm, AdjAlarm
  <1>2. a.left \in Int /\ a.calendar \in BOOLEAN
    BY DEF Alarm
  <1>3. Adj(Moved(a, m), n) \in Alarm /\ Moved(Adj(a, n), m) \in Alarm
    BY <1>1, MovedAlarm, AdjAlarm
  <1>4. Adj(Moved(a, m), n).id = Moved(Adj(a, n), m).id
        /\ Adj(Moved(a, m), n).calendar = Moved(Adj(a, n), m).calendar
    BY <1>1, MovedAlarm, AdjAlarm
  <1>5. Adj(Moved(a, m), n).left = Moved(Adj(a, n), m).left
    <2>1. CASE a.calendar
      <3>1. Moved(a, m).calendar
        BY <2>1, MovedAlarm
      <3> QED
        BY <2>1, <3>1 DEF Adj
    <2>2. CASE ~a.calendar
      <3>1. ~Moved(a, m).calendar
        BY <2>2, MovedAlarm
      <3>2. Adj(Moved(a, m), n).left = Moved(a, m).left + n
        BY <1>1, <3>1, AdjAlarm
      <3>3. Moved(Adj(a, n), m).left = Adj(a, n).left - m
        BY <1>1, MovedAlarm
      <3>4. Adj(a, n).left = a.left + n /\ Moved(a, m).left = a.left - m
        BY <2>2, MovedAlarm, AdjAlarm
      <3> QED
        BY <1>2, <3>2, <3>3, <3>4
    <2> QED
      BY <2>1, <2>2
  <1> QED
    BY <1>3, <1>4, <1>5, SameAlarm

LEMMA ShiftDef == ASSUME NEW A, NEW by PROVE Shift(A, by) = {Moved(a, by) : a \in A}
  BY DEF Shift, Moved

LEMMA AdjustDef == ASSUME NEW A, NEW by PROVE AdjustRelative(A, by) = {Adj(a, by) : a \in A}
  BY DEF AdjustRelative, Adj

LEMMA ShiftFacts ==
    ASSUME NEW A \in SUBSET Alarm, NEW by \in Int
    PROVE  /\ Shift(A, by) \in SUBSET Alarm /\ IdsOf(Shift(A, by)) = IdsOf(A)
           /\ Unique(A) => Unique(Shift(A, by))
  <1>1. Shift(A, by) \in SUBSET Alarm
    BY ShiftDef, MovedAlarm
  <1>2. \A a \in A : Moved(a, by).id = a.id
    BY MovedAlarm
  <1>3. IdsOf(Shift(A, by)) = IdsOf(A)
    BY <1>2, ShiftDef DEF IdsOf
  <1>4. Unique(A) => Unique(Shift(A, by))
    BY <1>2, ShiftDef DEF Unique
  <1> QED
    BY <1>1, <1>3, <1>4

LEMMA AdjustFacts ==
    ASSUME NEW A \in SUBSET Alarm, NEW by \in Int
    PROVE  /\ AdjustRelative(A, by) \in SUBSET Alarm
           /\ IdsOf(AdjustRelative(A, by)) = IdsOf(A)
           /\ Unique(A) => Unique(AdjustRelative(A, by))
  <1>1. AdjustRelative(A, by) \in SUBSET Alarm
    BY AdjustDef, AdjAlarm
  <1>2. \A a \in A : Adj(a, by).id = a.id
    BY AdjAlarm
  <1>3. IdsOf(AdjustRelative(A, by)) = IdsOf(A)
    BY <1>2, AdjustDef DEF IdsOf
  <1>4. Unique(A) => Unique(AdjustRelative(A, by))
    BY <1>2, AdjustDef DEF Unique
  <1> QED
    BY <1>1, <1>3, <1>4

LEMMA ShiftNot == ASSUME NEW A \in SUBSET Alarm PROVE Shift(A, 0) = A
  BY ShiftDef, MovedNot

LEMMA AdjustNot == ASSUME NEW A \in SUBSET Alarm PROVE AdjustRelative(A, 0) = A
  BY AdjustDef, AdjNot

LEMMA ShiftUnion ==
    ASSUME NEW A, NEW B, NEW by
    PROVE  Shift(A \cup B, by) = Shift(A, by) \cup Shift(B, by)
  BY ShiftDef

-----------------------------------------------------------------------------
(* Calls in progress.                                                       *)

LEMMA ElemsHead ==
    ASSUME NEW S, NEW s \in Seq(S), s # <<>>
    PROVE  /\ Elems(s) = {Head(s)} \cup Elems(Tail(s)) /\ Tail(s) \in Seq(S)
           /\ Head(s) \in S /\ Head(s) = s[1] /\ Len(Tail(s)) = Len(s) - 1
           /\ \A i \in 1 .. Len(Tail(s)) : Tail(s)[i] = s[i + 1]
  <1>1. /\ Head(s) \in S /\ Tail(s) \in Seq(S) /\ Len(Tail(s)) = Len(s) - 1
        /\ \A i \in 1 .. Len(Tail(s)) : Tail(s)[i] = s[i + 1]
    BY HeadTailProperties
  <1>2. Head(s) = s[1] /\ Len(s) \in Nat /\ Len(s) # 0
    BY EmptySeq, LenProperties
  <1>3. ASSUME NEW x \in Elems(s) PROVE x \in {Head(s)} \cup Elems(Tail(s))
    <2>1. PICK i \in 1 .. Len(s) : x = s[i]
      BY DEF Elems
    <2>2. CASE i = 1
      BY <1>2, <2>1, <2>2
    <2>3. CASE i # 1
      <3>1. i - 1 \in 1 .. Len(Tail(s)) /\ Tail(s)[i - 1] = s[i]
        BY <1>1, <1>2, <2>1, <2>3
      <3> QED
        BY <2>1, <3>1 DEF Elems
    <2> QED
      BY <2>2, <2>3
  <1>4. ASSUME NEW x \in {Head(s)} \cup Elems(Tail(s)) PROVE x \in Elems(s)
    <2>1. CASE x = Head(s)
      <3>1. 1 \in 1 .. Len(s)
        BY <1>2
      <3> QED
        BY <1>2, <2>1, <3>1 DEF Elems
    <2>2. CASE x \in Elems(Tail(s))
      <3>1. PICK i \in 1 .. Len(Tail(s)) : x = Tail(s)[i]
        BY <2>2 DEF Elems
      <3>2. i + 1 \in 1 .. Len(s) /\ x = s[i + 1]
        BY <1>1, <1>2, <3>1
      <3> QED
        BY <3>2 DEF Elems
    <2> QED
      BY <2>1, <2>2
  <1> QED
    BY <1>1, <1>2, <1>3, <1>4

LEMMA HeadIn == ASSUME NEW S, NEW s \in Seq(S), s # <<>> PROVE Head(s) \in Elems(s)
  BY ElemsHead

LEMMA ElemsConcat ==
    ASSUME NEW S, NEW s \in Seq(S), NEW t \in Seq(S)
    PROVE  /\ s \o t \in Seq(S) /\ Elems(s \o t) = Elems(s) \cup Elems(t)
           /\ Len(s \o t) = Len(s) + Len(t) /\ Len(s) \in Nat /\ Len(t) \in Nat
           /\ \A i \in 1 .. Len(s) : (s \o t)[i] = s[i]
           /\ \A i \in 1 .. Len(t) : (s \o t)[Len(s) + i] = t[i]
  <1>1. /\ s \o t \in Seq(S) /\ Len(s \o t) = Len(s) + Len(t)
        /\ \A i \in 1 .. Len(s) + Len(t) :
              (s \o t)[i] = IF i <= Len(s) THEN s[i] ELSE t[i - Len(s)]
    BY ConcatProperties
  <1>2. Len(s) \in Nat /\ Len(t) \in Nat
    BY LenProperties
  <1>3. \A i \in 1 .. Len(s) : (s \o t)[i] = s[i]
    BY <1>1, <1>2
  <1>4. \A i \in 1 .. Len(t) : (s \o t)[Len(s) + i] = t[i]
    <2> TAKE i \in 1 .. Len(t)
    <2>1. Len(s) + i \in 1 .. Len(s) + Len(t) /\ ~(Len(s) + i <= Len(s))
          /\ Len(s) + i - Len(s) = i
      BY <1>2
    <2> QED
      BY <1>1, <2>1
  <1>5. ASSUME NEW x \in Elems(s \o t) PROVE x \in Elems(s) \cup Elems(t)
    <2>1. PICK i \in 1 .. Len(s) + Len(t) : x = (s \o t)[i]
      BY <1>1 DEF Elems
    <2>2. CASE i <= Len(s)
      <3>1. i \in 1 .. Len(s) /\ x = s[i]
        BY <1>1, <1>2, <2>1, <2>2
      <3> QED
        BY <3>1 DEF Elems
    <2>3. CASE ~(i <= Len(s))
      <3>1. i - Len(s) \in 1 .. Len(t) /\ x = t[i - Len(s)]
        BY <1>1, <1>2, <2>1, <2>3
      <3> QED
        BY <3>1 DEF Elems
    <2> QED
      BY <2>2, <2>3
  <1>6. ASSUME NEW x \in Elems(s) \cup Elems(t) PROVE x \in Elems(s \o t)
    <2>1. CASE x \in Elems(s)
      <3>1. PICK i \in 1 .. Len(s) : x = s[i]
        BY <2>1 DEF Elems
      <3>2. i \in 1 .. Len(s \o t) /\ x = (s \o t)[i]
        BY <1>1, <1>2, <1>3, <3>1
      <3> QED
        BY <3>2 DEF Elems
    <2>2. CASE x \in Elems(t)
      <3>1. PICK i \in 1 .. Len(t) : x = t[i]
        BY <2>2 DEF Elems
      <3>2. Len(s) + i \in 1 .. Len(s \o t) /\ x = (s \o t)[Len(s) + i]
        BY <1>1, <1>2, <1>4, <3>1
      <3> QED
        BY <3>2 DEF Elems
    <2> QED
      BY <2>1, <2>2
  <1> QED
    BY <1>1, <1>2, <1>3, <1>4, <1>5, <1>6

LEMMA OrderedTail ==
    ASSUME NEW s \in Seq(Steps), s # <<>>, Ordered(s)
    PROVE  /\ Ordered(Tail(s))
           /\ \A y \in Elems(Tail(s)) : MayFollow(Head(s), y)
           /\ \A y \in Needs(Head(s)) : Tail(s) # <<>> /\ Head(Tail(s)) = y
  <1> DEFINE t == Tail(s)
  <1>1. /\ t \in Seq(Steps) /\ Head(s) = s[1] /\ Len(t) = Len(s) - 1
        /\ \A i \in 1 .. Len(t) : t[i] = s[i + 1]
    BY ElemsHead
  <1>2. Len(s) \in Nat /\ Len(s) # 0 /\ Len(t) \in Nat
    BY <1>1, EmptySeq, LenProperties
  <1>3. ASSUME NEW i \in 1 .. Len(t)
        PROVE  /\ \A k \in 1 .. Len(t) :
                     i < k => MayFollow(t[i], t[k]) /\ (t[k] = "recalc" => k = i + 1)
               /\ \A y \in Needs(t[i]) : i < Len(t) /\ t[i + 1] = y
    <2>1. i + 1 \in 1 .. Len(s) /\ t[i] = s[i + 1]
      BY <1>1, <1>2
    <2>2. ASSUME NEW k \in 1 .. Len(t), i < k
          PROVE  MayFollow(t[i], t[k]) /\ (t[k] = "recalc" => k = i + 1)
      <3>1. k + 1 \in 1 .. Len(s) /\ t[k] = s[k + 1] /\ i + 1 < k + 1
        BY <1>1, <1>2, <2>2
      <3>2. MayFollow(s[i + 1], s[k + 1]) /\ (s[k + 1] = "recalc" => k + 1 = (i + 1) + 1)
        BY <2>1, <3>1 DEF Ordered
      <3> QED
        BY <2>1, <3>1, <3>2
    <2>3. ASSUME NEW y \in Needs(t[i]) PROVE i < Len(t) /\ t[i + 1] = y
      <3>1. i + 1 < Len(s) /\ s[(i + 1) + 1] = y
        BY <2>1, <2>3 DEF Ordered
      <3>2. i < Len(t) /\ i + 1 \in 1 .. Len(t)
        BY <1>1, <1>2, <3>1
      <3> QED
        BY <1>1, <3>1, <3>2
    <2> QED
      BY <2>2, <2>3
  <1>4. ASSUME NEW y \in Elems(t) PROVE MayFollow(Head(s), y)
    <2>1. PICK i \in 1 .. Len(t) : y = t[i]
      BY DEF Elems
    <2>2. 1 \in 1 .. Len(s) /\ i + 1 \in 1 .. Len(s) /\ 1 < i + 1 /\ y = s[i + 1]
      BY <1>1, <1>2, <2>1
    <2> QED
      BY <1>1, <2>2 DEF Ordered
  <1>5. ASSUME NEW y \in Needs(Head(s)) PROVE t # <<>> /\ Head(t) = y
    <2>1. 1 \in 1 .. Len(s)
      BY <1>2
    <2>2. 1 < Len(s) /\ s[1 + 1] = y
      BY <1>1, <1>5, <2>1 DEF Ordered
    <2>3. 1 \in 1 .. Len(t) /\ t[1] = y
      BY <1>1, <1>2, <2>2
    <2>4. t # <<>>
      <3>1. Len(t) # 0
        BY <1>2, <2>3
      <3> QED
        BY <1>1, <3>1, EmptySeq
    <2> QED
      BY <1>1, <2>3, <2>4, ElemsHead
  <1> HIDE DEF t
  <1>6. Ordered(t)
    BY <1>3 DEF Ordered
  <1> QED
    BY <1>4, <1>5, <1>6 DEF t

LEMMA OrderedConcat ==
    ASSUME NEW s \in Seq(Steps), NEW t \in Seq(Steps), Ordered(s), Ordered(t),
           \A x \in Elems(s) : \A y \in Elems(t) : MayFollow(x, y) /\ y # "recalc"
    PROVE  Ordered(s \o t)
  <1> DEFINE u == s \o t
  <1>1. /\ Len(u) = Len(s) + Len(t) /\ Len(s) \in Nat /\ Len(t) \in Nat
        /\ \A i \in 1 .. Len(s) : u[i] = s[i]
        /\ \A i \in 1 .. Len(t) : u[Len(s) + i] = t[i]
    BY ElemsConcat
  <1> HIDE DEF u
  <1>2. ASSUME NEW i \in 1 .. Len(u), NEW k \in 1 .. Len(u), i < k
        PROVE  MayFollow(u[i], u[k]) /\ (u[k] = "recalc" => k = i + 1)
    <2>1. CASE k <= Len(s)
      <3>1. i \in 1 .. Len(s) /\ k \in 1 .. Len(s)
        BY <1>1, <1>2, <2>1
      <3> QED
        BY <1>1, <1>2, <3>1 DEF Ordered
    <2>2. CASE i <= Len(s) /\ Len(s) < k
      <3>1. i \in 1 .. Len(s) /\ k - Len(s) \in 1 .. Len(t)
            /\ Len(s) + (k - Len(s)) = k
        BY <1>1, <2>2
      <3>2. u[i] = s[i] /\ u[k] = t[k - Len(s)]
        BY <1>1, <3>1
      <3>3. u[i] \in Elems(s) /\ u[k] \in Elems(t)
        BY <3>1, <3>2 DEF Elems
      <3> QED
        BY <3>3
    <2>3. CASE Len(s) < i
      <3>1. /\ i - Len(s) \in 1 .. Len(t) /\ k - Len(s) \in 1 .. Len(t)
            /\ i - Len(s) < k - Len(s)
            /\ Len(s) + (i - Len(s)) = i /\ Len(s) + (k - Len(s)) = k
        BY <1>1, <1>2, <2>3
      <3>2. u[i] = t[i - Len(s)] /\ u[k] = t[k - Len(s)]
        BY <1>1, <3>1
      <3>3. /\ MayFollow(t[i - Len(s)], t[k - Len(s)])
            /\ t[k - Len(s)] = "recalc" => k - Len(s) = (i - Len(s)) + 1
        BY <3>1 DEF Ordered
      <3>4. k - Len(s) = (i - Len(s)) + 1 => k = i + 1
        BY <1>1
      <3> QED
        BY <3>2, <3>3, <3>4
    <2> QED
      BY <1>1, <2>1, <2>2, <2>3
  <1>3. ASSUME NEW i \in 1 .. Len(u), NEW y \in Needs(u[i])
        PROVE  i < Len(u) /\ u[i + 1] = y
    <2>1. CASE i <= Len(s)
      <3>1. i \in 1 .. Len(s) /\ u[i] = s[i]
        BY <1>1, <2>1
      <3>2. i < Len(s) /\ s[i + 1] = y
        BY <1>3, <3>1 DEF Ordered
      <3>3. i + 1 \in 1 .. Len(s) /\ i < Len(u)
        BY <1>1, <3>1, <3>2
      <3> QED
        BY <1>1, <3>2, <3>3
    <2>2. CASE Len(s) < i
      <3>1. i - Len(s) \in 1 .. Len(t) /\ Len(s) + (i - Len(s)) = i
        BY <1>1, <2>2
      <3>2. i - Len(s) < Len(t) /\ t[(i - Len(s)) + 1] = y
        <4>1. u[i] = t[i - Len(s)]
          BY <1>1, <3>1
        <4> QED
          BY <1>3, <3>1, <4>1 DEF Ordered
      <3>3. (i - Len(s)) + 1 \in 1 .. Len(t) /\ Len(s) + ((i - Len(s)) + 1) = i + 1
            /\ i < Len(u)
        BY <1>1, <3>1, <3>2
      <3> QED
        BY <1>1, <3>2, <3>3
    <2> QED
      BY <1>1, <2>1, <2>2
  <1>4. Ordered(u)
    BY <1>2, <1>3 DEF Ordered
  <1> QED
    BY <1>4 DEF u

\* The lists of steps that the calls of alarm.c are made of.
Scripts == {<<>>, <<"notify">>, <<"write">>, <<"fill">>, <<"expire">>, <<"sync">>,
            <<"drop", "write">>, <<"read", "notify", "sync">>,
            <<"adjust", "recalc", "notify", "expire">>,
            <<"notify", "write", "row", "sync", "answer">>}

LEMMA ScriptsOrdered == \A p \in Scripts : p \in Seq(Steps) /\ Ordered(p)
  <1>1. \A p \in Scripts : p \in Seq(Steps)
    <2>1. <<>> \in Seq(Steps) /\ <<"notify">> \in Seq(Steps) /\ <<"write">> \in Seq(Steps)
          /\ <<"fill">> \in Seq(Steps) /\ <<"expire">> \in Seq(Steps)
          /\ <<"sync">> \in Seq(Steps)
      BY DEF Steps
    <2>2. <<"drop", "write">> \in Seq(Steps)
          /\ <<"read", "notify", "sync">> \in Seq(Steps)
      BY DEF Steps
    <2>3. <<"adjust", "recalc", "notify", "expire">> \in Seq(Steps)
      BY DEF Steps
    <2>4. <<"notify", "write", "row", "sync", "answer">> \in Seq(Steps)
      BY DEF Steps
    <2> QED
      BY <2>1, <2>2, <2>3, <2>4, Zenon DEF Scripts
  <1>2. Ordered(<<>>)
    BY DEF Ordered
  <1>3. Ordered(<<"notify">>) /\ Ordered(<<"write">>) /\ Ordered(<<"fill">>)
        /\ Ordered(<<"expire">>) /\ Ordered(<<"sync">>)
    BY DEF Ordered, Needs
  <1>4. Ordered(<<"drop", "write">>)
    BY DEF Ordered, Needs, MayFollow
  <1>5. Ordered(<<"read", "notify", "sync">>)
    BY DEF Ordered, Needs, MayFollow
  <1>6. Ordered(<<"adjust", "recalc", "notify", "expire">>)
    BY DEF Ordered, Needs, MayFollow
  <1>7. Ordered(<<"notify", "write", "row", "sync", "answer">>)
    BY DEF Ordered, Needs, MayFollow
  <1> QED
    BY <1>1, <1>2, <1>3, <1>4, <1>5, <1>6, <1>7 DEF Scripts

LEMMA ScriptElems ==
    /\ Elems(<<>>) = {}
    /\ \A x \in Steps : Elems(<<x>>) = {x}
    /\ Elems(<<"drop", "write">>) = {"drop", "write"}
    /\ Elems(<<"read", "notify", "sync">>) = {"read", "notify", "sync"}
    /\ Elems(<<"adjust", "recalc", "notify", "expire">>)
         = {"adjust", "recalc", "notify", "expire"}
    /\ Elems(<<"notify", "write", "row", "sync", "answer">>)
         = {"notify", "write", "row", "sync", "answer"}
  BY DEF Elems

\* What is known of the other steps when one of them is pending.
LEMMA Exclusive ==
    ASSUME NEW s \in Seq(Steps), Ordered(s)
    PROVE  /\ "read" \in Elems(s) => "notify" \in Elems(s) /\ "answer" \notin Elems(s)
           /\ "drop" \in Elems(s) => "write" \in Elems(s) /\ "answer" \notin Elems(s)
  <1>1. Len(s) \in Nat
    BY LenProperties
  <1>2. ASSUME NEW x \in {"read", "drop"}, x \in Elems(s)
        PROVE  "answer" \notin Elems(s)
    <2>1. SUFFICES ASSUME "answer" \in Elems(s) PROVE FALSE
      OBVIOUS
    <2>2. PICK i \in 1 .. Len(s) : s[i] = x
      BY <1>2 DEF Elems
    <2>3. PICK k \in 1 .. Len(s) : s[k] = "answer"
      BY <2>1 DEF Elems
    <2>4. CASE i < k
      BY <2>2, <2>3, <2>4 DEF Ordered, MayFollow
    <2>5. CASE k < i
      BY <2>2, <2>3, <2>5 DEF Ordered, MayFollow
    <2>6. CASE i = k
      BY <2>2, <2>3, <2>6
    <2> QED
      BY <1>1, <2>4, <2>5, <2>6
  <1>3. ASSUME NEW x \in Elems(s), NEW y \in Needs(x) PROVE y \in Elems(s)
    <2>1. PICK i \in 1 .. Len(s) : s[i] = x
      BY DEF Elems
    <2>2. i < Len(s) /\ s[i + 1] = y
      BY <1>3, <2>1 DEF Ordered
    <2>3. i + 1 \in 1 .. Len(s)
      BY <1>1, <2>2
    <2> QED
      BY <2>2, <2>3 DEF Elems
  <1>4. "notify" \in Needs("read") /\ "write" \in Needs("drop")
    BY DEF Needs
  <1> QED
    BY <1>2, <1>3, <1>4

LEMMA RestFacts ==
    ASSUME TypeOK, OrderInv, todo # <<>>
    PROVE  /\ Tail(todo) \in Seq(Steps) /\ Ordered(Tail(todo))
           /\ Head(todo) \in Steps /\ Pending = {Head(todo)} \cup Rest
           /\ \A y \in Rest : MayFollow(Head(todo), y)
           /\ \A y \in Needs(Head(todo)) :
                 y \in Rest /\ Tail(todo) # <<>> /\ Head(Tail(todo)) = y
  <1>1. todo \in Seq(Steps) /\ Ordered(todo)
    BY DEF TypeOK, OrderInv
  <1>2. /\ Tail(todo) \in Seq(Steps) /\ Ordered(Tail(todo)) /\ Head(todo) \in Steps
        /\ Pending = {Head(todo)} \cup Rest
        /\ \A y \in Rest : MayFollow(Head(todo), y)
        /\ \A y \in Needs(Head(todo)) : Tail(todo) # <<>> /\ Head(Tail(todo)) = y
    BY <1>1, OrderedTail, ElemsHead DEF Pending, Rest
  <1>3. Tail(todo) # <<>> => Head(Tail(todo)) \in Rest
    BY <1>2, HeadIn, Zenon DEF Rest
  <1> QED
    BY <1>2, <1>3

LEMMA IdleFacts == ASSUME Idle PROVE Pending = {}
  BY ScriptElems DEF Idle, Pending

LEMMA ThenStep ==
    ASSUME TypeOK, OrderInv, todo # <<>>, NEW p \in Scripts, Then(p),
           \A x \in Elems(p) : \A y \in Rest : MayFollow(x, y) /\ y # "recalc"
    PROVE  /\ todo' \in Seq(Steps) /\ Ordered(todo') /\ Pending' = Elems(p) \cup Rest
           /\ p = <<>> => todo' = Tail(todo)
           /\ p # <<>> => todo' # <<>> /\ Head(todo') = Head(p)
  <1>1. p \in Seq(Steps) /\ Ordered(p)
    BY ScriptsOrdered
  <1>2. Tail(todo) \in Seq(Steps) /\ Ordered(Tail(todo)) /\ todo' = p \o Tail(todo)
    BY RestFacts DEF Then
  <1>3. todo' \in Seq(Steps) /\ Pending' = Elems(p) \cup Rest
    BY <1>1, <1>2, ElemsConcat DEF Pending, Rest
  <1>4. Ordered(todo')
    BY <1>1, <1>2, OrderedConcat DEF Rest
  <1>5. p = <<>> => todo' = Tail(todo)
    BY <1>2, ConcatEmptySeq
  <1>6. ASSUME p # <<>> PROVE todo' # <<>> /\ Head(todo') = Head(p)
    BY <1>1, <1>2, <1>6, ConcatProperties, HeadTailProperties, EmptySeq, LenProperties
  <1> QED
    BY <1>3, <1>4, <1>5, <1>6

InOrder == todo \in Seq(Steps) /\ Ordered(todo)

\* Steps that leave the rest of the call as it is.
LEMMA PlainSteps ==
    ASSUME TypeOK, OrderInv,
           Fill \/ SetRow \/ Answer \/ Drop \/ AdjustRows \/ ExpireRows
           \/ (Read /\ loading = {}) \/ (Notify /\ Expired(queue) = {})
    PROVE  InOrder' /\ Pending' = Rest /\ todo # <<>> /\ todo' = Tail(todo)
  <1>1. todo # <<>> /\ Then(<<>>)
    BY DEF Fill, SetRow, Answer, Drop, AdjustRows, ExpireRows, Read, Notify, At
  <1>2. <<>> \in Scripts /\ Elems(<<>>) = {}
    BY ScriptElems DEF Scripts
  <1> QED
    BY <1>1, <1>2, ThenStep DEF InOrder

LEMMA NotifySteps ==
    ASSUME TypeOK, OrderInv, Notify
    PROVE  /\ InOrder'
           /\ Pending' = Rest \cup (IF Expired(queue) = {} THEN {} ELSE {"write"})
  <1>1. CASE Expired(queue) = {}
    BY <1>1, PlainSteps
  <1>2. CASE Expired(queue) # {}
    <2>1. todo # <<>> /\ Head(todo) = "notify" /\ Then(<<"write">>)
      BY <1>2 DEF Notify, At
    <2>2. <<"write">> \in Scripts /\ Elems(<<"write">>) = {"write"}
      BY ScriptElems DEF Scripts, Steps
    <2>3. \A y \in Rest : MayFollow("write", y) /\ y # "recalc"
      BY <2>1, RestFacts DEF MayFollow
    <2>4. InOrder' /\ Pending' = {"write"} \cup Rest
      BY <2>1, <2>2, <2>3, ThenStep DEF InOrder
    <2> QED
      BY <1>2, <2>4
  <1> QED
    BY <1>1, <1>2

LEMMA WriteSteps ==
    ASSUME TypeOK, OrderInv, Write
    PROVE  InOrder' /\ Pending' = Rest \cup {"fill"} /\ todo' # <<>> /\ Head(todo') = "fill"
  <1>1. todo # <<>> /\ Head(todo) = "write" /\ Then(<<"fill">>)
    BY DEF Write, At
  <1>2. /\ <<"fill">> \in Scripts /\ Elems(<<"fill">>) = {"fill"}
        /\ <<"fill">> # <<>> /\ Head(<<"fill">>) = "fill"
    BY ScriptElems DEF Scripts, Steps
  <1>3. \A y \in Rest : MayFollow("fill", y) /\ y # "recalc"
    BY <1>1, RestFacts DEF MayFollow
  <1> QED
    BY <1>1, <1>2, <1>3, ThenStep DEF InOrder

LEMMA RecalculateSteps ==
    ASSUME TypeOK, OrderInv, Recalculate
    PROVE  InOrder' /\ Pending' = Rest \cup {"write"} /\ todo' # <<>> /\ Head(todo') = "write"
  <1>1. todo # <<>> /\ Head(todo) = "recalc" /\ Then(<<"write">>)
    BY DEF Recalculate, At
  <1>2. /\ <<"write">> \in Scripts /\ Elems(<<"write">>) = {"write"}
        /\ <<"write">> # <<>> /\ Head(<<"write">>) = "write"
    BY ScriptElems DEF Scripts, Steps
  <1>3. \A y \in Rest : MayFollow("write", y) /\ y # "recalc"
    BY <1>1, RestFacts DEF MayFollow
  <1> QED
    BY <1>1, <1>2, <1>3, ThenStep DEF InOrder

LEMMA SyncSteps ==
    ASSUME TypeOK, OrderInv, Sync
    PROVE  /\ InOrder'
           /\ drift \in {0, -1} => Pending' = Rest \cup {"expire"}
           /\ drift \notin {0, -1} =>
                 /\ Pending' = Rest \cup {"adjust", "recalc", "notify", "expire"}
                 /\ todo' # <<>> /\ Head(todo') = "adjust"
  <1>1. todo # <<>> /\ Head(todo) = "sync"
    BY DEF Sync, At
  <1>2. CASE drift \in {0, -1}
    <2>1. Then(<<"expire">>)
      BY <1>2 DEF Sync
    <2>2. <<"expire">> \in Scripts /\ Elems(<<"expire">>) = {"expire"}
      BY ScriptElems DEF Scripts, Steps
    <2>3. \A y \in Rest : MayFollow("expire", y) /\ y # "recalc"
      BY <1>1, RestFacts DEF MayFollow
    <2>4. InOrder' /\ Pending' = {"expire"} \cup Rest
      BY <1>1, <2>1, <2>2, <2>3, ThenStep DEF InOrder
    <2> QED
      BY <1>2, <2>4
  <1>3. CASE drift \notin {0, -1}
    <2> DEFINE p == <<"adjust", "recalc", "notify", "expire">>
    <2>1. Then(p)
      BY <1>3 DEF Sync
    <2>2. /\ p \in Scripts /\ Elems(p) = {"adjust", "recalc", "notify", "expire"}
          /\ p # <<>> /\ Head(p) = "adjust"
      BY ScriptElems DEF Scripts
    <2>3. \A x \in Elems(p) : \A y \in Rest : MayFollow(x, y) /\ y # "recalc"
      BY <1>1, <2>2, RestFacts DEF MayFollow
    <2> HIDE DEF p
    <2>4. /\ InOrder' /\ Pending' = Elems(p) \cup Rest
          /\ todo' # <<>> /\ Head(todo') = Head(p)
      BY <1>1, <2>1, <2>2, <2>3, ThenStep DEF InOrder
    <2> QED
      BY <1>3, <2>2, <2>4
  <1> QED
    BY <1>2, <1>3

LEMMA ReadSteps ==
    ASSUME TypeOK, OrderInv, Read, loading # {}
    PROVE  InOrder' /\ Pending' = Pending \cup {"notify"}
  <1>1. todo # <<>> /\ Head(todo) = "read" /\ todo' = <<"notify">> \o todo
    BY DEF Read, At
  <1>2. <<"notify">> \in Seq(Steps) /\ Ordered(<<"notify">>) /\ Elems(<<"notify">>) = {"notify"}
    BY ScriptsOrdered, ScriptElems DEF Scripts, Steps
  <1>3. todo \in Seq(Steps) /\ Ordered(todo)
    BY DEF TypeOK, OrderInv
  <1>4. \A y \in Pending : MayFollow("notify", y) /\ y # "recalc"
    BY <1>1, RestFacts DEF MayFollow
  <1>5. InOrder'
    BY <1>1, <1>2, <1>3, <1>4, OrderedConcat, ElemsConcat DEF InOrder, Pending
  <1>6. Pending' = {"notify"} \cup Pending
    <2>1. \A s, t \in Seq(Steps) : Elems(s \o t) = Elems(s) \cup Elems(t)
      BY ElemsConcat
    <2>2. Elems(<<"notify">> \o todo) = Elems(<<"notify">>) \cup Elems(todo)
      BY <1>2, <1>3, <2>1, Zenon
    <2> QED
      BY <1>1, <1>2, <2>2, Zenon DEF Pending
  <1> QED
    BY <1>5, <1>6

\* Calls that begin a list of steps of their own.
LEMMA CallSteps ==
    ASSUME TypeOK, OrderInv
    PROVE  /\ \A n \in 0 .. MaxLeft, c \in BOOLEAN : Add(n, c) =>
                 InOrder' /\ Pending' = {"notify", "write", "row", "sync", "answer"}
           /\ \A id \in Ids : Remove(id) =>
                 /\ InOrder' /\ Pending' \subseteq {"sync", "drop", "write"}
                 /\ {"drop", "write"} \subseteq Pending'
           /\ InternalAlarmFired => InOrder' /\ Pending' = {"notify"}
           /\ Update => InOrder' /\ Pending' = {"sync"}
           /\ Restart => InOrder' /\ Pending' = {"read", "notify", "sync"}
  <1>1. ASSUME NEW n \in 0 .. MaxLeft, NEW c \in BOOLEAN, Add(n, c)
        PROVE  InOrder' /\ Pending' = {"notify", "write", "row", "sync", "answer"}
    <2>1. todo' = <<"notify", "write", "row", "sync", "answer">>
      BY <1>1 DEF Add
    <2>2. <<"notify", "write", "row", "sync", "answer">> \in Scripts
      BY DEF Scripts
    <2> QED
      BY <2>1, <2>2, ScriptsOrdered, ScriptElems DEF InOrder, Pending
  <1>2. ASSUME NEW id \in Ids, Remove(id)
        PROVE  /\ InOrder' /\ Pending' \subseteq {"sync", "drop", "write"}
               /\ {"drop", "write"} \subseteq Pending'
    <2>1. PICK p \in {<<>>, <<"sync">>} : todo' = p \o <<"drop", "write">>
      BY <1>2 DEF Remove
    <2>2. p \in Scripts /\ <<"drop", "write">> \in Scripts /\ Elems(p) \subseteq {"sync"}
      BY ScriptElems DEF Scripts, Steps
    <2>3. /\ p \in Seq(Steps) /\ Ordered(p)
          /\ <<"drop", "write">> \in Seq(Steps) /\ Ordered(<<"drop", "write">>)
      BY <2>2, ScriptsOrdered
    <2>4. \A x \in Elems(p) : \A y \in Elems(<<"drop", "write">>) :
             MayFollow(x, y) /\ y # "recalc"
      BY <2>2, ScriptElems DEF MayFollow
    <2>5. InOrder'
      BY <2>1, <2>3, <2>4, OrderedConcat, ElemsConcat DEF InOrder
    <2>6. Elems(p \o <<"drop", "write">>) = Elems(p) \cup {"drop", "write"}
      <3>1. \A s, t \in Seq(Steps) : Elems(s \o t) = Elems(s) \cup Elems(t)
        BY ElemsConcat
      <3>2. Elems(p \o <<"drop", "write">>) = Elems(p) \cup Elems(<<"drop", "write">>)
        BY <2>3, <3>1, Zenon
      <3> QED
        BY <3>2, ScriptElems, Zenon
    <2>7. Pending' = Elems(p) \cup {"drop", "write"}
      BY <2>1, <2>6 DEF Pending
    <2> QED
      BY <2>2, <2>5, <2>7
  <1>3. ASSUME InternalAlarmFired PROVE InOrder' /\ Pending' = {"notify"}
    <2>1. todo' = <<"notify">> /\ <<"notify">> \in Scripts /\ "notify" \in Steps
      BY <1>3 DEF InternalAlarmFired, Scripts, Steps
    <2> QED
      BY <2>1, ScriptsOrdered, ScriptElems DEF InOrder, Pending
  <1>4. ASSUME Update PROVE InOrder' /\ Pending' = {"sync"}
    <2>1. todo' = <<"sync">> /\ <<"sync">> \in Scripts /\ "sync" \in Steps
      BY <1>4 DEF Update, Scripts, Steps
    <2> QED
      BY <2>1, ScriptsOrdered, ScriptElems DEF InOrder, Pending
  <1>5. ASSUME Restart PROVE InOrder' /\ Pending' = {"read", "notify", "sync"}
    <2>1. todo' = <<"read", "notify", "sync">> /\ <<"read", "notify", "sync">> \in Scripts
      BY <1>5 DEF Restart, Scripts
    <2> QED
      BY <2>1, ScriptsOrdered, ScriptElems DEF InOrder, Pending
  <1> QED
    BY <1>1, <1>2, <1>3, <1>4, <1>5

\* Time and clock leave the call in progress alone.
LEMMA ClockSteps ==
    ASSUME TypeOK, OrderInv, todo' = todo
    PROVE  InOrder' /\ Pending' = Pending
  BY DEF TypeOK, OrderInv, InOrder, Pending

-----------------------------------------------------------------------------
(* Types, and the order of the steps of a call.                             *)

LEMMA Types ==
    TypeOK <=> /\ queue \in SUBSET Alarm /\ file \in SUBSET Alarm /\ rows \in SUBSET Alarm
               /\ loading \in SUBSET Alarm /\ nextId \in 0 .. MaxId + 1
               /\ called \in BOOLEAN /\ short \in BOOLEAN /\ torn \in BOOLEAN
               /\ lossy \in BOOLEAN /\ drift \in Int /\ delta \in Int /\ arg \in Alarm
               /\ todo \in Seq(Steps) /\ upsets \in Nat /\ owed \subseteq Ids
  BY DEF TypeOK

LEMMA HeadFacts ==
    ASSUME TypeOK, OrderInv
    PROVE  /\ loading # {} => todo # <<>> /\ Head(todo) \in {"notify", "write", "fill", "read"}
           /\ delta # 0 => todo # <<>> /\ Head(todo) \in {"adjust", "recalc", "write", "fill"}
  <1>1. ASSUME loading # {}
        PROVE  todo # <<>> /\ Head(todo) \in {"notify", "write", "fill", "read"}
    <2>1. "read" \in Pending
      BY <1>1 DEF OrderInv
    <2>2. todo # <<>>
      BY <2>1, IdleFacts DEF Idle
    <2> QED
      BY <2>1, <2>2, RestFacts DEF MayFollow
  <1> QED
    BY <1>1 DEF OrderInv

LEMMA AddedAlarm ==
    ASSUME TypeOK, NEW a \in Alarm, AlarmQueueAdd(a)
    PROVE  queue' \in SUBSET Alarm /\ nextId' \in 0 .. MaxId + 1
  <1>1. queue \in SUBSET Alarm /\ nextId \in 0 .. MaxId + 1 /\ a.id \in 0 .. MaxId
    BY Types DEF Alarm, Ids
  <1> QED
    BY <1>1, AlarmsAssumption DEF AlarmQueueAdd

LEMMA TypeStep == ASSUME TypeOK, OrderInv, [Next]_vars PROVE TypeOK'
  <1> USE Types
  <1>1. ASSUME NEW n \in 0 .. MaxLeft, NEW c \in BOOLEAN, Add(n, c) PROVE TypeOK'
    <2>1. InOrder'
      BY <1>1, CallSteps
    <2>2. arg' \in Alarm
      <3>1. n \in Int /\ n + drift \in Int
        OBVIOUS
      <3> QED
        BY <1>1, <3>1 DEF Add, Alarm
    <2>3. queue' \in SUBSET Alarm /\ nextId' \in 0 .. MaxId + 1
      BY <1>1, <2>2, AddedAlarm DEF Add
    <2> QED
      BY <1>1, <2>1, <2>2, <2>3 DEF Add, InOrder, TypeOK
  <1>2. ASSUME NEW id \in Ids, Remove(id) PROVE TypeOK'
    <2>1. InOrder'
      BY <1>2, CallSteps
    <2> QED
      BY <1>2, <2>1 DEF Remove, InOrder, TypeOK
  <1>3. ASSUME InternalAlarmFired \/ Update PROVE TypeOK'
    <2>1. InOrder'
      BY <1>3, CallSteps
    <2> QED
      BY <1>3, <2>1 DEF InternalAlarmFired, Update, mem, hist, InOrder, TypeOK
  <1>4. ASSUME Notify PROVE TypeOK'
    <2>1. InOrder'
      BY <1>4, NotifySteps
    <2> QED
      BY <1>4, <2>1 DEF Notify, InOrder, TypeOK
  <1>5. ASSUME Write PROVE TypeOK'
    <2>1. InOrder'
      BY <1>5, WriteSteps
    <2> QED
      BY <1>5, <2>1 DEF Write, mem, hist, InOrder, TypeOK
  <1>6. ASSUME Fill PROVE TypeOK'
    <2>1. InOrder'
      BY <1>6, PlainSteps
    <2>2. short' \in BOOLEAN
      BY <1>6, Zenon DEF Fill
    <2> QED
      BY <1>6, <2>1, <2>2 DEF Fill, InOrder, TypeOK
  <1>7. ASSUME SetRow \/ Drop \/ AdjustRows PROVE TypeOK'
    <2>1. InOrder'
      BY <1>7, PlainSteps
    <2>2. CASE SetRow
      BY <2>1, <2>2 DEF SetRow, mem, hist, InOrder, TypeOK
    <2>3. CASE Drop
      BY <2>1, <2>3 DEF Drop, mem, hist, InOrder, TypeOK
    <2>4. CASE AdjustRows
      <3>1. rows' \in SUBSET Alarm
        BY <2>4, AdjustFacts DEF AdjustRows
      <3> QED
        BY <2>1, <2>4, <3>1 DEF AdjustRows, mem, hist, InOrder, TypeOK
    <2> QED
      BY <1>7, <2>2, <2>3, <2>4
  <1>8. ASSUME Answer PROVE TypeOK'
    <2>1. InOrder'
      BY <1>8, PlainSteps
    <2>2. owed' \subseteq Ids
      BY <1>8 DEF Answer, Alarm
    <2> QED
      BY <1>8, <2>1, <2>2 DEF Answer, mem, InOrder, TypeOK
  <1>9. ASSUME ExpireRows PROVE TypeOK'
    <2>1. InOrder'
      BY <1>9, PlainSteps
    <2>2. called' \in BOOLEAN
      BY <1>9, Zenon DEF ExpireRows
    <2> QED
      BY <1>9, <2>1, <2>2 DEF ExpireRows, mem, hist, InOrder, TypeOK
  <1>10. ASSUME Sync PROVE TypeOK'
    <2>1. InOrder'
      BY <1>10, SyncSteps
    <2>2. torn' \in BOOLEAN
      BY <1>10, Zenon DEF Sync
    <2>3. queue' \in SUBSET Alarm /\ file' \in SUBSET Alarm /\ rows' \in SUBSET Alarm
      BY <1>10, ShiftFacts DEF Sync
    <2>4. drift' \in Int /\ delta' \in Int
      BY <1>10 DEF Sync
    <2> QED
      BY <1>10, <2>1, <2>2, <2>3, <2>4 DEF Sync, InOrder, TypeOK
  <1>11. ASSUME Recalculate PROVE TypeOK'
    <2>1. InOrder'
      BY <1>11, RecalculateSteps
    <2>2. queue' \in SUBSET Alarm
      BY <1>11, AdjustFacts DEF Recalculate
    <2> QED
      BY <1>11, <2>1, <2>2 DEF Recalculate, hist, InOrder, TypeOK
  <1>12. ASSUME Read PROVE TypeOK'
    <2>1. InOrder'
      BY <1>12, PlainSteps, ReadSteps
    <2>2. /\ queue' \in SUBSET Alarm /\ nextId' \in 0 .. MaxId + 1
          /\ loading' \in SUBSET Alarm
      BY <1>12, AddedAlarm DEF Read
    <2> QED
      BY <1>12, <2>1, <2>2 DEF Read, hist, InOrder, TypeOK
  <1>13. ASSUME Restart PROVE TypeOK'
    <2>1. InOrder'
      BY <1>13, CallSteps
    <2>2. torn' \in BOOLEAN /\ lossy' \in BOOLEAN
      BY <1>13, Zenon DEF Restart
    <2>3. file' \in SUBSET Alarm /\ rows' \in SUBSET Alarm /\ loading' \in SUBSET Alarm
      BY <1>13, ShiftFacts DEF Restart
    <2>4. arg' \in Alarm /\ upsets' \in Nat /\ nextId' \in 0 .. MaxId + 1
      BY <1>13, AlarmsAssumption DEF Restart, NoAlarm, Alarm, Ids
    <2>5. queue' \in SUBSET Alarm /\ drift' \in Int /\ delta' \in Int /\ owed' \subseteq Ids
      BY <1>13 DEF Restart
    <2>6. called' \in BOOLEAN /\ short' \in BOOLEAN
      BY <1>13, Zenon DEF Restart
    <2> QED
      BY <2>1, <2>2, <2>3, <2>4, <2>5, <2>6 DEF InOrder, TypeOK
  <1>14. ASSUME NEW d \in Jumps, SetClock(d) \/ SetClock(-d) PROVE TypeOK'
    <2>1. drift' \in Int /\ upsets' \in Nat
      BY <1>14, AlarmsAssumption DEF SetClock
    <2>2. UNCHANGED <<mem, file, rows, todo, hist>>
      BY <1>14 DEF SetClock
    <2> QED
      BY <2>1, <2>2 DEF mem, hist, TypeOK
  <1>15. ASSUME Tick PROVE TypeOK'
    <2>1. queue' \in SUBSET Alarm /\ file' \in SUBSET Alarm /\ rows' \in SUBSET Alarm
      <3>1. 1 \in Int
        OBVIOUS
      <3> QED
        BY <1>15, <3>1, ShiftFacts DEF Tick
    <2> QED
      BY <1>15, <2>1 DEF Tick, TypeOK
  <1>16. ASSUME UNCHANGED vars PROVE TypeOK'
    BY <1>16 DEF vars, mem, hist, TypeOK
  <1> QED
    BY <1>1, <1>2, <1>3, <1>4, <1>5, <1>6, <1>7, <1>8, <1>9, <1>10, <1>11, <1>12, <1>13,
       <1>14, <1>15, <1>16 DEF Next, Caller, Step

\* Between calls nothing is left to be read or adjusted.
LEMMA Quiet ==
    ASSUME TypeOK, OrderInv, Idle
    PROVE  Pending = {} /\ loading = {} /\ delta = 0
  BY IdleFacts, HeadFacts DEF Idle

LEMMA OrderStep == ASSUME TypeOK, OrderInv, [Next]_vars PROVE OrderInv'
  <1>1. ASSUME NEW n \in 0 .. MaxLeft, NEW c \in BOOLEAN, Add(n, c) PROVE OrderInv'
    <2>1. InOrder' /\ loading' = {} /\ delta' = 0
      BY <1>1, CallSteps, Quiet DEF Add
    <2> QED
      BY <2>1 DEF OrderInv, InOrder
  <1>2. ASSUME NEW id \in Ids, Remove(id) PROVE OrderInv'
    <2>1. InOrder' /\ loading' = {} /\ delta' = 0
      BY <1>2, CallSteps, Quiet DEF Remove
    <2> QED
      BY <2>1 DEF OrderInv, InOrder
  <1>3. ASSUME InternalAlarmFired \/ Update PROVE OrderInv'
    <2>1. InOrder' /\ loading' = {} /\ delta' = 0
      BY <1>3, CallSteps, Quiet DEF InternalAlarmFired, Update, mem
    <2> QED
      BY <2>1 DEF OrderInv, InOrder
  <1>4. ASSUME Notify PROVE OrderInv'
    <2>1. todo # <<>> /\ Head(todo) = "notify" /\ loading' = loading /\ delta' = delta
      BY <1>4 DEF Notify, At
    <2>2. InOrder' /\ Rest \subseteq Pending' /\ delta = 0 /\ Pending = {"notify"} \cup Rest
      BY <1>4, <2>1, NotifySteps, HeadFacts, RestFacts
    <2> QED
      BY <2>1, <2>2 DEF OrderInv, InOrder
  <1>5. ASSUME Write PROVE OrderInv'
    <2>1. todo # <<>> /\ Head(todo) = "write" /\ loading' = loading
      BY <1>5 DEF Write, At, mem
    <2>2. /\ InOrder' /\ Rest \subseteq Pending' /\ Pending = {"write"} \cup Rest
          /\ todo' # <<>> /\ Head(todo') = "fill"
      BY <1>5, <2>1, WriteSteps, RestFacts
    <2> QED
      BY <2>1, <2>2 DEF OrderInv, InOrder
  <1>6. ASSUME Fill PROVE OrderInv'
    <2>1. todo # <<>> /\ Head(todo) = "fill" /\ loading' = loading /\ delta' = 0
      BY <1>6 DEF Fill, At
    <2>2. InOrder' /\ Pending' = Rest /\ Pending = {"fill"} \cup Rest
      BY <1>6, <2>1, PlainSteps, RestFacts
    <2> QED
      BY <2>1, <2>2 DEF OrderInv, InOrder
  <1>7. ASSUME SetRow \/ Answer \/ Drop \/ ExpireRows PROVE OrderInv'
    <2>1. /\ todo # <<>> /\ Head(todo) \in {"row", "answer", "drop", "expire"}
          /\ loading' = loading /\ delta' = delta
      BY <1>7 DEF SetRow, Answer, Drop, ExpireRows, At, mem
    <2>2. InOrder' /\ loading = {} /\ delta = 0
      BY <1>7, <2>1, PlainSteps, HeadFacts
    <2> QED
      BY <2>1, <2>2 DEF OrderInv, InOrder
  <1>8. ASSUME AdjustRows PROVE OrderInv'
    <2>1. todo # <<>> /\ Head(todo) = "adjust" /\ loading' = loading
      BY <1>8 DEF AdjustRows, At, mem
    <2>2. InOrder' /\ loading = {} /\ todo' = Tail(todo)
      BY <1>8, <2>1, PlainSteps, HeadFacts
    <2>3. Tail(todo) # <<>> /\ Head(Tail(todo)) = "recalc"
      BY <2>1, RestFacts DEF Needs
    <2> QED
      BY <2>1, <2>2, <2>3 DEF OrderInv, InOrder
  <1>9. ASSUME Sync PROVE OrderInv'
    <2>1. todo # <<>> /\ Head(todo) = "sync" /\ loading' = loading
      BY <1>9 DEF Sync, At
    <2>2. /\ InOrder' /\ loading = {}
          /\ delta' = 0 \/ (todo' # <<>> /\ Head(todo') = "adjust")
      BY <1>9, <2>1, SyncSteps, HeadFacts DEF Sync
    <2> QED
      BY <2>1, <2>2 DEF OrderInv, InOrder
  <1>10. ASSUME Recalculate PROVE OrderInv'
    <2>1. todo # <<>> /\ Head(todo) = "recalc" /\ loading' = loading
      BY <1>10 DEF Recalculate, At
    <2>2. InOrder' /\ loading = {} /\ todo' # <<>> /\ Head(todo') = "write"
      BY <1>10, <2>1, RecalculateSteps, HeadFacts
    <2> QED
      BY <2>1, <2>2 DEF OrderInv, InOrder
  <1>11. ASSUME Read PROVE OrderInv'
    <2>1. todo # <<>> /\ Head(todo) = "read" /\ delta' = delta
      BY <1>11 DEF Read, At
    <2>2. delta = 0 /\ "read" \in Pending
      BY <2>1, HeadFacts, RestFacts
    <2>3. CASE loading = {}
      BY <1>11, <2>1, <2>2, <2>3, PlainSteps DEF Read, OrderInv, InOrder
    <2>4. CASE loading # {}
      BY <1>11, <2>1, <2>2, <2>4, ReadSteps DEF OrderInv, InOrder
    <2> QED
      BY <2>3, <2>4
  <1>12. ASSUME Restart PROVE OrderInv'
    <2>1. InOrder' /\ "read" \in Pending' /\ delta' = 0
      BY <1>12, CallSteps DEF Restart
    <2> QED
      BY <2>1 DEF OrderInv, InOrder
  <1>13. ASSUME (\E d \in Jumps : SetClock(d) \/ SetClock(-d)) \/ Tick \/ UNCHANGED vars
         PROVE  OrderInv'
    <2>1. todo' = todo /\ loading' = loading /\ delta' = delta
      BY <1>13 DEF SetClock, Tick, vars, mem
    <2> QED
      BY <2>1, ClockSteps DEF OrderInv, InOrder
  <1> QED
    BY <1>1, <1>2, <1>3, <1>4, <1>5, <1>6, <1>7, <1>8, <1>9, <1>10, <1>11, <1>12, <1>13
       DEF Next, Caller, Step

-----------------------------------------------------------------------------
(* Ids.                                                                     *)

LEMMA UniqueSubset == ASSUME NEW A, NEW B \in SUBSET A, Unique(A) PROVE Unique(B)
  BY DEF Unique

LEMMA BoundedIds ==
    ASSUME NEW A, NEW B, NEW n, IdsOf(A) = IdsOf(B), \A a \in A : a.id < n
    PROVE  \A b \in B : b.id < n
  BY DEF IdsOf

LEMMA IdsStep == ASSUME TypeOK, OrderInv, IdsInv, [Next]_vars PROVE IdsInv'
  <1> USE Types
  <1>0. \A a \in queue \cup file \cup loading : a.id \in Nat
    BY AlarmsAssumption DEF Alarm, Ids
  <1>1. ASSUME NEW n \in 0 .. MaxLeft, NEW c \in BOOLEAN, Add(n, c) PROVE IdsInv'
    <2>1. loading = {} /\ loading' = {} /\ file' = file
      BY <1>1, Quiet DEF Add
    <2>2. arg'.id = nextId /\ queue' = queue \cup {arg'} /\ nextId' = nextId + 1
      BY <1>1 DEF Add, AlarmQueueAdd
    <2>3. \A a \in queue : a.id < nextId /\ a.id < nextId + 1
      BY <1>0, AlarmsAssumption DEF IdsInv
    <2>4. \A a \in queue' : a.id < nextId'
      BY <2>2, <2>3
    <2>5. Unique(queue' \cup loading')
      <3>1. \A a \in queue : a.id # arg'.id
        BY <1>0, <2>2, <2>3
      <3> QED
        BY <2>1, <2>2, <3>1 DEF IdsInv, Unique
    <2>6. \A a \in file' : a.id < nextId'
      BY <1>0, <2>1, <2>2 DEF IdsInv
    <2> QED
      BY <2>1, <2>4, <2>5, <2>6 DEF IdsInv
  <1>2. ASSUME UNCHANGED <<queue, loading, file, nextId>> PROVE IdsInv'
    BY <1>2 DEF IdsInv
  <1>3. ASSUME Notify \/ Drop PROVE IdsInv'
    <2>1. queue' \subseteq queue /\ UNCHANGED <<loading, file, nextId>>
      BY <1>3 DEF Notify, Drop
    <2>2. Unique(queue' \cup loading')
      BY <2>1, UniqueSubset DEF IdsInv
    <2> QED
      BY <2>1, <2>2 DEF IdsInv
  <1>4. ASSUME Write \/ Fill PROVE IdsInv'
    <2>1. file' \subseteq queue /\ UNCHANGED <<queue, loading, nextId>>
      BY <1>4 DEF Write, Fill, mem
    <2>2. Unique(file')
      <3>1. file' \in SUBSET (queue \cup loading)
        BY <2>1
      <3> QED
        BY <3>1, UniqueSubset DEF IdsInv
    <2> QED
      BY <2>1, <2>2 DEF IdsInv
  <1>5. ASSUME NEW by \in Int, loading = {}, loading' = {}, nextId' = nextId,
               queue' = Shift(queue, by), file' = Shift(file, by)
        PROVE  IdsInv'
    <2>1. Unique(queue) /\ \A a \in file : a.id < nextId
      BY <1>5 DEF IdsInv
    <2>2. Unique(queue') /\ Unique(file')
      BY <1>5, <2>1, ShiftFacts DEF IdsInv
    <2>3. IdsOf(queue) = IdsOf(queue') /\ IdsOf(file) = IdsOf(file')
      BY <1>5, ShiftFacts
    <2>4. (\A a \in queue' : a.id < nextId) /\ (\A a \in file' : a.id < nextId)
      BY <2>1, <2>3, BoundedIds DEF IdsInv
    <2> QED
      BY <1>5, <2>2, <2>4 DEF IdsInv
  <1>6. ASSUME Sync PROVE IdsInv'
    <2>1. loading = {}
      BY <1>6, HeadFacts DEF Sync, At
    <2> QED
      BY <1>5, <1>6, <2>1 DEF Sync
  <1>7. ASSUME Tick PROVE IdsInv'
    <2>1. loading = {} /\ 1 \in Int
      BY <1>7, Quiet DEF Tick
    <2> QED
      BY <1>5, <1>7, <2>1 DEF Tick
  <1>8. ASSUME Recalculate PROVE IdsInv'
    <2>1. loading = {} /\ loading' = {} /\ file' = file /\ nextId' = nextId
      BY <1>8, HeadFacts DEF Recalculate, At
    <2>2. Unique(queue) /\ queue' = AdjustRelative(queue, delta)
      BY <1>8, <2>1 DEF IdsInv, Recalculate
    <2>3. Unique(queue') /\ IdsOf(queue) = IdsOf(queue')
      BY <2>2, AdjustFacts
    <2>4. \A a \in queue' : a.id < nextId
      BY <2>3, BoundedIds DEF IdsInv
    <2> QED
      BY <2>1, <2>3, <2>4 DEF IdsInv
  <1>9. ASSUME Read PROVE IdsInv'
    <2>1. CASE loading = {}
      BY <1>2, <1>9, <2>1 DEF Read
    <2>2. CASE loading # {}
      <3>1. PICK a \in loading : AlarmQueueAdd(a) /\ loading' = loading \ {a}
        BY <1>9, <2>2 DEF Read
      <3>2. file' = file /\ queue' = queue \cup {a}
        BY <1>9, <3>1 DEF Read, AlarmQueueAdd
      <3>3. a.id \in Nat /\ nextId \in Nat /\ a.id < nextId' /\ nextId <= nextId'
            /\ nextId' \in Nat
        BY <1>0, <3>1 DEF AlarmQueueAdd
      <3>4. queue' \cup loading' = queue \cup loading
        BY <3>1, <3>2
      <3>5. \A b \in queue' : b.id < nextId'
        <4>1. \A b \in queue : b.id \in Nat /\ b.id < nextId
          BY <1>0 DEF IdsInv
        <4> QED
          BY <3>2, <3>3, <4>1
      <3>6. \A b \in file' : b.id < nextId' \/ b \in loading'
        <4>1. \A b \in file : b.id \in Nat /\ (b.id < nextId \/ b \in loading)
          BY <1>0 DEF IdsInv
        <4> QED
          BY <3>1, <3>2, <3>3, <4>1
      <3> QED
        BY <3>2, <3>4, <3>5, <3>6 DEF IdsInv
    <2> QED
      BY <2>1, <2>2
  <1>10. ASSUME Restart PROVE IdsInv'
    <2>1. queue' = {} /\ loading' = file' /\ file' = Shift(file, drift)
      BY <1>10 DEF Restart
    <2>2. Unique(file')
      BY <2>1, ShiftFacts DEF IdsInv
    <2>3. queue' \cup loading' = file'
      BY <2>1
    <2> QED
      BY <2>1, <2>2, <2>3 DEF IdsInv
  <1>11. ASSUME \/ \E id \in Ids : Remove(id)
                \/ InternalAlarmFired \/ Update \/ SetRow \/ Answer \/ AdjustRows \/ ExpireRows
                \/ \E d \in Jumps : SetClock(d) \/ SetClock(-d)
                \/ UNCHANGED vars
         PROVE  IdsInv'
    <2>1. UNCHANGED <<queue, loading, file, nextId>>
      BY <1>11 DEF Remove, InternalAlarmFired, Update, SetRow, Answer, AdjustRows,
                   ExpireRows, SetClock, vars, mem
    <2> QED
      BY <1>2, <2>1
  <1> QED
    BY <1>1, <1>3, <1>4, <1>6, <1>7, <1>8, <1>9, <1>10, <1>11 DEF Next, Caller, Step

-----------------------------------------------------------------------------
(* The file.                                                                *)

LEMMA FileStep == ASSUME TypeOK, OrderInv, FileInv, [Next]_vars PROVE FileInv'
  <1> USE Types
  <1>1. ASSUME "write" \in Pending' \/ "fill" \in Pending' PROVE FileInv'
    BY <1>1 DEF FileInv
  <1>2. ASSUME NEW h, Pending \subseteq {h} \cup Pending', h \notin {"write", "fill"},
               UNCHANGED <<queue, loading, file, short>>
        PROVE  FileInv'
    BY <1>2 DEF FileInv
  <1>3. ASSUME NEW n \in 0 .. MaxLeft, NEW c \in BOOLEAN, Add(n, c) PROVE FileInv'
    BY <1>1, <1>3, CallSteps
  <1>4. ASSUME NEW id \in Ids, Remove(id) PROVE FileInv'
    BY <1>1, <1>4, CallSteps
  <1>5. ASSUME InternalAlarmFired \/ Update PROVE FileInv'
    <2>1. Pending = {} /\ UNCHANGED <<queue, loading, file, short>>
      BY <1>5, Quiet DEF InternalAlarmFired, Update, mem, hist
    <2> QED
      BY <2>1 DEF FileInv
  <1>6. ASSUME Notify PROVE FileInv'
    <2>1. CASE Expired(queue) = {}
      <3>1. Pending = {"notify"} \cup Pending'
        BY <1>6, <2>1, PlainSteps, RestFacts DEF Notify, At
      <3>2. UNCHANGED <<queue, loading, file, short>>
        BY <1>6, <2>1 DEF Notify
      <3> QED
        BY <3>1, <3>2 DEF FileInv
    <2>2. CASE Expired(queue) # {}
      BY <1>1, <1>6, <2>2, NotifySteps
    <2> QED
      BY <2>1, <2>2
  <1>7. ASSUME Write PROVE FileInv'
    BY <1>1, <1>7, WriteSteps
  <1>8. ASSUME Fill PROVE FileInv'
    <2>1. file' = queue /\ queue' = queue /\ loading' = loading
      BY <1>8 DEF Fill
    <2>2. ~short' => loading = {}
      BY <1>8, Zenon DEF Fill
    <2> QED
      BY <2>1, <2>2 DEF FileInv
  <1>9. ASSUME SetRow \/ Answer \/ AdjustRows \/ ExpireRows PROVE FileInv'
    <2>1. /\ todo # <<>> /\ Head(todo) \in {"row", "answer", "adjust", "expire"}
          /\ UNCHANGED <<queue, loading, file, short>>
      BY <1>9 DEF SetRow, Answer, AdjustRows, ExpireRows, At, mem, hist
    <2>2. Pending = {Head(todo)} \cup Pending'
      BY <1>9, PlainSteps, RestFacts
    <2> QED
      BY <1>2, <2>1, <2>2
  <1>10. ASSUME Drop PROVE FileInv'
    <2>1. todo # <<>> /\ Head(todo) = "drop"
      BY <1>10 DEF Drop, At
    <2>2. "write" \in Rest /\ Pending' = Rest
      BY <1>10, <2>1, RestFacts, PlainSteps DEF Needs
    <2> QED
      BY <1>1, <2>2
  <1>11. ASSUME NEW by \in Int, loading = {}, loading' = {}, short' = short,
                queue' = Shift(queue, by), file' = Shift(file, by),
                Pending \cap {"write", "fill"} \subseteq Pending'
         PROVE  FileInv'
    BY <1>11 DEF FileInv
  <1>12. ASSUME Sync PROVE FileInv'
    <2>1. todo # <<>> /\ Head(todo) = "sync"
      BY <1>12 DEF Sync, At
    <2>2. loading = {} /\ Pending = {"sync"} \cup Rest /\ Rest \subseteq Pending'
      BY <1>12, <2>1, HeadFacts, RestFacts, SyncSteps
    <2> QED
      BY <1>11, <1>12, <2>2 DEF Sync
  <1>13. ASSUME Tick PROVE FileInv'
    <2>1. loading = {} /\ 1 \in Int /\ Pending = {}
      BY <1>13, Quiet DEF Tick
    <2> QED
      BY <1>11, <1>13, <2>1 DEF Tick
  <1>14. ASSUME Recalculate PROVE FileInv'
    BY <1>1, <1>14, RecalculateSteps
  <1>15. ASSUME Read PROVE FileInv'
    <2>1. todo # <<>> /\ Head(todo) = "read" /\ file' = file /\ short' = short
      BY <1>15 DEF Read, At, hist
    <2>2. queue' \cup loading' = queue \cup loading
      BY <1>15 DEF Read, AlarmQueueAdd
    <2>3. Pending \subseteq {"read"} \cup Pending'
      BY <1>15, <2>1, PlainSteps, ReadSteps, RestFacts
    <2> QED
      BY <2>1, <2>2, <2>3 DEF FileInv
  <1>16. ASSUME Restart PROVE FileInv'
    BY <1>16 DEF Restart, FileInv
  <1>17. ASSUME (\E d \in Jumps : SetClock(d) \/ SetClock(-d)) \/ UNCHANGED vars
         PROVE  FileInv'
    <2>1. Pending' = Pending /\ UNCHANGED <<queue, loading, file, short>>
      BY <1>17, ClockSteps DEF SetClock, vars, mem, hist
    <2> QED
      BY <2>1 DEF FileInv
  <1> QED
    BY <1>3, <1>4, <1>5, <1>6, <1>7, <1>8, <1>9, <1>10, <1>12, <1>13, <1>14, <1>15, <1>16,
       <1>17 DEF Next, Caller, Step

-----------------------------------------------------------------------------
(* Answered alarms.                                                         *)

\* The file is emptied only while a write is the first step of the call.
LEMMA FillFirst ==
    ASSUME TypeOK, OrderInv, "fill" \in Pending PROVE At("fill")
  <1>1. todo # <<>>
    BY IdleFacts DEF Idle
  <1> QED
    BY <1>1, RestFacts DEF At, MayFollow

LEMMA SurviveStep ==
    ASSUME TypeOK, OrderInv, FileInv, SurviveInv, [Next]_vars PROVE SurviveInv'
  <1> USE Types
  \* steps that leave the alarms where they are
  <1>1. ASSUME IdsOf(queue' \cup loading') = IdsOf(queue \cup loading),
               IdsOf(file') = IdsOf(file), short' = short, lossy' = lossy, owed' = owed,
               arg' = arg, Pending' \cap {"drop", "answer"} \subseteq Pending,
               "fill" \in Pending => "fill" \in Pending'
        PROVE  SurviveInv'
    BY <1>1 DEF SurviveInv
  <1>2. ASSUME NEW n \in 0 .. MaxLeft, NEW c \in BOOLEAN, Add(n, c) PROVE SurviveInv'
    <2>1. /\ Pending = {} /\ arg'.id = nextId /\ owed' = owed \ {nextId}
          /\ queue' = queue \cup {arg'}
          /\ loading' = loading /\ file' = file /\ short' = short /\ lossy' = lossy
      BY <1>2, Quiet DEF Add, AlarmQueueAdd
    <2>2. IdsOf(queue \cup loading) \subseteq IdsOf(queue' \cup loading')
      BY <2>1 DEF IdsOf
    <2> QED
      BY <2>1, <2>2 DEF SurviveInv
  <1>3. ASSUME NEW id \in Ids, Remove(id) PROVE SurviveInv'
    <2>1. /\ Pending = {} /\ arg'.id = id /\ owed' = owed \ {id}
          /\ UNCHANGED <<queue, loading, file, short, lossy>>
      BY <1>3, Quiet DEF Remove
    <2> QED
      BY <2>1 DEF SurviveInv
  <1>4. ASSUME InternalAlarmFired \/ Update PROVE SurviveInv'
    <2>1. Pending = {} /\ UNCHANGED <<queue, loading, file, short, lossy, owed, arg>>
      BY <1>4, Quiet DEF InternalAlarmFired, Update, mem, hist
    <2>2. Pending' \cap {"drop", "answer"} = {}
      BY <1>4, CallSteps
    <2> QED
      BY <1>1, <2>1, <2>2
  <1>5. ASSUME Notify PROVE SurviveInv'
    <2>1. /\ todo # <<>> /\ Head(todo) = "notify"
          /\ queue' = queue \ Expired(queue) /\ owed' = owed \ IdsOf(Expired(queue))
          /\ UNCHANGED <<loading, file, short, lossy, arg>>
      BY <1>5 DEF Notify, At
    <2>2. /\ Pending' \cap {"drop", "answer"} \subseteq Pending
          /\ "fill" \in Pending => "fill" \in Pending'
      BY <1>5, <2>1, NotifySteps, RestFacts
    <2>3. ASSUME NEW i \in owed', i \in IdsOf(queue \cup loading)
          PROVE  i \in IdsOf(queue' \cup loading')
      BY <2>1, <2>3 DEF IdsOf
    <2> QED
      BY <2>1, <2>2, <2>3 DEF SurviveInv
  <1>6. ASSUME Write PROVE SurviveInv'
    <2>1. /\ todo # <<>> /\ Head(todo) = "write"
          /\ UNCHANGED <<queue, loading, short, lossy, owed, arg>>
      BY <1>6 DEF Write, At, mem, hist
    <2>2. Pending' \cap {"drop", "answer"} \subseteq Pending /\ "fill" \in Pending'
      BY <1>6, <2>1, WriteSteps, RestFacts
    <2> QED
      BY <2>1, <2>2 DEF SurviveInv
  <1>7. ASSUME Fill PROVE SurviveInv'
    <2>1. /\ todo # <<>> /\ file' = queue /\ UNCHANGED <<queue, loading, lossy, owed, arg>>
      BY <1>7 DEF Fill, At
    <2>2. Pending' \cap {"drop", "answer"} \subseteq Pending
      BY <1>7, <2>1, PlainSteps, RestFacts
    <2>3. ~short' => queue \cup loading = file'
      <3>1. ~short' => loading = {}
        BY <1>7, Zenon DEF Fill
      <3> QED
        BY <2>1, <3>1
    <2> QED
      BY <2>1, <2>2, <2>3 DEF SurviveInv
  <1>8. ASSUME SetRow \/ AdjustRows \/ ExpireRows PROVE SurviveInv'
    <2>1. /\ todo # <<>> /\ Head(todo) # "fill"
          /\ UNCHANGED <<queue, loading, file, short, lossy, owed, arg>>
      BY <1>8 DEF SetRow, AdjustRows, ExpireRows, At, mem, hist
    <2>2. Pending = {Head(todo)} \cup Pending'
      BY <1>8, <2>1, PlainSteps, RestFacts
    <2> QED
      BY <1>1, <2>1, <2>2
  <1>9. ASSUME Answer PROVE SurviveInv'
    <2>1. /\ todo # <<>> /\ Head(todo) = "answer"
          /\ owed' = owed \cup ({arg.id} \cap IdsOf(queue))
          /\ UNCHANGED <<queue, loading, file, short, lossy, arg>>
      BY <1>9 DEF Answer, At, mem
    <2>2. Pending = {"answer"} /\ Pending' = {}
      BY <1>9, <2>1, PlainSteps, RestFacts DEF MayFollow
    <2>3. ~short => file = queue \cup loading
      BY <2>2 DEF FileInv
    <2>4. IdsOf(queue) \subseteq IdsOf(queue \cup loading)
      BY DEF IdsOf
    <2> QED
      BY <2>1, <2>2, <2>3, <2>4 DEF SurviveInv
  <1>10. ASSUME Drop PROVE SurviveInv'
    <2>1. /\ todo # <<>> /\ Head(todo) = "drop" /\ queue' = {a \in queue : a.id # arg.id}
          /\ UNCHANGED <<loading, file, short, lossy, owed, arg>>
      BY <1>10 DEF Drop, At, hist
    <2>2. Pending = {"drop"} \cup Pending' /\ arg.id \notin owed
      BY <1>10, <2>1, PlainSteps, RestFacts DEF SurviveInv
    <2>3. ASSUME NEW i \in owed, i \in IdsOf(queue \cup loading)
          PROVE  i \in IdsOf(queue' \cup loading')
      BY <2>1, <2>2, <2>3 DEF IdsOf
    <2> QED
      BY <2>1, <2>2, <2>3 DEF SurviveInv
  <1>11. ASSUME NEW by \in Int, loading = {}, loading' = {}, queue' = Shift(queue, by),
                file' = Shift(file, by)
         PROVE  IdsOf(queue' \cup loading') = IdsOf(queue \cup loading)
                /\ IdsOf(file') = IdsOf(file)
    <2>1. queue' \cup loading' = queue' /\ queue \cup loading = queue
      BY <1>11
    <2> QED
      BY <1>11, <2>1, ShiftFacts
  <1>12. ASSUME Sync PROVE SurviveInv'
    <2>1. todo # <<>> /\ Head(todo) = "sync" /\ UNCHANGED <<short, lossy, owed, arg>>
      BY <1>12 DEF Sync, At
    <2>2. loading = {} /\ Pending = {"sync"} \cup Rest
          /\ Pending' \subseteq Rest \cup {"adjust", "recalc", "notify", "expire"}
          /\ Rest \subseteq Pending'
      BY <1>12, <2>1, HeadFacts, RestFacts, SyncSteps
    <2>3. IdsOf(queue' \cup loading') = IdsOf(queue \cup loading) /\ IdsOf(file') = IdsOf(file)
      BY <1>11, <1>12, <2>2 DEF Sync
    <2> QED
      BY <1>1, <2>1, <2>2, <2>3
  <1>13. ASSUME Tick PROVE SurviveInv'
    <2>1. loading = {} /\ 1 \in Int /\ Pending' = Pending /\ UNCHANGED <<short, lossy, owed, arg>>
      BY <1>13, Quiet, ClockSteps DEF Tick
    <2>2. IdsOf(queue' \cup loading') = IdsOf(queue \cup loading) /\ IdsOf(file') = IdsOf(file)
      BY <1>11, <1>13, <2>1 DEF Tick
    <2> QED
      BY <1>1, <2>1, <2>2
  <1>14. ASSUME Recalculate PROVE SurviveInv'
    <2>1. /\ todo # <<>> /\ Head(todo) = "recalc" /\ queue' = AdjustRelative(queue, delta)
          /\ UNCHANGED <<loading, file, short, lossy, owed, arg>>
      BY <1>14 DEF Recalculate, At, hist
    <2>2. loading = {} /\ Pending = {"recalc"} \cup Rest /\ Pending' = Rest \cup {"write"}
      BY <1>14, <2>1, HeadFacts, RestFacts, RecalculateSteps
    <2>3. queue' \cup loading' = queue' /\ queue \cup loading = queue
      BY <2>1, <2>2
    <2>4. IdsOf(queue' \cup loading') = IdsOf(queue \cup loading)
      BY <2>1, <2>3, AdjustFacts
    <2> QED
      BY <1>1, <2>1, <2>2, <2>4
  <1>15. ASSUME Read PROVE SurviveInv'
    <2>1. /\ todo # <<>> /\ Head(todo) = "read"
          /\ UNCHANGED <<file, short, lossy, owed, arg>>
      BY <1>15 DEF Read, At, hist
    <2>2. queue' \cup loading' = queue \cup loading
      BY <1>15 DEF Read, AlarmQueueAdd
    <2>3. Pending \subseteq {"read"} \cup Pending' /\ Pending' \subseteq Pending \cup {"notify"}
      BY <1>15, <2>1, PlainSteps, ReadSteps, RestFacts
    <2> QED
      BY <1>1, <2>1, <2>2, <2>3
  <1>16. ASSUME Restart PROVE SurviveInv'
    <2>1. /\ queue' = {} /\ loading' = file' /\ file' = Shift(file, drift)
          /\ owed' = owed /\ short' = short
      BY <1>16 DEF Restart
    <2>2. ~lossy' => ~lossy /\ ~short /\ ~At("fill")
      BY <1>16, Zenon DEF Restart
    <2>3. ~lossy' => owed \subseteq IdsOf(file)
      BY <2>2, FillFirst DEF SurviveInv
    <2>4. IdsOf(file') = IdsOf(file) /\ queue' \cup loading' = file'
      BY <2>1, ShiftFacts
    <2>5. Pending' \cap {"drop", "answer"} = {}
      BY <1>16, CallSteps
    <2> QED
      BY <2>1, <2>3, <2>4, <2>5 DEF SurviveInv
  <1>17. ASSUME (\E d \in Jumps : SetClock(d) \/ SetClock(-d)) \/ UNCHANGED vars
         PROVE  SurviveInv'
    <2>1. /\ Pending' = Pending
          /\ UNCHANGED <<queue, loading, file, short, lossy, owed, arg>>
      BY <1>17, ClockSteps DEF SetClock, vars, mem, hist
    <2> QED
      BY <1>1, <2>1
  <1> QED
    BY <1>2, <1>3, <1>4, <1>5, <1>6, <1>7, <1>8, <1>9, <1>10, <1>12, <1>13, <1>14, <1>15,
       <1>16, <1>17 DEF Next, Caller, Step

-----------------------------------------------------------------------------
(* Alarms and their rows.                                                   *)

\* What Backed says while no adjustment is in progress.
Ready(a) == a \in rows \/ ((called \/ "notify" \in Pending) /\ a.left <= 0)

LEMMA BackedNow ==
    ASSUME rows \in SUBSET Alarm, NEW a \in Alarm, QueueDelta = 0, RowsDelta = 0
    PROVE  Backed(a) <=> Ready(a)
  <1>1. Adj(a, QueueDelta) = a /\ AdjustRelative(rows, RowsDelta) = rows
    BY AdjNot, AdjustNot
  <1> QED
    BY <1>1 DEF Backed, Ready

LEMMA BackedNext ==
    ASSUME rows' \in SUBSET Alarm, NEW a \in Alarm, QueueDelta' = 0, RowsDelta' = 0
    PROVE  Backed(a)' <=> Ready(a)'
  <1>1. Adj(a, QueueDelta') = a /\ AdjustRelative(rows', RowsDelta') = rows'
    BY AdjNot, AdjustNot
  <1> QED
    BY <1>1 DEF Backed, Ready

LEMMA RowIsAlarmStep ==
    ASSUME TypeOK, OrderInv, IdsInv, RowIsAlarm, [Next]_vars PROVE RowIsAlarm'
  <1>1. ASSUME "row" \notin Pending' PROVE RowIsAlarm'
    BY <1>1 DEF RowIsAlarm
  <1>2. ASSUME "row" \in Pending, queue' \cup file' \subseteq queue \cup file, arg' = arg
        PROVE  RowIsAlarm'
    BY <1>2 DEF RowIsAlarm
  <1>3. ASSUME NEW n \in 0 .. MaxLeft, NEW c \in BOOLEAN, Add(n, c) PROVE RowIsAlarm'
    <2>1. loading = {} /\ arg'.id = nextId /\ queue' = queue \cup {arg'} /\ file' = file
      BY <1>3, Quiet DEF Add, AlarmQueueAdd
    <2>2. \A a \in queue \cup file : a.id < nextId /\ a.id \in Nat /\ nextId \in Nat
      BY <2>1, Types, AlarmsAssumption DEF IdsInv, Alarm, Ids
    <2>3. \A a \in queue \cup file : a.id # nextId
      BY <2>2
    <2> QED
      BY <2>1, <2>3 DEF RowIsAlarm
  <1>4. ASSUME \/ \E id \in Ids : Remove(id)
               \/ InternalAlarmFired \/ Update \/ Restart
        PROVE  RowIsAlarm'
    <2>1. "row" \notin Pending'
      BY <1>4, CallSteps
    <2> QED
      BY <1>1, <2>1
  <1>5. ASSUME Notify \/ Write \/ Fill PROVE RowIsAlarm'
    <2>1. /\ queue' \cup file' \subseteq queue \cup file /\ arg' = arg /\ todo # <<>>
      BY <1>5 DEF Notify, Write, Fill, At, mem
    <2>2. "row" \in Pending' => "row" \in Pending
      BY <1>5, <2>1, NotifySteps, WriteSteps, PlainSteps, RestFacts
    <2> QED
      BY <1>1, <1>2, <2>1, <2>2
  <1>6. ASSUME SetRow \/ Answer \/ Drop \/ AdjustRows \/ ExpireRows \/ Sync \/ Recalculate
               \/ Read
        PROVE  RowIsAlarm'
    <2>1. todo # <<>> /\ Head(todo) \notin {"notify", "write", "fill"}
      BY <1>6 DEF SetRow, Answer, Drop, AdjustRows, ExpireRows, Sync, Recalculate, Read, At
    <2>2. "row" \notin Rest
      BY <2>1, RestFacts DEF MayFollow
    <2>3. Read => "row" \notin Pending
      BY <2>2, RestFacts DEF Read, At
    <2>4. "row" \notin Pending'
      BY <1>6, <2>2, <2>3, PlainSteps, SyncSteps, RecalculateSteps, ReadSteps
    <2> QED
      BY <1>1, <2>4
  <1>7. ASSUME Tick PROVE RowIsAlarm'
    <2>1. "row" \notin Pending'
      BY <1>7, Quiet, ClockSteps DEF Tick
    <2> QED
      BY <1>1, <2>1
  <1>8. ASSUME (\E d \in Jumps : SetClock(d) \/ SetClock(-d)) \/ UNCHANGED vars
        PROVE  RowIsAlarm'
    <2>1. Pending' = Pending /\ UNCHANGED <<queue, file, arg>>
      BY <1>8, ClockSteps DEF SetClock, vars, mem
    <2> QED
      BY <2>1 DEF RowIsAlarm
  <1> QED
    BY <1>3, <1>4, <1>5, <1>6, <1>7, <1>8 DEF Next, Caller, Step

LEMMA FileBackStep ==
    ASSUME TypeOK, OrderInv, IdsInv, SurviveInv, FileBack, [Next]_vars PROVE FileBack'
  <1> USE Types
  \* steps that leave the alarms where they are
  <1>1. ASSUME file' = file, queue' = queue, queue' \cup loading' = queue \cup loading,
               arg' = arg, delta' = 0 => delta = 0, owed' \subseteq owed \cup Added,
               "answer" \in Pending' => "answer" \in Pending
        PROVE  FileBack'
    <2>1. Added' \subseteq Added
      BY <1>1 DEF Added
    <2> QED
      BY <1>1, <2>1 DEF FileBack
  <1>2. ASSUME NEW n \in 0 .. MaxLeft, NEW c \in BOOLEAN, Add(n, c) PROVE FileBack'
    <2>1. /\ delta = 0 /\ loading = {} /\ arg'.id = nextId /\ owed' = owed \ {nextId}
          /\ queue' = queue \cup {arg'} /\ file' = file
      BY <1>2, Quiet DEF Add, AlarmQueueAdd
    <2>2. \A a \in file : a.id # nextId
      <3>1. \A a \in file : a.id < nextId /\ a.id \in Nat /\ nextId \in Nat
        BY <2>1, AlarmsAssumption DEF IdsInv, Alarm, Ids
      <3> QED
        BY <3>1
    <2>3. Added' \subseteq {nextId}
      BY <2>1 DEF Added
    <2> QED
      BY <2>1, <2>2, <2>3 DEF FileBack
  <1>3. ASSUME NEW id \in Ids, Remove(id) PROVE FileBack'
    <2>1. delta = 0 /\ owed' \subseteq owed /\ UNCHANGED <<queue, loading, file>>
      BY <1>3, Quiet DEF Remove
    <2>2. Added' = {}
      BY <1>3, CallSteps DEF Added
    <2> QED
      BY <2>1, <2>2 DEF FileBack
  <1>4. ASSUME InternalAlarmFired \/ Update PROVE FileBack'
    <2>1. UNCHANGED <<queue, loading, file, delta, owed, arg>>
      BY <1>4 DEF InternalAlarmFired, Update, mem, hist
    <2>2. "answer" \notin Pending'
      BY <1>4, CallSteps
    <2> QED
      BY <1>1, <2>1, <2>2
  <1>5. ASSUME Notify PROVE FileBack'
    <2>1. /\ todo # <<>> /\ Head(todo) = "notify"
          /\ queue' = queue \ Expired(queue) /\ owed' = owed \ IdsOf(Expired(queue))
          /\ UNCHANGED <<loading, file, arg, delta>>
      BY <1>5 DEF Notify, At
    <2>2. "answer" \in Pending' => "answer" \in Pending
      BY <1>5, <2>1, NotifySteps, RestFacts
    <2>3. Added' \subseteq Added /\ Added' \subseteq IdsOf(queue')
      BY <2>1, <2>2 DEF Added, IdsOf
    <2>4. ASSUME NEW a \in file, a \in queue \cup loading, a.id \in owed' \cup Added'
          PROVE  a \in queue' \cup loading'
      <3>1. CASE a.id \in owed'
        BY <2>1, <2>4, <3>1 DEF IdsOf
      <3>2. CASE a.id \in Added'
        <4>1. PICK b \in queue' : b.id = a.id
          BY <2>3, <3>2 DEF IdsOf
        <4>2. b \in queue \cup loading
          BY <2>1
        <4>3. b = a
          BY <2>4, <4>1, <4>2 DEF IdsInv, Unique
        <4> QED
          BY <4>3
      <3> QED
        BY <2>4, <3>1, <3>2
    <2> QED
      BY <2>1, <2>3, <2>4 DEF FileBack
  <1>6. ASSUME Write \/ Fill PROVE FileBack'
    <2>1. file' \subseteq queue'
      BY <1>6 DEF Write, Fill
    <2> QED
      BY <2>1 DEF FileBack
  <1>7. ASSUME SetRow \/ Answer \/ AdjustRows \/ ExpireRows PROVE FileBack'
    <2>1. todo # <<>> /\ UNCHANGED <<queue, loading, file, delta, arg>>
      BY <1>7 DEF SetRow, Answer, AdjustRows, ExpireRows, At, mem
    <2>2. Pending = {Head(todo)} \cup Pending'
      BY <1>7, <2>1, PlainSteps, RestFacts
    <2>3. owed' \subseteq owed \cup Added
      <3>1. Answer => "answer" \in Pending
        BY RestFacts DEF Answer, At
      <3> QED
        BY <1>7, <3>1 DEF SetRow, Answer, AdjustRows, ExpireRows, hist, Added
    <2> QED
      BY <1>1, <2>1, <2>2, <2>3
  <1>8. ASSUME Drop PROVE FileBack'
    <2>1. /\ todo # <<>> /\ Head(todo) = "drop" /\ queue' = {a \in queue : a.id # arg.id}
          /\ UNCHANGED <<loading, file, owed, delta>>
      BY <1>8 DEF Drop, At, hist
    <2>2. Pending = {"drop"} \cup Pending'
      BY <1>8, <2>1, PlainSteps, RestFacts
    <2>3. arg.id \notin owed /\ "answer" \notin Pending'
      BY <2>1, <2>2, Exclusive DEF SurviveInv, OrderInv, Pending
    <2>4. Added' = {}
      BY <2>3 DEF Added
    <2> QED
      BY <2>1, <2>3, <2>4 DEF FileBack
  <1>9. ASSUME NEW by \in Int, loading = {}, loading' = {}, queue' = Shift(queue, by),
               file' = Shift(file, by), delta' = 0 => delta = 0, owed' = owed, arg' = arg,
               "answer" \in Pending' => "answer" \in Pending
        PROVE  FileBack'
    <2>1. IdsOf(queue') = IdsOf(queue)
      BY <1>9, ShiftFacts
    <2>2. Added' \subseteq Added
      BY <1>9, <2>1 DEF Added
    <2>3. ASSUME delta = 0, NEW b \in file', b.id \in owed \cup Added PROVE b \in queue'
      <3>1. PICK a \in file : b = Moved(a, by)
        BY <1>9, ShiftDef
      <3>2. a.id = b.id
        BY <3>1, MovedAlarm
      <3>3. a \in queue
        BY <1>9, <2>3, <3>2 DEF FileBack
      <3> QED
        BY <1>9, <3>1, <3>3, ShiftDef
    <2> QED
      BY <1>9, <2>2, <2>3 DEF FileBack
  <1>10. ASSUME Sync PROVE FileBack'
    <2>1. todo # <<>> /\ Head(todo) = "sync" /\ UNCHANGED <<owed, arg>>
      BY <1>10 DEF Sync, At
    <2>2. /\ loading = {} /\ delta = 0 /\ Pending = {"sync"} \cup Rest
          /\ Pending' \subseteq Rest \cup {"adjust", "recalc", "notify", "expire"}
      BY <1>10, <2>1, HeadFacts, RestFacts, SyncSteps
    <2> QED
      BY <1>9, <1>10, <2>1, <2>2 DEF Sync
  <1>11. ASSUME Tick PROVE FileBack'
    <2>1. loading = {} /\ 1 \in Int /\ Pending' = Pending
      BY <1>11, Quiet, ClockSteps DEF Tick
    <2> QED
      BY <1>9, <1>11, <2>1 DEF Tick
  <1>12. ASSUME Recalculate PROVE FileBack'
    <2>1. /\ todo # <<>> /\ Head(todo) = "recalc" /\ queue' = AdjustRelative(queue, delta)
          /\ UNCHANGED <<loading, file, owed, arg, delta>>
      BY <1>12 DEF Recalculate, At, hist
    <2>2. "answer" \in Pending' => "answer" \in Pending
      BY <1>12, <2>1, RecalculateSteps, RestFacts
    <2>3. delta = 0 => queue' = queue
      BY <2>1, AdjustNot
    <2> QED
      BY <2>1, <2>2, <2>3 DEF FileBack, Added
  <1>13. ASSUME Read PROVE FileBack'
    <2>1. /\ todo # <<>> /\ Head(todo) = "read"
          /\ UNCHANGED <<file, owed, delta, arg>>
      BY <1>13 DEF Read, At, hist
    <2>2. queue' \cup loading' = queue \cup loading
      BY <1>13 DEF Read, AlarmQueueAdd
    <2>3. "answer" \notin Pending'
      <3>1. "answer" \notin Rest /\ Pending = {"read"} \cup Rest
        BY <2>1, RestFacts DEF MayFollow
      <3> QED
        BY <1>13, <3>1, PlainSteps, ReadSteps
    <2>4. Added' = {}
      BY <2>3 DEF Added
    <2> QED
      BY <2>1, <2>2, <2>4 DEF FileBack
  <1>14. ASSUME Restart PROVE FileBack'
    BY <1>14 DEF Restart, FileBack
  <1>15. ASSUME (\E d \in Jumps : SetClock(d) \/ SetClock(-d)) \/ UNCHANGED vars
         PROVE  FileBack'
    <2>1. Pending' = Pending /\ UNCHANGED <<queue, loading, file, owed, delta, arg>>
      BY <1>15, ClockSteps DEF SetClock, vars, mem, hist
    <2> QED
      BY <1>1, <2>1
  <1> QED
    BY <1>2, <1>3, <1>4, <1>5, <1>6, <1>7, <1>8, <1>10, <1>11, <1>12, <1>13, <1>14, <1>15
       DEF Next, Caller, Step

NoDelta == QueueDelta = 0 /\ RowsDelta = 0

LEMMA RowsBackStep ==
    ASSUME TypeOK, TypeOK', OrderInv, IdsInv, SurviveInv, BackInv, [Next]_vars
    PROVE  RowsBack'
  <1> SUFFICES ASSUME ~torn' PROVE \A a \in queue' \cup loading' : a.id \in Wanted' => Backed(a)'
    BY DEF RowsBack
  <1> DEFINE Goal == \A a \in queue' \cup loading' : a.id \in Wanted' => Backed(a)'
  <1> USE Types
  <1>0. /\ queue' \in SUBSET Alarm /\ loading' \in SUBSET Alarm /\ rows' \in SUBSET Alarm
    BY DEF TypeOK
  <1>1. delta = 0 => NoDelta
    BY DEF NoDelta, QueueDelta, RowsDelta
  <1>2. delta' = 0 => NoDelta'
    BY DEF NoDelta, QueueDelta, RowsDelta
  \* no adjustment is in progress before or after the step
  <1>3. ASSUME ~torn, NoDelta, NoDelta',
               \A a \in queue' \cup loading' : a.id \in Wanted' =>
                  a \in queue \cup loading /\ a.id \in Wanted /\ (Ready(a) => Ready(a)')
        PROVE  Goal
    <2> TAKE a \in queue' \cup loading'
    <2> HAVE a.id \in Wanted'
    <2>1. a \in Alarm
      BY <1>0
    <2>2. Backed(a)
      BY <1>3 DEF BackInv, RowsBack
    <2>3. Ready(a)
      BY <1>3, <2>1, <2>2, BackedNow DEF NoDelta
    <2>4. Ready(a)'
      BY <1>3, <2>3
    <2> QED
      BY <1>0, <1>3, <2>1, <2>4, BackedNext DEF NoDelta
  <1> HIDE DEF Goal
  <1>4. ASSUME NEW n \in 0 .. MaxLeft, NEW c \in BOOLEAN, Add(n, c) PROVE Goal
    <2>1. /\ delta = 0 /\ delta' = 0 /\ loading' = loading /\ arg'.id = nextId /\ torn' = torn
          /\ owed' = owed \ {nextId} /\ queue' = queue \cup {arg'}
          /\ rows' = rows /\ called' = called /\ Pending = {}
      BY <1>4, Quiet DEF Add, AlarmQueueAdd
    <2>2. Wanted' = owed \ {nextId}
      BY <1>4, <2>1, CallSteps DEF Wanted
    <2> QED
      BY <1>1, <1>2, <1>3, <2>1, <2>2 DEF Wanted, Ready
  <1>5. ASSUME NEW id \in Ids, Remove(id) PROVE Goal
    <2>1. /\ delta = 0 /\ delta' = 0 /\ owed' = owed \ {id} /\ rows' = {r \in rows : r.id # id}
          /\ UNCHANGED <<queue, loading, called, torn>> /\ Pending = {}
      BY <1>5, Quiet DEF Remove
    <2>2. Wanted' = owed \ {id}
      BY <1>5, <2>1, CallSteps DEF Wanted, Added
    <2> QED
      BY <1>1, <1>2, <1>3, <2>1, <2>2 DEF Wanted, Ready
  <1>6. ASSUME InternalAlarmFired PROVE Goal
    <2>1. /\ delta = 0 /\ delta' = 0 /\ UNCHANGED <<queue, loading, rows, owed, torn>>
          /\ Pending = {} /\ called
      BY <1>6, Quiet DEF InternalAlarmFired, hist
    <2>2. Wanted' = owed /\ "notify" \in Pending'
      BY <1>6, <2>1, CallSteps DEF Wanted, Added
    <2> QED
      BY <1>1, <1>2, <1>3, <2>1, <2>2 DEF Wanted, Ready
  <1>7. ASSUME Update PROVE Goal
    <2>1. /\ delta = 0 /\ delta' = 0 /\ UNCHANGED <<queue, loading, rows, called, owed, torn>>
          /\ Pending = {}
      BY <1>7, Quiet DEF Update, mem, hist
    <2>2. Wanted' = owed
      BY <1>7, <2>1, CallSteps DEF Wanted, Added
    <2> QED
      BY <1>1, <1>2, <1>3, <2>1, <2>2 DEF Wanted, Ready
  <1>8. ASSUME Notify PROVE Goal
    <2>1. /\ todo # <<>> /\ Head(todo) = "notify" /\ queue' = queue \ Expired(queue)
          /\ owed' = owed \ IdsOf(Expired(queue))
          /\ UNCHANGED <<loading, rows, called, arg, delta, torn>>
      BY <1>8 DEF Notify, At
    <2>2. delta = 0 /\ Pending = {"notify"} \cup Rest
      BY <2>1, HeadFacts, RestFacts
    <2>3. Rest \subseteq Pending' /\ Pending' \subseteq Rest \cup {"write"}
      BY <1>8, NotifySteps
    <2>4. Wanted' \subseteq Wanted
      BY <2>1, <2>2, <2>3 DEF Wanted, Added, IdsOf
    <2>5. loading # {} => "notify" \in Pending'
      <3>1. ASSUME loading # {} PROVE "read" \in Rest
        BY <2>2, <3>1 DEF OrderInv
      <3>2. Tail(todo) \in Seq(Steps) /\ Ordered(Tail(todo))
        BY <2>1, RestFacts
      <3> QED
        BY <2>3, <3>1, <3>2, Exclusive DEF Rest
    <2>6. ASSUME NEW a \in queue' \cup loading', Ready(a) PROVE Ready(a)'
      <3>1. CASE a \in rows
        BY <2>1, <3>1 DEF Ready
      <3>2. CASE a.left <= 0
        <4>1. a \in loading
          BY <2>1, <3>2 DEF Expired
        <4> QED
          BY <2>5, <3>2, <4>1 DEF Ready
      <3> QED
        BY <2>6, <3>1, <3>2 DEF Ready
    <2> QED
      BY <1>1, <1>2, <1>3, <2>1, <2>2, <2>4, <2>6
  <1>9. ASSUME Write \/ Fill PROVE Goal
    <2>1. /\ todo # <<>> /\ Head(todo) \in {"write", "fill"}
          /\ UNCHANGED <<queue, loading, rows, called, arg, owed, torn>>
      BY <1>9 DEF Write, Fill, At, mem, hist
    <2>2. Pending = {Head(todo)} \cup Rest /\ Rest \cap {"adjust", "recalc"} = {}
      BY <2>1, RestFacts DEF MayFollow
    <2>3. Rest \subseteq Pending' /\ Pending' \subseteq Rest \cup {"fill"}
      BY <1>9, WriteSteps, PlainSteps
    <2>4. NoDelta /\ NoDelta'
      BY <2>1, <2>2, <2>3 DEF NoDelta, QueueDelta, RowsDelta
    <2>5. Wanted' = Wanted
      BY <2>1, <2>2, <2>3 DEF Wanted, Added
    <2>6. "notify" \in Pending => "notify" \in Pending'
      BY <2>1, <2>2, <2>3
    <2> QED
      BY <1>3, <2>1, <2>4, <2>5, <2>6 DEF Ready
  <1>10. ASSUME SetRow PROVE Goal
    <2>1. /\ todo # <<>> /\ Head(todo) = "row" /\ rows' = {r \in rows : r.id # arg.id} \cup {arg}
          /\ UNCHANGED <<queue, loading, called, arg, owed, torn, delta>>
      BY <1>10 DEF SetRow, At, mem, hist
    <2>2. /\ delta = 0 /\ loading = {} /\ Pending = {"row"} \cup Pending'
          /\ "row" \notin Pending'
      BY <1>10, <2>1, HeadFacts, PlainSteps, RestFacts DEF MayFollow
    <2>3. Wanted = owed /\ Wanted' \subseteq owed \cup {arg.id}
      BY <2>1, <2>2 DEF Wanted, Added
    <2>4. ASSUME NEW a \in queue, a.id \in Wanted' PROVE Backed(a)'
      <3>1. a \in Alarm
        OBVIOUS
      <3>2. CASE a.id = arg.id
        <4>1. a = arg
          BY <2>2, <3>2 DEF BackInv, RowIsAlarm
        <4>2. Ready(a)'
          BY <2>1, <4>1 DEF Ready
        <4> QED
          BY <1>0, <1>2, <2>1, <2>2, <3>1, <4>2, BackedNext DEF NoDelta
      <3>3. CASE a.id # arg.id
        <4>1. Ready(a)
          BY <1>1, <2>1, <2>2, <2>3, <2>4, <3>1, <3>3, BackedNow
             DEF NoDelta, BackInv, RowsBack
        <4>2. Ready(a)'
          BY <2>1, <2>2, <3>3, <4>1 DEF Ready
        <4> QED
          BY <1>0, <1>2, <2>1, <2>2, <3>1, <4>2, BackedNext DEF NoDelta
      <3> QED
        BY <3>2, <3>3
    <2> QED
      BY <2>1, <2>2, <2>4 DEF Goal
  <1>11. ASSUME Answer PROVE Goal
    <2>1. /\ todo # <<>> /\ Head(todo) = "answer"
          /\ owed' = owed \cup ({arg.id} \cap IdsOf(queue))
          /\ UNCHANGED <<queue, loading, rows, called, torn, delta>>
      BY <1>11 DEF Answer, At, mem
    <2>2. delta = 0 /\ Pending = {"answer"} /\ Pending' = {}
      BY <1>11, <2>1, HeadFacts, PlainSteps, RestFacts DEF MayFollow
    <2>3. Wanted' = Wanted
      BY <2>1, <2>2 DEF Wanted, Added
    <2> QED
      BY <1>1, <1>2, <1>3, <2>1, <2>2, <2>3 DEF Ready
  <1>12. ASSUME Drop PROVE Goal
    <2>1. /\ todo # <<>> /\ Head(todo) = "drop" /\ queue' \subseteq queue
          /\ UNCHANGED <<loading, rows, called, owed, torn, delta>>
      BY <1>12 DEF Drop, At, hist
    <2>2. /\ delta = 0 /\ Pending = {"drop"} \cup Pending' /\ Pending' \subseteq {"write"}
      BY <1>12, <2>1, HeadFacts, PlainSteps, RestFacts DEF MayFollow
    <2>3. Wanted' = owed /\ owed \subseteq Wanted
      BY <2>1, <2>2 DEF Wanted, Added
    <2> QED
      BY <1>1, <1>2, <1>3, <2>1, <2>2, <2>3 DEF Ready
  <1>13. ASSUME ExpireRows PROVE Goal
    <2>1. /\ todo # <<>> /\ Head(todo) = "expire" /\ rows' = rows \ Expired(rows)
          /\ UNCHANGED <<queue, loading, arg, owed, torn, delta>>
      BY <1>13 DEF ExpireRows, At, hist
    <2>2. (called => called') /\ (Expired(rows) # {} => called')
      BY <1>13, Zenon DEF ExpireRows
    <2>3. delta = 0 /\ Pending = {"expire"} \cup Pending'
      BY <1>13, <2>1, HeadFacts, PlainSteps, RestFacts
    <2>4. Wanted' = Wanted
      BY <2>1, <2>3 DEF Wanted, Added
    <2> QED
      BY <1>1, <1>2, <1>3, <2>1, <2>2, <2>3, <2>4 DEF Ready, Expired
  <1>14. ASSUME Read PROVE Goal
    <2>1. /\ todo # <<>> /\ Head(todo) = "read"
          /\ UNCHANGED <<rows, called, owed, torn, delta>>
      BY <1>14 DEF Read, At, hist
    <2>2. /\ delta = 0 /\ Pending = {"read"} \cup Rest /\ "notify" \in Rest
          /\ Rest \subseteq {"notify", "sync"}
      BY <2>1, HeadFacts, RestFacts DEF MayFollow, Needs
    <2>3. queue' \cup loading' = queue \cup loading
      BY <1>14 DEF Read, AlarmQueueAdd
    <2>4. "notify" \in Pending' /\ Pending' \subseteq {"read", "notify", "sync"}
      BY <1>14, <2>2, PlainSteps, ReadSteps
    <2>5. Wanted' = owed /\ owed \subseteq Wanted
      BY <2>1, <2>4 DEF Wanted, Added
    <2> QED
      BY <1>1, <1>2, <1>3, <2>1, <2>2, <2>3, <2>4, <2>5 DEF Ready
  <1>15. ASSUME Restart PROVE Goal
    <2>1. ~torn /\ drift = 0 /\ delta = 0
      BY <1>15, Zenon DEF Restart
    <2>2. /\ queue' = {} /\ loading' = Shift(file, drift) /\ rows' = Shift(rows, drift)
          /\ owed' = owed /\ delta' = 0
      BY <1>15 DEF Restart
    <2>3. loading' = file /\ rows' = rows
      BY <2>1, <2>2, ShiftNot
    <2>4. Wanted' = owed /\ owed \subseteq Wanted /\ "notify" \in Pending'
      BY <1>15, <2>2, CallSteps DEF Wanted, Added
    <2>5. \A a \in file : a.id \in owed => a \in queue \cup loading
      BY <2>1 DEF BackInv, FileBack
    <2> QED
      BY <1>1, <1>2, <1>3, <2>1, <2>2, <2>3, <2>4, <2>5 DEF Ready
  <1>16. ASSUME Tick PROVE Goal
    <2>1. /\ delta = 0 /\ delta' = 0 /\ loading = {} /\ loading' = {} /\ Pending = {} /\ 1 \in Int
          /\ ~called /\ queue' = Shift(queue, 1) /\ rows' = Shift(rows, 1)
          /\ UNCHANGED <<owed, torn, todo>>
      BY <1>16, Quiet DEF Tick
    <2>2. Pending' = {} /\ Wanted' = owed /\ Wanted = owed
      BY <2>1, ClockSteps DEF Wanted, Added
    <2>3. ASSUME NEW b \in queue', b.id \in owed PROVE Backed(b)'
      <3>1. PICK a \in queue : b = Moved(a, 1)
        BY <2>1, ShiftDef
      <3>2. a \in Alarm /\ a.id = b.id /\ b \in Alarm
        BY <2>1, <3>1, MovedAlarm
      <3>3. Ready(a)
        BY <1>1, <2>1, <2>2, <2>3, <3>2, BackedNow DEF NoDelta, BackInv, RowsBack
      <3>4. a \in rows
        BY <2>1, <3>3 DEF Ready
      <3>5. Ready(b)'
        BY <2>1, <3>1, <3>4, ShiftDef DEF Ready
      <3> QED
        BY <1>0, <1>2, <2>1, <3>2, <3>5, BackedNext DEF NoDelta
    <2> QED
      BY <2>1, <2>2, <2>3 DEF Goal
  <1>17. ASSUME Sync PROVE Goal
    <2>1. /\ todo # <<>> /\ Head(todo) = "sync" /\ queue' = Shift(queue, drift)
          /\ rows' = Shift(rows, drift) /\ UNCHANGED <<loading, called, arg, owed>>
      BY <1>17 DEF Sync, At
    <2>2. ~torn /\ ~(called /\ drift < 0)
      BY <1>17, Zenon DEF Sync
    <2>3. /\ loading = {} /\ delta = 0 /\ Pending = {"sync"} \cup Rest
          /\ "row" \notin Rest /\ "notify" \notin Rest
          /\ Pending' \subseteq Rest \cup {"adjust", "recalc", "notify", "expire"}
          /\ Rest \subseteq Pending'
      BY <1>17, <2>1, HeadFacts, RestFacts, SyncSteps DEF MayFollow
    <2>4. IdsOf(queue') = IdsOf(queue)
      BY <2>1, ShiftFacts
    <2>5. Wanted' = Wanted
      BY <2>1, <2>3, <2>4 DEF Wanted, Added
    <2>6. ASSUME NEW b \in queue', b.id \in Wanted PROVE Backed(b)'
      <3>1. PICK a \in queue : b = Moved(a, drift)
        BY <2>1, ShiftDef
      <3>2. a \in Alarm /\ a.id = b.id /\ b \in Alarm /\ b.left = a.left - drift
            /\ b.calendar = a.calendar /\ a.left \in Int
        BY <3>1, MovedAlarm DEF Alarm
      <3>3. Ready(a)
        BY <1>1, <2>2, <2>3, <2>6, <3>2, BackedNow DEF NoDelta, BackInv, RowsBack
      <3>4. a \in rows \/ (called /\ a.left <= 0)
        BY <2>3, <3>3 DEF Ready
      <3>5. CASE drift \in {0, -1}
        <4>1. delta' = 0
          BY <1>17, <3>5 DEF Sync
        <4>2. b \in rows' \/ (called' /\ b.left <= 0)
          <5>1. CASE a \in rows
            BY <2>1, <3>1, <5>1, ShiftDef
          <5>2. CASE called /\ a.left <= 0
            <6>1. drift = 0
              BY <2>2, <3>5, <5>2
            <6> QED
              BY <2>1, <3>2, <5>2, <6>1
          <5> QED
            BY <3>4, <5>1, <5>2
        <4>3. Ready(b)'
          BY <4>2 DEF Ready
        <4> QED
          BY <1>0, <1>2, <3>2, <4>1, <4>3, BackedNext DEF NoDelta
      <3>6. CASE drift \notin {0, -1}
        <4>1. delta' = drift /\ "adjust" \in Pending' /\ "notify" \in Pending'
          BY <1>17, <3>6, SyncSteps DEF Sync
        <4>2. QueueDelta' = drift /\ RowsDelta' = drift
          BY <4>1 DEF QueueDelta, RowsDelta
        <4>3. CASE a \in rows
          <5>1. b \in rows'
            BY <2>1, <3>1, <4>3, ShiftDef
          <5>2. Adj(b, drift) \in AdjustRelative(rows', drift)
            BY <5>1, AdjustDef
          <5> QED
            BY <4>2, <5>2 DEF Backed
        <4>4. CASE called /\ a.left <= 0
          <5>1. drift >= 0
            BY <2>2, <4>4
          <5>2. Adj(b, drift).left = IF b.calendar THEN b.left ELSE b.left + drift
            BY <3>2, AdjAlarm
          <5>3. Adj(b, drift).left <= 0
            BY <3>2, <4>4, <5>1, <5>2
          <5> QED
            BY <4>1, <4>2, <5>3 DEF Backed
        <4> QED
          BY <3>4, <4>3, <4>4
      <3> QED
        BY <3>5, <3>6
    <2> QED
      BY <2>1, <2>3, <2>5, <2>6 DEF Goal
  <1>18. ASSUME AdjustRows PROVE Goal
    <2>1. /\ todo # <<>> /\ Head(todo) = "adjust" /\ rows' = AdjustRelative(rows, delta)
          /\ UNCHANGED <<queue, loading, called, arg, owed, delta, torn>>
      BY <1>18 DEF AdjustRows, At, mem, hist
    <2>2. /\ Pending = {"adjust"} \cup Pending' /\ "recalc" \in Pending'
          /\ "adjust" \notin Pending'
      BY <1>18, <2>1, PlainSteps, RestFacts DEF MayFollow, Needs
    <2>3. Wanted' = Wanted
      BY <2>1, <2>2 DEF Wanted, Added
    <2>4. QueueDelta = delta /\ RowsDelta = delta /\ QueueDelta' = delta /\ RowsDelta' = 0
      BY <2>1, <2>2 DEF QueueDelta, RowsDelta
    <2>5. AdjustRelative(rows', RowsDelta') = AdjustRelative(rows, RowsDelta)
      BY <1>0, <2>1, <2>4, AdjustNot
    <2>6. ASSUME NEW a \in queue \cup loading, Backed(a) PROVE Backed(a)'
      BY <2>1, <2>2, <2>4, <2>5, <2>6 DEF Backed
    <2> QED
      BY <2>1, <2>3, <2>6 DEF Goal, BackInv, RowsBack
  <1>19. ASSUME Recalculate PROVE Goal
    <2>1. /\ todo # <<>> /\ Head(todo) = "recalc" /\ queue' = AdjustRelative(queue, delta)
          /\ UNCHANGED <<loading, rows, called, arg, owed, delta, torn>>
      BY <1>19 DEF Recalculate, At, hist
    <2>2. /\ loading = {} /\ Pending = {"recalc"} \cup Rest /\ Pending' = Rest \cup {"write"}
          /\ Rest \cap {"adjust", "recalc", "row"} = {}
      BY <1>19, <2>1, HeadFacts, RecalculateSteps, RestFacts DEF MayFollow
    <2>3. IdsOf(queue') = IdsOf(queue)
      BY <2>1, AdjustFacts
    <2>4. Wanted' = Wanted
      BY <2>1, <2>2, <2>3 DEF Wanted, Added
    <2>5. QueueDelta = delta /\ RowsDelta = 0 /\ QueueDelta' = 0 /\ RowsDelta' = 0
      BY <2>1, <2>2 DEF QueueDelta, RowsDelta
    <2>6. ASSUME NEW b \in queue', b.id \in Wanted PROVE Backed(b)'
      <3>1. PICK a \in queue : b = Adj(a, delta)
        BY <2>1, AdjustDef
      <3>2. a \in Alarm /\ a.id = b.id /\ b \in Alarm
        BY <3>1, AdjAlarm
      <3>3. Backed(a)
        BY <2>1, <2>6, <3>2 DEF BackInv, RowsBack
      <3>4. b \in rows \/ ((called \/ "notify" \in Pending) /\ b.left <= 0)
        BY <2>5, <3>1, <3>3, AdjustNot DEF Backed
      <3>5. Ready(b)'
        BY <2>1, <2>2, <3>4 DEF Ready
      <3> QED
        BY <1>0, <2>5, <3>2, <3>5, BackedNext
    <2> QED
      BY <2>1, <2>2, <2>4, <2>6 DEF Goal
  <1>20. ASSUME (\E d \in Jumps : SetClock(d) \/ SetClock(-d)) \/ UNCHANGED vars PROVE Goal
    <2>1. /\ Pending' = Pending
          /\ UNCHANGED <<queue, loading, rows, called, arg, owed, delta, torn>>
      BY <1>20, ClockSteps DEF SetClock, vars, mem, hist
    <2>2. Wanted' = Wanted /\ QueueDelta' = QueueDelta /\ RowsDelta' = RowsDelta
      BY <2>1 DEF Wanted, Added, QueueDelta, RowsDelta
    <2>3. ASSUME NEW a \in queue \cup loading, Backed(a) PROVE Backed(a)'
      BY <2>1, <2>2, <2>3 DEF Backed
    <2> QED
      BY <2>1, <2>2, <2>3 DEF Goal, BackInv, RowsBack
  <1>21. Goal
    BY <1>4, <1>5, <1>6, <1>7, <1>8, <1>9, <1>10, <1>11, <1>12, <1>13, <1>14, <1>15, <1>16,
       <1>17, <1>18, <1>19, <1>20 DEF Next, Caller, Step
  <1> QED
    BY <1>21 DEF Goal

-----------------------------------------------------------------------------
(* Theorems.                                                                *)

LEMMA AlarmsInit == Init => AlarmsInv
  <1> SUFFICES ASSUME Init PROVE AlarmsInv
    OBVIOUS
  <1>1. TypeOK
    <2>1. NoAlarm \in Alarm /\ nextId \in 0 .. MaxId + 1 /\ todo \in Seq(Steps)
      BY AlarmsAssumption DEF Init, NoAlarm, Alarm, Ids
    <2>2. {called, short, torn, lossy} \subseteq BOOLEAN
      BY Zenon DEF Init
    <2> QED
      BY <2>1, <2>2 DEF Init, TypeOK
  <1>2. Pending = {}
    BY IdleFacts DEF Init, Idle
  <1>3. OrderInv
    BY <1>2, ScriptsOrdered DEF Init, OrderInv, Scripts
  <1>4. IdsInv
    BY DEF Init, IdsInv, Unique
  <1>5. FileInv /\ SurviveInv
    BY <1>2 DEF Init, FileInv, SurviveInv
  <1>6. BackInv
    BY <1>2 DEF Init, BackInv, RowsBack, RowIsAlarm, FileBack
  <1> QED
    BY <1>1, <1>3, <1>4, <1>5, <1>6 DEF AlarmsInv

LEMMA AlarmsStep == AlarmsInv /\ [Next]_vars => AlarmsInv'
  <1> SUFFICES ASSUME AlarmsInv, [Next]_vars PROVE AlarmsInv'
    OBVIOUS
  <1> USE DEF AlarmsInv
  <1>1. TypeOK' /\ OrderInv'
    BY TypeStep, OrderStep
  <1>2. IdsInv' /\ FileInv' /\ SurviveInv'
    BY IdsStep, FileStep, SurviveStep
  <1>3. BackInv'
    BY <1>1, RowsBackStep, RowIsAlarmStep, FileBackStep DEF BackInv
  <1> QED
    BY <1>1, <1>2, <1>3

\* At every point of every call of alarm.c, the daemon dying at any of them: calls are
\* in order, ids unique in memory and on disk, and what memory, alarms.xml and the rows
\* of the timeout table say of an answered alarm agrees but for the step in progress.
THEOREM AlarmsInvariant == Spec => []AlarmsInv
  BY AlarmsInit, AlarmsStep, PTL DEF Spec

\* The queue, the file and the rows hold alarms, and the next id stays in range, through
\* every call and every restart.
THEOREM AlarmsTypeCorrect == Spec => []TypeOK
  <1>1. AlarmsInv => TypeOK
    BY DEF AlarmsInv
  <1> QED
    BY <1>1, AlarmsInvariant, PTL

\* alarm_queue_add, also when called by alarm_read_db, never gives two alarms one id.
THEOREM IdsSafe == Spec => []IdsAreUnique
  <1>1. AlarmsInv => IdsAreUnique
    BY DEF AlarmsInv, IdsInv, Unique, IdsAreUnique
  <1> QED
    BY <1>1, AlarmsInvariant, PTL

\* Between calls alarms.xml holds the queue, unless it was last written by notify_alarms
\* while alarm_read_db was still adding alarms.
THEOREM FileSafe == Spec => []FileHoldsQueue
  <1>1. AlarmsInv => FileHoldsQueue
    <2> SUFFICES ASSUME AlarmsInv, Idle, ~short PROVE file = queue
      BY DEF FileHoldsQueue
    <2>1. Pending = {} /\ loading = {}
      BY Quiet DEF AlarmsInv
    <2> QED
      BY <2>1 DEF AlarmsInv, FileInv
  <1> QED
    BY <1>1, AlarmsInvariant, PTL

\* An alarm whose addition was answered is in the queue until it fires or is removed,
\* whatever the daemon was doing each time it died, unless the file was then incomplete.
THEOREM SurviveSafe == Spec => []AnsweredAlarmsSurvive
  <1>1. AlarmsInv => AnsweredAlarmsSurvive
    <2> SUFFICES ASSUME AlarmsInv, Idle, ~lossy PROVE owed \subseteq IdsOf(queue)
      BY DEF AnsweredAlarmsSurvive
    <2>1. queue \cup loading = queue
      BY Quiet DEF AlarmsInv
    <2> QED
      BY <2>1 DEF AlarmsInv, SurviveInv
  <1> QED
    BY <1>1, AlarmsInvariant, PTL

\* Between calls an answered alarm has a timeout row of its own expiry, or the call
\* internalAlarmFired of its row is on its way, through any changes of the clock that
\* _update_timeouts has taken to rows and alarms.
THEOREM BackedSafe == Spec => []AlarmsAreBacked
  <1>1. AlarmsInv => AlarmsAreBacked
    <2> SUFFICES ASSUME AlarmsInv, Idle, ~torn, NEW a \in queue, a.id \in owed
                 PROVE  a \in rows \/ (called /\ a.left <= 0)
      BY DEF AlarmsAreBacked
    <2>1. Pending = {} /\ delta = 0
      BY Quiet DEF AlarmsInv
    <2>2. QueueDelta = 0 /\ RowsDelta = 0 /\ owed \subseteq Wanted
      BY <2>1 DEF QueueDelta, RowsDelta, Wanted
    <2>3. rows \in SUBSET Alarm /\ a \in Alarm
      BY Types DEF AlarmsInv
    <2>4. Backed(a)
      BY <2>2 DEF AlarmsInv, BackInv, RowsBack
    <2>5. Ready(a)
      BY <2>2, <2>3, <2>4, BackedNow
    <2> QED
      BY <2>1, <2>5 DEF Ready
  <1> QED
    BY <1>1, AlarmsInvariant, PTL

=============================================================================
