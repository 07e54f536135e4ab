-------------------------- MODULE RetryBackoffProofs --------------------------
(***************************************************************************)
(* Proofs about module RetryBackoff for every base interval and cap, with  *)
(* the two threads interleaving freely.                                    *)
(***************************************************************************)
EXTENDS RetryBackoff, TLAPS

\* What a refusal imposes lies between the base interval and the cap, and so does
\* what it leaves for the next one (suspend.c:587-603).
LEMMA ClampedRange ==
    ASSUME NEW ms \in Nat
    PROVE  Clamped(ms) \in Base .. Limit /\ Clamped(ms) \in Nat
  BY BackoffAssumption DEF Clamped, Limit

LEMMA DoubledRange ==
    ASSUME NEW ms \in Base .. Limit
    PROVE  /\ Doubled(ms) \in Base .. Limit
           /\ Doubled(ms) = IF 2 * ms < Limit THEN 2 * ms ELSE Limit
  BY BackoffAssumption DEF Doubled, Limit

\* Every delay in flight is within the limits: the one on record, the one a
\* refusal is working with, and the deadlines computed but not stored.
DelaysInv ==
    /\ backoff \in Base .. Limit
    /\ delay \in 0 .. Limit
    /\ at["suspend"] = "store" => delay \in Base .. Limit
    /\ \A t \in Threads : left[t] <= Limit

\* Between a refusal and the next, unless a reset came, the back-off on record is
\* what the doubling of its delay left.
DoublingInv ==
    /\ last \in 0 .. Limit
    /\ last # 0 /\ at["suspend"] = "store" => delay = last
    /\ last # 0 /\ at["suspend"] # "store" => last >= Base /\ backoff = Doubled(last)

PolicyInv == PolicyTypeOK /\ DelaysInv /\ HoldBounded /\ DoublingInv

BackoffInv == PolicyInv /\ IdleTypeOK

\* A step of either thread, or a tick, keeps the invariant of the policy.
LEMMA PolicyStep == PolicyInv /\ [Next]_vars => PolicyInv'
  <1> SUFFICES ASSUME PolicyInv, [Next]_vars
               PROVE  PolicyInv'
    OBVIOUS
  <1> USE BackoffAssumption DEF PolicyInv, PolicyTypeOK, DelaysInv, HoldBounded, DoublingInv,
          Threads, Steps
  <1>0. Limit \in Nat /\ Base <= Limit
    BY DEF Limit
  <1>1. ASSUME NEW t \in Threads, NEW from, NEW to \in Steps \ {"store"}, NEW ms \in 0 .. Limit,
               from # "store", HoldOffReads(t, from, to, ms)
        PROVE  PolicyInv'
    BY <1>0, <1>1 DEF HoldOffReads, Moves
  <1>2. ASSUME NEW t \in Threads, NEW from, NEW to \in Steps \ {"store"},
               from # "store", HoldOffStores(t, from, to)
        PROVE  PolicyInv'
    BY <1>0, <1>2 DEF HoldOffStores, Moves
  <1>3. ASSUME NEW t \in Threads, ResetExchange(t)
        PROVE  PolicyInv'
    BY <1>0, <1>3 DEF ResetExchange, Moves, ResetFrom
  <1>4. ASSUME NEW t \in Threads, ResetStreak(t)
        PROVE  PolicyInv'
    <2>1. /\ \E from, to \in Steps \ {"store"} : at[t] = from /\ at' = [at EXCEPT ![t] = to]
          /\ UNCHANGED <<backoff, hold, delay, left, last>>
          /\ refusing' \in BOOLEAN /\ fresh' \in BOOLEAN /\ raced' \in BOOLEAN
      BY <1>4 DEF ResetStreak, Moves, ResetTo
    <2>2. QED
      BY <1>0, <2>1
  <1>5. ASSUME NEW t \in Threads, SuspendRetryReset(t)
        PROVE  PolicyInv'
    <2>1. ResetTo(t) \in Steps \ {"store"}
      BY DEF ResetTo
    <2>2. CASE HoldOffReads(t, "resetClock", "resetHold", Base)
      BY <1>0, <1>1, <2>2
    <2>3. CASE ResetHold(t)
      BY <1>2, <2>1, <2>3 DEF ResetHold
    <2>4. QED
      BY <1>3, <1>4, <1>5, <2>2, <2>3 DEF SuspendRetryReset
  <1>6. CASE BackOffLoad
    <2>1. Clamped(backoff) = backoff
      BY <1>0 DEF Clamped
    <2>2. /\ delay' = backoff /\ last' = backoff /\ UNCHANGED <<backoff, hold, left>>
          /\ at' = [at EXCEPT !["suspend"] = "store"]
      BY <1>6, <2>1 DEF BackOffLoad, Moves
    <2>3. DoublingInv' /\ DelaysInv' /\ HoldBounded'
      BY <1>0, <2>2
    <2>4. fresh' \in BOOLEAN /\ refusing' \in BOOLEAN /\ raced' \in BOOLEAN
      BY <1>6 DEF BackOffLoad, Moves
    <2>5. PolicyTypeOK'
      BY <1>0, <1>6, <2>2, <2>4 DEF BackOffLoad
    <2>6. QED
      BY <2>3, <2>5 DEF PolicyInv
  <1>7. CASE BackOffStore
    <2>1. Doubled(delay) \in Base .. Limit
      BY <1>7, DoubledRange DEF BackOffStore, Moves
    <2>2. last # 0 => delay = last
      BY <1>7 DEF BackOffStore, Moves
    <2>3. /\ backoff' = Doubled(delay) /\ UNCHANGED <<delay, last, hold, left>>
          /\ at["suspend"] = "store" /\ at' = [at EXCEPT !["suspend"] = "count"]
      BY <1>7 DEF BackOffStore, Moves
    <2>4. DoublingInv'
      BY <1>0, <2>1, <2>2, <2>3
    <2>5. DelaysInv' /\ HoldBounded'
      BY <1>0, <2>1, <2>3
    <2>6. PolicyTypeOK'
      BY <1>0, <1>7, <2>1 DEF BackOffStore, Moves
    <2>7. QED
      BY <2>4, <2>5, <2>6 DEF PolicyInv
  <1>8. CASE BackOffCount
    BY <1>0, <1>8 DEF BackOffCount, Moves
  <1>9. CASE SuspendRetryBackOff
    <2>1. CASE HoldOffReads("suspend", "backoffClock", "backoffHold", delay)
      BY <1>1, <2>1
    <2>2. CASE BackOffHold
      BY <1>2, <2>2 DEF BackOffHold
    <2>3. QED
      BY <1>6, <1>7, <1>8, <1>9, <2>1, <2>2 DEF SuspendRetryBackOff
  <1>10. CASE SuspendCycle
    <2>1. CASE \/ \E outdated \in BOOLEAN : IdleCycle(outdated)
               \/ ForcedCycle \/ CycleDeclined \/ SleepEnds \/ AbortLooks
      <3>1. raced' \in BOOLEAN
        BY <2>1 DEF IdleCycle, ForcedCycle, CycleDeclined, SleepEnds, AbortLooks, Moves
      <3>2. QED
        BY <1>0, <2>1, <3>1 DEF IdleCycle, ForcedCycle, CycleDeclined, SleepEnds, AbortLooks,
           Moves
    <2>0. CASE IdleCheck
      BY <2>0 DEF IdleCheck
    <2>2. CASE \/ HoldOffReads("suspend", "abortClock", "abortHold", Base)
               \/ HoldOffReads("suspend", "resumeClock", "resumeHold", Base)
      BY <1>0, <1>1, <2>2
    <2>3. CASE BackInOn
      BY <1>2, <2>3 DEF BackInOn
    <2>4. QED
      BY <1>10, <2>0, <2>1, <2>2, <2>3 DEF SuspendCycle
  <1>11. CASE Tick
    BY <1>0, <1>11 DEF Tick, Elapse
  <1>12. CASE UNCHANGED vars
    BY <1>12 DEF vars
  <1>13. QED
    BY <1>5, <1>9, <1>10, <1>11, <1>12 DEF Next

\* The idle events and what is remembered of the last resume keep their types.
LEMMA IdleTypeStep == IdleTypeOK /\ [Next]_vars => IdleTypeOK'
  <1> SUFFICES ASSUME IdleTypeOK, [Next]_vars
               PROVE  IdleTypeOK'
    OBVIOUS
  <1> USE BackoffAssumption DEF IdleTypeOK
  <1>1. CASE UNCHANGED idleVars
    BY <1>1 DEF idleVars
  <1>2. ASSUME NEW t, HoldIsOf(t)
        PROVE  IdleTypeOK'
    BY <1>2 DEF HoldIsOf
  <1>3. ASSUME NEW t, NEW from, NEW to, NEW ms, HoldOffReads(t, from, to, ms)
        PROVE  IdleTypeOK'
    BY <1>3 DEF HoldOffReads
  <1>4. CASE SendResume
    BY <1>4 DEF SendResume
  <1>5. CASE IdleCheck
    BY <1>5 DEF IdleCheck
  <1>6. ASSUME NEW outdated \in BOOLEAN, IdleCycle(outdated)
        PROVE  IdleTypeOK'
    BY <1>6 DEF IdleCycle
  <1>7. CASE AbortLooks
    BY <1>7 DEF AbortLooks
  <1>8. CASE Tick
    BY <1>8 DEF Tick
  <1>9. QED
    BY <1>1, <1>2, <1>3, <1>4, <1>5, <1>6, <1>7, <1>8 DEF Next, SuspendRetryReset, ResetExchange,
       ResetStreak, ResetHold, SuspendRetryBackOff, BackOffLoad, BackOffStore, BackOffCount,
       BackOffHold, SuspendCycle, ForcedCycle, CycleDeclined, SleepEnds, BackInOn, vars, idleVars

\* The invariant holds in every reachable state, with the threads racing or not.
THEOREM BackoffInvariant == Spec => []BackoffInv
  <1>1. Init => BackoffInv
    <2> SUFFICES ASSUME Init PROVE BackoffInv
      OBVIOUS
    <2>1. Limit \in Nat /\ Base <= Limit
      BY BackoffAssumption DEF Limit
    <2>2. PolicyTypeOK
      <3>1. refusing \in BOOLEAN /\ fresh \in BOOLEAN /\ raced \in BOOLEAN
        BY DEF Init
      <3>2. QED
        BY <3>1, BackoffAssumption DEF Init, PolicyTypeOK, Threads, Steps
    <2>3. DelaysInv /\ HoldBounded /\ DoublingInv
      BY <2>1, BackoffAssumption DEF Init, DelaysInv, HoldBounded, DoublingInv, Threads
    <2>4. IdleTypeOK
      BY BackoffAssumption DEF Init, IdleTypeOK
    <2>5. QED
      BY <2>2, <2>3, <2>4 DEF BackoffInv, PolicyInv
  <1>2. BackoffInv /\ [Next]_vars => BackoffInv'
    BY PolicyStep, IdleTypeStep DEF BackoffInv
  <1>3. QED
    BY <1>1, <1>2, PTL DEF Spec

\* The policy's variables keep their types.
THEOREM BackoffTypeCorrect == Spec => []TypeOK
  BY BackoffInvariant, PTL DEF BackoffInv, PolicyInv, TypeOK

\* For every configuration and every interleaving of resets and refusals, an idle
\* device is never held off for longer than the cap (suspend.c:579-609).
THEOREM HoldSafe == Spec => []HoldBounded
  BY BackoffInvariant, PTL DEF BackoffInv, PolicyInv

\* Without a reset in between the delay of each refusal is twice the last one's, up
\* to the cap, for every base interval and cap (suspend.c:238-239, 602).
THEOREM DoublingSafe == Spec => RefusalsDouble
  <1> DEFINE Doubles == at["suspend"] = "sleep" /\ at'["suspend"] = "store" /\ last # 0 =>
                          delay' = IF 2 * last < Limit THEN 2 * last ELSE Limit
  <1>1. BackoffInv /\ [Next]_vars => [Doubles]_vars
    <2> SUFFICES ASSUME BackoffInv, [Next]_vars, at["suspend"] = "sleep",
                        at'["suspend"] = "store", last # 0
                 PROVE  delay' = IF 2 * last < Limit THEN 2 * last ELSE Limit
      OBVIOUS
    <2>1. BackOffLoad
      BY DEF BackoffInv, PolicyInv, PolicyTypeOK, Threads, Next, SuspendRetryReset, ResetExchange, ResetStreak,
         ResetHold, ResetTo, ResetFrom, SuspendRetryBackOff, BackOffStore, BackOffCount, BackOffHold,
         SuspendCycle, IdleCheck, IdleCycle, ForcedCycle, CycleDeclined, SleepEnds, AbortLooks, BackInOn,
         HoldOffReads, HoldOffStores, Moves, Tick, vars
    <2>2. backoff = Doubled(last) /\ last \in Base .. Limit /\ backoff \in Base .. Limit
      BY DEF BackoffInv, PolicyInv, DoublingInv, DelaysInv
    <2>3. delay' = backoff
      BY <2>1, <2>2, BackoffAssumption DEF BackOffLoad, Clamped, Limit
    <2>4. QED
      BY <2>2, <2>3, DoubledRange
  <1>2. QED
    BY <1>1, BackoffInvariant, PTL DEF Spec, RefusalsDouble
-------------------------------------------------------------------------------
(* What holds as long as the threads have not met inside the policy.           *)

\* The steps of a reset that has yet to replace a grown hold, and those of a refusal.
Resetting == {"endStreakAndHold", "resetClock", "resetHold"}
Refusing == {"store", "count", "backoffClock", "backoffHold"}

\* One thread at most is inside.
ApartInv == at["main"] = "idle" \/ at["suspend"] \in {"idle", "sleep"}

\* A back-off at its base goes with a hold of at most the base interval, unless a
\* reset is about to store one; a reset of the main thread finds nobody refusing.
ResetInv ==
    /\ \A t \in Threads : at[t] = "resetHold" => left[t] <= Base
    /\ at["suspend"] \in {"abortHold", "resumeHold"} => left["suspend"] <= Base
    /\ at["suspend"] \in Refusing \ {"store"} /\ backoff = Base => Limit = Base
    /\ backoff = Base /\ (\A t \in Threads : at[t] \notin Resetting) => hold <= Base
    /\ at["main"] # "idle" => fresh
    /\ fresh => backoff = Base /\ at["suspend"] \notin Refusing \cup Resetting

\* The steps the main thread can be at: those of a reset.
MainInv == at["main"] \in {"idle", "endStreak"} \cup Resetting

LoneInv == MainInv /\ (~raced => ApartInv /\ ResetInv)

\* A refusal leaves the base interval on record only if the cap allows no other.
LEMMA DoubledBase ==
    ASSUME NEW ms \in Base .. Limit, Doubled(ms) = Base
    PROVE  Limit = Base
  BY BackoffAssumption DEF Doubled, Limit

\* What a step of the suspend thread's control does.
LEMMA SuspendMoves ==
    ASSUME at \in [Threads -> Steps], NEW from, NEW to, Moves("suspend", from, to)
    PROVE  /\ at["suspend"] = from /\ at'["suspend"] = to /\ at'["main"] = at["main"]
           /\ ~raced' => ~raced /\ at["main"] = "idle"
  <1>1. /\ at["suspend"] = from /\ at' = [at EXCEPT !["suspend"] = to]
        /\ raced' = (raced \/ ~(at["main"] = "idle"))
    BY DEF Moves, Alone
  <1>2. QED
    BY <1>1 DEF Threads

\* A step that does not meet the other thread keeps the stronger invariant.
LEMMA LoneStep == BackoffInv /\ LoneInv /\ [Next]_vars => LoneInv'
  <1> SUFFICES ASSUME BackoffInv, LoneInv, [Next]_vars
               PROVE  LoneInv'
    OBVIOUS
  <1> USE BackoffAssumption
  <1>0. /\ Limit \in Nat /\ Base <= Limit /\ Base \in Nat
        /\ at \in [Threads -> Steps] /\ left \in [Threads -> Nat]
        /\ hold \in Nat /\ hold <= Limit /\ backoff \in Base .. Limit
    BY DEF Limit, BackoffInv, PolicyInv, PolicyTypeOK, DelaysInv, HoldBounded
  <1>1. ASSUME NEW t \in Threads, ResetExchange(t)
        PROVE  LoneInv'
    BY <1>0, <1>1 DEF ResetExchange, Moves, Alone, ResetFrom, LoneInv, MainInv, ApartInv,
       ResetInv, Threads, Resetting, Refusing
  <1>2. ASSUME NEW t \in Threads, ResetStreak(t)
        PROVE  LoneInv'
    BY <1>0, <1>2 DEF ResetStreak, Moves, Alone, ResetTo, LoneInv, MainInv, ApartInv,
       ResetInv, Threads, Resetting, Refusing
  <1>3. ASSUME NEW t \in Threads, HoldOffReads(t, "resetClock", "resetHold", Base)
        PROVE  LoneInv'
    <2>1. /\ Moves(t, "resetClock", "resetHold") /\ left' = [left EXCEPT ![t] = Base]
          /\ UNCHANGED <<backoff, hold, fresh>>
      BY <1>3 DEF HoldOffReads
    <2>2. CASE t = "suspend"
      <3>1. /\ at["suspend"] = "resetClock" /\ at'["suspend"] = "resetHold"
            /\ at'["main"] = at["main"] /\ (~raced' => ~raced /\ at["main"] = "idle")
        BY <1>0, <2>1, <2>2, SuspendMoves
      <3>2. left'["suspend"] = Base /\ left'["main"] = left["main"]
        BY <1>0, <2>1, <2>2 DEF Threads
      <3>3. QED
        BY <1>0, <2>1, <3>1, <3>2 DEF LoneInv, MainInv, ApartInv, ResetInv, Threads,
           Resetting, Refusing
    <2>3. CASE t = "main"
      <3>1. /\ at["main"] = "resetClock" /\ at'["main"] = "resetHold"
            /\ at'["suspend"] = at["suspend"]
            /\ (~raced' => ~raced /\ at["suspend"] \in {"idle", "sleep"})
        <4>1. raced' = (raced \/ ~(at["suspend"] \in {"idle", "sleep"}))
          BY <2>1, <2>3 DEF Moves, Alone
        <4>2. QED
          BY <1>0, <2>1, <2>3, <4>1 DEF Moves, Threads
      <3>2. left'["main"] = Base /\ left'["suspend"] = left["suspend"]
        BY <1>0, <2>1, <2>3 DEF Threads
      <3>3. QED
        BY <1>0, <2>1, <3>1, <3>2 DEF LoneInv, MainInv, ApartInv, ResetInv, Threads,
           Resetting, Refusing
    <2>4. QED
      BY <2>2, <2>3 DEF Threads
  <1>4. ASSUME NEW t \in Threads, ResetHold(t)
        PROVE  LoneInv'
    BY <1>0, <1>4 DEF ResetHold, HoldOffStores, Moves, Alone, ResetTo, LoneInv, MainInv, ApartInv,
       ResetInv, Threads, Resetting, Refusing
  <1>5. CASE BackOffLoad
    BY <1>0, <1>5 DEF BackOffLoad, Moves, Alone, LoneInv, MainInv, ApartInv,
       ResetInv, Threads, Resetting, Refusing
  <1>6. CASE BackOffStore
    <2>1. delay \in Base .. Limit
      BY <1>6 DEF BackOffStore, Moves, BackoffInv, PolicyInv, DelaysInv
    <2>2. backoff' = Base => Limit = Base
      BY <1>6, <2>1, DoubledBase DEF BackOffStore
    <2>3. QED
      BY <1>0, <1>6, <2>2 DEF BackOffStore, Moves, Alone, LoneInv, MainInv, ApartInv,
         ResetInv, Threads, Resetting, Refusing
  <1>7. CASE BackOffCount \/ HoldOffReads("suspend", "backoffClock", "backoffHold", delay)
    <2>1. /\ \/ Moves("suspend", "count", "backoffClock") /\ left' = left
             \/ /\ Moves("suspend", "backoffClock", "backoffHold")
                /\ left' = [left EXCEPT !["suspend"] = delay]
          /\ UNCHANGED <<backoff, hold, fresh>>
      BY <1>7 DEF BackOffCount, HoldOffReads
    <2>2. left'["main"] = left["main"]
      BY <1>0, <2>1 DEF Threads
    <2>3. /\ at["suspend"] \in {"count", "backoffClock"}
          /\ at'["suspend"] \in {"backoffClock", "backoffHold"}
          /\ at'["main"] = at["main"] /\ (~raced' => ~raced /\ at["main"] = "idle")
      BY <1>0, <2>1, SuspendMoves
    <2>4. QED
      BY <1>0, <2>1, <2>2, <2>3 DEF LoneInv, MainInv, ApartInv, ResetInv, Threads,
         Resetting, Refusing
  <1>8. CASE BackOffHold
    <2>1. hold' <= Limit
      BY <1>0, <1>8 DEF BackOffHold, HoldOffStores, BackoffInv, PolicyInv, DelaysInv, Threads
    <2>2. QED
      BY <1>0, <1>8, <2>1 DEF BackOffHold, HoldOffStores, Moves, Alone, LoneInv, MainInv, ApartInv,
         ResetInv, Threads, Resetting, Refusing
  <1>9. CASE \/ \E outdated \in BOOLEAN : IdleCycle(outdated)
             \/ ForcedCycle \/ CycleDeclined \/ SleepEnds
    <2>1. /\ \/ Moves("suspend", "idle", "sleep") \/ Moves("suspend", "sleep", "idle")
             \/ Moves("suspend", "sleep", "abort") \/ Moves("suspend", "sleep", "resume")
          /\ UNCHANGED <<backoff, hold, left, fresh>>
      BY <1>9 DEF IdleCycle, ForcedCycle, CycleDeclined, SleepEnds
    <2>2. /\ at["suspend"] \in {"idle", "sleep"}
          /\ at'["suspend"] \in {"idle", "sleep", "abort", "resume"}
          /\ at'["main"] = at["main"] /\ (~raced' => ~raced /\ at["main"] = "idle")
      BY <1>0, <2>1, SuspendMoves
    <2>3. QED
      BY <1>0, <2>1, <2>2 DEF LoneInv, MainInv, ApartInv, ResetInv, Threads,
         Resetting, Refusing
  <1>10. CASE AbortLooks
    <2>1. /\ \/ hold > Base /\ Moves("suspend", "abort", "idle")
             \/ hold <= Base /\ Moves("suspend", "abort", "abortClock")
          /\ UNCHANGED <<backoff, hold, left, fresh>>
      BY <1>0, <1>10 DEF AbortLooks
    <2>2. /\ at["suspend"] = "abort"
          /\ (at'["suspend"] = "idle" /\ hold > Base) \/ at'["suspend"] = "abortClock"
          /\ at'["main"] = at["main"] /\ (~raced' => ~raced /\ at["main"] = "idle")
      BY <1>0, <2>1, SuspendMoves
    <2>3. QED
      BY <1>0, <2>1, <2>2 DEF LoneInv, MainInv, ApartInv, ResetInv, Threads,
         Resetting, Refusing
  <1>11. CASE \/ HoldOffReads("suspend", "abortClock", "abortHold", Base)
              \/ HoldOffReads("suspend", "resumeClock", "resumeHold", Base)
    <2>1. /\ \/ Moves("suspend", "abortClock", "abortHold")
             \/ Moves("suspend", "resumeClock", "resumeHold")
          /\ left' = [left EXCEPT !["suspend"] = Base]
          /\ UNCHANGED <<backoff, hold, fresh>>
      BY <1>11 DEF HoldOffReads
    <2>2. left'["suspend"] = Base /\ left'["main"] = left["main"]
      BY <1>0, <2>1 DEF Threads
    <2>3. /\ at["suspend"] \in {"abortClock", "resumeClock"}
          /\ at'["suspend"] \in {"abortHold", "resumeHold"}
          /\ at'["main"] = at["main"] /\ (~raced' => ~raced /\ at["main"] = "idle")
      BY <1>0, <2>1, SuspendMoves
    <2>4. QED
      BY <1>0, <2>1, <2>2, <2>3 DEF LoneInv, MainInv, ApartInv, ResetInv, Threads,
         Resetting, Refusing
  <1>12. CASE BackInOn
    <2>1. /\ \/ Moves("suspend", "abortHold", "idle") \/ Moves("suspend", "resumeHold", "idle")
          /\ hold' = left["suspend"]
          /\ UNCHANGED <<backoff, left, fresh>>
      BY <1>12 DEF BackInOn, HoldOffStores
    <2>2. /\ at["suspend"] \in {"abortHold", "resumeHold"} /\ at'["suspend"] = "idle"
          /\ at'["main"] = at["main"] /\ (~raced' => ~raced /\ at["main"] = "idle")
      BY <1>0, <2>1, SuspendMoves
    <2>3. QED
      BY <1>0, <2>1, <2>2 DEF LoneInv, MainInv, ApartInv, ResetInv, Threads,
         Resetting, Refusing
  <1>13. CASE Tick
    BY <1>0, <1>13 DEF Tick, Elapse, LoneInv, MainInv, ApartInv,
       ResetInv, Threads, Resetting, Refusing
  <1>14. CASE IdleCheck \/ UNCHANGED vars
    BY <1>14 DEF IdleCheck, vars, LoneInv, MainInv, ApartInv, ResetInv
  <1>15. QED
    BY <1>1, <1>2, <1>3, <1>4, <1>5, <1>6, <1>7, <1>8, <1>9, <1>10, <1>11, <1>12, <1>13, <1>14
       DEF Next, SuspendRetryReset, SuspendRetryBackOff, SuspendCycle

\* The stronger invariant holds in every reachable state.
THEOREM LoneInvariant == Spec => []LoneInv
  <1>1. Init => LoneInv
    BY BackoffAssumption DEF Init, LoneInv, MainInv, ApartInv, ResetInv, Threads,
       Resetting, Refusing
  <1>2. QED
    BY <1>1, LoneStep, BackoffInvariant, PTL DEF Spec

\* For every base interval and cap: until the threads meet inside the policy, a reset
\* puts the back-off and the hold back to the base interval (suspend.h:66-68).
THEOREM ResetSafe == Spec => []LoneResetTakesEffect
  <1>1. LoneInv => LoneResetTakesEffect
    BY DEF LoneInv, ResetInv, LoneResetTakesEffect, Threads, Resetting, Refusing
  <1>2. QED
    BY <1>1, LoneInvariant, PTL

-------------------------------------------------------------------------------
(* The minimum time awake, with the threads racing or not.                     *)

\* A deadline computed since the last resume broadcast, on record or about to be, is
\* reached Base after it at the earliest; so an idle event posted on its word finds the
\* minimum time over.
AwakeInv ==
    /\ at["suspend"] \in {"idle", "sleep"} /\ "hold" \notin old => hold + awake >= Base
    /\ at["suspend"] \in {"abortHold", "resumeHold"} => left["suspend"] + awake >= Base
    /\ at["main"] = "resetHold" /\ "main" \notin old => left["main"] + awake >= Base
    /\ posted > stale => awake = Base

\* A step of either thread, or a tick, keeps it.
LEMMA AwakeStep == BackoffInv /\ MainInv /\ AwakeInv /\ [Next]_vars => AwakeInv'
  <1> SUFFICES ASSUME BackoffInv, MainInv, AwakeInv, [Next]_vars
               PROVE  AwakeInv'
    OBVIOUS
  <1> USE BackoffAssumption DEF AwakeInv
  <1>0. /\ at \in [Threads -> Steps] /\ left \in [Threads -> Nat] /\ hold \in Nat
        /\ awake \in 0 .. Base /\ posted \in Nat /\ stale \in 0 .. posted
        /\ old \subseteq {"main", "hold"} /\ Base \in Nat
    BY DEF BackoffInv, PolicyInv, PolicyTypeOK, IdleTypeOK
  <1>1. ASSUME NEW t \in Threads, ResetExchange(t) \/ ResetStreak(t)
        PROVE  AwakeInv'
    BY <1>0, <1>1 DEF ResetExchange, ResetStreak, Moves, ResetFrom, ResetTo, Threads, MainInv,
       Resetting, idleVars
  <1>2. ASSUME NEW t \in Threads, HoldOffReads(t, "resetClock", "resetHold", Base)
        PROVE  AwakeInv'
    BY <1>0, <1>2 DEF HoldOffReads, Moves, Threads
  <1>3. ASSUME NEW t \in Threads, ResetHold(t)
        PROVE  AwakeInv'
    BY <1>0, <1>3 DEF ResetHold, HoldOffStores, HoldIsOf, Moves, ResetTo, Threads, MainInv
  <1>4. CASE BackOffLoad \/ BackOffStore \/ BackOffCount
    BY <1>0, <1>4 DEF BackOffLoad, BackOffStore, BackOffCount, Moves, Threads, idleVars
  <1>5. CASE HoldOffReads("suspend", "backoffClock", "backoffHold", delay)
    BY <1>0, <1>5 DEF HoldOffReads, Moves, Threads
  <1>6. CASE BackOffHold \/ SleepEnds
    <2>1. /\ SendResume
          /\ at'["suspend"] \in {"abort", "resume"}
      BY <1>0, <1>6 DEF BackOffHold, SleepEnds, HoldOffStores, Moves, Threads
    <2>2. QED
      BY <1>0, <2>1 DEF SendResume
  <1>7. CASE IdleCheck
    BY <1>0, <1>7 DEF IdleCheck
  <1>8. ASSUME NEW outdated \in BOOLEAN, IdleCycle(outdated)
        PROVE  AwakeInv'
    BY <1>0, <1>8 DEF IdleCycle, Moves, Threads
  <1>9. CASE ForcedCycle \/ CycleDeclined
    BY <1>0, <1>9 DEF ForcedCycle, CycleDeclined, Moves, Threads, idleVars
  <1>10. CASE AbortLooks
    BY <1>0, <1>10 DEF AbortLooks, Moves, Threads
  <1>11. CASE \/ HoldOffReads("suspend", "abortClock", "abortHold", Base)
              \/ HoldOffReads("suspend", "resumeClock", "resumeHold", Base)
    BY <1>0, <1>11 DEF HoldOffReads, Moves, Threads
  <1>12. CASE BackInOn
    BY <1>0, <1>12 DEF BackInOn, HoldOffStores, HoldIsOf, Moves, Threads
  <1>13. CASE Tick
    BY <1>0, <1>13 DEF Tick, Elapse, Threads
  <1>14. CASE UNCHANGED vars
    BY <1>14 DEF vars, idleVars
  <1>15. QED
    BY <1>1, <1>2, <1>3, <1>4, <1>5, <1>6, <1>7, <1>8, <1>9, <1>10, <1>11, <1>12, <1>13, <1>14
       DEF Next, SuspendRetryReset, SuspendRetryBackOff, SuspendCycle

\* For every base interval, cap and number of waiting events, and for every interleaving:
\* no idle cycle begins sooner than the base interval after the last resume broadcast, but
\* for the two kinds of outdated event that the code does act on (sleepd.conf:33,
\* suspend.c:406-413, 684-686).
THEOREM AwakeSafe == Spec => MinimumTimeAwake
  <1>1. Init => AwakeInv
    BY BackoffAssumption DEF Init, AwakeInv, Threads
  <1>2. BackoffInv /\ LoneInv /\ AwakeInv /\ [Next]_vars => AwakeInv'
    BY AwakeStep DEF LoneInv
  <1>3. AwakeInv /\ [Next]_vars => [IdleCycle(FALSE) => awake = Base]_vars
    BY DEF AwakeInv, IdleCycle
  <1>4. QED
    BY <1>1, <1>2, <1>3, BackoffInvariant, LoneInvariant, PTL DEF Spec, MinimumTimeAwake
===============================================================================
