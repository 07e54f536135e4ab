----------------------------- MODULE RetryBackoff -----------------------------
(***************************************************************************)
(* The retry policy of pwrevents/suspend.c: how long an idle device waits  *)
(* before it tries to suspend again, and how that wait grows while the     *)
(* kernel keeps refusing.                                                  *)
(*                                                                         *)
(* sRetryBackoffMs, sNoSuspendBeforeUs and sRefusalStreak are read and     *)
(* written one at a time by both threads: the suspend thread backs off     *)
(* after a refusal, and either thread resets (the main thread on an        *)
(* activity, display, charger or alarm event, the suspend thread after a   *)
(* resume).  An action is one atomic access, with the reading of the clock *)
(* a step of its own.                                                      *)
(*                                                                         *)
(* Points in time are kept as the time left until them, which a tick       *)
(* counts down: hold for sNoSuspendBeforeUs, left[t] for the deadline      *)
(* thread t has computed and not yet stored.                               *)
(***************************************************************************)
EXTENDS Integers

CONSTANTS
    Base,     \* after_resume_idle_ms, in ticks
    Cap,      \* max_retry_backoff_ms, in ticks
    MaxIdle   \* bound: idle events waiting for the suspend loop

ASSUME BackoffAssumption == Base \in Nat \ {0} /\ Cap \in Nat /\ MaxIdle \in Nat

VARIABLES
    backoff,  \* sRetryBackoffMs
    refusing, \* sRefusalStreak # 0
    hold,     \* time left until sNoSuspendBeforeUs
    delay,    \* delay_ms of SuspendRetryBackOff
    at,       \* at[t]: the next step of thread t
    left,     \* left[t]: time left until the deadline t is about to store
    posted,   \* idle events waiting for the suspend loop
    stale,    \* those among them that are outdated: posted before the last resume
              \* broadcast, or on the word of a hold that is in old
    last,     \* history: the delay of the last refusal, 0 after a reset
    fresh,    \* history: a reset by the main thread began after the last refusal
    awake,    \* history: time since the last resume broadcast, up to Base
    old,      \* history: which of the deadline on record ("hold") and the one the main
              \* thread is about to store ("main") were computed before that broadcast
    raced     \* history: the threads have met inside the policy

idleVars == <<posted, stale, awake, old>>
vars == <<backoff, refusing, hold, delay, at, left, last, fresh, idleVars, raced>>

Threads == {"main", "suspend"}

Steps ==
    {"idle", "sleep", "store", "count", "backoffClock", "backoffHold",
     "abort", "abortClock", "abortHold", "resume", "resumeClock", "resumeHold",
     "endStreak", "endStreakAndHold", "resetClock", "resetHold"}

PolicyTypeOK ==
    /\ backoff \in Nat /\ hold \in Nat /\ delay \in Nat /\ last \in Nat
    /\ refusing \in BOOLEAN /\ fresh \in BOOLEAN /\ raced \in BOOLEAN
    /\ at \in [Threads -> Steps]
    /\ left \in [Threads -> Nat]

IdleTypeOK ==
    /\ awake \in 0 .. Base
    /\ posted \in 0 .. MaxIdle /\ stale \in 0 .. posted
    /\ old \subseteq {"main", "hold"}

\* The types of the three atomics, of what each thread has in hand of them and of the
\* idle events.
TypeOK == PolicyTypeOK /\ IdleTypeOK

Init ==
    /\ backoff = Base
    /\ refusing = FALSE
    /\ hold = 0 /\ delay = 0 /\ last = 0
    /\ at = [t \in Threads |-> "idle"]
    /\ left = [t \in Threads |-> 0]
    /\ fresh = FALSE
    /\ awake = Base
    /\ posted = 0 /\ stale = 0 /\ old = {}
    /\ raced = FALSE

\* The other thread is not inside the policy: it is idle or, the suspend thread,
\* in On or in the kernel.
Alone(t) ==
    IF t = "main" THEN at["suspend"] \in {"idle", "sleep"} ELSE at["main"] = "idle"

\* Thread t is at one step and goes on to another.
Moves(t, from, to) ==
    /\ at[t] = from
    /\ at' = [at EXCEPT ![t] = to]
    /\ raced' = (raced \/ ~Alone(t))

-------------------------------------------------------------------------------
(* SuspendHoldOff(ms): read the clock, then store the deadline. *)

HoldOffReads(t, from, to, ms) ==
    /\ Moves(t, from, to)
    /\ left' = [left EXCEPT ![t] = ms]
    /\ old' = old \ {t}
    /\ UNCHANGED <<backoff, refusing, hold, delay, last, fresh, posted, stale, awake>>

\* Mutant: the hold is prolonged instead of replaced.
HoldOffAdds(t, from, to) ==
    /\ Moves(t, from, to)
    /\ hold' = IF hold > 3 * Base + Cap THEN hold ELSE hold + left[t]
    /\ UNCHANGED <<backoff, refusing, delay, left, last, fresh>>

HoldOffStores(t, from, to) ==
    /\ Moves(t, from, to)
    /\ hold' = left[t]
    /\ UNCHANGED <<backoff, refusing, delay, left, last, fresh>>

\* The deadline on record is now the one thread t had in hand.
HoldIsOf(t) ==
    /\ old' = IF t \in old THEN old \cup {"hold"} ELSE old \ {"hold"}
    /\ UNCHANGED <<posted, stale, awake>>

\* SendResume: whatever has been decided so far was decided before this resume.
SendResume ==
    /\ awake' = 0
    /\ stale' = posted
    /\ old' = {"main", "hold"}
    /\ UNCHANGED posted

-------------------------------------------------------------------------------
(* SuspendRetryReset, by the main thread and by _stateResume. *)

\* Where each thread starts a reset and where it goes afterwards.
ResetFrom(t) == IF t = "main" THEN "idle" ELSE "resume"
ResetTo(t) == IF t = "main" THEN "idle" ELSE "resumeClock"

ResetExchange(t) ==
    /\ Moves(t, ResetFrom(t), IF backoff # Base THEN "endStreakAndHold" ELSE "endStreak")
    /\ backoff' = Base
    /\ last' = 0
    /\ fresh' = (fresh \/ t = "main")
    /\ UNCHANGED <<refusing, hold, delay, left, idleVars>>

\* The streak is over; without a grown back-off that is all.
ResetStreak(t) ==
    /\ \/ Moves(t, "endStreakAndHold", "resetClock")
       \/ Moves(t, "endStreak", ResetTo(t))
    /\ refusing' = FALSE
    /\ UNCHANGED <<backoff, hold, delay, left, last, fresh, idleVars>>

\* Mutant: the reset leaves the current hold alone.
ResetKeepsHold(t) ==
    /\ Moves(t, "resetHold", ResetTo(t))
    /\ UNCHANGED <<backoff, refusing, hold, delay, left, last, fresh, idleVars>>

\* A wake-worthy event also ends the current hold.
ResetHold(t) ==
    /\ HoldOffStores(t, "resetHold", ResetTo(t))
    /\ HoldIsOf(t)

SuspendRetryReset(t) ==
    \/ ResetExchange(t) \/ ResetStreak(t)
    \/ HoldOffReads(t, "resetClock", "resetHold", Base)
    \/ ResetHold(t)

-------------------------------------------------------------------------------
(* SuspendRetryBackOff, by the suspend thread after a refusal. *)

\* The cap as the function sees it, whatever the configuration says.
Limit == IF Cap < Base THEN Base ELSE Cap

\* The delay on record, brought into Base .. Limit.
Clamped(ms) == IF ms < Base THEN Base ELSE IF ms > Limit THEN Limit ELSE ms

\* Mutant: a delay that cannot double any more stays what it is.
DoubledShort(ms) == IF ms > Limit \div 2 THEN ms ELSE ms * 2

Doubled(ms) == IF ms > Limit \div 2 THEN Limit ELSE ms * 2

\* MachineSleep returns false.
BackOffLoad ==
    /\ Moves("suspend", "sleep", "store")
    /\ delay' = Clamped(backoff)
    /\ last' = Clamped(backoff)
    /\ fresh' = FALSE
    /\ UNCHANGED <<backoff, refusing, hold, left, idleVars>>

BackOffStore ==
    /\ Moves("suspend", "store", "count")
    /\ backoff' = Doubled(delay)
    /\ UNCHANGED <<refusing, hold, delay, left, last, fresh, idleVars>>

BackOffCount ==
    /\ Moves("suspend", "count", "backoffClock")
    /\ refusing' = TRUE
    /\ UNCHANGED <<backoff, hold, delay, left, last, fresh, idleVars>>

BackOffHold ==
    /\ HoldOffStores("suspend", "backoffHold", "abort")
    /\ SendResume

SuspendRetryBackOff ==
    \/ BackOffLoad \/ BackOffStore \/ BackOffCount
    \/ HoldOffReads("suspend", "backoffClock", "backoffHold", delay)
    \/ BackOffHold

-------------------------------------------------------------------------------
(* The rest of a suspend cycle, as far as the policy sees it. *)

\* IdleCheck looks at the hold and posts an event; nobody looks at the hold again.
IdleCheck ==
    /\ at["suspend"] = "idle" /\ hold = 0
    /\ posted < MaxIdle
    /\ posted' = posted + 1
    /\ stale' = IF "hold" \in old THEN stale + 1 ELSE stale
    /\ UNCHANGED <<backoff, refusing, hold, delay, at, left, last, fresh, awake, old, raced>>

\* StateOn acts on an idle event, one that is outdated or one that is not.
IdleCycle(outdated) ==
    /\ Moves("suspend", "idle", "sleep")
    /\ IF outdated THEN stale > 0 /\ stale' = stale - 1
                   ELSE posted > stale /\ stale' = stale
    /\ posted' = posted - 1
    /\ UNCHANGED <<backoff, refusing, hold, delay, left, last, fresh, awake, old>>

\* StateOn acts on an event that forceSuspend posted, before or behind the idle ones.
ForcedCycle ==
    /\ Moves("suspend", "idle", "sleep")
    /\ UNCHANGED <<backoff, refusing, hold, delay, left, last, fresh, idleVars>>

\* The charger in StateOnIdle, or a client in the first round, ends the cycle before
\* anybody was told to prepare.
CycleDeclined ==
    /\ Moves("suspend", "sleep", "idle")
    /\ UNCHANGED <<backoff, refusing, hold, delay, left, last, fresh, idleVars>>

\* A veto before the kernel call aborts without a refusal; a suspend that worked
\* ends in _stateResume.
SleepEnds ==
    /\ Moves("suspend", "sleep", "abort") \/ Moves("suspend", "sleep", "resume")
    /\ SendResume
    /\ UNCHANGED <<backoff, refusing, hold, delay, left, last, fresh>>

\* Mutant: an abort relies on somebody else's hold.
AbortTrustsHold ==
    /\ Moves("suspend", "abort", "idle")
    /\ old' = old \ {"hold"}
    /\ UNCHANGED <<backoff, refusing, hold, delay, left, last, fresh, posted, stale, awake>>

\* StateAbortSuspend: a hold longer than the base one stands, and counts as chosen
\* after the resume.
AbortLooks ==
    /\ IF hold > Base
       THEN Moves("suspend", "abort", "idle")
       ELSE Moves("suspend", "abort", "abortClock")
    /\ old' = old \ {"hold"}
    /\ UNCHANGED <<backoff, refusing, hold, delay, left, last, fresh, posted, stale, awake>>

\* Back in On, from an abort or a resume, with the base hold.
BackInOn ==
    /\ \/ HoldOffStores("suspend", "abortHold", "idle")
       \/ HoldOffStores("suspend", "resumeHold", "idle")
    /\ HoldIsOf("suspend")

SuspendCycle ==
    \/ IdleCheck \/ ForcedCycle \/ CycleDeclined \/ SleepEnds \/ AbortLooks
    \/ \E outdated \in BOOLEAN : IdleCycle(outdated)
    \/ HoldOffReads("suspend", "abortClock", "abortHold", Base)
    \/ HoldOffReads("suspend", "resumeClock", "resumeHold", Base)
    \/ BackInOn

\* A tick of the clock; a deadline that has been reached stays reached.
Elapse(n) == IF n > 0 THEN n - 1 ELSE 0

Tick ==
    /\ hold' = Elapse(hold)
    /\ left' = [t \in Threads |-> Elapse(left[t])]
    /\ awake' = IF awake < Base THEN awake + 1 ELSE awake
    /\ UNCHANGED <<backoff, refusing, delay, at, last, fresh, posted, stale, old, raced>>

Next ==
    \/ \E t \in Threads : SuspendRetryReset(t)
    \/ SuspendRetryBackOff \/ SuspendCycle \/ Tick

Spec == Init /\ [][Next]_vars

-------------------------------------------------------------------------------
(* Properties. *)

\* However refusals and resets interleave, no hold is longer than the cap (or the
\* base interval, if the configuration has the cap below it; suspend.c:579-609):
\* a device the kernel keeps refusing still tries again.
HoldBounded == hold <= Limit

\* suspend.c:238-239: "doubling per refusal up to max_retry_backoff_ms": without a
\* reset in between, each refusal imposes twice the delay of the one before, or
\* the cap.
RefusalsDouble ==
    [][at["suspend"] = "sleep" /\ at'["suspend"] = "store" /\ last # 0 =>
         delay' = IF 2 * last < Limit THEN 2 * last ELSE Limit]_vars

\* sleepd.conf:33: the "minimum time awake": an idle cycle begins no sooner than
\* after_resume_idle_ms after the last resume broadcast, however refusals, resets and
\* forced cycles interleave.  IdleCheck looks at the hold (suspend.c:406-413) and StateOn
\* does not, so two kinds of idle event are outdated, and excepted: one posted before
\* that resume, behind another cycle's event, and one posted when the hold on record had
\* been computed before that resume and stored after it by the main thread.
MinimumTimeAwake == [][IdleCycle(FALSE) => awake = Base]_vars

\* suspend.h:66-68: a wake-worthy event drops the back-off "to its base value" and
\* lets "the next attempt come after after_resume_idle_ms", until the kernel
\* refuses again: through any sequence of refusals, resumes and resets, as long as
\* the threads have not met inside the policy (a reset between the load and the
\* store of SuspendRetryBackOff is overwritten).
LoneResetTakesEffect ==
    ~raced /\ fresh /\ at["main"] = "idle" => backoff = Base /\ hold <= Base
===============================================================================
