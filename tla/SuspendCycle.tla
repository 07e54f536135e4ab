----------------------------- MODULE SuspendCycle -----------------------------
(***************************************************************************)
(* What sleepd promises the processes that follow its suspend signals, with *)
(* no threads, counters, timers or vetoes: the protocol a client such as   *)
(* the display manager is written against.                                 *)
(*                                                                         *)
(* The device is "awake" until the clients are asked (suspendRequest).     *)
(* Asking ends back in "awake", without further notice, or in              *)
(* prepareSuspend.  From then on there is one way out: an attempt to sleep,*)
(* or none, then "returning", and a resume before the device counts as     *)
(* awake again.  The kernel is down only in "asleep", and no client has    *)
(* been told resume between the prepareSuspend and that.                   *)
(***************************************************************************)

VARIABLES phase,    \* where the cycle is
          owed      \* prepareSuspend has been broadcast, and no resume since

cycleVars == <<phase, owed>>

Phases == {"awake", "asking", "preparing", "asleep", "returning"}

CycleInit == phase = "awake" /\ owed = FALSE

Ask == phase = "awake" /\ phase' = "asking" /\ UNCHANGED owed

Refused == phase = "asking" /\ phase' = "awake" /\ UNCHANGED owed

Prepare == phase = "asking" /\ phase' = "preparing" /\ owed' = TRUE

\* Only over clients that are still prepared for it.
GoDown == phase = "preparing" /\ owed /\ phase' = "asleep" /\ UNCHANGED owed

GiveUp == phase = "preparing" /\ phase' = "returning" /\ UNCHANGED owed

WakeUp == phase = "asleep" /\ phase' = "returning" /\ UNCHANGED owed

Resume == phase = "returning" /\ phase' = "awake" /\ owed' = FALSE

CycleNext ==
    \/ Ask \/ Refused \/ Prepare \/ GoDown \/ GiveUp \/ WakeUp \/ Resume

CycleSafe == CycleInit /\ [][CycleNext]_cycleVars

\* A cycle that has begun ends.
CycleSpec ==
    CycleSafe /\ WF_cycleVars(Refused \/ Prepare \/ GoDown \/ GiveUp \/ WakeUp \/ Resume)
===============================================================================
