------------------------------ MODULE Activities ------------------------------
(***************************************************************************)
(* Power activities (pwrevents/activity.c): the roster of activities that  *)
(* keep the device awake, the kernel wakelock each one holds where the     *)
(* kernel has wakelocks, and the freeze that stands in for them where it   *)
(* has not.                                                                *)
(*                                                                         *)
(* The roster is guarded by activity_mutex, the wakelocks are not: an      *)
(* operation that changes both is two steps, and the steps are separate    *)
(* operators here.                                                         *)
(*                                                                         *)
(* The clock is abstracted to what the code reads from it.  An activity is *)
(* "live" until its end time has passed and "expired" from then on (Expire *)
(* is the passing of time).  A comparison with a clock reading taken       *)
(* earlier sees only the expiries that had happened by then: past is the   *)
(* set of entries that had expired at the reading the suspend thread holds.*)
(***************************************************************************)

CONSTANTS Ids,        \* activity ids
          Wakelocks   \* MachineSupportsWakelocks(): /sys/power/wake_lock exists

ASSUME WakelocksAssumption == Wakelocks \in BOOLEAN

VARIABLES roster,     \* activity_roster: the state of each id
          past,       \* entries that had expired at the suspend thread's reading
          frozen,     \* gFrozen
          wakelock    \* kernel wakelocks "activity-<id>" that are held

activityVars == <<roster, past, frozen, wakelock>>

ActivitiesTypeOK ==
    /\ roster \in [Ids -> {"none", "live", "expired"}]
    /\ past \in SUBSET Ids
    /\ frozen \in BOOLEAN
    /\ wakelock \in SUBSET Ids

_activity_init ==
    /\ roster = [i \in Ids |-> "none"]
    /\ past = {}
    /\ frozen = FALSE
    /\ wakelock = {}

-------------------------------------------------------------------------------
(* Roster operations, each under activity_mutex. *)

\* _activity_remove_id: the entry, expired or not, leaves the roster.
_activity_remove_id(i) ==
    /\ roster' = [roster EXCEPT ![i] = "none"]
    /\ past' = past \ {i}

\* _activity_insert while activities are not frozen.
_activity_insert(i) ==
    /\ roster' = [roster EXCEPT ![i] = "live"]
    /\ past' = past \ {i}

\* _activity_obtain_min(now) == NULL for the reading on record: nothing in the
\* roster outlives that reading.
NoneActive == \A i \in Ids : roster[i] = "none" \/ i \in past

PwrEventActivityCheckActivitiesActive == NoneActive

\* PwrEventActivityCanSleep with a reading taken now.
PwrEventActivityCanSleep == \A i \in Ids : roster[i] # "live"

Expired == {i \in Ids : roster[i] = "expired"}

\* PwrEventActivityRemoveExpired with a reading taken now; the wakelocks are
\* released inside the mutex.
PwrEventActivityRemoveExpired ==
    /\ roster' = [i \in Ids |-> IF i \in Expired THEN "none" ELSE roster[i]]
    /\ past' = past \ Expired
    /\ wakelock' = wakelock \ Expired

\* Reading the clock: ClockGetTime into sTimeOnSuspended.
ReadClock == past' = Expired

\* Mutant: nothing active, but the flag is never set.
FreezeChecksOnly == UNCHANGED frozen

\* The outcome of PwrEventFreezeActivities: frozen unless something is active.
PwrEventFreezeActivities ==
    frozen' = (NoneActive \/ frozen)

PwrEventThawActivities == frozen' = FALSE

-------------------------------------------------------------------------------
(* Wakelock writes, outside activity_mutex; nothing without wakelocks. *)

\* Mutant: the start of an activity takes no wakelock.
WakelockNotTaken(i) == UNCHANGED wakelock

_activity_wakelock_lock(i) ==
    wakelock' = IF Wakelocks THEN wakelock \cup {i} ELSE wakelock

_activity_wakelock_unlock(i) ==
    wakelock' = IF Wakelocks THEN wakelock \ {i} ELSE wakelock

\* Time passes the end of activity i.
Expire(i) ==
    /\ roster[i] = "live"
    /\ roster' = [roster EXCEPT ![i] = "expired"]
    /\ UNCHANGED <<past, frozen, wakelock>>
===============================================================================
