------------------------------- MODULE Shutdown -------------------------------
(***************************************************************************)
(* The shutdown sequence of pwrevents/shutdown.c: a state machine that     *)
(* tells the registered applications, then the registered services, that   *)
(* the device is going down, waits for each group's acks or 15 seconds,    *)
(* and answers whoever asked for it; and the forced actions machineOff and *)
(* machineReboot, which run the first half of it.                          *)
(*                                                                         *)
(* Everything here runs on the main thread, one luna message or timeout at *)
(* a time, and shutdown_state_dispatch runs the state functions until one  *)
(* of them waits.  Each state function is an operator from the machine's   *)
(* record to the one it leaves behind, going on to the next state itself;  *)
(* an action is one message with all the states it passes.                 *)
(*                                                                         *)
(* client_vote is called for acks alone, so that num_nack stays 0 and the  *)
(* branches for a NACK are never taken: they are left out.                 *)
(***************************************************************************)
EXTENDS Integers, FiniteSets

CONSTANTS
    Names,        \* client names; a name may register in either table
    Callers,      \* processes that call initiate
    NoCaller,     \* shutdown_message == NULL
    MaxAcks,      \* bound: num_ack
    MaxStale      \* bound: armed timeouts whose id has been forgotten

ASSUME ShutdownAssumption ==
    /\ IsFiniteSet(Names)
    /\ NoCaller \notin Callers
    /\ MaxAcks \in Nat /\ MaxStale \in Nat

VARIABLES
    run,          \* the state machine's globals, see Runs
    clients,      \* clients[t]: the names registered in table t
    inhibited,    \* gShutdownInProgress
    machine,      \* what nyx has made of the device
    tested,       \* history: the test code has reset the machine
    rude          \* history: a client has acked twice or out of its round, or has
                  \* come or gone while a round was under way

vars == <<run, clients, inhibited, machine, tested, rude>>

Tables == {"applications", "services"}
ForcedActions == {"shutdown", "reboot"}

Runs ==
    [state   : {"None", "AppsProcess", "ServicesProcess", "Action"}, \* gCurrentState
     num_ack : 0 .. MaxAcks,
     acked   : [Tables -> SUBSET Names],      \* ack_shutdown is kShutdownReplyAck
     timer   : BOOLEAN,                       \* shutdown_apps_timeout_id is armed
     stale   : 0 .. MaxStale,                 \* armed timeouts no id names any more
     forced  : ForcedActions \cup {"none"},   \* sForcedAction
     pending : Callers \cup {NoCaller}]       \* shutdown_message

\* The types of the globals and tables of shutdown.c; no state but those it names.
TypeOK ==
    /\ run \in Runs
    /\ clients \in [Tables -> SUBSET Names]
    /\ inhibited \in BOOLEAN
    /\ machine \in ForcedActions \cup {"on"}
    /\ tested \in BOOLEAN
    /\ rude \in BOOLEAN

shutdown_init ==
    /\ run = [state |-> "None", num_ack |-> 0, acked |-> [t \in Tables |-> {}],
              timer |-> FALSE, stale |-> 0, forced |-> "none", pending |-> NoCaller]
    /\ clients = [t \in Tables |-> {}]
    /\ inhibited = FALSE
    /\ machine = "on"
    /\ tested = FALSE
    /\ rude = FALSE

-------------------------------------------------------------------------------
(* The state functions, last state first.                                     *)

Event(id) == [id |-> id]
AckBy(t, n) == [id |-> "Ack", table |-> t, name |-> n]

\* client_list_vote_init.
client_list_vote_init(s) == [s EXCEPT !.acked = [t \in Tables |-> {}], !.num_ack = 0]

\* Mutant: the counts of the last round are carried over.
KeepAckCount(s) == s

client_list_reset_ack_count(s) == [s EXCEPT !.num_ack = 0]

\* client_vote, for an event that is an ack: recorded per entry, counted in one
\* place for both tables, and counted every time.
client_vote(s, e) ==
    IF e.id = "Ack"
    THEN [s EXCEPT !.acked[e.table] = @ \cup {e.name}, !.num_ack = @ + 1]
    ELSE s

\* shutdown_apps_ready, shutdown_services_ready.
Ready(s, t) == s.num_ack >= Cardinality(clients[t])

\* g_timeout_add_seconds, whose id replaces the one on record.
ArmTimeout(s) ==
    [s EXCEPT !.timer = TRUE, !.stale = IF s.timer THEN @ + 1 ELSE @]

\* Answers the caller on record and stays.
state_shutdown_action(s) == [s EXCEPT !.state = "Action", !.pending = NoCaller]

\* The timeout on record is removed however the round ends.
state_shutdown_services_process(s, e) ==
    LET v == client_vote(s, e)
    IN  IF e.id = "Timeout" \/ Ready(v, "services")
        THEN state_shutdown_action([v EXCEPT !.timer = FALSE])
        ELSE v

\* Mutant: nobody waits for a service that does not answer.
ServicesTimeoutNotArmed(s) ==
    state_shutdown_services_process(
        [client_list_reset_ack_count(s) EXCEPT !.state = "ServicesProcess"], Event("None"))

state_shutdown_services(s) ==
    state_shutdown_services_process(
        [ArmTimeout(client_list_reset_ack_count(s)) EXCEPT !.state = "ServicesProcess"],
        Event("None"))

\* Mutant: the state after the last one.
ForcedRunsOff(s) == [s EXCEPT !.state = "Last", !.forced = "none"]

\* forced_action_run: ready for the next one, should the nyx call return.
forced_action_run(s) == [s EXCEPT !.state = "None", !.forced = "none"]

\* Mutant: the acks are in, and the timeout is left to fire.
AppsTimeoutKept(s, e) ==
    LET v == client_vote(s, e)
    IN  IF e.id = "Timeout" \/ Ready(v, "applications")
        THEN IF s.forced # "none" THEN forced_action_run(v) ELSE state_shutdown_services(v)
        ELSE v

\* The id is dropped at the end of the round, its timeout removed only when it
\* was the acks that ended it.
state_shutdown_apps_process(s, e) ==
    LET v == client_vote(s, e)
        t == [v EXCEPT !.timer = FALSE,
                       !.stale = IF e.id = "Timeout" /\ s.timer THEN @ + 1 ELSE @]
    IN  IF e.id = "Timeout" \/ Ready(v, "applications")
        THEN IF s.forced # "none" THEN forced_action_run(t) ELSE state_shutdown_services(t)
        ELSE v

\* Mutant: nobody waits for an application that does not answer.
AppsTimeoutNotArmed(s) ==
    state_shutdown_apps_process(
        [client_list_reset_ack_count(s) EXCEPT !.state = "AppsProcess"], Event("None"))

state_shutdown_apps(s) ==
    state_shutdown_apps_process(
        [ArmTimeout(client_list_reset_ack_count(s)) EXCEPT !.state = "AppsProcess"],
        Event("None"))

state_idle(s, e) ==
    IF e.id = "Init" THEN state_shutdown_apps(client_list_vote_init(s)) ELSE s

shutdown_state_dispatch(s, e) ==
    CASE s.state = "None"            -> state_idle(s, e)
      [] s.state = "AppsProcess"     -> state_shutdown_apps_process(s, e)
      [] s.state = "ServicesProcess" -> state_shutdown_services_process(s, e)
      [] s.state = "Action"          -> state_shutdown_action(s)

\* A dispatch from s on event e, with the nyx call of forced_action_run, which may
\* fail and return.
Dispatch(s, e) ==
    LET t == shutdown_state_dispatch(s, e)
    IN  /\ t.num_ack <= MaxAcks /\ t.stale <= MaxStale
        /\ run' = t
        /\ machine' \in IF t.forced # s.forced THEN {"on", s.forced} ELSE {machine}

-------------------------------------------------------------------------------
(* Luna methods and the timeout. *)

Running == machine = "on"

\* A table had better stand still while a round is under way.
TableMayChange == run.state \in {"None", "Action"}

\* shutdownApplicationsRegister, shutdownServicesRegister.
Register(t, n) ==
    /\ Running /\ n \notin clients[t]
    /\ clients' = [clients EXCEPT ![t] = @ \cup {n}]
    /\ run' = [run EXCEPT !.acked[t] = @ \ {n}]
    /\ rude' = (rude \/ ~TableMayChange)
    /\ UNCHANGED <<inhibited, machine, tested>>

\* shutdown_client_cancel_registration: the subscription of one entry ends.  No
\* dispatch: the round goes on without it, and its ack stays counted.
shutdown_client_cancel_registration(t, n) ==
    /\ Running /\ n \in clients[t]
    /\ clients' = [clients EXCEPT ![t] = @ \ {n}]
    /\ run' = [run EXCEPT !.acked[t] = @ \ {n}]
    /\ rude' = (rude \/ ~TableMayChange)
    /\ UNCHANGED <<inhibited, machine, tested>>

\* shutdown_client_cancel_registration_by_name: the first loop finds the
\* application and removes its id from the services, where it is not.
shutdown_client_cancel_registration_by_name(n) ==
    /\ Running
    /\ clients' = [clients EXCEPT !["services"] = @ \ {n}]
    /\ run' = [run EXCEPT !.acked["services"] = @ \ {n}]
    /\ rude' = (rude \/ ~TableMayChange)
    /\ UNCHANGED <<inhibited, machine, tested>>

\* A client had better ack in its own round, and once.
MayAck(t, n) ==
    /\ run.state = IF t = "applications" THEN "AppsProcess" ELSE "ServicesProcess"
    /\ n \notin run.acked[t]

\* shutdownApplicationsAck, shutdownServicesAck: the client is looked up in its
\* table, the dispatch does not know which table that was.
Ack(t, n) ==
    /\ Running /\ n \in clients[t]
    /\ Dispatch(run, AckBy(t, n))
    /\ rude' = (rude \/ ~MayAck(t, n))
    /\ UNCHANGED <<clients, inhibited, tested>>

\* A second initiate takes the place of the first caller.
initiateShutdown(c) ==
    /\ Running
    /\ inhibited' = TRUE
    /\ Dispatch([run EXCEPT !.pending = c], Event("Init"))
    /\ UNCHANGED <<clients, tested, rude>>

\* shutdown_timeout, for the timeout on record or for a forgotten one.
shutdown_timeout ==
    /\ Running /\ run.timer
    /\ Dispatch([run EXCEPT !.timer = FALSE], Event("Timeout"))
    /\ UNCHANGED <<clients, inhibited, tested, rude>>

StaleTimeout ==
    /\ Running /\ run.stale > 0
    /\ Dispatch([run EXCEPT !.stale = @ - 1], Event("Timeout"))
    /\ UNCHANGED <<clients, inhibited, tested, rude>>

\* Mutant: suspends are inhibited only when the nyx call is made.
ForceInhibitsLate(action) ==
    /\ Running
    /\ IF run.state # "None" \/ run.forced # "none" \/ clients["applications"] = {}
       THEN machine' \in {"on", action} /\ inhibited' = TRUE /\ UNCHANGED run
       ELSE Dispatch([run EXCEPT !.forced = action], Event("Init")) /\ UNCHANGED inhibited
    /\ UNCHANGED <<clients, tested, rude>>

\* machineOff, machineReboot: at once when nobody needs telling or a sequence is
\* in flight, otherwise after the applications.
force_machine(action) ==
    /\ Running
    /\ inhibited' = TRUE
    /\ IF run.state # "None" \/ run.forced # "none" \/ clients["applications"] = {}
       THEN machine' \in {"on", action} /\ UNCHANGED run
       ELSE Dispatch([run EXCEPT !.forced = action], Event("Init"))
    /\ UNCHANGED <<clients, tested, rude>>

TESTresetShutdownState ==
    /\ Running
    /\ run' = [run EXCEPT !.state = "None"]
    /\ tested' = TRUE
    /\ UNCHANGED <<clients, inhibited, machine, rude>>

Next ==
    \/ \E t \in Tables, n \in Names :
          \/ Register(t, n) \/ Ack(t, n)
          \/ shutdown_client_cancel_registration(t, n)
    \/ \E c \in Callers : initiateShutdown(c)
    \/ shutdown_timeout \/ StaleTimeout
    \/ \E n \in Names : shutdown_client_cancel_registration_by_name(n)
    \/ \E a \in ForcedActions : force_machine(a)
    \/ TESTresetShutdownState

Spec == shutdown_init /\ [][Next]_vars

\* The main loop dispatches the timeouts it has armed.
FairSpec == Spec /\ WF_vars(shutdown_timeout) /\ WF_vars(StaleTimeout)

-------------------------------------------------------------------------------
(* Properties. *)

InRound == run.state \in {"AppsProcess", "ServicesProcess"}

\* The step is past the applications' round, past the services' round.
PassesApps ==
    \/ run.state \in {"None", "AppsProcess"} /\ run'.state \in {"ServicesProcess", "Action"}
    \/ run.forced # "none" /\ run'.forced = "none"

PassesServices == run.state # "Action" /\ run'.state = "Action"

TimedOut(at) == run.state = at /\ (shutdown_timeout \/ StaleTimeout)

\* shutdown.c:207-215: the next stage comes "if all the registered applications
\* respond back by "Ack" or after a timeout of 15 sec", and the same for services.
\* Each round has its own acks: none is carried over from the one before.  One counter
\* serves both tables and counts every ack (shutdown.c:382), so this holds only as long
\* as no client acks twice or out of its round, or leaves in it.
StageNeedsAcks ==
    [][~rude' =>
       /\ PassesApps /\ ~TimedOut("AppsProcess") =>
             clients["applications"] \subseteq run'.acked["applications"]
       /\ PassesServices /\ ~TimedOut("ServicesProcess") =>
             clients["services"] \subseteq run'.acked["services"]]_vars

\* The armed timeouts are those of the round under way (shutdown.c:656, 769, 812,
\* 855): no timeout of an earlier round is left to cut a later one short, and no
\* round waits without one.  The test code's reset leaves one behind.
TimerMatchesRound ==
    ~tested => run.stale = 0 /\ (run.timer <=> InRound)

\* shutdown.c:943, 1248: from the first message of a sequence until the device is
\* off, no suspend can start.
HeldAwakeThroughout ==
    run.state # "None" \/ run.forced # "none" \/ machine # "on" => inhibited

\* Every sequence comes to its end, however the clients behave, and one that was
\* initiated answers the caller on record (shutdown.c:713-724, 875-889).
SequenceEnds ==
    /\ InRound ~> ~InRound \/ machine # "on"
    /\ \A c \in Callers :
          InRound /\ run.forced = "none" /\ run.pending = c
              ~> run.pending # c \/ machine # "on" \/ tested

\* A forced action that was put off for the applications is carried out
\* (shutdown.c:1236-1238): bounded by the timeout.
ForcedActionRuns ==
    run.forced # "none" ~> run.forced = "none" \/ machine # "on" \/ tested
===============================================================================
