---------------------------- MODULE ShutdownProofs ----------------------------
(***************************************************************************)
(* Proofs about module Shutdown, for every set of client names and callers *)
(* and every bound on the counters.                                        *)
(***************************************************************************)
EXTENDS Shutdown, FiniteSetTheorems, TLAPS

\* The operators a dispatch is made of.
LEMMA NamesFinite == \A S \in SUBSET Names : IsFiniteSet(S) /\ Cardinality(S) \in Nat
  BY ShutdownAssumption, FS_Subset, FS_CardinalityType

\* A run before the guard of Dispatch has looked at its counters.
LooseRuns ==
    [state   : {"None", "AppsProcess", "ServicesProcess", "Action"},
     num_ack : Nat,
     acked   : [Tables -> SUBSET Names],
     timer   : BOOLEAN,
     stale   : Nat,
     forced  : ForcedActions \cup {"none"},
     pending : Callers \cup {NoCaller}]

Events == {Event("None"), Event("Init"), Event("Timeout")}
            \cup {AckBy(t, n) : t \in Tables, n \in Names}

\* What client_vote leaves of a run.
LEMMA VoteResult ==
    ASSUME NEW s \in LooseRuns, NEW e \in Events
    PROVE  /\ client_vote(s, e) \in LooseRuns
           /\ client_vote(s, e).state = s.state /\ client_vote(s, e).timer = s.timer
           /\ client_vote(s, e).stale = s.stale /\ client_vote(s, e).forced = s.forced
           /\ client_vote(s, e).pending = s.pending
           /\ e.id # "Ack" => client_vote(s, e) = s
           /\ e.id = "Ack" =>
                /\ client_vote(s, e).num_ack = s.num_ack + 1
                /\ client_vote(s, e).acked =
                       [s.acked EXCEPT ![e.table] = @ \cup {e.name}]
  <1>1. CASE e.id # "Ack"
    BY <1>1 DEF client_vote
  <1>2. CASE e.id = "Ack"
    <2>1. e.table \in Tables /\ e.name \in Names
      BY <1>2 DEF Events, Event, AckBy
    <2>2. client_vote(s, e) = [s EXCEPT !.acked[e.table] = @ \cup {e.name}, !.num_ack = @ + 1]
      BY <1>2 DEF client_vote
    <2> DEFINE A == [s.acked EXCEPT ![e.table] = @ \cup {e.name}]
    <2> DEFINE n == s.num_ack + 1
    <2>3. A \in [Tables -> SUBSET Names] /\ n \in Nat
      BY <2>1 DEF LooseRuns
    <2>4. client_vote(s, e) = [s EXCEPT !.acked = A, !.num_ack = n]
      BY <2>2 DEF LooseRuns
    <2> HIDE DEF A, n
    <2>5. client_vote(s, e) \in LooseRuns
      BY <2>3, <2>4 DEF LooseRuns
    <2>6. /\ client_vote(s, e).acked = A /\ client_vote(s, e).num_ack = n
          /\ client_vote(s, e).state = s.state /\ client_vote(s, e).timer = s.timer
          /\ client_vote(s, e).stale = s.stale /\ client_vote(s, e).forced = s.forced
          /\ client_vote(s, e).pending = s.pending
      BY <2>3, <2>4 DEF LooseRuns
    <2>7. QED
      BY <1>2, <2>5, <2>6 DEF A, n
  <1>3. QED
    BY <1>1, <1>2

\* The services' round: what a dispatch in it, or into it, leaves behind.
LEMMA ServicesResult ==
    ASSUME NEW s \in LooseRuns, NEW e \in Events
    PROVE  LET v == client_vote(s, e)
               t == state_shutdown_services_process(s, e)
               done == e.id = "Timeout" \/ v.num_ack >= Cardinality(clients["services"])
           IN  /\ t \in LooseRuns
               /\ t.acked = v.acked /\ t.num_ack = v.num_ack
               /\ t.stale = s.stale /\ t.forced = s.forced
               /\ done => t.state = "Action" /\ ~t.timer /\ t.pending = NoCaller
               /\ ~done => t.state = s.state /\ t.timer = s.timer /\ t.pending = s.pending
  <1> DEFINE v == client_vote(s, e)
  <1>1. v \in LooseRuns /\ v.stale = s.stale /\ v.forced = s.forced /\ v.state = s.state
        /\ v.timer = s.timer /\ v.pending = s.pending
    BY VoteResult
  <1> HIDE DEF v
  <1>2. CASE e.id = "Timeout" \/ v.num_ack >= Cardinality(clients["services"])
    <2>1. state_shutdown_services_process(s, e) =
              [v EXCEPT !.timer = FALSE, !.state = "Action", !.pending = NoCaller]
      BY <1>1, <1>2 DEF v, state_shutdown_services_process, state_shutdown_action, Ready, LooseRuns
    <2>2. QED
      BY <1>1, <1>2, <2>1 DEF v, LooseRuns
  <1>3. CASE ~(e.id = "Timeout" \/ v.num_ack >= Cardinality(clients["services"]))
    <2>1. state_shutdown_services_process(s, e) = v
      BY <1>3 DEF v, state_shutdown_services_process, Ready
    <2>2. QED
      BY <1>1, <1>3, <2>1 DEF v
  <1>4. QED
    BY <1>2, <1>3

\* The start of a round: no acks, its own timeout.
LEMMA RoundStart ==
    ASSUME NEW s \in LooseRuns, NEW at \in {"AppsProcess", "ServicesProcess"}
    PROVE  LET b == [ArmTimeout(client_list_reset_ack_count(s)) EXCEPT !.state = at]
           IN  /\ b \in LooseRuns /\ b.state = at /\ b.num_ack = 0 /\ b.timer = TRUE
               /\ b.stale = (IF s.timer THEN s.stale + 1 ELSE s.stale)
               /\ b.acked = s.acked /\ b.forced = s.forced /\ b.pending = s.pending
  <1> DEFINE n == IF s.timer THEN s.stale + 1 ELSE s.stale
  <1> DEFINE b == [ArmTimeout(client_list_reset_ack_count(s)) EXCEPT !.state = at]
  <1>1. n \in Nat
    BY DEF LooseRuns
  <1>2. b = [s EXCEPT !.state = at, !.num_ack = 0, !.timer = TRUE, !.stale = n]
    BY DEF ArmTimeout, client_list_reset_ack_count, LooseRuns
  <1> HIDE DEF n, b
  <1>3. b \in LooseRuns
    BY <1>1, <1>2 DEF LooseRuns
  <1>4. /\ b.state = at /\ b.num_ack = 0 /\ b.timer = TRUE /\ b.stale = n
        /\ b.acked = s.acked /\ b.forced = s.forced /\ b.pending = s.pending
    BY <1>1, <1>2 DEF LooseRuns
  <1>5. QED
    BY <1>3, <1>4 DEF n, b

\* Into the services' round, and through it when nobody is registered.
LEMMA ServicesStart ==
    ASSUME NEW s \in LooseRuns
    PROVE  LET t == state_shutdown_services(s)
               empty == 0 >= Cardinality(clients["services"])
           IN  /\ t \in LooseRuns /\ t.num_ack = 0
               /\ t.acked = s.acked /\ t.forced = s.forced
               /\ t.stale = (IF s.timer THEN s.stale + 1 ELSE s.stale)
               /\ empty => t.state = "Action" /\ ~t.timer /\ t.pending = NoCaller
               /\ ~empty => t.state = "ServicesProcess" /\ t.timer /\ t.pending = s.pending
  <1> DEFINE b == [ArmTimeout(client_list_reset_ack_count(s)) EXCEPT !.state = "ServicesProcess"]
  <1>1. /\ b \in LooseRuns /\ b.state = "ServicesProcess" /\ b.num_ack = 0 /\ b.timer = TRUE
        /\ b.stale = (IF s.timer THEN s.stale + 1 ELSE s.stale)
        /\ b.acked = s.acked /\ b.forced = s.forced /\ b.pending = s.pending
    BY RoundStart
  <1>2. state_shutdown_services(s) = state_shutdown_services_process(b, Event("None"))
    BY DEF state_shutdown_services
  <1> HIDE DEF b
  <1>3. Event("None") \in Events /\ Event("None").id = "None"
    BY DEF Events, Event
  <1>4. client_vote(b, Event("None")) = b
    BY <1>1, <1>3, VoteResult
  <1>5. QED
    BY <1>1, <1>2, <1>3, <1>4, ServicesResult

\* A dispatch in the applications' round.
LEMMA AppsResult ==
    ASSUME NEW s \in LooseRuns, NEW e \in Events
    PROVE  LET v == client_vote(s, e)
               t == state_shutdown_apps_process(s, e)
               done == e.id = "Timeout" \/ v.num_ack >= Cardinality(clients["applications"])
               dead == IF e.id = "Timeout" /\ s.timer THEN s.stale + 1 ELSE s.stale
               empty == 0 >= Cardinality(clients["services"])
           IN  /\ t \in LooseRuns /\ t.acked = v.acked
               /\ ~done => t = v
               /\ done => t.stale = dead /\ t.forced = "none"
               /\ done /\ s.forced # "none" =>
                      t.state = "None" /\ ~t.timer /\ t.pending = s.pending
               /\ done /\ s.forced = "none" =>
                    /\ t.num_ack = 0
                    /\ empty => t.state = "Action" /\ ~t.timer /\ t.pending = NoCaller
                    /\ ~empty => t.state = "ServicesProcess" /\ t.timer /\ t.pending = s.pending
  <1> DEFINE v == client_vote(s, e)
  <1> DEFINE dead == IF e.id = "Timeout" /\ s.timer THEN s.stale + 1 ELSE s.stale
  <1> DEFINE b == [v EXCEPT !.timer = FALSE, !.stale = dead]
  <1>1. /\ v \in LooseRuns /\ v.stale = s.stale /\ v.forced = s.forced /\ v.state = s.state
        /\ v.timer = s.timer /\ v.pending = s.pending
    BY VoteResult
  <1>2. dead \in Nat
    BY DEF LooseRuns
  <1>3. CASE ~(e.id = "Timeout" \/ v.num_ack >= Cardinality(clients["applications"]))
    <2>1. state_shutdown_apps_process(s, e) = v
      BY <1>3 DEF state_shutdown_apps_process, Ready
    <2>2. QED
      BY <1>1, <1>3, <2>1
  <1>4. CASE e.id = "Timeout" \/ v.num_ack >= Cardinality(clients["applications"])
    <2>1. state_shutdown_apps_process(s, e) =
              IF s.forced # "none" THEN forced_action_run(b) ELSE state_shutdown_services(b)
      BY <1>1, <1>4 DEF state_shutdown_apps_process, Ready
    <2> HIDE DEF v, dead
    <2>2. b \in LooseRuns
      BY <1>1, <1>2 DEF LooseRuns
    <2>3. /\ b.stale = dead /\ b.timer = FALSE /\ b.acked = v.acked
          /\ b.forced = s.forced /\ b.pending = s.pending
      BY <1>1, <1>2 DEF LooseRuns
    <2> HIDE DEF b
    <2>4. CASE s.forced # "none"
      <3>1. state_shutdown_apps_process(s, e) = [b EXCEPT !.state = "None", !.forced = "none"]
        BY <2>1, <2>4 DEF forced_action_run
      <3> DEFINE t == state_shutdown_apps_process(s, e)
      <3> HIDE DEF t
      <3>2. t \in LooseRuns
        BY <2>2, <3>1 DEF LooseRuns, t
      <3>3. /\ t.state = "None" /\ t.forced = "none" /\ t.stale = dead /\ t.timer = FALSE
            /\ t.acked = v.acked /\ t.pending = s.pending
        BY <2>2, <2>3, <3>1 DEF LooseRuns, t
      <3>4. QED
        BY <1>4, <2>4, <3>2, <3>3 DEF v, dead, t
    <2>5. CASE s.forced = "none"
      <3>1. state_shutdown_apps_process(s, e) = state_shutdown_services(b)
        BY <2>1, <2>5
      <3>2. QED
        BY <1>4, <2>2, <2>3, <2>5, <3>1, ServicesStart DEF v, dead
    <2>6. QED
      BY <2>4, <2>5
  <1>5. QED
    BY <1>3, <1>4

\* Out of idle: the votes are cleared and the applications' round begins.
LEMMA InitResult ==
    ASSUME NEW s \in LooseRuns, NEW e \in Events, e.id = "Init"
    PROVE  LET t == state_idle(s, e)
               done == 0 >= Cardinality(clients["applications"])
               empty == 0 >= Cardinality(clients["services"])
           IN  /\ t \in LooseRuns /\ t.acked = [x \in Tables |-> {}]
               /\ t.stale = (IF s.timer THEN s.stale + 1 ELSE s.stale)
               /\ ~done => /\ t.state = "AppsProcess" /\ t.num_ack = 0 /\ t.timer = TRUE
                           /\ t.forced = s.forced /\ t.pending = s.pending
               /\ done => t.forced = "none"
               /\ done /\ s.forced # "none" =>
                      t.state = "None" /\ ~t.timer /\ t.pending = s.pending
               /\ done /\ s.forced = "none" =>
                    /\ t.num_ack = 0
                    /\ empty => t.state = "Action" /\ ~t.timer /\ t.pending = NoCaller
                    /\ ~empty => t.state = "ServicesProcess" /\ t.timer /\ t.pending = s.pending
  <1> DEFINE c == client_list_vote_init(s)
  <1>1. c \in LooseRuns
    BY DEF client_list_vote_init, LooseRuns
  <1>2. /\ c.acked = [x \in Tables |-> {}] /\ c.timer = s.timer /\ c.stale = s.stale
        /\ c.forced = s.forced /\ c.pending = s.pending
    BY DEF client_list_vote_init, LooseRuns
  <1> HIDE DEF c
  <1> DEFINE b == [ArmTimeout(client_list_reset_ack_count(c)) EXCEPT !.state = "AppsProcess"]
  <1>a. /\ b \in LooseRuns /\ b.state = "AppsProcess" /\ b.num_ack = 0 /\ b.timer = TRUE
        /\ b.stale = (IF c.timer THEN c.stale + 1 ELSE c.stale)
        /\ b.acked = c.acked /\ b.forced = c.forced /\ b.pending = c.pending
    BY <1>1, RoundStart
  <1>4. state_idle(s, e) = state_shutdown_apps_process(b, Event("None"))
    BY DEF state_idle, state_shutdown_apps, c
  <1> HIDE DEF b
  <1>3. /\ b \in LooseRuns /\ b.state = "AppsProcess" /\ b.num_ack = 0 /\ b.timer = TRUE
        /\ b.stale = (IF s.timer THEN s.stale + 1 ELSE s.stale)
        /\ b.acked = [x \in Tables |-> {}] /\ b.forced = s.forced /\ b.pending = s.pending
    BY <1>2, <1>a
  <1> HIDE DEF c
  <1>5. Event("None") \in Events /\ Event("None").id = "None"
    BY DEF Events, Event
  <1>6. client_vote(b, Event("None")) = b
    BY <1>3, <1>5, VoteResult
  <1> DEFINE ev == Event("None")
  <1>ev. ev \in Events /\ ev.id = "None" /\ client_vote(b, ev) = b
         /\ state_idle(s, e) = state_shutdown_apps_process(b, ev)
    BY <1>4, <1>5, <1>6
  <1> HIDE DEF ev
  <1> DEFINE v == client_vote(b, ev)
             t == state_shutdown_apps_process(b, ev)
             done == ev.id = "Timeout" \/ v.num_ack >= Cardinality(clients["applications"])
             dead == IF ev.id = "Timeout" /\ b.timer THEN b.stale + 1 ELSE b.stale
             empty == 0 >= Cardinality(clients["services"])
  <1>7. /\ t \in LooseRuns /\ t.acked = v.acked
        /\ ~done => t = v
        /\ done => t.stale = dead /\ t.forced = "none"
        /\ done /\ b.forced # "none" => t.state = "None" /\ ~t.timer /\ t.pending = b.pending
        /\ done /\ b.forced = "none" =>
             /\ t.num_ack = 0
             /\ empty => t.state = "Action" /\ ~t.timer /\ t.pending = NoCaller
             /\ ~empty => t.state = "ServicesProcess" /\ t.timer /\ t.pending = b.pending
    <2>1. b \in LooseRuns /\ ev \in Events
      BY <1>3, <1>ev
    <2>2. QED
      BY ONLY <2>1, AppsResult
  <1>8. dead = b.stale /\ (done <=> 0 >= Cardinality(clients["applications"]))
    BY <1>3, <1>ev
  <1>9. state_idle(s, e) = t /\ v = b
    BY <1>ev
  <1> HIDE DEF t, v, done, dead, empty
  <1>10. QED
    BY <1>3, <1>7, <1>8, <1>9 DEF empty

\* A dispatch after the sequence is over.
LEMMA ActionResult ==
    ASSUME NEW s \in LooseRuns
    PROVE  LET t == state_shutdown_action(s)
           IN  /\ t \in LooseRuns /\ t.state = "Action" /\ t.pending = NoCaller
               /\ t.acked = s.acked /\ t.num_ack = s.num_ack /\ t.timer = s.timer
               /\ t.stale = s.stale /\ t.forced = s.forced
  <1>1. state_shutdown_action(s) \in LooseRuns
    BY DEF state_shutdown_action, LooseRuns
  <1>2. QED
    BY <1>1 DEF state_shutdown_action, LooseRuns

\* Which state function a dispatch starts with.
LEMMA DispatchCases ==
    ASSUME NEW s \in LooseRuns, NEW e \in Events
    PROVE  LET t == shutdown_state_dispatch(s, e)
           IN  /\ s.state = "None" /\ e.id = "Init" => t = state_idle(s, e)
               /\ s.state = "None" /\ e.id # "Init" => t = s
               /\ s.state = "AppsProcess" => t = state_shutdown_apps_process(s, e)
               /\ s.state = "ServicesProcess" => t = state_shutdown_services_process(s, e)
               /\ s.state = "Action" => t = state_shutdown_action(s)
               /\ s.state \in {"None", "AppsProcess", "ServicesProcess", "Action"}
  <1>1. s.state \in {"None", "AppsProcess", "ServicesProcess", "Action"}
    BY DEF LooseRuns
  <1>2. s.state = "None" /\ e.id # "Init" => state_idle(s, e) = s
    BY DEF state_idle
  <1>3. QED
    BY <1>1, <1>2 DEF shutdown_state_dispatch

\* A dispatch ends in a run, and drops a forced action only by running it.
LEMMA DispatchType ==
    ASSUME NEW s \in LooseRuns, NEW e \in Events
    PROVE  /\ shutdown_state_dispatch(s, e) \in LooseRuns
           /\ shutdown_state_dispatch(s, e).forced \in {s.forced, "none"}
           /\ shutdown_state_dispatch(s, e).pending \in {s.pending, NoCaller}
           /\ s.state = "None" /\ e.id # "Init" => shutdown_state_dispatch(s, e) = s
  <1> DEFINE t == shutdown_state_dispatch(s, e)
  <1>1. CASE s.state = "None" /\ e.id = "Init"
    <2>1. t = state_idle(s, e)
      BY <1>1, DispatchCases
    <2> DEFINE done == 0 >= Cardinality(clients["applications"])
               empty == 0 >= Cardinality(clients["services"])
    <2>2. /\ t \in LooseRuns
          /\ t.stale = (IF s.timer THEN s.stale + 1 ELSE s.stale)
          /\ ~done => /\ t.state = "AppsProcess" /\ t.num_ack = 0 /\ t.timer = TRUE
                      /\ t.forced = s.forced /\ t.pending = s.pending
          /\ done => t.forced = "none"
          /\ done /\ s.forced # "none" => t.state = "None" /\ ~t.timer /\ t.pending = s.pending
          /\ done /\ s.forced = "none" =>
               /\ t.num_ack = 0
               /\ empty => t.state = "Action" /\ ~t.timer /\ t.pending = NoCaller
               /\ ~empty => t.state = "ServicesProcess" /\ t.timer /\ t.pending = s.pending
      <3>1. s \in LooseRuns /\ e \in Events /\ e.id = "Init"
        BY <1>1
      <3> HIDE DEF t
      <3>2. QED
        BY ONLY <2>1, <3>1, InitResult
    <2> HIDE DEF done, empty
    <2>3. QED
      BY <1>1, <2>2
  <1>2. CASE s.state = "None" /\ e.id # "Init"
    BY <1>2, DispatchCases
  <1>3. CASE s.state = "AppsProcess"
    <2>1. t = state_shutdown_apps_process(s, e)
      BY <1>3, DispatchCases
    <2> DEFINE v == client_vote(s, e)
               done == e.id = "Timeout" \/ v.num_ack >= Cardinality(clients["applications"])
               dead == IF e.id = "Timeout" /\ s.timer THEN s.stale + 1 ELSE s.stale
               empty == 0 >= Cardinality(clients["services"])
    <2>2. /\ t \in LooseRuns /\ t.acked = v.acked
          /\ ~done => t = v
          /\ done => t.stale = dead /\ t.forced = "none"
          /\ done /\ s.forced # "none" => t.state = "None" /\ ~t.timer /\ t.pending = s.pending
          /\ done /\ s.forced = "none" =>
               /\ t.num_ack = 0
               /\ empty => t.state = "Action" /\ ~t.timer /\ t.pending = NoCaller
               /\ ~empty => t.state = "ServicesProcess" /\ t.timer /\ t.pending = s.pending
      BY <2>1, AppsResult
    <2>3. /\ v.forced = s.forced /\ v.pending = s.pending /\ v.timer = s.timer
          /\ v.stale = s.stale /\ v.state = s.state
      BY VoteResult
    <2> HIDE DEF v, done, dead, empty
    <2>4. QED
      BY <1>3, <2>2, <2>3
  <1>4. CASE s.state = "ServicesProcess"
    <2>1. t = state_shutdown_services_process(s, e)
      BY <1>4, DispatchCases
    <2> DEFINE v == client_vote(s, e)
               done == e.id = "Timeout" \/ v.num_ack >= Cardinality(clients["services"])
    <2>2. /\ t \in LooseRuns /\ t.acked = v.acked /\ t.num_ack = v.num_ack
          /\ t.stale = s.stale /\ t.forced = s.forced
          /\ done => t.state = "Action" /\ ~t.timer /\ t.pending = NoCaller
          /\ ~done => t.state = s.state /\ t.timer = s.timer /\ t.pending = s.pending
      BY <2>1, ServicesResult
    <2> HIDE DEF v, done
    <2>3. QED
      BY <1>4, <2>2
  <1>5. CASE s.state = "Action"
    <2>1. t = state_shutdown_action(s)
      BY <1>5, DispatchCases
    <2>2. QED
      BY <1>5, <2>1, ActionResult
  <1>6. QED
    BY <1>1, <1>2, <1>3, <1>4, <1>5, DispatchCases

\* The timeout armed is the one of the round under way, and there is no other.
TimerOK(r) == r.stale = 0 /\ (r.timer <=> r.state \in {"AppsProcess", "ServicesProcess"})

\* A dispatch arms and removes the timeouts in step with the rounds.
LEMMA DispatchTimer ==
    ASSUME NEW s \in LooseRuns, NEW e \in Events,
           \/ TimerOK(s) /\ e.id # "Timeout"
           \/ /\ s.stale = 0 /\ ~s.timer /\ e.id = "Timeout"
              /\ s.state \in {"AppsProcess", "ServicesProcess"}
    PROVE  TimerOK(shutdown_state_dispatch(s, e))
  <1> DEFINE t == shutdown_state_dispatch(s, e)
  <1> USE DEF TimerOK
  <1>1. CASE s.state = "None" /\ e.id = "Init"
    <2>1. t = state_idle(s, e)
      BY <1>1, DispatchCases
    <2> DEFINE done == 0 >= Cardinality(clients["applications"])
               empty == 0 >= Cardinality(clients["services"])
    <2>2. /\ t \in LooseRuns
          /\ t.stale = (IF s.timer THEN s.stale + 1 ELSE s.stale)
          /\ ~done => /\ t.state = "AppsProcess" /\ t.num_ack = 0 /\ t.timer = TRUE
                      /\ t.forced = s.forced /\ t.pending = s.pending
          /\ done => t.forced = "none"
          /\ done /\ s.forced # "none" => t.state = "None" /\ ~t.timer /\ t.pending = s.pending
          /\ done /\ s.forced = "none" =>
               /\ t.num_ack = 0
               /\ empty => t.state = "Action" /\ ~t.timer /\ t.pending = NoCaller
               /\ ~empty => t.state = "ServicesProcess" /\ t.timer /\ t.pending = s.pending
      <3>1. s \in LooseRuns /\ e \in Events /\ e.id = "Init"
        BY <1>1
      <3> HIDE DEF t
      <3>2. QED
        BY ONLY <2>1, <3>1, InitResult
    <2> HIDE DEF done, empty
    <2>3. QED
      BY <1>1, <2>2
  <1>2. CASE s.state = "None" /\ e.id # "Init"
    BY <1>2, DispatchCases
  <1>3. CASE s.state = "AppsProcess"
    <2>1. t = state_shutdown_apps_process(s, e)
      BY <1>3, DispatchCases
    <2> DEFINE v == client_vote(s, e)
               done == e.id = "Timeout" \/ v.num_ack >= Cardinality(clients["applications"])
               dead == IF e.id = "Timeout" /\ s.timer THEN s.stale + 1 ELSE s.stale
               empty == 0 >= Cardinality(clients["services"])
    <2>2. /\ t \in LooseRuns /\ t.acked = v.acked
          /\ ~done => t = v
          /\ done => t.stale = dead /\ t.forced = "none"
          /\ done /\ s.forced # "none" => t.state = "None" /\ ~t.timer /\ t.pending = s.pending
          /\ done /\ s.forced = "none" =>
               /\ t.num_ack = 0
               /\ empty => t.state = "Action" /\ ~t.timer /\ t.pending = NoCaller
               /\ ~empty => t.state = "ServicesProcess" /\ t.timer /\ t.pending = s.pending
      BY <2>1, AppsResult
    <2>3. /\ v.forced = s.forced /\ v.pending = s.pending /\ v.timer = s.timer
          /\ v.stale = s.stale /\ v.state = s.state
      BY VoteResult
    <2>4. dead = 0
      BY <1>3
    <2>5. e.id = "Timeout" => done
      OBVIOUS
    <2> HIDE DEF v, done, dead, empty, t
    <2>6. TimerOK(t)
      BY <1>3, <2>2, <2>3, <2>4, <2>5
    <2>7. QED
      BY <2>6 DEF t
  <1>4. CASE s.state = "ServicesProcess"
    <2>1. t = state_shutdown_services_process(s, e)
      BY <1>4, DispatchCases
    <2> DEFINE v == client_vote(s, e)
               done == e.id = "Timeout" \/ v.num_ack >= Cardinality(clients["services"])
    <2>2. /\ t \in LooseRuns /\ t.acked = v.acked /\ t.num_ack = v.num_ack
          /\ t.stale = s.stale /\ t.forced = s.forced
          /\ done => t.state = "Action" /\ ~t.timer /\ t.pending = NoCaller
          /\ ~done => t.state = s.state /\ t.timer = s.timer /\ t.pending = s.pending
      BY <2>1, ServicesResult
    <2> HIDE DEF v, done
    <2>3. QED
      BY <1>4, <2>2 DEF done
  <1>5. CASE s.state = "Action"
    <2>1. t = state_shutdown_action(s)
      BY <1>5, DispatchCases
    <2>2. QED
      BY <1>5, <2>1, ActionResult
  <1>6. QED
    BY <1>1, <1>2, <1>3, <1>4, <1>5, DispatchCases

-------------------------------------------------------------------------------
(* The invariants of the specification. *)

\* What the step of a dispatch does to the variables it assigns.
LEMMA DispatchStep ==
    ASSUME TypeOK, NEW s \in LooseRuns, NEW e \in Events, Dispatch(s, e)
    PROVE  /\ run' \in Runs /\ run' = shutdown_state_dispatch(s, e)
           /\ machine' \in ForcedActions \cup {"on"}
           /\ s.state = "None" /\ e.id # "Init" => run' = s /\ machine' \in {"on", machine}
  <1> DEFINE t == shutdown_state_dispatch(s, e)
  <1>1. /\ t \in LooseRuns /\ t.forced \in {s.forced, "none"}
        /\ s.state = "None" /\ e.id # "Init" => t = s
    BY DispatchType
  <1>2. /\ t.num_ack <= MaxAcks /\ t.stale <= MaxStale
        /\ run' = t
        /\ machine' \in IF t.forced # s.forced THEN {"on", s.forced} ELSE {machine}
    BY DEF Dispatch
  <1> HIDE DEF t
  <1>3. t \in Runs
    BY <1>1, <1>2, ShutdownAssumption DEF Runs, LooseRuns
  <1>4. machine' \in ForcedActions \cup {"on"}
    BY <1>1, <1>2 DEF TypeOK, LooseRuns
  <1>5. s.state = "None" /\ e.id # "Init" => machine' \in {"on", machine}
    BY <1>1, <1>2
  <1>6. QED
    BY <1>1, <1>2, <1>3, <1>4, <1>5 DEF t

\* The machine's record before each dispatch.
LEMMA DispatchStarts ==
    ASSUME TypeOK
    PROVE  /\ run \in LooseRuns
           /\ \A c \in Callers : LET s == [run EXCEPT !.pending = c]
                 IN  /\ s \in LooseRuns /\ s.state = run.state /\ s.timer = run.timer
                     /\ s.stale = run.stale /\ s.forced = run.forced
           /\ \A a \in ForcedActions : LET s == [run EXCEPT !.forced = a]
                 IN  /\ s \in LooseRuns /\ s.state = run.state /\ s.timer = run.timer
                     /\ s.stale = run.stale /\ s.forced = a
           /\ LET s == [run EXCEPT !.timer = FALSE]
              IN  /\ s \in LooseRuns /\ s.state = run.state /\ s.timer = FALSE
                  /\ s.stale = run.stale /\ s.forced = run.forced
           /\ run.stale > 0 => LET s == [run EXCEPT !.stale = @ - 1]
              IN  /\ s \in LooseRuns /\ s.state = run.state /\ s.timer = run.timer
                  /\ s.forced = run.forced
  <1>1. run \in LooseRuns
    BY ShutdownAssumption DEF TypeOK, Runs, LooseRuns
  <1>2. \A c \in Callers : LET s == [run EXCEPT !.pending = c]
            IN  /\ s \in LooseRuns /\ s.state = run.state /\ s.timer = run.timer
                /\ s.stale = run.stale /\ s.forced = run.forced
    BY <1>1 DEF LooseRuns
  <1>3. \A a \in ForcedActions : LET s == [run EXCEPT !.forced = a]
            IN  /\ s \in LooseRuns /\ s.state = run.state /\ s.timer = run.timer
                /\ s.stale = run.stale /\ s.forced = a
    BY <1>1 DEF LooseRuns
  <1>4. LET s == [run EXCEPT !.timer = FALSE]
        IN  /\ s \in LooseRuns /\ s.state = run.state /\ s.timer = FALSE
            /\ s.stale = run.stale /\ s.forced = run.forced
    BY <1>1 DEF LooseRuns
  <1>5. ASSUME run.stale > 0
        PROVE  LET s == [run EXCEPT !.stale = @ - 1]
               IN  /\ s \in LooseRuns /\ s.state = run.state /\ s.timer = run.timer
                   /\ s.forced = run.forced
    <2> DEFINE n == run.stale - 1
    <2>1. n \in Nat
      BY <1>1, <1>5 DEF LooseRuns
    <2>2. [run EXCEPT !.stale = @ - 1] = [run EXCEPT !.stale = n]
      BY <1>1 DEF LooseRuns
    <2> HIDE DEF n
    <2>3. QED
      BY <1>1, <2>1, <2>2 DEF LooseRuns
  <1>6. QED
    BY <1>1, <1>2, <1>3, <1>4, <1>5

\* The four events are events.
LEMMA EventsKnown ==
    /\ Event("Init") \in Events /\ Event("Init").id = "Init"
    /\ Event("Timeout") \in Events /\ Event("Timeout").id = "Timeout"
    /\ \A t \in Tables, n \in Names : AckBy(t, n) \in Events /\ AckBy(t, n).id = "Ack"
  <1>1. \A id \in {"Init", "Timeout"} : Event(id) \in Events /\ Event(id).id = id
    BY DEF Events, Event
  <1>2. \A t \in Tables, n \in Names : AckBy(t, n) \in Events
    BY DEF Events
  <1>3. \A t \in Tables, n \in Names : AckBy(t, n).id = "Ack"
    BY DEF AckBy
  <1>4. QED
    BY <1>1, <1>2, <1>3

\* The parts of TypeOK and HeldAwakeThroughout that a change of the tables, which
\* dispatches nothing, has to show.
LEMMA TableStep ==
    ASSUME TypeOK, HeldAwakeThroughout, NEW t \in Tables, NEW n \in Names,
           NEW C \in SUBSET Names,
           clients' = [clients EXCEPT ![t] = C],
           run' = [run EXCEPT !.acked[t] = @ \ {n}],
           UNCHANGED <<inhibited, machine, tested>>, rude' \in BOOLEAN
    PROVE  TypeOK' /\ HeldAwakeThroughout' /\ (TimerMatchesRound => TimerMatchesRound')
  <1> DEFINE A == [run.acked EXCEPT ![t] = @ \ {n}]
  <1>1. A \in [Tables -> SUBSET Names]
    BY DEF TypeOK, Runs
  <1>2. run' = [run EXCEPT !.acked = A]
    BY DEF TypeOK, Runs
  <1> HIDE DEF A
  <1>3. run' \in Runs
    BY <1>1, <1>2 DEF TypeOK, Runs
  <1>4. /\ run'.state = run.state /\ run'.forced = run.forced
        /\ run'.timer = run.timer /\ run'.stale = run.stale
    BY <1>1, <1>2 DEF TypeOK, Runs
  <1>5. clients' \in [Tables -> SUBSET Names]
    BY DEF TypeOK
  <1>6. QED
    BY <1>3, <1>4, <1>5 DEF TypeOK, HeldAwakeThroughout, TimerMatchesRound, InRound

\* The same for a dispatch, from a record s that is the machine's but for what the
\* message changes in it.
LEMMA HeldStep ==
    ASSUME TypeOK, HeldAwakeThroughout, NEW s \in LooseRuns, NEW e \in Events, Dispatch(s, e),
           UNCHANGED <<clients, tested>>, rude' \in BOOLEAN,
           \/ inhibited' = TRUE
           \/ inhibited' = inhibited /\ e.id # "Init" /\ s.state = run.state /\ s.forced = run.forced
    PROVE  TypeOK' /\ HeldAwakeThroughout'
  <1>1. /\ run' \in Runs /\ machine' \in ForcedActions \cup {"on"}
        /\ s.state = "None" /\ e.id # "Init" => run' = s /\ machine' \in {"on", machine}
    BY DispatchStep
  <1>2. TypeOK'
    BY <1>1 DEF TypeOK
  <1>3. HeldAwakeThroughout'
    BY <1>1 DEF TypeOK, HeldAwakeThroughout
  <1>4. QED
    BY <1>2, <1>3

\* A step from a state with both invariants ends in one, and the timeouts stay in
\* step with the rounds.
LEMMA StepSafe ==
    ASSUME TypeOK, HeldAwakeThroughout, [Next]_vars
    PROVE  /\ TypeOK' /\ HeldAwakeThroughout'
           /\ TimerMatchesRound => TimerMatchesRound'
  <1>1. ASSUME NEW t \in Tables, NEW n \in Names, Register(t, n)
        PROVE  TypeOK' /\ HeldAwakeThroughout' /\ (TimerMatchesRound => TimerMatchesRound')
    <2>1. clients[t] \cup {n} \in SUBSET Names
      BY <1>1 DEF TypeOK, Register
    <2>2. rude' \in BOOLEAN
      BY <1>1 DEF TypeOK, Register
    <2>3. QED
      BY <1>1, <2>1, <2>2, TableStep DEF Register
  <1>2. ASSUME NEW t \in Tables, NEW n \in Names, shutdown_client_cancel_registration(t, n)
        PROVE  TypeOK' /\ HeldAwakeThroughout' /\ (TimerMatchesRound => TimerMatchesRound')
    <2>1. clients[t] \ {n} \in SUBSET Names
      BY <1>2 DEF TypeOK, shutdown_client_cancel_registration
    <2>2. rude' \in BOOLEAN
      BY <1>2 DEF TypeOK, shutdown_client_cancel_registration
    <2>3. QED
      BY <1>2, <2>1, <2>2, TableStep DEF shutdown_client_cancel_registration
  <1>3. ASSUME NEW n \in Names, shutdown_client_cancel_registration_by_name(n)
        PROVE  TypeOK' /\ HeldAwakeThroughout' /\ (TimerMatchesRound => TimerMatchesRound')
    <2>1. /\ clients["services"] \ {n} \in SUBSET Names
          /\ "services" \in Tables
      BY <1>3 DEF TypeOK, Tables, shutdown_client_cancel_registration_by_name
    <2>2. rude' \in BOOLEAN
      BY <1>3 DEF TypeOK, shutdown_client_cancel_registration_by_name
    <2>3. QED
      BY <1>3, <2>1, <2>2, TableStep DEF shutdown_client_cancel_registration_by_name
  <1>4. ASSUME NEW t \in Tables, NEW n \in Names, Ack(t, n)
        PROVE  TypeOK' /\ HeldAwakeThroughout' /\ (TimerMatchesRound => TimerMatchesRound')
    <2>1. /\ run \in LooseRuns /\ AckBy(t, n) \in Events /\ AckBy(t, n).id = "Ack"
          /\ Dispatch(run, AckBy(t, n)) /\ UNCHANGED <<clients, inhibited, tested>>
      BY <1>4, DispatchStarts, EventsKnown DEF Ack
    <2>r. rude' \in BOOLEAN
      BY <1>4 DEF TypeOK, Ack
    <2>2. TypeOK' /\ HeldAwakeThroughout'
      BY <2>1, <2>r, HeldStep
    <2>3. ASSUME ~tested, TimerMatchesRound PROVE TimerMatchesRound'
      <3>1. TimerOK(shutdown_state_dispatch(run, AckBy(t, n)))
        BY <2>1, <2>3, DispatchTimer DEF TimerMatchesRound, InRound, TimerOK
      <3>2. run' = shutdown_state_dispatch(run, AckBy(t, n))
        BY <2>1 DEF Dispatch
      <3>3. QED
        BY <3>1, <3>2 DEF TimerOK, TimerMatchesRound, InRound
    <2>4. QED
      BY <2>1, <2>2, <2>3 DEF TimerMatchesRound
  <1>5. ASSUME NEW c \in Callers, initiateShutdown(c)
        PROVE  TypeOK' /\ HeldAwakeThroughout' /\ (TimerMatchesRound => TimerMatchesRound')
    <2> DEFINE s == [run EXCEPT !.pending = c]
    <2>1. /\ s \in LooseRuns /\ s.state = run.state /\ s.timer = run.timer /\ s.stale = run.stale
          /\ Event("Init") \in Events /\ Event("Init").id = "Init"
          /\ Dispatch(s, Event("Init")) /\ UNCHANGED <<clients, tested>> /\ inhibited' = TRUE
      BY <1>5, DispatchStarts, EventsKnown DEF initiateShutdown
    <2> HIDE DEF s
    <2>r. rude' \in BOOLEAN
      BY <1>5 DEF TypeOK, initiateShutdown
    <2>2. TypeOK' /\ HeldAwakeThroughout'
      BY <2>1, <2>r, HeldStep
    <2>3. ASSUME ~tested, TimerMatchesRound PROVE TimerMatchesRound'
      <3>1. TimerOK(shutdown_state_dispatch(s, Event("Init")))
        BY <2>1, <2>3, DispatchTimer DEF TimerMatchesRound, InRound, TimerOK
      <3>2. run' = shutdown_state_dispatch(s, Event("Init"))
        BY <2>1 DEF Dispatch
      <3>3. QED
        BY <3>1, <3>2 DEF TimerOK, TimerMatchesRound, InRound
    <2>4. QED
      BY <2>1, <2>2, <2>3 DEF TimerMatchesRound
  <1>6. ASSUME shutdown_timeout
        PROVE  TypeOK' /\ HeldAwakeThroughout' /\ (TimerMatchesRound => TimerMatchesRound')
    <2> DEFINE s == [run EXCEPT !.timer = FALSE]
    <2>1. /\ s \in LooseRuns /\ s.state = run.state /\ s.timer = FALSE /\ s.stale = run.stale
          /\ s.forced = run.forced /\ run.timer
          /\ Event("Timeout") \in Events /\ Event("Timeout").id = "Timeout"
          /\ Dispatch(s, Event("Timeout")) /\ UNCHANGED <<clients, inhibited, tested>>
      BY <1>6, DispatchStarts, EventsKnown DEF shutdown_timeout
    <2> HIDE DEF s
    <2>r. rude' \in BOOLEAN
      BY <1>6 DEF TypeOK, shutdown_timeout
    <2>2. TypeOK' /\ HeldAwakeThroughout'
      BY <2>1, <2>r, HeldStep
    <2>3. ASSUME ~tested, TimerMatchesRound PROVE TimerMatchesRound'
      <3>1. TimerOK(shutdown_state_dispatch(s, Event("Timeout")))
        BY <2>1, <2>3, DispatchTimer DEF TimerMatchesRound, InRound
      <3>2. run' = shutdown_state_dispatch(s, Event("Timeout"))
        BY <2>1 DEF Dispatch
      <3>3. QED
        BY <3>1, <3>2 DEF TimerOK, TimerMatchesRound, InRound
    <2>4. QED
      BY <2>1, <2>2, <2>3 DEF TimerMatchesRound
  <1>7. ASSUME StaleTimeout
        PROVE  TypeOK' /\ HeldAwakeThroughout' /\ (TimerMatchesRound => TimerMatchesRound')
    <2> DEFINE s == [run EXCEPT !.stale = @ - 1]
    <2>1. /\ s \in LooseRuns /\ s.state = run.state /\ s.forced = run.forced
          /\ Event("Timeout") \in Events /\ Event("Timeout").id = "Timeout"
          /\ Dispatch(s, Event("Timeout")) /\ UNCHANGED <<clients, inhibited, tested>>
      BY <1>7, DispatchStarts, EventsKnown DEF StaleTimeout
    <2> HIDE DEF s
    <2>r. rude' \in BOOLEAN
      BY <1>7 DEF TypeOK, StaleTimeout
    <2>2. TypeOK' /\ HeldAwakeThroughout'
      BY <2>1, <2>r, HeldStep
    <2>3. TimerMatchesRound => tested
      BY <1>7 DEF StaleTimeout, TimerMatchesRound, TypeOK, Runs
    <2>4. QED
      BY <2>1, <2>2, <2>3 DEF TimerMatchesRound
  <1>8. ASSUME NEW a \in ForcedActions, force_machine(a)
        PROVE  TypeOK' /\ HeldAwakeThroughout' /\ (TimerMatchesRound => TimerMatchesRound')
    <2>1. CASE run' = run
      BY <1>8, <2>1, DispatchStarts, EventsKnown, DispatchStep
         DEF force_machine, TypeOK, HeldAwakeThroughout, TimerMatchesRound, InRound
    <2>2. CASE run' # run
      <3> DEFINE s == [run EXCEPT !.forced = a]
      <3>1. /\ s \in LooseRuns /\ s.state = run.state /\ s.timer = run.timer /\ s.stale = run.stale
            /\ Event("Init") \in Events /\ Event("Init").id = "Init"
            /\ Dispatch(s, Event("Init")) /\ UNCHANGED <<clients, tested>> /\ inhibited' = TRUE
        BY <1>8, <2>2, DispatchStarts, EventsKnown DEF force_machine
      <3> HIDE DEF s
      <3>r. rude' \in BOOLEAN
        BY <1>8 DEF TypeOK, force_machine
      <3>2. TypeOK' /\ HeldAwakeThroughout'
        BY <3>1, <3>r, HeldStep
      <3>3. ASSUME ~tested, TimerMatchesRound PROVE TimerMatchesRound'
        <4>1. TimerOK(shutdown_state_dispatch(s, Event("Init")))
          BY <3>1, <3>3, DispatchTimer DEF TimerMatchesRound, InRound, TimerOK
        <4>2. run' = shutdown_state_dispatch(s, Event("Init"))
          BY <3>1 DEF Dispatch
        <4>3. QED
          BY <4>1, <4>2 DEF TimerOK, TimerMatchesRound, InRound
      <3>4. QED
        BY <3>1, <3>2, <3>3 DEF TimerMatchesRound
    <2>3. QED
      BY <2>1, <2>2
  <1>9. ASSUME TESTresetShutdownState
        PROVE  TypeOK' /\ HeldAwakeThroughout' /\ TimerMatchesRound'
    <2>1. run' \in Runs /\ run'.state = "None" /\ run'.forced = run.forced
      BY <1>9 DEF TESTresetShutdownState, TypeOK, Runs
    <2>2. QED
      BY <1>9, <2>1 DEF TESTresetShutdownState, TypeOK, HeldAwakeThroughout, TimerMatchesRound
  <1>10. CASE UNCHANGED vars
    BY <1>10 DEF vars, TypeOK, HeldAwakeThroughout, TimerMatchesRound, InRound
  <1>11. QED
    BY <1>1, <1>2, <1>3, <1>4, <1>5, <1>6, <1>7, <1>8, <1>9, <1>10 DEF Next

\* What shutdown_init leaves.
LEMMA ShutdownStarts ==
    shutdown_init => TypeOK /\ HeldAwakeThroughout /\ TimerMatchesRound
  <1> SUFFICES ASSUME shutdown_init PROVE TypeOK /\ HeldAwakeThroughout /\ TimerMatchesRound
    OBVIOUS
  <1>1. /\ run \in Runs /\ run.state = "None" /\ run.forced = "none"
        /\ run.timer = FALSE /\ run.stale = 0
    BY ShutdownAssumption DEF shutdown_init, Runs, Tables, ForcedActions
  <1>2. QED
    BY <1>1 DEF shutdown_init, TypeOK, HeldAwakeThroughout, TimerMatchesRound, InRound

\* The shutdown machine's state is well typed, whatever its clients do.
THEOREM ShutdownTypeCorrect == Spec => []TypeOK
  <1>1. TypeOK /\ HeldAwakeThroughout /\ [Next]_vars => TypeOK' /\ HeldAwakeThroughout'
    BY StepSafe
  <1>2. QED
    BY <1>1, ShutdownStarts, PTL DEF Spec

\* No suspend can start from the first message of a sequence, gone through or forced,
\* until the device is off: SuspendInhibitForShutdown comes before every dispatch that
\* leaves idle (shutdown.c:943, 1248).
THEOREM ShutdownHeldAwake == Spec => []HeldAwakeThroughout
  <1>1. TypeOK /\ HeldAwakeThroughout /\ [Next]_vars => TypeOK' /\ HeldAwakeThroughout'
    BY StepSafe
  <1>2. QED
    BY <1>1, ShutdownStarts, PTL DEF Spec

\* Until the test code resets the machine, a timeout is armed exactly while a round is under way,
\* and it is that round's (shutdown.c:656, 769, 812, 855).
THEOREM TimerSafe == Spec => []TimerMatchesRound
  <1> DEFINE Inv == TypeOK /\ HeldAwakeThroughout /\ TimerMatchesRound
  <1>1. Inv /\ [Next]_vars => Inv'
    BY StepSafe
  <1>2. QED
    BY <1>1, ShutdownStarts, PTL DEF Spec

-------------------------------------------------------------------------------
(* The acks, when every client acks once, in its own round. *)

\* The count of a round is of that round's acks, from clients still registered, and
\* the services have not begun to answer while the applications are asked.
RoundOK(r) ==
    /\ r.state = "AppsProcess" =>
         /\ r.num_ack = Cardinality(r.acked["applications"])
         /\ r.acked["applications"] \subseteq clients["applications"]
         /\ r.acked["services"] = {}
    /\ r.state = "ServicesProcess" =>
         /\ r.num_ack = Cardinality(r.acked["services"])
         /\ r.acked["services"] \subseteq clients["services"]

\* An event of a polite client, or no client's.
InTurn(s, e) ==
    e.id = "Ack" =>
        /\ s.state = IF e.table = "applications" THEN "AppsProcess" ELSE "ServicesProcess"
        /\ e.name \in clients[e.table] /\ e.name \notin s.acked[e.table]

\* As many acks as there are clients are the acks of all of them.
LEMMA CountTells ==
    ASSUME NEW A \in SUBSET Names, NEW C \in SUBSET Names, A \subseteq C,
           Cardinality(A) >= Cardinality(C)
    PROVE  C \subseteq A
  <1>1. IsFiniteSet(C) /\ Cardinality(C) \in Nat /\ Cardinality(A) \in Nat
    BY NamesFinite
  <1>2. Cardinality(A) <= Cardinality(C) /\ (Cardinality(A) = Cardinality(C) => A = C)
    BY <1>1, FS_Subset
  <1>3. QED
    BY <1>1, <1>2

\* A vote in turn keeps the count that of the round.
LEMMA VoteRound ==
    ASSUME TypeOK, NEW s \in LooseRuns, NEW e \in Events, RoundOK(s), InTurn(s, e)
    PROVE  RoundOK(client_vote(s, e))
  <1> DEFINE v == client_vote(s, e)
  <1>1. v.state = s.state
    BY VoteResult
  <1>2. CASE e.id # "Ack"
    BY <1>2, VoteResult
  <1>3. CASE e.id = "Ack"
    <2>1. e.table \in Tables /\ e.name \in Names
      BY <1>3 DEF Events, Event, AckBy
    <2>2. v.num_ack = s.num_ack + 1 /\ v.acked = [s.acked EXCEPT ![e.table] = @ \cup {e.name}]
      BY <1>3, VoteResult
    <2>3. s.acked \in [Tables -> SUBSET Names]
      BY DEF LooseRuns
    <2> HIDE DEF v
    <2> DEFINE A == s.acked[e.table]
    <2>4. /\ IsFiniteSet(A) /\ Cardinality(A \cup {e.name}) = Cardinality(A) + 1
          /\ e.name \in clients[e.table]
      <3>1. IsFiniteSet(A)
        BY <2>1, <2>3, NamesFinite
      <3>2. e.name \notin A /\ e.name \in clients[e.table]
        BY <1>3 DEF InTurn
      <3>3. QED
        BY <3>1, <3>2, FS_AddElement
    <2>5. v.acked[e.table] = A \cup {e.name}
      BY <2>1, <2>2, <2>3
    <2>6. CASE e.table = "applications"
      <3>1. s.state = "AppsProcess"
        BY <1>3, <2>6 DEF InTurn
      <3>2. v.acked["services"] = s.acked["services"]
        BY <2>2, <2>3, <2>6 DEF Tables
      <3>3. QED
        BY <1>1, <2>2, <2>4, <2>5, <2>6, <3>1, <3>2 DEF RoundOK, v
    <2>7. CASE e.table = "services"
      <3>1. s.state = "ServicesProcess"
        BY <1>3, <2>7 DEF InTurn
      <3>2. QED
        BY <1>1, <2>2, <2>4, <2>5, <2>7, <3>1 DEF RoundOK, v
    <2>8. QED
      BY <2>1, <2>6, <2>7 DEF Tables
  <1>4. QED
    BY <1>2, <1>3

\* A stage is left without all its acks only by a timeout in it.
Passed(s, e, t) ==
    /\ (s.state \in {"None", "AppsProcess"} /\ t.state \in {"ServicesProcess", "Action"})
         \/ (s.forced # "none" /\ t.forced = "none")
       => \/ e.id = "Timeout" /\ s.state = "AppsProcess"
          \/ clients["applications"] \subseteq t.acked["applications"]
    /\ s.state # "Action" /\ t.state = "Action"
       => \/ e.id = "Timeout" /\ s.state = "ServicesProcess"
          \/ clients["services"] \subseteq t.acked["services"]

LEMMA DispatchRound ==
    ASSUME TypeOK, NEW s \in LooseRuns, NEW e \in Events, RoundOK(s), InTurn(s, e)
    PROVE  LET t == shutdown_state_dispatch(s, e) IN RoundOK(t) /\ Passed(s, e, t)
  <1> DEFINE t == shutdown_state_dispatch(s, e)
             v == client_vote(s, e)
             empty == 0 >= Cardinality(clients["services"])
  <1>1. /\ clients["services"] \in SUBSET Names /\ clients["applications"] \in SUBSET Names
        /\ {} \in SUBSET Names /\ Cardinality({}) = 0
    BY FS_EmptySet DEF TypeOK, Tables
  <1>2. empty => clients["services"] = {}
    BY <1>1, CountTells
  <1>3. 0 >= Cardinality(clients["applications"]) => clients["applications"] = {}
    BY <1>1, CountTells
  <1>4. /\ v \in LooseRuns /\ v.state = s.state /\ v.forced = s.forced /\ RoundOK(v)
        /\ v.acked["applications"] \in SUBSET Names /\ v.acked["services"] \in SUBSET Names
    <2>1. v \in LooseRuns /\ v.state = s.state /\ v.forced = s.forced
      BY VoteResult
    <2>2. RoundOK(v)
      BY VoteRound
    <2> HIDE DEF v
    <2>3. QED
      BY <2>1, <2>2 DEF LooseRuns, Tables
  <1>5. CASE s.state = "None" /\ e.id = "Init"
    <2> DEFINE done == 0 >= Cardinality(clients["applications"])
    <2>1. /\ t.acked = [x \in Tables |-> {}]
          /\ ~done => /\ t.state = "AppsProcess" /\ t.num_ack = 0 /\ t.forced = s.forced
          /\ done /\ s.forced # "none" => t.state = "None"
          /\ done /\ s.forced = "none" =>
               /\ t.num_ack = 0
               /\ empty => t.state = "Action"
               /\ ~empty => t.state = "ServicesProcess"
      <3>1. t = state_idle(s, e)
        BY <1>5, DispatchCases
      <3>2. s \in LooseRuns /\ e \in Events /\ e.id = "Init"
        BY <1>5
      <3> HIDE DEF t
      <3>3. t.acked = [x \in Tables |-> {}]
        BY ONLY <3>1, <3>2, InitResult
      <3>4. /\ ~done => /\ t.state = "AppsProcess" /\ t.num_ack = 0 /\ t.forced = s.forced
            /\ done /\ s.forced # "none" => t.state = "None"
            /\ done /\ s.forced = "none" =>
                 /\ t.num_ack = 0
                 /\ empty => t.state = "Action"
                 /\ ~empty => t.state = "ServicesProcess"
        BY ONLY <3>1, <3>2, InitResult
      <3>5. QED
        BY <3>3, <3>4
    <2>2. t.acked["applications"] = {} /\ t.acked["services"] = {}
      BY <2>1 DEF Tables
    <2> HIDE DEF t, empty
    <2>3. RoundOK(t) /\ Passed(s, e, t)
      BY <1>1, <1>2, <1>3, <1>5, <2>1, <2>2 DEF RoundOK, Passed
    <2>4. QED
      BY <2>3 DEF t
  <1>6. CASE s.state = "None" /\ e.id # "Init"
    <2>1. t = s
      BY <1>6, DispatchCases
    <2>2. QED
      BY <1>6, <2>1 DEF Passed
  <1>7. CASE s.state = "AppsProcess"
    <2> DEFINE done == e.id = "Timeout" \/ v.num_ack >= Cardinality(clients["applications"])
    <2>1. /\ t.acked = v.acked
          /\ ~done => t = v
          /\ done /\ s.forced # "none" => t.state = "None"
          /\ done /\ s.forced = "none" =>
               /\ t.num_ack = 0
               /\ empty => t.state = "Action"
               /\ ~empty => t.state = "ServicesProcess"
      <3>1. t = state_shutdown_apps_process(s, e)
        BY <1>7, DispatchCases
      <3> HIDE DEF t
      <3>2. s \in LooseRuns /\ e \in Events
        OBVIOUS
      <3>3. QED
        BY ONLY <3>1, <3>2, AppsResult
    <2>2. /\ v.num_ack = Cardinality(v.acked["applications"])
          /\ v.acked["applications"] \subseteq clients["applications"]
          /\ v.acked["services"] = {}
      BY <1>4, <1>7 DEF RoundOK
    <2> HIDE DEF v
    <2>3. done /\ e.id # "Timeout" => clients["applications"] \subseteq v.acked["applications"]
      BY <1>1, <1>4, <2>2, CountTells
    <2> HIDE DEF t, empty, done
    <2>4. RoundOK(t)
      BY <1>1, <1>4, <1>7, <2>1, <2>2 DEF RoundOK
    <2>5. Passed(s, e, t)
      BY <1>2, <1>4, <1>7, <2>1, <2>3 DEF Passed
    <2>6. QED
      BY <2>4, <2>5 DEF t
  <1>8. CASE s.state = "ServicesProcess"
    <2> DEFINE done == e.id = "Timeout" \/ v.num_ack >= Cardinality(clients["services"])
    <2>1. /\ t.acked = v.acked /\ t.num_ack = v.num_ack /\ t.forced = s.forced
          /\ done => t.state = "Action"
          /\ ~done => t.state = s.state
      <3>1. t = state_shutdown_services_process(s, e)
        BY <1>8, DispatchCases
      <3> HIDE DEF t
      <3>2. s \in LooseRuns /\ e \in Events
        OBVIOUS
      <3>3. QED
        BY ONLY <3>1, <3>2, ServicesResult
    <2>2. /\ v.num_ack = Cardinality(v.acked["services"])
          /\ v.acked["services"] \subseteq clients["services"]
      BY <1>4, <1>8 DEF RoundOK
    <2> HIDE DEF v
    <2>3. done /\ e.id # "Timeout" => clients["services"] \subseteq v.acked["services"]
      BY <1>1, <1>4, <2>2, CountTells
    <2> HIDE DEF t, done
    <2>4. RoundOK(t) /\ Passed(s, e, t)
      BY <1>4, <1>8, <2>1, <2>2, <2>3 DEF RoundOK, Passed
    <2>5. QED
      BY <2>4 DEF t
  <1>9. CASE s.state = "Action"
    <2>1. t.state = "Action" /\ t.forced = s.forced
      BY <1>9, DispatchCases, ActionResult
    <2> HIDE DEF t
    <2>2. RoundOK(t) /\ Passed(s, e, t)
      BY <1>9, <2>1 DEF RoundOK, Passed
    <2>3. QED
      BY <2>2 DEF t
  <1>10. QED
    BY <1>5, <1>6, <1>7, <1>8, <1>9, DispatchCases

\* The round of the record on record: RoundOK, of the machine's own.
AcksCounted == RoundOK(run)

\* A dispatch in turn, from a record that is the machine's but for what the message
\* changes in it, keeps the count and leaves a stage as StageNeedsAcks asks.
LEMMA RoundStep ==
    ASSUME TypeOK, AcksCounted, NEW s \in LooseRuns, NEW e \in Events, Dispatch(s, e),
           InTurn(s, e), s.state = run.state, s.num_ack = run.num_ack, s.acked = run.acked,
           s.forced = run.forced \/ run.forced = "none", clients' = clients,
           e.id = "Timeout" => shutdown_timeout \/ StaleTimeout
    PROVE  /\ AcksCounted'
           /\ PassesApps /\ ~TimedOut("AppsProcess") =>
                 clients["applications"] \subseteq run'.acked["applications"]
           /\ PassesServices /\ ~TimedOut("ServicesProcess") =>
                 clients["services"] \subseteq run'.acked["services"]
  <1> DEFINE t == shutdown_state_dispatch(s, e)
  <1>1. RoundOK(s)
    BY DEF AcksCounted, RoundOK
  <1>2. RoundOK(t) /\ Passed(s, e, t)
    BY <1>1, DispatchRound
  <1>3. run' = t
    BY DEF Dispatch
  <1> HIDE DEF t
  <1>4. AcksCounted'
    BY <1>2, <1>3 DEF AcksCounted, RoundOK
  <1>5. PassesApps /\ ~TimedOut("AppsProcess") =>
            clients["applications"] \subseteq run'.acked["applications"]
    BY <1>2, <1>3 DEF Passed, PassesApps, TimedOut
  <1>6. PassesServices /\ ~TimedOut("ServicesProcess") =>
            clients["services"] \subseteq run'.acked["services"]
    BY <1>2, <1>3 DEF Passed, PassesServices, TimedOut
  <1>7. QED
    BY <1>4, <1>5, <1>6

\* None of the records a dispatch starts from has other acks than the machine's.
LEMMA StartsKeepAcks ==
    ASSUME TypeOK
    PROVE  /\ \A c \in Callers : LET s == [run EXCEPT !.pending = c]
                 IN  s.num_ack = run.num_ack /\ s.acked = run.acked
           /\ \A a \in ForcedActions : LET s == [run EXCEPT !.forced = a]
                 IN  s.num_ack = run.num_ack /\ s.acked = run.acked
           /\ LET s == [run EXCEPT !.timer = FALSE]
              IN  s.num_ack = run.num_ack /\ s.acked = run.acked
           /\ LET s == [run EXCEPT !.stale = @ - 1]
              IN  s.num_ack = run.num_ack /\ s.acked = run.acked
  BY DEF TypeOK, Runs

\* What StageNeedsAcks asks of a step.
StageStep ==
    /\ PassesApps /\ ~TimedOut("AppsProcess") =>
          clients["applications"] \subseteq run'.acked["applications"]
    /\ PassesServices /\ ~TimedOut("ServicesProcess") =>
          clients["services"] \subseteq run'.acked["services"]

\* A step that leaves the machine's state and the forced action alone, outside a round
\* or with the tables and the acks as they were, asks nothing.
LEMMA QuietStep ==
    ASSUME TypeOK, AcksCounted, run'.state \in {run.state, "None"}, run'.forced = run.forced,
           \/ run'.state \in {"None", "Action"}
           \/ run' = run /\ clients' = clients
    PROVE  AcksCounted' /\ StageStep
  <1>1. AcksCounted'
    BY DEF AcksCounted, RoundOK
  <1>2. ~PassesApps /\ ~PassesServices
    BY DEF PassesApps, PassesServices
  <1>3. QED
    BY <1>1, <1>2 DEF StageStep

\* A polite step keeps the count that of the round, and leaves a stage only as
\* StageNeedsAcks says.
LEMMA PoliteStep ==
    ASSUME ~rude', TypeOK, AcksCounted, [Next]_vars
    PROVE  AcksCounted' /\ StageStep
  <1>1. ASSUME NEW t \in Tables, NEW n \in Names,
               Register(t, n) \/ shutdown_client_cancel_registration(t, n)
        PROVE  AcksCounted' /\ StageStep
    <2>1. run'.state = run.state /\ run'.forced = run.forced /\ run.state \in {"None", "Action"}
      BY <1>1 DEF Register, shutdown_client_cancel_registration, TableMayChange, TypeOK, Runs
    <2>2. QED
      BY <2>1, QuietStep
  <1>2. ASSUME NEW n \in Names, shutdown_client_cancel_registration_by_name(n)
        PROVE  AcksCounted' /\ StageStep
    <2>1. run'.state = run.state /\ run'.forced = run.forced /\ run.state \in {"None", "Action"}
      BY <1>2 DEF shutdown_client_cancel_registration_by_name, TableMayChange, TypeOK, Runs
    <2>2. QED
      BY <2>1, QuietStep
  <1>3. ASSUME NEW t \in Tables, NEW n \in Names, Ack(t, n)
        PROVE  AcksCounted' /\ StageStep
    <2> DEFINE e == AckBy(t, n)
    <2>1. run \in LooseRuns /\ e \in Events /\ e.id = "Ack" /\ e.table = t /\ e.name = n
      BY DispatchStarts, EventsKnown DEF AckBy
    <2>2. Dispatch(run, e) /\ clients' = clients /\ n \in clients[t] /\ MayAck(t, n)
      BY <1>3 DEF Ack, TypeOK
    <2> HIDE DEF e
    <2>3. InTurn(run, e)
      BY <2>1, <2>2 DEF InTurn, MayAck
    <2>4. QED
      BY <2>1, <2>2, <2>3, RoundStep DEF StageStep
  <1>4. ASSUME NEW c \in Callers, initiateShutdown(c)
        PROVE  AcksCounted' /\ StageStep
    <2> DEFINE s == [run EXCEPT !.pending = c]
               e == Event("Init")
    <2>1. /\ s \in LooseRuns /\ s.state = run.state /\ s.forced = run.forced
          /\ s.num_ack = run.num_ack /\ s.acked = run.acked
          /\ e \in Events /\ e.id = "Init"
      BY DispatchStarts, StartsKeepAcks, EventsKnown
    <2>2. Dispatch(s, e) /\ clients' = clients
      BY <1>4 DEF initiateShutdown
    <2> HIDE DEF s, e
    <2>3. InTurn(s, e)
      BY <2>1 DEF InTurn
    <2>4. QED
      BY <2>1, <2>2, <2>3, RoundStep DEF StageStep
  <1>5. ASSUME shutdown_timeout
        PROVE  AcksCounted' /\ StageStep
    <2> DEFINE s == [run EXCEPT !.timer = FALSE]
               e == Event("Timeout")
    <2>1. /\ s \in LooseRuns /\ s.state = run.state /\ s.forced = run.forced
          /\ s.num_ack = run.num_ack /\ s.acked = run.acked
          /\ e \in Events /\ e.id = "Timeout"
      BY DispatchStarts, StartsKeepAcks, EventsKnown
    <2>2. Dispatch(s, e) /\ clients' = clients
      BY <1>5 DEF shutdown_timeout
    <2> HIDE DEF s, e
    <2>3. InTurn(s, e)
      BY <2>1 DEF InTurn
    <2>4. QED
      BY <1>5, <2>1, <2>2, <2>3, RoundStep DEF StageStep
  <1>6. ASSUME StaleTimeout
        PROVE  AcksCounted' /\ StageStep
    <2> DEFINE s == [run EXCEPT !.stale = @ - 1]
               e == Event("Timeout")
    <2>1. run.stale > 0
      BY <1>6 DEF StaleTimeout
    <2>2. /\ s \in LooseRuns /\ s.state = run.state /\ s.forced = run.forced
          /\ s.num_ack = run.num_ack /\ s.acked = run.acked
          /\ e \in Events /\ e.id = "Timeout"
      BY <2>1, DispatchStarts, StartsKeepAcks, EventsKnown
    <2>3. Dispatch(s, e) /\ clients' = clients
      BY <1>6 DEF StaleTimeout
    <2> HIDE DEF s, e
    <2>4. InTurn(s, e)
      BY <2>2 DEF InTurn
    <2>5. QED
      BY <1>6, <2>2, <2>3, <2>4, RoundStep DEF StageStep
  <1>7. ASSUME NEW a \in ForcedActions, force_machine(a)
        PROVE  AcksCounted' /\ StageStep
    <2>1. CASE run' = run
      <3>1. clients' = clients
        BY <1>7 DEF force_machine
      <3>2. QED
        BY <2>1, <3>1, QuietStep
    <2>2. CASE run' # run
      <3> DEFINE s == [run EXCEPT !.forced = a]
                 e == Event("Init")
      <3>1. /\ s \in LooseRuns /\ s.state = run.state
            /\ s.num_ack = run.num_ack /\ s.acked = run.acked
            /\ e \in Events /\ e.id = "Init"
        BY DispatchStarts, StartsKeepAcks, EventsKnown
      <3>2. Dispatch(s, e) /\ clients' = clients /\ run.forced = "none"
        BY <1>7, <2>2 DEF force_machine
      <3> HIDE DEF s, e
      <3>3. InTurn(s, e)
        BY <3>1 DEF InTurn
      <3>4. QED
        BY <3>1, <3>2, <3>3, RoundStep DEF StageStep
    <2>3. QED
      BY <2>1, <2>2
  <1>8. ASSUME TESTresetShutdownState
        PROVE  AcksCounted' /\ StageStep
    <2>1. run'.state = "None" /\ run'.forced = run.forced
      BY <1>8 DEF TESTresetShutdownState, TypeOK, Runs
    <2>2. QED
      BY <2>1, QuietStep
  <1>9. CASE UNCHANGED vars
    BY <1>9, QuietStep DEF vars
  <1>10. QED
    BY <1>1, <1>2, <1>3, <1>4, <1>5, <1>6, <1>7, <1>8, <1>9 DEF Next

\* What a client has done is not forgotten.
LEMMA RudeStays ==
    ASSUME [Next]_vars
    PROVE  rude => rude'
  BY DEF Next, vars, Register, Ack, shutdown_client_cancel_registration, initiateShutdown,
         shutdown_timeout, StaleTimeout, shutdown_client_cancel_registration_by_name,
         force_machine, TESTresetShutdownState

\* As long as clients ack once and in their own round, and stay registered through it,
\* no stage of the shutdown begins before every client of the stage before has acked or
\* that stage's timeout has fired (shutdown.c:207-215): for any number of clients, with
\* forced actions, forgotten timeouts and repeated calls in between.
THEOREM StagesSafe == Spec => StageNeedsAcks
  <1> DEFINE Inv == TypeOK /\ HeldAwakeThroughout /\ (~rude => AcksCounted)
  <1>1. shutdown_init => Inv
    <2>1. shutdown_init => AcksCounted
      BY DEF shutdown_init, AcksCounted, RoundOK
    <2>2. QED
      BY <2>1, ShutdownStarts
  <1>2. Inv /\ [Next]_vars => Inv' /\ (~rude' => StageStep)
    BY StepSafe, PoliteStep, RudeStays
  <1>3. Inv /\ [Next]_vars =>
          [~rude' =>
           /\ PassesApps /\ ~TimedOut("AppsProcess") =>
                clients["applications"] \subseteq run'.acked["applications"]
           /\ PassesServices /\ ~TimedOut("ServicesProcess") =>
                clients["services"] \subseteq run'.acked["services"]]_vars
    BY <1>2 DEF StageStep
  <1> HIDE DEF Inv
  <1>4. QED
    BY <1>1, <1>2, <1>3, PTL DEF Spec, StageNeedsAcks
===============================================================================
