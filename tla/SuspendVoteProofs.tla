--------------------------- MODULE SuspendVoteProofs ---------------------------
(***************************************************************************)
(* The soundness of the two votes of a suspend cycle, for any number of    *)
(* clients: that the counters of client.c decide as the answers do.        *)
(*                                                                         *)
(* It holds for clients that keep to the protocol, which answer a          *)
(* broadcast once, and come and go between the cycles: run VoteRevotes has *)
(* what happens to the counters otherwise.                                 *)
(***************************************************************************)
EXTENDS SuspendProofs, FiniteSetTheorems

\* The clients whose ACK for round r is on record.
Acked(r) == {c \in req[r] : ack[r][c] = "ACK"}

\* Where round r waits for answers, and from where on its counters stand.
Open(r) == IF r = "SR" THEN {"SRWait", "SRDecide"} ELSE {"PSWait", "PSDecide"}
Counted(r) == Open(r) \cup (IF r = "SR" THEN {} ELSE {"SRWait", "SRDecide", "PrepareSuspend"})

\* The counters of round r are those of the clients that require it and of the ACKs on
\* record, as far as the walk of PwrEventVoteInit has come; a client has a signal to
\* answer only in its round, and has then not acknowledged it yet.
RoundInv(r) ==
    /\ req[r] \subseteq table
    /\ pc \notin Open(r) => asked[r] = {}
    /\ \A c \in asked[r] : c \in req[r] /\ ack[r][c] # "ACK"
    /\ pc = "VoteInit" => /\ numAck[r] = 0 /\ num[r] = Cardinality(req[r] \ todo)
                          /\ \A c \in table \ todo : ack[r][c] = "NORSP"
    /\ pc \in Counted(r) => num[r] = Cardinality(req[r]) /\ numAck[r] = Cardinality(Acked(r))
    /\ pc \in Counted(r) \ Open(r) => Acked(r) = {}

WalkInv == todo \subseteq table /\ (pc # "VoteInit" => todo = {})

VoteInv == WalkInv /\ \A r \in Rounds : RoundInv(r)

VotePoints == {"VoteInit", "SRWait", "SRDecide", "PrepareSuspend", "PSWait", "PSDecide"}

\* The steps that move a vote, besides the client steps.
BallotStep ==
    \/ SendSuspendRequest \/ DecideSuspendRequest
    \/ StatePrepareSuspend \/ DecidePrepareSuspend

-------------------------------------------------------------------------------
\* Every other step leaves table, counters and signals alone, and the vote where it is
\* or at the end of its wait.
LEMMA VoteFrame ==
    ASSUME TypeOK, [Next]_vars, ~ClientStep, ~BallotStep
    PROVE  /\ UNCHANGED <<clientVars, asked>>
           /\ \/ UNCHANGED pc
              \/ pc = "SRWait" /\ pc' = "SRDecide"
              \/ pc = "PSWait" /\ pc' = "PSDecide"
              \/ pc \notin VotePoints /\ pc' \notin VotePoints
  <1>1. UNCHANGED clientVars
    BY ClientFrame
  <1>2. CASE CycleStep
    <2>1. UNCHANGED asked
      BY <1>2 DEF CycleStep, BallotStep, ClientStep, SuspendStateUpdate, StateOn, StateOnIdle,
         WaitTimesOut, WaitObjectWait, StateSleep, SleepActivities, SleepVetoes, MachineSleep,
         MachineSleepRefused, KernelWakes, SleepReturns, StateAbortSuspend, StateKernelResume,
         StateActivityResume, _stateResume
    <2>2. CASE SuspendStateUpdate \/ StateOn \/ StateOnIdle \/ WaitTimesOut
      BY <2>2 DEF SuspendStateUpdate, StateOn, StateOnIdle, WaitTimesOut, WaitObjectWait, SuspendAt,
         VotePoints, TypeOK, ThreadTypeOK, Events
    <2>3. CASE \/ StateSleep \/ SleepActivities \/ SleepVetoes \/ MachineSleep
               \/ MachineSleepRefused \/ KernelWakes \/ SleepReturns
      BY <2>3 DEF StateSleep, SleepActivities, SleepVetoes, MachineSleep, MachineSleepRefused,
         LeaveSleep, KernelWakes, SleepReturns, SuspendAt, VotePoints
    <2>4. CASE StateAbortSuspend \/ StateKernelResume \/ StateActivityResume
      BY <2>4 DEF StateAbortSuspend, StateKernelResume, StateActivityResume, _stateResume,
         SuspendAt, VotePoints
    <2>5. QED
      BY <1>1, <1>2, <2>1, <2>2, <2>3, <2>4 DEF CycleStep, BallotStep, ClientStep
  <1>3. CASE ~CycleStep
    <2>1. UNCHANGED asked
      BY <1>3 DEF Next, ClientStep, MainBegins, ActivityStart, ActivityStop, forceSuspendCallback,
         resumeCallback, SuspendInhibitForShutdown, ChargerStatus, DisplayStatusCb,
         DisplayServerStatusCb, _rtc_alarm_fired, MainContinues, ActivityStartUnlock,
         ActivityStartInsert, ActivityStartLock, ActivityStopUnlock, SignalSuspendResponse,
         SignalPrepareSuspend, WaitObjectSignal, ShutdownLock, IdleCheck, SpuriousWakeup,
         TimePasses, WaitObjectWait, HoldEnds, ActivityExpires, vars
    <2>2. QED
      BY <1>1, <1>3, <2>1, OthersMoveOnly DEF Next
  <1>4. QED
    BY <1>2, <1>3

\* Every set of clients is finite, and so is its count.
LEMMA ClientSets ==
    ASSUME NEW S \in SUBSET Clients
    PROVE  IsFiniteSet(S) /\ Cardinality(S) \in Nat
  BY ClientsAssumption, FS_Subset, FS_CardinalityType

\* Between the cycles the table and the require flags change freely.
LEMMA RegistrationStep ==
    ASSUME TypeOK, VoteInv, ~Churn, NEW c \in Clients, NEW reg \in BOOLEAN,
           \/ identifyCallback(c) \/ clientCancel(c)
           \/ suspendRequestRegister(c, reg) \/ prepareSuspendRegister(c, reg)
    PROVE  VoteInv'
  <1>1. pc \in {"loop", "On"} /\ pc' = pc
    BY DEF identifyCallback, clientCancel, suspendRequestRegister, prepareSuspendRegister,
       TableMayChange, InStateOn, threadVars
  <1>2. todo = {} /\ todo' = {}
    BY <1>1 DEF VoteInv, WalkInv, identifyCallback, clientCancel, suspendRequestRegister,
       prepareSuspendRegister, PwrEventClientRegister, PwrEventClientUnregister,
       PwrEventClientSuspendRequestRegister, PwrEventClientPrepareSuspendRegister,
       RequireRound, clientVars
  <1>3. ASSUME NEW r \in Rounds
        PROVE  asked[r] = {} /\ asked'[r] = {}
    <2>1. asked[r] = {}
      BY <1>1 DEF VoteInv, RoundInv, Open
    <2>2. QED
      BY <2>1 DEF identifyCallback, clientCancel, suspendRequestRegister, prepareSuspendRegister,
         TypeOK, ThreadTypeOK
  <1>4. ASSUME NEW r \in Rounds
        PROVE  req'[r] \subseteq table'
    <2>1. req[r] \subseteq table /\ req \in [Rounds -> SUBSET Clients]
      BY DEF VoteInv, RoundInv, TypeOK, ClientsTypeOK
    <2>2. CASE identifyCallback(c) \/ clientCancel(c)
      BY <2>1, <2>2 DEF identifyCallback, clientCancel, PwrEventClientRegister,
         PwrEventClientUnregister, ForgetEntry
    <2>3. CASE suspendRequestRegister(c, reg) \/ prepareSuspendRegister(c, reg)
      BY <2>1, <2>3 DEF suspendRequestRegister, prepareSuspendRegister,
         PwrEventClientSuspendRequestRegister, PwrEventClientPrepareSuspendRegister,
         RequireRound, clientVars, Rounds
    <2>4. QED
      BY <2>2, <2>3
  <1>5. QED
    BY <1>1, <1>2, <1>3, <1>4 DEF VoteInv, WalkInv, RoundInv, Open, Counted

\* An answer is counted once.
LEMMA AnswerStep ==
    ASSUME TypeOK, VoteInv, ~Revotes, NEW c \in Clients, NEW a \in {"ACK", "NACK"},
           suspendRequestAck(c, a) \/ prepareSuspendAck(c, a)
    PROVE  VoteInv'
  <1>1. PICK v \in Rounds : /\ c \in asked[v] /\ Vote(v, c, a)
                            /\ asked' = [asked EXCEPT ![v] = @ \ {c}] /\ UNCHANGED pc
    BY DEF suspendRequestAck, prepareSuspendAck, MayVote, PwrEventVoteSuspendRequest,
       PwrEventVotePrepareSuspend, AfterVote, Rounds, threadVars
  <1>2. /\ ack' = [ack EXCEPT ![v][c] = a] /\ UNCHANGED <<table, req, num, todo>>
        /\ numAck' = [numAck EXCEPT ![v] = CountedAcks(v, c, a)]
    BY <1>1 DEF Vote
  <1>3. /\ ack \in [Rounds -> [Clients -> Answers]] /\ numAck \in [Rounds -> Int]
        /\ asked \in [Rounds -> SUBSET Clients] /\ req \in [Rounds -> SUBSET Clients]
    BY DEF TypeOK, ClientsTypeOK, ThreadTypeOK
  <1>4. pc \in Open(v) /\ c \in req[v] /\ ack[v][c] # "ACK"
    BY <1>1 DEF VoteInv, RoundInv
  <1>5. pc # "VoteInit" /\ (v = "SR" => pc \notin Open("PS")) /\ (v = "PS" => pc \notin Counted("SR"))
    BY <1>4 DEF Open, Counted, Rounds
  <1>6. RoundInv(v)'
    <2>1. /\ req[v] \subseteq table /\ num[v] = Cardinality(req[v])
          /\ numAck[v] = Cardinality(Acked(v))
          /\ \A d \in asked[v] : d \in req[v] /\ ack[v][d] # "ACK"
      BY <1>4 DEF VoteInv, RoundInv, Counted
    <2>2. /\ ack'[v] = [ack[v] EXCEPT ![c] = a] /\ numAck'[v] = CountedAcks(v, c, a)
          /\ asked'[v] = asked[v] \ {c}
      BY <1>1, <1>2, <1>3
    <2>3. Acked(v) \in SUBSET Clients /\ c \notin Acked(v)
      BY <1>3, <1>4 DEF Acked
    <2>4. numAck'[v] = Cardinality(Acked(v)')
      <3>1. CASE a = "ACK"
        <4>1. Acked(v)' = Acked(v) \cup {c}
          BY <1>2, <1>3, <1>4, <2>2, <3>1 DEF Acked
        <4>2. Cardinality(Acked(v) \cup {c}) = Cardinality(Acked(v)) + 1
          BY <2>3, ClientSets, FS_AddElement
        <4>3. QED
          BY <1>4, <2>1, <2>2, <3>1, <4>1, <4>2 DEF CountedAcks
      <3>2. CASE a = "NACK"
        <4>1. Acked(v)' = Acked(v)
          BY <1>2, <1>3, <1>4, <2>2, <3>2 DEF Acked
        <4>2. QED
          BY <2>1, <2>2, <3>2, <4>1 DEF CountedAcks
      <3>3. QED
        BY <3>1, <3>2
    <2>5. \A d \in asked'[v] : d \in req'[v] /\ ack'[v][d] # "ACK"
      BY <1>2, <1>3, <2>1, <2>2
    <2>6. QED
      BY <1>1, <1>2, <1>4, <1>5, <2>1, <2>4, <2>5 DEF RoundInv
  <1>7. ASSUME NEW r \in Rounds, r # v
        PROVE  RoundInv(r)'
    <2>1. ack'[r] = ack[r] /\ numAck'[r] = numAck[r] /\ asked'[r] = asked[r]
      BY <1>1, <1>2, <1>3, <1>7
    <2>2. RoundInv(r)
      BY DEF VoteInv
    <2>3. Acked(r)' = Acked(r)
      BY <1>2, <2>1 DEF Acked
    <2>4. QED
      BY <1>1, <1>2, <2>1, <2>2, <2>3 DEF RoundInv, Open, Counted
  <1>8. QED
    BY <1>1, <1>2, <1>6, <1>7 DEF VoteInv, WalkInv

\* PwrEventVoteInit starts the counters of both rounds from zero, and its walk counts
\* every client once.
LEMMA RecountStep ==
    ASSUME TypeOK, VoteInv, StateSuspendRequest \/ \E c \in Clients : CountClient(c)
    PROVE  VoteInv'
  <1>0. /\ ack \in [Rounds -> [Clients -> Answers]] /\ table \in SUBSET Clients
        /\ req \in [Rounds -> SUBSET Clients] /\ num \in [Rounds -> Int]
        /\ \A r \in Rounds : req[r] \subseteq table
    BY DEF TypeOK, ClientsTypeOK, VoteInv, RoundInv
  <1>1. CASE StateSuspendRequest
    <2>1. /\ pc = "SuspendRequest" /\ pc' = "VoteInit" /\ todo' = table
          /\ UNCHANGED <<table, req, ack, asked>>
          /\ \A r \in Rounds : num'[r] = 0 /\ numAck'[r] = 0
      BY <1>1 DEF StateSuspendRequest, SuspendAt, PwrEventVoteInit
    <2>2. \A r \in Rounds : asked[r] = {}
      BY <2>1 DEF VoteInv, RoundInv, Open
    <2>3. \A r \in Rounds : Cardinality(req'[r] \ todo') = 0
      <3>1. \A r \in Rounds : req'[r] \ todo' = {}
        BY <1>0, <2>1
      <3>2. QED
        BY <3>1, FS_EmptySet
    <2>4. QED
      BY <1>0, <2>1, <2>2, <2>3 DEF VoteInv, WalkInv, RoundInv, Open, Counted
  <1>2. ASSUME NEW c \in Clients, CountClient(c)
        PROVE  VoteInv'
    <2>1. /\ pc = "VoteInit" /\ pc' = pc /\ c \in todo /\ todo' = todo \ {c}
          /\ UNCHANGED <<table, req, numAck, asked>>
          /\ ack' = [r \in Rounds |-> [ack[r] EXCEPT ![c] = "NORSP"]]
          /\ num' = [r \in Rounds |-> IF c \in req[r] THEN num[r] + 1 ELSE num[r]]
      BY <1>2 DEF CountClient, SuspendAt, PwrEventVoteInitHelper, threadVars
    <2>2. ASSUME NEW r \in Rounds
          PROVE  RoundInv(r)'
      <3>1. /\ asked[r] = {} /\ numAck[r] = 0 /\ num[r] = Cardinality(req[r] \ todo)
            /\ \A d \in table \ todo : ack[r][d] = "NORSP"
        BY <2>1 DEF VoteInv, RoundInv, Open
      <3>2. num'[r] = Cardinality(req[r] \ (todo \ {c}))
        <4>1. req[r] \ todo \in SUBSET Clients /\ c \notin req[r] \ todo
          BY <1>0, <2>1
        <4>2. CASE c \in req[r]
          <5>1. req[r] \ (todo \ {c}) = (req[r] \ todo) \cup {c}
            BY <4>2
          <5>2. Cardinality((req[r] \ todo) \cup {c}) = Cardinality(req[r] \ todo) + 1
            BY <4>1, ClientSets, FS_AddElement
          <5>3. QED
            BY <2>1, <3>1, <4>2, <5>1, <5>2
        <4>3. CASE c \notin req[r]
          <5>1. req[r] \ (todo \ {c}) = req[r] \ todo
            BY <4>3
          <5>2. QED
            BY <2>1, <3>1, <4>3, <5>1
        <4>4. QED
          BY <4>2, <4>3
      <3>3. \A d \in table \ (todo \ {c}) : ack'[r][d] = "NORSP"
        BY <1>0, <2>1, <3>1
      <3>4. QED
        BY <1>0, <2>1, <3>1, <3>2, <3>3 DEF RoundInv, Open, Counted
    <2>3. QED
      BY <2>1, <2>2 DEF VoteInv, WalkInv
  <1>3. QED
    BY <1>1, <1>2

\* The broadcasts and the decisions find and leave the counters right.
LEMMA BallotInvStep ==
    ASSUME TypeOK, VoteInv, ~Revotes, BallotStep
    PROVE  VoteInv'
  <1>0. /\ UNCHANGED clientVars /\ asked \in [Rounds -> SUBSET Clients]
        /\ \A r \in Rounds : RoundInv(r) /\ Acked(r)' = Acked(r)
    BY DEF BallotStep, SendSuspendRequest, DecideSuspendRequest, StatePrepareSuspend,
       DecidePrepareSuspend, TypeOK, ThreadTypeOK, VoteInv, clientVars, Acked
  <1>1. CASE SendSuspendRequest
    <2>1. /\ pc = "VoteInit" /\ pc' \in {"SRWait", "SRDecide"} /\ todo = {}
          /\ asked' = [asked EXCEPT !["SR"] = req["SR"]]
      BY <1>1 DEF SendSuspendRequest, SuspendAt, Ask
    <2>2. ASSUME NEW r \in Rounds
          PROVE  /\ num[r] = Cardinality(req[r]) /\ Acked(r) = {} /\ numAck[r] = 0
                 /\ req[r] \subseteq table /\ asked[r] = {}
      <3>1. req[r] \ todo = req[r] /\ table \ todo = table
        BY <2>1
      <3>2. QED
        BY <1>0, <2>1, <3>1 DEF RoundInv, Acked, Open
    <2>3. ASSUME NEW r \in Rounds
          PROVE  RoundInv(r)'
      <3>1. numAck[r] = Cardinality(Acked(r))
        BY <2>2, FS_EmptySet
      <3>2. asked'[r] = IF r = "SR" THEN req[r] ELSE {}
        BY <1>0, <2>1, <2>2 DEF Rounds
      <3>3. \A c \in asked'[r] : c \in req[r] /\ ack[r][c] # "ACK"
        BY <2>2, <3>2 DEF Acked
      <3>4. pc' \notin Open(r) => asked'[r] = {}
        BY <2>1, <3>2 DEF Open
      <3>5. QED
        BY <1>0, <2>1, <2>2, <3>1, <3>3, <3>4 DEF RoundInv, clientVars
    <2>4. QED
      BY <1>0, <2>1, <2>3 DEF VoteInv, WalkInv, clientVars
  <1>2. CASE DecideSuspendRequest
    <2>1. /\ pc = "SRDecide" /\ pc' \in {"PrepareSuspend", "On"}
          /\ asked' = [asked EXCEPT !["SR"] = {}]
      BY <1>2 DEF DecideSuspendRequest, SuspendAt, Close
    <2>2. ASSUME NEW r \in Rounds
          PROVE  RoundInv(r)'
      <3>1. asked'[r] = {}
        BY <1>0, <2>1 DEF RoundInv, Open, Rounds
      <3>2. pc' \in Counted(r) => pc \in Counted(r) /\ pc \notin Open(r)
        BY <2>1 DEF Open, Counted, Rounds
      <3>3. QED
        BY <1>0, <2>1, <3>1, <3>2 DEF RoundInv, clientVars
    <2>3. QED
      BY <1>0, <2>1, <2>2 DEF VoteInv, WalkInv, clientVars
  <1>3. CASE StatePrepareSuspend
    <2>1. /\ pc = "PrepareSuspend" /\ pc' \in {"PSWait", "PSDecide"}
          /\ asked' = [asked EXCEPT !["PS"] = req["PS"]]
      BY <1>3 DEF StatePrepareSuspend, SuspendAt, Ask
    <2>2. RoundInv("PS")'
      <3>1. /\ num["PS"] = Cardinality(req["PS"]) /\ numAck["PS"] = Cardinality(Acked("PS"))
            /\ Acked("PS") = {} /\ req["PS"] \subseteq table
        BY <1>0, <2>1 DEF RoundInv, Open, Counted, Rounds
      <3>2. asked'["PS"] = req["PS"] /\ \A c \in req["PS"] : ack["PS"][c] # "ACK"
        BY <1>0, <2>1, <3>1 DEF Acked, Rounds
      <3>3. Acked("PS")' = Acked("PS")
        BY <1>0 DEF Rounds
      <3>4. QED
        BY <1>0, <2>1, <3>1, <3>2, <3>3 DEF RoundInv, Open, Counted, clientVars
    <2>3. RoundInv("SR")'
      <3>1. asked'["SR"] = {} /\ req["SR"] \subseteq table
        BY <1>0, <2>1 DEF RoundInv, Open, Rounds
      <3>2. QED
        BY <1>0, <2>1, <3>1 DEF RoundInv, Open, Counted, clientVars
    <2>4. QED
      BY <1>0, <2>1, <2>2, <2>3 DEF VoteInv, WalkInv, clientVars, Rounds
  <1>4. CASE DecidePrepareSuspend
    <2>1. /\ pc = "PSDecide" /\ pc' \in {"Sleep", "AbortSuspend"}
          /\ asked' = [asked EXCEPT !["PS"] = {}]
      BY <1>4 DEF DecidePrepareSuspend, SuspendAt, Close
    <2>2. ASSUME NEW r \in Rounds
          PROVE  RoundInv(r)'
      <3>1. asked'[r] = {} /\ req[r] \subseteq table
        BY <1>0, <2>1 DEF RoundInv, Open, Rounds
      <3>2. QED
        BY <1>0, <2>1, <3>1 DEF RoundInv, Open, Counted, clientVars
    <2>3. QED
      BY <1>0, <2>1, <2>2 DEF VoteInv, WalkInv, clientVars
  <1>5. QED
    BY <1>1, <1>2, <1>3, <1>4 DEF BallotStep

\* Every step keeps the counters right.
LEMMA VoteInvStep == ~Churn /\ ~Revotes /\ TypeOK /\ VoteInv /\ [Next]_vars => VoteInv'
  <1> SUFFICES ASSUME ~Churn, ~Revotes, TypeOK, VoteInv, [Next]_vars
               PROVE  VoteInv'
    OBVIOUS
  <1>1. CASE ClientStep
    <2>1. TRUE \in BOOLEAN
      OBVIOUS
    <2>2. QED
      BY <1>1, <2>1, RegistrationStep, AnswerStep, RecountStep DEF ClientStep
  <1>2. CASE BallotStep
    BY <1>2, BallotInvStep
  <1>3. CASE ~ClientStep /\ ~BallotStep
    <2>1. /\ UNCHANGED <<table, req, ack, num, numAck, todo, asked>>
          /\ \/ UNCHANGED pc
             \/ pc = "SRWait" /\ pc' = "SRDecide"
             \/ pc = "PSWait" /\ pc' = "PSDecide"
             \/ pc \notin VotePoints /\ pc' \notin VotePoints
      BY <1>3, VoteFrame DEF clientVars
    <2>2. ASSUME NEW r \in Rounds
          PROVE  RoundInv(r)'
      <3>1. RoundInv(r) /\ Acked(r)' = Acked(r)
        BY <2>1 DEF VoteInv, Acked
      <3>2. /\ (pc' \in Open(r) <=> pc \in Open(r)) /\ (pc' \in Counted(r) <=> pc \in Counted(r))
            /\ (pc' = "VoteInit" <=> pc = "VoteInit")
        BY <2>1 DEF Open, Counted, VotePoints
      <3>3. QED
        BY <2>1, <3>1, <3>2 DEF RoundInv, Open, Counted
    <2>3. QED
      BY <2>1, <2>2 DEF VoteInv, WalkInv, VotePoints
  <1>4. QED
    BY <1>1, <1>2, <1>3

-------------------------------------------------------------------------------
(* Theorems. *)

\* For any number of clients that keep to the protocol, the counters are right.
THEOREM VoteInvariant == ASSUME ~Churn, ~Revotes PROVE Spec => []VoteInv
  <1>1. SuspendInit => VoteInv
    BY FS_EmptySet DEF SuspendInit, PwrEventClientTableCreate, VoteInv, WalkInv, RoundInv, Open,
       Counted
  <1>2. TypeOK /\ VoteInv /\ [Next]_vars => VoteInv'
    BY VoteInvStep
  <1>3. QED
    BY <1>1, <1>2, TypeCorrect, PTL DEF Spec

\* For any number of clients that keep to the protocol, and wherever timeouts, spurious
\* wakeups and late signals end the waits: a round that does not time out passes only
\* with the ACK of every client that requires it (client.c:599-697, suspend.c:738-905).
THEOREM VoteSafe == ASSUME ~Churn, ~Revotes PROVE Spec => ApprovalNeedsEveryAck
  <1> DEFINE Passes(r) == /\ pc = (IF r = "SR" THEN "SRDecide" ELSE "PSDecide")
                          /\ pc' = (IF r = "SR" THEN "PrepareSuspend" ELSE "Sleep")
                          /\ ~timedout
  <1>1. TypeOK /\ VoteInv /\ [Next]_vars =>
            [\A r \in Rounds : Passes(r) => \A c \in req[r] : ack[r][c] = "ACK"]_vars
    <2> SUFFICES ASSUME TypeOK, VoteInv, [Next]_vars, NEW r \in Rounds, Passes(r)
                 PROVE  \A c \in req[r] : ack[r][c] = "ACK"
      OBVIOUS
    <2>1. BallotStep
      <3>1. CASE ClientStep
        <4>1. pc' = pc \/ pc = "SuspendRequest"
          BY <3>1 DEF ClientStep, identifyCallback, clientCancel, suspendRequestRegister,
             prepareSuspendRegister, suspendRequestAck, prepareSuspendAck, AfterVote,
             StateSuspendRequest, CountClient, SuspendAt, threadVars
        <4>2. QED
          BY <4>1 DEF Rounds
      <3>2. CASE ~ClientStep /\ ~BallotStep
        BY <3>2, VoteFrame DEF VotePoints, Rounds
      <3>3. QED
        BY <3>1, <3>2
    <2>2. numAck[r] >= num[r]
      BY <2>1 DEF BallotStep, SendSuspendRequest, DecideSuspendRequest, StatePrepareSuspend,
         DecidePrepareSuspend, SuspendAt, RoundPasses, Approve, Rounds
    <2>3. num[r] = Cardinality(req[r]) /\ numAck[r] = Cardinality(Acked(r))
      BY DEF VoteInv, RoundInv, Open, Counted, Rounds
    <2>4. req[r] \in SUBSET Clients /\ Acked(r) \in SUBSET req[r]
      BY DEF TypeOK, ClientsTypeOK, Acked
    <2>5. /\ IsFiniteSet(req[r]) /\ Cardinality(req[r]) \in Nat /\ Cardinality(Acked(r)) \in Nat
      BY <2>4, ClientSets
    <2>6. Acked(r) = req[r]
      BY <2>2, <2>3, <2>4, <2>5, FS_Subset
    <2>7. QED
      BY <2>6 DEF Acked
  <1>2. QED
    BY <1>1, VoteInvariant, TypeCorrect, PTL DEF Spec, ApprovalNeedsEveryAck
===============================================================================
