------------------------------ MODULE PwrClients ------------------------------
(***************************************************************************)
(* The table of suspend clients and the two vote counters of               *)
(* pwrevents/client.c.                                                     *)
(*                                                                         *)
(* A client takes part in up to two voting rounds: "SR" (suspendRequest)   *)
(* and "PS" (prepareSuspend).  The daemon does not count the table when it *)
(* needs a decision: it keeps four counters beside the table, and both are *)
(* touched by the main thread (the luna handlers) and by the suspend       *)
(* thread (PwrEventVoteInit) with no lock.                                 *)
(*                                                                         *)
(* The operators below are action fragments over clientVars: module        *)
(* Suspend conjoins each with what its caller does to the other variables. *)
(***************************************************************************)
EXTENDS Integers, FiniteSets

CONSTANTS Clients,      \* the uids of the processes on the bus
          MaxCount      \* bound: how far the vote counters may drift

ASSUME ClientsAssumption == IsFiniteSet(Clients) /\ MaxCount \in Nat

VARIABLES table,    \* sClientList: the uids that have identified themselves
          req,      \* req[r]: clients whose require flag for round r is set
          ack,      \* ack[r][c]: ackSuspendRequest / ackPrepareSuspend
          num,      \* num[r]: sNumSuspendRequest / sNumPrepareSuspend
          numAck,   \* numAck[r]: sNumSuspendRequestAck / sNumPrepareSuspendAck
          todo      \* clients PwrEventVoteInit has still to visit

clientVars == <<table, req, ack, num, numAck, todo>>

Rounds == {"SR", "PS"}
Answers == {"NORSP", "ACK", "NACK"}

ClientsTypeOK ==
    /\ table \in SUBSET Clients
    /\ req \in [Rounds -> SUBSET Clients]
    /\ ack \in [Rounds -> [Clients -> Answers]]
    /\ num \in [Rounds -> Int]
    /\ numAck \in [Rounds -> Int]
    /\ todo \in SUBSET Clients

PwrEventClientTableCreate ==
    /\ table = {}
    /\ req = [r \in Rounds |-> {}]
    /\ ack = [r \in Rounds |-> [c \in Clients |-> "NORSP"]]
    /\ num = [r \in Rounds |-> 0]
    /\ numAck = [r \in Rounds |-> 0]
    /\ todo = {}

-------------------------------------------------------------------------------
(* Registration (main thread). *)

\* The entry of c goes away, or is replaced by a fresh one: either way its
\* require flags and its answers are forgotten.  The counters are not told.
ForgetEntry(c) ==
    /\ req' = [r \in Rounds |-> req[r] \ {c}]
    /\ ack' = [r \in Rounds |-> [ack[r] EXCEPT ![c] = "NORSP"]]
    /\ UNCHANGED <<num, numAck>>

\* Replaces an entry that is already there.  If the hash table is being walked
\* by PwrEventVoteInit, the walk may or may not meet the new entry.
PwrEventClientRegister(c) ==
    /\ table' = table \cup {c}
    /\ ForgetEntry(c)
    /\ todo' \in IF todo = {} THEN {{}} ELSE {todo \ {c}, todo \cup {c}}

PwrEventClientUnregister(c) ==
    /\ table' = table \ {c}
    /\ ForgetEntry(c)
    /\ todo' = todo \ {c}

\* What an unlocked "num += d" leaves behind.  While the suspend thread is
\* incrementing the same counter for some client it has still to visit, either
\* of the two updates may be lost.
RacyAdd(r, d) ==
    IF todo \cap req[r] # {}
    THEN {num[r] + d, num[r], num[r] + d - 1}
    ELSE {num[r] + d}

\* Sets or clears the require flag of c for round r; nothing when c is unknown
\* or the flag already has that value.
RequireRound(r, c, reg) ==
    IF c \in table /\ (c \in req[r]) # reg
    THEN /\ req' = [req EXCEPT ![r] = IF reg THEN @ \cup {c} ELSE @ \ {c}]
         /\ \E n \in RacyAdd(r, IF reg THEN 1 ELSE -1) :
                /\ n \in (-MaxCount) .. MaxCount
                /\ num' = [num EXCEPT ![r] = n]
         /\ UNCHANGED <<table, ack, numAck, todo>>
    ELSE UNCHANGED clientVars

PwrEventClientSuspendRequestRegister(c, reg) == RequireRound("SR", c, reg)

PwrEventClientPrepareSuspendRegister(c, reg) == RequireRound("PS", c, reg)

-------------------------------------------------------------------------------
(* Voting. *)

\* The test is on the counters, never on the table.
Approve(r) == numAck[r] >= num[r]

PwrEventClientsApproveSuspendRequest == Approve("SR")

PwrEventClientsApprovePrepareSuspend == Approve("PS")

\* Mutant: the ack counts of the last cycle are kept.
VoteInitKeepsAcks ==
    /\ num' = [r \in Rounds |-> 0]
    /\ todo' = table
    /\ UNCHANGED <<table, req, ack, numAck>>

\* PwrEventVoteInit: the counters of BOTH rounds are zeroed, then the table is
\* walked in an order of the hash table's choosing.
PwrEventVoteInit ==
    /\ num' = [r \in Rounds |-> 0]
    /\ numAck' = [r \in Rounds |-> 0]
    /\ todo' = table
    /\ UNCHANGED <<table, req, ack>>

PwrEventVoteInitHelper(c) ==
    /\ c \in todo
    /\ todo' = todo \ {c}
    /\ ack' = [r \in Rounds |-> [ack[r] EXCEPT ![c] = "NORSP"]]
    /\ num' = [r \in Rounds |-> IF c \in req[r] THEN num[r] + 1 ELSE num[r]]
    /\ UNCHANGED <<table, req, numAck>>

\* The ack count a vote leaves behind.  An answer equal to the one on record is
\* not counted again; an ACK that turns into a NACK is not taken back.
CountedAcks(r, c, a) ==
    IF a = "ACK" /\ ack[r][c] # "ACK" THEN numAck[r] + 1 ELSE numAck[r]

\* Records the answer of c (which is in the table: the handlers look it up).
Vote(r, c, a) ==
    /\ CountedAcks(r, c, a) <= MaxCount
    /\ ack' = [ack EXCEPT ![r][c] = a]
    /\ numAck' = [numAck EXCEPT ![r] = CountedAcks(r, c, a)]
    /\ UNCHANGED <<table, req, num, todo>>

\* The value a vote returns: true asks the handler to wake the suspend thread.
VoteDecides(r, a) == a = "NACK" \/ Approve(r)'

PwrEventVoteSuspendRequest(c, a) == Vote("SR", c, a)

PwrEventVotePrepareSuspend(c, a) == Vote("PS", c, a)
===============================================================================
