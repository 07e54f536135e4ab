--------------------------- MODULE WakeLockClients ---------------------------
(***************************************************************************)
(* suspend_ipc.c: wakeLockRegister and setWakeLock, the kernel wakelocks    *)
(* that bus clients hold by a name of their own, and clientCancel, which    *)
(* takes them back when the registering caller drops off the bus.           *)
(*                                                                          *)
(* Registrations are numbered: a number stands for the unique token of a    *)
(* registering message.  The bus is external: it tells of a dropped caller  *)
(* some time later, in any order, and only for a message that was added to  *)
(* a subscription of com.palm.sleep, the one handle with a cancel function; *)
(* the methods are served on com.webos.service.power too.                   *)
(***************************************************************************)
EXTENDS Naturals

CONSTANTS
    Names,      \* clientId values
    MaxToken,   \* bound: registrations so far
    NoEntry     \* no entry in the table for a name

Tokens == 1 .. MaxToken
Entry == [token : Tokens, held : BOOLEAN]

ASSUME WakeLockAssumption ==
    /\ MaxToken \in Nat
    /\ NoEntry \notin Entry

VARIABLES
    table,      \* sWakeLockClients: the entry of each name
    kernel,     \* names whose wakelock the kernel holds
    issued,     \* registrations so far
    watched,    \* tokens whose caller's end will be told
    gone,       \* tokens whose caller has dropped off the bus
    told,       \* cancellations on their way
    failed      \* history: names whose last write to sysfs failed

vars == <<table, kernel, issued, watched, gone, told, failed>>

Registered(n) == table[n] # NoEntry
Held(n) == Registered(n) /\ table[n].held

-----------------------------------------------------------------------------
\* wakelock_client_sysfs for these names: a write that fails is only logged
Lock(N, ok) ==
    /\ kernel' = IF ok THEN kernel \cup N ELSE kernel
    /\ failed' = IF ok THEN failed \ N ELSE failed \cup N

Unlock(N, ok) ==
    /\ kernel' = IF ok THEN kernel \ N ELSE kernel
    /\ failed' = IF ok THEN failed \ N ELSE failed \cup N

\* wakelock_client_free for the entries of N, whether removed or replaced
Free(N, ok) == Unlock({n \in N : Held(n)}, ok)

\* Mutant: an entry that is replaced is not freed.
RegisterUnfreed(n, added, ok) ==
    /\ issued < MaxToken
    /\ issued' = issued + 1
    /\ table' = [table EXCEPT ![n] = [token |-> issued', held |-> FALSE]]
    /\ watched' = IF added THEN watched \cup {issued'} ELSE watched
    /\ UNCHANGED <<kernel, gone, told, failed>>

\* wakeLockRegister {"register": true}: an earlier entry of the name is replaced.  The
\* bus may refuse to add the message, or watch it on a handle without cancel function.
Register(n, added, ok) ==
    /\ issued < MaxToken
    /\ issued' = issued + 1
    /\ Free({n}, ok)
    /\ table' = [table EXCEPT ![n] = [token |-> issued', held |-> FALSE]]
    /\ watched' = IF added THEN watched \cup {issued'} ELSE watched
    /\ UNCHANGED <<gone, told>>

\* wakeLockRegister {"register": false}
Unregister(n, ok) ==
    /\ Registered(n)
    /\ Free({n}, ok)
    /\ table' = [table EXCEPT ![n] = NoEntry]
    /\ UNCHANGED <<issued, watched, gone, told>>

\* setWakeLock, by any caller that knows the name; without an entry it is an error, and
\* with nothing to change no step
SetWakeLock(n, isWakeup, ok) ==
    /\ Registered(n)
    /\ table[n].held # isWakeup
    /\ IF isWakeup THEN Lock({n}, ok) ELSE Unlock({n}, ok)
    /\ table' = [table EXCEPT ![n].held = isWakeup]
    /\ UNCHANGED <<issued, watched, gone, told>>

\* A caller drops off the bus.
CallerDrops(t) ==
    /\ t <= issued
    /\ t \notin gone
    /\ gone' = gone \cup {t}
    /\ told' = told \cup ({t} \cap watched)
    /\ UNCHANGED <<table, kernel, issued, watched, failed>>

OfToken(t) == {n \in Names : Registered(n) /\ table[n].token = t}

\* Mutant: only an entry whose wakelock is not held is found by its token.
ClientCancelUnheld(t, ok) ==
    /\ t \in told
    /\ told' = told \ {t}
    /\ table' = [n \in Names |-> IF n \in OfToken(t) /\ ~Held(n) THEN NoEntry ELSE table[n]]
    /\ UNCHANGED <<kernel, failed, issued, watched, gone>>

\* Mutant: every entry that has an older registration than the caller's goes with it.
ClientCancelOlder(t, ok) ==
    /\ t \in told
    /\ told' = told \ {t}
    /\ LET N == {n \in Names : Registered(n) /\ table[n].token <= t}
       IN  /\ Free(N, ok)
           /\ table' = [n \in Names |-> IF n \in N THEN NoEntry ELSE table[n]]
    /\ UNCHANGED <<issued, watched, gone>>

\* clientCancel: wakelock_client_cancel_by_token
ClientCancel(t, ok) ==
    /\ t \in told
    /\ told' = told \ {t}
    /\ Free(OfToken(t), ok)
    /\ table' = [n \in Names |-> IF n \in OfToken(t) THEN NoEntry ELSE table[n]]
    /\ UNCHANGED <<issued, watched, gone>>

-----------------------------------------------------------------------------
Init ==
    /\ table = [n \in Names |-> NoEntry]
    /\ kernel = {}
    /\ issued = 0
    /\ watched = {} /\ gone = {} /\ told = {}
    /\ failed = {}

Next ==
    \E ok \in BOOLEAN :
        \/ \E n \in Names :
            \/ \E added \in BOOLEAN : Register(n, added, ok)
            \/ Unregister(n, ok)
            \/ \E isWakeup \in BOOLEAN : SetWakeLock(n, isWakeup, ok)
        \/ \E t \in Tokens : ClientCancel(t, ok) \/ CallerDrops(t)

Spec == Init /\ [][Next]_vars

\* The bus delivers what it has to tell.
FairSpec ==
    /\ Spec
    /\ WF_vars(\E t \in Tokens, ok \in BOOLEAN : ClientCancel(t, ok))

-----------------------------------------------------------------------------
(* Properties.                                                              *)

\* The types of the table and of what the bus knows of its registrations.
TypeOK ==
    /\ table \in [Names -> Entry \cup {NoEntry}]
    /\ kernel \subseteq Names
    /\ issued \in 0 .. MaxToken
    /\ {watched, gone, told} \subseteq SUBSET (1 .. issued)
    /\ failed \subseteq Names

\* Registrations, replacements, cancellations and wakelocks never get out of step: the
\* kernel holds the wakelock of a name exactly while its entry says so, unless the last
\* write for the name failed.
KernelFollowsTable ==
    \A n \in Names \ failed : n \in kernel <=> Held(n)

\* A cancellation that arrives late, after the name has been registered anew, takes
\* nothing from a caller that is still there.
OnlyTheGoneAreCancelled ==
    [][\A n \in Names : Registered(n) /\ table'[n] = NoEntry =>
           table[n].token \in gone \/ \E ok \in BOOLEAN : Unregister(n, ok)]_vars

\* A crashed client does not leak its wakelock: the entry of a caller that is gone goes
\* too, if the bus watched it.
CrashedClientsAreReleased ==
    \A n \in Names, t \in Tokens :
        (t \in gone \cap watched /\ n \in OfToken(t)) ~> ~(n \in OfToken(t))

=============================================================================
