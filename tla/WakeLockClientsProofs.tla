------------------------ MODULE WakeLockClientsProofs ------------------------
(***************************************************************************)
(* Proofs about module WakeLockClients, for any set of names and any number *)
(* of registrations.                                                        *)
(***************************************************************************)
EXTENDS WakeLockClients, TLAPS

\* A cancellation on its way is for a caller that has dropped off the bus.
ToldAreGone == told \subseteq gone

WakeLockInv == TypeOK /\ KernelFollowsTable /\ ToldAreGone

\* What wakelock_client_free leaves behind for the entries of N: kernel and history
\* agree that none of them is held (suspend_ipc.c:179-193).
LEMMA FreeReleases ==
    ASSUME TypeOK, KernelFollowsTable, NEW N \in SUBSET Names, NEW ok \in BOOLEAN, Free(N, ok)
    PROVE  /\ kernel' \subseteq Names /\ failed' \subseteq Names
           /\ \A n \in N \ failed' : n \notin kernel'
           /\ \A n \in (Names \ N) \ failed' : n \in kernel' <=> Held(n)
  BY DEF TypeOK, KernelFollowsTable, Free, Unlock

\* Every operation keeps types, table, kernel and cancellations in step.
LEMMA WakeLockStep == WakeLockInv /\ [Next]_vars => WakeLockInv'
  <1> SUFFICES ASSUME WakeLockInv, [Next]_vars
               PROVE  WakeLockInv'
    OBVIOUS
  <1> USE WakeLockAssumption
  <1>0. TypeOK /\ KernelFollowsTable /\ ToldAreGone
    BY DEF WakeLockInv
  <1>1. ASSUME NEW n \in Names, NEW added \in BOOLEAN, NEW ok \in BOOLEAN, Register(n, added, ok)
        PROVE  WakeLockInv'
    <2>1. Free({n}, ok)
      BY <1>1 DEF Register
    <2>2. /\ kernel' \subseteq Names /\ failed' \subseteq Names
          /\ \A m \in {n} \ failed' : m \notin kernel'
          /\ \A m \in (Names \ {n}) \ failed' : m \in kernel' <=> Held(m)
      BY <1>0, <2>1, FreeReleases
    <2>3. /\ issued' = issued + 1 /\ issued' \in 1 .. MaxToken
          /\ [token |-> issued', held |-> FALSE] \in Entry
      BY <1>0, <1>1 DEF Register, TypeOK, Entry, Tokens
    <2>4. table' \in [Names -> Entry \cup {NoEntry}]
      BY <1>0, <1>1, <2>3 DEF Register, TypeOK
    <2>5. TypeOK'
      BY <1>0, <1>1, <2>2, <2>3, <2>4 DEF Register, TypeOK
    <2>6. KernelFollowsTable'
      BY <1>0, <1>1, <2>2, <2>3 DEF Register, TypeOK, KernelFollowsTable, Held, Registered
    <2>7. ToldAreGone'
      BY <1>0, <1>1 DEF Register, ToldAreGone
    <2>8. QED
      BY <2>5, <2>6, <2>7 DEF WakeLockInv
  <1>2. ASSUME NEW n \in Names, NEW ok \in BOOLEAN, Unregister(n, ok)
        PROVE  WakeLockInv'
    <2>1. Free({n}, ok)
      BY <1>2 DEF Unregister
    <2>2. /\ kernel' \subseteq Names /\ failed' \subseteq Names
          /\ \A m \in {n} \ failed' : m \notin kernel'
          /\ \A m \in (Names \ {n}) \ failed' : m \in kernel' <=> Held(m)
      BY <1>0, <2>1, FreeReleases
    <2>3. TypeOK' /\ ToldAreGone'
      BY <1>0, <1>2, <2>2 DEF Unregister, TypeOK, ToldAreGone
    <2>4. KernelFollowsTable'
      BY <1>0, <1>2, <2>2 DEF Unregister, TypeOK, KernelFollowsTable, Held, Registered
    <2>5. QED
      BY <2>3, <2>4 DEF WakeLockInv
  <1>3. ASSUME NEW n \in Names, NEW isWakeup \in BOOLEAN, NEW ok \in BOOLEAN,
               SetWakeLock(n, isWakeup, ok)
        PROVE  WakeLockInv'
    <2>1. /\ table[n] \in Entry
          /\ table' = [table EXCEPT ![n] = [table[n] EXCEPT !.held = isWakeup]]
      BY <1>0, <1>3 DEF SetWakeLock, TypeOK, Registered
    <2>2. [table[n] EXCEPT !.held = isWakeup] \in Entry
      BY <2>1 DEF Entry
    <2>3. kernel' \subseteq Names /\ failed' \subseteq Names
      BY <1>0, <1>3 DEF SetWakeLock, Lock, Unlock, TypeOK
    <2>4. TypeOK' /\ ToldAreGone'
      BY <1>0, <1>3, <2>1, <2>2, <2>3 DEF SetWakeLock, TypeOK, ToldAreGone
    <2>5. Held(n)' <=> isWakeup
      BY <1>0, <2>1, <2>2 DEF TypeOK, Held, Registered, Entry
    <2>6. \A m \in Names \ {n} : Held(m)' <=> Held(m)
      BY <1>0, <2>1 DEF TypeOK, Held, Registered
    <2>7. n \notin failed' => (n \in kernel' <=> isWakeup)
      BY <1>0, <1>3 DEF SetWakeLock, Lock, Unlock, TypeOK
    <2>8. \A m \in Names \ {n} : (m \in kernel' <=> m \in kernel) /\ (m \in failed' <=> m \in failed)
      BY <1>0, <1>3 DEF SetWakeLock, Lock, Unlock, TypeOK
    <2>9. KernelFollowsTable'
      BY <1>0, <2>5, <2>6, <2>7, <2>8 DEF KernelFollowsTable
    <2>10. QED
      BY <2>4, <2>9 DEF WakeLockInv
  <1>4. ASSUME NEW t \in Tokens, NEW ok \in BOOLEAN, ClientCancel(t, ok)
        PROVE  WakeLockInv'
    <2>1. OfToken(t) \in SUBSET Names /\ Free(OfToken(t), ok)
      BY <1>4 DEF ClientCancel, OfToken
    <2>2. /\ kernel' \subseteq Names /\ failed' \subseteq Names
          /\ \A m \in OfToken(t) \ failed' : m \notin kernel'
          /\ \A m \in (Names \ OfToken(t)) \ failed' : m \in kernel' <=> Held(m)
      BY <1>0, <2>1, FreeReleases
    <2>3. \A m \in Names : table'[m] = IF m \in OfToken(t) THEN NoEntry ELSE table[m]
      BY <1>4 DEF ClientCancel
    <2>4. TypeOK' /\ ToldAreGone'
      BY <1>0, <1>4, <2>2 DEF ClientCancel, TypeOK, ToldAreGone
    <2>5. KernelFollowsTable'
      BY <2>2, <2>3 DEF KernelFollowsTable, Held, Registered
    <2>6. QED
      BY <2>4, <2>5 DEF WakeLockInv
  <1>5. ASSUME NEW t \in Tokens, CallerDrops(t)
        PROVE  WakeLockInv'
    <2>1. TypeOK' /\ ToldAreGone'
      BY <1>0, <1>5 DEF CallerDrops, TypeOK, ToldAreGone, Tokens
    <2>2. KernelFollowsTable'
      BY <1>0, <1>5 DEF CallerDrops, KernelFollowsTable, Held, Registered
    <2>3. QED
      BY <2>1, <2>2 DEF WakeLockInv
  <1>6. CASE UNCHANGED vars
    BY <1>0, <1>6 DEF vars, WakeLockInv, TypeOK, KernelFollowsTable, ToldAreGone, Held, Registered
  <1>7. QED
    BY <1>1, <1>2, <1>3, <1>4, <1>5, <1>6 DEF Next

\* The invariant holds in every reachable state.
THEOREM WakeLockInvariant == Spec => []WakeLockInv
  <1>1. Init => WakeLockInv
    <2> SUFFICES ASSUME Init PROVE WakeLockInv
      OBVIOUS
    <2>1. TypeOK /\ ToldAreGone
      BY WakeLockAssumption DEF Init, TypeOK, ToldAreGone
    <2>2. KernelFollowsTable
      BY DEF Init, KernelFollowsTable, Held, Registered
    <2>3. QED
      BY <2>1, <2>2 DEF WakeLockInv
  <1>2. QED
    BY <1>1, WakeLockStep, PTL DEF Spec

\* The table, the kernel's set and the bus's sets are well typed.
THEOREM WakeLockTypeCorrect == Spec => []TypeOK
  BY WakeLockInvariant, PTL DEF WakeLockInv

\* However registrations, replacements, cancellations and failing writes follow each
\* other, the kernel's wakelocks are those of the table (suspend_ipc.c:161-362).
THEOREM KernelFollows == Spec => []KernelFollowsTable
  BY WakeLockInvariant, PTL DEF WakeLockInv

\* A caller that is still on the bus loses its entry by no cancellation, however late
\* one arrives (suspend_ipc.c:195-219).
THEOREM CancelsSpareTheLiving == Spec => OnlyTheGoneAreCancelled
  <1> DEFINE Spared == \A n \in Names : Registered(n) /\ table'[n] = NoEntry =>
                         table[n].token \in gone \/ \E ok \in BOOLEAN : Unregister(n, ok)
  <1>1. WakeLockInv /\ [Next]_vars => [Spared]_vars
    <2> SUFFICES ASSUME WakeLockInv, Next, NEW n \in Names, Registered(n), table'[n] = NoEntry
                 PROVE  table[n].token \in gone \/ \E ok \in BOOLEAN : Unregister(n, ok)
      OBVIOUS
    <2> USE WakeLockAssumption
    <2>0. TypeOK /\ told \subseteq gone /\ table[n] \in Entry
      BY DEF WakeLockInv, ToldAreGone, TypeOK, Registered
    <2>1. ASSUME NEW m \in Names, NEW added \in BOOLEAN, NEW ok \in BOOLEAN,
                 Register(m, added, ok)
          PROVE  FALSE
      <3>1. [token |-> issued', held |-> FALSE] \in Entry
        BY <2>0, <2>1 DEF Register, TypeOK, Entry, Tokens
      <3>2. QED
        BY <2>0, <2>1, <3>1 DEF Register, TypeOK, Registered
    <2>2. ASSUME NEW m \in Names, NEW ok \in BOOLEAN, Unregister(m, ok)
          PROVE  m = n
      BY <2>0, <2>2 DEF Unregister, TypeOK, Registered
    <2>3. ASSUME NEW m \in Names, NEW isWakeup \in BOOLEAN, NEW ok \in BOOLEAN,
                 SetWakeLock(m, isWakeup, ok)
          PROVE  FALSE
      <3>1. [table[n] EXCEPT !.held = isWakeup] \in Entry
        BY <2>0 DEF Entry
      <3>2. table' = [table EXCEPT ![m] = [table[m] EXCEPT !.held = isWakeup]]
        BY <2>3 DEF SetWakeLock
      <3>3. QED
        BY <2>0, <3>1, <3>2 DEF TypeOK, Registered
    <2>4. ASSUME NEW t \in Tokens, NEW ok \in BOOLEAN, ClientCancel(t, ok)
          PROVE  table[n].token \in gone
      BY <2>0, <2>4 DEF ClientCancel, OfToken, Registered
    <2>5. ASSUME NEW t \in Tokens, CallerDrops(t)
          PROVE  FALSE
      BY <2>5 DEF CallerDrops, Registered
    <2>6. QED
      BY <2>1, <2>2, <2>3, <2>4, <2>5 DEF Next
  <1>2. QED
    BY <1>1, WakeLockInvariant, PTL DEF Spec, OnlyTheGoneAreCancelled
=============================================================================
