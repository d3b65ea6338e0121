--------------------------- MODULE BarrierProofs ---------------------------
(***************************************************************************)
(* The counts of a barrier, for any number of processes, killings and      *)
(* changes of the threshold.  The three invariants are inductive together: *)
(* the count of the event is exact because it is the one of the barrier,   *)
(* and an open barrier counts nobody because it is below its threshold.    *)
(***************************************************************************)
EXTENDS BarrierProperties, FiniteSetTheorems, TLAPS

BarrierInv == TypeOK /\ CountsAgree /\ CountIsExact

LEMMA WaitingFinite == IsFiniteSet(Waiting) /\ IsFiniteSet(Alive)
  <1>1. Waiting \subseteq Processes /\ Alive \subseteq Processes
    BY DEF Waiting, Alive
  <1> QED BY <1>1, BarrierAssumption, FS_Subset

\* Nobody waits after a trigger or a silent reset of the event.
LEMMA NobodyWaits ==
  ASSUME pc \in [Processes -> Places], NEW place \in Places \ {"wait"},
         NEW p \in Processes, NEW q \in Places \ {"wait"},
         \/ pc' = Everybody(place)
         \/ pc' = [Everybody(place) EXCEPT ![p] = q]
  PROVE  Cardinality(Waiting') = 0 /\ pc' \in [Processes -> Places]
  <1>1. pc' \in [Processes -> Places]
    BY DEF Everybody
  <1>2. Waiting' = {}
    BY <1>1 DEF Everybody, Waiting
  <1> QED BY <1>1, <1>2, FS_EmptySet

LEMMA InitBarrier == Init => BarrierInv
  <1> SUFFICES ASSUME Init PROVE BarrierInv
    OBVIOUS
  <1>1. Cardinality(Processes) \in Nat
    BY BarrierAssumption, FS_CardinalityType
  <1>2. TypeOK
    <2>1. at_threshold \in BOOLEAN /\ auto_reset \in BOOLEAN
      BY Zenon DEF Init
    <2>2. /\ threshold \in Nat /\ num_waiters \in Nat /\ m_event_waiters \in Nat
          /\ owed \in Nat /\ surplus \in Int /\ kills \in Nat
      BY <1>1 DEF Init
    <2>3. pc \in [Processes -> Places]
      BY DEF Init, Places
    <2> QED BY <2>1, <2>2, <2>3 DEF TypeOK
  <1>3. CountsAgree
    BY DEF Init, CountsAgree
  <1>4. Cardinality(Waiting) = 0
    <2>1. Waiting = {}
      BY DEF Init, Waiting
    <2> QED BY <2>1, FS_EmptySet
  <1>5. CountIsExact
    BY <1>4 DEF Init, CountIsExact
  <1> QED BY <1>2, <1>3, <1>5 DEF BarrierInv

-----------------------------------------------------------------------------
LEMMA WaitForStep ==
  ASSUME BarrierInv, NEW p \in Processes, wait_for(p)
  PROVE  BarrierInv'
  <1> USE DEF BarrierInv
  <1>1. CASE at_threshold
    <2>1. UNCHANGED vars
      BY <1>1 DEF wait_for, vars, barrier
    <2> QED BY <2>1 DEF TypeOK, CountsAgree, CountIsExact, vars, barrier, Waiting
  <1>2. CASE ~at_threshold /\ num_waiters + 1 >= threshold
    <2>1. /\ pc' = [Everybody("woken") EXCEPT ![p] = "last"]
          /\ num_waiters' = 0 /\ m_event_waiters' = 0 /\ surplus' = 0
          /\ at_threshold' = ~auto_reset
          /\ UNCHANGED <<threshold, auto_reset, owed, kills>>
      BY <1>2 DEF wait_for, trigger, Uncounted, TypeOK
    <2>2. Cardinality(Waiting') = 0 /\ pc' \in [Processes -> Places]
      BY <2>1, NobodyWaits DEF TypeOK, Places
    <2>3. TypeOK'
      BY <2>1, <2>2 DEF TypeOK
    <2>4. CountsAgree'
      BY <2>1 DEF CountsAgree, TypeOK
    <2>5. CountIsExact'
      BY <2>1, <2>2 DEF CountIsExact
    <2> QED BY <2>3, <2>4, <2>5
  <1>3. CASE ~at_threshold /\ num_waiters + 1 < threshold
    <2>1. /\ pc' = [pc EXCEPT ![p] = "wait"] /\ pc[p] = "idle"
          /\ num_waiters' = num_waiters + 1 /\ m_event_waiters' = m_event_waiters + 1
          /\ UNCHANGED <<threshold, at_threshold, auto_reset, surplus, owed, kills>>
      BY <1>3 DEF wait_for, TypeOK
    <2>2. Waiting' = Waiting \union {p} /\ p \notin Waiting
      BY <2>1 DEF Waiting, TypeOK
    <2>3. Cardinality(Waiting') = Cardinality(Waiting) + 1
      BY <2>2, WaitingFinite, FS_AddElement
    <2>4. TypeOK'
      BY <2>1 DEF TypeOK, Places
    <2>5. CountsAgree'
      BY <2>1, <1>3 DEF CountsAgree, TypeOK
    <2>6. CountIsExact'
      BY <2>1, <2>3, WaitingFinite, FS_CardinalityType DEF CountIsExact, TypeOK
    <2> QED BY <2>4, <2>5, <2>6
  <1> QED BY <1>1, <1>2, <1>3 DEF wait_for

LEMMA ResumeStep ==
  ASSUME BarrierInv, NEW p \in Processes, resume(p)
  PROVE  BarrierInv'
  <1>1. /\ pc' = [pc EXCEPT ![p] = "idle"] /\ pc[p] # "wait"
        /\ UNCHANGED <<barrier, surplus, owed, kills>>
    BY DEF resume
  <1>2. Waiting' = Waiting
    BY <1>1 DEF Waiting, BarrierInv, TypeOK
  <1> QED BY <1>1, <1>2 DEF BarrierInv, TypeOK, CountsAgree, CountIsExact, barrier, Places

\* What every change of the barrier that calls reset comes to.
LEMMA ResetKeeps ==
  ASSUME BarrierInv, NEW wakeup \in BOOLEAN, Reset(wakeup),
         threshold' \in Nat, auto_reset' \in BOOLEAN, owed' \in Nat, kills' \in Nat
  PROVE  BarrierInv'
  <1> USE DEF BarrierInv
  <1>1. CASE num_waiters = 0
    <2>1. /\ UNCHANGED <<pc, num_waiters, surplus, m_event_waiters>>
          /\ ~at_threshold' /\ at_threshold' \in BOOLEAN
      BY <1>1 DEF Reset
    <2> QED BY <1>1, <2>1 DEF TypeOK, CountsAgree, CountIsExact, Waiting
  <1>2. CASE num_waiters # 0
    <2>1. /\ pc' = Everybody(IF wakeup THEN "woken" ELSE "stranded")
          /\ num_waiters' = 0 /\ m_event_waiters' = 0 /\ surplus' = 0
          /\ ~at_threshold' /\ at_threshold' \in BOOLEAN
      BY <1>2 DEF Reset, Uncounted, trigger, new_event
    <2>2. pc' \in [Processes -> Places]
      BY <2>1 DEF Everybody, TypeOK, Places
    <2>3. Waiting' = {}
      BY <2>1, <2>2 DEF Everybody, Waiting
    <2>4. Cardinality(Waiting') = 0
      BY <2>3, FS_EmptySet
    <2> QED BY <2>1, <2>2, <2>4 DEF TypeOK, CountsAgree, CountIsExact
  <1> QED BY <1>1, <1>2

LEMMA SetThresholdKeeps ==
  ASSUME BarrierInv, NEW t \in Nat, SetThreshold(t),
         UNCHANGED <<auto_reset, kills>>, owed' \in Nat
  PROVE  BarrierInv'
  <1>1. CASE t <= num_waiters
    BY <1>1, ResetKeeps DEF SetThreshold, BarrierInv, TypeOK
  <1>2. CASE ~(t <= num_waiters)
    <2>1. threshold' = t /\ UNCHANGED <<num_waiters, at_threshold, m_event_waiters, pc, surplus>>
      BY <1>2 DEF SetThreshold
    <2>2. TypeOK'
      BY <2>1 DEF BarrierInv, TypeOK
    <2>3. CountsAgree'
      BY <1>2, <2>1 DEF BarrierInv, TypeOK, CountsAgree
    <2>4. CountIsExact'
      BY <2>1 DEF BarrierInv, CountIsExact, Waiting
    <2> QED BY <2>2, <2>3, <2>4 DEF BarrierInv
  <1> QED BY <1>1, <1>2

LEMMA KillStep ==
  ASSUME BarrierInv, NEW p \in Processes, kill(p)
  PROVE  BarrierInv'
  <1>1. pc' = [pc EXCEPT ![p] = "dead"] /\ UNCHANGED barrier /\ kills' = kills + 1
    BY DEF kill
  <1>0. pc' \in [Processes -> Places]
    BY <1>1 DEF BarrierInv, TypeOK, Places
  <1>2. CASE pc[p] = "wait"
    <2>1. owed' = owed + 1 /\ surplus' = surplus + 1
      BY <1>2 DEF kill
    <2>2. Waiting' = Waiting \ {p} /\ p \in Waiting
      BY <1>1, <1>2 DEF Waiting, BarrierInv, TypeOK
    <2>3. Cardinality(Waiting') = Cardinality(Waiting) - 1
      BY <2>2, WaitingFinite, FS_RemoveElement
    <2>4. Cardinality(Waiting) \in Nat
      BY WaitingFinite, FS_CardinalityType
    <2>5. CountIsExact'
      BY <1>1, <2>1, <2>3, <2>4 DEF BarrierInv, TypeOK, CountIsExact, barrier
    <2> QED BY <1>0, <1>1, <2>1, <2>5 DEF BarrierInv, TypeOK, CountsAgree, barrier
  <1>3. CASE pc[p] # "wait"
    <2>1. UNCHANGED <<owed, surplus>>
      BY <1>3 DEF kill
    <2>2. Waiting' = Waiting
      BY <1>1, <1>3 DEF Waiting, BarrierInv, TypeOK
    <2>3. TypeOK'
      BY <1>0, <1>1, <2>1 DEF BarrierInv, TypeOK, barrier
    <2>4. CountsAgree' /\ CountIsExact'
      BY <1>1, <2>1, <2>2 DEF BarrierInv, CountsAgree, CountIsExact, barrier
    <2> QED BY <2>3, <2>4 DEF BarrierInv
  <1> QED BY <1>2, <1>3

LEMMA CancelStep ==
  ASSUME BarrierInv, cancel
  PROVE  BarrierInv'
  <1>1. Waiting' = Waiting /\ Cardinality(Waiting) \in Nat
    BY WaitingFinite, FS_CardinalityType DEF cancel, Waiting
  <1> QED BY <1>1 DEF cancel, BarrierInv, TypeOK, CountsAgree, CountIsExact

LEMMA NextBarrier == BarrierInv /\ [Next]_vars => BarrierInv'
  <1> SUFFICES ASSUME BarrierInv, [Next]_vars PROVE BarrierInv'
    OBVIOUS
  <1>0. Cardinality(Alive) \in Nat
    BY WaitingFinite, FS_CardinalityType
  <1>1. ASSUME NEW p \in Processes, wait_for(p) PROVE BarrierInv'
    BY <1>1, WaitForStep
  <1>2. ASSUME NEW p \in Processes, resume(p) PROVE BarrierInv'
    BY <1>2, ResumeStep
  <1>3. ASSUME NEW p \in Processes, kill(p) PROVE BarrierInv'
    BY <1>3, KillStep
  <1>4. ASSUME NEW b \in BOOLEAN, reset(b) PROVE BarrierInv'
    BY <1>4, ResetKeeps DEF reset, BarrierInv, TypeOK
  <1>5. ASSUME NEW b \in BOOLEAN, set_auto_reset(b) PROVE BarrierInv'
    BY <1>5 DEF set_auto_reset, BarrierInv, TypeOK, CountsAgree, CountIsExact, Waiting
  <1>6. ASSUME NEW t \in 1 .. Cardinality(Alive), set_threshold(t) PROVE BarrierInv'
    BY <1>0, <1>6, SetThresholdKeeps DEF set_threshold, BarrierInv, TypeOK
  <1>7. CASE cancel
    BY <1>7, CancelStep
  <1>8. CASE lower_threshold
    BY <1>0, <1>8, SetThresholdKeeps DEF lower_threshold, BarrierInv, TypeOK
  <1>9. CASE UNCHANGED vars
    BY <1>9 DEF vars, barrier, BarrierInv, TypeOK, CountsAgree, CountIsExact, Waiting
  <1> QED BY <1>1, <1>2, <1>3, <1>4, <1>5, <1>6, <1>7, <1>8, <1>9 DEF Next

LEMMA AlwaysBarrier == Spec => []BarrierInv
  BY InitBarrier, NextBarrier, PTL DEF Spec

\* The counts of the barrier and of its event agree and stay below the threshold
\* (wait_for, m_trigger, reset, set_threshold, cancel of uvm_barrier.svh).
THEOREM BarrierCountsAgree == Spec => []CountsAgree
  BY AlwaysBarrier, PTL DEF BarrierInv

\* The count is the number of the waiting processes, but for killed ones and late
\* cancels (uvm_barrier::cancel).
THEOREM BarrierCountIsExact == Spec => []CountIsExact
  BY AlwaysBarrier, PTL DEF BarrierInv
=============================================================================
