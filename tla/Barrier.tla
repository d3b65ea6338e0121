------------------------------ MODULE Barrier ------------------------------
(***************************************************************************)
(* A uvm_barrier (base/uvm_barrier.svh) and the uvm_event it is built on   *)
(* (base/uvm_event.svh).  Processes call wait_for again and again; others  *)
(* reset the barrier and change its threshold, kill processes and, as the  *)
(* documentation asks, cancel the wait of a process that was killed.       *)
(***************************************************************************)
EXTENDS Integers, FiniteSets

CONSTANTS Processes,
          Controls,  \* what the others do
          MaxKills

ControlKinds == {"reset", "silent reset", "set_auto_reset", "set_threshold", "kill"}
ASSUME BarrierAssumption ==
  IsFiniteSet(Processes) /\ Controls \subseteq ControlKinds /\ MaxKills \in Nat

VARIABLES threshold, num_waiters, at_threshold, auto_reset,
          m_event_waiters,  \* the num_waiters of m_event
          pc,               \* where each process is
          owed,             \* waits of killed processes that are yet to be cancelled
          surplus,          \* by how much num_waiters exceeds those who wait: killed
                            \* ones are counted, and cancels may come too late
          kills

barrier == <<threshold, num_waiters, at_threshold, auto_reset, m_event_waiters>>
vars == <<barrier, pc, owed, surplus, kills>>

Places == {"idle", "wait",
           "stranded",  \* waits for a SystemVerilog event that m_event has left
           "woken", "last", "dead"}
Alive == {p \in Processes : pc[p] # "dead"}
Waiting == {p \in Processes : pc[p] = "wait"}

Init ==
  /\ threshold = Cardinality(Processes)
  /\ num_waiters = 0 /\ m_event_waiters = 0
  /\ at_threshold = FALSE /\ auto_reset = TRUE
  /\ pc = [p \in Processes |-> "idle"]
  /\ owed = 0 /\ surplus = 0 /\ kills = 0

\* Who waits for m_event is elsewhere now; nobody is counted.
Everybody(place) == [p \in Processes |-> IF pc[p] = "wait" THEN place ELSE pc[p]]
Uncounted == num_waiters' = 0 /\ surplus' = 0

\* uvm_event::trigger and uvm_event::reset(0).
trigger == Everybody("woken")
new_event == Everybody("stranded")

-----------------------------------------------------------------------------
\* The last process to come lets the others resume first.
wait_for(p) ==
  /\ pc[p] = "idle"
  /\ \/ /\ at_threshold
        /\ UNCHANGED <<barrier, pc, surplus>>
     \/ /\ ~at_threshold /\ num_waiters + 1 >= threshold
        /\ at_threshold' = ~auto_reset
        /\ pc' = [trigger EXCEPT ![p] = "last"]
        /\ Uncounted
        /\ m_event_waiters' = 0
        /\ UNCHANGED <<threshold, auto_reset>>
     \/ /\ ~at_threshold /\ num_waiters + 1 < threshold
        /\ num_waiters' = num_waiters + 1
        /\ m_event_waiters' = m_event_waiters + 1
        /\ pc' = [pc EXCEPT ![p] = "wait"]
        /\ UNCHANGED <<threshold, at_threshold, auto_reset, surplus>>
  /\ UNCHANGED <<owed, kills>>

resume(p) ==
  /\ \/ pc[p] = "woken"
     \/ pc[p] = "last" /\ \A q \in Processes : pc[q] # "woken"
  /\ pc' = [pc EXCEPT ![p] = "idle"]
  /\ UNCHANGED <<barrier, owed, surplus, kills>>

\* Mutant: the event is left as it is.
reset_silently(wakeup) ==
  /\ at_threshold' = FALSE
  /\ Uncounted
  /\ m_event_waiters' = 0
  /\ UNCHANGED pc

\* If no process is counted the event is not touched.
Reset(wakeup) ==
  /\ at_threshold' = FALSE
  /\ IF num_waiters = 0 THEN UNCHANGED <<pc, num_waiters, surplus, m_event_waiters>>
     ELSE /\ pc' = (IF wakeup THEN trigger ELSE new_event)
          /\ Uncounted
          /\ m_event_waiters' = 0

reset(wakeup) ==
  /\ (IF wakeup THEN "reset" ELSE "silent reset") \in Controls
  /\ Reset(wakeup)
  /\ UNCHANGED <<threshold, auto_reset, owed, kills>>

set_auto_reset(value) ==
  /\ "set_auto_reset" \in Controls
  /\ at_threshold' = FALSE /\ auto_reset' = value
  /\ UNCHANGED <<threshold, num_waiters, m_event_waiters, pc, owed, surplus, kills>>

\* Mutant: the barrier opens only at the next wait_for.
threshold_only(t) ==
  /\ threshold' = t
  /\ UNCHANGED <<num_waiters, at_threshold, m_event_waiters, pc, surplus>>

SetThreshold(t) ==
  /\ threshold' = t
  /\ IF t <= num_waiters THEN Reset(TRUE)
     ELSE UNCHANGED <<num_waiters, at_threshold, m_event_waiters, pc, surplus>>

set_threshold(t) ==
  /\ "set_threshold" \in Controls
  /\ SetThreshold(t)
  /\ UNCHANGED <<auto_reset, owed, kills>>

-----------------------------------------------------------------------------
\* A process that waits is killed; num_waiters does not know.
kill(p) ==
  /\ "kill" \in Controls /\ kills < MaxKills
  /\ pc[p] \in {"idle", "wait", "woken", "last"}
  /\ pc' = [pc EXCEPT ![p] = "dead"]
  /\ kills' = kills + 1
  /\ IF pc[p] = "wait" THEN owed' = owed + 1 /\ surplus' = surplus + 1
     ELSE UNCHANGED <<owed, surplus>>
  /\ UNCHANGED barrier

\* Mutant: only the barrier's own count.
cancel_barrier ==
  /\ owed > 0
  /\ owed' = owed - 1
  /\ IF num_waiters > 0 THEN num_waiters' = num_waiters - 1 /\ surplus' = surplus - 1
     ELSE UNCHANGED <<num_waiters, surplus>>
  /\ UNCHANGED <<threshold, at_threshold, auto_reset, m_event_waiters, pc, kills>>

\* A cancel that comes after the barrier has opened takes off one that is alive.
cancel ==
  /\ owed > 0
  /\ owed' = owed - 1
  /\ IF m_event_waiters > 0
     THEN m_event_waiters' = m_event_waiters - 1 /\ surplus' = surplus - 1
     ELSE UNCHANGED <<m_event_waiters, surplus>>
  /\ num_waiters' = m_event_waiters'
  /\ UNCHANGED <<threshold, at_threshold, auto_reset, pc, kills>>

\* Who kills a process lowers the threshold to those that are left.
lower_threshold ==
  /\ threshold > Cardinality(Alive)
  /\ SetThreshold(Cardinality(Alive))
  /\ UNCHANGED <<auto_reset, owed, kills>>

Next ==
  \/ \E p \in Processes : wait_for(p) \/ resume(p) \/ kill(p)
  \/ \E b \in BOOLEAN : reset(b) \/ set_auto_reset(b)
  \/ \E t \in 1 .. Cardinality(Alive) : set_threshold(t)
  \/ cancel \/ lower_threshold

Spec == Init /\ [][Next]_vars

\* Processes come to the barrier for ever, and killings are followed up.
FairSpec ==
  /\ Spec
  /\ \A p \in Processes : WF_vars(wait_for(p)) /\ WF_vars(resume(p))
  /\ WF_vars(cancel) /\ WF_vars(lower_threshold)
=============================================================================
