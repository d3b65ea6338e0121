------------------------- MODULE BarrierProperties -------------------------
(***************************************************************************)
(* What a barrier promises to the processes that meet at it.               *)
(***************************************************************************)
EXTENDS Barrier

TypeOK ==
  /\ threshold \in Nat /\ num_waiters \in Nat /\ m_event_waiters \in Nat
  /\ at_threshold \in BOOLEAN /\ auto_reset \in BOOLEAN
  /\ pc \in [Processes -> Places]
  /\ owed \in Nat /\ surplus \in Int /\ kills \in Nat

(***************************************************************************)
(* The barrier and its event count alike, each by itself: in wait_for and  *)
(* wait_trigger up, in m_trigger, reset and trigger down to zero, in       *)
(* cancel from the one to the other (uvm_barrier.svh:63-186).  Nobody is   *)
(* kept waiting when enough are counted, and a barrier that stays open     *)
(* counts nobody and is not one that resets itself.                        *)
(***************************************************************************)
CountsAgree ==
  /\ num_waiters = m_event_waiters
  /\ num_waiters < threshold \/ num_waiters = 0
  /\ at_threshold => ~auto_reset /\ num_waiters = 0

(***************************************************************************)
(* The count is the number of processes that wait for the event of the     *)
(* barrier, plus those killed in their wait since it opened last, less the *)
(* cancels since then that found somebody counted (uvm_barrier.svh:164).   *)
(* Every opening and every reset that finds somebody makes it exact again. *)
(***************************************************************************)
CountIsExact == num_waiters = Cardinality(Waiting) + surplus

(***************************************************************************)
(* Every process that waits gets past the barrier, if processes that are   *)
(* killed are followed by a cancel and a lower threshold.  Two things stop *)
(* them all: a silent reset has left one of them with an event that nobody *)
(* triggers any more (uvm_barrier.svh:98), or a cancel that came late has  *)
(* taken one off the count that is alive.                                  *)
(***************************************************************************)
EverybodyPasses ==
  \A p \in Processes :
    pc[p] = "wait" ~> \/ pc[p] # "wait"
                      \/ surplus < 0
                      \/ \E q \in Processes : pc[q] = "stranded"
=============================================================================
