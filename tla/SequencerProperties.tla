------------------------- MODULE SequencerProperties -------------------------
(***************************************************************************)
(* What the sequencer promises to sequences and drivers.                   *)
(***************************************************************************)
EXTENDS Sequencer

ThreadPlaces == {"dead", "body", "wait_for_grant", "wait_for_lock", "granted",
                 "wait_for_item_done", "wait_for_next_done"}

\* The variables keep their types.
TypeOK ==
  /\ arb_sequence_q \subseteq Request
  /\ before \in SUBSET (arb_sequence_q \X arb_sequence_q)
  /\ lock_list \in [Sequences -> Nat]
  /\ arb_completed \subseteq Threads
  /\ arb_changed \in BOOLEAN
  /\ m_req_fifo \in Threads \union {NoItem}
  /\ sequence_item_requested \in BOOLEAN
  /\ get_next_item_called \in BOOLEAN
  /\ m_wait_for_item_sequence_id \in Sequences \union {NoSequence}
  /\ running \subseteq Sequences
  /\ reg_sequences \subseteq Sequences
  /\ relevant \subseteq Sequences
  /\ pc \in [Threads -> ThreadPlaces]
  /\ driver \in [at : {"user", "select", "wait_for_available", "peek",
                       "try_select", "try_peek"},
                 call : DriverCalls \union {"none"}]
  /\ holding \in BOOLEAN
  /\ waits_relevant \subseteq Sequences
  /\ fatal \in {"none", "concurrent get_next_item", "null request",
                "item_done without request"}

Queued(t) == \E r \in arb_sequence_q : r.thread = t /\ r.awaited

\* One item at a time is on its way to the driver: at most one thread holds a
\* grant, none does while an item is in the fifo, and a grant or an item is
\* there only while the sequencer knows that one was requested.
OneItemInFlight ==
  /\ \A t, u \in Threads : HasGrant(t) /\ HasGrant(u) => t = u
  /\ \A t \in Threads : HasGrant(t) => /\ m_req_fifo = NoItem
                                       /\ sequence_item_requested
  /\ m_req_fifo # NoItem => sequence_item_requested

\* A thread in wait_for_item_done is never forgotten: its item is still in
\* the fifo, or the item_done that wakes it has happened and neither another
\* send_request with its wait nor another item_done has overwritten
\* m_wait_for_item_sequence_id.  Only a wait_for_item_done that some thread calls
\* by itself can do that: it moves the thread to "wait_for_next_done".
ItemDoneNotLost ==
  \A t \in Threads : pc[t] = "wait_for_item_done" =>
    m_req_fifo = t \/ m_wait_for_item_sequence_id = Owner[t]

\* "Any wait_for_item_done calls made by a sequence for this item will return"
\* (item_done, uvm_sqr_ifs.svh): a thread that has been told that its item is done
\* stays told until its wait returns, whatever the others call.  A later
\* wait_for_item_done of another thread breaks this.
WakeUpKept ==
  [][\A t \in Threads : Told(t) /\ pc'[t] \in DonePlaces => Told(t)']_vars

\* A lock is granted when "no other locks or grabs are blocking this sequence"
\* (lock, uvm_sequence_base.svh): of two sequences that hold locks at the same
\* time one is an ancestor of the other.
LocksExclude ==
  \A s, o \in Sequences : lock_list[s] > 0 /\ lock_list[o] > 0 =>
    s \in Family[o] \/ o \in Family[s]

\* A thread that waits for a grant or a lock has its request in the queue or
\* completed: remove_sequence_from_queues takes requests only of threads that
\* die with their sequence.
WaitingIsQueued ==
  \A t \in Threads : pc[t] \in {"wait_for_grant", "wait_for_lock"} =>
    Queued(t) \/ t \in arb_completed

\* A sequence that has exited or was killed leaves nothing behind: no lock
\* that blocks the others for good, no request that could be granted.
NothingLeftBehind ==
  /\ \A s \in Sequences : lock_list[s] > 0 => s \in running
  /\ \A r \in arb_sequence_q : SequenceOf(r) \in running

\* The driver does not sleep in m_wait_for_available_sequence, unnotified,
\* while a request it could grant is in the queue.
NoLostArbitration ==
  driver.at = "wait_for_available" /\ ~arb_changed
      /\ waits_relevant \intersect relevant = {}
    => ~\E r \in arb_sequence_q :
          Alive(r.thread) /\ available(Lists, r)

\* The threads whose request for an item this step grants.
NewlyGranted ==
  {t \in Threads : pc[t] = "wait_for_grant" /\ t \in arb_completed' \ arb_completed}

\* Nobody whose request is in the queue has died: the loop of the arbitration
\* removes nothing, so that the positions it keeps stay what they were.
NobodyDead == \A r \in arb_sequence_q : Alive(r.thread)

\* No item is granted to a sequence while a lock blocks it, even a lock that
\* was granted on the way to the arbitration.  With a dead thread in the queue a
\* kept position may come to stand for a request that is blocked.
GrantRespectsLocks ==
  [][NobodyDead => \A t \in NewlyGranted : ~blocks(lock_list', Owner[t])]_vars

\* UVM_SEQ_ARB_STRICT_FIFO, "Requests at highest priority granted in FIFO
\* order": no request of higher priority, or of the same
\* priority and older, that could have been granted is left in the queue.
PriorityRespected ==
  [][NobodyDead => \A t \in NewlyGranted : \A r \in arb_sequence_q' :
       (/\ r.request = "SEQ_TYPE_REQ"
        /\ ~blocks(lock_list', SequenceOf(r)) /\ SequenceOf(r) \in relevant)
       => \/ Priority[SequenceOf(r)] < Priority[Owner[t]]
          \/ /\ Priority[SequenceOf(r)] = Priority[Owner[t]]
             /\ <<ItemRequest(t), r>> \in before]_vars

\* stop_sequences kills every sequence that operates on the sequencer.
StopKillsAll == [][stop_sequences => running' = {}]_vars

\* Every request for an item is granted, or its thread dies.  The exception is a
\* deadlock: two sequences that came to hold locks at the same time (LocksExclude
\* fails) block each other, and neither unlocks while it waits.
EventuallyGranted ==
  \A t \in Threads :
    pc[t] = "wait_for_grant" ~> pc[t] # "wait_for_grant" \/ ~LocksExclude

\* Every lock is granted, or its thread dies.
EventuallyLocked ==
  \A t \in Threads : pc[t] = "wait_for_lock" ~> pc[t] # "wait_for_lock"

\* Every item that a sequence waits for is done, or the thread dies.
EventuallyDone ==
  \A t \in Threads : pc[t] \in DonePlaces ~> pc[t] \notin DonePlaces

\* Where the exchange of items sees a thread.  A thread waits for its item as long as
\* the item is in the fifo or nobody has told the thread that it is done.
PlaceOf(t) ==
  CASE pc[t] = "dead" -> "gone"
    [] HasGrant(t) -> "granted"
    [] pc[t] = "wait_for_grant" /\ t \notin arb_completed -> "asks"
    [] pc[t] = "wait_for_item_done"
         /\ (m_req_fifo = t \/ m_wait_for_item_sequence_id # Owner[t]) -> "waits"
    [] OTHER -> "free"

Exchange == INSTANCE ItemExchange WITH place <- [t \in Threads |-> PlaceOf(t)],
                                       item <- m_req_fifo, Nobody <- NoItem

\* The sequencer implements ItemExchange: every step of it is a step of the exchange
\* or none, so that an item is sent once for each grant, and wait_for_item_done
\* returns when the driver is done with that very item.
ImplementsExchange == Exchange!Spec

-----------------------------------------------------------------------------
(***************************************************************************)
(* The inductive invariant behind the handshake properties.  It holds      *)
(* unless a driver mixes peek with try_next_item, which does not look at   *)
(* sequence_item_requested, or stop_sequences meets a killed thread, whose *)
(* sequence it may not find in reg_sequences.                              *)
(***************************************************************************)
WellBehaved ==
  /\ ~({"peek", "try_next_item"} \subseteq DriverCalls)
  /\ ~({"stop_sequences", "kill_thread"} \subseteq Interference)

\* Queued requests are of running sequences; the awaited ones are of threads
\* that wait for them and have not been woken.
QueueOK ==
  /\ IsFiniteSet(arb_sequence_q)
  /\ \A r \in arb_sequence_q :
       /\ SequenceOf(r) \in running
       /\ r.request = "SEQ_TYPE_REQ" => r.awaited
       /\ r.awaited /\ Alive(r.thread) =>
            /\ r.thread \notin arb_completed
            /\ pc[r.thread] = IF r.request = "SEQ_TYPE_REQ" THEN "wait_for_grant"
                              ELSE "wait_for_lock"

CompletedOK ==
  \A t \in arb_completed : pc[t] \in {"wait_for_grant", "wait_for_lock"}

\* Only running sequences have threads and locks; without kill_thread all
\* their threads live and all of them are registered.
RunningOK ==
  /\ \A t \in Threads : pc[t] # "dead" => Owner[t] \in running
  /\ \A s \in Sequences : lock_list[s] > 0 => s \in running
  /\ "kill_thread" \notin Interference =>
       /\ running \subseteq reg_sequences
       /\ \A t \in Threads : Owner[t] \in running => pc[t] # "dead"

\* The driver arbitrates only while no item is requested, and waits for the
\* item while a thread holds a grant.
DriverOK ==
  /\ \A t \in Threads : HasGrant(t) => driver.at \in {"peek", "try_peek"}
  /\ driver.at # "user" => driver.call # "none"
  /\ driver.at = "try_select" => driver.call = "try_next_item"
  /\ driver.at \in {"select", "wait_for_available", "try_select"}
       => ~sequence_item_requested
  /\ sequence_item_requested => \/ get_next_item_called
                                \/ "peek" \in DriverCalls
                                \/ driver = [at |-> "peek", call |-> "get"]

\* While a thread waits for item_done nobody is granted, and the item in the
\* fifo, if any, is its own.
DoneOK ==
  \A t \in Threads : pc[t] = "wait_for_item_done" =>
    /\ \A u \in Threads : ~HasGrant(u)
    /\ m_req_fifo \in {NoItem, t}
    /\ m_req_fifo = NoItem => m_wait_for_item_sequence_id = Owner[t]

\* Without stop_sequences the driver's item stays in the fifo.
HoldingOK ==
  "stop_sequences" \notin Interference /\ holding => m_req_fifo # NoItem

HandshakeInv ==
  /\ TypeOK /\ QueueOK /\ CompletedOK /\ RunningOK /\ DriverOK
  /\ OneItemInFlight /\ DoneOK /\ HoldingOK

\* The two fatals of the handshake are out of reach: send_request on a full
\* fifo, and, without stop_sequences, item_done on an empty one.
HandshakeNeverFatal ==
  /\ fatal # "concurrent get_next_item"
  /\ "stop_sequences" \notin Interference => fatal # "item_done without request"
=============================================================================
