---------------------------- MODULE ItemExchange ----------------------------
(***************************************************************************)
(* What a sequencer promises to the threads that send items through it: a  *)
(* thread sends only what it was granted, one thread is granted and one    *)
(* item is on its way at a time, and a thread that waits for its item goes *)
(* on when that item is done, not before and not with another's            *)
(* (wait_for_grant, send_request and wait_for_item_done of                 *)
(* uvm_sequencer_base; item_done and stop_sequences of uvm_sequencer).     *)
(***************************************************************************)
CONSTANTS Threads, Nobody

VARIABLES place,  \* "gone", "free", "asks", "granted" or "waits" for its item
          item    \* whose item is on its way to the driver or with it, or Nobody

Init == place = [t \in Threads |-> "gone"] /\ item = Nobody

Move(t, from, to) ==
  /\ place[t] = from
  /\ place' = [place EXCEPT ![t] = to]

\* Threads of a sequence that starts, and threads that end or are killed.
Start(S) ==
  /\ \A t \in S : place[t] = "gone"
  /\ place' = [t \in Threads |-> IF t \in S THEN "free" ELSE place[t]]
  /\ UNCHANGED item

Leave(S) ==
  /\ place' = [t \in Threads |-> IF t \in S THEN "gone" ELSE place[t]]
  /\ UNCHANGED item

Ask(t) == Move(t, "free", "asks") /\ UNCHANGED item

Grant(t) ==
  /\ item = Nobody
  /\ \A u \in Threads : place[u] # "granted"
  /\ Move(t, "asks", "granted")
  /\ UNCHANGED item

Send(t, next) ==
  /\ item = Nobody
  /\ Move(t, "granted", next)
  /\ item' = t

\* A thread that has sent its item may decide later to wait for it.
Await(t) == item = t /\ Move(t, "free", "waits") /\ UNCHANGED item

\* The driver is done with the item; only the thread that sent it is told.
Done ==
  /\ item # Nobody
  /\ item' = Nobody
  /\ place' = [t \in Threads |-> IF t = item /\ place[t] = "waits" THEN "free" ELSE place[t]]

Reset == place' = [t \in Threads |-> "gone"] /\ item' = Nobody

Next ==
  \/ \E S \in SUBSET Threads : Start(S) \/ Leave(S)
  \/ \E t \in Threads :
       Ask(t) \/ Grant(t) \/ Send(t, "free") \/ Send(t, "waits") \/ Await(t)
  \/ Done \/ Reset

Spec == Init /\ [][Next]_<<place, item>>
=============================================================================
