------------------------------ MODULE Sequencer ------------------------------
(***************************************************************************)
(* One uvm_sequencer, the driver that pulls items from it and the          *)
(* sequences that run on it (src/UVM/uvm-1.2/src/seq).                     *)
(*                                                                         *)
(* A sequence is a set of threads.  A thread of a running sequence queues  *)
(* a request with wait_for_grant, lock or grab and blocks; the driver      *)
(* arbitrates when it asks for an item, the chosen thread wakes up and     *)
(* sends its item through the one-place request fifo, and item_done wakes  *)
(* the sender.  SystemVerilog processes are cooperative: a step of the     *)
(* model is what a process does between two blocking points.               *)
(*                                                                         *)
(* arb_sequence_q is a set of requests with the strict total order         *)
(* "before"; its positions are recovered by counting predecessors.  The    *)
(* lock list is a count per sequence (a sequence may lock repeatedly).     *)
(***************************************************************************)
EXTENDS Integers, FiniteSets

CONSTANTS
  Sequences,       \* the sequences that may be started on the sequencer
  Threads,         \* the processes that make requests for them
  Owner,           \* Owner[t]: the sequence whose body forked thread t
  Parent,          \* Parent[s]: get_parent_sequence(), or NoSequence
  NoSequence,      \* the null sequence handle
  NoItem,          \* the empty request fifo
  Arbitration,     \* m_arbitration
  Priority,        \* Priority[s]: get_priority(), what start_item passes on
  MaybeIrrelevant, \* the sequences that override is_relevant
  Interference,    \* what else the testbench does: see InterferenceKinds
  DriverCalls,     \* the calls the driver makes; {} on a virtual sequencer
  SequenceCalls,   \* the optional calls of sequences: see SequenceCallKinds
  MaxLocks         \* bound: MaxLocks[s] nested locks of s; 0 for no locking

ArbitrationModes ==
  {"FIFO", "WEIGHTED", "RANDOM", "STRICT_FIFO", "STRICT_RANDOM", "USER"}

(***************************************************************************)
(* kill_thread: user code disables one forked thread of a sequence;        *)
(* kill_sequence: uvm_sequence_base::kill; stop_sequences: the sequencer's *)
(* reset; kill_granted: those may hit a thread that has just been granted. *)
(***************************************************************************)
InterferenceKinds ==
  {"kill_thread", "kill_sequence", "stop_sequences", "kill_granted"}

\* Three ways to ask for a lock, and a wait_for_item_done that the sequence calls
\* later and not, as finish_item does, together with send_request.
SequenceCallKinds == {"lock", "grab", "lock_request", "wait_for_item_done"}

ASSUME SequencerAssumption ==
  /\ Owner \in [Threads -> Sequences]
  /\ Parent \in [Sequences -> Sequences \union {NoSequence}]
  /\ NoSequence \notin Sequences
  /\ NoItem \notin Threads
  /\ Arbitration \in ArbitrationModes
  /\ Priority \in [Sequences -> Nat \ {0}]
  /\ MaybeIrrelevant \subseteq Sequences
  /\ Interference \subseteq InterferenceKinds
  /\ DriverCalls \subseteq {"get_next_item", "try_next_item", "get", "peek"}
  /\ SequenceCalls \subseteq SequenceCallKinds
  /\ MaxLocks \in [Sequences -> Nat]

VARIABLES
  arb_sequence_q,          \* the queued requests
  before,                  \* their order in the queue
  lock_list,               \* how many locks each sequence holds
  arb_completed,           \* the threads whose request has been granted
  arb_changed,             \* m_arb_size # m_lock_arb_size
  m_req_fifo,              \* the thread whose item is in the fifo, or NoItem
  sequence_item_requested,
  get_next_item_called,
  m_wait_for_item_sequence_id,
  running,                 \* the sequences with a live m_sequence_process
  reg_sequences,
  relevant,                \* the sequences whose is_relevant() returns 1
  pc,                      \* where each thread is
  driver,                  \* where the driver is, and in which call
  holding,                 \* the driver has an item and owes an item_done
  waits_relevant,          \* whose wait_for_relevant the driver waits for
  fatal                    \* the uvm_fatal that ended the run, or "none"

lists == <<arb_sequence_q, before, lock_list, reg_sequences>>
handshake == <<m_req_fifo, sequence_item_requested, get_next_item_called,
               m_wait_for_item_sequence_id>>
driver_vars == <<driver, holding, waits_relevant>>
vars == <<lists, arb_completed, arb_changed, handshake, running, relevant, pc,
          driver_vars, fatal>>

-----------------------------------------------------------------------------
(* Requests and the parent relation. *)

Request == [thread : Threads, request : {"SEQ_TYPE_REQ", "SEQ_TYPE_LOCK"},
            awaited : BOOLEAN]

ItemRequest(t) == [thread |-> t, request |-> "SEQ_TYPE_REQ", awaited |-> TRUE]
LockRequest(t) == [thread |-> t, request |-> "SEQ_TYPE_LOCK", awaited |-> TRUE]

\* The lock that wait_for_grant(lock_request = 1) queues and does not wait for.
LockAhead(t) == [thread |-> t, request |-> "SEQ_TYPE_LOCK", awaited |-> FALSE]

SequenceOf(r) == Owner[r.thread]
ThreadsOf(s) == {t \in Threads : Owner[t] = s}
Alive(t) == pc[t] # "dead"

\* The walk up from a sequence by get_parent_sequence stays in a closed set.
ClosedUpwards(S) == \A s \in S : Parent[s] \in S \union {NoSequence}

\* Family[s]: s and the sequences for which is_child(s, _) returns 1, those from
\* which every walk up meets s.
Family == [s \in Sequences |->
             {c \in Sequences : \A S \in SUBSET Sequences :
                                  c \in S /\ ClosedUpwards(S) => s \in S}]
is_child(parent, child) == child \in Family[parent] \ {parent}

-----------------------------------------------------------------------------
(***************************************************************************)
(* What the sequencer's functions do to its lists, on a record             *)
(*   q, order, locks, reg: the lists;  granted: requests completed on      *)
(*   the way;  updated: m_update_lists was called.                         *)
(***************************************************************************)
ListsOf(q, order, locks, reg, granted, updated) ==
  [q |-> q, order |-> order, locks |-> locks, reg |-> reg,
   granted |-> granted, updated |-> updated]

Lists ==
  ListsOf(arb_sequence_q, before, lock_list, reg_sequences, {}, FALSE)

push_back(L, r) ==
  ListsOf(L.q \union {r}, L.order \union (L.q \X {r}), L.locks, L.reg,
          L.granted, L.updated)
push_front(L, r) ==
  ListsOf(L.q \union {r}, L.order \union ({r} \X L.q), L.locks, L.reg,
          L.granted, L.updated)
delete(L, r) ==
  ListsOf(L.q \ {r}, L.order, L.locks, L.reg, L.granted, L.updated)
m_update_lists(L) ==
  ListsOf(L.q, L.order, L.locks, L.reg, L.granted, TRUE)

blocks(locks, s) ==
  \E h \in Sequences : locks[h] > 0 /\ s \notin Family[h]

is_blocked(s) == blocks(lock_list, s)

\* Mutant: the removal forgets the locks.
remove_keeps_locks(L, S) ==
  LET gone == UNION {Family[s] : s \in S}
  IN  ListsOf({r \in L.q : SequenceOf(r) \notin gone}, L.order, L.locks,
              L.reg \ S, L.granted, TRUE)

\* remove_sequence_from_queues for every sequence of S.
remove_sequences_from_queues(L, S) ==
  LET gone    == UNION {Family[s] : s \in S}
      removed == {r \in L.q : SequenceOf(r) \in gone}
      freed   == {s \in gone : L.locks[s] > 0}
  IN  ListsOf(L.q \ removed, L.order,
              [s \in Sequences |-> IF s \in gone THEN 0 ELSE L.locks[s]],
              L.reg \ S, L.granted,
              L.updated \/ removed # {} \/ freed # {})

\* The lock requests with no item request before them.
leading_lock_reqs(L) ==
  {r \in L.q : /\ r.request = "SEQ_TYPE_LOCK"
               /\ \A p \in L.q : <<p, r>> \in L.order
                                   => p.request = "SEQ_TYPE_LOCK"}

\* Mutant: the locks are given but the requests are not completed.
grant_without_completing(L) ==
  LET not_blocked == {r \in leading_lock_reqs(L) :
                        ~blocks(L.locks, SequenceOf(r))}
      new(s) == Cardinality({r \in not_blocked : SequenceOf(r) = s})
  IN  ListsOf(L.q \ not_blocked, L.order,
              [s \in Sequences |-> L.locks[s] + new(s)], L.reg, L.granted, TRUE)

grant_leading_locks(L) ==
  LET not_blocked == {r \in leading_lock_reqs(L) :
                        ~blocks(L.locks, SequenceOf(r))}
      new(s) == Cardinality({r \in not_blocked : SequenceOf(r) = s})
  IN  ListsOf(L.q \ not_blocked, L.order,
              [s \in Sequences |-> L.locks[s] + new(s)], L.reg,
              L.granted \union not_blocked, L.updated \/ not_blocked # {})

grant_queued_locks(L) ==
  LET zombies == {r \in L.q : r.request = "SEQ_TYPE_LOCK" /\ ~Alive(r.thread)}
  IN  grant_leading_locks(
        remove_sequences_from_queues(L, {SequenceOf(r) : r \in zombies}))

-----------------------------------------------------------------------------
(***************************************************************************)
(* m_choose_next_request.  The loop keeps positions of the queue, not      *)
(* entries: a removal on the way shifts what they stand for.               *)
(***************************************************************************)
PositionIn(Q, order, r) == Cardinality({p \in Q : <<p, r>> \in order})
EntriesAt(Q, order, i) == {r \in Q : PositionIn(Q, order, r) = i}

\* Mutant: locks are not looked at.
available_to_all(L, r) ==
  r.request = "SEQ_TYPE_REQ" /\ SequenceOf(r) \in relevant

available(L, r) ==
  /\ r.request = "SEQ_TYPE_REQ"
  /\ ~blocks(L.locks, SequenceOf(r))
  /\ SequenceOf(r) \in relevant

\* The loop over the list L: i is the position looked at, avail the positions
\* kept, removed the sequences taken off because of a dead thread.
Rounds == [i : Nat, avail : SUBSET Nat, removed : SUBSET Sequences]

look(L) == [s \in Rounds |->
  LET now == remove_sequences_from_queues(L, s.removed)
      r == CHOOSE e \in EntriesAt(now.q, now.order, s.i) : TRUE
  IN  IF s.i >= Cardinality(now.q) \/ (Arbitration = "FIFO" /\ s.avail # {}) THEN s
      ELSE IF ~Alive(r.thread)
      THEN [i |-> s.i, avail |-> s.avail, removed |-> s.removed \union {SequenceOf(r)}]
      ELSE [i |-> s.i + 1, removed |-> s.removed,
            avail |-> IF available(now, r) THEN s.avail \union {s.i} ELSE s.avail]]

\* A round moves on or takes an entry off, so that there are no more than entries.
scan(L) ==
  LET after[k \in 0..Cardinality(L.q)] ==
        IF k = 0 THEN [i |-> 0, avail |-> {}, removed |-> {}]
        ELSE look(L)[after[k - 1]]
  IN  after[Cardinality(L.q)]

\* Mutant: every mode returns the first available position.
selectable_first(L, avail) == {i \in avail : \A j \in avail : i <= j}

\* The positions the arbitration mode may return; one position is returned
\* as it is, several are checked against the locks first.
selectable(L, avail) ==
  LET entry(i) == CHOOSE r \in EntriesAt(L.q, L.order, i) : TRUE
      prio(i) == Priority[SequenceOf(entry(i))]
      open == {i \in avail : ~blocks(L.locks, SequenceOf(entry(i)))}
      highest == {i \in open : \A j \in open : prio(j) <= prio(i)}
      first(S) == {i \in S : \A j \in S : i <= j}
  IN  IF Cardinality(avail) <= 1 THEN avail
      ELSE CASE Arbitration = "STRICT_FIFO"   -> first(highest)
             [] Arbitration = "STRICT_RANDOM" -> highest
             [] OTHER                         -> open

\* What the call returns once the loop over the list G has ended with st:
\*   picks: the entries it may choose, {} for -1;
\*   overrun: a position kept in avail_sequences is past the end of the queue,
\*   so that a null entry may be read.
arbitrate(G, st) ==
  LET dead == {SequenceOf(r) : r \in {z \in G.q : ~Alive(z.thread)}}
      left == remove_sequences_from_queues(G, st.removed \intersect dead)
      inside == {i \in st.avail : i < Cardinality(left.q)}
  IN  [lists |-> left,
       overrun |-> inside # st.avail,
       picks |-> {r \in left.q : PositionIn(left.q, left.order, r)
                                   \in selectable(left, inside)}]

\* Mutant: queued locks are not granted first.
choose_without_granting(L) == {arbitrate(G, scan(G)) : G \in {L}}

\* A set of one answer, which \E binds: TLC then evaluates it only once.
m_choose_next_request(L) ==
  {arbitrate(G, scan(G)) : G \in {grant_queued_locks(L)}}

-----------------------------------------------------------------------------
(* The steps that the sequences and the driver share. *)

CommitLists(L) ==
  /\ arb_sequence_q' = L.q
  /\ before' = L.order \intersect (L.q \X L.q)
  /\ lock_list' = L.locks
  /\ reg_sequences' = L.reg

\* The threads of completed requests that are there to notice.
Awaiting(R) == {r.thread : r \in {q \in R : q.awaited /\ Alive(q.thread)}}

\* Writes the lists back and completes the requests R and those granted on
\* the way.
Commit(L, R) ==
  /\ CommitLists(L)
  /\ arb_completed' = arb_completed \union Awaiting(L.granted \union R)
  /\ arb_changed' = (arb_changed \/ L.updated)

Running == fatal = "none"
At(t, place) == Running /\ pc[t] = place
Goto(t, place) == pc' = [pc EXCEPT ![t] = place]
InTestbench(t) == At(t, "body") /\ Owner[t] \in running

HasGrant(t) == \/ pc[t] = "granted"
               \/ pc[t] = "wait_for_grant" /\ t \in arb_completed

\* A thread sleeps in wait_for_item_done in one of two places:
\* "wait_for_item_done" when its item was with the driver at the last call of the
\* task by any thread, "wait_for_next_done" when it was not.
DonePlaces == {"wait_for_item_done", "wait_for_next_done"}
Told(t) == pc[t] \in DonePlaces /\ m_wait_for_item_sequence_id = Owner[t]

\* A thread that the scheduler runs before it lets simulation time move on.
Runnable(t) ==
  \/ pc[t] \in {"wait_for_grant", "wait_for_lock"} /\ t \in arb_completed
  \/ pc[t] = "granted"
  \/ Told(t)

\* uvm_wait_for_nba_region: nothing is left in the active region.
NbaRegion == \A t \in Threads : ~Runnable(t)

-----------------------------------------------------------------------------
(* The sequences. *)

\* Mutant: start does not register the sequence.
start_unregistered(s) ==
  /\ Running /\ s \notin running
  /\ Parent[s] = NoSequence \/ Parent[s] \in running
  /\ running' = running \union {s}
  /\ pc' = [t \in Threads |-> IF Owner[t] = s THEN "body" ELSE pc[t]]
  /\ UNCHANGED <<lists, arb_completed, arb_changed, handshake, relevant,
                 driver_vars, fatal>>

\* uvm_sequence_base::start; a child sequence is started by its parent's body.
start(s) ==
  /\ Running /\ s \notin running
  /\ Parent[s] = NoSequence \/ Parent[s] \in running
  /\ running' = running \union {s}
  /\ reg_sequences' = reg_sequences \union {s}
  /\ pc' = [t \in Threads |-> IF Owner[t] = s THEN "body" ELSE pc[t]]
  /\ UNCHANGED <<arb_sequence_q, before, lock_list, arb_completed, arb_changed,
                 handshake, relevant, driver_vars, fatal>>

\* The body returns when its threads are done; start() then cleans the queues.
exit(s) ==
  /\ Running /\ s \in running
  /\ \A t \in ThreadsOf(s) : pc[t] \in {"body", "dead"}
  /\ \A c \in running : ~is_child(s, c)
  /\ running' = running \ {s}
  /\ pc' = [t \in Threads |-> IF Owner[t] = s THEN "dead" ELSE pc[t]]
  /\ Commit(remove_sequences_from_queues(Lists, {s}), {})
  /\ UNCHANGED <<handshake, relevant, driver_vars, fatal>>

\* Mutant: a request that tells nobody.
wait_for_grant_silently(t, lock_request) ==
  /\ InTestbench(t) /\ ~lock_request
  /\ Commit(push_back(Lists, ItemRequest(t)), {})
  /\ Goto(t, "wait_for_grant")
  /\ UNCHANGED <<handshake, running, relevant, driver_vars, fatal>>

\* wait_for_grant(lock_request); one ungranted LockAhead per thread is the
\* bound of the model.
wait_for_grant(t, lock_request) ==
  /\ InTestbench(t)
  /\ lock_request => /\ "lock_request" \in SequenceCalls
                     /\ LockAhead(t) \notin arb_sequence_q
                     /\ lock_list[Owner[t]] < MaxLocks[Owner[t]]
  /\ LET L == IF lock_request THEN push_back(Lists, LockAhead(t)) ELSE Lists
     IN  Commit(m_update_lists(push_back(L, ItemRequest(t))), {})
  /\ Goto(t, "wait_for_grant")
  /\ UNCHANGED <<handshake, running, relevant, driver_vars, fatal>>

\* m_lock_req: the caller does not block when it is granted at once.
m_lock_req(t, L) ==
  /\ InTestbench(t)
  /\ lock_list[Owner[t]] < MaxLocks[Owner[t]]
  /\ LET G == grant_queued_locks(L)
         mine == {LockRequest(t)}
     IN  /\ CommitLists(G)
         /\ arb_completed' = arb_completed \union Awaiting(G.granted \ mine)
         /\ arb_changed' = (arb_changed \/ G.updated)
         /\ IF mine \subseteq G.granted THEN UNCHANGED pc
            ELSE Goto(t, "wait_for_lock")
  /\ UNCHANGED <<handshake, running, relevant, driver_vars, fatal>>

lock(t) == /\ "lock" \in SequenceCalls
           /\ m_lock_req(t, push_back(Lists, LockRequest(t)))
grab(t) == /\ "grab" \in SequenceCalls
           /\ m_lock_req(t, m_update_lists(push_front(Lists, LockRequest(t))))

\* unlock and ungrab: one lock of the sequence goes; without one, a warning.
unlock(t) ==
  /\ InTestbench(t)
  /\ lock_list[Owner[t]] > 0
  /\ LET left == [lock_list EXCEPT ![Owner[t]] = @ - 1]
         L == ListsOf(arb_sequence_q, before, left, reg_sequences, {}, FALSE)
     IN  Commit(m_update_lists(grant_queued_locks(L)), {})
  /\ UNCHANGED <<handshake, running, relevant, pc, driver_vars, fatal>>

\* m_wait_for_arbitration_completed finds its request id.
arbitration_completed(t) ==
  /\ Running /\ t \in arb_completed
  /\ arb_completed' = arb_completed \ {t}
  /\ \/ pc[t] = "wait_for_grant" /\ Goto(t, "granted")
     \/ pc[t] = "wait_for_lock" /\ Goto(t, "body")
  /\ UNCHANGED <<lists, arb_changed, handshake, running, relevant, driver_vars,
                 fatal>>

\* Mutant: wait_for_item_done does not forget the item that was done last.
send_keeps_last_done(t, then_wait) ==
  /\ At(t, "granted") /\ m_req_fifo = NoItem
  /\ m_req_fifo' = t
  /\ Commit(grant_queued_locks(Lists), {})
  /\ Goto(t, IF then_wait THEN "wait_for_item_done" ELSE "body")
  /\ UNCHANGED <<m_wait_for_item_sequence_id, sequence_item_requested,
                 get_next_item_called, running, relevant, driver_vars, fatal>>

\* send_request, by itself or with the wait_for_item_done of finish_item.
send_request(t, then_wait) ==
  /\ At(t, "granted")
  /\ IF m_req_fifo # NoItem
     THEN /\ fatal' = "concurrent get_next_item"
          /\ UNCHANGED <<lists, arb_completed, arb_changed, handshake, pc>>
     ELSE /\ m_req_fifo' = t
          /\ Commit(grant_queued_locks(Lists), {})
          /\ Goto(t, IF then_wait THEN "wait_for_item_done" ELSE "body")
          /\ m_wait_for_item_sequence_id' =
               IF then_wait THEN NoSequence ELSE m_wait_for_item_sequence_id
          /\ UNCHANGED <<sequence_item_requested, get_next_item_called, fatal>>
  /\ UNCHANGED <<running, relevant, driver_vars>>

\* wait_for_item_done as a call of its own: it resets the one variable that all
\* its callers watch, also for those that were told and have not run yet.
wait_for_item_done(t) ==
  /\ "wait_for_item_done" \in SequenceCalls /\ InTestbench(t)
  /\ m_wait_for_item_sequence_id' = NoSequence
  /\ pc' = [u \in Threads |->
              IF u # t /\ pc[u] # "wait_for_item_done" THEN pc[u]
              ELSE IF m_req_fifo = u THEN "wait_for_item_done"
              ELSE "wait_for_next_done"]
  /\ UNCHANGED <<lists, arb_completed, arb_changed, m_req_fifo,
                 sequence_item_requested, get_next_item_called, running, relevant,
                 driver_vars, fatal>>

\* wait_for_item_done returns.
item_done_seen(t) ==
  /\ Running /\ Told(t)
  /\ Goto(t, "body")
  /\ UNCHANGED <<lists, arb_completed, arb_changed, handshake, running,
                 relevant, driver_vars, fatal>>

\* A sequence that overrides is_relevant changes its mind.
toggle_relevant(s) ==
  /\ Running /\ s \in MaybeIrrelevant
  /\ relevant' = IF s \in relevant THEN relevant \ {s} ELSE relevant \union {s}
  /\ UNCHANGED <<lists, arb_completed, arb_changed, handshake, running, pc,
                 driver_vars, fatal>>

-----------------------------------------------------------------------------
(* The driver, a process that calls the sequencer through its port. *)

DriverAt(place) == Running /\ driver.at = place
DriverGoes(place) == driver' = [driver EXCEPT !.at = place]
DriverReturns == driver' = [at |-> "user", call |-> "none"]

\* Mutant: every call arbitrates, whatever has been requested.
request_item_again(call) ==
  /\ DriverAt("user")
  /\ call \in DriverCalls \ {"try_next_item"}
  /\ driver' = [at |-> "select", call |-> call]
  /\ UNCHANGED <<lists, arb_completed, arb_changed, handshake, running, relevant,
                 pc, holding, waits_relevant, fatal>>

\* get_next_item, get and peek up to the first blocking point: they
\* arbitrate unless an item has been requested already.  A second get_next_item
\* before item_done is reported as an error and goes on like any other.
request_item(call) ==
  /\ DriverAt("user")
  /\ call \in DriverCalls \ {"try_next_item"}
  /\ driver' = [at |-> IF sequence_item_requested THEN "peek" ELSE "select",
                call |-> call]
  /\ get_next_item_called' =
       (get_next_item_called
          \/ (sequence_item_requested /\ call = "get_next_item"))
  /\ UNCHANGED <<lists, arb_completed, arb_changed, m_req_fifo,
                 sequence_item_requested, m_wait_for_item_sequence_id, running,
                 relevant, pc, holding, waits_relevant, fatal>>

\* m_choose_next_request returned the position of r.
granted(choice, r, next) ==
  /\ Commit(m_update_lists(delete(choice.lists, r)), {r})
  /\ sequence_item_requested' = TRUE
  /\ get_next_item_called' =
       (get_next_item_called \/ driver.call \in {"get_next_item", "try_next_item"})
  /\ DriverGoes(next)
  /\ UNCHANGED <<waits_relevant, fatal>>

\* A position past the end of the queue was dereferenced.
overran(choice) ==
  /\ choice.overrun
  /\ fatal' = "null request"
  /\ UNCHANGED <<lists, arb_completed, arb_changed, sequence_item_requested,
                 get_next_item_called, driver, waits_relevant>>

none_available(choice) == choice.picks = {} /\ ~choice.overrun

\* Mutant: nobody waits for a sequence to become relevant.
wait_for_locks_only(L) ==
  /\ CommitLists(L)
  /\ arb_completed' = arb_completed \union Awaiting(L.granted)
  /\ arb_changed' = FALSE /\ waits_relevant' = {}
  /\ DriverGoes("wait_for_available")
  /\ UNCHANGED <<sequence_item_requested, get_next_item_called, fatal>>

\* m_wait_for_available_sequence: the list's size is noted, and the waits for
\* the unblocked sequences that are not relevant are forked.
m_wait_for_available_sequence(L) ==
  /\ CommitLists(L)
  /\ arb_completed' = arb_completed \union Awaiting(L.granted)
  /\ arb_changed' = FALSE
  /\ waits_relevant' = {SequenceOf(r) : r \in
                          {e \in L.q : /\ e.request = "SEQ_TYPE_REQ"
                                       /\ ~blocks(L.locks, SequenceOf(e))
                                       /\ SequenceOf(e) \notin relevant}}
  /\ DriverGoes("wait_for_available")
  /\ UNCHANGED <<sequence_item_requested, get_next_item_called, fatal>>

m_select_sequence ==
  /\ DriverAt("select") /\ NbaRegion
  /\ \E choice \in m_choose_next_request(Lists) :
         \/ \E r \in choice.picks : granted(choice, r, "peek")
         \/ none_available(choice) /\ m_wait_for_available_sequence(choice.lists)
         \/ overran(choice)
  /\ UNCHANGED <<m_req_fifo, m_wait_for_item_sequence_id, running, relevant, pc,
                 holding>>

\* A queue entry changed or a wait_for_relevant returned: choose again.
available_changed ==
  /\ DriverAt("wait_for_available")
  /\ arb_changed \/ waits_relevant \intersect relevant # {}
  /\ DriverGoes("select")
  /\ waits_relevant' = {}
  /\ UNCHANGED <<lists, arb_completed, arb_changed, handshake, running, relevant,
                 pc, holding, fatal>>

\* Mutants: an item_done that leaves the item in the fifo, and one that does
\* not say whose item is done.
item_done_leaves_item ==
  /\ sequence_item_requested' = FALSE
  /\ get_next_item_called' = FALSE
  /\ m_wait_for_item_sequence_id' =
       IF m_req_fifo = NoItem THEN NoSequence ELSE Owner[m_req_fifo]
  /\ Commit(grant_queued_locks(Lists), {})
  /\ UNCHANGED <<m_req_fifo, fatal>>
item_done_tells_nobody ==
  /\ sequence_item_requested' = FALSE
  /\ get_next_item_called' = FALSE
  /\ m_req_fifo' = NoItem
  /\ Commit(grant_queued_locks(Lists), {})
  /\ UNCHANGED <<m_wait_for_item_sequence_id, fatal>>

item_done_effect ==
  /\ sequence_item_requested' = FALSE
  /\ get_next_item_called' = FALSE
  /\ m_req_fifo' = NoItem
  /\ IF m_req_fifo = NoItem
     THEN /\ fatal' = "item_done without request"
          /\ UNCHANGED <<m_wait_for_item_sequence_id, lists, arb_completed,
                         arb_changed>>
     ELSE /\ m_wait_for_item_sequence_id' = Owner[m_req_fifo]
          /\ Commit(grant_queued_locks(Lists), {})
          /\ UNCHANGED fatal

\* m_req_fifo.peek returns; get goes on to item_done.
peek_returns ==
  /\ DriverAt("peek") /\ m_req_fifo # NoItem
  /\ IF driver.call = "get"
     THEN item_done_effect /\ holding' = FALSE
     ELSE /\ holding' = TRUE
          /\ UNCHANGED <<lists, arb_completed, arb_changed, handshake, fatal>>
  /\ DriverReturns
  /\ UNCHANGED <<running, relevant, pc, waits_relevant>>

\* With get_next_item_called set it reports an error and returns.
try_next_item ==
  /\ DriverAt("user") /\ "try_next_item" \in DriverCalls
  /\ driver' = IF get_next_item_called THEN driver
               ELSE [at |-> "try_select", call |-> "try_next_item"]
  /\ UNCHANGED <<lists, arb_completed, arb_changed, handshake, running, relevant,
                 pc, holding, waits_relevant, fatal>>

try_select ==
  /\ DriverAt("try_select") /\ NbaRegion
  /\ \E choice \in m_choose_next_request(Lists) :
         \/ \E r \in choice.picks : granted(choice, r, "try_peek")
         \/ /\ none_available(choice)
            /\ Commit(choice.lists, {}) /\ DriverReturns
            /\ UNCHANGED <<sequence_item_requested, get_next_item_called,
                           waits_relevant, fatal>>
         \/ overran(choice)
  /\ UNCHANGED <<m_req_fifo, m_wait_for_item_sequence_id, running, relevant, pc,
                 holding>>

\* One NBA later the item must be there; else an error and a null item.
try_peek ==
  /\ DriverAt("try_peek") /\ NbaRegion
  /\ holding' = (m_req_fifo # NoItem)
  /\ DriverReturns
  /\ UNCHANGED <<lists, arb_completed, arb_changed, handshake, running, relevant,
                 pc, waits_relevant, fatal>>

item_done ==
  /\ DriverAt("user") /\ holding
  /\ item_done_effect
  /\ holding' = FALSE
  /\ UNCHANGED <<running, relevant, pc, driver, waits_relevant>>

-----------------------------------------------------------------------------
(* Kills and resets, from processes outside the sequences they hit. *)

Spared(t) == "kill_granted" \notin Interference /\ HasGrant(t)

\* User code disables one forked thread; its queue entries stay behind.
kill_thread(t) ==
  /\ Running /\ "kill_thread" \in Interference
  /\ Alive(t) /\ ~Spared(t)
  /\ Goto(t, "dead")
  /\ arb_completed' = arb_completed \ {t}
  /\ UNCHANGED <<lists, arb_changed, handshake, running, relevant, driver_vars,
                 fatal>>

\* kill_sequence on S and, through m_kill and children_array, on the running
\* sequences below; note that no lock is granted here.
KillAll(S) ==
  LET killed == running \intersect UNION {Family[s] : s \in S}
      L == remove_sequences_from_queues(Lists, S \union killed)
  IN  /\ \A t \in Threads : Owner[t] \in killed => ~Spared(t)
      /\ CommitLists(L)
      /\ arb_changed' = (arb_changed \/ L.updated)
      /\ arb_completed' = {t \in arb_completed : Owner[t] \notin killed}
      /\ running' = running \ killed
      /\ pc' = [t \in Threads |-> IF Owner[t] \in killed THEN "dead" ELSE pc[t]]

kill_sequence(s) ==
  /\ Running /\ "kill_sequence" \in Interference
  /\ s \in running
  /\ KillAll({s})
  /\ UNCHANGED <<handshake, relevant, driver_vars, fatal>>

\* uvm_sequencer::stop_sequences.
stop_sequences ==
  /\ Running /\ "stop_sequences" \in Interference
  /\ KillAll(reg_sequences)
  /\ sequence_item_requested' = FALSE
  /\ get_next_item_called' = FALSE
  /\ m_req_fifo' = NoItem
  /\ UNCHANGED <<m_wait_for_item_sequence_id, relevant, driver_vars, fatal>>

-----------------------------------------------------------------------------

Init ==
  /\ arb_sequence_q = {} /\ before = {}
  /\ lock_list = [s \in Sequences |-> 0]
  /\ arb_completed = {} /\ arb_changed = FALSE
  /\ m_req_fifo = NoItem
  /\ sequence_item_requested = FALSE /\ get_next_item_called = FALSE
  /\ m_wait_for_item_sequence_id = NoSequence
  /\ running = {} /\ reg_sequences = {} /\ relevant = Sequences
  /\ pc = [t \in Threads |-> "dead"]
  /\ driver = [at |-> "user", call |-> "none"]
  /\ holding = FALSE /\ waits_relevant = {}
  /\ fatal = "none"

SequenceStep(s) ==
  start(s) \/ exit(s) \/ toggle_relevant(s) \/ kill_sequence(s)

\* What a thread chooses to do, and what the sequencer makes it do.
ThreadCalls(t) ==
  \/ \E lock_request \in BOOLEAN : wait_for_grant(t, lock_request)
  \/ lock(t) \/ grab(t) \/ unlock(t) \/ wait_for_item_done(t) \/ kill_thread(t)
ThreadProceeds(t) ==
  \/ arbitration_completed(t) \/ item_done_seen(t)
  \/ \E then_wait \in BOOLEAN : send_request(t, then_wait)

DriverProceeds ==
  \/ m_select_sequence \/ available_changed \/ peek_returns
  \/ try_select \/ try_peek
DriverCallsSequencer ==
  \/ \E call \in {"get_next_item", "get", "peek"} : request_item(call)
  \/ try_next_item

Next ==
  \/ \E s \in Sequences : SequenceStep(s)
  \/ \E t \in Threads : ThreadCalls(t) \/ ThreadProceeds(t)
  \/ DriverProceeds \/ DriverCallsSequencer \/ item_done
  \/ stop_sequences

Spec == Init /\ [][Next]_vars

\* The simulator runs what is runnable.
SchedulerFairness ==
  /\ \A t \in Threads : WF_vars(ThreadProceeds(t))
  /\ WF_vars(DriverProceeds)

\* The driver keeps asking for items and finishes those it got, however often it
\* looks at them again first.
DriverFairness == WF_vars(DriverCallsSequencer) /\ SF_vars(item_done)

\* A sequence gives its locks back, whatever else it does in between.
UnlockFairness == \A t \in Threads : SF_vars(unlock(t))

FairSpec == Spec /\ SchedulerFairness /\ DriverFairness /\ UnlockFairness

=============================================================================
