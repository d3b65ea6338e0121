-------------------------- MODULE SequencerProofs --------------------------
(***************************************************************************)
(* HandshakeInv is inductive for every set of sequences and threads, every *)
(* forest of sequences and every arbitration mode, provided the driver and *)
(* the testbench are WellBehaved.  Then the arbitration: what              *)
(* m_choose_next_request finds in a queue of any length, and when the      *)
(* driver sleeps; and the sequencer implements ItemExchange.               *)
(***************************************************************************)
EXTENDS SequencerProperties, CommonLemmas, FiniteSetTheorems, TLAPS

ListsOK(L) ==
  /\ L.q \subseteq Request /\ IsFiniteSet(L.q)
  /\ L.locks \in [Sequences -> Nat]
  /\ L.reg \subseteq Sequences
  /\ L.granted \subseteq Request
  /\ L.updated \in BOOLEAN

\* What grant_queued_locks and m_choose_next_request may do to a list L: take
\* requests off, grant lock requests among those they take off, and drop
\* requests and registrations only where there is a dead thread.
Shrunk(L, M) ==
  /\ ListsOK(M)
  /\ M.q \subseteq L.q
  /\ L.granted \subseteq M.granted
  /\ \A r \in M.granted \ L.granted :
       r \in L.q \ M.q /\ r.request = "SEQ_TYPE_LOCK"
  /\ \A s \in Sequences : M.locks[s] > 0 =>
       L.locks[s] > 0 \/ \E r \in L.q : SequenceOf(r) = s
  /\ M.reg \subseteq L.reg
  /\ (\A r \in L.q : Alive(r.thread)) =>
       M.reg = L.reg /\ L.q \subseteq M.q \union M.granted

-----------------------------------------------------------------------------
(* Requests *)

\* A request is determined by its three fields.
LEMMA RequestEq ==
  ASSUME NEW r \in Request, NEW g \in Request, r.thread = g.thread,
         r.request = g.request, r.awaited = g.awaited
  PROVE  r = g
BY DEF Request

\* The requests a thread makes have the right type.
LEMMA RequestType ==
  ASSUME NEW t \in Threads
  PROVE  /\ ItemRequest(t) \in Request
         /\ LockRequest(t) \in Request
         /\ LockAhead(t) \in Request
BY DEF Request, ItemRequest, LockRequest, LockAhead

\* A request belongs to a sequence.
LEMMA SequenceOfType ==
  ASSUME NEW r \in Request
  PROVE  /\ r.thread \in Threads /\ SequenceOf(r) \in Sequences
         /\ r.request \in {"SEQ_TYPE_REQ", "SEQ_TYPE_LOCK"}
         /\ r.awaited \in BOOLEAN
BY SequencerAssumption DEF Request, SequenceOf

-----------------------------------------------------------------------------
(* The list operations *)

Gone(S) == UNION {Family[s] : s \in S}

\* A family consists of sequences and contains its head.
LEMMA FamilyFacts ==
  ASSUME NEW s \in Sequences
  PROVE  s \in Family[s] /\ Family[s] \subseteq Sequences
BY DEF Family

\* remove_sequences_from_queues keeps exactly what is not of S's families.
LEMMA RemoveFamilies ==
  ASSUME NEW L, ListsOK(L), NEW S \in SUBSET Sequences, NEW M,
         M = remove_sequences_from_queues(L, S)
  PROVE  /\ ListsOK(M)
         /\ M.q = {r \in L.q : SequenceOf(r) \notin Gone(S)}
         /\ M.locks = [s \in Sequences |-> IF s \in Gone(S) THEN 0 ELSE L.locks[s]]
         /\ M.reg = L.reg \ S
         /\ M.granted = L.granted
<1> DEFINE removed == {r \in L.q : SequenceOf(r) \in Gone(S)}
           locks == [s \in Sequences |-> IF s \in Gone(S) THEN 0 ELSE L.locks[s]]
           upd == L.updated \/ removed # {} \/ {s \in Gone(S) : L.locks[s] > 0} # {}
<1>1. M = ListsOf(L.q \ removed, L.order, locks, L.reg \ S, L.granted, upd)
  BY DEF remove_sequences_from_queues, Gone
<1>2. upd \in BOOLEAN
  BY DEF ListsOK
<1>3. locks \in [Sequences -> Nat]
  BY DEF ListsOK
<1>4. IsFiniteSet(L.q \ removed)
  BY FS_Subset DEF ListsOK
<1>5. /\ M.q = L.q \ removed /\ M.locks = locks /\ M.reg = L.reg \ S
      /\ M.granted = L.granted /\ M.updated = upd
  <2> HIDE DEF upd, removed, locks
  <2> QED
    BY <1>1 DEF ListsOf
<1> HIDE DEF upd
<1> QED
  BY <1>2, <1>3, <1>4, <1>5 DEF ListsOK

\* Removing the sequences of dead threads shrinks the lists.
LEMMA RemoveShrinks ==
  ASSUME NEW L, ListsOK(L), NEW S,
         \A s \in S : \E r \in L.q : SequenceOf(r) = s /\ ~Alive(r.thread)
  PROVE  Shrunk(L, remove_sequences_from_queues(L, S))
<1> DEFINE M == remove_sequences_from_queues(L, S)
<1>1. S \in SUBSET Sequences
  BY SequenceOfType DEF ListsOK
<1>2. /\ ListsOK(M)
      /\ M.q = {r \in L.q : SequenceOf(r) \notin Gone(S)}
      /\ M.locks = [s \in Sequences |-> IF s \in Gone(S) THEN 0 ELSE L.locks[s]]
      /\ M.reg = L.reg \ S
      /\ M.granted = L.granted
  BY <1>1, RemoveFamilies
<1> HIDE DEF M
<1>3. ASSUME \A r \in L.q : Alive(r.thread)
      PROVE  M.reg = L.reg /\ L.q \subseteq M.q
  <2>1. S = {}
    BY <1>3
  <2>2. Gone(S) = {}
    BY <2>1 DEF Gone
  <2> QED
    BY <1>2, <2>1, <2>2
<1>4. Shrunk(L, M)
  BY <1>2, <1>3 DEF Shrunk, ListsOK
<1> QED
  BY <1>4 DEF M

\* grant_leading_locks shrinks the lists.
LEMMA GrantShrinks ==
  ASSUME NEW L, ListsOK(L)
  PROVE  Shrunk(L, grant_leading_locks(L))
<1> DEFINE G == {r \in leading_lock_reqs(L) : ~blocks(L.locks, SequenceOf(r))}
           new(s) == Cardinality({r \in G : SequenceOf(r) = s})
           locks == [s \in Sequences |-> L.locks[s] + new(s)]
           upd == L.updated \/ G # {}
           M == ListsOf(L.q \ G, L.order, locks, L.reg, L.granted \union G, upd)
<1>1. grant_leading_locks(L) = M
  BY DEF grant_leading_locks
<1>2. G \subseteq {r \in L.q : r.request = "SEQ_TYPE_LOCK"}
  BY DEF leading_lock_reqs
<1> HIDE DEF G
<1>3. IsFiniteSet(G) /\ IsFiniteSet(L.q \ G)
  BY <1>2, FS_Subset DEF ListsOK
<1>4. ASSUME NEW s \in Sequences
      PROVE  /\ new(s) \in Nat
             /\ new(s) > 0 => \E r \in L.q : SequenceOf(r) = s
  <2>1. IsFiniteSet({r \in G : SequenceOf(r) = s})
    BY <1>3, FS_Subset
  <2>2. new(s) \in Nat
    BY <2>1, FS_CardinalityType
  <2>3. CASE {r \in G : SequenceOf(r) = s} = {}
    BY <2>3, FS_EmptySet
  <2>4. CASE \E r \in G : SequenceOf(r) = s
    BY <1>2, <2>2, <2>4
  <2> QED
    BY <2>3, <2>4
<1> HIDE DEF new
<1>5. /\ locks \in [Sequences -> Nat]
      /\ \A s \in Sequences : locks[s] > 0 =>
           L.locks[s] > 0 \/ \E r \in L.q : SequenceOf(r) = s
  BY <1>4 DEF ListsOK
<1>6. upd \in BOOLEAN
  BY DEF ListsOK
<1> HIDE DEF locks, upd
<1>7. /\ M.q = L.q \ G /\ M.locks = locks /\ M.reg = L.reg
      /\ M.granted = L.granted \union G /\ M.updated = upd
  BY DEF ListsOf
<1> HIDE DEF M
<1>8. Shrunk(L, M)
  BY <1>2, <1>3, <1>5, <1>6, <1>7 DEF Shrunk, ListsOK
<1> QED
  BY <1>1, <1>8

\* Shrinking twice is shrinking.
LEMMA ShrunkTwice ==
  ASSUME NEW L, ListsOK(L), NEW M, NEW N, Shrunk(L, M), Shrunk(M, N)
  PROVE  Shrunk(L, N)
<1>1. ListsOK(N) /\ N.q \subseteq L.q /\ L.granted \subseteq N.granted
      /\ N.reg \subseteq L.reg
  BY DEF Shrunk
<1>2. \A r \in N.granted \ L.granted :
        r \in L.q \ N.q /\ r.request = "SEQ_TYPE_LOCK"
  BY DEF Shrunk
<1>3. \A s \in Sequences : N.locks[s] > 0 =>
        L.locks[s] > 0 \/ \E r \in L.q : SequenceOf(r) = s
  BY DEF Shrunk
<1>4. ASSUME \A r \in L.q : Alive(r.thread)
      PROVE  N.reg = L.reg /\ L.q \subseteq N.q \union N.granted
  BY <1>4 DEF Shrunk
<1> QED
  BY <1>1, <1>2, <1>3, <1>4 DEF Shrunk

\* grant_queued_locks shrinks the lists.
LEMMA QueuedLocksShrinks ==
  ASSUME NEW L, ListsOK(L)
  PROVE  Shrunk(L, grant_queued_locks(L))
<1> DEFINE Z == {r \in L.q : r.request = "SEQ_TYPE_LOCK" /\ ~Alive(r.thread)}
           M == remove_sequences_from_queues(L, {SequenceOf(r) : r \in Z})
<1>1. Shrunk(L, M)
  BY RemoveShrinks
<1>2. grant_queued_locks(L) = grant_leading_locks(M)
  BY DEF grant_queued_locks
<1> HIDE DEF M
<1>3. Shrunk(M, grant_leading_locks(M))
  BY <1>1, GrantShrinks DEF Shrunk
<1> QED
  BY <1>1, <1>2, <1>3, ShrunkTwice

\* m_choose_next_request shrinks the lists and picks a queued request.
LEMMA ChooseShrinks ==
  ASSUME NEW L, ListsOK(L), NEW choice \in m_choose_next_request(L)
  PROVE  /\ Shrunk(L, choice.lists)
         /\ choice.picks \subseteq choice.lists.q
<1> DEFINE G == grant_queued_locks(L)
           dead == {SequenceOf(r) : r \in {z \in G.q : ~Alive(z.thread)}}
           S == scan(G).removed \intersect dead
           left == remove_sequences_from_queues(G, S)
<1>1. choice = arbitrate(G, scan(G))
  BY DEF m_choose_next_request
<1>2. choice.lists = left /\ choice.picks \subseteq left.q
  BY <1>1 DEF arbitrate
<1>3. Shrunk(L, G)
  BY QueuedLocksShrinks
<1>4. Shrunk(G, left)
  BY <1>3, RemoveShrinks DEF Shrunk
<1> HIDE DEF left, G
<1> QED
  BY <1>2, <1>3, <1>4, ShrunkTwice

-----------------------------------------------------------------------------
(***************************************************************************)
(* The queue and the threads.  QueueFor is QueueOK for a queue Q, places p *)
(* of the threads and granted threads done; KeptLists is what a step that  *)
(* commits shrunk lists leaves.                                            *)
(***************************************************************************)
QueueFor(Q, p, done) ==
  \A r \in Q :
    /\ SequenceOf(r) \in running
    /\ r.request = "SEQ_TYPE_REQ" => r.awaited
    /\ r.awaited /\ p[r.thread] # "dead" =>
         /\ r.thread \notin done
         /\ p[r.thread] = IF r.request = "SEQ_TYPE_REQ" THEN "wait_for_grant"
                          ELSE "wait_for_lock"

KeptLists(p) ==
  /\ arb_sequence_q' \subseteq Request /\ IsFiniteSet(arb_sequence_q')
  /\ before' \in SUBSET (arb_sequence_q' \X arb_sequence_q')
  /\ lock_list' \in [Sequences -> Nat]
  /\ \A s \in Sequences : lock_list'[s] > 0 => s \in running
  /\ reg_sequences' \subseteq reg_sequences
  /\ "kill_thread" \notin Interference => reg_sequences' = reg_sequences
  /\ arb_completed' \subseteq Threads /\ arb_completed \subseteq arb_completed'
  /\ \A t \in arb_completed' \ arb_completed : p[t] = "wait_for_lock"
  /\ QueueFor(arb_sequence_q', p, arb_completed')

\* Granting queued locks wakes only threads that wait for a lock, and leaves
\* no request of theirs in the queue.
LEMMA GrantKeeps ==
  ASSUME NEW L, ListsOK(L), NEW M, Shrunk(L, M), L.granted = {},
         NEW p \in [Threads -> ThreadPlaces], NEW done,
         QueueFor(L.q, p, done),
         \A t \in Threads : Alive(t) => p[t] # "dead"
  PROVE  /\ Awaiting(M.granted) \subseteq Threads
         /\ \A t \in Awaiting(M.granted) : p[t] = "wait_for_lock"
         /\ QueueFor(M.q, p, done \union Awaiting(M.granted))
<1>1. ASSUME NEW t \in Awaiting(M.granted)
      PROVE  /\ t \in Threads /\ p[t] = "wait_for_lock"
             /\ \A r \in M.q : r.thread = t => ~r.awaited
  <2>1. PICK g \in M.granted : g.thread = t /\ g.awaited /\ Alive(t)
    BY DEF Awaiting
  <2>2. g \in L.q \ M.q /\ g.request = "SEQ_TYPE_LOCK" /\ g \in Request
    BY <2>1 DEF Shrunk, ListsOK
  <2>3. t \in Threads /\ p[t] # "dead"
    BY <2>1, <2>2, SequenceOfType
  <2>4. p[t] = "wait_for_lock"
    BY <2>1, <2>2, <2>3 DEF QueueFor
  <2>5. ASSUME NEW r \in M.q, r.thread = t, r.awaited
        PROVE  FALSE
    <3>1. r \in L.q /\ r \in Request
      BY DEF Shrunk, ListsOK
    <3>2. r.request = "SEQ_TYPE_LOCK"
      BY <2>3, <2>4, <2>5, <3>1, SequenceOfType DEF QueueFor
    <3>3. r.awaited = TRUE /\ g.awaited = TRUE
      BY <2>1, <2>2, <2>5, <3>1, SequenceOfType
    <3>4. r = g
      BY <2>1, <2>2, <2>5, <3>1, <3>2, <3>3, RequestEq
    <3> QED
      BY <2>2, <3>4
  <2> QED
    BY <2>3, <2>4, <2>5
<1>2. M.q \subseteq L.q
  BY DEF Shrunk
<1> QED
  BY <1>1, <1>2 DEF QueueFor

\* The lists of a state in which the invariant holds.
LEMMA ListsFacts ==
  ASSUME HandshakeInv
  PROVE  /\ ListsOK(Lists) /\ Lists.granted = {} /\ Lists.q = arb_sequence_q
         /\ Lists.locks = lock_list /\ Lists.reg = reg_sequences
         /\ QueueFor(Lists.q, pc, arb_completed)
         /\ pc \in [Threads -> ThreadPlaces]
BY DEF HandshakeInv, TypeOK, QueueOK, Lists, ListsOf, ListsOK, QueueFor, Alive

\* Lists shrunk from a sound list L are sound.
LEMMA ShrunkKeeps ==
  ASSUME HandshakeInv, NEW L, ListsOK(L), L.reg = reg_sequences,
         \A s \in Sequences : L.locks[s] > 0 => s \in running,
         \A r \in L.q : SequenceOf(r) \in running,
         NEW M, Shrunk(L, M)
  PROVE  /\ ListsOK(M)
         /\ \A s \in Sequences : M.locks[s] > 0 => s \in running
         /\ M.reg \subseteq reg_sequences
         /\ "kill_thread" \notin Interference => M.reg = reg_sequences
<1>1. "kill_thread" \notin Interference => M.reg = L.reg
  <2> SUFFICES ASSUME "kill_thread" \notin Interference, NEW r \in L.q
               PROVE  Alive(r.thread)
    BY DEF Shrunk
  <2>1. r.thread \in Threads /\ Owner[r.thread] \in running
    BY SequenceOfType DEF ListsOK, SequenceOf
  <2> QED
    BY <2>1 DEF HandshakeInv, RunningOK, Alive
<1>2. \A s \in Sequences : M.locks[s] > 0 => s \in running
  BY DEF Shrunk
<1>3. ListsOK(M) /\ M.reg \subseteq L.reg
  BY DEF Shrunk
<1> QED
  BY <1>1, <1>2, <1>3

\* A step that commits lists shrunk from a sound list keeps them sound.
LEMMA CommitKeeps ==
  ASSUME HandshakeInv, NEW L, ListsOK(L), L.granted = {}, L.reg = reg_sequences,
         \A s \in Sequences : L.locks[s] > 0 => s \in running,
         NEW p \in [Threads -> ThreadPlaces], QueueFor(L.q, p, arb_completed),
         \A t \in Threads : Alive(t) <=> p[t] # "dead",
         NEW M, Shrunk(L, M), CommitLists(M),
         NEW A \in SUBSET Awaiting(M.granted),
         arb_completed' = arb_completed \union A
  PROVE  KeptLists(p)
<1>1. /\ A \subseteq Threads
      /\ \A t \in A : p[t] = "wait_for_lock"
      /\ QueueFor(M.q, p, arb_completed \union A)
  BY GrantKeeps DEF QueueFor
<1>2. /\ ListsOK(M)
      /\ \A s \in Sequences : M.locks[s] > 0 => s \in running
      /\ M.reg \subseteq reg_sequences
      /\ "kill_thread" \notin Interference => M.reg = reg_sequences
  BY ShrunkKeeps DEF QueueFor
<1>3. /\ arb_sequence_q' = M.q /\ lock_list' = M.locks /\ reg_sequences' = M.reg
      /\ before' \in SUBSET (M.q \X M.q)
  BY DEF CommitLists
<1>4. arb_completed \subseteq Threads
  BY DEF HandshakeInv, TypeOK
<1> QED
  BY <1>1, <1>2, <1>3, <1>4 DEF KeptLists, ListsOK

-----------------------------------------------------------------------------
(* One lemma per action: it preserves HandshakeInv.  First those that leave *)
(* the lists alone. *)

\* start wakes the threads of a sequence that had none.
LEMMA StartStep ==
  ASSUME WellBehaved, HandshakeInv, NEW s \in Sequences, start(s)
  PROVE  HandshakeInv'
BY SequencerAssumption, SequenceOfType
   DEF HandshakeInv, TypeOK, QueueOK, CompletedOK, RunningOK, DriverOK,
       OneItemInFlight, DoneOK, HoldingOK, HasGrant, ThreadPlaces,
       start, Running, SequenceOf, Alive, lists, handshake, driver_vars

\* A granted thread goes on.
LEMMA CompletedStep ==
  ASSUME WellBehaved, HandshakeInv, NEW t \in Threads, arbitration_completed(t)
  PROVE  HandshakeInv'
BY SequencerAssumption, SequenceOfType
   DEF HandshakeInv, TypeOK, QueueOK, CompletedOK, RunningOK, DriverOK,
       OneItemInFlight, DoneOK, HoldingOK, HasGrant, ThreadPlaces,
       arbitration_completed, Running, Goto, Alive, lists, handshake, driver_vars

\* A thread sees that its item is done.
LEMMA DoneSeenStep ==
  ASSUME WellBehaved, HandshakeInv, NEW t \in Threads, item_done_seen(t)
  PROVE  HandshakeInv'
BY SequencerAssumption, SequenceOfType
   DEF HandshakeInv, TypeOK, QueueOK, CompletedOK, RunningOK, DriverOK,
       OneItemInFlight, DoneOK, HoldingOK, HasGrant, ThreadPlaces,
       item_done_seen, Told, DonePlaces, Running, Goto, Alive, lists, handshake, driver_vars

\* A thread calls wait_for_item_done by itself: what it overwrites was of threads
\* that now wait for the next item_done.
LEMMA WaitStep ==
  ASSUME HandshakeInv, NEW t \in Threads, wait_for_item_done(t)
  PROVE  HandshakeInv'
<1>1. /\ pc[t] = "body" /\ pc' = [u \in Threads |->
                 IF u # t /\ pc[u] # "wait_for_item_done" THEN pc[u]
                 ELSE IF m_req_fifo = u THEN "wait_for_item_done"
                 ELSE "wait_for_next_done"]
      /\ m_wait_for_item_sequence_id' = NoSequence
      /\ UNCHANGED <<arb_sequence_q, before, lock_list, reg_sequences, arb_completed>>
      /\ UNCHANGED <<arb_changed, m_req_fifo, sequence_item_requested, running>>
      /\ UNCHANGED <<get_next_item_called, relevant, driver, holding, waits_relevant, fatal>>
  BY DEF wait_for_item_done, InTestbench, At, lists, driver_vars
<1>2. pc \in [Threads -> ThreadPlaces]
  BY DEF HandshakeInv, TypeOK
<1>3. /\ pc' \in [Threads -> ThreadPlaces]
      /\ \A u \in Threads : \/ pc'[u] = pc[u]
                            \/ /\ pc[u] \in {"body", "wait_for_item_done"}
                               /\ pc'[u] \in DonePlaces
      /\ \A u \in Threads : pc'[u] = "wait_for_item_done" => m_req_fifo = u
  BY <1>1, <1>2 DEF ThreadPlaces, DonePlaces
<1>4. \A u \in Threads : Alive(u)' <=> Alive(u)
  BY <1>3 DEF Alive, DonePlaces
<1>5. \A u \in Threads : HasGrant(u)' <=> HasGrant(u)
  BY <1>1, <1>3 DEF HasGrant, DonePlaces
<1>6. TypeOK'
  BY <1>1, <1>3 DEF HandshakeInv, TypeOK
<1>7. \A u \in Threads : pc[u] \in {"wait_for_grant", "wait_for_lock"} => pc'[u] = pc[u]
  BY <1>3
<1>8. QueueOK' /\ CompletedOK'
  <2>1. \A r \in arb_sequence_q : r.thread \in Threads
    BY SequenceOfType DEF HandshakeInv, TypeOK
  <2>2. arb_completed \subseteq Threads
    BY DEF HandshakeInv, TypeOK
  <2> QED
    BY <1>1, <1>4, <1>7, <2>1, <2>2 DEF HandshakeInv, QueueOK, CompletedOK, SequenceOf
<1>9. RunningOK'
  BY <1>1, <1>4 DEF HandshakeInv, RunningOK, Alive
<1>10. DriverOK' /\ OneItemInFlight' /\ HoldingOK'
  BY <1>1, <1>5 DEF HandshakeInv, DriverOK, OneItemInFlight, HoldingOK
<1>11. DoneOK'
  BY <1>1, <1>3, <1>5, SequencerAssumption DEF HandshakeInv, OneItemInFlight, DoneOK
<1> QED
  BY <1>6, <1>8, <1>9, <1>10, <1>11 DEF HandshakeInv

\* A sequence changes its relevance.
LEMMA ToggleStep ==
  ASSUME WellBehaved, HandshakeInv, NEW s \in Sequences, toggle_relevant(s)
  PROVE  HandshakeInv'
BY SequencerAssumption, SequenceOfType
   DEF HandshakeInv, TypeOK, QueueOK, CompletedOK, RunningOK, DriverOK,
       OneItemInFlight, DoneOK, HoldingOK, HasGrant, ThreadPlaces,
       toggle_relevant, Running, Alive, lists, handshake, driver_vars

\* The driver asks for an item.
LEMMA RequestItemStep ==
  ASSUME WellBehaved, HandshakeInv, NEW call \in {"get_next_item", "get", "peek"}, request_item(call)
  PROVE  HandshakeInv'
BY SequencerAssumption, SequenceOfType
   DEF HandshakeInv, TypeOK, QueueOK, CompletedOK, RunningOK, DriverOK,
       OneItemInFlight, DoneOK, HoldingOK, HasGrant, ThreadPlaces,
       request_item, DriverAt, Running, Alive, lists, handshake, driver_vars

\* The driver is told to choose again.
LEMMA AvailableChangedStep ==
  ASSUME WellBehaved, HandshakeInv, available_changed
  PROVE  HandshakeInv'
BY SequencerAssumption, SequenceOfType
   DEF HandshakeInv, TypeOK, QueueOK, CompletedOK, RunningOK, DriverOK,
       OneItemInFlight, DoneOK, HoldingOK, HasGrant, ThreadPlaces,
       available_changed, DriverAt, DriverGoes, Running, Alive, lists, handshake, driver_vars

\* The driver tries for an item; WellBehaved: none is requested.
LEMMA TryNextItemStep ==
  ASSUME WellBehaved, HandshakeInv, try_next_item
  PROVE  HandshakeInv'
BY SequencerAssumption, SequenceOfType
   DEF HandshakeInv, TypeOK, QueueOK, CompletedOK, RunningOK, DriverOK,
       OneItemInFlight, DoneOK, HoldingOK, HasGrant, ThreadPlaces,
       WellBehaved, try_next_item, DriverAt, Running, Alive, lists, handshake, driver_vars

\* The driver looks whether the item has come.
LEMMA TryPeekStep ==
  ASSUME WellBehaved, HandshakeInv, try_peek
  PROVE  HandshakeInv'
BY SequencerAssumption, SequenceOfType
   DEF HandshakeInv, TypeOK, QueueOK, CompletedOK, RunningOK, DriverOK,
       OneItemInFlight, DoneOK, HoldingOK, HasGrant, ThreadPlaces,
       try_peek, DriverAt, DriverReturns, NbaRegion, Runnable, Running, Alive, lists, handshake, driver_vars

\* A thread dies.
LEMMA KillThreadStep ==
  ASSUME WellBehaved, HandshakeInv, NEW t \in Threads, kill_thread(t)
  PROVE  HandshakeInv'
BY SequencerAssumption, SequenceOfType
   DEF HandshakeInv, TypeOK, QueueOK, CompletedOK, RunningOK, DriverOK,
       OneItemInFlight, DoneOK, HoldingOK, HasGrant, ThreadPlaces,
       kill_thread, Running, Goto, Alive, lists, handshake, driver_vars

-----------------------------------------------------------------------------
(* The actions that commit shrunk lists. *)

\* Shrunk is reflexive, and does not see m_update_lists.
LEMMA ShrunkItself ==
  ASSUME NEW L, ListsOK(L)
  PROVE  Shrunk(L, L)
BY DEF Shrunk

\* m_update_lists only says that the lists have changed.
LEMMA UpdateShrinks ==
  ASSUME NEW L, NEW M, Shrunk(L, M)
  PROVE  Shrunk(L, m_update_lists(M))
BY DEF Shrunk, ListsOK, m_update_lists, ListsOf

\* CommitKeeps for steps that use Commit.
LEMMA CommitStep ==
  ASSUME HandshakeInv, NEW L, ListsOK(L), L.granted = {}, L.reg = reg_sequences,
         \A s \in Sequences : L.locks[s] > 0 => s \in running,
         NEW p \in [Threads -> ThreadPlaces], QueueFor(L.q, p, arb_completed),
         \A t \in Threads : Alive(t) <=> p[t] # "dead",
         NEW M, Shrunk(L, M), Commit(M, {})
  PROVE  KeptLists(p) /\ arb_changed' \in BOOLEAN
<1>1. CommitLists(M) /\ arb_completed' = arb_completed \union Awaiting(M.granted)
  <2>1. M.granted \union {} = M.granted
    OBVIOUS
  <2> QED
    BY <2>1 DEF Commit
<1>2. KeptLists(p)
  BY <1>1, CommitKeeps
<1>3. arb_changed' \in BOOLEAN
  BY DEF Commit
<1> QED
  BY <1>2, <1>3

\* A step that grants queued locks and changes no thread's place.
LEMMA GrantStep ==
  ASSUME HandshakeInv, NEW M, Shrunk(Lists, M), Commit(M, {})
  PROVE  KeptLists(pc) /\ arb_changed' \in BOOLEAN
<1>1. \A s \in Sequences : Lists.locks[s] > 0 => s \in running
  BY ListsFacts DEF HandshakeInv, RunningOK
<1>2. \A t \in Threads : Alive(t) <=> pc[t] # "dead"
  BY DEF Alive
<1> QED
  BY <1>1, <1>2, ListsFacts, CommitStep

\* The parts of the invariant about queue, threads and grants after a step
\* that kept the lists.
LEMMA KeptQueue ==
  ASSUME HandshakeInv, KeptLists(pc'), pc' \in [Threads -> ThreadPlaces],
         running' = running, \A t \in Threads : Alive(t)' <=> Alive(t),
         \A t \in arb_completed : pc'[t] = pc[t]
  PROVE  /\ QueueOK' /\ CompletedOK' /\ RunningOK'
         /\ \A t \in Threads : HasGrant(t)' => HasGrant(t) \/ pc'[t] = "granted"
<1>1. QueueOK'
  BY SequenceOfType DEF KeptLists, QueueFor, QueueOK, Alive, SequenceOf
<1>2. CompletedOK'
  BY DEF HandshakeInv, KeptLists, CompletedOK
<1>3. RunningOK'
  BY DEF HandshakeInv, KeptLists, RunningOK, Alive
<1>4. \A t \in Threads : HasGrant(t)' => HasGrant(t) \/ pc'[t] = "granted"
  BY DEF HandshakeInv, KeptLists, HasGrant
<1> QED
  BY <1>1, <1>2, <1>3, <1>4

\* A step of one thread that leaves the handshake and the driver alone.
LEMMA QuietStep ==
  ASSUME HandshakeInv, KeptLists(pc'), pc' \in [Threads -> ThreadPlaces],
         arb_changed' \in BOOLEAN, running' = running,
         UNCHANGED <<handshake, relevant, driver_vars, fatal>>,
         \A t \in Threads : \/ pc'[t] = pc[t]
                            \/ /\ pc[t] = "body"
                               /\ pc'[t] \in {"wait_for_grant", "wait_for_lock"}
  PROVE  HandshakeInv'
<1>1. /\ \A t \in Threads : Alive(t)' <=> Alive(t)
      /\ \A t \in arb_completed : pc'[t] = pc[t]
      /\ \A t \in Threads : pc'[t] \in {"granted", "wait_for_item_done"}
                             => pc[t] = pc'[t]
  <2>1. arb_completed \subseteq Threads
        /\ \A t \in arb_completed : pc[t] # "body"
    BY DEF HandshakeInv, TypeOK, CompletedOK
  <2> QED
    BY <2>1 DEF Alive
<1>2. /\ QueueOK' /\ CompletedOK' /\ RunningOK'
      /\ \A t \in Threads : HasGrant(t)' => HasGrant(t)
  <2>1. /\ QueueOK' /\ CompletedOK' /\ RunningOK'
        /\ \A t \in Threads : HasGrant(t)' => HasGrant(t) \/ pc'[t] = "granted"
    BY <1>1, KeptQueue
  <2>2. \A t \in Threads : pc'[t] = "granted" => HasGrant(t)
    BY <1>1 DEF HasGrant
  <2> QED
    BY <2>1, <2>2
<1>3. TypeOK'
  BY DEF HandshakeInv, TypeOK, KeptLists, ThreadPlaces, handshake, driver_vars
<1>4. OneItemInFlight' /\ HoldingOK' /\ DriverOK'
  BY <1>2 DEF HandshakeInv, OneItemInFlight, HoldingOK, DriverOK, handshake,
              driver_vars
<1>5. DoneOK'
  BY <1>1, <1>2 DEF HandshakeInv, DoneOK, handshake
<1> QED
  BY <1>2, <1>3, <1>4, <1>5 DEF HandshakeInv

\* unlock grants what the lock blocked.
LEMMA UnlockStep ==
  ASSUME HandshakeInv, NEW t \in Threads, unlock(t)
  PROVE  HandshakeInv'
<1> DEFINE left == [lock_list EXCEPT ![Owner[t]] = @ - 1]
           L == ListsOf(arb_sequence_q, before, left, reg_sequences, {}, FALSE)
           M == m_update_lists(grant_queued_locks(L))
<1>1. /\ Commit(M, {})
      /\ UNCHANGED <<handshake, running, relevant, pc, driver_vars, fatal>>
      /\ lock_list[Owner[t]] > 0
  BY DEF unlock
<1>2. /\ left \in [Sequences -> Nat]
      /\ \A s \in Sequences : left[s] > 0 => s \in running
  <2>1. /\ Owner[t] \in Sequences /\ lock_list \in [Sequences -> Nat]
        /\ \A s \in Sequences : lock_list[s] > 0 => s \in running
    BY SequencerAssumption DEF HandshakeInv, TypeOK, RunningOK
  <2>2. lock_list[Owner[t]] - 1 \in Nat
    BY <1>1, <2>1
  <2>3. left = [s \in Sequences |-> IF s = Owner[t] THEN lock_list[s] - 1
                                    ELSE lock_list[s]]
    BY <2>1
  <2> QED
    BY <1>1, <2>1, <2>2, <2>3
<1>3. /\ L.q = Lists.q /\ L.locks = left /\ L.reg = reg_sequences
      /\ L.granted = {} /\ ListsOK(L)
  <2> HIDE DEF left
  <2> QED
    BY <1>2, ListsFacts DEF ListsOf, ListsOK, Lists
<1> HIDE DEF L, left
<1>4. Shrunk(L, M)
  BY <1>3, QueuedLocksShrinks, UpdateShrinks
<1> HIDE DEF M
<1>5. \A u \in Threads : Alive(u) <=> pc[u] # "dead"
  BY DEF Alive
<1>6. KeptLists(pc) /\ arb_changed' \in BOOLEAN
  BY <1>1, <1>2, <1>3, <1>4, <1>5, ListsFacts, CommitStep
<1> QED
  BY <1>1, <1>6, ListsFacts, QuietStep

\* wait_for_grant queues a request of a thread that had none awaited.
LEMMA WaitForGrantStep ==
  ASSUME HandshakeInv, NEW t \in Threads, NEW lock_request \in BOOLEAN,
         wait_for_grant(t, lock_request)
  PROVE  HandshakeInv'
<1> DEFINE p == [pc EXCEPT ![t] = "wait_for_grant"]
           K == IF lock_request THEN push_back(Lists, LockAhead(t)) ELSE Lists
           L == m_update_lists(push_back(K, ItemRequest(t)))
<1>1. /\ Commit(L, {}) /\ pc' = p
      /\ UNCHANGED <<handshake, running, relevant, driver_vars, fatal>>
      /\ pc[t] = "body" /\ Owner[t] \in running
  BY DEF wait_for_grant, InTestbench, At, Goto
<1>2. p \in [Threads -> ThreadPlaces]
      /\ \A u \in Threads : Alive(u) <=> p[u] # "dead"
  BY <1>1, ListsFacts DEF ThreadPlaces, Alive
<1>3. /\ L.granted = {} /\ L.locks = lock_list /\ L.reg = reg_sequences
      /\ L.q = (IF lock_request THEN Lists.q \union {LockAhead(t)} ELSE Lists.q)
               \union {ItemRequest(t)}
      /\ L.updated = TRUE
  BY ListsFacts DEF push_back, m_update_lists, ListsOf
<1> HIDE DEF L, K
<1>4. ListsOK(L)
  <2>1. /\ IsFiniteSet(Lists.q) /\ IsFiniteSet(Lists.q \union {LockAhead(t)})
        /\ Lists.q \subseteq Request
    BY ListsFacts, FS_AddElement DEF ListsOK
  <2>2. /\ IsFiniteSet(L.q) /\ L.q \subseteq Request
    BY <1>3, <2>1, FS_AddElement, RequestType
  <2> QED
    BY <1>3, <2>2, ListsFacts DEF ListsOK
<1>5. QueueFor(L.q, p, arb_completed)
  <2>1. t \notin arb_completed
    BY <1>1 DEF HandshakeInv, CompletedOK
  <2>2. ASSUME NEW r \in Lists.q, r.awaited, pc[r.thread] # "dead"
        PROVE  r.thread # t
    BY <1>1, <2>2, ListsFacts DEF QueueFor
  <2>3. /\ ItemRequest(t).thread = t /\ LockAhead(t).thread = t
        /\ ItemRequest(t).request = "SEQ_TYPE_REQ" /\ ItemRequest(t).awaited
        /\ LockAhead(t).request = "SEQ_TYPE_LOCK" /\ ~LockAhead(t).awaited
    BY DEF ItemRequest, LockAhead
  <2>4. \A r \in Lists.q : r.thread \in Threads
    BY ListsFacts, SequenceOfType DEF ListsOK
  <2> QED
    BY <1>1, <1>3, <2>1, <2>2, <2>3, <2>4, ListsFacts DEF QueueFor, SequenceOf
<1>6. KeptLists(p) /\ arb_changed' \in BOOLEAN
  <2>1. \A s \in Sequences : L.locks[s] > 0 => s \in running
    BY <1>3 DEF HandshakeInv, RunningOK
  <2> HIDE DEF p
  <2> QED
    BY <1>1, <1>2, <1>3, <1>4, <1>5, <2>1, ShrunkItself, CommitStep
<1> QED
  BY <1>1, <1>2, <1>6, QuietStep DEF ThreadPlaces

\* lock and grab queue a request, and go on if it is granted at once.
LEMMA LockStep ==
  ASSUME HandshakeInv, NEW t \in Threads, NEW L, m_lock_req(t, L),
         \/ L = push_back(Lists, LockRequest(t))
         \/ L = m_update_lists(push_front(Lists, LockRequest(t)))
  PROVE  HandshakeInv'
<1> DEFINE mine == LockRequest(t)
           p == [pc EXCEPT ![t] = "wait_for_lock"]
           G == grant_queued_locks(L)
           A == Awaiting(G.granted \ {mine})
<1>1. /\ CommitLists(G)
      /\ arb_completed' = arb_completed \union A
      /\ arb_changed' = (arb_changed \/ G.updated)
      /\ IF {mine} \subseteq G.granted THEN UNCHANGED pc ELSE pc' = p
      /\ UNCHANGED <<handshake, running, relevant, driver_vars, fatal>>
      /\ pc[t] = "body" /\ Owner[t] \in running
  BY DEF m_lock_req, InTestbench, At, Goto
<1>2. p \in [Threads -> ThreadPlaces]
      /\ \A u \in Threads : Alive(u) <=> p[u] # "dead"
  BY <1>1, ListsFacts DEF ThreadPlaces, Alive
<1>3. /\ L.granted = {} /\ L.locks = lock_list /\ L.reg = reg_sequences
      /\ L.q = Lists.q \union {mine}
      /\ L.updated \in BOOLEAN
  <2>1. Lists.updated \in BOOLEAN /\ Lists.granted = {}
        /\ Lists.locks = lock_list /\ Lists.reg = reg_sequences
    BY ListsFacts DEF ListsOK
  <2>2. CASE L = push_back(Lists, mine)
    BY <2>1, <2>2 DEF push_back, ListsOf
  <2>3. CASE L = m_update_lists(push_front(Lists, mine))
    BY <2>1, <2>3 DEF push_front, m_update_lists, ListsOf
  <2> QED
    BY <2>2, <2>3
<1>4. /\ mine \in Request /\ mine.thread = t /\ mine.awaited
      /\ mine.request = "SEQ_TYPE_LOCK" /\ mine.awaited = TRUE
  BY RequestType DEF LockRequest
<1>5. ListsOK(L)
  <2>1. IsFiniteSet(Lists.q \union {mine}) /\ Lists.q \subseteq Request
    BY ListsFacts, FS_AddElement DEF ListsOK
  <2> QED
    BY <1>3, <1>4, <2>1, ListsFacts DEF ListsOK
<1>6. \A r \in L.q : r.awaited /\ r.thread = t => r = mine
  <2>1. ASSUME NEW r \in Lists.q, r.awaited, r.thread = t
        PROVE  FALSE
    BY <1>1, <2>1, ListsFacts DEF QueueFor
  <2> QED
    BY <1>3, <2>1
<1>7. QueueFor(L.q, p, arb_completed)
  <2>1. t \notin arb_completed
    BY <1>1 DEF HandshakeInv, CompletedOK
  <2>2. ASSUME NEW r \in Lists.q, r.awaited, pc[r.thread] # "dead"
        PROVE  r.thread # t
    BY <1>1, <2>2, ListsFacts DEF QueueFor
  <2>3. \A r \in Lists.q : r.thread \in Threads
    BY ListsFacts, SequenceOfType DEF ListsOK
  <2> QED
    BY <1>1, <1>3, <1>4, <2>1, <2>2, <2>3, ListsFacts DEF QueueFor, SequenceOf
<1>8. Shrunk(L, G)
  BY <1>5, QueuedLocksShrinks
<1>9. A \subseteq Awaiting(G.granted)
  BY DEF Awaiting
<1> HIDE DEF G, mine
<1>10. \A s \in Sequences : L.locks[s] > 0 => s \in running
  BY <1>3 DEF HandshakeInv, RunningOK
<1>11. KeptLists(p)
  <2> HIDE DEF p, A
  <2> QED
    BY <1>1, <1>2, <1>3, <1>5, <1>7, <1>8, <1>9, <1>10, CommitKeeps
<1>12. arb_changed' \in BOOLEAN
  BY <1>1
<1>13. CASE mine \notin G.granted
  BY <1>1, <1>2, <1>11, <1>12, <1>13, QuietStep DEF ThreadPlaces
<1>14. CASE mine \in G.granted
  <2>1. pc' = pc
    BY <1>1, <1>14
  <2>2. mine \notin G.q /\ G.q \subseteq L.q /\ G.granted \subseteq L.q
    BY <1>3, <1>8, <1>14 DEF Shrunk
  <2>3. t \notin A
    BY <1>6, <2>2 DEF Awaiting
  <2>4. t \notin arb_completed
    BY <1>1 DEF HandshakeInv, CompletedOK
  <2>5. \A u \in arb_completed' \ arb_completed : pc[u] = "wait_for_lock"
    BY <1>1, <1>11, <2>3, ListsFacts DEF KeptLists
  <2>6. QueueFor(arb_sequence_q', pc, arb_completed')
    <3>1. arb_sequence_q' = G.q
      BY <1>1 DEF CommitLists
    <3>2. QueueFor(G.q, p, arb_completed')
      BY <1>11, <3>1 DEF KeptLists
    <3>3. \A r \in G.q : r.awaited => r.thread # t
      BY <1>6, <2>2
    <3>4. \A u \in Threads : u # t => p[u] = pc[u]
      BY ListsFacts
    <3>5. \A r \in G.q : r.thread \in Threads
      BY <1>5, <2>2, SequenceOfType DEF ListsOK
    <3> HIDE DEF p
    <3> QED
      BY <3>1, <3>2, <3>3, <3>4, <3>5 DEF QueueFor
  <2>7. KeptLists(pc)
    BY <1>11, <2>5, <2>6 DEF KeptLists
  <2> QED
    BY <1>1, <1>12, <2>1, <2>7, ListsFacts, QuietStep
<1> QED
  BY <1>13, <1>14

\* send_request finds the fifo empty, and puts the item there.
LEMMA SendRequestStep ==
  ASSUME HandshakeInv, NEW t \in Threads, NEW then_wait \in BOOLEAN,
         send_request(t, then_wait)
  PROVE  HandshakeInv' /\ UNCHANGED fatal
<1>1. pc[t] = "granted" /\ HasGrant(t)
  BY DEF send_request, At, HasGrant
<1>2. /\ m_req_fifo = NoItem /\ sequence_item_requested
      /\ \A u \in Threads : HasGrant(u) => u = t
      /\ \A u \in Threads : pc[u] # "wait_for_item_done"
  BY <1>1 DEF HandshakeInv, OneItemInFlight, DoneOK
<1> DEFINE place == IF then_wait THEN "wait_for_item_done" ELSE "body"
<1>3. /\ m_req_fifo' = t
      /\ Commit(grant_queued_locks(Lists), {})
      /\ pc' = [pc EXCEPT ![t] = place]
      /\ m_wait_for_item_sequence_id' =
           IF then_wait THEN NoSequence ELSE m_wait_for_item_sequence_id
      /\ UNCHANGED <<sequence_item_requested, get_next_item_called, fatal,
                     running, relevant, driver, holding, waits_relevant>>
  BY <1>2 DEF send_request, Goto, driver_vars
<1>4. KeptLists(pc) /\ arb_changed' \in BOOLEAN
  BY <1>3, ListsFacts, QueuedLocksShrinks, GrantStep
<1>5. /\ pc' \in [Threads -> ThreadPlaces] /\ pc'[t] = place
      /\ \A u \in Threads : u # t => pc'[u] = pc[u]
      /\ \A u \in Threads : Alive(u)' <=> Alive(u)
  BY <1>1, <1>3, ListsFacts DEF ThreadPlaces, Alive
<1>6. t \notin arb_completed'
  BY <1>1, <1>4 DEF HandshakeInv, CompletedOK, KeptLists
<1>7. KeptLists(pc')
  <2>1. ASSUME NEW r \in arb_sequence_q', r.awaited, r.thread = t
        PROVE  FALSE
    BY <1>1, <1>4, <2>1 DEF KeptLists, QueueFor
  <2>2. \A r \in arb_sequence_q' : r.thread \in Threads
    BY <1>4, SequenceOfType DEF KeptLists
  <2>3. QueueFor(arb_sequence_q', pc', arb_completed')
    BY <1>4, <1>5, <2>1, <2>2 DEF KeptLists, QueueFor
  <2> QED
    BY <1>4, <1>5, <1>6, <2>3 DEF KeptLists
<1>8. /\ QueueOK' /\ CompletedOK' /\ RunningOK'
      /\ \A u \in Threads : ~HasGrant(u)'
  <2>1. \A u \in arb_completed : pc'[u] = pc[u] /\ u # t
    BY <1>5, <1>6, <1>7 DEF KeptLists, HandshakeInv, TypeOK
  <2>2. /\ QueueOK' /\ CompletedOK' /\ RunningOK'
        /\ \A u \in Threads : HasGrant(u)' => HasGrant(u) \/ pc'[u] = "granted"
    BY <1>3, <1>5, <1>7, <2>1, KeptQueue
  <2>3. ASSUME NEW u \in Threads, HasGrant(u)'
        PROVE  FALSE
    <3>1. u # t
      BY <1>5, <2>3 DEF HasGrant
    <3>2. HasGrant(u)
      BY <1>5, <2>2, <2>3, <3>1 DEF HasGrant
    <3> QED
      BY <1>2, <3>1, <3>2
  <2> QED
    BY <2>2, <2>3
<1>9. TypeOK'
  BY <1>3, <1>4, <1>5 DEF HandshakeInv, TypeOK, KeptLists
<1>10. OneItemInFlight' /\ HoldingOK' /\ DriverOK' /\ DoneOK'
  BY <1>2, <1>3, <1>5, <1>8, SequencerAssumption
  DEF HandshakeInv, OneItemInFlight, HoldingOK, DriverOK, DoneOK
<1> QED
  BY <1>3, <1>8, <1>9, <1>10 DEF HandshakeInv

\* item_done takes the item away and wakes its sender, in item_done itself or
\* at the end of get.
LEMMA ItemDoneStep ==
  ASSUME HandshakeInv, item_done_effect, holding' = FALSE, driver'.at = "user",
         driver' \in [at : {"user"}, call : DriverCalls \union {"none"}],
         UNCHANGED <<running, relevant, pc, waits_relevant>>,
         \A t \in Threads : ~HasGrant(t)
  PROVE  /\ HandshakeInv'
         /\ fatal' # fatal => /\ m_req_fifo = NoItem
                              /\ fatal' = "item_done without request"
<1>1. /\ sequence_item_requested' = FALSE /\ get_next_item_called' = FALSE
      /\ m_req_fifo' = NoItem
  BY DEF item_done_effect
<1>2. CASE m_req_fifo = NoItem
  <2>1. UNCHANGED <<m_wait_for_item_sequence_id, lists, arb_completed, arb_changed>>
        /\ fatal' = "item_done without request"
    BY <1>2 DEF item_done_effect
  <2>2. \A t \in Threads : ~HasGrant(t)'
    BY <2>1 DEF HasGrant
  <2>3. TypeOK' /\ QueueOK' /\ CompletedOK' /\ RunningOK'
    BY <1>1, <2>1 DEF HandshakeInv, TypeOK, QueueOK, CompletedOK, RunningOK,
                      Alive, lists
  <2>4. OneItemInFlight' /\ DriverOK' /\ DoneOK' /\ HoldingOK'
    BY <1>1, <1>2, <2>1, <2>2
    DEF HandshakeInv, OneItemInFlight, DriverOK, DoneOK, HoldingOK
  <2> QED
    BY <1>2, <2>1, <2>3, <2>4 DEF HandshakeInv
<1>3. CASE m_req_fifo # NoItem
  <2>1. /\ m_wait_for_item_sequence_id' = Owner[m_req_fifo]
        /\ Commit(grant_queued_locks(Lists), {})
        /\ UNCHANGED fatal
    BY <1>3 DEF item_done_effect
  <2>2. KeptLists(pc) /\ arb_changed' \in BOOLEAN
    BY <2>1, ListsFacts, QueuedLocksShrinks, GrantStep
  <2>3. /\ QueueOK' /\ CompletedOK' /\ RunningOK'
        /\ \A t \in Threads : ~HasGrant(t)'
    <3>1. /\ KeptLists(pc') /\ pc' \in [Threads -> ThreadPlaces]
          /\ \A t \in Threads : Alive(t)' <=> Alive(t)
      BY <2>2, ListsFacts DEF Alive
    <3>2. /\ QueueOK' /\ CompletedOK' /\ RunningOK'
          /\ \A u \in Threads : HasGrant(u)' => HasGrant(u) \/ pc'[u] = "granted"
      BY <3>1, KeptQueue
    <3> QED
      BY <3>2 DEF HasGrant
  <2>4. TypeOK'
    BY <1>1, <1>3, <2>1, <2>2, SequencerAssumption
    DEF HandshakeInv, TypeOK, KeptLists
  <2>5. OneItemInFlight' /\ DriverOK' /\ DoneOK' /\ HoldingOK'
    BY <1>1, <1>3, <2>1, <2>3
    DEF HandshakeInv, OneItemInFlight, DriverOK, DoneOK, HoldingOK
  <2> QED
    BY <2>1, <2>3, <2>4, <2>5 DEF HandshakeInv
<1> QED
  BY <1>2, <1>3

\* The driver's own item_done.
LEMMA DriverItemDoneStep ==
  ASSUME HandshakeInv, item_done
  PROVE  /\ HandshakeInv'
         /\ fatal' # fatal => /\ "stop_sequences" \in Interference
                              /\ fatal' = "item_done without request"
<1>1. /\ driver.at = "user" /\ holding /\ item_done_effect /\ holding' = FALSE
      /\ UNCHANGED <<running, relevant, pc, driver, waits_relevant>>
  BY DEF item_done, DriverAt
<1>2. driver' \in [at : {"user"}, call : DriverCalls \union {"none"}]
  BY <1>1 DEF HandshakeInv, TypeOK
<1>3. \A t \in Threads : ~HasGrant(t)
  BY <1>1 DEF HandshakeInv, DriverOK
<1>4. /\ HandshakeInv'
      /\ fatal' # fatal => /\ m_req_fifo = NoItem
                           /\ fatal' = "item_done without request"
  BY <1>1, <1>2, <1>3, ItemDoneStep
<1> QED
  BY <1>1, <1>4 DEF HandshakeInv, HoldingOK

\* m_req_fifo.peek returns: nobody is granted any more.
LEMMA PeekReturnsStep ==
  ASSUME HandshakeInv, peek_returns
  PROVE  HandshakeInv' /\ UNCHANGED fatal
<1>1. /\ driver.at = "peek" /\ m_req_fifo # NoItem
      /\ driver' = [at |-> "user", call |-> "none"]
      /\ UNCHANGED <<running, relevant, pc, waits_relevant>>
  BY DEF peek_returns, DriverAt, DriverReturns
<1>2. \A t \in Threads : ~HasGrant(t)
  BY <1>1 DEF HandshakeInv, OneItemInFlight
<1>3. CASE driver.call = "get"
  <2>1. item_done_effect /\ holding' = FALSE
    BY <1>3 DEF peek_returns
  <2>2. driver' \in [at : {"user"}, call : DriverCalls \union {"none"}]
        /\ driver'.at = "user"
    BY <1>1
  <2> QED
    BY <1>1, <1>2, <2>1, <2>2, ItemDoneStep
<1>4. CASE driver.call # "get"
  <2>1. /\ UNCHANGED <<lists, arb_completed, arb_changed, handshake, fatal>>
        /\ holding' = TRUE
    BY <1>4 DEF peek_returns
  <2>2. \A t \in Threads : ~HasGrant(t)'
    BY <1>1, <1>2, <2>1 DEF HasGrant
  <2>3. TypeOK' /\ QueueOK' /\ CompletedOK' /\ RunningOK'
    BY <1>1, <2>1 DEF HandshakeInv, TypeOK, QueueOK, CompletedOK, RunningOK,
                      Alive, lists, handshake
  <2>4. DriverOK'
    <3>1. driver # [at |-> "peek", call |-> "get"]
      BY <1>4
    <3> QED
      BY <1>1, <2>1, <2>2, <3>1 DEF HandshakeInv, DriverOK, handshake
  <2>5. OneItemInFlight' /\ DoneOK' /\ HoldingOK'
    BY <1>1, <2>1, <2>2
    DEF HandshakeInv, OneItemInFlight, DoneOK, HoldingOK, handshake
  <2> QED
    BY <2>1, <2>3, <2>4, <2>5 DEF HandshakeInv
<1> QED
  BY <1>3, <1>4

-----------------------------------------------------------------------------
(* Arbitration. *)

\* A granted choice wakes one thread at most, when no other has a grant.
LEMMA GrantedStep ==
  ASSUME HandshakeInv, NbaRegion, driver.at \in {"select", "try_select"},
         NEW choice \in m_choose_next_request(Lists), NEW r \in choice.picks,
         NEW next, next = (IF driver.at = "select" THEN "peek" ELSE "try_peek"),
         granted(choice, r, next),
         UNCHANGED <<m_req_fifo, m_wait_for_item_sequence_id, running, relevant,
                     pc, holding>>
  PROVE  HandshakeInv'
<1> DEFINE C == choice.lists
           A == Awaiting(C.granted)
           B == Awaiting({r})
           M == m_update_lists(delete(C, r))
<1>1. /\ ~sequence_item_requested /\ m_req_fifo = NoItem
      /\ \A t \in Threads : ~HasGrant(t) /\ pc[t] # "wait_for_item_done"
  BY DEF HandshakeInv, DriverOK, OneItemInFlight, DoneOK, NbaRegion, Runnable,
         Told, DonePlaces
<1>2. Shrunk(Lists, C) /\ r \in C.q
  BY ListsFacts, ChooseShrinks
<1>3. /\ ListsOK(C)
      /\ \A s \in Sequences : C.locks[s] > 0 => s \in running
      /\ C.reg \subseteq reg_sequences
      /\ "kill_thread" \notin Interference => C.reg = reg_sequences
  <2>1. \A s \in Sequences : Lists.locks[s] > 0 => s \in running
    BY ListsFacts DEF HandshakeInv, RunningOK
  <2> HIDE DEF C
  <2> QED
    BY <1>2, <2>1, ListsFacts, ShrunkKeeps DEF QueueFor
<1>4. /\ A \subseteq Threads
      /\ \A t \in A : pc[t] = "wait_for_lock"
      /\ QueueFor(C.q, pc, arb_completed \union A)
  <2> HIDE DEF C
  <2> QED
    BY <1>2, ListsFacts, GrantKeeps DEF Alive
<1>5. /\ Commit(M, {r})
      /\ sequence_item_requested' = TRUE
      /\ get_next_item_called' = (get_next_item_called
           \/ driver.call \in {"get_next_item", "try_next_item"})
      /\ driver' = [driver EXCEPT !.at = next]
      /\ UNCHANGED <<waits_relevant, fatal>>
  BY DEF granted, DriverGoes
<1> HIDE DEF C
<1>6. /\ M.q = C.q \ {r} /\ M.locks = C.locks /\ M.reg = C.reg
      /\ M.granted = C.granted
  BY DEF m_update_lists, delete, ListsOf
<1>7. /\ arb_sequence_q' = C.q \ {r} /\ lock_list' = C.locks
      /\ reg_sequences' = C.reg
      /\ before' \in SUBSET ((C.q \ {r}) \X (C.q \ {r}))
      /\ arb_completed' = arb_completed \union A \union B
      /\ arb_changed' \in BOOLEAN
  <2>1. Awaiting(C.granted \union {r}) = A \union B
    BY DEF Awaiting
  <2> HIDE DEF M, A, B
  <2> QED
    BY <1>5, <1>6, <2>1 DEF Commit, CommitLists
<1>8. /\ r \in Request /\ r.thread \in Threads
      /\ B \subseteq {r.thread}
      /\ B # {} => /\ r.awaited /\ Alive(r.thread)
                   /\ pc[r.thread] \in {"wait_for_grant", "wait_for_lock"}
  <2>1. r \in Request /\ r.thread \in Threads
    BY <1>2, <1>3, SequenceOfType DEF ListsOK
  <2>2. B \subseteq {r.thread} /\ (B # {} => r.awaited /\ Alive(r.thread))
    BY DEF Awaiting
  <2> QED
    BY <1>2, <1>4, <2>1, <2>2 DEF QueueFor, Alive
<1>9. QueueFor(arb_sequence_q', pc, arb_completed')
  <2> SUFFICES ASSUME NEW g \in C.q \ {r}, g.awaited, pc[g.thread] # "dead",
                      g.thread \in B
               PROVE  FALSE
    BY <1>4, <1>7 DEF QueueFor
  <2>1. g \in Request /\ g.thread = r.thread
    BY <1>3, <1>8 DEF ListsOK
  <2>2. g.awaited = TRUE /\ r.awaited = TRUE
    BY <1>8, <2>1, SequenceOfType
  <2>3. g.request = r.request
    BY <1>2, <1>4, <1>8, <2>1, SequenceOfType DEF QueueFor, Alive
  <2> QED
    BY <1>8, <2>1, <2>2, <2>3, RequestEq
<1> HIDE DEF A, B
<1>10. QueueOK'
  <2>1. IsFiniteSet(C.q \ {r})
    BY <1>3, FS_Subset DEF ListsOK
  <2> QED
    BY <1>7, <1>9, <2>1 DEF QueueOK, QueueFor, Alive, SequenceOf
<1>11. CompletedOK'
  BY <1>4, <1>7, <1>8 DEF HandshakeInv, CompletedOK
<1>12. RunningOK'
  BY <1>3, <1>7 DEF HandshakeInv, RunningOK
<1>13. \A t \in Threads : HasGrant(t)' => t = r.thread
  BY <1>1, <1>4, <1>7, <1>8 DEF HasGrant
<1>14. TypeOK'
  BY <1>3, <1>4, <1>5, <1>7, <1>8 DEF HandshakeInv, TypeOK, ListsOK
<1>15. DriverOK'
  <2>1. /\ driver.call \in DriverCalls /\ driver' = [at |-> next, call |-> driver.call]
        /\ driver.at = "try_select" => driver.call = "try_next_item"
    BY <1>5 DEF HandshakeInv, TypeOK, DriverOK
  <2>2. /\ driver'.at = next /\ next \in {"peek", "try_peek"}
        /\ driver'.call # "none"
    BY <2>1, SequencerAssumption
  <2>3. CASE driver.call \in {"get_next_item", "try_next_item"}
    BY <1>5, <2>2, <2>3 DEF DriverOK
  <2>4. CASE driver.call = "peek"
    BY <2>1, <2>2, <2>4 DEF DriverOK
  <2>5. CASE driver.call = "get"
    BY <2>1, <2>2, <2>5 DEF DriverOK
  <2> QED
    BY <2>1, <2>3, <2>4, <2>5, SequencerAssumption
<1>16. OneItemInFlight' /\ DoneOK' /\ HoldingOK'
  BY <1>1, <1>5, <1>13 DEF HandshakeInv, OneItemInFlight, DoneOK, HoldingOK
<1> QED
  BY <1>10, <1>11, <1>12, <1>14, <1>15, <1>16 DEF HandshakeInv

\* A driver that found nothing: it goes to wait, or returns.
LEMMA NoneStep ==
  ASSUME HandshakeInv, driver.at \in {"select", "try_select"}, KeptLists(pc),
         arb_changed' \in BOOLEAN, waits_relevant' \subseteq Sequences,
         \/ driver' = [driver EXCEPT !.at = "wait_for_available"]
              /\ driver.at = "select"
         \/ driver' = [at |-> "user", call |-> "none"],
         UNCHANGED <<sequence_item_requested, get_next_item_called, m_req_fifo,
                     m_wait_for_item_sequence_id, running, relevant, pc, holding,
                     fatal>>
  PROVE  HandshakeInv'
<1>1. /\ QueueOK' /\ CompletedOK' /\ RunningOK'
      /\ \A t \in Threads : HasGrant(t)' => HasGrant(t)
  <2>1. /\ KeptLists(pc') /\ pc' \in [Threads -> ThreadPlaces]
        /\ \A t \in Threads : Alive(t)' <=> Alive(t)
    BY ListsFacts DEF Alive
  <2>2. /\ QueueOK' /\ CompletedOK' /\ RunningOK'
        /\ \A u \in Threads : HasGrant(u)' => HasGrant(u) \/ pc'[u] = "granted"
    BY <2>1, KeptQueue
  <2> QED
    BY <2>2 DEF HasGrant
<1>2. ~sequence_item_requested /\ \A t \in Threads : ~HasGrant(t)
  BY DEF HandshakeInv, DriverOK
<1> DEFINE Places == {"user", "select", "wait_for_available", "peek",
                     "try_select", "try_peek"}
<1>3. /\ driver' \in [at : Places, call : DriverCalls \union {"none"}]
      /\ driver'.at \in {"wait_for_available", "user"}
      /\ driver'.at # "user" => driver'.call # "none"
  <2>1. driver \in [at : Places, call : DriverCalls \union {"none"}]
        /\ driver.call # "none"
    BY DEF HandshakeInv, TypeOK, DriverOK
  <2>2. CASE driver' = [driver EXCEPT !.at = "wait_for_available"]
    <3>1. driver' = [at |-> "wait_for_available", call |-> driver.call]
      BY <2>1, <2>2
    <3> QED
      BY <2>1, <3>1
  <2>3. CASE driver' = [at |-> "user", call |-> "none"]
    BY <2>3
  <2> QED
    BY <2>2, <2>3
<1>4. TypeOK'
  BY <1>3 DEF HandshakeInv, TypeOK, KeptLists
<1>5. DriverOK'
  BY <1>1, <1>2, <1>3 DEF DriverOK
<1>6. OneItemInFlight' /\ DoneOK' /\ HoldingOK'
  BY <1>1, <1>2 DEF HandshakeInv, OneItemInFlight, DoneOK, HoldingOK
<1> QED
  BY <1>1, <1>4, <1>5, <1>6 DEF HandshakeInv

\* A driver that read past the end of the queue.
LEMMA OverranStep ==
  ASSUME HandshakeInv, NEW choice, overran(choice),
         UNCHANGED <<m_req_fifo, m_wait_for_item_sequence_id, running, relevant,
                     pc, holding>>
  PROVE  HandshakeInv' /\ fatal' = "null request"
<1> USE DEF HandshakeInv, overran, lists
<1>1. TypeOK'
  BY DEF TypeOK
<1>2. QueueOK' /\ CompletedOK' /\ RunningOK'
  BY DEF QueueOK, CompletedOK, RunningOK, Alive
<1>3. DriverOK' /\ OneItemInFlight' /\ DoneOK' /\ HoldingOK'
  BY DEF DriverOK, OneItemInFlight, DoneOK, HoldingOK, HasGrant
<1> QED
  BY <1>1, <1>2, <1>3

\* get_next_item, get and peek arbitrate.
LEMMA SelectStep ==
  ASSUME HandshakeInv, m_select_sequence
  PROVE  HandshakeInv' /\ (UNCHANGED fatal \/ fatal' = "null request")
<1>1. /\ driver.at = "select" /\ NbaRegion
      /\ UNCHANGED <<m_req_fifo, m_wait_for_item_sequence_id, running, relevant,
                     pc, holding>>
  BY DEF m_select_sequence, DriverAt
<1>2. PICK choice \in m_choose_next_request(Lists) :
        \/ \E r \in choice.picks : granted(choice, r, "peek")
        \/ none_available(choice) /\ m_wait_for_available_sequence(choice.lists)
        \/ overran(choice)
  BY DEF m_select_sequence
<1>3. CASE \E r \in choice.picks : granted(choice, r, "peek")
  <2>1. UNCHANGED fatal
    BY <1>3 DEF granted
  <2> QED
    BY <1>1, <1>3, <2>1, GrantedStep
<1>4. CASE m_wait_for_available_sequence(choice.lists)
  <2> DEFINE C == choice.lists
  <2>1. Shrunk(Lists, C)
    BY ListsFacts, ChooseShrinks
  <2> HIDE DEF C
  <2>2. /\ CommitLists(C) /\ arb_completed' = arb_completed \union Awaiting(C.granted)
        /\ arb_changed' = FALSE
        /\ waits_relevant' \subseteq {SequenceOf(r) : r \in C.q}
        /\ driver' = [driver EXCEPT !.at = "wait_for_available"]
        /\ UNCHANGED <<sequence_item_requested, get_next_item_called, fatal>>
    BY <1>4 DEF m_wait_for_available_sequence, DriverGoes, C
  <2>3. KeptLists(pc)
    <3>1. \A s \in Sequences : Lists.locks[s] > 0 => s \in running
      BY ListsFacts DEF HandshakeInv, RunningOK
    <3>2. \A t \in Threads : Alive(t) <=> pc[t] # "dead"
      BY DEF Alive
    <3>3. Awaiting(C.granted) \in SUBSET Awaiting(C.granted)
      OBVIOUS
    <3> QED
      BY <2>1, <2>2, <3>1, <3>2, <3>3, ListsFacts, CommitKeeps
  <2>4. waits_relevant' \subseteq Sequences
    BY <2>1, <2>2, SequenceOfType DEF Shrunk, ListsOK
  <2> QED
    BY <1>1, <2>2, <2>3, <2>4, NoneStep
<1>5. CASE overran(choice)
  BY <1>1, <1>5, OverranStep
<1> QED
  BY <1>2, <1>3, <1>4, <1>5

\* try_next_item arbitrates.
LEMMA TrySelectStep ==
  ASSUME HandshakeInv, try_select
  PROVE  HandshakeInv' /\ (UNCHANGED fatal \/ fatal' = "null request")
<1>1. /\ driver.at = "try_select" /\ NbaRegion
      /\ UNCHANGED <<m_req_fifo, m_wait_for_item_sequence_id, running, relevant,
                     pc, holding>>
  BY DEF try_select, DriverAt
<1>2. PICK choice \in m_choose_next_request(Lists) :
        \/ \E r \in choice.picks : granted(choice, r, "try_peek")
        \/ /\ none_available(choice)
           /\ Commit(choice.lists, {}) /\ DriverReturns
           /\ UNCHANGED <<sequence_item_requested, get_next_item_called,
                          waits_relevant, fatal>>
        \/ overran(choice)
  BY DEF try_select
<1>3. CASE \E r \in choice.picks : granted(choice, r, "try_peek")
  <2>1. UNCHANGED fatal
    BY <1>3 DEF granted
  <2> QED
    BY <1>1, <1>3, <2>1, GrantedStep
<1>4. CASE /\ Commit(choice.lists, {}) /\ DriverReturns
           /\ UNCHANGED <<sequence_item_requested, get_next_item_called,
                          waits_relevant, fatal>>
  <2>1. Shrunk(Lists, choice.lists)
    BY ListsFacts, ChooseShrinks
  <2>2. KeptLists(pc) /\ arb_changed' \in BOOLEAN
    BY <1>4, <2>1, GrantStep
  <2>3. waits_relevant' \subseteq Sequences
    BY <1>4 DEF HandshakeInv, TypeOK
  <2> QED
    BY <1>1, <1>4, <2>2, <2>3, NoneStep DEF DriverReturns
<1>5. CASE overran(choice)
  BY <1>1, <1>5, OverranStep
<1> QED
  BY <1>2, <1>3, <1>4, <1>5

-----------------------------------------------------------------------------
(* Sequences that end. *)

\* The sequences K end, and those of S, K among them, are removed from the
\* queues.
LEMMA EndStep ==
  ASSUME HandshakeInv, NEW S \in SUBSET Sequences, NEW K \in SUBSET S,
         S \intersect running \subseteq K,
         CommitLists(remove_sequences_from_queues(Lists, S)),
         arb_changed' \in BOOLEAN,
         arb_completed' = {t \in arb_completed : Owner[t] \notin K},
         running' = running \ K,
         pc' = [t \in Threads |-> IF Owner[t] \in K THEN "dead" ELSE pc[t]],
         UNCHANGED <<relevant, driver_vars, fatal, m_wait_for_item_sequence_id>>,
         \/ UNCHANGED handshake
         \/ /\ "stop_sequences" \in Interference
            /\ running \subseteq K \/ "kill_thread" \in Interference
            /\ sequence_item_requested' = FALSE /\ get_next_item_called' = FALSE
            /\ m_req_fifo' = NoItem
  PROVE  (WellBehaved => HandshakeInv') /\ UNCHANGED fatal
<1> SUFFICES ASSUME WellBehaved PROVE HandshakeInv'
  OBVIOUS
<1> DEFINE M == remove_sequences_from_queues(Lists, S)
<1>1. /\ ListsOK(M)
      /\ M.q = {r \in Lists.q : SequenceOf(r) \notin Gone(S)}
      /\ M.locks = [s \in Sequences |->
                      IF s \in Gone(S) THEN 0 ELSE Lists.locks[s]]
      /\ M.reg = Lists.reg \ S
  BY ListsFacts, RemoveFamilies
<1>2. /\ arb_sequence_q' = M.q /\ lock_list' = M.locks /\ reg_sequences' = M.reg
      /\ before' \in SUBSET (M.q \X M.q)
  BY DEF CommitLists
<1> HIDE DEF M
<1>3. /\ arb_sequence_q' \subseteq arb_sequence_q
      /\ \A r \in arb_sequence_q' : SequenceOf(r) \in running \ K
      /\ \A s \in Sequences : lock_list'[s] > 0 => s \in running \ K
      /\ reg_sequences' = reg_sequences \ S
      /\ IsFiniteSet(arb_sequence_q')
  <2>1. S \subseteq Gone(S)
    BY FamilyFacts DEF Gone
  <2>2. /\ \A r \in arb_sequence_q : SequenceOf(r) \in running
        /\ \A s \in Sequences : lock_list[s] > 0 => s \in running
    BY DEF HandshakeInv, QueueOK, RunningOK
  <2> QED
    BY <1>1, <1>2, <2>1, <2>2, ListsFacts DEF ListsOK
<1>4. /\ pc' \in [Threads -> ThreadPlaces]
      /\ \A t \in Threads : /\ Owner[t] \in K => pc'[t] = "dead"
                            /\ Owner[t] \notin K => pc'[t] = pc[t]
  BY ListsFacts DEF ThreadPlaces
<1>5. QueueOK'
  <2>1. \A r \in arb_sequence_q' : r.thread \in Threads /\ Owner[r.thread] \notin K
    BY <1>1, <1>2, <1>3, SequenceOfType DEF ListsOK, SequenceOf
  <2> QED
    BY <1>3, <1>4, <2>1 DEF HandshakeInv, QueueOK, Alive, SequenceOf
<1>6. CompletedOK'
  BY <1>4 DEF HandshakeInv, TypeOK, CompletedOK
<1>7. RunningOK'
  BY <1>3, <1>4 DEF HandshakeInv, RunningOK
<1>8. \A t \in Threads : HasGrant(t)' => HasGrant(t)
  BY <1>4 DEF HasGrant
<1>9. TypeOK'
  BY <1>1, <1>2, <1>4 DEF HandshakeInv, TypeOK, ListsOK, handshake, driver_vars
<1>10. CASE UNCHANGED handshake
  <2>1. OneItemInFlight' /\ HoldingOK' /\ DriverOK'
    BY <1>8, <1>10 DEF HandshakeInv, OneItemInFlight, HoldingOK, DriverOK,
                       handshake, driver_vars
  <2>2. DoneOK'
    BY <1>4, <1>8, <1>10 DEF HandshakeInv, DoneOK, handshake
  <2> QED
    BY <1>5, <1>6, <1>7, <1>9, <2>1, <2>2 DEF HandshakeInv
<1>11. CASE /\ "stop_sequences" \in Interference
            /\ running \subseteq K \/ "kill_thread" \in Interference
            /\ sequence_item_requested' = FALSE /\ get_next_item_called' = FALSE
            /\ m_req_fifo' = NoItem
  <2>1. running \subseteq K
    BY <1>11 DEF WellBehaved
  <2>2. \A t \in Threads : pc'[t] = "dead"
    BY <1>4, <2>1 DEF HandshakeInv, RunningOK
  <2>3. \A t \in Threads : ~HasGrant(t)'
    BY <2>2 DEF HasGrant
  <2>4. OneItemInFlight' /\ HoldingOK' /\ DoneOK'
    BY <1>11, <2>2, <2>3 DEF OneItemInFlight, HoldingOK, DoneOK
  <2>5. DriverOK'
    BY <1>11, <2>3 DEF HandshakeInv, DriverOK, driver_vars
  <2> QED
    BY <1>5, <1>6, <1>7, <1>9, <2>4, <2>5 DEF HandshakeInv
<1> QED
  BY <1>10, <1>11

\* A body returns.
LEMMA ExitStep ==
  ASSUME WellBehaved, HandshakeInv, NEW s \in Sequences, exit(s)
  PROVE  HandshakeInv' /\ UNCHANGED fatal
<1> DEFINE M == remove_sequences_from_queues(Lists, {s})
<1>1. /\ Commit(M, {}) /\ running' = running \ {s}
      /\ pc' = [t \in Threads |-> IF Owner[t] \in {s} THEN "dead" ELSE pc[t]]
      /\ UNCHANGED <<handshake, relevant, driver_vars, fatal>>
      /\ \A t \in ThreadsOf(s) : pc[t] \in {"body", "dead"}
  BY DEF exit
<1>2. M.granted = {}
  <2>1. {s} \in SUBSET Sequences /\ ListsOK(Lists) /\ Lists.granted = {}
    BY ListsFacts
  <2>2. M.granted = Lists.granted
    BY <2>1, RemoveFamilies
  <2> QED
    BY <2>1, <2>2
<1>3. CommitLists(M) /\ arb_changed' \in BOOLEAN /\ arb_completed' = arb_completed
  <2> HIDE DEF M
  <2>1. Awaiting(M.granted \union {}) = {}
    BY <1>2 DEF Awaiting
  <2> QED
    BY <1>1, <2>1 DEF Commit
<1>4. arb_completed' = {t \in arb_completed : Owner[t] \notin {s}}
  BY <1>1, <1>3 DEF HandshakeInv, TypeOK, CompletedOK, ThreadsOf
<1>5. m_wait_for_item_sequence_id' = m_wait_for_item_sequence_id
  BY <1>1 DEF handshake
<1> HIDE DEF M
<1> QED
  BY <1>1, <1>3, <1>4, <1>5, EndStep DEF M

\* KillAll, as EndStep needs it.
LEMMA KillAllFacts ==
  ASSUME HandshakeInv, NEW S \in SUBSET Sequences, KillAll(S)
  PROVE  LET K == running \intersect Gone(S) IN
         /\ (S \union K) \intersect running \subseteq K
         /\ CommitLists(remove_sequences_from_queues(Lists, S \union K))
         /\ arb_changed' \in BOOLEAN
         /\ arb_completed' = {t \in arb_completed : Owner[t] \notin K}
         /\ running' = running \ K
         /\ pc' = [t \in Threads |-> IF Owner[t] \in K THEN "dead" ELSE pc[t]]
<1>1. S \subseteq Gone(S)
  BY FamilyFacts DEF Gone
<1> QED
  BY <1>1 DEF KillAll, Gone

\* kill ends a sequence and its children.
LEMMA KillSequenceStep ==
  ASSUME WellBehaved, HandshakeInv, NEW s \in Sequences, kill_sequence(s)
  PROVE  HandshakeInv' /\ UNCHANGED fatal
<1> DEFINE K == running \intersect Gone({s})
<1>1. KillAll({s}) /\ UNCHANGED <<handshake, relevant, driver_vars, fatal>>
      /\ m_wait_for_item_sequence_id' = m_wait_for_item_sequence_id
  BY DEF kill_sequence, handshake
<1>2. {s} \in SUBSET Sequences /\ {s} \union K \in SUBSET Sequences
  BY DEF HandshakeInv, TypeOK
<1>3. /\ ({s} \union K) \intersect running \subseteq K
      /\ CommitLists(remove_sequences_from_queues(Lists, {s} \union K))
      /\ arb_changed' \in BOOLEAN
      /\ arb_completed' = {t \in arb_completed : Owner[t] \notin K}
      /\ running' = running \ K
      /\ pc' = [t \in Threads |-> IF Owner[t] \in K THEN "dead" ELSE pc[t]]
  BY <1>1, <1>2, KillAllFacts
<1>4. K \in SUBSET ({s} \union K)
  OBVIOUS
<1> HIDE DEF K
<1> QED
  BY <1>1, <1>2, <1>3, <1>4, EndStep

\* stop_sequences ends everything that is registered.
LEMMA StopSequencesStep ==
  ASSUME WellBehaved, HandshakeInv, stop_sequences
  PROVE  HandshakeInv' /\ UNCHANGED fatal
<1> DEFINE K == running \intersect Gone(reg_sequences)
<1>1. /\ KillAll(reg_sequences) /\ "stop_sequences" \in Interference
      /\ sequence_item_requested' = FALSE /\ get_next_item_called' = FALSE
      /\ m_req_fifo' = NoItem
      /\ UNCHANGED <<m_wait_for_item_sequence_id, relevant, driver_vars, fatal>>
  BY DEF stop_sequences
<1>2. reg_sequences \in SUBSET Sequences
      /\ reg_sequences \union K \in SUBSET Sequences
  BY DEF HandshakeInv, TypeOK
<1>3. running \subseteq K \/ "kill_thread" \in Interference
  <2>1. reg_sequences \subseteq Gone(reg_sequences)
    BY <1>2, FamilyFacts DEF Gone
  <2> QED
    BY <2>1 DEF HandshakeInv, RunningOK
<1>4. /\ (reg_sequences \union K) \intersect running \subseteq K
      /\ CommitLists(remove_sequences_from_queues(Lists, reg_sequences \union K))
      /\ arb_changed' \in BOOLEAN
      /\ arb_completed' = {t \in arb_completed : Owner[t] \notin K}
      /\ running' = running \ K
      /\ pc' = [t \in Threads |-> IF Owner[t] \in K THEN "dead" ELSE pc[t]]
  BY <1>1, <1>2, KillAllFacts
<1>5. K \in SUBSET (reg_sequences \union K)
  OBVIOUS
<1> HIDE DEF K
<1> QED
  BY <1>1, <1>2, <1>3, <1>4, <1>5, EndStep

-----------------------------------------------------------------------------
(***************************************************************************)
(* A thread that waits has its request in the queue or completed.  Where   *)
(* no single thread is killed, requests leave the queue in two ways only:  *)
(* they are completed, or their sequence ends.                             *)
(***************************************************************************)
Waits(t) == pc[t] \in {"wait_for_grant", "wait_for_lock"}

\* The threads of queued requests live.
LEMMA AllAlive ==
  ASSUME HandshakeInv, "kill_thread" \notin Interference,
         NEW L, ListsOK(L), \A r \in L.q : SequenceOf(r) \in running
  PROVE  \A r \in L.q : Alive(r.thread)
<1> SUFFICES ASSUME NEW r \in L.q PROVE Alive(r.thread)
  OBVIOUS
<1>1. r.thread \in Threads /\ Owner[r.thread] \in running
  BY SequenceOfType DEF ListsOK, SequenceOf
<1> QED
  BY <1>1 DEF HandshakeInv, RunningOK, Alive

\* What the arbitration or a grant of locks takes off the queue is granted.
LEMMA TakenIsGranted ==
  ASSUME HandshakeInv, "kill_thread" \notin Interference,
         NEW L, ListsOK(L), \A r \in L.q : SequenceOf(r) \in running,
         NEW M, Shrunk(L, M)
  PROVE  L.q \subseteq M.q \union M.granted
BY AllAlive DEF Shrunk

\* Of the requests that were queued those of G are completed, the others stay.
LEMMA StillWaiting ==
  ASSUME WaitingIsQueued, NEW Q, NEW G, arb_sequence_q \subseteq Q \union G,
         arb_sequence_q' = Q, arb_completed \union Awaiting(G) \subseteq arb_completed',
         \A t \in Threads : Waits(t)' => Waits(t) \/ Queued(t)'
  PROVE  WaitingIsQueued'
<1> SUFFICES ASSUME NEW t \in Threads, Waits(t)'
             PROVE  Queued(t)' \/ t \in arb_completed'
  BY DEF WaitingIsQueued, Waits
<1>1. CASE Waits(t) /\ ~(t \in arb_completed)
  <2>1. PICK r \in arb_sequence_q : r.thread = t /\ r.awaited
    BY <1>1 DEF WaitingIsQueued, Waits, Queued
  <2>2. Alive(t)
    BY <1>1 DEF Waits, Alive
  <2>3. CASE r \in Q
    BY <2>1, <2>3 DEF Queued
  <2>4. CASE r \in G
    BY <2>1, <2>2, <2>4 DEF Awaiting
  <2> QED
    BY <2>3, <2>4
<1> QED
  BY <1>1

\* The steps that commit lists shrunk from those of the state.
LEMMA ShrunkWaits ==
  ASSUME HandshakeInv, WaitingIsQueued, "kill_thread" \notin Interference,
         NEW L, ListsOK(L), L.q = arb_sequence_q,
         NEW M, Shrunk(L, M), NEW R,
         arb_sequence_q' = M.q \ R,
         arb_completed \union Awaiting(M.granted \union R) \subseteq arb_completed',
         \A t \in Threads : Waits(t)' => Waits(t)
  PROVE  WaitingIsQueued'
<1>1. L.q \subseteq M.q \union M.granted
  BY TakenIsGranted DEF HandshakeInv, QueueOK
<1>2. arb_sequence_q \subseteq (M.q \ R) \union (M.granted \union R)
  BY <1>1
<1> QED
  BY <1>2, StillWaiting

\* The same for those that use Commit.
LEMMA CommitWaits ==
  ASSUME HandshakeInv, WaitingIsQueued, "kill_thread" \notin Interference,
         NEW L, ListsOK(L), L.q = arb_sequence_q,
         NEW M, Shrunk(L, M), Commit(M, {}),
         \A t \in Threads : Waits(t)' => Waits(t)
  PROVE  WaitingIsQueued'
<1>1. arb_sequence_q' = M.q \ {}
  BY DEF Commit, CommitLists
<1>2. arb_completed \union Awaiting(M.granted \union {}) \subseteq arb_completed'
  BY DEF Commit
<1> QED
  BY <1>1, <1>2, ShrunkWaits

\* A request that is queued behind or before the others: K are the new ones, t
\* the thread that queues them.
LEMMA RequestWaits ==
  ASSUME HandshakeInv, WaitingIsQueued, "kill_thread" \notin Interference,
         NEW t \in Threads, NEW lock_request \in BOOLEAN,
         wait_for_grant(t, lock_request)
  PROVE  WaitingIsQueued'
<1> DEFINE K == IF lock_request THEN push_back(Lists, LockAhead(t)) ELSE Lists
           L == m_update_lists(push_back(K, ItemRequest(t)))
<1>1. Commit(L, {}) /\ pc' = [pc EXCEPT ![t] = "wait_for_grant"]
  BY DEF wait_for_grant, Goto
<1>2. L.q = (IF lock_request THEN Lists.q \union {LockAhead(t)} ELSE Lists.q)
              \union {ItemRequest(t)}
  BY DEF push_back, m_update_lists, ListsOf
<1> HIDE DEF L, K
<1>3. arb_sequence_q' = L.q /\ arb_completed \subseteq arb_completed'
  BY <1>1 DEF Commit, CommitLists
<1>4. arb_sequence_q \subseteq L.q /\ ItemRequest(t) \in L.q
  BY <1>2, ListsFacts
<1>5. Queued(t)'
  BY <1>3, <1>4 DEF Queued, ItemRequest
<1>6. \A u \in Threads : Waits(u)' => Waits(u) \/ Queued(u)'
  BY <1>1, <1>5, ListsFacts DEF Waits
<1>7. Awaiting({}) = {}
  BY DEF Awaiting
<1> QED
  BY <1>3, <1>4, <1>6, <1>7, StillWaiting

\* lock and grab: who waited is still queued or granted, as is the caller.
LEMMA LockWaits ==
  ASSUME HandshakeInv, WaitingIsQueued, "kill_thread" \notin Interference,
         NEW t \in Threads, NEW L, m_lock_req(t, L),
         \/ L = push_back(Lists, LockRequest(t))
         \/ L = m_update_lists(push_front(Lists, LockRequest(t)))
  PROVE  WaitingIsQueued'
<1> DEFINE mine == LockRequest(t)
           G == grant_queued_locks(L)
           A == Awaiting(G.granted \ {mine})
<1>1. /\ CommitLists(G) /\ arb_completed' = arb_completed \union A
      /\ IF {mine} \subseteq G.granted THEN UNCHANGED pc
         ELSE pc' = [pc EXCEPT ![t] = "wait_for_lock"]
      /\ pc[t] = "body" /\ Owner[t] \in running
  BY DEF m_lock_req, InTestbench, At, Goto
<1>2. /\ mine \in Request /\ mine.thread = t /\ mine.awaited
      /\ SequenceOf(mine) \in running
  BY <1>1, RequestType DEF LockRequest, SequenceOf
<1>3. /\ L.q = Lists.q \union {mine} /\ L.locks = lock_list /\ L.reg = reg_sequences
      /\ L.granted = {} /\ L.updated \in BOOLEAN
  <2>1. /\ Lists.updated \in BOOLEAN /\ Lists.granted = {}
        /\ Lists.locks = lock_list /\ Lists.reg = reg_sequences
    BY ListsFacts DEF ListsOK
  <2>2. CASE L = push_back(Lists, mine)
    BY <2>1, <2>2 DEF push_back, ListsOf
  <2>3. CASE L = m_update_lists(push_front(Lists, mine))
    BY <2>1, <2>3 DEF push_front, m_update_lists, ListsOf
  <2> QED
    BY <2>2, <2>3
<1> HIDE DEF mine
<1>4. ListsOK(L)
  <2>1. IsFiniteSet(Lists.q \union {mine}) /\ Lists.q \subseteq Request
    BY ListsFacts, FS_AddElement DEF ListsOK
  <2> QED
    BY <1>2, <1>3, <2>1, ListsFacts DEF ListsOK
<1>5. Shrunk(L, G)
  BY <1>4, QueuedLocksShrinks
<1>6. \A r \in L.q : SequenceOf(r) \in running
  BY <1>2, <1>3, ListsFacts DEF QueueFor
<1> HIDE DEF G
<1>7. L.q \subseteq G.q \union G.granted
  BY <1>4, <1>5, <1>6, TakenIsGranted
<1>8. mine \notin arb_sequence_q
  BY <1>1, <1>2 DEF HandshakeInv, QueueOK, Alive
<1>9. arb_sequence_q \subseteq G.q \union (G.granted \ {mine})
  BY <1>3, <1>7, <1>8, ListsFacts
<1>10. arb_sequence_q' = G.q
  BY <1>1 DEF CommitLists
<1>11. \A u \in Threads : Waits(u)' => Waits(u) \/ Queued(u)'
  <2>1. CASE mine \in G.granted
    BY <1>1, <2>1 DEF Waits
  <2>2. CASE mine \notin G.granted
    <3>1. mine \in arb_sequence_q'
      BY <1>3, <1>7, <1>10, <2>2
    <3>2. Queued(t)'
      BY <1>2, <3>1 DEF Queued
    <3> QED
      BY <1>1, <2>2, <3>2, ListsFacts DEF Waits
  <2> QED
    BY <2>1, <2>2
<1> QED
  BY <1>1, <1>9, <1>10, <1>11, StillWaiting

\* unlock: who waited for a lock is still queued or granted.
LEMMA UnlockWaits ==
  ASSUME HandshakeInv, WaitingIsQueued, "kill_thread" \notin Interference,
         NEW t \in Threads, unlock(t)
  PROVE  WaitingIsQueued'
<1> DEFINE left == [lock_list EXCEPT ![Owner[t]] = @ - 1]
           L == ListsOf(arb_sequence_q, before, left, reg_sequences, {}, FALSE)
           M == m_update_lists(grant_queued_locks(L))
<1>1. Commit(M, {}) /\ UNCHANGED pc /\ lock_list[Owner[t]] > 0
  BY DEF unlock
<1>2. left \in [Sequences -> Nat]
  <2>1. Owner[t] \in Sequences /\ lock_list \in [Sequences -> Nat]
    BY SequencerAssumption DEF HandshakeInv, TypeOK
  <2>2. lock_list[Owner[t]] - 1 \in Nat
    BY <1>1, <2>1
  <2>3. left = [s \in Sequences |-> IF s = Owner[t] THEN lock_list[s] - 1
                                    ELSE lock_list[s]]
    BY <2>1
  <2> QED
    BY <2>1, <2>2, <2>3
<1>3. ListsOK(L) /\ L.q = arb_sequence_q
  <2> HIDE DEF left
  <2> QED
    BY <1>2, ListsFacts DEF ListsOf, ListsOK, Lists
<1> HIDE DEF L
<1>4. Shrunk(L, M)
  BY <1>3, QueuedLocksShrinks, UpdateShrinks
<1> HIDE DEF M
<1>5. \A u \in Threads : Waits(u)' => Waits(u)
  BY <1>1 DEF Waits
<1> QED
  BY <1>1, <1>3, <1>4, <1>5, CommitWaits

\* send_request and item_done grant queued locks.
LEMMA GrantWaits ==
  ASSUME HandshakeInv, WaitingIsQueued, "kill_thread" \notin Interference,
         Commit(grant_queued_locks(Lists), {}),
         \A t \in Threads : Waits(t)' => Waits(t)
  PROVE  WaitingIsQueued'
BY ListsFacts, QueuedLocksShrinks, CommitWaits

\* Nothing of the queue or of the waiting threads changes.
LEMMA SameWaits ==
  ASSUME WaitingIsQueued, UNCHANGED <<arb_sequence_q, arb_completed>>,
         \A t \in Threads : Waits(t)' => Waits(t)
  PROVE  WaitingIsQueued'
BY DEF WaitingIsQueued, Waits, Queued

\* A thread that proceeds waits no longer; the others are left alone.
LEMMA ProceedsWaits ==
  ASSUME HandshakeInv, WaitingIsQueued, "kill_thread" \notin Interference,
         NEW t \in Threads, ThreadProceeds(t)
  PROVE  WaitingIsQueued'
<1>1. CASE arbitration_completed(t)
  <2>1. /\ arb_completed' = arb_completed \ {t} /\ UNCHANGED arb_sequence_q
        /\ \A u \in Threads : u # t => pc'[u] = pc[u]
        /\ pc'[t] \in {"granted", "body"}
    BY <1>1, ListsFacts DEF arbitration_completed, Goto, lists
  <2> QED
    BY <2>1 DEF WaitingIsQueued, Queued
<1>2. CASE item_done_seen(t)
  <2>1. UNCHANGED <<arb_sequence_q, arb_completed>> /\ pc' = [pc EXCEPT ![t] = "body"]
    BY <1>2 DEF item_done_seen, Goto, lists
  <2>2. \A u \in Threads : Waits(u)' => Waits(u)
    BY <2>1, ListsFacts DEF Waits
  <2> QED
    BY <2>1, <2>2, SameWaits
<1>3. ASSUME NEW then_wait \in BOOLEAN, send_request(t, then_wait)
      PROVE  WaitingIsQueued'
  <2>1. m_req_fifo = NoItem
    BY <1>3 DEF HandshakeInv, OneItemInFlight, send_request, At, HasGrant
  <2>2. /\ Commit(grant_queued_locks(Lists), {})
        /\ pc' = [pc EXCEPT ![t] = IF then_wait THEN "wait_for_item_done" ELSE "body"]
    BY <1>3, <2>1 DEF send_request, Goto
  <2>3. \A u \in Threads : Waits(u)' => Waits(u)
    BY <2>2, ListsFacts DEF Waits
  <2> QED
    BY <2>2, <2>3, GrantWaits
<1> QED
  BY <1>1, <1>2, <1>3 DEF ThreadProceeds

\* An arbitration takes off the queue what it grants.
LEMMA SelectWaits ==
  ASSUME HandshakeInv, WaitingIsQueued, "kill_thread" \notin Interference,
         m_select_sequence \/ try_select
  PROVE  WaitingIsQueued'
<1>1. UNCHANGED pc
  BY DEF m_select_sequence, try_select
<1>2. \A t \in Threads : Waits(t)' => Waits(t)
  BY <1>1 DEF Waits
<1>3. PICK choice \in m_choose_next_request(Lists) :
        \/ \E r \in choice.picks : granted(choice, r, "peek") \/ granted(choice, r, "try_peek")
        \/ m_wait_for_available_sequence(choice.lists)
        \/ Commit(choice.lists, {})
        \/ overran(choice)
  BY DEF m_select_sequence, try_select
<1> DEFINE C == choice.lists
<1>4. Shrunk(Lists, C) /\ ListsOK(Lists) /\ Lists.q = arb_sequence_q
  BY ListsFacts, ChooseShrinks
<1>5. ASSUME NEW r \in choice.picks, NEW next, granted(choice, r, next)
      PROVE  WaitingIsQueued'
  <2> DEFINE M == m_update_lists(delete(C, r))
  <2>1. Commit(M, {r})
    BY <1>5 DEF granted
  <2> HIDE DEF C
  <2>2. M.q = C.q \ {r} /\ M.granted = C.granted
    BY DEF m_update_lists, delete, ListsOf
  <2> HIDE DEF M
  <2>3. arb_sequence_q' = C.q \ {r}
    BY <2>1, <2>2 DEF Commit, CommitLists
  <2>4. arb_completed \union Awaiting(C.granted \union {r}) \subseteq arb_completed'
    BY <2>1, <2>2 DEF Commit
  <2> QED
    BY <1>2, <1>4, <2>3, <2>4, ShrunkWaits
<1>6. CASE m_wait_for_available_sequence(C)
  <2> HIDE DEF C
  <2>1. arb_sequence_q' = C.q \ {}
    BY <1>6 DEF m_wait_for_available_sequence, CommitLists
  <2>2. C.granted \union {} = C.granted
    OBVIOUS
  <2>3. arb_completed \union Awaiting(C.granted \union {}) \subseteq arb_completed'
    BY <1>6, <2>2 DEF m_wait_for_available_sequence
  <2> QED
    BY <1>2, <1>4, <2>1, <2>3, ShrunkWaits
<1>7. CASE Commit(C, {})
  <2> HIDE DEF C
  <2> QED
    BY <1>2, <1>4, <1>7, CommitWaits
<1>8. CASE overran(choice)
  <2>1. UNCHANGED <<arb_sequence_q, arb_completed>>
    BY <1>8 DEF overran, lists
  <2> QED
    BY <1>2, <2>1, SameWaits
<1> QED
  BY <1>3, <1>5, <1>6, <1>7, <1>8

\* The steps of the driver: who is granted leaves the queue with its grant.
LEMMA DriverWaits ==
  ASSUME HandshakeInv, WaitingIsQueued, "kill_thread" \notin Interference,
         DriverProceeds \/ DriverCallsSequencer \/ item_done
  PROVE  WaitingIsQueued'
<1>1. CASE m_select_sequence \/ try_select
  BY <1>1, SelectWaits
<1>2. CASE available_changed \/ try_peek \/ DriverCallsSequencer
  <2>1. UNCHANGED <<arb_sequence_q, arb_completed, pc>>
    BY <1>2 DEF available_changed, try_peek, DriverCallsSequencer, request_item,
                try_next_item, lists
  <2> QED
    BY <2>1, SameWaits DEF Waits
<1>3. CASE peek_returns \/ item_done
  <2>1. UNCHANGED pc
    BY <1>3 DEF peek_returns, item_done
  <2>2. CASE UNCHANGED <<arb_sequence_q, arb_completed>>
    BY <2>1, <2>2, SameWaits DEF Waits
  <2>3. CASE Commit(grant_queued_locks(Lists), {})
    BY <2>1, <2>3, GrantWaits DEF Waits
  <2>4. \/ UNCHANGED <<arb_sequence_q, arb_completed>>
        \/ Commit(grant_queued_locks(Lists), {})
    BY <1>3 DEF peek_returns, item_done, item_done_effect, lists
  <2> QED
    BY <2>2, <2>3, <2>4
<1> QED
  BY <1>1, <1>2, <1>3 DEF DriverProceeds

\* Above is transitive.
LEMMA FamilyOfFamily ==
  ASSUME NEW S \in SUBSET Sequences, NEW k \in Gone(S)
  PROVE  Family[k] \subseteq Gone(S)
<1>1. PICK s \in S : k \in Family[s]
  BY DEF Gone
<1>2. k \in Sequences
  BY <1>1, FamilyFacts
<1>3. ASSUME NEW c \in Family[k], NEW T \in SUBSET Sequences, c \in T, ClosedUpwards(T)
      PROVE  s \in T
  <2>1. k \in T
    BY <1>2, <1>3 DEF Family
  <2> QED
    BY <1>1, <1>3, <2>1 DEF Family
<1>4. Family[k] \subseteq Family[s]
  BY <1>2, <1>3, FamilyFacts DEF Family
<1> QED
  BY <1>1, <1>4 DEF Gone

\* The requests that leave with sequences that end are theirs.
LEMMA EndWaits ==
  ASSUME HandshakeInv, WaitingIsQueued, NEW S \in SUBSET Sequences,
         NEW K \in SUBSET Sequences, running \intersect Gone(S) \subseteq K,
         arb_sequence_q' = remove_sequences_from_queues(Lists, S).q,
         \A t \in arb_completed : Owner[t] \notin K => t \in arb_completed',
         pc' = [t \in Threads |-> IF Owner[t] \in K THEN "dead" ELSE pc[t]]
  PROVE  WaitingIsQueued'
<1>1. arb_sequence_q' = {r \in arb_sequence_q : SequenceOf(r) \notin Gone(S)}
  <2> DEFINE L == Lists
             M == remove_sequences_from_queues(L, S)
  <2>1. ListsOK(L) /\ L.q = arb_sequence_q
    BY ListsFacts
  <2>2. arb_sequence_q' = M.q
    OBVIOUS
  <2> HIDE DEF L
  <2>3. /\ ListsOK(M)
        /\ M.q = {r \in L.q : SequenceOf(r) \notin Gone(S)}
        /\ M.locks = [s \in Sequences |->
                        IF s \in Gone(S) THEN 0 ELSE L.locks[s]]
        /\ M.reg = L.reg \ S
        /\ M.granted = L.granted
    BY <2>1, RemoveFamilies
  <2> HIDE DEF M
  <2> QED
    BY <2>1, <2>2, <2>3
<1> SUFFICES ASSUME NEW t \in Threads, Waits(t)'
             PROVE  Queued(t)' \/ t \in arb_completed'
  BY DEF WaitingIsQueued, Waits
<1>2. Waits(t) /\ Owner[t] \notin K
  BY DEF Waits
<1>3. CASE t \in arb_completed
  BY <1>2, <1>3
<1>4. CASE t \notin arb_completed
  <2>1. PICK r \in arb_sequence_q : r.thread = t /\ r.awaited
    BY <1>2, <1>4 DEF WaitingIsQueued, Waits, Queued
  <2>2. SequenceOf(r) = Owner[t] /\ SequenceOf(r) \in running
    BY <2>1 DEF SequenceOf, HandshakeInv, QueueOK
  <2>3. r \in arb_sequence_q'
    BY <1>1, <1>2, <2>1, <2>2
  <2> QED
    BY <2>1, <2>3 DEF Queued
<1> QED
  BY <1>3, <1>4

\* What is removed with a killed family waited in threads that die with it.
LEMMA KillWaits ==
  ASSUME HandshakeInv, WaitingIsQueued, NEW S \in SUBSET Sequences, KillAll(S)
  PROVE  WaitingIsQueued'
<1> DEFINE K == running \intersect Gone(S)
<1>1. /\ CommitLists(remove_sequences_from_queues(Lists, S \union K))
      /\ arb_completed' = {t \in arb_completed : Owner[t] \notin K}
      /\ pc' = [t \in Threads |-> IF Owner[t] \in K THEN "dead" ELSE pc[t]]
  BY KillAllFacts
<1>2. S \union K \in SUBSET Sequences
  BY DEF HandshakeInv, TypeOK
<1>3. running \intersect Gone(S \union K) \subseteq K
  <2>1. Gone(S \union K) \subseteq Gone(S)
    <3>1. ASSUME NEW k \in S \union K PROVE Family[k] \subseteq Gone(S)
      BY <3>1, FamilyOfFamily DEF Gone
    <3> QED
      BY <3>1 DEF Gone
  <2> QED
    BY <2>1
<1> HIDE DEF K
<1> QED
  BY <1>1, <1>2, <1>3, EndWaits DEF CommitLists

\* The steps of a sequence as a whole.
LEMMA SequenceWaits ==
  ASSUME HandshakeInv, WaitingIsQueued, NEW s \in Sequences, SequenceStep(s)
  PROVE  WaitingIsQueued'
<1>1. CASE start(s)
  <2>1. UNCHANGED <<arb_sequence_q, arb_completed>>
        /\ pc' = [t \in Threads |-> IF Owner[t] = s THEN "body" ELSE pc[t]]
    BY <1>1 DEF start
  <2>2. \A t \in Threads : Waits(t)' => Waits(t)
    BY <2>1 DEF Waits
  <2> QED
    BY <2>1, <2>2, SameWaits
<1>2. CASE exit(s)
  <2> DEFINE M == remove_sequences_from_queues(Lists, {s})
  <2>1. /\ Commit(M, {})
        /\ pc' = [t \in Threads |-> IF Owner[t] \in {s} THEN "dead" ELSE pc[t]]
        /\ \A c \in running : ~is_child(s, c)
    BY <1>2 DEF exit
  <2>2. running \intersect Gone({s}) \subseteq {s}
    BY <2>1 DEF is_child, Gone
  <2>3. arb_sequence_q' = M.q /\ arb_completed \subseteq arb_completed'
    BY <2>1 DEF Commit, CommitLists
  <2>4. {s} \in SUBSET Sequences
    OBVIOUS
  <2> QED
    BY <2>1, <2>2, <2>3, <2>4, EndWaits
<1>3. CASE toggle_relevant(s)
  <2>1. UNCHANGED <<arb_sequence_q, arb_completed, pc>>
    BY <1>3 DEF toggle_relevant, lists
  <2> QED
    BY <2>1, SameWaits DEF Waits
<1>4. CASE kill_sequence(s)
  BY <1>4, KillWaits DEF kill_sequence
<1> QED
  BY <1>1, <1>2, <1>3, <1>4 DEF SequenceStep

\* Every step, where no single thread is killed.
LEMMA NextWaits ==
  ASSUME HandshakeInv, WaitingIsQueued, "kill_thread" \notin Interference, [Next]_vars
  PROVE  WaitingIsQueued'
<1>1. CASE UNCHANGED vars
  BY <1>1, SameWaits DEF vars, lists, Waits
<1>2. ASSUME NEW s \in Sequences, SequenceStep(s) PROVE WaitingIsQueued'
  BY <1>2, SequenceWaits
<1>3. ASSUME NEW t \in Threads, ThreadCalls(t) PROVE WaitingIsQueued'
  <2>1. ~kill_thread(t)
    BY DEF kill_thread
  <2>2. CASE wait_for_item_done(t)
    <3>1. UNCHANGED <<arb_sequence_q, arb_completed>>
      BY <2>2 DEF wait_for_item_done, lists
    <3>2. \A u \in Threads : Waits(u)' => Waits(u)
      BY <2>2 DEF wait_for_item_done, Waits
    <3> QED
      BY <3>1, <3>2, SameWaits
  <2> QED
    BY <1>3, <2>1, <2>2, RequestWaits, LockWaits, UnlockWaits DEF ThreadCalls, lock, grab
<1>4. ASSUME NEW t \in Threads, ThreadProceeds(t) PROVE WaitingIsQueued'
  BY <1>4, ProceedsWaits
<1>5. CASE DriverProceeds \/ DriverCallsSequencer \/ item_done
  BY <1>5, DriverWaits
<1>6. CASE stop_sequences
  BY <1>6, KillWaits DEF stop_sequences, HandshakeInv, TypeOK
<1> QED
  BY <1>1, <1>2, <1>3, <1>4, <1>5, <1>6 DEF Next

-----------------------------------------------------------------------------
(* The theorems. *)

\* The sequencer starts idle.
LEMMA InitHandshake == Init => HandshakeInv /\ fatal = "none"
<1> SUFFICES ASSUME Init PROVE HandshakeInv /\ fatal = "none"
  OBVIOUS
<1>1. IsFiniteSet({})
  BY FS_EmptySet
<1>2. \A t \in Threads : pc[t] = "dead" /\ ~HasGrant(t)
  BY DEF Init, HasGrant
<1>3. TypeOK
  BY SequencerAssumption DEF Init, TypeOK, ThreadPlaces
<1>4. QueueOK /\ CompletedOK
  BY <1>1 DEF Init, QueueOK, CompletedOK
<1>5. RunningOK /\ DriverOK
  BY <1>2 DEF Init, RunningOK, DriverOK
<1>6. OneItemInFlight /\ DoneOK /\ HoldingOK
  BY <1>2 DEF Init, OneItemInFlight, DoneOK, HoldingOK
<1> QED
  BY <1>3, <1>4, <1>5, <1>6 DEF Init, HandshakeInv

\* Every step keeps the invariant, and the fatals it may raise are known.
LEMMA NextHandshake ==
  ASSUME WellBehaved, HandshakeInv, [Next]_vars
  PROVE  /\ HandshakeInv'
         /\ \/ UNCHANGED fatal
            \/ fatal' = "null request"
            \/ /\ fatal' = "item_done without request"
               /\ "stop_sequences" \in Interference
<1>1. CASE UNCHANGED vars
  <2>1. TypeOK'
    <3>1. /\ UNCHANGED <<arb_sequence_q, before, lock_list, reg_sequences, arb_completed>>
          /\ UNCHANGED <<arb_changed, m_req_fifo, sequence_item_requested, running>>
          /\ UNCHANGED <<get_next_item_called, m_wait_for_item_sequence_id, relevant>>
          /\ UNCHANGED <<pc, driver, holding, waits_relevant, fatal>>
      BY <1>1 DEF vars, lists, handshake, driver_vars
    <3>2. (driver \in [at : {"user", "select", "wait_for_available", "peek",
                           "try_select", "try_peek"},
                     call : DriverCalls \union {"none"}])'
      BY <3>1 DEF HandshakeInv, TypeOK
    <3>3. (before \in SUBSET (arb_sequence_q \X arb_sequence_q))'
      BY <3>1 DEF HandshakeInv, TypeOK
    <3>4. (lock_list \in [Sequences -> Nat] /\ pc \in [Threads -> ThreadPlaces])'
      BY <3>1 DEF HandshakeInv, TypeOK
    <3> QED
      BY <3>1, <3>2, <3>3, <3>4 DEF HandshakeInv, TypeOK
  <2> USE <1>1 DEF HandshakeInv, vars, lists, handshake, driver_vars
  <2>2. QueueOK' /\ CompletedOK' /\ RunningOK'
    <3>1. QueueOK'
      BY DEF QueueOK, Alive, SequenceOf
    <3>2. CompletedOK'
      BY DEF CompletedOK
    <3>3. RunningOK'
      BY DEF RunningOK, Alive
    <3> QED
      BY <3>1, <3>2, <3>3
  <2>3. \A t \in Threads : HasGrant(t)' <=> HasGrant(t)
    BY DEF HasGrant
  <2>4. DriverOK' /\ OneItemInFlight' /\ DoneOK' /\ HoldingOK'
    BY <2>3 DEF DriverOK, OneItemInFlight, DoneOK, HoldingOK
  <2> QED
    BY <2>1, <2>2, <2>4
<1>2. ASSUME NEW s \in Sequences, SequenceStep(s)
      PROVE  HandshakeInv' /\ UNCHANGED fatal
  <2>1. start(s) \/ toggle_relevant(s) => UNCHANGED fatal
    BY DEF start, toggle_relevant
  <2> QED
    BY <1>2, <2>1, StartStep, ExitStep, ToggleStep, KillSequenceStep DEF SequenceStep
<1>3. ASSUME NEW t \in Threads, ThreadCalls(t)
      PROVE  HandshakeInv' /\ UNCHANGED fatal
  <2>1. ASSUME NEW lock_request \in BOOLEAN, wait_for_grant(t, lock_request)
        PROVE  HandshakeInv' /\ UNCHANGED fatal
    BY <2>1, WaitForGrantStep DEF wait_for_grant
  <2>2. CASE lock(t) \/ grab(t)
    <3>1. UNCHANGED fatal
      BY <2>2 DEF lock, grab, m_lock_req
    <3> QED
      BY <2>2, <3>1, LockStep DEF lock, grab
  <2>3. CASE unlock(t)
    BY <2>3, UnlockStep DEF unlock
  <2>4. CASE kill_thread(t)
    BY <2>4, KillThreadStep DEF kill_thread
  <2>5. CASE wait_for_item_done(t)
    BY <2>5, WaitStep DEF wait_for_item_done
  <2> QED
    BY <1>3, <2>1, <2>2, <2>3, <2>4, <2>5 DEF ThreadCalls
<1>4. ASSUME NEW t \in Threads, ThreadProceeds(t)
      PROVE  HandshakeInv' /\ UNCHANGED fatal
  <2>1. arbitration_completed(t) \/ item_done_seen(t) => UNCHANGED fatal
    BY DEF arbitration_completed, item_done_seen
  <2> QED
    BY <1>4, <2>1, CompletedStep, DoneSeenStep, SendRequestStep DEF ThreadProceeds
<1>5. CASE DriverProceeds
  <2>1. available_changed \/ try_peek => UNCHANGED fatal
    BY DEF available_changed, try_peek
  <2> QED
    BY <1>5, <2>1, SelectStep, AvailableChangedStep, PeekReturnsStep, TrySelectStep,
       TryPeekStep DEF DriverProceeds
<1>6. CASE DriverCallsSequencer
  <2>1. ASSUME NEW call \in {"get_next_item", "get", "peek"}, request_item(call)
        PROVE  HandshakeInv' /\ UNCHANGED fatal
    BY <2>1, RequestItemStep DEF request_item
  <2>2. CASE try_next_item
    BY <2>2, TryNextItemStep DEF try_next_item
  <2> QED
    BY <1>6, <2>1, <2>2 DEF DriverCallsSequencer
<1>7. CASE item_done
  BY <1>7, DriverItemDoneStep
<1>8. CASE stop_sequences
  BY <1>8, StopSequencesStep
<1> QED
  BY <1>1, <1>2, <1>3, <1>4, <1>5, <1>6, <1>7, <1>8 DEF Next

\* The inductive invariant holds in every reachable state.
THEOREM Handshake == ASSUME WellBehaved PROVE Spec => []HandshakeInv
<1>1. HandshakeInv /\ [Next]_vars => HandshakeInv'
  BY NextHandshake
<1>2. Init => HandshakeInv
  BY InitHandshake
<1> QED
  BY <1>1, <1>2, PTL DEF Spec

\* The variables keep their types.
THEOREM TypeCorrect == ASSUME WellBehaved PROVE Spec => []TypeOK
<1>1. HandshakeInv => TypeOK
  BY DEF HandshakeInv
<1> QED
  BY <1>1, Handshake, PTL

\* Arbitration hands out one grant at a time, and none while the fifo is full.
THEOREM OneItem == ASSUME WellBehaved PROVE Spec => []OneItemInFlight
<1>1. HandshakeInv => OneItemInFlight
  BY DEF HandshakeInv
<1> QED
  BY <1>1, Handshake, PTL

\* No thread in wait_for_item_done is forgotten.
THEOREM DoneNotLost == ASSUME WellBehaved PROVE Spec => []ItemDoneNotLost
<1>1. HandshakeInv => ItemDoneNotLost
  BY DEF HandshakeInv, DoneOK, ItemDoneNotLost
<1> QED
  BY <1>1, Handshake, PTL

\* Sequences that are gone leave no lock and no request.
THEOREM NothingLeft == ASSUME WellBehaved PROVE Spec => []NothingLeftBehind
<1>1. HandshakeInv => NothingLeftBehind
  BY DEF HandshakeInv, RunningOK, QueueOK, NothingLeftBehind
<1> QED
  BY <1>1, Handshake, PTL

\* send_request never finds the fifo full; without stop_sequences item_done
\* never finds it empty.
THEOREM NeverFatal == ASSUME WellBehaved PROVE Spec => []HandshakeNeverFatal
<1>1. HandshakeInv /\ HandshakeNeverFatal /\ [Next]_vars => HandshakeNeverFatal'
  BY NextHandshake DEF HandshakeNeverFatal
<1>2. Init => HandshakeNeverFatal
  BY InitHandshake DEF HandshakeNeverFatal
<1> QED
  BY <1>1, <1>2, Handshake, PTL DEF Spec

\* Where no single thread is killed, a thread that waits for a grant or a lock
\* has its request in the queue or completed (uvm_sequencer_base.svh:1275).
THEOREM NobodyForgotten ==
  ASSUME WellBehaved, "kill_thread" \notin Interference
  PROVE  Spec => []WaitingIsQueued
<1>1. Init => WaitingIsQueued
  BY DEF Init, WaitingIsQueued
<1>2. HandshakeInv /\ WaitingIsQueued /\ [Next]_vars => WaitingIsQueued'
  BY NextWaits
<1> QED
  BY <1>1, <1>2, Handshake, PTL DEF Spec

\* stop_sequences kills all that runs, for all that runs is registered.
LEMMA StopIsTotal ==
  ASSUME WellBehaved, HandshakeInv, stop_sequences
  PROVE  running' = {}
<1>1. /\ running' = running \ (running \intersect Gone(reg_sequences))
      /\ "kill_thread" \notin Interference
  BY DEF stop_sequences, KillAll, Gone, WellBehaved
<1>2. running \subseteq reg_sequences /\ reg_sequences \subseteq Sequences
  BY <1>1 DEF HandshakeInv, RunningOK, TypeOK
<1>3. reg_sequences \subseteq Gone(reg_sequences)
  BY <1>2, FamilyFacts DEF Gone
<1> QED
  BY <1>1, <1>2, <1>3

\* stop_sequences ends every sequence that runs (uvm_sequencer.svh:163).
THEOREM StopEndsAll == ASSUME WellBehaved PROVE Spec => StopKillsAll
<1>1. HandshakeInv /\ [Next]_vars => [stop_sequences => running' = {}]_vars
  BY StopIsTotal
<1> QED
  BY <1>1, Handshake, PTL DEF Spec, StopKillsAll

-----------------------------------------------------------------------------
(***************************************************************************)
(* The arbitration.  While no thread dies alone its loop removes nothing,  *)
(* so that the positions it keeps stay what they were.                     *)
(***************************************************************************)

(* Positions in the queue. *)

\* The order of a queue: of two requests one is before the other.
OrderOK(Q, order) ==
  /\ \A p \in Q : <<p, p>> \notin order
  /\ \A p, r \in Q : p # r => <<p, r>> \in order \/ <<r, p>> \in order
  /\ \A p, q, r \in Q : <<p, q>> \in order /\ <<q, r>> \in order => <<p, r>> \in order

EarlierThan(Q, order, r) == {p \in Q : <<p, r>> \in order}

\* The position of a request counts those before it, and is an index of the queue.
LEMMA PositionType ==
  ASSUME NEW Q, IsFiniteSet(Q), NEW order, OrderOK(Q, order), NEW r \in Q
  PROVE  /\ PositionIn(Q, order, r) = Cardinality(EarlierThan(Q, order, r))
         /\ IsFiniteSet(EarlierThan(Q, order, r))
         /\ Cardinality(Q) \in Nat
         /\ PositionIn(Q, order, r) \in 0..Cardinality(Q) - 1
<1>1. EarlierThan(Q, order, r) \subseteq Q \ {r}
  BY DEF EarlierThan, OrderOK
<1>2. /\ IsFiniteSet(Q \ {r}) /\ Cardinality(Q \ {r}) = Cardinality(Q) - 1
      /\ Cardinality(Q) \in Nat
  BY FS_RemoveElement, FS_CardinalityType
<1>3. /\ IsFiniteSet(EarlierThan(Q, order, r))
      /\ Cardinality(EarlierThan(Q, order, r)) <= Cardinality(Q) - 1
      /\ Cardinality(EarlierThan(Q, order, r)) \in Nat
  BY <1>1, <1>2, FS_Subset, FS_CardinalityType
<1>4. PositionIn(Q, order, r) = Cardinality(EarlierThan(Q, order, r))
  BY DEF PositionIn, EarlierThan
<1> QED
  BY <1>2, <1>3, <1>4

\* An earlier request has a lower position.
LEMMA PositionOrder ==
  ASSUME NEW Q, IsFiniteSet(Q), NEW order, OrderOK(Q, order),
         NEW p \in Q, NEW r \in Q, <<p, r>> \in order
  PROVE  PositionIn(Q, order, p) < PositionIn(Q, order, r)
<1> DEFINE P == EarlierThan(Q, order, p)
           R == EarlierThan(Q, order, r)
<1>1. P \union {p} \subseteq R /\ p \notin P
  BY DEF EarlierThan, OrderOK
<1>2. /\ IsFiniteSet(P) /\ IsFiniteSet(R)
      /\ PositionIn(Q, order, p) = Cardinality(P)
      /\ PositionIn(Q, order, r) = Cardinality(R)
      /\ Cardinality(P) \in Int /\ Cardinality(R) \in Int
  BY PositionType
<1> HIDE DEF P, R
<1>3. Cardinality(P \union {p}) = Cardinality(P) + 1
  BY <1>1, <1>2, FS_AddElement
<1>4. Cardinality(P \union {p}) <= Cardinality(R)
  BY <1>1, <1>2, FS_Subset
<1> QED
  BY <1>2, <1>3, <1>4

\* Two requests have two positions, and a smaller position is further in front.
LEMMA PositionUnique ==
  ASSUME NEW Q, IsFiniteSet(Q), NEW order, OrderOK(Q, order),
         NEW p \in Q, NEW r \in Q
  PROVE  /\ PositionIn(Q, order, p) = PositionIn(Q, order, r) => p = r
         /\ PositionIn(Q, order, p) < PositionIn(Q, order, r) => <<p, r>> \in order
<1>1. p = r \/ <<p, r>> \in order \/ <<r, p>> \in order
  BY DEF OrderOK
<1>2. PositionIn(Q, order, p) \in Int /\ PositionIn(Q, order, r) \in Int
  BY PositionType
<1> QED
  BY <1>1, <1>2, PositionOrder

\* What the code reads at a position.
Entry(Q, order, i) == CHOOSE r \in EntriesAt(Q, order, i) : TRUE

\* There is an entry at every position, since there are as many as entries.
LEMMA EntryFacts ==
  ASSUME NEW Q, IsFiniteSet(Q), NEW order, OrderOK(Q, order),
         NEW i \in 0..Cardinality(Q) - 1
  PROVE  Entry(Q, order, i) \in Q /\ PositionIn(Q, order, Entry(Q, order, i)) = i
<1> DEFINE C == Cardinality(Q)
           f == [r \in Q |-> PositionIn(Q, order, r)]
<1>1. C \in Nat
  BY FS_CardinalityType
<1>2. IsFiniteSet(0..C - 1) /\ Cardinality(0..C - 1) = C
  BY <1>1, FS_Interval
<1>3. f \in [Q -> 0..C - 1]
  BY PositionType
<1>4. \A p, r \in Q : f[p] = f[r] => p = r
  BY PositionUnique
<1>5. f \in Injection(Q, 0..C - 1)
  BY <1>3, <1>4 DEF Injection, IsInjective
<1>6. f \in Surjection(Q, 0..C - 1)
  BY <1>2, <1>5, FS_Injection
<1>7. PICK r \in Q : f[r] = i
  BY <1>6 DEF Surjection
<1>8. EntriesAt(Q, order, i) # {}
  BY <1>7 DEF EntriesAt
<1> QED
  BY <1>8 DEF Entry, EntriesAt

\* The entry read at a request's position is that request.
LEMMA EntryAt ==
  ASSUME NEW Q, IsFiniteSet(Q), NEW order, OrderOK(Q, order), NEW r \in Q
  PROVE  Entry(Q, order, PositionIn(Q, order, r)) = r
<1>1. PositionIn(Q, order, r) \in 0..Cardinality(Q) - 1
  BY PositionType
<1>2. PICK e : e = Entry(Q, order, PositionIn(Q, order, r))
  OBVIOUS
<1>3. e \in Q /\ PositionIn(Q, order, e) = PositionIn(Q, order, r)
  BY <1>1, <1>2, EntryFacts
<1> QED
  BY <1>2, <1>3, PositionUnique

-----------------------------------------------------------------------------
(* The loop of the arbitration. *)

\* Who changes the queue or the locks calls m_update_lists, which wakes the driver.
Tells(L, M) ==
  /\ M.order = L.order
  /\ M.updated \/ (~L.updated /\ M.q = L.q /\ M.locks = L.locks)

\* Removing families of sequences either changes neither the queue nor the locks or
\* says that it did.
LEMMA RemoveTells ==
  ASSUME NEW L, ListsOK(L), NEW S \in SUBSET Sequences, NEW M,
         M = remove_sequences_from_queues(L, S)
  PROVE  Tells(L, M)
<1> DEFINE removed == {r \in L.q : SequenceOf(r) \in Gone(S)}
           freed == {s \in Gone(S) : L.locks[s] > 0}
           locks == [s \in Sequences |-> IF s \in Gone(S) THEN 0 ELSE L.locks[s]]
           upd == L.updated \/ removed # {} \/ freed # {}
<1>1. M = ListsOf(L.q \ removed, L.order, locks, L.reg \ S, L.granted, upd)
  BY DEF remove_sequences_from_queues, Gone
<1>2. ASSUME ~upd PROVE ~L.updated /\ L.q \ removed = L.q /\ locks = L.locks
  <2>1. removed = {} /\ \A s \in Gone(S) : ~(L.locks[s] > 0)
    BY <1>2
  <2>2. L.locks \in [Sequences -> Nat]
    BY DEF ListsOK
  <2>3. \A s \in Sequences : locks[s] = L.locks[s]
    BY <2>1, <2>2
  <2> HIDE DEF removed
  <2> QED
    BY <1>2, <2>1, <2>2, <2>3
<1> HIDE DEF upd, removed, locks
<1>3. M.q = L.q \ removed /\ M.order = L.order /\ M.locks = locks /\ M.updated = upd
  BY <1>1 DEF ListsOf
<1> QED
  BY <1>2, <1>3 DEF Tells

\* So does granting the lock requests at the front of the queue,
LEMMA GrantTells ==
  ASSUME NEW L, ListsOK(L)
  PROVE  Tells(L, grant_leading_locks(L))
<1> DEFINE G == {r \in leading_lock_reqs(L) : ~blocks(L.locks, SequenceOf(r))}
           new(s) == Cardinality({r \in G : SequenceOf(r) = s})
           locks == [s \in Sequences |-> L.locks[s] + new(s)]
           upd == L.updated \/ G # {}
           M == ListsOf(L.q \ G, L.order, locks, L.reg, L.granted \union G, upd)
<1>1. grant_leading_locks(L) = M
  BY DEF grant_leading_locks
<1>2. ASSUME ~upd PROVE ~L.updated /\ L.q \ G = L.q /\ locks = L.locks
  <2>1. G = {}
    BY <1>2
  <2>2. \A s \in Sequences : new(s) = 0
    BY <2>1, FS_EmptySet
  <2>3. L.locks \in [Sequences -> Nat]
    BY DEF ListsOK
  <2> HIDE DEF new
  <2>4. locks = L.locks
    BY <2>2, <2>3
  <2> HIDE DEF G
  <2> QED
    BY <1>2, <2>1, <2>4
<1> HIDE DEF upd, G, locks
<1>3. M.q = L.q \ G /\ M.order = L.order /\ M.locks = locks /\ M.updated = upd
  BY DEF ListsOf
<1> HIDE DEF M
<1> QED
  BY <1>1, <1>2, <1>3 DEF Tells

\* and grant_queued_locks, which does one after the other.
LEMMA QueuedLocksTell ==
  ASSUME NEW L, ListsOK(L)
  PROVE  Tells(L, grant_queued_locks(L))
<1> DEFINE Z == {r \in L.q : r.request = "SEQ_TYPE_LOCK" /\ ~Alive(r.thread)}
           S == {SequenceOf(r) : r \in Z}
           M == remove_sequences_from_queues(L, S)
<1>1. S \in SUBSET Sequences
  BY SequenceOfType DEF ListsOK
<1>2. grant_queued_locks(L) = grant_leading_locks(M)
  BY DEF grant_queued_locks
<1> HIDE DEF S
<1>3. Tells(L, M) /\ ListsOK(M)
  BY <1>1, RemoveTells, RemoveFamilies
<1> HIDE DEF M
<1>4. Tells(M, grant_leading_locks(M))
  BY <1>3, GrantTells
<1> QED
  BY <1>2, <1>3, <1>4 DEF Tells

\* Removing no sequence removes nothing from the lists.
LEMMA RemoveNothing ==
  ASSUME NEW L, ListsOK(L), NEW M, M = remove_sequences_from_queues(L, {})
  PROVE  /\ M.q = L.q /\ M.order = L.order /\ M.locks = L.locks /\ M.reg = L.reg
         /\ M.granted = L.granted /\ M.updated \in BOOLEAN
         /\ M.updated \/ ~L.updated
<1>1. PICK S \in SUBSET Sequences : S = {}
  OBVIOUS
<1>2. Gone(S) = {}
  BY <1>1 DEF Gone
<1>3. /\ M.q = {r \in L.q : SequenceOf(r) \notin Gone(S)}
      /\ M.locks = [s \in Sequences |-> IF s \in Gone(S) THEN 0 ELSE L.locks[s]]
      /\ M.reg = L.reg \ S /\ M.granted = L.granted /\ ListsOK(M)
  <2>1. M = remove_sequences_from_queues(L, S)
    BY <1>1, Zenon
  <2> QED
    BY <2>1, RemoveFamilies
<1>4. M.order = L.order /\ (M.updated \/ ~L.updated)
  BY <1>1, RemoveTells DEF Tells
<1>5. M.locks = L.locks
  BY <1>2, <1>3 DEF ListsOK
<1> QED
  BY <1>1, <1>2, <1>3, <1>4, <1>5 DEF ListsOK

AllLive(L) == \A r \in L.q : Alive(r.thread)

\* The positions before i at which there is a request that may be granted.
Found(G, i) == {j \in 0..i - 1 : available(G, Entry(G.q, G.order, j))}

State(G, i) == [i |-> i, avail |-> Found(G, i), removed |-> {}]

\* The loop ends at the end of the queue, with FIFO at the first it finds.
Ends(G, i) == i = Cardinality(G.q) \/ (Arbitration = "FIFO" /\ Found(G, i) # {})

\* One round.
LEMMA LookAhead ==
  ASSUME NEW G, ListsOK(G), OrderOK(G.q, G.order), AllLive(G),
         NEW i \in 0..Cardinality(G.q)
  PROVE  look(G)[State(G, i)] = IF Ends(G, i) THEN State(G, i) ELSE State(G, i + 1)
<1>0. IsFiniteSet(G.q) /\ Cardinality(G.q) \in Nat
  BY FS_CardinalityType DEF ListsOK
<1>1. PICK s : s = State(G, i)
  OBVIOUS
<1>2. s.i = i /\ s.avail = Found(G, i) /\ s.removed = {}
  BY <1>1 DEF State
<1>3. PICK now : now = remove_sequences_from_queues(G, {})
  OBVIOUS
<1>4. now.q = G.q /\ now.order = G.order /\ now.locks = G.locks
  BY <1>3, RemoveNothing
<1>5. PICK r : r = Entry(G.q, G.order, i)
  OBVIOUS
<1>2a. s \in Rounds
  BY <1>1 DEF State, Found, Rounds
<1>6. look(G)[s] =
        IF i >= Cardinality(G.q) \/ (Arbitration = "FIFO" /\ Found(G, i) # {}) THEN s
        ELSE IF ~Alive(r.thread)
        THEN [i |-> i, avail |-> Found(G, i), removed |-> {} \union {SequenceOf(r)}]
        ELSE [i |-> i + 1, removed |-> {},
              avail |-> IF available(now, r) THEN Found(G, i) \union {i} ELSE Found(G, i)]
  BY <1>2a, <1>2, <1>3, <1>4, <1>5 DEF look, Entry
<1>7. CASE Ends(G, i)
  BY <1>0, <1>1, <1>6, <1>7 DEF Ends
<1>8. CASE ~Ends(G, i)
  <2>1. i \in 0..Cardinality(G.q) - 1
    BY <1>0, <1>8 DEF Ends
  <2>2. Alive(r.thread)
    BY <1>0, <1>5, <2>1, EntryFacts DEF AllLive
  <2>3. available(now, r) <=> available(G, r)
    BY <1>4 DEF available
  <2>4. (IF available(now, r) THEN Found(G, i) \union {i} ELSE Found(G, i)) = Found(G, i + 1)
    <3>1. \A j : j \in 0..(i + 1) - 1 <=> j \in 0..i - 1 \/ j = i
      BY <2>1
    <3>2. i \notin Found(G, i)
      BY <2>1 DEF Found
    <3>3. \A j : j \in Found(G, i + 1) <=> j \in Found(G, i) \/ (j = i /\ available(G, r))
      BY <1>5, <3>1 DEF Found
    <3> QED
      BY <2>3, <3>3
  <2>5. ~(i >= Cardinality(G.q) \/ (Arbitration = "FIFO" /\ Found(G, i) # {}))
    BY <1>0, <1>8, <2>1 DEF Ends
  <2>6. look(G)[s] =
          [i |-> i + 1, removed |-> {},
           avail |-> IF available(now, r) THEN Found(G, i) \union {i} ELSE Found(G, i)]
    BY <1>6, <2>2, <2>5, Zenon
  <2>7. look(G)[s] = [i |-> i + 1, removed |-> {}, avail |-> Found(G, i + 1)]
    BY <2>4, <2>6, Zenon
  <2> QED
    BY <1>1, <1>8, <2>7 DEF State
<1> QED
  BY <1>7, <1>8

\* The loop ends with all that it may find: it goes on by one position each
\* round, and makes as many rounds as there are entries.
LEMMA ScanFinds ==
  ASSUME NEW G, ListsOK(G), OrderOK(G.q, G.order), AllLive(G)
  PROVE  \E i \in 0..Cardinality(G.q) : Ends(G, i) /\ scan(G) = State(G, i)
<1> DEFINE N == Cardinality(G.q)
           P == [i |-> 0, avail |-> {}, removed |-> {}]
           S == {State(G, i) : i \in 0..N}
           after == CHOOSE c : c = [k \in 0..N |-> IF k = 0 THEN P ELSE look(G)[c[k - 1]]]
<1>1. N \in Nat
  BY FS_CardinalityType DEF ListsOK
<1>2. P = State(G, 0) /\ P \in S
  <2>1. Found(G, 0) = {}
    BY DEF Found
  <2>2. P = State(G, 0)
    BY <2>1 DEF State
  <2> QED
    BY <1>1, <2>2
<1>3. \A i \in 0..N : look(G)[State(G, i)] = IF Ends(G, i) THEN State(G, i) ELSE State(G, i + 1)
  BY LookAhead
<1>4. \A i \in 0..N : ~Ends(G, i) => i + 1 \in 0..N
  BY <1>1 DEF Ends
<1>5. \A X \in S : look(G)[X] \in S
  BY <1>3, <1>4
<1>6. scan(G) = after[N]
  BY DEF scan
<1> HIDE DEF P, N
<1>7. PICK f \in [S -> S] : \A X \in S : f[X] = look(G)[X]
  <2>1. [X \in S |-> look(G)[X]] \in [S -> S]
    BY <1>5
  <2> QED
    BY <2>1
<1> HIDE DEF S
<1>8. after = [k \in 0..N |-> IF k = 0 THEN P ELSE look(G)[after[k - 1]]]
  <2>1. PICK g \in [0..N -> S] : g[0] = P /\ \A k \in 1..N : g[k] = f[g[k - 1]]
    <3> HIDE DEF after
    <3>1. HasRun(S, f, P, N)
      BY <1>1, <1>2, Iterates
    <3> QED
      BY <3>1 DEF HasRun
  <2>2. ASSUME NEW k \in 0..N PROVE g[k] = IF k = 0 THEN P ELSE look(G)[g[k - 1]]
    <3>1. CASE k = 0
      BY <2>1, <3>1
    <3>2. CASE k # 0
      <4>1. k \in 1..N /\ g[k - 1] \in S
        BY <1>1, <2>1, <3>2
      <4> QED
        BY <1>7, <2>1, <3>2, <4>1
    <3> QED
      BY <3>1, <3>2
  <2>3. g = [k \in 0..N |-> IF k = 0 THEN P ELSE look(G)[g[k - 1]]]
    <3>1. g = [k \in 0..N |-> g[k]]
      OBVIOUS
    <3> QED
      BY <2>2, <3>1
  <2> QED
    BY <2>3
<1> HIDE DEF after
<1> DEFINE Reached(k, i) == /\ i \in 0..N /\ after[k] = State(G, i)
                            /\ i = k \/ Ends(G, i)
           T == {k \in Nat : k <= N => \E i \in 0..N : Reached(k, i)}
<1>9. 0 \in T
  <2>1. after[0] = State(G, 0)
    BY <1>1, <1>2, <1>8
  <2>2. Reached(0, 0) /\ 0 \in 0..N
    BY <1>1, <2>1
  <2> QED
    BY <2>2
<1>10. ASSUME NEW k \in T PROVE k + 1 \in T
  <2> SUFFICES ASSUME k + 1 <= N PROVE \E i \in 0..N : Reached(k + 1, i)
    OBVIOUS
  <2>1. PICK i \in 0..N : Reached(k, i)
    BY <1>1
  <2>2. after[k + 1] = look(G)[State(G, i)]
    <3>1. k + 1 \in 0..N /\ k + 1 # 0 /\ (k + 1) - 1 = k
      BY <1>1
    <3>2. after[k] = State(G, i)
      BY <2>1
    <3> QED
      BY <1>8, <3>1, <3>2
  <2>3. look(G)[State(G, i)] = IF Ends(G, i) THEN State(G, i) ELSE State(G, i + 1)
    BY <1>3 DEF N
  <2>4. CASE Ends(G, i)
    <3>1. Reached(k + 1, i)
      BY <2>2, <2>3, <2>4
    <3> QED
      BY <3>1
  <2>5. CASE ~Ends(G, i)
    <3>1. i + 1 \in 0..N /\ i = k
      BY <1>4, <2>1, <2>5 DEF N
    <3>2. Reached(k + 1, i + 1)
      BY <2>2, <2>3, <2>5, <3>1
    <3> QED
      BY <3>1, <3>2
  <2> QED
    BY <2>4, <2>5
<1> HIDE DEF T
<1>11. N \in T
  <2>1. T \in SUBSET Nat
    BY DEF T
  <2>2. T = Nat
    BY <1>9, <1>10, <2>1, NatInductionOnSets
  <2> QED
    BY <1>1, <2>2
<1>12. PICK i \in 0..N : Reached(N, i)
  BY <1>1, <1>11 DEF T
<1>13. Ends(G, i)
  BY <1>12 DEF Ends, N
<1> QED
  BY <1>6, <1>12, <1>13 DEF N

-----------------------------------------------------------------------------
(* What the mode makes of the positions. *)

EntryPriority(G, i) == Priority[SequenceOf(Entry(G.q, G.order, i))]

\* One of the positions is chosen if there is one, with STRICT_FIFO the first of
\* the highest priority.
LEMMA SelectableFacts ==
  ASSUME NEW G, ListsOK(G), OrderOK(G.q, G.order),
         NEW A \in SUBSET (0..Cardinality(G.q) - 1),
         \A j \in A : available(G, Entry(G.q, G.order, j))
  PROVE  /\ selectable(G, A) \subseteq A
         /\ A # {} => selectable(G, A) # {}
         /\ Arbitration = "STRICT_FIFO" =>
              \A i \in selectable(G, A), j \in A :
                \/ EntryPriority(G, j) < EntryPriority(G, i)
                \/ EntryPriority(G, j) = EntryPriority(G, i) /\ i <= j
<1> DEFINE prio(i) == EntryPriority(G, i)
           highest == {i \in A : \A j \in A : prio(j) <= prio(i)}
           first == {i \in highest : \A j \in highest : i <= j}
<1>0. Cardinality(G.q) \in Nat /\ IsFiniteSet(G.q)
  BY FS_CardinalityType DEF ListsOK
<1>1. A \subseteq Nat /\ A \subseteq Int /\ IsFiniteSet(A)
  <2>1. IsFiniteSet(0..Cardinality(G.q) - 1)
    BY <1>0, FS_Interval
  <2>2. IsFiniteSet(A)
    BY <2>1, FS_Subset, Zenon
  <2> QED
    BY <1>0, <2>2
<1>2. \A i \in A : prio(i) \in Nat
  <2> TAKE i \in A
  <2>1. Entry(G.q, G.order, i) \in Request
    BY <1>0, EntryFacts DEF ListsOK
  <2> QED
    BY <2>1, SequenceOfType, SequencerAssumption DEF EntryPriority
<1>3. A # {} => highest # {}
  <2> SUFFICES ASSUME A # {} PROVE highest # {}
    OBVIOUS
  <2> DEFINE f == [i \in A |-> prio(i)]
  <2>1. f \in [A -> Nat]
    BY <1>2
  <2>2. A \in SUBSET (0..Cardinality(G.q))
    BY <1>0
  <2> HIDE DEF prio
  <2>3. \A i \in A : f[i] = prio(i)
    OBVIOUS
  <2> HIDE DEF f
  <2>4. PICK x \in A : \A y \in A : f[y] <= f[x]
    BY <1>0, <2>1, <2>2, GreatestValue
  <2> QED
    BY <2>3, <2>4
<1>4. A # {} => first # {}
  <2> SUFFICES ASSUME A # {} PROVE first # {}
    OBVIOUS
  <2> HIDE DEF highest
  <2>1. highest \in SUBSET Nat
    BY <1>1 DEF highest
  <2>2. PICK x \in highest : \A y \in highest : x <= y
    BY <1>3, <2>1, LeastNatural
  <2> QED
    BY <2>2
<1>5. selectable(G, A) =
        IF Cardinality(A) <= 1 THEN A
        ELSE CASE Arbitration = "STRICT_FIFO"   -> first
               [] Arbitration = "STRICT_RANDOM" -> highest
               [] OTHER                         -> A
  <2> DEFINE open == {i \in A : ~blocks(G.locks, SequenceOf(Entry(G.q, G.order, i)))}
             top(S) == {i \in S : \A j \in S : prio(j) <= prio(i)}
             least(S) == {i \in S : \A j \in S : i <= j}
  <2>1. open = A
    BY DEF available
  <2>2. selectable(G, A) =
          IF Cardinality(A) <= 1 THEN A
          ELSE CASE Arbitration = "STRICT_FIFO"   -> least(top(open))
                 [] Arbitration = "STRICT_RANDOM" -> top(open)
                 [] OTHER                         -> open
    BY DEF selectable, Entry, EntryPriority
  <2>3. top(A) = highest /\ least(highest) = first
    OBVIOUS
  <2> HIDE DEF open, top, least, highest, first
  <2> QED
    BY <2>1, <2>2, <2>3
<1>6. CASE Cardinality(A) <= 1
  <2>1. selectable(G, A) = A
    BY <1>5, <1>6
  <2>2. \A i, j \in A : i = j
    <3> SUFFICES ASSUME NEW i \in A, NEW j \in A, i # j PROVE FALSE
      OBVIOUS
    <3>1. IsFiniteSet(A \ {i}) /\ Cardinality(A \ {i}) = Cardinality(A) - 1
      BY <1>1, FS_RemoveElement
    <3>2. Cardinality(A \ {i}) # 0
      BY <3>1, FS_EmptySet
    <3>3. Cardinality(A \ {i}) \in Nat /\ Cardinality(A) \in Nat
      BY <1>1, <3>1, FS_CardinalityType
    <3> QED
      BY <1>6, <3>1, <3>2, <3>3
  <2>3. \A i \in selectable(G, A), j \in A : prio(j) = prio(i) /\ i <= j
    <3> SUFFICES ASSUME NEW i \in A, NEW j \in A PROVE prio(j) = prio(i) /\ i <= j
      BY <2>1
    <3>1. i = j /\ i \in Int
      BY <1>1, <2>2
    <3> QED
      BY <3>1
  <2> QED
    BY <2>1, <2>3
<1>7. CASE ~(Cardinality(A) <= 1)
  <2>1. selectable(G, A) \in {first, highest, A}
    BY <1>5, <1>7
  <2>2. Arbitration = "STRICT_FIFO" => selectable(G, A) = first
    BY <1>5, <1>7
  <2>3. \A i \in first, j \in A :
           \/ prio(j) < prio(i)
           \/ prio(j) = prio(i) /\ i <= j
    <3> SUFFICES ASSUME NEW i \in first, NEW j \in A, ~(prio(j) < prio(i))
                 PROVE  prio(j) = prio(i) /\ i <= j
      OBVIOUS
    <3>1. prio(j) = prio(i)
      BY <1>2
    <3>2. \A k \in A : prio(k) <= prio(j)
      BY <3>1
    <3> QED
      BY <3>1, <3>2
  <2> QED
    BY <1>3, <1>4, <2>1, <2>2, <2>3
<1> QED
  BY <1>6, <1>7

-----------------------------------------------------------------------------
(* What is chosen. *)

Chosen(L, choice) ==
  /\ ~choice.overrun
  /\ \A r \in choice.picks : r \in L.q /\ available(L, r)
  /\ choice.picks = {} => \A r \in L.q : ~available(L, r)
  /\ Arbitration = "STRICT_FIFO" =>
       \A r \in choice.picks, p \in L.q : available(L, p) =>
         \/ p = r
         \/ Priority[SequenceOf(p)] < Priority[SequenceOf(r)]
         \/ /\ Priority[SequenceOf(p)] = Priority[SequenceOf(r)]
            /\ <<r, p>> \in L.order

\* While nobody in the queue is dead the arbitration removes nothing, and what it
\* picks is a request that it may choose.
LEMMA ArbitrateFacts ==
  ASSUME NEW G, ListsOK(G), OrderOK(G.q, G.order), AllLive(G),
         NEW choice, choice = arbitrate(G, scan(G))
  PROVE  Chosen(G, choice) /\ Tells(G, choice.lists)
         /\ choice.lists.q = G.q /\ choice.lists.locks = G.locks
<1>1. PICK i \in 0..Cardinality(G.q) : Ends(G, i) /\ scan(G) = State(G, i)
  BY ScanFinds
<1>2. scan(G).removed = {} /\ scan(G).avail = Found(G, i)
  BY <1>1 DEF State
<1>3. PICK left : left = remove_sequences_from_queues(G, {})
  OBVIOUS
<1>4. left.q = G.q /\ left.order = G.order /\ left.locks = G.locks /\ Tells(G, left)
  BY <1>3, RemoveNothing, RemoveTells
<1>5. Cardinality(G.q) \in Nat /\ IsFiniteSet(G.q)
  BY FS_CardinalityType DEF ListsOK
<1> DEFINE A == Found(G, i)
           Position(r) == PositionIn(G.q, G.order, r)
<1>6. /\ A \in SUBSET (0..Cardinality(G.q) - 1)
      /\ \A j \in A : available(G, Entry(G.q, G.order, j))
  BY <1>5 DEF Found
<1>7. {j \in A : j < Cardinality(left.q)} = A
  BY <1>4, <1>5, <1>6
<1>8. selectable(left, A) = selectable(G, A)
  BY <1>4 DEF selectable
<1>9. /\ choice.lists = left /\ choice.overrun = FALSE
      /\ choice.picks = {r \in G.q : Position(r) \in selectable(G, A)}
  BY <1>2, <1>3, <1>4, <1>7, <1>8 DEF arbitrate
<1>10. ASSUME NEW r \in G.q PROVE Entry(G.q, G.order, Position(r)) = r
  BY <1>5, EntryAt
<1>11. /\ selectable(G, A) \subseteq A
       /\ A # {} => selectable(G, A) # {}
  BY <1>6, SelectableFacts
<1>12. ASSUME NEW r \in choice.picks PROVE r \in G.q /\ available(G, r)
  BY <1>6, <1>9, <1>10, <1>11
<1>13. ASSUME NEW r \in G.q, available(G, r) PROVE A # {} /\ (Arbitration # "FIFO" => Position(r) \in A)
  <2>1. Position(r) \in 0..Cardinality(G.q) - 1
    BY <1>5, PositionType
  <2>2. CASE i = Cardinality(G.q)
    <3>1. Position(r) \in A
      BY <1>10, <1>13, <2>1, <2>2 DEF Found
    <3> QED
      BY <3>1
  <2>3. CASE i # Cardinality(G.q)
    BY <1>1, <2>3 DEF Ends
  <2> QED
    BY <2>2, <2>3
<1>14. ASSUME choice.picks = {}, NEW r \in G.q, available(G, r) PROVE FALSE
  <2>1. PICK j \in selectable(G, A) : j \in A
    BY <1>11, <1>13, <1>14
  <2>2. j \in 0..Cardinality(G.q) - 1
    BY <1>6, <2>1
  <2>3. Entry(G.q, G.order, j) \in G.q /\ Position(Entry(G.q, G.order, j)) = j
    BY <1>5, <2>2, EntryFacts
  <2> QED
    BY <1>9, <1>14, <2>1, <2>3
<1>15. ASSUME Arbitration = "STRICT_FIFO", NEW r \in choice.picks,
              NEW p \in G.q, available(G, p), p # r
       PROVE  \/ Priority[SequenceOf(p)] < Priority[SequenceOf(r)]
              \/ /\ Priority[SequenceOf(p)] = Priority[SequenceOf(r)]
                 /\ <<r, p>> \in G.order
  <2>1. Position(r) \in selectable(G, A) /\ Position(p) \in A /\ r \in G.q
    BY <1>9, <1>13, <1>15
  <2>2. \/ EntryPriority(G, Position(p)) < EntryPriority(G, Position(r))
        \/ /\ EntryPriority(G, Position(p)) = EntryPriority(G, Position(r))
           /\ Position(r) <= Position(p)
    BY <1>6, <1>15, <2>1, SelectableFacts
  <2>3. /\ EntryPriority(G, Position(p)) = Priority[SequenceOf(p)]
        /\ EntryPriority(G, Position(r)) = Priority[SequenceOf(r)]
    BY <1>10, <2>1 DEF EntryPriority
  <2>4. ASSUME Position(r) <= Position(p) PROVE <<r, p>> \in G.order
    <3>1. Position(r) \in Int /\ Position(p) \in Int
      BY <1>5, <2>1, PositionType
    <3>2. Position(r) # Position(p)
      BY <1>5, <1>15, <2>1, PositionUnique
    <3>3. Position(r) < Position(p)
      BY <2>4, <3>1, <3>2
    <3> QED
      BY <1>5, <2>1, <3>3, PositionUnique
  <2> QED
    BY <2>2, <2>3, <2>4
<1> HIDE DEF A, Position
<1>16. Chosen(G, choice)
  BY <1>9, <1>12, <1>14, <1>15 DEF Chosen
<1> QED
  BY <1>4, <1>9, <1>16

\* The same for the arbitration with the grants of locks before it.
LEMMA ChooseFacts ==
  ASSUME NEW L, ListsOK(L), OrderOK(L.q, L.order), AllLive(L),
         NEW choice \in m_choose_next_request(L)
  PROVE  Chosen(choice.lists, choice) /\ Tells(L, choice.lists)
<1> DEFINE G == grant_queued_locks(L)
<1>1. choice = arbitrate(G, scan(G))
  BY DEF m_choose_next_request
<1>2. ListsOK(G) /\ G.q \subseteq L.q /\ Tells(L, G)
  BY QueuedLocksShrinks, QueuedLocksTell DEF Shrunk
<1> HIDE DEF G
<1>3. G.order = L.order
  BY <1>2 DEF Tells
<1>4. OrderOK(G.q, G.order) /\ AllLive(G)
  BY <1>2, <1>3 DEF OrderOK, AllLive
<1>5. /\ Chosen(G, choice) /\ Tells(G, choice.lists)
      /\ choice.lists.q = G.q /\ choice.lists.locks = G.locks
  BY <1>1, <1>2, <1>4, ArbitrateFacts
<1>6. choice.lists.order = G.order
  BY <1>5 DEF Tells
<1>7. \A r : available(choice.lists, r) <=> available(G, r)
  BY <1>5 DEF available
<1>8. Chosen(choice.lists, choice)
  BY <1>5, <1>6, <1>7 DEF Chosen
<1>9. Tells(L, choice.lists)
  BY <1>2, <1>5 DEF Tells
<1> QED
  BY <1>8, <1>9

\* What the arbitration removes because of dead threads it tells about as well.
LEMMA ChooseTells ==
  ASSUME NEW L, ListsOK(L), NEW choice \in m_choose_next_request(L)
  PROVE  Tells(L, choice.lists)
<1> DEFINE G == grant_queued_locks(L)
           dead == {SequenceOf(r) : r \in {z \in G.q : ~Alive(z.thread)}}
           S == scan(G).removed \intersect dead
           left == remove_sequences_from_queues(G, S)
<1>1. choice.lists = left
  BY DEF m_choose_next_request, arbitrate
<1>2. ListsOK(G) /\ Tells(L, G)
  BY QueuedLocksShrinks, QueuedLocksTell DEF Shrunk
<1>3. S \in SUBSET Sequences
  BY <1>2, SequenceOfType DEF ListsOK
<1> HIDE DEF G, S
<1>4. Tells(G, left)
  BY <1>2, <1>3, RemoveTells
<1> QED
  BY <1>1, <1>2, <1>4 DEF Tells

-----------------------------------------------------------------------------
(* The invariant. *)

\* While the driver sleeps and nobody has told it, it waits for the relevance of
\* every sequence that has a request and is not blocked.
SleepOK ==
  driver.at = "wait_for_available" /\ ~arb_changed =>
    \A r \in arb_sequence_q :
      r.request = "SEQ_TYPE_REQ" /\ ~blocks(lock_list, SequenceOf(r))
        => SequenceOf(r) \in waits_relevant

ArbitrationInv ==
  /\ OrderOK(arb_sequence_q, before)
  /\ "kill_thread" \notin Interference => SleepOK

\* A step does not send the driver to sleep, nor change what it sleeps on.
StaysAwake ==
  driver'.at = "wait_for_available" =>
    driver.at = "wait_for_available" /\ UNCHANGED waits_relevant

\* A part of a queue is ordered as the whole.
LEMMA SubOrder ==
  ASSUME NEW Q, NEW order, OrderOK(Q, order), NEW R \in SUBSET Q
  PROVE  OrderOK(R, order) /\ OrderOK(R, order \intersect (R \X R))
BY DEF OrderOK

\* A commit leaves an ordered queue.
LEMMA CommitOrder ==
  ASSUME NEW M, OrderOK(M.q, M.order), CommitLists(M)
  PROVE  OrderOK(arb_sequence_q', before')
<1>1. arb_sequence_q' = M.q /\ before' = M.order \intersect (M.q \X M.q)
  BY DEF CommitLists
<1> QED
  BY <1>1, SubOrder

\* A step that leaves the queue and the locks alone.
LEMMA SameQueue ==
  ASSUME ArbitrationInv, StaysAwake,
         UNCHANGED <<arb_sequence_q, before, lock_list, arb_changed>>,
         arb_completed' \subseteq arb_completed
  PROVE  ArbitrationInv' /\ NewlyGranted = {}
<1>1. ASSUME SleepOK PROVE SleepOK'
  BY <1>1 DEF SleepOK, StaysAwake, blocks, SequenceOf
<1>2. NewlyGranted = {}
  BY DEF NewlyGranted
<1> QED
  BY <1>1, <1>2 DEF ArbitrationInv

\* A step that commits what the functions have made of a list L: it has more
\* item requests than the queue, or other locks, only if the driver is told.
LEMMA CommitQueue ==
  ASSUME ArbitrationInv, StaysAwake, NEW L, OrderOK(L.q, L.order),
         \/ L.updated
         \/ /\ \A r \in L.q : r.request = "SEQ_TYPE_REQ" => r \in arb_sequence_q
            /\ L.locks = lock_list,
         NEW M, Tells(L, M), M.q \subseteq L.q,
         CommitLists(M), arb_changed' = (arb_changed \/ M.updated)
  PROVE  ArbitrationInv'
<1>1. OrderOK(M.q, M.order)
  BY SubOrder DEF Tells
<1>2. OrderOK(arb_sequence_q', before')
  BY <1>1, CommitOrder
<1>3. arb_sequence_q' = M.q /\ lock_list' = M.locks
  BY DEF CommitLists
<1>4. ASSUME SleepOK PROVE SleepOK'
  <2> SUFFICES ASSUME driver'.at = "wait_for_available", ~arb_changed',
                      NEW r \in arb_sequence_q', r.request = "SEQ_TYPE_REQ",
                      ~blocks(lock_list', SequenceOf(r))
               PROVE  SequenceOf(r) \in waits_relevant'
    BY DEF SleepOK, SequenceOf
  <2>1. ~M.updated /\ ~arb_changed
    OBVIOUS
  <2>2. ~L.updated /\ M.q = L.q /\ M.locks = L.locks
    BY <2>1 DEF Tells
  <2>3. r \in arb_sequence_q /\ lock_list' = lock_list
    BY <1>3, <2>2
  <2>4. driver.at = "wait_for_available" /\ waits_relevant' = waits_relevant
    BY DEF StaysAwake
  <2> QED
    BY <1>4, <2>1, <2>3, <2>4 DEF SleepOK
<1> QED
  BY <1>2, <1>4 DEF ArbitrationInv

\* The lists of a state.
LEMMA StateFacts ==
  ASSUME HandshakeInv, ArbitrationInv
  PROVE  /\ ListsOK(Lists) /\ Lists.granted = {} /\ Lists.q = arb_sequence_q
         /\ Lists.order = before /\ Lists.locks = lock_list /\ Lists.updated = FALSE
         /\ OrderOK(Lists.q, Lists.order)
         /\ before \in SUBSET (arb_sequence_q \X arb_sequence_q)
<1>1. /\ ListsOK(Lists) /\ Lists.granted = {} /\ Lists.q = arb_sequence_q
      /\ Lists.locks = lock_list
  BY ListsFacts
<1>2. Lists.order = before /\ Lists.updated = FALSE
  BY DEF Lists, ListsOf
<1> QED
  BY <1>1, <1>2 DEF ArbitrationInv, HandshakeInv, TypeOK

\* While no thread is killed alone, the threads of queued requests live.
LEMMA QueuedLive ==
  ASSUME HandshakeInv, "kill_thread" \notin Interference
  PROVE  NobodyDead
<1>1. ListsOK(Lists) /\ Lists.q = arb_sequence_q /\ \A r \in Lists.q : SequenceOf(r) \in running
  BY ListsFacts DEF QueueFor
<1> QED
  BY <1>1, AllAlive DEF NobodyDead

\* Only locks are granted on the way: nobody who waits for an item.
LEMMA OnlyLocks ==
  ASSUME HandshakeInv, NEW R,
         \A g \in R : g \in arb_sequence_q /\ g.request = "SEQ_TYPE_LOCK",
         arb_completed' \subseteq arb_completed \union Awaiting(R)
  PROVE  NewlyGranted = {}
<1>1. ASSUME NEW t \in Awaiting(R) PROVE pc[t] = "wait_for_lock"
  <2>1. PICK g \in R : g.thread = t /\ g.awaited /\ Alive(t)
    BY DEF Awaiting
  <2>2. g \in arb_sequence_q /\ g.request = "SEQ_TYPE_LOCK"
    BY <2>1
  <2> QED
    BY <2>1, <2>2 DEF HandshakeInv, QueueOK
<1> QED
  BY <1>1 DEF NewlyGranted

\* What the functions that shrink the list of the state grant is queued there.
LEMMA GrantedAreLocks ==
  ASSUME NEW L, L.granted = {}, NEW M, Shrunk(L, M)
  PROVE  \A g \in M.granted : g \in L.q /\ g.request = "SEQ_TYPE_LOCK"
BY DEF Shrunk

\* A request that joins the queue at its end or at its front.
LEMMA PushOrder ==
  ASSUME NEW Q, NEW order \in SUBSET (Q \X Q), OrderOK(Q, order), NEW r, r \notin Q
  PROVE  /\ OrderOK(Q \union {r}, order \union (Q \X {r}))
         /\ order \union (Q \X {r}) \in SUBSET ((Q \union {r}) \X (Q \union {r}))
         /\ OrderOK(Q \union {r}, order \union ({r} \X Q))
<1>1. \A p, q : <<p, q>> \in order => p \in Q /\ q \in Q /\ p # r /\ q # r
  OBVIOUS
<1>2. OrderOK(Q \union {r}, order \union (Q \X {r}))
  <2> DEFINE O == order \union (Q \X {r})
  <2>1. \A p, q : <<p, q>> \in O <=> <<p, q>> \in order \/ (p \in Q /\ q = r)
    OBVIOUS
  <2> HIDE DEF O
  <2> QED
    BY <1>1, <2>1 DEF OrderOK, O
<1>3. OrderOK(Q \union {r}, order \union ({r} \X Q))
  <2> DEFINE O == order \union ({r} \X Q)
  <2>1. \A p, q : <<p, q>> \in O <=> <<p, q>> \in order \/ (p = r /\ q \in Q)
    OBVIOUS
  <2> HIDE DEF O
  <2> QED
    BY <1>1, <2>1 DEF OrderOK, O
<1> QED
  BY <1>2, <1>3

-----------------------------------------------------------------------------
(* What a step does: it keeps the invariant, and grants no item unless it is *)
(* an arbitration.                                                           *)

Quiet ==
  /\ NewlyGranted = {}
  /\ fatal' = "null request" => fatal = "null request"

KeepsQuiet == ArbitrationInv' /\ Quiet

\* A list that has been told about may be committed as it is.
LEMMA CommitTold ==
  ASSUME ArbitrationInv, StaysAwake, NEW M, M.updated, OrderOK(M.q, M.order),
         CommitLists(M), arb_changed' = (arb_changed \/ M.updated)
  PROVE  ArbitrationInv'
<1>1. Tells(M, M)
  BY DEF Tells
<1> QED
  BY <1>1, CommitQueue

\* Steps that leave the driver where it is.
LEMMA DriverStays ==
  ASSUME UNCHANGED driver_vars
  PROVE  StaysAwake
BY DEF StaysAwake, driver_vars

\* wait_for_grant, with or without a lock request ahead of the item request.
LEMMA RequestArbitration ==
  ASSUME HandshakeInv, ArbitrationInv,
         NEW t \in Threads, NEW lock_request \in BOOLEAN,
         wait_for_grant(t, lock_request)
  PROVE  KeepsQuiet
<1> DEFINE K == IF lock_request THEN push_back(Lists, LockAhead(t)) ELSE Lists
           M == m_update_lists(push_back(K, ItemRequest(t)))
<1>1. /\ Commit(M, {}) /\ pc[t] = "body" /\ UNCHANGED <<driver_vars, fatal>>
      /\ lock_request => LockAhead(t) \notin arb_sequence_q
  BY DEF wait_for_grant, InTestbench, At
<1>2. /\ Lists.q = arb_sequence_q /\ Lists.order = before /\ Lists.granted = {}
      /\ OrderOK(Lists.q, Lists.order) /\ before \in SUBSET (arb_sequence_q \X arb_sequence_q)
  BY StateFacts
<1>3. /\ OrderOK(K.q, K.order) /\ K.order \in SUBSET (K.q \X K.q) /\ K.granted = {}
      /\ ItemRequest(t) \notin K.q
  <2>1. ItemRequest(t) \notin arb_sequence_q /\ ItemRequest(t) # LockAhead(t)
    BY <1>1 DEF HandshakeInv, QueueOK, Alive, ItemRequest, LockAhead
  <2>2. CASE ~lock_request
    BY <1>2, <2>1, <2>2
  <2>3. CASE lock_request
    <3>1. /\ K.q = arb_sequence_q \union {LockAhead(t)}
          /\ K.order = before \union (arb_sequence_q \X {LockAhead(t)})
          /\ K.granted = {}
      BY <1>2, <2>3 DEF push_back, ListsOf
    <3>2. LockAhead(t) \notin arb_sequence_q /\ OrderOK(arb_sequence_q, before)
      BY <1>1, <1>2, <2>3
    <3>3. /\ OrderOK(arb_sequence_q \union {LockAhead(t)},
                     before \union (arb_sequence_q \X {LockAhead(t)}))
          /\ before \union (arb_sequence_q \X {LockAhead(t)})
               \in SUBSET ((arb_sequence_q \union {LockAhead(t)})
                            \X (arb_sequence_q \union {LockAhead(t)}))
      BY <1>2, <3>2, PushOrder
    <3> QED
      BY <2>1, <3>1, <3>3
  <2> QED
    BY <2>2, <2>3
<1> HIDE DEF K
<1>4. /\ M.q = K.q \union {ItemRequest(t)}
      /\ M.order = K.order \union (K.q \X {ItemRequest(t)})
      /\ M.granted = {} /\ M.updated = TRUE
  BY <1>3 DEF push_back, m_update_lists, ListsOf
<1> HIDE DEF M
<1>5. OrderOK(M.q, M.order)
  <2>1. PICK Q, O, r : Q = K.q /\ O = K.order /\ r = ItemRequest(t)
    OBVIOUS
  <2>2. OrderOK(Q \union {r}, O \union (Q \X {r}))
    BY <1>3, <2>1, PushOrder
  <2> QED
    BY <1>4, <2>1, <2>2
<1>6. ArbitrationInv'
  BY <1>1, <1>4, <1>5, CommitTold, DriverStays DEF Commit
<1>7. arb_completed' \subseteq arb_completed \union Awaiting({})
  <2>1. M.granted \union {} = {}
    BY <1>4
  <2> QED
    BY <1>1, <2>1 DEF Commit
<1>8. NewlyGranted = {}
  BY <1>7, OnlyLocks
<1> QED
  BY <1>1, <1>6, <1>8 DEF KeepsQuiet, Quiet

\* lock and grab: a lock request joins the queue, the leading ones are granted.
LEMMA LockArbitration ==
  ASSUME HandshakeInv, ArbitrationInv,
         NEW t \in Threads, NEW L, m_lock_req(t, L),
         \/ L = push_back(Lists, LockRequest(t))
         \/ L = m_update_lists(push_front(Lists, LockRequest(t)))
  PROVE  KeepsQuiet
<1> DEFINE mine == LockRequest(t)
           G == grant_queued_locks(L)
<1>1. /\ CommitLists(G)
      /\ arb_completed' = arb_completed \union Awaiting(G.granted \ {mine})
      /\ arb_changed' = (arb_changed \/ G.updated)
      /\ pc[t] = "body" /\ UNCHANGED <<driver_vars, fatal>>
  BY DEF m_lock_req, InTestbench, At
<1>2. /\ Lists.q = arb_sequence_q /\ Lists.order = before /\ Lists.granted = {}
      /\ Lists.locks = lock_list /\ Lists.updated = FALSE /\ ListsOK(Lists)
      /\ OrderOK(Lists.q, Lists.order) /\ before \in SUBSET (arb_sequence_q \X arb_sequence_q)
  BY StateFacts
<1>3. /\ mine \in Request /\ mine.thread = t /\ mine.request = "SEQ_TYPE_LOCK"
      /\ mine.awaited = TRUE
  BY RequestType DEF LockRequest
<1> HIDE DEF mine
<1>4. mine \notin arb_sequence_q
  BY <1>1, <1>3 DEF HandshakeInv, QueueOK, Alive
<1>5. /\ L.q = arb_sequence_q \union {mine} /\ L.locks = lock_list /\ L.granted = {}
      /\ L.reg = Lists.reg /\ L.updated \in BOOLEAN
      /\ OrderOK(L.q, L.order)
  <2>1. CASE L = push_back(Lists, mine)
    <3>1. /\ L.q = arb_sequence_q \union {mine} /\ L.locks = lock_list /\ L.granted = {}
          /\ L.reg = Lists.reg /\ L.updated \in BOOLEAN
          /\ L.order = before \union (arb_sequence_q \X {mine})
      BY <1>2, <2>1 DEF push_back, ListsOf
    <3>2. OrderOK(arb_sequence_q \union {mine}, before \union (arb_sequence_q \X {mine}))
      BY <1>2, <1>4, PushOrder
    <3> QED
      BY <3>1, <3>2
  <2>2. CASE L = m_update_lists(push_front(Lists, mine))
    <3>1. /\ L.q = arb_sequence_q \union {mine} /\ L.locks = lock_list /\ L.granted = {}
          /\ L.reg = Lists.reg /\ L.updated \in BOOLEAN
          /\ L.order = before \union ({mine} \X arb_sequence_q)
      BY <1>2, <2>2 DEF push_front, m_update_lists, ListsOf
    <3>2. OrderOK(arb_sequence_q \union {mine}, before \union ({mine} \X arb_sequence_q))
      BY <1>2, <1>4, PushOrder
    <3> QED
      BY <3>1, <3>2
  <2> QED
    BY <2>1, <2>2 DEF mine
<1>6. ListsOK(L)
  <2>1. IsFiniteSet(arb_sequence_q \union {mine})
    BY <1>2, FS_AddElement DEF ListsOK
  <2> QED
    BY <1>2, <1>3, <1>5, <2>1 DEF ListsOK
<1>7. Shrunk(L, G) /\ Tells(L, G)
  BY <1>6, QueuedLocksShrinks, QueuedLocksTell
<1> HIDE DEF G
<1>8. G.q \subseteq L.q /\ \A g \in G.granted : g \in L.q /\ g.request = "SEQ_TYPE_LOCK"
  BY <1>5, <1>7 DEF Shrunk
<1>9. \A r \in L.q : r.request = "SEQ_TYPE_REQ" => r \in arb_sequence_q
  BY <1>3, <1>5
<1>10. ArbitrationInv'
  BY <1>1, <1>5, <1>7, <1>8, <1>9, CommitQueue, DriverStays
<1>11. NewlyGranted = {}
  <2>1. \A g \in G.granted \ {mine} : g \in arb_sequence_q /\ g.request = "SEQ_TYPE_LOCK"
    BY <1>5, <1>8
  <2> QED
    BY <1>1, <2>1, OnlyLocks
<1> QED
  BY <1>1, <1>10, <1>11 DEF KeepsQuiet, Quiet

\* unlock: a lock less, and the lock requests that it blocked are granted.
LEMMA UnlockArbitration ==
  ASSUME HandshakeInv, ArbitrationInv,
         NEW t \in Threads, unlock(t)
  PROVE  KeepsQuiet
<1> DEFINE left == [lock_list EXCEPT ![Owner[t]] = @ - 1]
           L == ListsOf(arb_sequence_q, before, left, reg_sequences, {}, FALSE)
           G == grant_queued_locks(L)
           M == m_update_lists(G)
<1>1. /\ Commit(M, {}) /\ UNCHANGED <<driver_vars, fatal>> /\ lock_list[Owner[t]] > 0
  BY DEF unlock
<1>2. left \in [Sequences -> Nat]
  <2>1. Owner[t] \in Sequences /\ lock_list \in [Sequences -> Nat]
    BY SequencerAssumption DEF HandshakeInv, TypeOK
  <2>2. lock_list[Owner[t]] - 1 \in Nat
    BY <1>1, <2>1
  <2>3. left = [s \in Sequences |-> IF s = Owner[t] THEN lock_list[s] - 1
                                    ELSE lock_list[s]]
    BY <2>1
  <2> QED
    BY <2>1, <2>2, <2>3
<1>3. /\ ListsOK(L) /\ L.q = arb_sequence_q /\ L.order = before /\ L.granted = {}
  <2> HIDE DEF left
  <2> QED
    BY <1>2, ListsFacts DEF ListsOf, ListsOK, Lists
<1> HIDE DEF L
<1>4. Shrunk(L, G) /\ Tells(L, G)
  BY <1>3, QueuedLocksShrinks, QueuedLocksTell
<1> HIDE DEF G
<1>5. M.q = G.q /\ M.order = G.order /\ M.granted = G.granted /\ M.updated = TRUE
  BY DEF m_update_lists, ListsOf
<1> HIDE DEF M
<1>6. OrderOK(M.q, M.order)
  <2>1. M.q \in SUBSET arb_sequence_q /\ M.order = before
    BY <1>3, <1>4, <1>5 DEF Shrunk, Tells
  <2> QED
    BY <2>1, SubOrder DEF ArbitrationInv
<1>7. ArbitrationInv'
  BY <1>1, <1>5, <1>6, CommitTold, DriverStays DEF Commit
<1>8. NewlyGranted = {}
  <2>1. \A g \in M.granted \union {} : g \in arb_sequence_q /\ g.request = "SEQ_TYPE_LOCK"
    BY <1>3, <1>4, <1>5, GrantedAreLocks
  <2>2. arb_completed' = arb_completed \union Awaiting(M.granted \union {})
    BY <1>1 DEF Commit
  <2> QED
    BY <2>1, <2>2, OnlyLocks
<1> QED
  BY <1>1, <1>7, <1>8 DEF KeepsQuiet, Quiet

\* send_request and item_done grant queued locks.
LEMMA GrantArbitration ==
  ASSUME HandshakeInv, ArbitrationInv,
         Commit(grant_queued_locks(Lists), {}), StaysAwake
  PROVE  ArbitrationInv' /\ NewlyGranted = {}
<1> DEFINE G == grant_queued_locks(Lists)
<1>1. /\ ListsOK(Lists) /\ Lists.q = arb_sequence_q /\ Lists.locks = lock_list
      /\ Lists.granted = {} /\ OrderOK(Lists.q, Lists.order)
  BY StateFacts
<1>2. Shrunk(Lists, G) /\ Tells(Lists, G)
  BY <1>1, QueuedLocksShrinks, QueuedLocksTell
<1>3. Commit(G, {})
  OBVIOUS
<1> HIDE DEF G
<1>4. CommitLists(G) /\ arb_changed' = (arb_changed \/ G.updated)
      /\ arb_completed' = arb_completed \union Awaiting(G.granted \union {})
  BY <1>3 DEF Commit
<1>5. G.q \subseteq Lists.q /\ \A r \in Lists.q : r \in arb_sequence_q
  BY <1>1, <1>2 DEF Shrunk
<1>6. ArbitrationInv'
  BY <1>1, <1>2, <1>4, <1>5, CommitQueue
<1>7. \A g \in G.granted \union {} : g \in arb_sequence_q /\ g.request = "SEQ_TYPE_LOCK"
  BY <1>1, <1>2, GrantedAreLocks
<1> QED
  BY <1>4, <1>6, <1>7, OnlyLocks

\* Sequences that end take their requests and locks with them.
LEMMA EndArbitration ==
  ASSUME HandshakeInv, ArbitrationInv,
         NEW S \in SUBSET Sequences, NEW M, M = remove_sequences_from_queues(Lists, S),
         CommitLists(M), arb_changed' = (arb_changed \/ M.updated),
         arb_completed' \subseteq arb_completed, StaysAwake
  PROVE  ArbitrationInv' /\ NewlyGranted = {}
<1>1. /\ ListsOK(Lists) /\ Lists.q = arb_sequence_q /\ Lists.locks = lock_list
      /\ OrderOK(Lists.q, Lists.order)
  BY StateFacts
<1>2. Tells(Lists, M)
  BY <1>1, RemoveTells
<1>3. M.q \subseteq Lists.q
  <2>1. PICK L : L = Lists
    OBVIOUS
  <2>2. ListsOK(L) /\ M = remove_sequences_from_queues(L, S)
    BY <1>1, <2>1, Zenon
  <2>3. /\ ListsOK(M)
        /\ M.q = {r \in L.q : SequenceOf(r) \notin Gone(S)}
        /\ M.locks = [s \in Sequences |-> IF s \in Gone(S) THEN 0 ELSE L.locks[s]]
        /\ M.reg = L.reg \ S
        /\ M.granted = L.granted
    BY <2>2, RemoveFamilies
  <2> QED
    BY <2>1, <2>3
<1>4. ArbitrationInv'
  BY <1>1, <1>2, <1>3, CommitQueue
<1>5. NewlyGranted = {}
  BY DEF NewlyGranted
<1> QED
  BY <1>4, <1>5

\* The end of sequences with all that run below them, and of their threads.
LEMMA KillArbitration ==
  ASSUME HandshakeInv, ArbitrationInv,
         NEW S \in SUBSET Sequences, KillAll(S), UNCHANGED <<driver_vars, fatal>>
  PROVE  KeepsQuiet
<1> DEFINE K == running \intersect UNION {Family[s] : s \in S}
           M == remove_sequences_from_queues(Lists, S \union K)
<1>1. /\ CommitLists(M) /\ arb_changed' = (arb_changed \/ M.updated)
      /\ arb_completed' \subseteq arb_completed
  BY DEF KillAll
<1>2. S \union K \in SUBSET Sequences
  BY DEF HandshakeInv, TypeOK
<1> HIDE DEF K
<1>3. ArbitrationInv' /\ NewlyGranted = {}
  BY <1>1, <1>2, EndArbitration, DriverStays
<1> QED
  BY <1>3 DEF KeepsQuiet, Quiet

\* The steps of a sequence as a whole: start, exit, kill, change of relevance.
LEMMA SequenceArbitration ==
  ASSUME HandshakeInv, ArbitrationInv,
         NEW s \in Sequences, SequenceStep(s)
  PROVE  KeepsQuiet
<1>1. CASE start(s) \/ toggle_relevant(s)
  <2>1. UNCHANGED <<arb_sequence_q, before, lock_list, arb_changed, arb_completed,
                    driver_vars, fatal>>
    BY <1>1 DEF start, toggle_relevant, lists
  <2> QED
    BY <2>1, SameQueue, DriverStays DEF KeepsQuiet, Quiet
<1>2. CASE exit(s)
  <2> DEFINE M == remove_sequences_from_queues(Lists, {s})
  <2>1. Commit(M, {}) /\ UNCHANGED <<driver_vars, fatal>> /\ {s} \in SUBSET Sequences
    BY <1>2 DEF exit
  <2>2. M.granted = {}
    <3>1. ListsOK(Lists) /\ Lists.granted = {}
      BY ListsFacts
    <3>2. M.granted = Lists.granted
      BY <2>1, <3>1, RemoveFamilies
    <3> QED
      BY <3>1, <3>2
  <2>3. /\ CommitLists(M) /\ arb_changed' = (arb_changed \/ M.updated)
        /\ arb_completed' \subseteq arb_completed
    <3> HIDE DEF M
    <3>1. Awaiting(M.granted \union {}) = {}
      BY <2>2 DEF Awaiting
    <3> QED
      BY <2>1, <3>1 DEF Commit
  <2>4. ArbitrationInv' /\ NewlyGranted = {}
    BY <2>1, <2>3, EndArbitration, DriverStays
  <2> QED
    BY <2>1, <2>4 DEF KeepsQuiet, Quiet
<1>3. CASE kill_sequence(s)
  BY <1>3, KillArbitration DEF kill_sequence
<1> QED
  BY <1>1, <1>2, <1>3 DEF SequenceStep

\* The steps of a thread that waits: its grant, send_request, item_done.
LEMMA ProceedsArbitration ==
  ASSUME HandshakeInv, ArbitrationInv,
         NEW t \in Threads, ThreadProceeds(t)
  PROVE  KeepsQuiet
<1>1. CASE arbitration_completed(t) \/ item_done_seen(t)
  <2>1. UNCHANGED <<arb_sequence_q, before, lock_list, arb_changed, driver_vars, fatal>>
        /\ arb_completed' \subseteq arb_completed
    BY <1>1 DEF arbitration_completed, item_done_seen, lists
  <2> QED
    BY <2>1, SameQueue, DriverStays DEF KeepsQuiet, Quiet
<1>2. ASSUME NEW then_wait \in BOOLEAN, send_request(t, then_wait)
      PROVE  KeepsQuiet
  <2>1. m_req_fifo = NoItem
    BY <1>2 DEF HandshakeInv, OneItemInFlight, send_request, At, HasGrant
  <2>2. Commit(grant_queued_locks(Lists), {}) /\ UNCHANGED <<driver_vars, fatal>>
    BY <1>2, <2>1 DEF send_request
  <2> QED
    BY <2>2, GrantArbitration, DriverStays DEF KeepsQuiet, Quiet
<1> QED
  BY <1>1, <1>2 DEF ThreadProceeds

\* The driver's steps other than an arbitration.
LEMMA DriverArbitration ==
  ASSUME HandshakeInv, ArbitrationInv,
         \/ available_changed \/ peek_returns \/ try_peek
         \/ DriverCallsSequencer \/ item_done
  PROVE  KeepsQuiet
<1>1. driver \in [at : {"user", "select", "wait_for_available", "peek",
                        "try_select", "try_peek"}, call : DriverCalls \union {"none"}]
  BY DEF HandshakeInv, TypeOK
<1>2. CASE available_changed \/ try_peek \/ DriverCallsSequencer
  <2>1. UNCHANGED <<arb_sequence_q, before, lock_list, arb_changed, arb_completed, fatal>>
    BY <1>2 DEF available_changed, try_peek, DriverCallsSequencer, request_item,
                try_next_item, lists
  <2>2. driver'.at # "wait_for_available"
    BY <1>1, <1>2 DEF DriverAt, available_changed, try_peek, DriverCallsSequencer, request_item,
                      try_next_item, DriverGoes, DriverReturns
  <2> QED
    BY <2>1, <2>2, SameQueue DEF KeepsQuiet, Quiet, StaysAwake
<1>3. CASE peek_returns \/ item_done
  <2>1. fatal' # "null request" \/ fatal' = fatal
    BY <1>3 DEF peek_returns, item_done, item_done_effect
  <2>2. StaysAwake
    BY <1>3 DEF peek_returns, item_done, DriverReturns, StaysAwake
  <2>3. CASE UNCHANGED <<lists, arb_completed, arb_changed>>
    BY <2>1, <2>2, <2>3, SameQueue DEF KeepsQuiet, Quiet, lists
  <2>4. CASE Commit(grant_queued_locks(Lists), {})
    BY <2>1, <2>2, <2>4, GrantArbitration DEF KeepsQuiet, Quiet
  <2>5. \/ UNCHANGED <<lists, arb_completed, arb_changed>>
        \/ Commit(grant_queued_locks(Lists), {})
    BY <1>3 DEF peek_returns, item_done, item_done_effect
  <2> QED
    BY <2>3, <2>4, <2>5
<1> QED
  BY <1>2, <1>3

\* A step that grants what the arbitration has chosen.
Grants(choice, r) ==
  /\ Commit(m_update_lists(delete(choice.lists, r)), {r})
  /\ UNCHANGED <<relevant, pc, fatal>>

GrantsAnItem ==
  \E choice \in m_choose_next_request(Lists) : \E r \in choice.picks : Grants(choice, r)

\* The arbitration itself, when the driver selects a sequence or tries to.
LEMMA SelectArbitration ==
  ASSUME HandshakeInv, ArbitrationInv,
         m_select_sequence \/ try_select
  PROVE  ArbitrationInv' /\ (NobodyDead => Quiet \/ GrantsAnItem)
<1>1. /\ driver.at \in {"select", "try_select"} /\ UNCHANGED <<relevant, pc>>
      /\ driver \in [at : {"user", "select", "wait_for_available", "peek",
                           "try_select", "try_peek"}, call : DriverCalls \union {"none"}]
  BY DEF m_select_sequence, try_select, DriverAt, HandshakeInv, TypeOK
<1>2. PICK choice \in m_choose_next_request(Lists) :
        \/ \E r \in choice.picks : granted(choice, r, "peek") \/ granted(choice, r, "try_peek")
        \/ none_available(choice) /\ m_wait_for_available_sequence(choice.lists)
        \/ /\ none_available(choice) /\ Commit(choice.lists, {}) /\ DriverReturns
           /\ UNCHANGED fatal
        \/ overran(choice)
  BY DEF m_select_sequence, try_select
<1>3. PICK C : C = choice.lists
  OBVIOUS
<1>4. /\ ListsOK(Lists) /\ Lists.q = arb_sequence_q /\ Lists.granted = {}
      /\ OrderOK(Lists.q, Lists.order)
  BY StateFacts
<1>5. Shrunk(Lists, C) /\ Tells(Lists, C)
  BY <1>3, <1>4, ChooseShrinks, ChooseTells
<1>11. ASSUME NobodyDead PROVE Chosen(C, choice)
  BY <1>3, <1>4, <1>11, ChooseFacts DEF NobodyDead, AllLive
<1>6. /\ OrderOK(C.q, C.order)
      /\ \A g \in C.granted : g \in arb_sequence_q /\ g.request = "SEQ_TYPE_LOCK"
  <2>1. C.q \in SUBSET Lists.q /\ C.order = Lists.order
    BY <1>5 DEF Shrunk, Tells
  <2> QED
    BY <1>4, <1>5, <2>1, SubOrder, GrantedAreLocks
<1>7. ASSUME NEW r \in choice.picks, NEW next \in {"peek", "try_peek"},
             granted(choice, r, next)
      PROVE  ArbitrationInv' /\ GrantsAnItem
  <2> DEFINE M == m_update_lists(delete(C, r))
  <2>1. Commit(M, {r}) /\ driver' = [driver EXCEPT !.at = next] /\ UNCHANGED fatal
    BY <1>3, <1>7 DEF granted, DriverGoes
  <2>2. M.q = C.q \ {r} /\ M.order = C.order
    BY DEF m_update_lists, delete, ListsOf
  <2>3. GrantsAnItem
    BY <1>1, <1>3, <2>1 DEF GrantsAnItem, Grants
  <2> HIDE DEF M
  <2>4. OrderOK(M.q, M.order)
    BY <1>6, <2>2, SubOrder
  <2>5. OrderOK(arb_sequence_q', before')
    BY <2>1, <2>4, CommitOrder DEF Commit
  <2>6. driver'.at # "wait_for_available"
    BY <1>1, <2>1
  <2> QED
    BY <2>3, <2>5, <2>6 DEF ArbitrationInv, SleepOK
<1>8. CASE none_available(choice) /\ m_wait_for_available_sequence(choice.lists)
  <2>1. /\ choice.picks = {} /\ CommitLists(C)
        /\ arb_completed' = arb_completed \union Awaiting(C.granted)
        /\ waits_relevant' = {SequenceOf(r) : r \in
                                {e \in C.q : /\ e.request = "SEQ_TYPE_REQ"
                                             /\ ~blocks(C.locks, SequenceOf(e))
                                             /\ SequenceOf(e) \notin relevant}}
        /\ UNCHANGED fatal
    BY <1>3, <1>8 DEF none_available, m_wait_for_available_sequence
  <2>2. arb_sequence_q' = C.q /\ lock_list' = C.locks
    BY <2>1 DEF CommitLists
  <2>5. ASSUME "kill_thread" \notin Interference PROVE SleepOK'
    <3>1. \A r \in C.q : ~available(C, r)
      BY <1>11, <2>1, <2>5, QueuedLive DEF Chosen
    <3>2. \A r \in C.q : r.request = "SEQ_TYPE_REQ" /\ ~blocks(C.locks, SequenceOf(r))
                          => SequenceOf(r) \in waits_relevant'
      BY <2>1, <3>1 DEF available
    <3> QED
      BY <2>2, <3>2 DEF SleepOK, SequenceOf
  <2>6. OrderOK(arb_sequence_q', before')
    BY <1>6, <2>1, CommitOrder
  <2>7. NewlyGranted = {}
    BY <1>6, <2>1, OnlyLocks
  <2> QED
    BY <2>1, <2>5, <2>6, <2>7 DEF Quiet, ArbitrationInv
<1>9. CASE /\ none_available(choice) /\ Commit(choice.lists, {}) /\ DriverReturns
           /\ UNCHANGED fatal
  <2>1. CommitLists(C) /\ arb_completed' = arb_completed \union Awaiting(C.granted \union {})
    BY <1>3, <1>9 DEF Commit
  <2>2. SleepOK'
    BY <1>9 DEF SleepOK, DriverReturns
  <2>3. OrderOK(arb_sequence_q', before')
    BY <1>6, <2>1, CommitOrder
  <2>4. NewlyGranted = {}
    BY <1>6, <2>1, OnlyLocks
  <2> QED
    BY <1>9, <2>2, <2>3, <2>4 DEF Quiet, ArbitrationInv
<1>10. CASE overran(choice)
  <2>1. UNCHANGED <<arb_sequence_q, before, lock_list, arb_changed, arb_completed,
                    driver, waits_relevant>>
    BY <1>10 DEF overran, lists
  <2>2. ArbitrationInv'
    BY <2>1, SameQueue DEF StaysAwake
  <2>3. ~NobodyDead
    BY <1>10, <1>11 DEF overran, Chosen
  <2> QED
    BY <2>2, <2>3
<1> QED
  BY <1>2, <1>7, <1>8, <1>9, <1>10

\* Every step keeps the invariant, and while nobody in the queue has died it grants
\* no item but what the arbitration has chosen from the queue.
LEMMA NextArbitration ==
  ASSUME HandshakeInv, ArbitrationInv, [Next]_vars
  PROVE  ArbitrationInv' /\ (NobodyDead => Quiet \/ GrantsAnItem)
<1>1. CASE UNCHANGED vars
  <2>1. UNCHANGED <<arb_sequence_q, before, lock_list, arb_changed, arb_completed,
                    driver_vars, fatal>>
    BY <1>1 DEF vars, lists
  <2> QED
    BY <2>1, SameQueue, DriverStays DEF KeepsQuiet, Quiet
<1>2. ASSUME NEW s \in Sequences, SequenceStep(s) PROVE KeepsQuiet
  BY <1>2, SequenceArbitration
<1>3. ASSUME NEW t \in Threads, ThreadCalls(t) PROVE KeepsQuiet
  <2>1. CASE kill_thread(t) \/ wait_for_item_done(t)
    <3>1. UNCHANGED <<arb_sequence_q, before, lock_list, arb_changed, driver_vars, fatal>>
          /\ arb_completed' \subseteq arb_completed
      BY <2>1 DEF kill_thread, wait_for_item_done, lists
    <3> QED
      BY <3>1, SameQueue, DriverStays DEF KeepsQuiet, Quiet
  <2> QED
    BY <1>3, <2>1, RequestArbitration, LockArbitration, UnlockArbitration
    DEF ThreadCalls, lock, grab
<1>4. ASSUME NEW t \in Threads, ThreadProceeds(t) PROVE KeepsQuiet
  BY <1>4, ProceedsArbitration
<1>5. CASE m_select_sequence \/ try_select
  BY <1>5, SelectArbitration
<1>6. CASE \/ available_changed \/ peek_returns \/ try_peek
           \/ DriverCallsSequencer \/ item_done
  BY <1>6, DriverArbitration DEF KeepsQuiet
<1>7. CASE stop_sequences
  <2>1. KillAll(reg_sequences) /\ UNCHANGED <<driver_vars, fatal>>
        /\ reg_sequences \in SUBSET Sequences
    BY <1>7 DEF stop_sequences, HandshakeInv, TypeOK
  <2> QED
    BY <2>1, KillArbitration DEF KeepsQuiet
<1> QED
  BY <1>1, <1>2, <1>3, <1>4, <1>5, <1>6, <1>7 DEF Next, DriverProceeds, KeepsQuiet

\* The thread that is granted an item had the chosen request in the queue, which
\* the step leaves with the locks that the arbitration has looked at.
LEMMA GrantedIsChosen ==
  ASSUME HandshakeInv, ArbitrationInv, NobodyDead,
         NEW choice \in m_choose_next_request(Lists), NEW r \in choice.picks,
         Grants(choice, r), NEW t \in NewlyGranted
  PROVE  /\ t = r.thread /\ r = ItemRequest(t)
         /\ Chosen(choice.lists, choice)
         /\ lock_list' = choice.lists.locks
         /\ arb_sequence_q' \subseteq choice.lists.q \ {r}
         /\ choice.lists.order = before
         /\ choice.lists.q \subseteq arb_sequence_q
<1>1. PICK C : C = choice.lists
  OBVIOUS
<1>2. /\ ListsOK(Lists) /\ Lists.q = arb_sequence_q /\ Lists.granted = {}
      /\ Lists.order = before
      /\ OrderOK(Lists.q, Lists.order) /\ AllLive(Lists)
  BY StateFacts DEF NobodyDead, AllLive
<1>3. Shrunk(Lists, C) /\ Chosen(C, choice) /\ Tells(Lists, C)
  BY <1>1, <1>2, ChooseShrinks, ChooseFacts
<1>4. C.q \subseteq arb_sequence_q /\ C.order = before /\ ListsOK(C)
      /\ \A g \in C.granted : g \in arb_sequence_q /\ g.request = "SEQ_TYPE_LOCK"
  BY <1>2, <1>3, GrantedAreLocks DEF Shrunk, Tells
<1> DEFINE M == m_update_lists(delete(C, r))
<1>5. M.q = C.q \ {r} /\ M.locks = C.locks /\ M.granted = C.granted
  BY DEF m_update_lists, delete, ListsOf
<1>6. Commit(M, {r})
  BY <1>1 DEF Grants
<1> HIDE DEF M
<1>7. /\ arb_sequence_q' = C.q \ {r} /\ lock_list' = C.locks
      /\ arb_completed' = arb_completed \union Awaiting(C.granted \union {r})
  BY <1>5, <1>6 DEF Commit, CommitLists
<1>8. PICK g \in C.granted \union {r} : g.thread = t /\ g.awaited /\ Alive(t)
  BY <1>7 DEF NewlyGranted, Awaiting
<1>9. r \in C.q /\ r.request = "SEQ_TYPE_REQ"
  BY <1>3 DEF Chosen, available
<1>10. g.request = "SEQ_TYPE_REQ"
  <2>1. g \in arb_sequence_q /\ pc[t] = "wait_for_grant" /\ g \in Request
    BY <1>4, <1>8, <1>9 DEF NewlyGranted, HandshakeInv, TypeOK
  <2>2. g.request \in {"SEQ_TYPE_REQ", "SEQ_TYPE_LOCK"}
    BY <2>1, SequenceOfType
  <2> QED
    BY <1>8, <2>1, <2>2 DEF HandshakeInv, QueueOK
<1>11. g = r
  BY <1>4, <1>8, <1>10
<1>12. r = ItemRequest(t)
  <2>1. r \in Request /\ ItemRequest(t) \in Request /\ t \in Threads
    BY <1>4, <1>9, RequestType DEF ListsOK, NewlyGranted
  <2>2. r.awaited \in BOOLEAN
    BY <2>1, SequenceOfType
  <2>3. /\ ItemRequest(t).thread = t /\ ItemRequest(t).request = "SEQ_TYPE_REQ"
        /\ ItemRequest(t).awaited = TRUE
    BY DEF ItemRequest
  <2> QED
    BY <1>8, <1>9, <1>11, <2>1, <2>2, <2>3, RequestEq
<1> QED
  BY <1>1, <1>3, <1>4, <1>7, <1>8, <1>11, <1>12

-----------------------------------------------------------------------------
(* The theorems. *)

\* The order of the queue stays total and, where no single thread is killed, a
\* driver that sleeps has been told or waits for all it could be granted.
THEOREM Arbitrated == ASSUME WellBehaved PROVE Spec => []ArbitrationInv
<1>1. Init => ArbitrationInv
  BY DEF Init, ArbitrationInv, OrderOK, SleepOK
<1>2. HandshakeInv /\ ArbitrationInv /\ [Next]_vars => ArbitrationInv'
  BY NextArbitration
<1> QED
  BY <1>1, <1>2, Handshake, PTL DEF Spec

\* Where no single thread is killed, the driver does not sleep in
\* m_wait_for_available_sequence while it could be granted a request, however the
\* queue, the locks and the relevance change (uvm_sequencer_base.svh:894).
THEOREM DriverWakes ==
  ASSUME WellBehaved, "kill_thread" \notin Interference
  PROVE  Spec => []NoLostArbitration
<1>1. HandshakeInv /\ ArbitrationInv => NoLostArbitration
  <2> SUFFICES ASSUME HandshakeInv, ArbitrationInv, driver.at = "wait_for_available",
                      ~arb_changed, waits_relevant \intersect relevant = {},
                      NEW r \in arb_sequence_q, available(Lists, r)
               PROVE  FALSE
    BY DEF NoLostArbitration
  <2>1. /\ r.request = "SEQ_TYPE_REQ" /\ ~blocks(lock_list, SequenceOf(r))
        /\ SequenceOf(r) \in relevant
    BY ListsFacts DEF available
  <2> QED
    BY <2>1 DEF ArbitrationInv, SleepOK
<1> QED
  BY <1>1, Arbitrated, Handshake, PTL

\* Where no single thread is killed, the sequencer never reads past the end of its
\* queue, so that no null request ends the run (uvm_sequencer_base.svh:758).
THEOREM NeverNull ==
  ASSUME WellBehaved, "kill_thread" \notin Interference
  PROVE  Spec => [](fatal # "null request")
<1>1. Init => fatal # "null request"
  BY DEF Init
<1>2. HandshakeInv /\ ArbitrationInv /\ fatal # "null request" /\ [Next]_vars
        => (fatal # "null request")'
  BY NextArbitration, QueuedLive DEF Quiet, GrantsAnItem, Grants
<1> QED
  BY <1>1, <1>2, Handshake, Arbitrated, PTL DEF Spec

\* While nobody in the queue has died, no item is granted to a sequence that a lock
\* blocks, in any arbitration mode (uvm_sequencer_base.svh:787).
THEOREM LocksRespected == ASSUME WellBehaved PROVE Spec => GrantRespectsLocks
<1>1. ASSUME HandshakeInv, ArbitrationInv, [Next]_vars, NobodyDead, NEW t \in NewlyGranted
      PROVE  ~blocks(lock_list', Owner[t])
  <2>1. GrantsAnItem
    BY <1>1, NextArbitration DEF Quiet
  <2>2. PICK choice \in m_choose_next_request(Lists) :
               \E r \in choice.picks : Grants(choice, r)
    BY <2>1 DEF GrantsAnItem
  <2>3. PICK r \in choice.picks : Grants(choice, r)
    BY <2>2
  <2>4. /\ t = r.thread /\ Chosen(choice.lists, choice)
        /\ lock_list' = choice.lists.locks
    BY <1>1, <2>3, GrantedIsChosen
  <2> QED
    BY <2>4 DEF Chosen, available, SequenceOf
<1>2. HandshakeInv /\ ArbitrationInv /\ [Next]_vars
        => [NobodyDead => \A t \in NewlyGranted : ~blocks(lock_list', Owner[t])]_vars
  BY <1>1
<1> QED
  BY <1>2, Handshake, Arbitrated, PTL DEF Spec, GrantRespectsLocks

\* While nobody in the queue has died, UVM_SEQ_ARB_STRICT_FIFO grants the oldest
\* request of the highest priority that no lock blocks and whose sequence is relevant
\* (uvm_sequencer_base.svh:843).
THEOREM PriorityKept ==
  ASSUME WellBehaved, Arbitration = "STRICT_FIFO"
  PROVE  Spec => PriorityRespected
<1> DEFINE Open(r) == /\ r.request = "SEQ_TYPE_REQ"
                      /\ ~blocks(lock_list', SequenceOf(r)) /\ SequenceOf(r) \in relevant
           Behind(r, t) == \/ Priority[SequenceOf(r)] < Priority[Owner[t]]
                           \/ /\ Priority[SequenceOf(r)] = Priority[Owner[t]]
                              /\ <<ItemRequest(t), r>> \in before
<1>1. ASSUME HandshakeInv, ArbitrationInv, [Next]_vars, NobodyDead,
             NEW t \in NewlyGranted, NEW p \in arb_sequence_q', Open(p)
      PROVE  Behind(p, t)
  <2>1. GrantsAnItem
    BY <1>1, NextArbitration DEF Quiet
  <2>2. PICK choice \in m_choose_next_request(Lists) :
               \E r \in choice.picks : Grants(choice, r)
    BY <2>1 DEF GrantsAnItem
  <2>3. PICK r \in choice.picks : Grants(choice, r)
    BY <2>2
  <2>4. /\ t = r.thread /\ r = ItemRequest(t) /\ Chosen(choice.lists, choice)
        /\ lock_list' = choice.lists.locks
        /\ arb_sequence_q' \subseteq choice.lists.q \ {r}
        /\ choice.lists.order = before
    BY <1>1, <2>3, GrantedIsChosen
  <2>5. p \in choice.lists.q /\ p # r /\ available(choice.lists, p)
    BY <1>1, <2>4 DEF available
  <2>6. \/ Priority[SequenceOf(p)] < Priority[SequenceOf(r)]
        \/ /\ Priority[SequenceOf(p)] = Priority[SequenceOf(r)]
           /\ <<r, p>> \in choice.lists.order
    BY <2>4, <2>5 DEF Chosen
  <2> QED
    BY <2>4, <2>6 DEF SequenceOf
<1>2. HandshakeInv /\ ArbitrationInv /\ [Next]_vars
        => [NobodyDead => \A t \in NewlyGranted : \A r \in arb_sequence_q' :
              Open(r) => Behind(r, t)]_vars
  BY <1>1
<1> QED
  BY <1>2, Handshake, Arbitrated, PTL DEF Spec, PriorityRespected

-----------------------------------------------------------------------------
(***************************************************************************)
(* The exchange of items.                                                  *)
(***************************************************************************)

\* While the item of a waiting thread is in the fifo, nobody has been told that
\* an item is done: wait_for_item_done forgets the item that was done last.
FreshWait ==
  \A t \in Threads : pc[t] = "wait_for_item_done" /\ m_req_fifo = t
                       => m_wait_for_item_sequence_id = NoSequence

ExchangeInv == HandshakeInv /\ FreshWait

\* A step that sends nothing and ends no wait.
LEMMA SameWait ==
  ASSUME FreshWait, m_req_fifo' \in {m_req_fifo, NoItem},
         m_req_fifo' = m_req_fifo => UNCHANGED m_wait_for_item_sequence_id,
         \A t \in Threads : pc'[t] = "wait_for_item_done" => pc[t] = "wait_for_item_done"
  PROVE  FreshWait'
BY SequencerAssumption DEF FreshWait

\* The step of every action keeps FreshWait.
LEMMA NextFresh ==
  ASSUME WellBehaved, ExchangeInv, [Next]_vars
  PROVE  FreshWait'
<1>1. pc \in [Threads -> ThreadPlaces] /\ FreshWait
  BY DEF ExchangeInv, HandshakeInv, TypeOK
<1>2. ASSUME NEW s \in Sequences, SequenceStep(s) PROVE FreshWait'
  <2>1. UNCHANGED <<m_req_fifo, m_wait_for_item_sequence_id>>
    BY <1>2 DEF SequenceStep, start, exit, toggle_relevant, kill_sequence, handshake
  <2>2. \A t \in Threads : pc'[t] = "wait_for_item_done" => pc[t] = "wait_for_item_done"
    BY <1>2 DEF SequenceStep, start, exit, toggle_relevant, kill_sequence, KillAll
  <2> QED
    BY <1>1, <2>1, <2>2, SameWait
<1>3. ASSUME NEW t \in Threads, ThreadCalls(t) PROVE FreshWait'
  <2>1. CASE wait_for_item_done(t)
    BY <2>1 DEF wait_for_item_done, FreshWait
  <2>2. CASE ~wait_for_item_done(t)
    <3>1. UNCHANGED <<m_req_fifo, m_wait_for_item_sequence_id>>
      BY <1>3, <2>2 DEF ThreadCalls, wait_for_grant, lock, grab, m_lock_req, unlock,
                        kill_thread, handshake
    <3>2. \A u \in Threads : pc'[u] = "wait_for_item_done" => pc[u] = "wait_for_item_done"
      BY <1>1, <1>3, <2>2 DEF ThreadCalls, wait_for_grant, lock, grab, m_lock_req, unlock,
                              kill_thread, Goto
    <3> QED
      BY <1>1, <3>1, <3>2, SameWait
  <2> QED
    BY <2>1, <2>2
<1>4. ASSUME NEW t \in Threads, NEW then_wait \in BOOLEAN, send_request(t, then_wait)
      PROVE  FreshWait'
  <2>1. m_req_fifo = NoItem
    BY <1>4 DEF ExchangeInv, HandshakeInv, OneItemInFlight, send_request, At, HasGrant
  <2>2. /\ m_req_fifo' = t
        /\ pc' = [pc EXCEPT ![t] = IF then_wait THEN "wait_for_item_done" ELSE "body"]
        /\ then_wait => m_wait_for_item_sequence_id' = NoSequence
    BY <1>4, <2>1 DEF send_request, Goto
  <2> QED
    BY <1>1, <2>2 DEF FreshWait
<1>5. ASSUME NEW t \in Threads, arbitration_completed(t) \/ item_done_seen(t)
      PROVE  FreshWait'
  <2>1. UNCHANGED <<m_req_fifo, m_wait_for_item_sequence_id>>
    BY <1>5 DEF arbitration_completed, item_done_seen, handshake
  <2>2. \A u \in Threads : pc'[u] = "wait_for_item_done" => pc[u] = "wait_for_item_done"
    BY <1>1, <1>5 DEF arbitration_completed, item_done_seen, Goto
  <2> QED
    BY <1>1, <2>1, <2>2, SameWait
<1>6. ASSUME DriverProceeds \/ DriverCallsSequencer \/ item_done PROVE FreshWait'
  <2>1. UNCHANGED pc
    BY <1>6 DEF DriverProceeds, DriverCallsSequencer, m_select_sequence, available_changed,
                peek_returns, try_select, try_peek, request_item, try_next_item, item_done
  <2>2. \/ UNCHANGED <<m_req_fifo, m_wait_for_item_sequence_id>>
        \/ m_req_fifo' = NoItem
    BY <1>6 DEF DriverProceeds, DriverCallsSequencer, m_select_sequence, available_changed,
                peek_returns, try_select, try_peek, request_item, try_next_item, item_done,
                item_done_effect, handshake
  <2> QED
    BY <1>1, <2>1, <2>2, SequencerAssumption DEF FreshWait
<1>7. CASE stop_sequences
  BY <1>7, SequencerAssumption DEF stop_sequences, FreshWait
<1>8. CASE UNCHANGED vars
  BY <1>1, <1>8 DEF vars, handshake, FreshWait
<1> QED
  BY <1>2, <1>3, <1>4, <1>5, <1>6, <1>7, <1>8 DEF Next, ThreadProceeds

\* Where the exchange sees a thread, in terms of the handshake.
Seen(p, done, mine) ==
  CASE p = "dead" -> "gone"
    [] p = "granted" \/ (p = "wait_for_grant" /\ done) -> "granted"
    [] p = "wait_for_grant" /\ ~done -> "asks"
    [] p = "wait_for_item_done" /\ mine -> "waits"
    [] OTHER -> "free"

AllSeen ==
  \A t \in Threads : PlaceOf(t) = Seen(pc[t], t \in arb_completed, m_req_fifo = t)

LEMMA Places == ExchangeInv => AllSeen
<1> SUFFICES ASSUME ExchangeInv, NEW t \in Threads
             PROVE  PlaceOf(t) = Seen(pc[t], t \in arb_completed, m_req_fifo = t)
  BY DEF AllSeen
<1>1. ASSUME pc[t] = "wait_for_item_done"
      PROVE  m_req_fifo = t \/ m_wait_for_item_sequence_id # Owner[t] <=> m_req_fifo = t
  <2>1. m_req_fifo # t => m_req_fifo = NoItem /\ m_wait_for_item_sequence_id = Owner[t]
    BY <1>1 DEF ExchangeInv, HandshakeInv, DoneOK
  <2> QED
    BY <2>1
<1>2. CASE pc[t] = "dead"
  BY <1>2 DEF PlaceOf, HasGrant, Seen
<1>3. CASE pc[t] = "granted"
  BY <1>3 DEF PlaceOf, HasGrant, Seen
<1>4. CASE pc[t] = "wait_for_grant"
  BY <1>4 DEF PlaceOf, HasGrant, Seen
<1>5. CASE pc[t] = "wait_for_item_done"
  BY <1>1, <1>5 DEF PlaceOf, HasGrant, Seen
<1>6. CASE pc[t] \in {"body", "wait_for_lock", "wait_for_next_done"}
  BY <1>6 DEF PlaceOf, HasGrant, Seen
<1>7. pc[t] \in ThreadPlaces
  BY DEF ExchangeInv, HandshakeInv, TypeOK
<1> QED
  BY <1>2, <1>3, <1>4, <1>5, <1>6, <1>7 DEF ThreadPlaces

\* The same of the next state.
LEMMA PlacesNext == ExchangeInv' => AllSeen'
BY Places, PTL

\* A step that leaves the place of every thread outside S alone.
LEMMA StayPut ==
  ASSUME AllSeen, AllSeen', NEW S \in SUBSET Threads,
         \A t \in Threads \ S : pc'[t] = pc[t],
         \A t \in Threads \ S : pc[t] = "wait_for_grant" =>
                                  (t \in arb_completed <=> t \in arb_completed'),
         \/ UNCHANGED m_req_fifo
         \/ \A t \in Threads \ S : pc[t] # "wait_for_item_done"
  PROVE  \A t \in Threads \ S : PlaceOf(t)' = PlaceOf(t)
<1> SUFFICES ASSUME NEW t \in Threads \ S PROVE PlaceOf(t)' = PlaceOf(t)
  OBVIOUS
<1>1. /\ PlaceOf(t) = Seen(pc[t], t \in arb_completed, m_req_fifo = t)
      /\ PlaceOf(t)' = Seen(pc'[t], t \in arb_completed', m_req_fifo' = t)
  BY DEF AllSeen
<1>2. CASE pc[t] = "wait_for_grant"
  BY <1>1, <1>2 DEF Seen
<1>3. CASE pc[t] = "wait_for_item_done"
  BY <1>1, <1>3 DEF Seen
<1>4. CASE pc[t] \notin {"wait_for_grant", "wait_for_item_done"}
  BY <1>1, <1>4 DEF Seen
<1> QED
  BY <1>2, <1>3, <1>4

\* A step that grants no item leaves the threads that ask where they are.
LEMMA NoneGranted ==
  ASSUME NewlyGranted = {}, NEW S \in SUBSET Threads,
         \A t \in arb_completed \ S : t \in arb_completed'
  PROVE  \A t \in Threads \ S : pc[t] = "wait_for_grant" =>
                                  (t \in arb_completed <=> t \in arb_completed')
BY DEF NewlyGranted

ExchangeStep == [Exchange!Next]_<<[t \in Threads |-> PlaceOf(t)], m_req_fifo>>

\* Steps the exchange does not see.
LEMMA UnseenStep ==
  ASSUME \A t \in Threads : PlaceOf(t)' = PlaceOf(t), UNCHANGED m_req_fifo
  PROVE  ExchangeStep
BY DEF ExchangeStep

\* Threads that leave.
LEMMA LeaveStep ==
  ASSUME NEW S \in SUBSET Threads,
         \A t \in S : PlaceOf(t)' = "gone",
         \A t \in Threads \ S : PlaceOf(t)' = PlaceOf(t),
         UNCHANGED m_req_fifo
  PROVE  ExchangeStep
<1>1. Exchange!Leave(S)
  BY DEF Exchange!Leave
<1> QED
  BY <1>1 DEF ExchangeStep, Exchange!Next

\* A thread that moves.
LEMMA MoveStep ==
  ASSUME NEW t \in Threads, NEW from, NEW to, PlaceOf(t) = from, PlaceOf(t)' = to,
         \A u \in Threads \ {t} : PlaceOf(u)' = PlaceOf(u)
  PROVE  Exchange!Move(t, from, to)
BY DEF Exchange!Move

\* What the invariants say of a thread's place before and after a step.
Sees == ExchangeInv /\ ArbitrationInv /\ AllSeen /\ AllSeen'

\* A sequence starts: its threads were gone.
LEMMA StartExchange ==
  ASSUME Sees, NEW s \in Sequences, start(s)
  PROVE  ExchangeStep
<1> DEFINE S == ThreadsOf(s)
<1>1. /\ s \notin running
      /\ pc' = [t \in Threads |-> IF Owner[t] = s THEN "body" ELSE pc[t]]
      /\ UNCHANGED <<arb_completed, m_req_fifo>>
  BY DEF start, handshake
<1>2. \A t \in S : pc[t] = "dead" /\ pc'[t] = "body"
  BY <1>1 DEF Sees, ExchangeInv, HandshakeInv, RunningOK, ThreadsOf
<1>3. \A t \in S : PlaceOf(t) = "gone" /\ PlaceOf(t)' = "free"
  BY <1>2 DEF Sees, AllSeen, Seen, ThreadsOf
<1>4. \A t \in Threads \ S : pc'[t] = pc[t]
  BY <1>1 DEF ThreadsOf
<1>5. S \in SUBSET Threads
  BY DEF ThreadsOf
<1> HIDE DEF S
<1>6. \A t \in Threads \ S : PlaceOf(t)' = PlaceOf(t)
  BY <1>1, <1>4, <1>5, StayPut DEF Sees
<1>7. Exchange!Start(S)
  BY <1>1, <1>3, <1>5, <1>6 DEF Exchange!Start
<1> QED
  BY <1>5, <1>7 DEF ExchangeStep, Exchange!Next

\* The threads of the sequences K end; the item in the fifo stays there.
LEMMA EndExchange ==
  ASSUME Sees, NEW K,
         pc' = [t \in Threads |-> IF Owner[t] \in K THEN "dead" ELSE pc[t]],
         arb_completed' = {t \in arb_completed : Owner[t] \notin K},
         UNCHANGED m_req_fifo
  PROVE  ExchangeStep
<1>1. PICK S \in SUBSET Threads : S = {t \in Threads : Owner[t] \in K}
  OBVIOUS
<1>2. \A t \in S : PlaceOf(t)' = "gone"
  BY <1>1 DEF Sees, AllSeen, Seen
<1>3. \A t \in Threads \ S : pc'[t] = pc[t] /\ (t \in arb_completed <=> t \in arb_completed')
  BY <1>1
<1>4. \A t \in Threads \ S : PlaceOf(t)' = PlaceOf(t)
  BY <1>3, StayPut DEF Sees
<1> QED
  BY <1>2, <1>4, LeaveStep

\* A sequence starts, ends, is killed or changes its mind.
LEMMA SequenceExchange ==
  ASSUME Sees, NEW s \in Sequences, SequenceStep(s)
  PROVE  ExchangeStep
<1>1. CASE exit(s)
  <2>1. /\ pc' = [t \in Threads |-> IF Owner[t] \in {s} THEN "dead" ELSE pc[t]]
        /\ \A t \in ThreadsOf(s) : pc[t] \in {"body", "dead"}
        /\ UNCHANGED m_req_fifo
    BY <1>1 DEF exit, handshake
  <2>2. arb_completed' = arb_completed
    <3>1. PICK S, M : S = {s} /\ M = remove_sequences_from_queues(Lists, S)
      OBVIOUS
    <3>2. S \in SUBSET Sequences /\ ListsOK(Lists) /\ Lists.granted = {}
      BY <3>1, ListsFacts DEF Sees, ExchangeInv
    <3>3. M.granted = Lists.granted
      BY <3>1, <3>2, RemoveFamilies
    <3>4. arb_completed' = arb_completed \union Awaiting(M.granted \union {})
      BY <1>1, <3>1 DEF exit, Commit
    <3> QED
      BY <3>2, <3>3, <3>4 DEF Awaiting
  <2>3. arb_completed' = {t \in arb_completed : Owner[t] \notin {s}}
    BY <2>1, <2>2 DEF Sees, ExchangeInv, HandshakeInv, CompletedOK, TypeOK, ThreadsOf
  <2>4. PICK K : K = {s}
    OBVIOUS
  <2> QED
    BY <2>1, <2>3, <2>4, EndExchange
<1>2. CASE toggle_relevant(s)
  <2>1. UNCHANGED <<pc, arb_completed, m_req_fifo>>
    BY <1>2 DEF toggle_relevant, handshake
  <2>2. \A t \in Threads \ {} : PlaceOf(t)' = PlaceOf(t)
    BY <2>1, StayPut DEF Sees
  <2> QED
    BY <2>1, <2>2, UnseenStep
<1>3. CASE kill_sequence(s)
  <2>1. PICK K : K = running \intersect Gone({s})
    OBVIOUS
  <2>2. /\ pc' = [t \in Threads |-> IF Owner[t] \in K THEN "dead" ELSE pc[t]]
        /\ arb_completed' = {t \in arb_completed : Owner[t] \notin K}
        /\ UNCHANGED m_req_fifo
    BY <1>3, <2>1 DEF kill_sequence, KillAll, handshake, Gone
  <2> QED
    BY <2>2, EndExchange
<1> QED
  BY <1>1, <1>2, <1>3, StartExchange DEF SequenceStep

\* A thread asks for an item.
LEMMA AskExchange ==
  ASSUME Sees, NEW t \in Threads, NEW lock_request \in BOOLEAN,
         wait_for_grant(t, lock_request)
  PROVE  ExchangeStep
<1>1. PICK L : /\ L.granted = {} /\ Commit(L, {})
  <2>1. Lists.granted = {}
    BY ListsFacts DEF Sees, ExchangeInv
  <2>2. ASSUME NEW L, L = IF lock_request THEN push_back(Lists, LockAhead(t)) ELSE Lists
        PROVE  m_update_lists(push_back(L, ItemRequest(t))).granted = {}
    BY <2>1, <2>2 DEF m_update_lists, push_back, ListsOf
  <2> QED
    BY <2>2 DEF wait_for_grant
<1>2. /\ pc[t] = "body" /\ pc' = [pc EXCEPT ![t] = "wait_for_grant"]
      /\ arb_completed' = arb_completed /\ UNCHANGED m_req_fifo
  BY <1>1 DEF wait_for_grant, InTestbench, At, Goto, handshake, Commit, Awaiting
<1>3. pc \in [Threads -> ThreadPlaces] /\ t \notin arb_completed
  BY <1>2 DEF Sees, ExchangeInv, HandshakeInv, TypeOK, CompletedOK
<1>4. PlaceOf(t) = "free" /\ PlaceOf(t)' = "asks"
  BY <1>2, <1>3 DEF Sees, AllSeen, Seen
<1>5. \A u \in Threads \ {t} : PlaceOf(u)' = PlaceOf(u)
  BY <1>2, <1>3, StayPut DEF Sees
<1>6. Exchange!Ask(t)
  BY <1>2, <1>4, <1>5, MoveStep DEF Exchange!Ask
<1> QED
  BY <1>6 DEF ExchangeStep, Exchange!Next

\* A step in which one thread stays in the testbench or comes back to it, or waits for
\* a lock, and no item is granted.
LEMMA FreeExchange ==
  ASSUME Sees, NEW t \in Threads, PlaceOf(t) = "free", pc'[t] \in {"body", "wait_for_lock"},
         \A u \in Threads \ {t} : pc'[u] = pc[u],
         NewlyGranted = {}, \A u \in arb_completed \ {t} : u \in arb_completed',
         UNCHANGED m_req_fifo
  PROVE  ExchangeStep
<1>1. PlaceOf(t)' = "free"
  BY DEF Sees, AllSeen, Seen
<1>2. PICK S \in SUBSET Threads : S = {t}
  OBVIOUS
<1>3. \A u \in Threads \ S : PlaceOf(u)' = PlaceOf(u)
  BY <1>2, StayPut, NoneGranted DEF Sees
<1> QED
  BY <1>1, <1>2, <1>3, UnseenStep

\* lock and grab: whether the lock is given at once or not, the exchange goes on.
LEMMA LockExchange ==
  ASSUME Sees, NEW t \in Threads, NEW L, m_lock_req(t, L),
         \/ L = push_back(Lists, LockRequest(t))
         \/ L = m_update_lists(push_front(Lists, LockRequest(t)))
  PROVE  ExchangeStep
<1>1. NewlyGranted = {}
  BY LockArbitration DEF Sees, ExchangeInv, KeepsQuiet, Quiet
<1>2. /\ pc[t] = "body" /\ arb_completed \subseteq arb_completed' /\ UNCHANGED m_req_fifo
      /\ pc' = pc \/ pc' = [pc EXCEPT ![t] = "wait_for_lock"]
  BY DEF m_lock_req, InTestbench, At, Goto, handshake
<1>3. pc \in [Threads -> ThreadPlaces]
  BY DEF Sees, ExchangeInv, HandshakeInv, TypeOK
<1>4. PlaceOf(t) = "free"
  BY <1>2 DEF Sees, AllSeen, Seen
<1>5. pc'[t] \in {"body", "wait_for_lock"} /\ \A u \in Threads \ {t} : pc'[u] = pc[u]
  BY <1>2, <1>3
<1> QED
  BY <1>1, <1>2, <1>4, <1>5, FreeExchange

\* A thread that calls wait_for_item_done by itself waits for its item while that is on
\* its way, and for nothing the exchange promises when it is not.
LEMMA AwaitExchange ==
  ASSUME Sees, NEW t \in Threads, wait_for_item_done(t)
  PROVE  ExchangeStep
<1>1. /\ pc[t] = "body" /\ UNCHANGED <<m_req_fifo, arb_completed>>
      /\ pc' = [u \in Threads |->
                 IF u # t /\ pc[u] # "wait_for_item_done" THEN pc[u]
                 ELSE IF m_req_fifo = u THEN "wait_for_item_done"
                 ELSE "wait_for_next_done"]
  BY DEF wait_for_item_done, InTestbench, At
<1>2. ASSUME NEW u \in Threads, u # t
      PROVE  PlaceOf(u)' = PlaceOf(u)
  <2>1. /\ PlaceOf(u) = Seen(pc[u], u \in arb_completed, m_req_fifo = u)
        /\ PlaceOf(u)' = Seen(pc'[u], u \in arb_completed, m_req_fifo = u)
    BY <1>1 DEF Sees, AllSeen
  <2>2. CASE pc'[u] = pc[u]
    BY <2>1, <2>2
  <2>3. CASE pc[u] = "wait_for_item_done" /\ m_req_fifo # u
            /\ pc'[u] = "wait_for_next_done"
    BY <2>1, <2>3 DEF Seen
  <2> QED
    BY <1>1, <1>2, <2>2, <2>3
<1>3. PlaceOf(t) = "free"
  BY <1>1 DEF Sees, AllSeen, Seen
<1>4. CASE m_req_fifo = t
  <2>1. PlaceOf(t)' = "waits"
    BY <1>1, <1>4 DEF Sees, AllSeen, Seen
  <2>2. Exchange!Await(t)
    BY <1>1, <1>2, <1>3, <1>4, <2>1, MoveStep DEF Exchange!Await
  <2> QED
    BY <2>2 DEF ExchangeStep, Exchange!Next
<1>5. CASE m_req_fifo # t
  <2>1. PlaceOf(t)' = "free"
    BY <1>1, <1>5 DEF Sees, AllSeen, Seen
  <2> QED
    BY <1>1, <1>2, <1>3, <2>1, UnseenStep
<1> QED
  BY <1>4, <1>5

\* What a thread calls.
LEMMA CallExchange ==
  ASSUME Sees, NEW t \in Threads, ThreadCalls(t)
  PROVE  ExchangeStep
<1>1. CASE unlock(t)
  <2>1. NewlyGranted = {}
    BY <1>1, UnlockArbitration DEF Sees, ExchangeInv, KeepsQuiet, Quiet
  <2>2. /\ pc[t] = "body" /\ UNCHANGED <<pc, m_req_fifo>>
        /\ arb_completed \subseteq arb_completed'
    BY <1>1 DEF unlock, InTestbench, At, Commit, handshake
  <2>3. PlaceOf(t) = "free"
    BY <2>2 DEF Sees, AllSeen, Seen
  <2> QED
    BY <2>1, <2>2, <2>3, FreeExchange
<1>2. CASE kill_thread(t)
  <2>1. /\ pc' = [pc EXCEPT ![t] = "dead"] /\ arb_completed' = arb_completed \ {t}
        /\ UNCHANGED m_req_fifo
    BY <1>2 DEF kill_thread, Goto, handshake
  <2>2. pc \in [Threads -> ThreadPlaces]
    BY DEF Sees, ExchangeInv, HandshakeInv, TypeOK
  <2>3. PICK S \in SUBSET Threads : S = {t}
    OBVIOUS
  <2>4. \A u \in S : PlaceOf(u)' = "gone"
    BY <2>1, <2>2, <2>3 DEF Sees, AllSeen, Seen
  <2>5. \A u \in Threads \ S : PlaceOf(u)' = PlaceOf(u)
    BY <2>1, <2>2, <2>3, StayPut DEF Sees
  <2> QED
    BY <2>1, <2>4, <2>5, LeaveStep
<1>3. CASE wait_for_item_done(t)
  BY <1>3, AwaitExchange
<1> QED
  BY <1>1, <1>2, <1>3, AskExchange, LockExchange DEF ThreadCalls, lock, grab

\* A thread goes on: it sees its grant or lock, sends its item or sees it done.
LEMMA ProceedsExchange ==
  ASSUME Sees, NEW t \in Threads, ThreadProceeds(t)
  PROVE  ExchangeStep
<1>1. NewlyGranted = {}
  BY ProceedsArbitration DEF Sees, ExchangeInv, KeepsQuiet, Quiet
<1>2. pc \in [Threads -> ThreadPlaces]
  BY DEF Sees, ExchangeInv, HandshakeInv, TypeOK
<1>3. CASE arbitration_completed(t) /\ pc[t] = "wait_for_grant"
  <2>1. /\ pc' = [pc EXCEPT ![t] = "granted"] /\ t \in arb_completed
        /\ arb_completed' = arb_completed \ {t} /\ UNCHANGED m_req_fifo
    BY <1>3 DEF arbitration_completed, Goto, handshake
  <2>2. PlaceOf(t) = "granted" /\ PlaceOf(t)' = "granted"
    BY <1>2, <1>3, <2>1 DEF Sees, AllSeen, Seen
  <2>3. PICK S \in SUBSET Threads : S = {t}
    OBVIOUS
  <2>4. \A u \in Threads \ S : PlaceOf(u)' = PlaceOf(u)
    BY <1>2, <2>1, <2>3, StayPut DEF Sees
  <2> QED
    BY <2>1, <2>2, <2>3, <2>4, UnseenStep
<1>4. CASE arbitration_completed(t) /\ pc[t] = "wait_for_lock"
  <2>1. /\ pc' = [pc EXCEPT ![t] = "body"]
        /\ arb_completed' = arb_completed \ {t} /\ UNCHANGED m_req_fifo
    BY <1>4 DEF arbitration_completed, Goto, handshake
  <2>2. PlaceOf(t) = "free"
    BY <1>4 DEF Sees, AllSeen, Seen
  <2> QED
    BY <1>1, <1>2, <2>1, <2>2, FreeExchange
<1>5. CASE item_done_seen(t)
  <2>1. /\ pc[t] \in DonePlaces /\ m_wait_for_item_sequence_id = Owner[t]
        /\ pc' = [pc EXCEPT ![t] = "body"] /\ UNCHANGED <<arb_completed, m_req_fifo>>
    BY <1>5 DEF item_done_seen, Told, Goto, handshake
  <2>2. ~(pc[t] = "wait_for_item_done" /\ m_req_fifo = t)
    BY <2>1, SequencerAssumption DEF Sees, ExchangeInv, FreshWait
  <2>3. PlaceOf(t) = "free"
    BY <2>1, <2>2 DEF Sees, AllSeen, Seen, DonePlaces
  <2> QED
    BY <1>1, <1>2, <2>1, <2>3, FreeExchange
<1>6. ASSUME NEW then_wait \in BOOLEAN, send_request(t, then_wait)
      PROVE  ExchangeStep
  <2>1. m_req_fifo = NoItem /\ HasGrant(t) /\ pc[t] = "granted"
    BY <1>6 DEF Sees, ExchangeInv, HandshakeInv, OneItemInFlight, send_request, At, HasGrant
  <2>2. /\ m_req_fifo' = t
        /\ pc' = [pc EXCEPT ![t] = IF then_wait THEN "wait_for_item_done" ELSE "body"]
        /\ arb_completed \subseteq arb_completed'
    BY <1>6, <2>1 DEF send_request, Goto, Commit
  <2>3. PICK next \in {"free", "waits"} : next = IF then_wait THEN "waits" ELSE "free"
    OBVIOUS
  <2>4. PlaceOf(t) = "granted" /\ PlaceOf(t)' = next
    BY <1>2, <2>1, <2>2, <2>3 DEF Sees, AllSeen, Seen
  <2>5. \A u \in Threads : pc[u] # "wait_for_item_done"
    BY <2>1 DEF Sees, ExchangeInv, HandshakeInv, DoneOK
  <2>6. PICK S \in SUBSET Threads : S = {t}
    OBVIOUS
  <2>7. \A u \in Threads \ S : PlaceOf(u)' = PlaceOf(u)
    BY <1>1, <1>2, <2>2, <2>5, <2>6, StayPut, NoneGranted DEF Sees
  <2>8. Exchange!Send(t, next)
    BY <2>1, <2>2, <2>4, <2>6, <2>7, MoveStep DEF Exchange!Send
  <2> QED
    BY <2>3, <2>8 DEF ExchangeStep, Exchange!Next
<1> QED
  BY <1>3, <1>4, <1>5, <1>6 DEF ThreadProceeds, arbitration_completed

\* The driver is done with its item, if there is one.
LEMMA DoneExchange ==
  ASSUME Sees, item_done_effect, UNCHANGED pc, NewlyGranted = {}
  PROVE  ExchangeStep
<1>1. CASE m_req_fifo = NoItem
  <2>1. UNCHANGED <<pc, m_req_fifo, arb_completed>>
    BY <1>1 DEF item_done_effect
  <2>2. \A t \in Threads \ {} : PlaceOf(t)' = PlaceOf(t)
    BY <2>1, StayPut DEF Sees
  <2> QED
    BY <2>1, <2>2, UnseenStep
<1>2. CASE m_req_fifo # NoItem
  <2>1. m_req_fifo' = NoItem /\ arb_completed \subseteq arb_completed'
    BY <1>2 DEF item_done_effect, Commit
  <2>2. \A t \in Threads : m_req_fifo \in Threads /\ (pc[t] = "wait_for_item_done" => m_req_fifo = t)
    BY <1>2 DEF Sees, ExchangeInv, HandshakeInv, TypeOK, DoneOK
  <2>3. PICK S \in SUBSET Threads : S = {m_req_fifo}
    BY <1>2 DEF Sees, ExchangeInv, HandshakeInv, TypeOK
  <2>4. \A t \in Threads \ S : PlaceOf(t)' = PlaceOf(t)
    BY <2>1, <2>2, <2>3, StayPut, NoneGranted DEF Sees
  <2>5. ASSUME NEW t \in S
        PROVE  PlaceOf(t)' = IF PlaceOf(t) = "waits" THEN "free" ELSE PlaceOf(t)
    <3>1. /\ PlaceOf(t) = Seen(pc[t], t \in arb_completed, m_req_fifo = t)
          /\ PlaceOf(t)' = Seen(pc[t], t \in arb_completed', m_req_fifo' = t)
          /\ m_req_fifo = t /\ t \in Threads /\ m_req_fifo' # t
      BY <2>1, <2>3, SequencerAssumption DEF Sees, AllSeen
    <3>2. CASE pc[t] = "wait_for_item_done"
      BY <3>1, <3>2 DEF Seen
    <3>3. CASE pc[t] = "wait_for_grant"
      <4>1. t \in arb_completed <=> t \in arb_completed'
        BY <2>1, <3>1, <3>3 DEF NewlyGranted
      <4> QED
        BY <3>1, <3>3, <4>1 DEF Seen
    <3>4. CASE pc[t] \notin {"wait_for_item_done", "wait_for_grant"}
      BY <3>1, <3>4 DEF Seen
    <3> QED
      BY <3>2, <3>3, <3>4
  <2>6. Exchange!Done
    BY <1>2, <2>1, <2>3, <2>4, <2>5 DEF Exchange!Done
  <2> QED
    BY <2>6 DEF ExchangeStep, Exchange!Next
<1> QED
  BY <1>1, <1>2

\* A step of the driver that changes no thread's place.
LEMMA QuietExchange ==
  ASSUME Sees, UNCHANGED <<pc, m_req_fifo>>, NewlyGranted = {},
         arb_completed \subseteq arb_completed'
  PROVE  ExchangeStep
<1>1. \A t \in Threads \ {} : PlaceOf(t)' = PlaceOf(t)
  BY StayPut, NoneGranted DEF Sees
<1> QED
  BY <1>1, UnseenStep

\* The driver's steps other than an arbitration.
LEMMA DriverExchange ==
  ASSUME Sees,
         \/ available_changed \/ peek_returns \/ try_peek
         \/ DriverCallsSequencer \/ item_done
  PROVE  ExchangeStep
<1>1. NewlyGranted = {} /\ UNCHANGED pc
  <2>1. KeepsQuiet
    BY DriverArbitration DEF Sees, ExchangeInv
  <2> QED
    BY <2>1 DEF KeepsQuiet, Quiet, available_changed, peek_returns, try_peek,
                DriverCallsSequencer, request_item, try_next_item, item_done
<1>2. \/ UNCHANGED <<arb_completed, m_req_fifo>>
      \/ item_done_effect
  BY DEF available_changed, peek_returns, try_peek, DriverCallsSequencer, request_item,
         try_next_item, item_done, handshake
<1> QED
  BY <1>1, <1>2, DoneExchange, QuietExchange

\* The chosen thread is granted its item; what else the arbitration grants are locks.
LEMMA GrantExchange ==
  ASSUME Sees, driver.at \in {"select", "try_select"}, UNCHANGED <<pc, m_req_fifo>>,
         NEW C, Shrunk(Lists, C), NEW r \in C.q,
         arb_completed' = arb_completed \union Awaiting(C.granted \union {r})
  PROVE  ExchangeStep
<1>1. /\ C.q \subseteq arb_sequence_q
      /\ \A g \in C.granted : g \in arb_sequence_q /\ g.request = "SEQ_TYPE_LOCK"
  BY ListsFacts, GrantedAreLocks DEF Sees, ExchangeInv, Shrunk
<1>2. HandshakeInv /\ arb_sequence_q \subseteq Request
  BY DEF Sees, ExchangeInv, HandshakeInv, TypeOK
<1>3. ASSUME NEW t \in NewlyGranted
      PROVE  t = r.thread /\ r.request = "SEQ_TYPE_REQ" /\ t \in Threads
  <2>1. PICK g \in C.granted \union {r} : g.thread = t /\ g.awaited /\ Alive(t)
    BY DEF NewlyGranted, Awaiting
  <2>2. g \in arb_sequence_q /\ pc[t] = "wait_for_grant"
    BY <1>1, <2>1 DEF NewlyGranted
  <2>3. g.request \in {"SEQ_TYPE_REQ", "SEQ_TYPE_LOCK"}
    BY <1>2, <2>2, SequenceOfType
  <2>4. g.request = "SEQ_TYPE_REQ"
    BY <1>2, <2>1, <2>2, <2>3 DEF HandshakeInv, QueueOK
  <2> QED
    BY <1>1, <2>1, <2>4 DEF NewlyGranted
<1>4. CASE NewlyGranted = {}
  BY <1>4, QuietExchange
<1>5. CASE NewlyGranted # {}
  <2>1. PICK t \in Threads : t \in NewlyGranted /\ NewlyGranted = {t}
    BY <1>3, <1>5
  <2>2. pc[t] = "wait_for_grant" /\ t \notin arb_completed /\ t \in arb_completed'
    BY <2>1 DEF NewlyGranted
  <2>3. PlaceOf(t) = "asks" /\ PlaceOf(t)' = "granted"
    BY <2>2 DEF Sees, AllSeen, Seen
  <2>4. PICK S \in SUBSET Threads : S = {t}
    OBVIOUS
  <2>5. \A u \in Threads \ S : pc[u] = "wait_for_grant" =>
                                 (u \in arb_completed <=> u \in arb_completed')
    BY <2>1, <2>4 DEF NewlyGranted
  <2>6. \A u \in Threads \ S : PlaceOf(u)' = PlaceOf(u)
    BY <2>5, StayPut DEF Sees
  <2>7. m_req_fifo = NoItem /\ \A u \in Threads : ~HasGrant(u)
    BY <1>2 DEF HandshakeInv, DriverOK, OneItemInFlight
  <2>8. \A u \in Threads : PlaceOf(u) # "granted"
    BY <2>7 DEF PlaceOf
  <2>9. Exchange!Grant(t)
    BY <2>3, <2>4, <2>6, <2>7, <2>8, MoveStep DEF Exchange!Grant
  <2> QED
    BY <2>9 DEF ExchangeStep, Exchange!Next
<1> QED
  BY <1>4, <1>5

\* The arbitration.
LEMMA SelectExchange ==
  ASSUME Sees, m_select_sequence \/ try_select
  PROVE  ExchangeStep
<1>1. driver.at \in {"select", "try_select"} /\ UNCHANGED <<pc, m_req_fifo>>
  BY DEF m_select_sequence, try_select, DriverAt
<1>2. PICK choice \in m_choose_next_request(Lists) :
        \/ \E r \in choice.picks : granted(choice, r, "peek") \/ granted(choice, r, "try_peek")
        \/ none_available(choice) /\ m_wait_for_available_sequence(choice.lists)
        \/ /\ none_available(choice) /\ Commit(choice.lists, {}) /\ DriverReturns
           /\ UNCHANGED fatal
        \/ overran(choice)
  BY DEF m_select_sequence, try_select
<1>3. PICK C : C = choice.lists
  OBVIOUS
<1>4. /\ Shrunk(Lists, C) /\ choice.picks \subseteq C.q
      /\ \A g \in C.granted : g \in arb_sequence_q /\ g.request = "SEQ_TYPE_LOCK"
  BY <1>3, ListsFacts, ChooseShrinks, GrantedAreLocks DEF Sees, ExchangeInv
<1>5. ASSUME NEW r \in choice.picks, NEW next \in {"peek", "try_peek"},
             granted(choice, r, next)
      PROVE  ExchangeStep
  <2>1. arb_completed' = arb_completed \union Awaiting(C.granted \union {r})
    BY <1>3, <1>5 DEF granted, Commit, m_update_lists, delete, ListsOf
  <2> QED
    BY <1>1, <1>4, <2>1, GrantExchange
<1>6. ASSUME arb_completed' = arb_completed \union Awaiting(C.granted)
      PROVE  ExchangeStep
  <2>1. NewlyGranted = {}
    BY <1>4, <1>6, OnlyLocks DEF Sees, ExchangeInv
  <2> QED
    BY <1>1, <1>6, <2>1, QuietExchange
<1>7. CASE none_available(choice) /\ m_wait_for_available_sequence(choice.lists)
  BY <1>3, <1>6, <1>7 DEF m_wait_for_available_sequence
<1>8. CASE none_available(choice) /\ Commit(choice.lists, {})
  <2>1. arb_completed' = arb_completed \union Awaiting(C.granted \union {})
    BY <1>3, <1>8 DEF Commit
  <2> QED
    BY <1>6, <2>1
<1>9. CASE overran(choice)
  <2>1. UNCHANGED arb_completed
    BY <1>9 DEF overran
  <2>2. NewlyGranted = {}
    BY <2>1 DEF NewlyGranted
  <2> QED
    BY <1>1, <2>1, <2>2, QuietExchange
<1> QED
  BY <1>2, <1>5, <1>7, <1>8, <1>9

\* stop_sequences ends every thread and empties the fifo.
LEMMA StopExchange ==
  ASSUME WellBehaved, Sees, HandshakeInv', stop_sequences
  PROVE  ExchangeStep
<1>1. running' = {} /\ m_req_fifo' = NoItem
  BY StopIsTotal DEF stop_sequences, Sees, ExchangeInv
<1>2. \A t \in Threads : pc'[t] = "dead"
  BY <1>1 DEF HandshakeInv, RunningOK
<1>3. \A t \in Threads : PlaceOf(t)' = "gone"
  BY <1>2 DEF Sees, AllSeen, Seen
<1>4. Exchange!Reset
  BY <1>1, <1>3 DEF Exchange!Reset
<1> QED
  BY <1>4 DEF ExchangeStep, Exchange!Next

\* Every step of the sequencer is a step of the exchange or none.
LEMMA NextExchange ==
  ASSUME WellBehaved, Sees, HandshakeInv', [Next]_vars
  PROVE  ExchangeStep
<1>1. CASE UNCHANGED vars
  <2>1. UNCHANGED <<pc, m_req_fifo, arb_completed>>
    BY <1>1 DEF vars, handshake
  <2>2. NewlyGranted = {}
    BY <2>1 DEF NewlyGranted
  <2> QED
    BY <2>1, <2>2, QuietExchange
<1>2. CASE stop_sequences
  BY <1>2, StopExchange
<1> QED
  BY <1>1, <1>2, SequenceExchange, CallExchange, ProceedsExchange, DriverExchange,
     SelectExchange
  DEF Next, DriverProceeds

-----------------------------------------------------------------------------
\* A thread in wait_for_item_done whose item is in the fifo has not been told of
\* another item's end.
THEOREM Freshness == ASSUME WellBehaved PROVE Spec => []ExchangeInv
<1>1. Init => ExchangeInv
  BY InitHandshake DEF Init, ExchangeInv, FreshWait
<1>2. ExchangeInv /\ [Next]_vars => ExchangeInv'
  BY NextHandshake, NextFresh DEF ExchangeInv
<1> QED
  BY <1>1, <1>2, PTL DEF Spec

\* The sequencer implements the exchange of items, with any number of sequences,
\* threads, locks, kills and resets (uvm_sequencer_base.svh:1103, uvm_sequencer.svh:288).
THEOREM ExchangeKept == ASSUME WellBehaved PROVE Spec => ImplementsExchange
<1>1. Init => Exchange!Init
  <2> SUFFICES ASSUME Init PROVE Exchange!Init
    OBVIOUS
  <2>1. \A t \in Threads : PlaceOf(t) = "gone"
    BY DEF Init, PlaceOf, HasGrant
  <2> QED
    BY <2>1 DEF Init, Exchange!Init
<1>2. ExchangeInv /\ ArbitrationInv /\ AllSeen /\ ExchangeInv' /\ AllSeen' /\ [Next]_vars
        => [Exchange!Next]_<<[t \in Threads |-> PlaceOf(t)], m_req_fifo>>
  BY NextExchange DEF Sees, ExchangeStep, ExchangeInv
<1> QED
  BY <1>1, <1>2, Places, Freshness, Arbitrated, PTL
  DEF Spec, ImplementsExchange, Exchange!Spec
=============================================================================
