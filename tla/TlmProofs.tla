----------------------------- MODULE TlmProofs -----------------------------
(***************************************************************************)
(* The transport channel for any number of callers, calls and killings.    *)
(* ChannelInv ties the lists of the mailboxes to the places of the threads *)
(* and the counts of blocked gets to these lists; with it, an answer goes  *)
(* to who asked as long as nobody has left a request behind.               *)
(***************************************************************************)
EXTENDS TlmProperties, CommonLemmas

Threads == Callers \union {slave, scoreboard}
Places == {"idle", "put", "peek", "get", "dead"}
Items == Callers \X Nat

\* A fifo of this size: its count of blocked gets is the gets that are in it
\* and the ones that were killed.
Fifo(size) == [m_size : {size}, m : Seq(Items), puts : Seq(Threads), gets : Seq(Threads),
               m_pending_blocked_gets : Nat]
FifoOK(f, size, killed) ==
  /\ f \in Fifo(size)
  /\ f.m_pending_blocked_gets = Len(f.gets) + killed

\* A list holds the callers that are at this place, each of them once.
ListsCallers(list, at, place) ==
  /\ list \in Seq(Callers)
  /\ \A i, j \in 1 .. Len(list) : list[i] = list[j] => i = j
  /\ \A i \in 1 .. Len(list) : at[list[i]] = place
  /\ \A c \in Callers : at[c] = place => \E i \in 1 .. Len(list) : list[i] = c

\* A list holds this thread, if the thread is at this place.
ListsThread(list, p, at, place) == list = IF at[p] = place THEN <<p>> ELSE <<>>

TypeOK ==
  /\ FifoOK(m_request_fifo, 1, killed_gets.request)
  /\ FifoOK(m_response_fifo, 1, killed_gets.response)
  /\ FifoOK(analysis_fifo, 0, killed_gets.analysis)
  /\ pc \in [Threads -> Places]
  /\ calls \in [Callers -> Nat]
  /\ serving \in Items \union {None}
  /\ returned \in (Callers \X Items) \union {None}
  /\ orphans \in Nat /\ lost \in Nat
  /\ killed_gets \in [request : Nat, response : Nat, analysis : Nat]

ListsOK ==
  /\ ListsCallers(m_request_fifo.puts, pc, "put")
  /\ ListsThread(m_request_fifo.gets, slave, pc, "get")
  /\ ListsThread(m_response_fifo.puts, slave, pc, "put")
  /\ ListsCallers(m_response_fifo.gets, pc, "get")
  /\ analysis_fifo.puts = <<>>
  /\ ListsThread(analysis_fifo.gets, scoreboard, pc, "get")

ServingOK == serving = None <=> pc[slave] # "put"

ChannelInv == TypeOK /\ ListsOK /\ ServingOK /\ ResponsesInOrder

-----------------------------------------------------------------------------
(* The lists of the mailboxes. *)

LEMMA CallerJoins ==
  ASSUME NEW at \in [Threads -> Places], NEW list, NEW place \in Places,
         ListsCallers(list, at, place), NEW c \in Callers, at[c] # place
  PROVE  ListsCallers(Append(list, c), [at EXCEPT ![c] = place], place)
  BY AppendProperties DEF ListsCallers, Threads

LEMMA CallerLeaves ==
  ASSUME NEW at \in [Threads -> Places], NEW list, NEW place \in Places,
         ListsCallers(list, at, place), NEW q \in Places \ {place}, list # <<>>
  PROVE  /\ Head(list) \in Callers /\ at[Head(list)] = place
         /\ ListsCallers(Tail(list), [at EXCEPT ![Head(list)] = q], place)
  <1> USE DEF ListsCallers
  <1>1. /\ Tail(list) \in Seq(Callers) /\ Len(Tail(list)) = Len(list) - 1
        /\ \A i \in 1 .. Len(Tail(list)) : Tail(list)[i] = list[i + 1]
    BY HeadTailProperties
  <1>2. Len(list) \in Nat /\ Len(list) > 0 /\ Head(list) = list[1]
    BY EmptySeq
  <1>3. \A i \in 1 .. Len(Tail(list)) : Tail(list)[i] # list[1]
    BY <1>1, <1>2
  <1>4. \A c \in Callers \ {list[1]} : at[c] = place =>
          \E i \in 1 .. Len(Tail(list)) : Tail(list)[i] = c
    <2> SUFFICES ASSUME NEW c \in Callers \ {list[1]}, at[c] = place
                 PROVE  \E i \in 1 .. Len(Tail(list)) : Tail(list)[i] = c
      OBVIOUS
    <2>1. PICK i \in 1 .. Len(list) : list[i] = c
      OBVIOUS
    <2>2. i # 1 /\ i - 1 \in 1 .. Len(Tail(list)) /\ (i - 1) + 1 = i
      BY <2>1, <1>1, <1>2
    <2>3. Tail(list)[i - 1] = c
      BY <2>1, <2>2, <1>1
    <2> QED BY <2>2, <2>3
  <1> DEFINE to == [at EXCEPT ![list[1]] = q]
  <1>5. list[1] \in Callers /\ at[list[1]] = place
    BY <1>2
  <1>6. \A p \in Threads : to[p] = IF p = list[1] THEN q ELSE at[p]
    BY <1>5 DEF Threads
  <1>7. \A i \in 1 .. Len(Tail(list)) : to[Tail(list)[i]] = place
    BY <1>1, <1>3, <1>6 DEF Threads
  <1>8. \A c \in Callers : to[c] = place => \E i \in 1 .. Len(Tail(list)) : Tail(list)[i] = c
    BY <1>4, <1>6 DEF Threads
  <1>9. \A i, j \in 1 .. Len(Tail(list)) : Tail(list)[i] = Tail(list)[j] => i = j
    BY <1>1, <1>2
  <1> QED BY <1>1, <1>2, <1>5, <1>7, <1>8, <1>9

\* The step of a thread that neither leaves nor enters this place.
LEMMA CallersStay ==
  ASSUME NEW at \in [Threads -> Places], NEW list, NEW place \in Places,
         ListsCallers(list, at, place), NEW p \in Threads, NEW q \in Places,
         p \in Callers => at[p] # place /\ q # place
  PROVE  ListsCallers(list, [at EXCEPT ![p] = q], place)
  BY DEF ListsCallers, Threads

LEMMA ThreadStays ==
  ASSUME ChannelAssumption, NEW at \in [Threads -> Places], NEW t \in {slave, scoreboard},
         NEW list, NEW place \in Places, ListsThread(list, t, at, place),
         NEW p \in Threads, NEW q \in Places, p = t => at[p] # place /\ q # place
  PROVE  ListsThread(list, t, [at EXCEPT ![p] = q], place)
  BY DEF ListsThread, Threads

LEMMA CallerRemoved ==
  ASSUME NEW at \in [Threads -> Places], NEW list, NEW place \in Places,
         ListsCallers(list, at, place), NEW p \in Threads, NEW q \in Places \ {place}
  PROVE  /\ ListsCallers(RemoveFirst(list, p), [at EXCEPT ![p] = q], place)
         /\ p \in Callers /\ at[p] = place => Len(RemoveFirst(list, p)) = Len(list) - 1
         /\ ~(p \in Callers /\ at[p] = place) => RemoveFirst(list, p) = list
  <1> USE DEF ListsCallers
  <1>1. CASE ~(p \in Callers /\ at[p] = place)
    <2>1. \A i \in 1 .. Len(list) : list[i] # p
      BY <1>1
    <2>2. RemoveFirst(list, p) = list
      BY <2>1, RemoveOther
    <2> QED BY <1>1, <2>2 DEF Threads
  <1>2. CASE p \in Callers /\ at[p] = place
    <2> DEFINE rest == RemoveFirst(list, p)
               to == [at EXCEPT ![p] = q]
    <2> HIDE DEF rest
    <2>0. list \in Seq(Callers)
      OBVIOUS
    <2>1. PICK k \in 1 .. Len(list) : list[k] = p
      BY <1>2
    <2>2. rest \in Seq(Callers) /\ LacksOne(rest, list, p)
      BY <2>0, <2>1, RemoveLemma DEF rest
    <2>3. PICK n \in 1 .. Len(list) :
               /\ list[n] = p
               /\ \A i \in 1 .. Len(rest) : rest[i] = IF i < n THEN list[i] ELSE list[i + 1]
      BY <2>2 DEF LacksOne
    <2>9. Len(rest) = Len(list) - 1
      BY <2>2 DEF LacksOne
    <2>4. \A r \in Threads : to[r] = IF r = p THEN q ELSE at[r]
      OBVIOUS
    <2> HIDE DEF to
    <2>5. \A i \in 1 .. Len(rest) : rest[i] # p /\ at[rest[i]] = place
      BY <2>2, <2>3, <2>9
    <2>6. \A i, j \in 1 .. Len(rest) : rest[i] = rest[j] => i = j
      BY <2>2, <2>3, <2>9
    <2>7. ASSUME NEW c \in Callers, to[c] = place
          PROVE  \E i \in 1 .. Len(rest) : rest[i] = c
      <3>1. c # p /\ at[c] = place
        BY <2>7, <2>4 DEF Threads
      <3>2. PICK i \in 1 .. Len(list) : list[i] = c
        BY <3>1
      <3>3. CASE i < n
        <4>1. i \in 1 .. Len(rest)
          BY <3>3, <2>9
        <4>2. rest[i] = list[i]
          BY <4>1, <3>3, <2>3
        <4>3. rest[i] = c
          BY <4>2, <3>2, Zenon
        <4> QED BY <4>1, <4>3, Zenon
      <3>4. CASE i > n
        <4>1. i - 1 \in 1 .. Len(rest) /\ (i - 1) + 1 = i /\ ~(i - 1 < n)
          BY <3>4, <2>9
        <4>2. rest[i - 1] = list[(i - 1) + 1]
          BY <4>1, <2>3, Zenon
        <4>3. rest[i - 1] = c
          BY <4>1, <4>2, <3>2, Zenon
        <4> QED BY <4>1, <4>3, Zenon
      <3>5. i # n
        BY <3>1, <3>2, <2>3
      <3> QED BY <3>3, <3>4, <3>5
    <2>8. \A i \in 1 .. Len(rest) : to[rest[i]] = place
      BY <2>2, <2>4, <2>5 DEF Threads
    <2> QED BY <1>2, <2>2, <2>9, <2>6, <2>7, <2>8 DEF rest, to
  <1> QED BY <1>1, <1>2

-----------------------------------------------------------------------------
(* What the calls do to a fifo. *)

LEMMA PushOK ==
  ASSUME NEW f, NEW size \in Nat, NEW killed \in Nat, FifoOK(f, size, killed), NEW t \in Items
  PROVE  /\ FifoOK(push_back(f, t), size, killed)
         /\ push_back(f, t).m = Append(f.m, t)
         /\ push_back(f, t).puts = f.puts /\ push_back(f, t).gets = f.gets
  BY AppendProperties DEF FifoOK, Fifo, push_back

LEMMA PopOK ==
  ASSUME NEW f, NEW size \in Nat, NEW killed \in Nat, FifoOK(f, size, killed), f.m # <<>>
  PROVE  /\ FifoOK(pop_front(f), size, killed)
         /\ pop_front(f).m = Tail(f.m) /\ Head(f.m) \in Items
         /\ pop_front(f).puts = f.puts /\ pop_front(f).gets = f.gets
  BY HeadTailProperties DEF FifoOK, Fifo, pop_front

LEMMA PutOK ==
  ASSUME NEW f, NEW size \in Nat, NEW killed \in Nat, FifoOK(f, size, killed), NEW p \in Threads
  PROVE  /\ FifoOK(put(f, p), size, killed)
         /\ put(f, p).puts = Append(f.puts, p)
         /\ put(f, p).m = f.m /\ put(f, p).gets = f.gets
  BY AppendProperties DEF FifoOK, Fifo, put

LEMMA PutEndsOK ==
  ASSUME NEW f, NEW size \in Nat, NEW killed \in Nat, FifoOK(f, size, killed),
         f.puts # <<>>, NEW t \in Items
  PROVE  /\ FifoOK(put_ends(f, t), size, killed)
         /\ put_ends(f, t).puts = Tail(f.puts)
         /\ put_ends(f, t).m = Append(f.m, t) /\ put_ends(f, t).gets = f.gets
  BY AppendProperties, HeadTailProperties DEF FifoOK, Fifo, put_ends, push_back

LEMMA GetOK ==
  ASSUME NEW f, NEW size \in Nat, NEW killed \in Nat, FifoOK(f, size, killed), NEW p \in Threads
  PROVE  /\ FifoOK(get(f, p), size, killed)
         /\ get(f, p).gets = Append(f.gets, p)
         /\ get(f, p).m = f.m /\ get(f, p).puts = f.puts
  <1>1. Append(f.gets, p) \in Seq(Threads) /\ Len(Append(f.gets, p)) = Len(f.gets) + 1
    BY AppendProperties DEF FifoOK, Fifo
  <1>2. f \in Fifo(size) /\ f.m_pending_blocked_gets + 1 \in Nat
    BY DEF FifoOK, Fifo
  <1>3. PICK n \in Nat : n = f.m_pending_blocked_gets + 1
    BY <1>2, Zenon
  <1>4. get(f, p) = [f EXCEPT !.gets = Append(f.gets, p), !.m_pending_blocked_gets = n]
    BY <1>2, <1>3 DEF Fifo, get
  <1>5. /\ get(f, p) \in Fifo(size) /\ get(f, p).gets = Append(f.gets, p)
        /\ get(f, p).m_pending_blocked_gets = n
        /\ get(f, p).m = f.m /\ get(f, p).puts = f.puts
    BY <1>1, <1>2, <1>4 DEF Fifo
  <1>6. n = Len(f.gets) + 1 + killed
    BY <1>3, LenProperties DEF FifoOK, Fifo
  <1> QED BY <1>1, <1>5, <1>6 DEF FifoOK, Fifo

LEMMA GetEndsOK ==
  ASSUME NEW f, NEW size \in Nat, NEW killed \in Nat, FifoOK(f, size, killed),
         f.gets # <<>>, f.m # <<>>
  PROVE  /\ FifoOK(get_ends(f), size, killed)
         /\ get_ends(f).gets = Tail(f.gets)
         /\ get_ends(f).m = Tail(f.m) /\ get_ends(f).puts = f.puts /\ Head(f.m) \in Items
  <1>1. /\ Tail(f.gets) \in Seq(Threads) /\ Len(Tail(f.gets)) = Len(f.gets) - 1
        /\ Tail(f.m) \in Seq(Items) /\ Head(f.m) \in Items
        /\ Len(f.gets) \in Nat \ {0}
    BY HeadTailProperties, EmptySeq DEF FifoOK, Fifo
  <1>2. f.m_pending_blocked_gets - 1 \in Nat /\ f \in Fifo(size)
    BY <1>1 DEF FifoOK, Fifo
  <1>3. PICK n \in Nat : n = f.m_pending_blocked_gets - 1
    BY <1>2, Zenon
  <1> DEFINE g == [f EXCEPT !.gets = Tail(f.gets), !.m_pending_blocked_gets = n]
  <1>4. get_ends(f) = [g EXCEPT !.m = Tail(f.m)]
    BY <1>2, <1>3 DEF Fifo, get_ends, pop_front
  <1>5. /\ g \in Fifo(size) /\ g.gets = Tail(f.gets)
        /\ g.m_pending_blocked_gets = n /\ g.puts = f.puts
    BY <1>1, <1>2 DEF Fifo
  <1> HIDE DEF g
  <1>6. /\ get_ends(f) \in Fifo(size) /\ get_ends(f).gets = Tail(f.gets)
        /\ get_ends(f).m_pending_blocked_gets = n
        /\ get_ends(f).m = Tail(f.m) /\ get_ends(f).puts = f.puts
    BY <1>1, <1>4, <1>5 DEF Fifo
  <1>7. n = Len(f.gets) - 1 + killed
    BY <1>1, <1>3 DEF FifoOK, Fifo
  <1> QED BY <1>1, <1>6, <1>7 DEF FifoOK, Fifo

\* The gets that leave with a killed process become killed gets.
LEMMA KilledOK ==
  ASSUME NEW f, NEW size \in Nat, NEW killed \in Nat, FifoOK(f, size, killed),
         NEW p \in Threads, NEW more \in Nat,
         RemoveFirst(f.puts, p) \in Seq(Threads), RemoveFirst(f.gets, p) \in Seq(Threads),
         Len(RemoveFirst(f.gets, p)) = Len(f.gets) - more
  PROVE  /\ FifoOK(Killed(f, p), size, killed + more)
         /\ Killed(f, p).puts = RemoveFirst(f.puts, p)
         /\ Killed(f, p).gets = RemoveFirst(f.gets, p) /\ Killed(f, p).m = f.m
  <1>1. /\ Killed(f, p) \in Fifo(size)
        /\ Killed(f, p).puts = RemoveFirst(f.puts, p)
        /\ Killed(f, p).gets = RemoveFirst(f.gets, p) /\ Killed(f, p).m = f.m
        /\ Killed(f, p).m_pending_blocked_gets = f.m_pending_blocked_gets
    BY DEF FifoOK, Fifo, Killed
  <1>2. Len(f.gets) \in Nat
    BY LenProperties DEF FifoOK, Fifo
  <1>3. f.m_pending_blocked_gets = Len(RemoveFirst(f.gets, p)) + (killed + more)
    BY <1>2 DEF FifoOK, Fifo
  <1> QED BY <1>1, <1>3 DEF FifoOK, Fifo

LEMMA FlushOK ==
  ASSUME NEW f, NEW size \in Nat, NEW killed \in Nat, FifoOK(f, size, killed)
  PROVE  /\ FifoOK(flush(f), size, killed)
         /\ Len(flush(f).m) = IF Len(f.m) > Len(f.gets) THEN Len(f.gets) ELSE Len(f.m)
         /\ flush(f).puts = f.puts /\ flush(f).gets = f.gets
         /\ flush(f).m_pending_blocked_gets = f.m_pending_blocked_gets
  <1>1. Len(f.m) \in Nat /\ Len(f.gets) \in Nat /\ f.m \in Seq(Items)
    BY LenProperties DEF FifoOK, Fifo
  <1>2. CASE Len(f.m) > Len(f.gets)
    <2> DEFINE rest == SubSeq(f.m, Len(f.m) - Len(f.gets) + 1, Len(f.m))
    <2>1. \A i \in (Len(f.m) - Len(f.gets) + 1) .. Len(f.m) : f.m[i] \in Items
      BY <1>1, <1>2, ElementOfSeq
    <2>2. rest \in Seq(Items) /\ Len(rest) = Len(f.gets)
      <3>0. Len(f.m) - Len(f.gets) + 1 \in Int
        BY <1>1
      <3>1. PICK first \in Int : first = Len(f.m) - Len(f.gets) + 1
        BY <3>0, Zenon
      <3>2. \A i \in first .. Len(f.m) : f.m[i] \in Items
        BY <2>1, <3>1
      <3>3. /\ SubSeq(f.m, first, Len(f.m)) \in Seq(Items)
            /\ Len(SubSeq(f.m, first, Len(f.m))) =
                 IF first <= Len(f.m) THEN Len(f.m) - first + 1 ELSE 0
        BY <1>1, <3>2, SubSeqProperties
      <3>4. Len(f.gets) = IF first <= Len(f.m) THEN Len(f.m) - first + 1 ELSE 0
        BY <1>1, <3>1
      <3> QED BY <3>1, <3>3, <3>4
    <2>3. flush(f) = [f EXCEPT !.m = rest]
      BY <1>2 DEF flush, Unclaimed, used
    <2> HIDE DEF rest
    <2> QED BY <1>2, <2>2, <2>3 DEF FifoOK, Fifo
  <1>3. CASE ~(Len(f.m) > Len(f.gets))
    BY <1>3 DEF FifoOK, Fifo, flush, Unclaimed, used
  <1> QED BY <1>2, <1>3

-----------------------------------------------------------------------------
(* The requests in the channel, and who asked. *)

Askers(q) == [i \in 1 .. Len(q) |-> q[i][1]]
Served(request) == IF request = None THEN <<>> ELSE <<request[1]>>

LEMMA AskersType ==
  ASSUME NEW q \in Seq(Items)
  PROVE  /\ Askers(q) \in Seq(Callers) /\ Len(Askers(q)) = Len(q)
         /\ \A i \in 1 .. Len(q) : Askers(q)[i] = q[i][1]
  <1>1. Len(q) \in Nat /\ \A i \in 1 .. Len(q) : q[i][1] \in Callers
    BY LenProperties, ElementOfSeq DEF Items
  <1> QED BY <1>1 DEF Askers

LEMMA AskersAppend ==
  ASSUME NEW q \in Seq(Items), NEW t \in Items
  PROVE  Askers(Append(q, t)) = Append(Askers(q), t[1])
  <1>1. Append(q, t) \in Seq(Items) /\ t[1] \in Callers
    BY AppendProperties DEF Items
  <1>2. /\ Len(Append(q, t)) = Len(q) + 1 /\ Append(q, t)[Len(q) + 1] = t
        /\ \A i \in 1 .. Len(q) : Append(q, t)[i] = q[i]
        /\ Len(q) \in Nat
    BY AppendProperties, LenProperties
  <1>3. /\ Askers(Append(q, t)) \in Seq(Callers)
        /\ Len(Askers(Append(q, t))) = Len(q) + 1
        /\ \A i \in 1 .. Len(q) + 1 : Askers(Append(q, t))[i] = Append(q, t)[i][1]
    BY <1>1, <1>2, AskersType
  <1>4. /\ Askers(q) \in Seq(Callers) /\ Len(Askers(q)) = Len(q)
        /\ \A i \in 1 .. Len(q) : Askers(q)[i] = q[i][1]
    BY AskersType
  <1>5. /\ Append(Askers(q), t[1]) \in Seq(Callers)
        /\ Len(Append(Askers(q), t[1])) = Len(q) + 1
        /\ Append(Askers(q), t[1])[Len(q) + 1] = t[1]
        /\ \A i \in 1 .. Len(q) : Append(Askers(q), t[1])[i] = Askers(q)[i]
    BY <1>1, <1>4, AppendProperties
  <1>6. ASSUME NEW i \in 1 .. Len(q) + 1
        PROVE  Askers(Append(q, t))[i] = Append(Askers(q), t[1])[i]
    <2>1. CASE i = Len(q) + 1
      BY <2>1, <1>2, <1>3, <1>5
    <2>2. CASE i # Len(q) + 1
      <3>1. i \in 1 .. Len(q)
        BY <2>2, <1>2
      <3> QED BY <3>1, <1>2, <1>3, <1>4, <1>5
    <2> QED BY <2>1, <2>2
  <1> QED BY <1>3, <1>5, <1>6, SeqEqual

LEMMA AskersTail ==
  ASSUME NEW q \in Seq(Items), q # <<>>
  PROVE  /\ Askers(Tail(q)) = Tail(Askers(q)) /\ Head(Askers(q)) = Head(q)[1]
         /\ Askers(q) # <<>> /\ Head(q) \in Items
  <1>1. /\ Tail(q) \in Seq(Items) /\ Len(q) \in Nat \ {0} /\ Len(Tail(q)) = Len(q) - 1
        /\ \A i \in 1 .. Len(Tail(q)) : Tail(q)[i] = q[i + 1]
        /\ Head(q) \in Items /\ Head(q) = q[1]
    BY HeadTailProperties, EmptySeq
  <1>2. /\ Askers(q) \in Seq(Callers) /\ Len(Askers(q)) = Len(q)
        /\ \A i \in 1 .. Len(q) : Askers(q)[i] = q[i][1]
    BY AskersType
  <1>3. /\ Askers(Tail(q)) \in Seq(Callers) /\ Len(Askers(Tail(q))) = Len(q) - 1
        /\ \A i \in 1 .. Len(q) - 1 : Askers(Tail(q))[i] = q[i + 1][1]
    BY <1>1, AskersType, ZenonT(40)
  <1>4. Askers(q) # <<>> /\ Head(Askers(q)) = Askers(q)[1]
    BY <1>1, <1>2, EmptySeq
  <1>5. /\ Tail(Askers(q)) \in Seq(Callers) /\ Len(Tail(Askers(q))) = Len(q) - 1
        /\ \A i \in 1 .. Len(q) - 1 : Tail(Askers(q))[i] = Askers(q)[i + 1]
    BY <1>2, <1>4, HeadTailProperties
  <1>6. \A i \in 1 .. Len(q) - 1 : i + 1 \in 1 .. Len(q)
    BY <1>1
  <1>7. \A i \in 1 .. Len(q) - 1 : Askers(Tail(q))[i] = Tail(Askers(q))[i]
    BY <1>2, <1>3, <1>5, <1>6
  <1>8. Askers(Tail(q)) = Tail(Askers(q))
    BY <1>3, <1>5, <1>7, SeqEqual
  <1> QED BY <1>1, <1>2, <1>4, <1>8

LEMMA InFlightParts ==
  ASSUME TypeOK
  PROVE  /\ InFlight = (Askers(m_response_fifo.m) \o Served(serving)) \o Askers(m_request_fifo.m)
         /\ Askers(m_response_fifo.m) \in Seq(Callers)
         /\ Askers(m_request_fifo.m) \in Seq(Callers)
         /\ Served(serving) \in Seq(Callers)
         /\ InFlight \in Seq(Callers)
         /\ Len(InFlight) = Len(m_response_fifo.m) + Len(Served(serving)) + Len(m_request_fifo.m)
  <1>1. InFlight = (Askers(m_response_fifo.m) \o Served(serving)) \o Askers(m_request_fifo.m)
    BY DEF InFlight, Askers, Served
  <1>2. m_response_fifo.m \in Seq(Items) /\ m_request_fifo.m \in Seq(Items)
    BY DEF TypeOK, FifoOK, Fifo
  <1>3. /\ Askers(m_response_fifo.m) \in Seq(Callers)
        /\ Askers(m_request_fifo.m) \in Seq(Callers)
        /\ Len(Askers(m_response_fifo.m)) = Len(m_response_fifo.m)
        /\ Len(Askers(m_request_fifo.m)) = Len(m_request_fifo.m)
    BY <1>2, AskersType
  <1>4. Served(serving) \in Seq(Callers)
    BY DEF Served, TypeOK, Items
  <1> DEFINE A == Askers(m_response_fifo.m)
             B == Served(serving)
             C == Askers(m_request_fifo.m)
  <1> HIDE DEF A, B, C
  <1>5. A \o B \in Seq(Callers) /\ Len(A \o B) = Len(A) + Len(B)
    BY <1>3, <1>4, ConcatProperties DEF A, B
  <1>6. (A \o B) \o C \in Seq(Callers) /\ Len((A \o B) \o C) = Len(A) + Len(B) + Len(C)
    <2>1. C \in Seq(Callers) /\ Len(A) \in Nat /\ Len(B) \in Nat /\ Len(C) \in Nat
      BY <1>3, <1>4, LenProperties DEF A, B, C
    <2> QED BY <2>1, <1>5, ConcatProperties
  <1> QED BY <1>1, <1>3, <1>4, <1>6 DEF A, B, C

\* The four ways in which the requests in the channel change.
LEMMA RequestPut ==
  ASSUME NEW S, NEW a \in Seq(S), NEW b \in Seq(S), NEW c \in Seq(S), NEW e \in S
  PROVE  (a \o b) \o Append(c, e) = Append((a \o b) \o c, e)
  <1>1. a \o b \in Seq(S) /\ (a \o b) \o c \in Seq(S) /\ <<e>> \in Seq(S)
    BY ConcatProperties
  <1>2. Append(c, e) = c \o <<e>> /\ Append((a \o b) \o c, e) = ((a \o b) \o c) \o <<e>>
    BY <1>1, AppendIsConcat
  <1> QED BY <1>1, <1>2, ConcatAssociative

LEMMA RequestServed ==
  ASSUME NEW S, NEW a \in Seq(S), NEW c \in Seq(S), c # <<>>
  PROVE  (a \o <<>>) \o c = (a \o <<Head(c)>>) \o Tail(c)
  <1>1. /\ Head(c) \in S /\ Tail(c) \in Seq(S) /\ Len(Tail(c)) = Len(c) - 1 /\ Head(c) = c[1]
        /\ \A i \in 1 .. Len(Tail(c)) : Tail(c)[i] = c[i + 1]
        /\ Len(c) \in Nat \ {0}
    BY HeadTailProperties, EmptySeq
  <1>2. <<Head(c)>> \in Seq(S) /\ a \o <<Head(c)>> \in Seq(S) /\ <<Head(c)>> \o Tail(c) \in Seq(S)
    BY <1>1, ConcatProperties
  <1>3. <<Head(c)>> \o Tail(c) = c
    <2>1. Len(<<Head(c)>> \o Tail(c)) = Len(c)
      BY <1>1, <1>2, ConcatProperties
    <2>2. \A i \in 1 .. Len(c) : (<<Head(c)>> \o Tail(c))[i] = c[i]
      BY <1>1, <1>2, ConcatProperties
    <2> QED BY <1>2, <2>1, <2>2, SeqEqual
  <1>4. (a \o <<Head(c)>>) \o Tail(c) = a \o (<<Head(c)>> \o Tail(c))
    BY <1>1, <1>2, ConcatAssociative
  <1> QED BY <1>3, <1>4, ConcatEmptySeq

LEMMA RequestAnswered ==
  ASSUME NEW S, NEW a \in Seq(S), NEW c \in Seq(S), NEW e \in S
  PROVE  (a \o <<e>>) \o c = (Append(a, e) \o <<>>) \o c
  <1>1. Append(a, e) = a \o <<e>> /\ Append(a, e) \in Seq(S)
    BY AppendIsConcat, AppendProperties
  <1> QED BY <1>1, ConcatEmptySeq

LEMMA AnswerTaken ==
  ASSUME NEW S, NEW a \in Seq(S), NEW b \in Seq(S), NEW c \in Seq(S), a # <<>>
  PROVE  /\ (Tail(a) \o b) \o c = Tail((a \o b) \o c)
         /\ Head((a \o b) \o c) = Head(a)
  <1> DEFINE d == b \o c
  <1>1. /\ Tail(a) \in Seq(S) /\ Len(Tail(a)) = Len(a) - 1 /\ Len(a) \in Nat \ {0}
        /\ \A i \in 1 .. Len(a) - 1 : Tail(a)[i] = a[i + 1]
    BY HeadTailProperties, EmptySeq
  <1>2. d \in Seq(S) /\ Len(d) \in Nat
    BY ConcatProperties, LenProperties
  <1>3. (Tail(a) \o b) \o c = Tail(a) \o d /\ (a \o b) \o c = a \o d
    <2>1. Tail(a) \in Seq(S)
      BY <1>1
    <2> QED BY <2>1, ConcatAssociative, SMTT(40)
  <1> HIDE DEF d
  <1>4. /\ a \o d \in Seq(S) /\ Len(a \o d) = Len(a) + Len(d)
        /\ \A i \in 1 .. Len(a) + Len(d) :
             (a \o d)[i] = IF i <= Len(a) THEN a[i] ELSE d[i - Len(a)]
    BY <1>2, ConcatProperties
  <1>5. /\ Tail(a) \o d \in Seq(S) /\ Len(Tail(a) \o d) = Len(Tail(a)) + Len(d)
        /\ \A i \in 1 .. Len(Tail(a)) + Len(d) :
             (Tail(a) \o d)[i] = IF i <= Len(Tail(a)) THEN Tail(a)[i] ELSE d[i - Len(Tail(a))]
    BY <1>1, <1>2, ConcatProperties
  <1>6. a \o d # <<>> /\ Head(a \o d) = (a \o d)[1]
    BY <1>1, <1>2, <1>4, EmptySeq
  <1>7. /\ Tail(a \o d) \in Seq(S) /\ Len(Tail(a \o d)) = Len(a) + Len(d) - 1
        /\ \A i \in 1 .. Len(a) + Len(d) - 1 : Tail(a \o d)[i] = (a \o d)[i + 1]
    BY <1>4, <1>6, HeadTailProperties
  <1>8. ASSUME NEW i \in 1 .. Len(a) + Len(d) - 1
        PROVE  (Tail(a) \o d)[i] = Tail(a \o d)[i]
    <2>1. CASE i <= Len(a) - 1
      BY <2>1, <1>1, <1>2, <1>4, <1>5, <1>7
    <2>2. CASE i > Len(a) - 1
      <3>1. i - (Len(a) - 1) = (i + 1) - Len(a)
        BY <1>1
      <3>2. (Tail(a) \o d)[i] = d[i - (Len(a) - 1)]
        BY <2>2, <1>1, <1>2, <1>5
      <3>3. Tail(a \o d)[i] = d[(i + 1) - Len(a)]
        BY <2>2, <1>1, <1>2, <1>4, <1>7
      <3> QED BY <3>1, <3>2, <3>3
    <2> QED BY <2>1, <2>2, <1>1
  <1>9. Tail(a) \o d = Tail(a \o d)
    BY <1>1, <1>2, <1>5, <1>7, <1>8, SeqEqual
  <1>10. Head(a \o d) = Head(a)
    <2>1. 1 \in 1 .. Len(a) + Len(d) /\ 1 <= Len(a) /\ Head(a) = a[1]
      BY <1>1, <1>2
    <2> QED BY <2>1, <1>4, <1>6
  <1> QED BY <1>3, <1>9, <1>10

-----------------------------------------------------------------------------
(* The steps. *)

\* What every step may use of ChannelInv.
LEMMA Facts ==
  ASSUME ChannelInv
  PROVE  /\ FifoOK(m_request_fifo, 1, killed_gets.request)
         /\ FifoOK(m_response_fifo, 1, killed_gets.response)
         /\ FifoOK(analysis_fifo, 0, killed_gets.analysis)
         /\ killed_gets.request \in Nat /\ killed_gets.response \in Nat
         /\ killed_gets.analysis \in Nat
         /\ m_request_fifo.m \in Seq(Items) /\ m_response_fifo.m \in Seq(Items)
         /\ \A c \in Callers : c \in Threads /\ Request(c) \in Items
         /\ slave \in Threads /\ scoreboard \in Threads
  BY DEF ChannelInv, TypeOK, FifoOK, Fifo, Threads, Request, Items

\* A step that leaves the requests where they are, and the callers who wait.
LEMMA SameInFlight ==
  ASSUME ResponsesInOrder, m_request_fifo'.m = m_request_fifo.m,
         m_response_fifo'.m = m_response_fifo.m, m_response_fifo'.gets = m_response_fifo.gets,
         UNCHANGED <<serving, returned, orphans, lost>>
  PROVE  ResponsesInOrder'
  BY DEF ResponsesInOrder, InFlight

\* The lists that the step of a thread p does not touch are still right.
LEMMA OtherListsStay ==
  ASSUME ChannelAssumption, ListsOK, pc \in [Threads -> Places],
         NEW p \in Threads, NEW q \in Places, pc' = [pc EXCEPT ![p] = q]
  PROVE  /\ (p \in Callers => pc[p] # "put" /\ q # "put")
              => ListsCallers(m_request_fifo.puts, pc', "put")
         /\ (p \in Callers => pc[p] # "get" /\ q # "get")
              => ListsCallers(m_response_fifo.gets, pc', "get")
         /\ (p = slave => pc[p] # "get" /\ q # "get")
              => ListsThread(m_request_fifo.gets, slave, pc', "get")
         /\ (p = slave => pc[p] # "put" /\ q # "put")
              => ListsThread(m_response_fifo.puts, slave, pc', "put")
         /\ (p = scoreboard => pc[p] # "get" /\ q # "get")
              => ListsThread(analysis_fifo.gets, scoreboard, pc', "get")
  <1>1. "put" \in Places /\ "get" \in Places
    BY DEF Places
  <1>2. (p \in Callers => pc[p] # "put" /\ q # "put")
              => ListsCallers(m_request_fifo.puts, pc', "put")
    BY <1>1, CallersStay DEF ListsOK
  <1>3. (p \in Callers => pc[p] # "get" /\ q # "get")
              => ListsCallers(m_response_fifo.gets, pc', "get")
    BY <1>1, CallersStay DEF ListsOK
  <1>4. (p = slave => pc[p] # "get" /\ q # "get")
              => ListsThread(m_request_fifo.gets, slave, pc', "get")
    BY <1>1, ThreadStays DEF ListsOK
  <1>5. (p = slave => pc[p] # "put" /\ q # "put")
              => ListsThread(m_response_fifo.puts, slave, pc', "put")
    BY <1>1, ThreadStays DEF ListsOK
  <1>6. (p = scoreboard => pc[p] # "get" /\ q # "get")
              => ListsThread(analysis_fifo.gets, scoreboard, pc', "get")
    BY <1>1, ThreadStays DEF ListsOK
  <1> QED BY <1>2, <1>3, <1>4, <1>5, <1>6

LEMMA TransportStep ==
  ASSUME ChannelInv, NEW c \in Callers, transport(c)
  PROVE  ChannelInv'
  <1> USE Facts, ChannelAssumption
  <1>1. /\ FifoOK(put(m_request_fifo, c), 1, killed_gets.request)
        /\ put(m_request_fifo, c).puts = Append(m_request_fifo.puts, c)
        /\ put(m_request_fifo, c).m = m_request_fifo.m
        /\ put(m_request_fifo, c).gets = m_request_fifo.gets
    BY PutOK
  <1>2. /\ pc \in [Threads -> Places] /\ pc[c] = "idle" /\ pc' = [pc EXCEPT ![c] = "put"]
        /\ c \in Threads /\ c # slave /\ c # scoreboard /\ "put" \in Places
    BY DEF transport, Goto, ChannelInv, TypeOK, Places
  <1>3. TypeOK'
    BY <1>1, <1>2 DEF transport, ChannelInv, TypeOK, Places
  <1>4. ListsOK'
    <2>1. ListsCallers(m_request_fifo'.puts, pc', "put")
      <3>1. ListsCallers(m_request_fifo.puts, pc, "put") /\ pc[c] # "put"
        BY <1>2 DEF ChannelInv, ListsOK
      <3>2. ListsCallers(Append(m_request_fifo.puts, c), [pc EXCEPT ![c] = "put"], "put")
        BY <1>2, <3>1, CallerJoins
      <3> QED BY <1>1, <1>2, <3>2 DEF transport
    <2>2. ListsOK
      BY DEF ChannelInv
    <2> QED BY <1>1, <1>2, <2>1, <2>2, OtherListsStay DEF transport, ListsOK
  <1>5. ServingOK'
    BY <1>2 DEF transport, ChannelInv, ServingOK
  <1>6. ResponsesInOrder'
    BY <1>1, SameInFlight DEF transport, ChannelInv
  <1> QED BY <1>3, <1>4, <1>5, <1>6 DEF ChannelInv

LEMMA TransportPutStep ==
  ASSUME ChannelInv, NEW c \in Callers, transport_put(c)
  PROVE  ChannelInv'
  <1> DEFINE f == m_request_fifo
             g == m_response_fifo
             t == Request(c)
  <1>0. /\ FifoOK(m_request_fifo, 1, killed_gets.request) /\ killed_gets.request \in Nat
        /\ FifoOK(m_response_fifo, 1, killed_gets.response) /\ killed_gets.response \in Nat
        /\ FifoOK(analysis_fifo, 0, killed_gets.analysis) /\ killed_gets.analysis \in Nat
        /\ m_request_fifo.m \in Seq(Items) /\ m_response_fifo.m \in Seq(Items)
        /\ c \in Threads /\ Request(c) \in Items
        /\ c # slave /\ c # scoreboard
    BY Facts, ChannelAssumption
  <1>1. /\ pc \in [Threads -> Places] /\ pc[c] = "put" /\ pc' = [pc EXCEPT ![c] = "get"]
        /\ "put" \in Places /\ "get" \in Places /\ "get" \in Places \ {"put"}
    BY DEF transport_put, Goto, ChannelInv, TypeOK, Places
  <1>2. f.puts # <<>> /\ Head(f.puts) = c
    BY DEF transport_put, put_ready
  <1>3. t \in Items /\ t[1] = c
    BY <1>0 DEF Request
  <1>4. /\ FifoOK(put_ends(f, t), 1, killed_gets.request)
        /\ put_ends(f, t).puts = Tail(f.puts)
        /\ put_ends(f, t).m = Append(f.m, t) /\ put_ends(f, t).gets = f.gets
    BY <1>0, <1>2, <1>3, PutEndsOK
  <1>5. /\ FifoOK(get(g, c), 1, killed_gets.response)
        /\ get(g, c).gets = Append(g.gets, c) /\ get(g, c).m = g.m /\ get(g, c).puts = g.puts
    BY <1>0, GetOK
  <1>6. /\ FifoOK(push_back(analysis_fifo, t), 0, killed_gets.analysis)
        /\ push_back(analysis_fifo, t).puts = analysis_fifo.puts
        /\ push_back(analysis_fifo, t).gets = analysis_fifo.gets
    BY <1>0, <1>3, PushOK
  <1>7. /\ m_request_fifo' = put_ends(f, t) /\ m_response_fifo' = get(g, c)
        /\ analysis_fifo' = push_back(analysis_fifo, t)
        /\ UNCHANGED <<calls, serving, returned, orphans, lost, killed_gets, kills>>
    BY DEF transport_put, write
  <1> HIDE DEF t
  <1>8. TypeOK'
    BY <1>0, <1>1, <1>4, <1>5, <1>6, <1>7 DEF ChannelInv, TypeOK
  <1>9. ListsOK'
    <2>1. ListsCallers(f.puts, pc, "put") /\ ListsCallers(g.gets, pc, "get")
      BY DEF ChannelInv, ListsOK
    <2>2. ListsCallers(Tail(f.puts), [pc EXCEPT ![c] = "get"], "put")
      BY <1>0, <1>1, <1>2, <2>1, CallerLeaves
    <2>3. ListsCallers(Append(g.gets, c), [pc EXCEPT ![c] = "get"], "get")
      BY <1>0, <1>1, <2>1, CallerJoins
    <2>4. ListsOK
      BY DEF ChannelInv
    <2>5. /\ ListsThread(f.gets, slave, pc', "get")
          /\ ListsThread(g.puts, slave, pc', "put")
          /\ ListsThread(analysis_fifo.gets, scoreboard, pc', "get")
      BY <1>0, <1>1, <2>4, OtherListsStay, ChannelAssumption
    <2> QED BY <1>1, <1>4, <1>5, <1>6, <1>7, <2>2, <2>3, <2>4, <2>5 DEF ListsOK
  <1>10. ServingOK'
    BY <1>0, <1>1, <1>7 DEF ChannelInv, ServingOK
  <1>11. ResponsesInOrder'
    <2>1. TypeOK /\ ResponsesInOrder
      BY DEF ChannelInv
    <2>2. Askers(Append(f.m, t)) = Append(Askers(f.m), c)
      BY <1>0, <1>3, AskersAppend
    <2>3. InFlight' = (Askers(g.m) \o Served(serving)) \o Append(Askers(f.m), c)
      BY <1>4, <1>5, <1>7, <1>8, <2>2, InFlightParts DEF InFlight, Askers, Served
    <2>4. InFlight' = Append(InFlight, c) /\ InFlight \in Seq(Callers)
      <3>1. /\ Askers(g.m) \in Seq(Callers) /\ Served(serving) \in Seq(Callers)
            /\ Askers(f.m) \in Seq(Callers) /\ InFlight \in Seq(Callers)
            /\ InFlight = (Askers(g.m) \o Served(serving)) \o Askers(f.m)
        BY <2>1, InFlightParts
      <3> DEFINE a == Askers(g.m)
                 b == Served(serving)
                 d == Askers(f.m)
      <3> HIDE DEF a, b, d
      <3>2. (a \o b) \o Append(d, c) = Append((a \o b) \o d, c)
        <4>1. a \in Seq(Callers) /\ b \in Seq(Callers) /\ d \in Seq(Callers)
          BY <3>1 DEF a, b, d
        <4> QED BY <4>1, RequestPut
      <3> QED BY <2>3, <3>1, <3>2 DEF a, b, d
    <2>5. g.gets \in Seq(Callers)
      BY DEF ChannelInv, ListsOK, ListsCallers
    <2>6. /\ Len(InFlight') = Len(InFlight) + 1
          /\ Len(Append(g.gets, c)) = Len(g.gets) + 1
          /\ Len(g.gets) \in Nat /\ Len(InFlight) \in Nat /\ orphans \in Nat /\ lost \in Nat
      BY <2>1, <2>4, <2>5, AppendProperties, LenProperties DEF TypeOK
    <2>7. Len(InFlight') + lost' = Len(m_response_fifo'.gets) + orphans'
      <3>1. /\ Len(InFlight) + lost = Len(g.gets) + orphans
            /\ orphans' = orphans /\ lost' = lost
        BY <1>7, <2>1 DEF ResponsesInOrder
      <3> DEFINE n == Len(InFlight)
                 l == Len(g.gets)
      <3>2. n \in Nat /\ l \in Nat /\ orphans \in Nat /\ lost \in Nat /\ n + lost = l + orphans
        BY <2>6, <3>1
      <3> HIDE DEF n, l
      <3>3. (n + 1) + lost = (l + 1) + orphans
        BY <3>2
      <3> QED BY <1>5, <1>7, <2>6, <3>1, <3>3 DEF n, l
    <2>8. orphans' = 0 /\ lost' = 0 => InFlight' = m_response_fifo'.gets
      BY <1>5, <1>7, <2>1, <2>4 DEF ResponsesInOrder
    <2>9. orphans' = 0 /\ lost' = 0 /\ returned' # None => returned'[1] = returned'[2][1]
      BY <1>7, <2>1 DEF ResponsesInOrder
    <2> QED BY <2>7, <2>8, <2>9 DEF ResponsesInOrder
  <1> QED BY <1>8, <1>9, <1>10, <1>11 DEF ChannelInv

\* What it means for the requests in the channel that an answer is taken.
LEMMA AnswerPopped ==
  ASSUME TypeOK, m_response_fifo.m # <<>>
  PROVE  /\ (Askers(Tail(m_response_fifo.m)) \o Served(serving)) \o Askers(m_request_fifo.m)
              = Tail(InFlight)
         /\ InFlight # <<>> /\ Head(InFlight) = Head(m_response_fifo.m)[1]
         /\ Head(m_response_fifo.m) \in Items
  <1> DEFINE m == m_response_fifo.m
             a == Askers(m)
             b == Served(serving)
             c == Askers(m_request_fifo.m)
             all == InFlight
  <1>1. m \in Seq(Items)
    BY DEF TypeOK, FifoOK, Fifo
  <1>2. a \in Seq(Callers) /\ b \in Seq(Callers) /\ c \in Seq(Callers) /\ all = (a \o b) \o c
    BY InFlightParts
  <1>3. Askers(Tail(m)) = Tail(a) /\ Head(a) = Head(m)[1] /\ a # <<>> /\ Head(m) \in Items
    BY <1>1, AskersTail
  <1> HIDE DEF a, b, c, all
  <1>4. (Tail(a) \o b) \o c = Tail(all) /\ Head(all) = Head(a)
    BY <1>2, <1>3, AnswerTaken, SMTT(40)
  <1>5. all # <<>>
    <2>1. Len(a) \in Nat /\ Len(a) # 0 /\ Len(b) \in Nat /\ Len(c) \in Nat
      BY <1>2, <1>3, EmptySeq, LenProperties
    <2>2. Len(all) = (Len(a) + Len(b)) + Len(c)
      BY <1>2, ConcatProperties
    <2>3. Len(all) # 0
      BY <2>1, <2>2
    <2> QED BY <2>3, EmptySeq
  <1> QED BY <1>3, <1>4, <1>5 DEF a, b, c, all

LEMMA TransportGetStep ==
  ASSUME ChannelInv, NEW c \in Callers, transport_get(c)
  PROVE  ChannelInv'
  <1> DEFINE g == m_response_fifo
  <1>0. /\ FifoOK(m_request_fifo, 1, killed_gets.request) /\ killed_gets.request \in Nat
        /\ FifoOK(m_response_fifo, 1, killed_gets.response) /\ killed_gets.response \in Nat
        /\ FifoOK(analysis_fifo, 0, killed_gets.analysis) /\ killed_gets.analysis \in Nat
        /\ m_request_fifo.m \in Seq(Items) /\ m_response_fifo.m \in Seq(Items)
        /\ c \in Threads /\ Request(c) \in Items
        /\ c # slave /\ c # scoreboard
    BY Facts, ChannelAssumption
  <1>1. /\ pc \in [Threads -> Places] /\ pc[c] = "get" /\ pc' = [pc EXCEPT ![c] = "idle"]
        /\ "put" \in Places /\ "get" \in Places /\ "idle" \in Places \ {"get"}
    BY DEF transport_get, Goto, ChannelInv, TypeOK, Places
  <1>2. g.gets # <<>> /\ Head(g.gets) = c /\ g.m # <<>>
    BY DEF transport_get, get_ready, is_empty
  <1>3. /\ FifoOK(get_ends(g), 1, killed_gets.response)
        /\ get_ends(g).gets = Tail(g.gets) /\ get_ends(g).m = Tail(g.m)
        /\ get_ends(g).puts = g.puts /\ Head(g.m) \in Items
    BY <1>0, <1>2, GetEndsOK
  <1>4. /\ m_response_fifo' = get_ends(g) /\ returned' = <<c, Head(g.m)>>
        /\ UNCHANGED <<m_request_fifo, analysis_fifo, calls, serving, orphans, lost,
                       killed_gets, kills>>
    BY DEF transport_get
  <1>5. TypeOK'
    BY <1>0, <1>1, <1>3, <1>4 DEF ChannelInv, TypeOK
  <1>6. ListsOK'
    <2>1. ListsCallers(g.gets, pc, "get")
      BY DEF ChannelInv, ListsOK
    <2>2. ListsCallers(Tail(g.gets), [pc EXCEPT ![c] = "idle"], "get")
      BY <1>0, <1>1, <1>2, <2>1, CallerLeaves
    <2>3. ListsOK
      BY DEF ChannelInv
    <2>4. /\ ListsCallers(m_request_fifo.puts, pc', "put")
          /\ ListsThread(m_request_fifo.gets, slave, pc', "get")
          /\ ListsThread(g.puts, slave, pc', "put")
          /\ ListsThread(analysis_fifo.gets, scoreboard, pc', "get")
      BY <1>0, <1>1, <2>3, OtherListsStay, ChannelAssumption
    <2> QED BY <1>1, <1>3, <1>4, <2>2, <2>3, <2>4 DEF ListsOK
  <1>7. ServingOK'
    BY <1>0, <1>1, <1>4 DEF ChannelInv, ServingOK
  <1>8. ResponsesInOrder'
    <2>1. TypeOK /\ ResponsesInOrder
      BY DEF ChannelInv
    <2>2. /\ InFlight' = Tail(InFlight) /\ InFlight # <<>>
          /\ Head(InFlight) = Head(g.m)[1] /\ InFlight \in Seq(Callers)
      BY <1>2, <1>3, <1>4, <2>1, AnswerPopped, InFlightParts DEF InFlight, Askers, Served
    <2>3. g.gets \in Seq(Callers)
      BY DEF ChannelInv, ListsOK, ListsCallers
    <2>4. /\ Len(InFlight') = Len(InFlight) - 1 /\ Len(Tail(g.gets)) = Len(g.gets) - 1
          /\ Len(g.gets) \in Nat /\ Len(InFlight) \in Nat /\ orphans \in Nat /\ lost \in Nat
      BY <1>2, <2>1, <2>2, <2>3, HeadTailProperties, LenProperties DEF TypeOK
    <2>5. returned'[1] = c /\ returned'[2][1] = Head(g.m)[1]
      BY <1>4
    <2>6. Len(InFlight') + lost' = Len(m_response_fifo'.gets) + orphans'
      <3>1. /\ Len(InFlight) + lost = Len(g.gets) + orphans
            /\ orphans' = orphans /\ lost' = lost
        BY <1>4, <2>1 DEF ResponsesInOrder
      <3> DEFINE n == Len(InFlight)
                 l == Len(g.gets)
      <3>2. n \in Nat /\ l \in Nat /\ orphans \in Nat /\ lost \in Nat /\ n + lost = l + orphans
        BY <2>4, <3>1
      <3> HIDE DEF n, l
      <3>3. (n - 1) + lost = (l - 1) + orphans
        BY <3>2
      <3> QED BY <1>3, <1>4, <2>4, <3>1, <3>3 DEF n, l
    <2>7. orphans' = 0 /\ lost' = 0 => InFlight' = m_response_fifo'.gets
      BY <1>3, <1>4, <2>1, <2>2 DEF ResponsesInOrder
    <2>8. orphans' = 0 /\ lost' = 0 => returned'[1] = returned'[2][1]
      BY <1>2, <1>4, <2>1, <2>2, <2>5 DEF ResponsesInOrder
    <2> QED BY <2>6, <2>7, <2>8 DEF ResponsesInOrder
  <1> QED BY <1>5, <1>6, <1>7, <1>8 DEF ChannelInv

LEMMA NbTransportStep ==
  ASSUME ChannelInv, NEW c \in Callers, nb_transport(c)
  PROVE  ChannelInv'
  <1> DEFINE f == m_request_fifo
             g == m_response_fifo
             t == <<c, calls[c] + 1>>
  <1>1. /\ FifoOK(f, 1, killed_gets.request) /\ killed_gets.request \in Nat
        /\ FifoOK(g, 1, killed_gets.response) /\ killed_gets.response \in Nat
        /\ FifoOK(analysis_fifo, 0, killed_gets.analysis) /\ killed_gets.analysis \in Nat
        /\ f.m \in Seq(Items) /\ g.m \in Seq(Items)
    BY Facts
  <1>2. t \in Items /\ t[1] = c /\ [calls EXCEPT ![c] = @ + 1] \in [Callers -> Nat]
    BY DEF ChannelInv, TypeOK, Items
  <1>3. /\ m_request_fifo' = push_back(f, t) /\ analysis_fifo' = push_back(analysis_fifo, t)
        /\ calls' = [calls EXCEPT ![c] = @ + 1]
        /\ UNCHANGED <<pc, serving, lost, killed_gets, kills>>
    BY DEF nb_transport, write
  <1> HIDE DEF t
  <1>4. /\ FifoOK(push_back(f, t), 1, killed_gets.request)
        /\ push_back(f, t).m = Append(f.m, t)
        /\ push_back(f, t).puts = f.puts /\ push_back(f, t).gets = f.gets
    BY <1>1, <1>2, PushOK
  <1>5. /\ FifoOK(push_back(analysis_fifo, t), 0, killed_gets.analysis)
        /\ push_back(analysis_fifo, t).puts = analysis_fifo.puts
        /\ push_back(analysis_fifo, t).gets = analysis_fifo.gets
    BY <1>1, <1>2, PushOK
  <1>6. Askers(Append(f.m, t)) = Append(Askers(f.m), c)
    BY <1>1, <1>2, AskersAppend
  <1>7. /\ TypeOK /\ ListsOK /\ ServingOK /\ ResponsesInOrder
        /\ orphans \in Nat /\ lost \in Nat /\ g.gets \in Seq(Callers)
    BY DEF ChannelInv, TypeOK, ListsOK, ListsCallers
  <1> DEFINE a == Askers(g.m)
             b == Served(serving)
             d == Askers(f.m)
             all == InFlight
             l == Len(g.gets)
  <1>8. /\ a \in Seq(Callers) /\ b \in Seq(Callers) /\ d \in Seq(Callers)
        /\ all = (a \o b) \o d /\ all \in Seq(Callers)
    BY <1>7, InFlightParts
  <1>9. Len(all) + lost = l + orphans /\ l \in Nat /\ Len(all) \in Nat
    BY <1>7, <1>8, LenProperties DEF ResponsesInOrder
  <1>10. CASE Unclaimed(g)
    <2>1. g.m # <<>> /\ Len(g.m) > l /\ Len(g.m) \in Nat
      BY <1>1, <1>9, <1>10, LenProperties, EmptySeq DEF Unclaimed, used
    <2>2. /\ FifoOK(pop_front(g), 1, killed_gets.response)
          /\ pop_front(g).m = Tail(g.m) /\ Head(g.m) \in Items
          /\ pop_front(g).puts = g.puts /\ pop_front(g).gets = g.gets
      BY <1>1, <2>1, PopOK
    <2>3. /\ m_response_fifo' = pop_front(g) /\ returned' = <<c, Head(g.m)>>
          /\ UNCHANGED orphans
      BY <1>10 DEF nb_transport
    <2>4. TypeOK'
      BY <1>1, <1>2, <1>3, <1>4, <1>5, <1>7, <2>2, <2>3 DEF TypeOK
    <2>5. ListsOK' /\ ServingOK'
      BY <1>3, <1>4, <1>5, <1>7, <2>2, <2>3 DEF ListsOK, ServingOK
    <2>6. Askers(Tail(g.m)) = Tail(a) /\ a # <<>>
      BY <1>1, <2>1, AskersTail
    <2>7. InFlight' = (Tail(a) \o b) \o Append(d, c)
      BY <1>3, <1>4, <1>6, <2>2, <2>3, <2>6 DEF InFlight, Askers, Served
    <2>8. Len(g.m) <= Len(all)
      <3>1. Len(a) = Len(g.m)
        BY <1>1, AskersType
      <3> HIDE DEF a, b, d, all
      <3>2. Len(all) = (Len(a) + Len(b)) + Len(d)
        BY <1>8, ConcatProperties
      <3>3. Len(a) \in Nat /\ Len(b) \in Nat /\ Len(d) \in Nat
        BY <1>8, LenProperties
      <3>4. Len(a) <= Len(all)
        BY <3>2, <3>3
      <3> QED BY <3>1, <3>4
    <2>9. orphans # 0
      <3> HIDE DEF all, l
      <3> QED BY <1>7, <1>9, <2>1, <2>8
    <2>10. Len(InFlight') = Len(all)
      <3> HIDE DEF a, b, d, all, l
      <3>1. /\ Tail(a) \in Seq(Callers) /\ Len(Tail(a)) = Len(a) - 1
            /\ Append(d, c) \in Seq(Callers) /\ Len(Append(d, c)) = Len(d) + 1
        BY <1>8, <2>6, HeadTailProperties, AppendProperties
      <3>2. Len((Tail(a) \o b) \o Append(d, c)) = (Len(Tail(a)) + Len(b)) + Len(Append(d, c))
        BY <1>8, <3>1, ConcatProperties
      <3>3. Len(all) = (Len(a) + Len(b)) + Len(d)
        BY <1>8, ConcatProperties
      <3>4. Len(a) \in Nat /\ Len(b) \in Nat /\ Len(d) \in Nat
        BY <1>8, LenProperties
      <3>5. (Len(Tail(a)) + Len(b)) + Len(Append(d, c)) = (Len(a) + Len(b)) + Len(d)
        BY <3>1, <3>4
      <3> QED BY <2>7, <3>2, <3>3, <3>5
    <2>11. ResponsesInOrder'
      BY <1>3, <1>9, <2>2, <2>3, <2>9, <2>10 DEF ResponsesInOrder
    <2> QED BY <2>4, <2>5, <2>11 DEF ChannelInv
  <1>11. CASE ~Unclaimed(g)
    <2>1. orphans' = orphans + 1 /\ UNCHANGED <<m_response_fifo, returned>>
      BY <1>11 DEF nb_transport
    <2>2. TypeOK'
      BY <1>1, <1>2, <1>3, <1>4, <1>5, <1>7, <2>1 DEF TypeOK
    <2>3. ListsOK' /\ ServingOK'
      BY <1>3, <1>4, <1>5, <1>7, <2>1 DEF ListsOK, ServingOK
    <2>4. InFlight' = (a \o b) \o Append(d, c)
      BY <1>3, <1>4, <1>6, <2>1 DEF InFlight, Askers, Served
    <2>5. Len(InFlight') = Len(all) + 1
      <3> HIDE DEF a, b, d, all, l
      <3>1. InFlight' = Append(all, c)
        BY <1>8, <2>4, RequestPut
      <3> QED BY <1>8, <3>1, AppendProperties
    <2>6. Len(InFlight') + lost' = Len(m_response_fifo'.gets) + orphans' /\ orphans' # 0
      <3>1. l = Len(m_response_fifo'.gets)
        BY <2>1
      <3> HIDE DEF l, all
      <3>2. (Len(all) + 1) + lost = l + (orphans + 1) /\ orphans + 1 # 0
        BY <1>7, <1>9
      <3> QED BY <1>3, <2>1, <2>5, <3>1, <3>2
    <2>7. ResponsesInOrder'
      BY <2>6 DEF ResponsesInOrder
    <2> QED BY <2>2, <2>3, <2>7 DEF ChannelInv
  <1> QED BY <1>10, <1>11

LEMMA ItemsNotNone == \A t \in Items : t # None
  <1> SUFFICES ASSUME NEW t \in Items PROVE t # <<>>
    BY DEF None
  <1>1. PICK c \in Callers, n \in Nat : t = <<c, n>>
    BY DEF Items
  <1> QED BY <1>1

LEMMA SlaveGetStep ==
  ASSUME ChannelInv, slave_get
  PROVE  ChannelInv'
  <1> DEFINE f == m_request_fifo
  <1>1. /\ FifoOK(f, 1, killed_gets.request) /\ killed_gets.request \in Nat /\ slave \in Threads
        /\ slave \notin Callers /\ slave # scoreboard
    BY Facts, ChannelAssumption
  <1>2. /\ FifoOK(get(f, slave), 1, killed_gets.request)
        /\ get(f, slave).gets = Append(f.gets, slave)
        /\ get(f, slave).m = f.m /\ get(f, slave).puts = f.puts
    BY <1>1, GetOK
  <1>3. /\ m_request_fifo' = get(f, slave) /\ pc' = [pc EXCEPT ![slave] = "get"]
        /\ pc[slave] \in {"idle", "peek"}
        /\ UNCHANGED <<m_response_fifo, serving, analysis_fifo, calls, returned, orphans,
                       lost, killed_gets, kills>>
    BY DEF slave_get, Goto, SlaveOnly
  <1>4. pc \in [Threads -> Places] /\ "get" \in Places
    BY DEF ChannelInv, TypeOK, Places
  <1>5. TypeOK'
    BY <1>2, <1>3, <1>4 DEF ChannelInv, TypeOK
  <1>6. ListsOK'
    <2>1. ListsOK
      BY DEF ChannelInv
    <2>2. f.gets = <<>>
      BY <1>3, <2>1 DEF ListsOK, ListsThread
    <2>3. ListsThread(m_request_fifo'.gets, slave, pc', "get")
      BY <1>1, <1>2, <1>3, <1>4, <2>2 DEF ListsThread
    <2>4. /\ ListsCallers(f.puts, pc', "put")
          /\ ListsCallers(m_response_fifo.gets, pc', "get")
          /\ ListsThread(m_response_fifo.puts, slave, pc', "put")
          /\ ListsThread(analysis_fifo.gets, scoreboard, pc', "get")
      BY <1>1, <1>3, <1>4, <2>1, OtherListsStay, ChannelAssumption
    <2> QED BY <1>2, <1>3, <2>1, <2>3, <2>4 DEF ListsOK
  <1>7. ServingOK'
    BY <1>1, <1>3, <1>4 DEF ChannelInv, ServingOK
  <1>8. ResponsesInOrder'
    BY <1>2, <1>3, SameInFlight DEF ChannelInv
  <1> QED BY <1>5, <1>6, <1>7, <1>8 DEF ChannelInv

LEMMA SlavePeekStep ==
  ASSUME ChannelInv, slave_peek
  PROVE  ChannelInv'
  <1>1. slave \in Threads /\ slave \notin Callers /\ slave # scoreboard
    BY Facts, ChannelAssumption
  <1>2. /\ pc' = [pc EXCEPT ![slave] = "peek"] /\ pc[slave] = "idle"
        /\ UNCHANGED <<m_request_fifo, m_response_fifo, serving, analysis_fifo, calls, returned,
                       orphans, lost, killed_gets, kills>>
    BY DEF slave_peek, Goto, SlaveOnly
  <1>3. pc \in [Threads -> Places] /\ "peek" \in Places /\ ListsOK
    BY DEF ChannelInv, TypeOK, Places
  <1>4. TypeOK'
    BY <1>2, <1>3 DEF ChannelInv, TypeOK
  <1>5. ListsOK'
    BY <1>1, <1>2, <1>3, OtherListsStay, ChannelAssumption DEF ListsOK
  <1>6. ServingOK'
    BY <1>1, <1>2, <1>3 DEF ChannelInv, ServingOK
  <1>7. ResponsesInOrder'
    BY <1>2, SameInFlight DEF ChannelInv
  <1> QED BY <1>4, <1>5, <1>6, <1>7 DEF ChannelInv

\* The request moves from the fifo to the slave.
LEMMA SlaveGotStep ==
  ASSUME ChannelInv, slave_got
  PROVE  ChannelInv'
  <1> DEFINE f == m_request_fifo
             g == m_response_fifo
  <1>1. /\ FifoOK(f, 1, killed_gets.request) /\ killed_gets.request \in Nat
        /\ FifoOK(g, 1, killed_gets.response) /\ killed_gets.response \in Nat
        /\ f.m \in Seq(Items) /\ g.m \in Seq(Items)
        /\ slave \in Threads /\ slave \notin Callers /\ slave # scoreboard
    BY Facts, ChannelAssumption
  <1>2. /\ TypeOK /\ ListsOK /\ ServingOK /\ ResponsesInOrder
        /\ pc \in [Threads -> Places] /\ "put" \in Places
    BY DEF ChannelInv, TypeOK, Places
  <1>3. /\ m_response_fifo' = put(g, slave) /\ serving' = Head(f.m)
        /\ pc' = [pc EXCEPT ![slave] = "put"]
        /\ UNCHANGED <<analysis_fifo, calls, returned, orphans, lost, killed_gets, kills>>
    BY DEF slave_got, Goto, SlaveOnly
  <1>4. /\ FifoOK(put(g, slave), 1, killed_gets.response)
        /\ put(g, slave).puts = Append(g.puts, slave)
        /\ put(g, slave).m = g.m /\ put(g, slave).gets = g.gets
    BY <1>1, PutOK
  <1>5. /\ f.m # <<>> /\ Head(f.m) \in Items /\ pc[slave] # "put"
        /\ FifoOK(m_request_fifo', 1, killed_gets.request)
        /\ m_request_fifo'.m = Tail(f.m) /\ m_request_fifo'.puts = f.puts
        /\ m_request_fifo'.gets = <<>>
    <2>1. CASE pc[slave] = "get" /\ get_ready(f, slave) /\ m_request_fifo' = get_ends(f)
      <3>1. f.gets # <<>> /\ f.m # <<>>
        BY <2>1 DEF get_ready, is_empty
      <3>2. Tail(f.gets) = <<>>
        BY <1>2, <2>1 DEF ListsOK, ListsThread
      <3> QED BY <1>1, <2>1, <3>1, <3>2, GetEndsOK
    <2>2. CASE pc[slave] = "idle" /\ can_get(f) /\ m_request_fifo' = pop_front(f)
      <3>1. f.m # <<>>
        BY <1>1, <2>2, EmptySeq DEF can_get, used
      <3>2. f.gets = <<>>
        BY <1>2, <2>2 DEF ListsOK, ListsThread
      <3> QED BY <1>1, <2>2, <3>1, <3>2, PopOK
    <2> QED BY <2>1, <2>2 DEF slave_got
  <1>6. TypeOK'
    BY <1>2, <1>3, <1>4, <1>5 DEF TypeOK
  <1>7. ListsOK'
    <2>1. g.puts = <<>>
      BY <1>2, <1>5 DEF ListsOK, ListsThread
    <2>2. ListsThread(m_response_fifo'.puts, slave, pc', "put")
      BY <1>1, <1>2, <1>3, <1>4, <2>1 DEF ListsThread
    <2>3. ListsThread(m_request_fifo'.gets, slave, pc', "get")
      BY <1>1, <1>2, <1>3, <1>5 DEF ListsThread
    <2>4. /\ ListsCallers(f.puts, pc', "put") /\ ListsCallers(g.gets, pc', "get")
          /\ ListsThread(analysis_fifo.gets, scoreboard, pc', "get")
      BY <1>1, <1>2, <1>3, OtherListsStay, ChannelAssumption
    <2> QED BY <1>2, <1>3, <1>4, <1>5, <2>2, <2>3, <2>4 DEF ListsOK
  <1>8. ServingOK'
    <2>1. serving' # None
      BY <1>3, <1>5, ItemsNotNone
    <2> QED BY <1>1, <1>2, <1>3, <2>1 DEF ServingOK
  <1>9. ResponsesInOrder'
    <2> DEFINE a == Askers(g.m)
               d == Askers(f.m)
    <2>1. serving = None /\ Served(serving) = <<>>
      BY <1>2, <1>5 DEF ServingOK, Served
    <2>2. a \in Seq(Callers) /\ d \in Seq(Callers) /\ InFlight = (a \o <<>>) \o d
      BY <1>2, <2>1, InFlightParts
    <2>3. Askers(Tail(f.m)) = Tail(d) /\ Head(d) = Head(f.m)[1] /\ d # <<>>
      BY <1>1, <1>5, AskersTail
    <2>4. Served(serving') = <<Head(d)>>
      BY <1>3, <1>5, <2>3, ItemsNotNone DEF Served
    <2>5. InFlight' = (a \o <<Head(d)>>) \o Tail(d)
      BY <1>3, <1>4, <1>5, <2>3, <2>4 DEF InFlight, Askers, Served
    <2>6. InFlight' = InFlight
      <3> HIDE DEF a, d
      <3> QED BY <2>2, <2>3, <2>5, RequestServed
    <2> QED BY <1>2, <1>3, <1>4, <2>6 DEF ResponsesInOrder
  <1> QED BY <1>6, <1>7, <1>8, <1>9 DEF ChannelInv

\* The request moves from the slave to the other fifo, as its answer.
LEMMA SlavePutStep ==
  ASSUME ChannelInv, slave_put
  PROVE  ChannelInv'
  <1> DEFINE g == m_response_fifo
  <1>1. /\ FifoOK(g, 1, killed_gets.response) /\ killed_gets.response \in Nat
        /\ g.m \in Seq(Items)
        /\ slave \in Threads /\ slave \notin Callers /\ slave # scoreboard
    BY Facts, ChannelAssumption
  <1>2. /\ TypeOK /\ ListsOK /\ ServingOK /\ ResponsesInOrder
        /\ pc \in [Threads -> Places] /\ "idle" \in Places
    BY DEF ChannelInv, TypeOK, Places
  <1>3. /\ pc[slave] = "put" /\ pc' = [pc EXCEPT ![slave] = "idle"]
        /\ m_response_fifo' = put_ends(g, serving) /\ serving' = None
        /\ g.puts # <<>>
        /\ UNCHANGED <<m_request_fifo, analysis_fifo, calls, returned, orphans, lost,
                       killed_gets, kills>>
    BY DEF slave_put, put_ready, Goto, SlaveOnly
  <1>4. serving \in Items /\ serving # None
    BY <1>2, <1>3 DEF TypeOK, ServingOK
  <1>5. /\ FifoOK(put_ends(g, serving), 1, killed_gets.response)
        /\ put_ends(g, serving).puts = Tail(g.puts)
        /\ put_ends(g, serving).m = Append(g.m, serving)
        /\ put_ends(g, serving).gets = g.gets
    BY <1>1, <1>3, <1>4, PutEndsOK
  <1>6. TypeOK'
    BY <1>2, <1>3, <1>5 DEF TypeOK
  <1>7. ListsOK'
    <2>1. Tail(g.puts) = <<>>
      BY <1>2, <1>3 DEF ListsOK, ListsThread
    <2>2. ListsThread(m_response_fifo'.puts, slave, pc', "put")
      BY <1>1, <1>2, <1>3, <1>5, <2>1 DEF ListsThread
    <2>3. /\ ListsCallers(m_request_fifo.puts, pc', "put") /\ ListsCallers(g.gets, pc', "get")
          /\ ListsThread(m_request_fifo.gets, slave, pc', "get")
          /\ ListsThread(analysis_fifo.gets, scoreboard, pc', "get")
      BY <1>1, <1>2, <1>3, OtherListsStay, ChannelAssumption
    <2> QED BY <1>2, <1>3, <1>5, <2>2, <2>3 DEF ListsOK
  <1>8. ServingOK'
    BY <1>1, <1>2, <1>3 DEF ServingOK
  <1>9. ResponsesInOrder'
    <2> DEFINE a == Askers(g.m)
               d == Askers(m_request_fifo.m)
               e == serving[1]
    <2>1. Served(serving) = <<e>> /\ e \in Callers
      BY <1>4 DEF Served, Items
    <2>2. a \in Seq(Callers) /\ d \in Seq(Callers) /\ InFlight = (a \o <<e>>) \o d
      BY <1>2, <2>1, InFlightParts
    <2>3. Askers(Append(g.m, serving)) = Append(a, e)
      BY <1>1, <1>4, AskersAppend
    <2>4. InFlight' = (Append(a, e) \o <<>>) \o d
      BY <1>3, <1>5, <2>3 DEF InFlight, Askers, Served
    <2>5. InFlight' = InFlight
      <3> HIDE DEF a, d, e
      <3> QED BY <2>1, <2>2, <2>4, RequestAnswered
    <2> QED BY <1>2, <1>3, <1>5, <2>5 DEF ResponsesInOrder
  <1> QED BY <1>6, <1>7, <1>8, <1>9 DEF ChannelInv

LEMMA ScoreboardGetStep ==
  ASSUME ChannelInv, scoreboard_get
  PROVE  ChannelInv'
  <1> DEFINE f == analysis_fifo
  <1>1. /\ FifoOK(f, 0, killed_gets.analysis) /\ killed_gets.analysis \in Nat
        /\ scoreboard \in Threads /\ scoreboard \notin Callers /\ scoreboard # slave
    BY Facts, ChannelAssumption
  <1>2. /\ TypeOK /\ ListsOK /\ ServingOK /\ ResponsesInOrder
        /\ pc \in [Threads -> Places] /\ "idle" \in Places /\ "get" \in Places
    BY DEF ChannelInv, TypeOK, Places
  <1>3. UNCHANGED <<m_request_fifo, m_response_fifo, calls, serving, returned, orphans,
                    lost, killed_gets, kills>>
    BY DEF scoreboard_get
  <1>4. PICK q \in {"idle", "get"} :
          /\ pc' = [pc EXCEPT ![scoreboard] = q]
          /\ FifoOK(analysis_fifo', 0, killed_gets.analysis)
          /\ analysis_fifo'.puts = f.puts
          /\ analysis_fifo'.gets = IF q = "get" THEN <<scoreboard>> ELSE <<>>
    <2>1. CASE /\ pc[scoreboard] = "idle" /\ analysis_fifo' = get(f, scoreboard)
               /\ Goto(scoreboard, "get")
      <3>1. f.gets = <<>>
        BY <1>2, <2>1 DEF ListsOK, ListsThread
      <3>2. /\ FifoOK(get(f, scoreboard), 0, killed_gets.analysis)
            /\ get(f, scoreboard).gets = Append(f.gets, scoreboard)
            /\ get(f, scoreboard).puts = f.puts
        BY <1>1, GetOK
      <3> QED BY <2>1, <3>1, <3>2 DEF Goto
    <2>2. CASE /\ pc[scoreboard] = "get" /\ get_ready(f, scoreboard)
               /\ analysis_fifo' = get_ends(f) /\ Goto(scoreboard, "idle")
      <3>1. f.gets # <<>> /\ f.m # <<>>
        BY <2>2 DEF get_ready, is_empty
      <3>2. Tail(f.gets) = <<>>
        BY <1>2, <2>2 DEF ListsOK, ListsThread
      <3> QED BY <1>1, <2>2, <3>1, <3>2, GetEndsOK DEF Goto
    <2> QED BY <2>1, <2>2 DEF scoreboard_get
  <1>5. TypeOK'
    BY <1>2, <1>3, <1>4 DEF TypeOK
  <1>6. ListsOK'
    <2>1. ListsThread(analysis_fifo'.gets, scoreboard, pc', "get")
      BY <1>1, <1>2, <1>4 DEF ListsThread
    <2>2. /\ ListsCallers(m_request_fifo.puts, pc', "put")
          /\ ListsCallers(m_response_fifo.gets, pc', "get")
          /\ ListsThread(m_request_fifo.gets, slave, pc', "get")
          /\ ListsThread(m_response_fifo.puts, slave, pc', "put")
      BY <1>1, <1>2, <1>4, OtherListsStay, ChannelAssumption
    <2> QED BY <1>2, <1>3, <1>4, <2>1, <2>2 DEF ListsOK
  <1>7. ServingOK'
    BY <1>1, <1>2, <1>3, <1>4 DEF ServingOK
  <1>8. ResponsesInOrder'
    BY <1>2, <1>3, SameInFlight
  <1> QED BY <1>5, <1>6, <1>7, <1>8 DEF ChannelInv

LEMMA ScoreboardFlushStep ==
  ASSUME ChannelInv, scoreboard_flush
  PROVE  ChannelInv'
  <1>1. FifoOK(analysis_fifo, 0, killed_gets.analysis) /\ killed_gets.analysis \in Nat
    BY Facts
  <1>2. /\ FifoOK(flush(analysis_fifo), 0, killed_gets.analysis)
        /\ flush(analysis_fifo).puts = analysis_fifo.puts
        /\ flush(analysis_fifo).gets = analysis_fifo.gets
    BY <1>1, FlushOK
  <1>3. /\ analysis_fifo' = flush(analysis_fifo)
        /\ UNCHANGED <<m_request_fifo, m_response_fifo, pc, calls, serving, returned, orphans,
                       lost, killed_gets, kills>>
    BY DEF scoreboard_flush
  <1>4. TypeOK' /\ ListsOK' /\ ServingOK'
    BY <1>2, <1>3 DEF ChannelInv, TypeOK, ListsOK, ServingOK
  <1>5. ResponsesInOrder'
    BY <1>3, SameInFlight DEF ChannelInv
  <1> QED BY <1>4, <1>5 DEF ChannelInv

\* Only the gets of the killed thread's own fifo can become fewer.
LEMMA KillStep ==
  ASSUME ChannelInv, NEW p \in Threads, kill(p)
  PROVE  ChannelInv'
  <1> DEFINE f == m_request_fifo
             g == m_response_fifo
             h == analysis_fifo
             q == IF p \in Callers THEN "dead" ELSE "idle"
             waits == pc[p] = "get"
             puts == p = slave /\ pc[p] = "put"
             one(b) == IF b THEN 1 ELSE 0
  <1>1. /\ FifoOK(f, 1, killed_gets.request) /\ killed_gets.request \in Nat
        /\ FifoOK(g, 1, killed_gets.response) /\ killed_gets.response \in Nat
        /\ FifoOK(h, 0, killed_gets.analysis) /\ killed_gets.analysis \in Nat
        /\ slave \notin Callers /\ scoreboard \notin Callers /\ slave # scoreboard
        /\ p \in Callers \/ p = slave \/ p = scoreboard
    BY Facts, ChannelAssumption DEF Threads
  <1>2. /\ TypeOK /\ ListsOK /\ ServingOK /\ ResponsesInOrder
        /\ pc \in [Threads -> Places]
        /\ q \in Places \ {"put"} /\ q \in Places \ {"get"} /\ q \in Places
        /\ "put" \in Places /\ "get" \in Places
    BY DEF ChannelInv, TypeOK, Places
  <1>3. /\ m_request_fifo' = Killed(f, p) /\ m_response_fifo' = Killed(g, p)
        /\ analysis_fifo' = Killed(h, p)
        /\ pc' = [pc EXCEPT ![p] = q]
        /\ orphans' = IF p \in Callers /\ waits THEN orphans + 1 ELSE orphans
        /\ lost' = IF puts THEN lost + 1 ELSE lost
        /\ serving' = IF puts THEN None ELSE serving
        /\ UNCHANGED <<calls, returned>>
    BY DEF kill, Goto
  <1>4. /\ killed_gets.request + one(waits /\ p = slave) \in Nat
        /\ killed_gets.response + one(waits /\ p \in Callers) \in Nat
        /\ killed_gets.analysis + one(waits /\ p = scoreboard) \in Nat
        /\ killed_gets' = [request |-> killed_gets.request + one(waits /\ p = slave),
                           response |-> killed_gets.response + one(waits /\ p \in Callers),
                           analysis |-> killed_gets.analysis + one(waits /\ p = scoreboard)]
    <2>1. killed_gets \in [request : Nat, response : Nat, analysis : Nat]
      BY <1>2 DEF TypeOK
    <2>2. CASE ~waits
      BY <1>1, <2>1, <2>2 DEF kill
    <2>3. CASE waits /\ p = slave
      <3>1. killed_gets.request + 1 \in Nat
        BY <1>1
      <3>2. PICK r \in Nat : r = killed_gets.request + 1
        BY <3>1, Zenon
      <3>3. killed_gets' = [killed_gets EXCEPT !.request = r]
        BY <1>1, <2>1, <2>3, <3>2 DEF kill
      <3>4. killed_gets' = [request |-> r, response |-> killed_gets.response, analysis |-> killed_gets.analysis]
        BY <2>1, <3>3
      <3> QED BY <1>1, <2>3, <3>2, <3>4
    <2>4. CASE waits /\ p = scoreboard
      <3>1. killed_gets.analysis + 1 \in Nat
        BY <1>1
      <3>2. PICK r \in Nat : r = killed_gets.analysis + 1
        BY <3>1, Zenon
      <3>3. killed_gets' = [killed_gets EXCEPT !.analysis = r]
        BY <1>1, <2>1, <2>4, <3>2 DEF kill
      <3>4. killed_gets' = [request |-> killed_gets.request, response |-> killed_gets.response, analysis |-> r]
        BY <2>1, <3>3
      <3> QED BY <1>1, <2>4, <3>2, <3>4
    <2>5. CASE waits /\ p \in Callers
      <3>1. killed_gets.response + 1 \in Nat
        BY <1>1
      <3>2. PICK r \in Nat : r = killed_gets.response + 1
        BY <3>1, Zenon
      <3>3. killed_gets' = [killed_gets EXCEPT !.response = r]
        BY <1>1, <2>1, <2>5, <3>2 DEF kill
      <3>4. killed_gets' = [request |-> killed_gets.request, response |-> r, analysis |-> killed_gets.analysis]
        BY <2>1, <3>3
      <3> QED BY <1>1, <2>5, <3>2, <3>4
    <2> QED BY <1>1, <2>2, <2>3, <2>4, <2>5
  <1> HIDE DEF q, waits, puts
  <1>5. /\ ListsCallers(RemoveFirst(f.puts, p), pc', "put")
        /\ ListsCallers(RemoveFirst(g.gets, p), pc', "get")
        /\ Len(RemoveFirst(g.gets, p)) = Len(g.gets) - one(waits /\ p \in Callers)
        /\ ~(p \in Callers /\ waits) => RemoveFirst(g.gets, p) = g.gets
        /\ Len(g.gets) \in Nat
    <2>1. ListsCallers(f.puts, pc, "put") /\ ListsCallers(g.gets, pc, "get")
      BY <1>2 DEF ListsOK
    <2>2. ListsCallers(RemoveFirst(f.puts, p), [pc EXCEPT ![p] = q], "put")
      BY <1>2, <2>1, CallerRemoved
    <2>3. /\ ListsCallers(RemoveFirst(g.gets, p), [pc EXCEPT ![p] = q], "get")
          /\ p \in Callers /\ pc[p] = "get" => Len(RemoveFirst(g.gets, p)) = Len(g.gets) - 1
          /\ ~(p \in Callers /\ pc[p] = "get") => RemoveFirst(g.gets, p) = g.gets
      BY <1>2, <2>1, CallerRemoved, ZenonT(40)
    <2>4. Len(g.gets) \in Nat
      BY <2>1, LenProperties DEF ListsCallers
    <2>5. Len(RemoveFirst(g.gets, p)) = Len(g.gets) - one(waits /\ p \in Callers)
      <3>1. CASE waits /\ p \in Callers
        BY <2>3, <3>1 DEF waits
      <3>2. CASE ~(waits /\ p \in Callers)
        BY <2>3, <2>4, <3>2 DEF waits
      <3> QED BY <3>1, <3>2
    <2> QED BY <1>3, <2>2, <2>3, <2>4, <2>5 DEF waits
  <1>6. /\ RemoveFirst(f.gets, p) = IF p = slave THEN <<>> ELSE f.gets
        /\ Len(f.gets) = one(pc[slave] = "get")
        /\ RemoveFirst(h.gets, p) = IF p = scoreboard THEN <<>> ELSE h.gets
        /\ Len(h.gets) = one(pc[scoreboard] = "get")
        /\ RemoveFirst(g.puts, p) = IF p = slave THEN <<>> ELSE g.puts
        /\ RemoveFirst(h.puts, p) = h.puts /\ h.puts = <<>>
    <2>1. \A x, y : RemoveFirst(<<>>, y) = <<>> /\ RemoveFirst(<<x>>, y) = IF x = y THEN <<>> ELSE <<x>>
      BY RemoveOfShort
    <2>2. /\ f.gets = IF pc[slave] = "get" THEN <<slave>> ELSE <<>>
          /\ g.puts = IF pc[slave] = "put" THEN <<slave>> ELSE <<>>
          /\ h.gets = IF pc[scoreboard] = "get" THEN <<scoreboard>> ELSE <<>>
          /\ h.puts = <<>>
      BY <1>2 DEF ListsOK, ListsThread
    <2> QED BY <2>1, <2>2
  <1>7. ListsOK'
    <2>1. /\ ListsThread(RemoveFirst(f.gets, p), slave, pc', "get")
          /\ ListsThread(RemoveFirst(g.puts, p), slave, pc', "put")
          /\ ListsThread(RemoveFirst(h.gets, p), scoreboard, pc', "get")
      BY <1>2, <1>3, <1>6 DEF ListsOK, ListsThread, Threads
    <2> QED BY <1>1, <1>2, <1>3, <1>5, <1>6, <2>1 DEF ListsOK, Killed, FifoOK, Fifo
  <1>8. /\ FifoOK(Killed(f, p), 1, killed_gets.request + one(waits /\ p = slave))
        /\ FifoOK(Killed(g, p), 1, killed_gets.response + one(waits /\ p \in Callers))
        /\ FifoOK(Killed(h, p), 0, killed_gets.analysis + one(waits /\ p = scoreboard))
        /\ Killed(f, p).m = f.m /\ Killed(g, p).m = g.m
        /\ Killed(g, p).gets = RemoveFirst(g.gets, p)
    <2>1. /\ RemoveFirst(f.puts, p) \in Seq(Threads) /\ RemoveFirst(g.gets, p) \in Seq(Threads)
          /\ RemoveFirst(f.gets, p) \in Seq(Threads) /\ RemoveFirst(g.puts, p) \in Seq(Threads)
          /\ RemoveFirst(h.gets, p) \in Seq(Threads) /\ RemoveFirst(h.puts, p) \in Seq(Threads)
      <3>1. RemoveFirst(f.puts, p) \in Seq(Callers) /\ RemoveFirst(g.gets, p) \in Seq(Callers)
        BY <1>5 DEF ListsCallers
      <3>2. Callers \subseteq Threads
        BY DEF Threads
      <3>3. RemoveFirst(f.puts, p) \in Seq(Threads) /\ RemoveFirst(g.gets, p) \in Seq(Threads)
        BY <3>1, <3>2, SeqMonotonic
      <3> QED BY <1>1, <1>6, <3>3 DEF FifoOK, Fifo
    <2>2. /\ Len(RemoveFirst(f.gets, p)) = Len(f.gets) - one(waits /\ p = slave)
          /\ Len(RemoveFirst(h.gets, p)) = Len(h.gets) - one(waits /\ p = scoreboard)
      <3>1. Len(RemoveFirst(f.gets, p)) = IF p = slave THEN 0 ELSE Len(f.gets)
        BY <1>6, EmptySeq
      <3>2. Len(RemoveFirst(h.gets, p)) = IF p = scoreboard THEN 0 ELSE Len(h.gets)
        BY <1>6, EmptySeq
      <3>3. p = slave => one(waits /\ p = slave) = one(pc[slave] = "get")
        BY DEF waits
      <3>4. p = scoreboard => one(waits /\ p = scoreboard) = one(pc[scoreboard] = "get")
        BY DEF waits
      <3>5. Len(f.gets) \in Nat /\ Len(h.gets) \in Nat
        BY <1>6
      <3>6. Len(RemoveFirst(f.gets, p)) = Len(f.gets) - one(waits /\ p = slave)
        <4>1. CASE p = slave
          BY <4>1, <1>6, <3>1, <3>3, <3>5
        <4>2. CASE p # slave
          BY <4>2, <3>1, <3>5
        <4> QED BY <4>1, <4>2
      <3>7. Len(RemoveFirst(h.gets, p)) = Len(h.gets) - one(waits /\ p = scoreboard)
        <4>1. CASE p = scoreboard
          BY <4>1, <1>6, <3>2, <3>4, <3>5
        <4>2. CASE p # scoreboard
          BY <4>2, <3>2, <3>5
        <4> QED BY <4>1, <4>2
      <3> QED BY <3>6, <3>7
    <2>3. one(waits /\ p = slave) \in Nat /\ one(waits /\ p \in Callers) \in Nat
          /\ one(waits /\ p = scoreboard) \in Nat
      OBVIOUS
    <2> HIDE DEF one
    <2>4. FifoOK(Killed(f, p), 1, killed_gets.request + one(waits /\ p = slave))
      BY <1>1, <2>1, <2>2, <2>3, KilledOK
    <2>5. FifoOK(Killed(g, p), 1, killed_gets.response + one(waits /\ p \in Callers))
      BY <1>1, <1>5, <2>1, <2>3, KilledOK
    <2>6. FifoOK(Killed(h, p), 0, killed_gets.analysis + one(waits /\ p = scoreboard))
      BY <1>1, <2>1, <2>2, <2>3, KilledOK
    <2>7. /\ Killed(f, p).m = f.m /\ Killed(g, p).m = g.m
          /\ Killed(g, p).gets = RemoveFirst(g.gets, p)
      BY <1>1 DEF Killed, FifoOK, Fifo
    <2> QED BY <2>4, <2>5, <2>6, <2>7
  <1>9. TypeOK'
    BY <1>2, <1>3, <1>4, <1>8 DEF TypeOK
  <1>11. CASE puts
    <2> DEFINE a == Askers(g.m)
               d == Askers(f.m)
               e == serving[1]
    <2>1. pc[slave] = "put" /\ p = slave /\ p \notin Callers
      BY <1>1, <1>11 DEF puts
    <2>2. serving \in Items /\ serving # None
      BY <1>2, <2>1 DEF TypeOK, ServingOK
    <2>3. Served(serving) = <<e>> /\ Served(None) = <<>> /\ e \in Callers
      BY <2>2 DEF Served, Items
    <2>4. a \in Seq(Callers) /\ d \in Seq(Callers) /\ InFlight = (a \o <<e>>) \o d
      BY <1>2, <2>3, InFlightParts
    <2>5. InFlight' = (a \o <<>>) \o d
      BY <1>3, <1>8, <1>11, <2>3 DEF InFlight, Askers, Served
    <2>6. Len(InFlight) = Len(InFlight') + 1 /\ Len(InFlight') \in Nat
      <3> HIDE DEF a, d, e
      <3>1. Len(InFlight) = (Len(a) + Len(<<e>>)) + Len(d)
        BY <2>3, <2>4, ConcatProperties
      <3>2. Len(InFlight') = (Len(a) + Len(<<>>)) + Len(d)
        BY <2>4, <2>5, ConcatProperties
      <3>3. Len(a) \in Nat /\ Len(d) \in Nat
        BY <2>4, LenProperties
      <3> QED BY <3>1, <3>2, <3>3
    <2>7. /\ lost' = lost + 1 /\ lost \in Nat /\ orphans' = orphans /\ orphans \in Nat
          /\ m_response_fifo'.gets = g.gets
          /\ Len(InFlight) + lost = Len(g.gets) + orphans
      BY <1>2, <1>3, <1>5, <1>8, <1>11, <2>1 DEF TypeOK, ResponsesInOrder
    <2>8. Len(InFlight') + lost' = Len(m_response_fifo'.gets) + orphans' /\ lost' # 0
      <3> DEFINE n == Len(InFlight')
                 l == Len(g.gets)
      <3>1. (n + 1) + lost = l + orphans /\ n \in Nat /\ l \in Nat
        BY <1>5, <2>6, <2>7
      <3> HIDE DEF n, l
      <3>2. n + (lost + 1) = l + orphans /\ lost + 1 # 0
        BY <2>7, <3>1
      <3> QED BY <2>7, <3>2 DEF n, l
    <2>9. ResponsesInOrder'
      BY <2>8 DEF ResponsesInOrder
    <2>10. ServingOK'
      BY <1>1, <1>2, <1>3, <1>11, <2>1 DEF ServingOK, Threads, q
    <2> QED BY <1>7, <1>9, <2>9, <2>10 DEF ChannelInv
  <1>12. CASE ~puts
    <2>1. ServingOK'
      BY <1>1, <1>2, <1>3, <1>12 DEF ServingOK, Threads, q, puts
    <2>2. InFlight' = InFlight /\ lost' = lost
      BY <1>3, <1>8, <1>12 DEF InFlight
    <2>3. CASE p \in Callers /\ waits
      <3>1. /\ orphans' = orphans + 1 /\ orphans \in Nat /\ lost \in Nat
            /\ Len(m_response_fifo'.gets) = Len(g.gets) - 1
            /\ Len(InFlight) + lost = Len(g.gets) + orphans
        BY <1>2, <1>3, <1>5, <1>8, <2>3 DEF TypeOK, ResponsesInOrder
      <3> DEFINE l == Len(g.gets)
      <3>2. l \in Nat
        BY <1>5
      <3> HIDE DEF l
      <3>3. l + orphans = (l - 1) + (orphans + 1) /\ orphans + 1 # 0
        BY <3>1, <3>2
      <3>4. Len(InFlight') + lost' = Len(m_response_fifo'.gets) + orphans' /\ orphans' # 0
        BY <2>2, <3>1, <3>3 DEF l
      <3>5. ResponsesInOrder'
        BY <3>4 DEF ResponsesInOrder
      <3> QED BY <1>7, <1>9, <2>1, <3>5 DEF ChannelInv
    <2>4. CASE ~(p \in Callers /\ waits)
      <3>1. ResponsesInOrder'
        BY <1>2, <1>3, <1>5, <1>8, <2>2, <2>4 DEF ResponsesInOrder
      <3> QED BY <1>7, <1>9, <2>1, <3>1 DEF ChannelInv
    <2> QED BY <2>3, <2>4
  <1> QED BY <1>11, <1>12

-----------------------------------------------------------------------------
LEMMA InitChannel == Init => ChannelInv
  <1> SUFFICES ASSUME Init PROVE ChannelInv
    OBVIOUS
  <1> USE ChannelAssumption
  <1>1. /\ m_request_fifo = new(1) /\ m_response_fifo = new(1) /\ analysis_fifo = new(0)
        /\ pc = [p \in Threads |-> "idle"]
        /\ serving = <<>> /\ returned = <<>> /\ orphans = 0 /\ lost = 0
        /\ killed_gets = [request |-> 0, response |-> 0, analysis |-> 0]
        /\ calls = [c \in Callers |-> 0]
    BY DEF Init, None, Threads
  <1>2. /\ FifoOK(new(1), 1, 0) /\ FifoOK(new(0), 0, 0)
        /\ new(1).m = <<>> /\ new(1).puts = <<>> /\ new(1).gets = <<>>
        /\ new(0).puts = <<>> /\ new(0).gets = <<>>
    BY DEF new, FifoOK, Fifo
  <1>3. TypeOK
    BY <1>1, <1>2 DEF TypeOK, Places, None
  <1>4. ListsOK
    <2>1. <<>> \in Seq(Callers) /\ Len(<<>>) = 0
      OBVIOUS
    <2>2. \A p \in Threads : pc[p] = "idle"
      BY <1>1
    <2>3. ListsCallers(<<>>, pc, "put") /\ ListsCallers(<<>>, pc, "get")
      BY <2>1, <2>2 DEF ListsCallers, Threads
    <2>4. ListsThread(<<>>, slave, pc, "get") /\ ListsThread(<<>>, slave, pc, "put")
          /\ ListsThread(<<>>, scoreboard, pc, "get")
      BY <2>2 DEF ListsThread, Threads
    <2> QED BY <1>1, <1>2, <2>3, <2>4 DEF ListsOK
  <1>5. ServingOK
    BY <1>1 DEF ServingOK, None, Threads
  <1>6. ResponsesInOrder
    <2>1. Askers(<<>>) = <<>> /\ Served(<<>>) = <<>>
      BY DEF Askers, Served, None
    <2>2. InFlight = (<<>> \o <<>>) \o <<>>
      BY <1>1, <1>2, <2>1, <1>3, InFlightParts
    <2>3. InFlight = <<>>
      BY <2>2
    <2> QED BY <1>1, <1>2, <2>3 DEF ResponsesInOrder, None
  <1> QED BY <1>3, <1>4, <1>5, <1>6 DEF ChannelInv

LEMMA NextChannel ==
  ASSUME ChannelInv, [Next]_vars
  PROVE  ChannelInv'
  <1>1. CASE UNCHANGED vars
    BY <1>1 DEF vars, fifos, ChannelInv, TypeOK, ListsOK, ServingOK, ResponsesInOrder, InFlight
  <1>2. ASSUME NEW c \in Callers,
               transport(c) \/ transport_put(c) \/ transport_get(c) \/ nb_transport(c)
        PROVE  ChannelInv'
    BY <1>2, TransportStep, TransportPutStep, TransportGetStep, NbTransportStep
  <1>3. ASSUME slave_get \/ slave_peek \/ slave_got \/ slave_put PROVE ChannelInv'
    BY <1>3, SlaveGetStep, SlavePeekStep, SlaveGotStep, SlavePutStep
  <1>4. ASSUME scoreboard_get \/ scoreboard_flush PROVE ChannelInv'
    BY <1>4, ScoreboardGetStep, ScoreboardFlushStep
  <1>5. ASSUME NEW p \in Threads, kill(p) PROVE ChannelInv'
    BY <1>5, KillStep
  <1> QED BY <1>1, <1>2, <1>3, <1>4, <1>5 DEF Next, Threads

\* The places of the threads, the lists of the mailboxes and their counts of
\* blocked gets agree for ever (uvm_tlm_fifos.svh:104-199).
THEOREM Channel == Spec => []ChannelInv
  <1>1. Init => ChannelInv
    BY InitChannel
  <1>2. ChannelInv /\ [Next]_vars => ChannelInv'
    BY NextChannel
  <1> QED BY <1>1, <1>2, PTL DEF Spec

\* An answer goes to who asked, for any number of callers, until a caller has
\* left a request behind or a response was lost with the slave; after that there
\* are for ever as many more requests in the channel than callers who wait as
\* there were calls of the first kind, less those of the other
\* (uvm_tlm_req_rsp.svh:336).
THEOREM InOrder == Spec => []ResponsesInOrder
  <1>1. ChannelInv => ResponsesInOrder
    BY DEF ChannelInv
  <1> QED BY <1>1, Channel, PTL

\* Where can_get says yes an item is there that no blocked get is waiting for,
\* and it says no to such an item only while a get is blocked or after one of
\* this fifo has been killed (uvm_tlm_fifos.svh:158).
THEOREM CanGetSafe == Spec => []CanGetIsSafe
  <1>1. ASSUME NEW f, NEW size \in Nat, NEW killed \in Nat, FifoOK(f, size, killed)
        PROVE  /\ can_get(f) => Unclaimed(f)
               /\ Unclaimed(f) /\ ~can_get(f) => f.gets # <<>> \/ killed > 0
    <2>1. /\ Len(f.gets) \in Nat /\ Len(f.m) \in Nat
          /\ Len(f.gets) = 0 <=> f.gets = <<>>
          /\ f.m_pending_blocked_gets = Len(f.gets) + killed
      BY <1>1, EmptySeq, LenProperties DEF FifoOK, Fifo
    <2> QED BY <1>1, <2>1 DEF can_get, Unclaimed, used
  <1>2. ChannelInv => CanGetIsSafe
    <2> SUFFICES ASSUME ChannelInv, NEW f \in Fifos
                 PROVE  /\ can_get(f[1]) => Unclaimed(f[1])
                        /\ Unclaimed(f[1]) /\ ~can_get(f[1])
                             => f[1].gets # <<>> \/ killed_gets[f[2]] > 0
      BY DEF CanGetIsSafe
    <2>1. CASE f = <<m_request_fifo, "request">>
      BY <1>1, <2>1, Facts
    <2>2. CASE f = <<m_response_fifo, "response">>
      BY <1>1, <2>2, Facts
    <2>3. CASE f = <<analysis_fifo, "analysis">>
      BY <1>1, <2>3, Facts
    <2> QED BY <2>1, <2>2, <2>3 DEF Fifos
  <1> QED BY <1>2, Channel, PTL

\* A flush empties the analysis fifo, or there is a get that waits and the
\* error is reported (uvm_tlm_fifos.svh:172).
THEOREM FlushIsTold == Spec => FlushOrError
  <1>1. ASSUME ChannelInv, scoreboard_flush
        PROVE  /\ flush_error' <=> used(analysis_fifo') > 0
               /\ flush_error' => analysis_fifo.gets # <<>>
    <2> DEFINE f == analysis_fifo
    <2>1. FifoOK(f, 0, killed_gets.analysis) /\ killed_gets.analysis \in Nat
      BY <1>1, Facts
    <2>2. /\ Len(flush(f).m) = IF Len(f.m) > Len(f.gets) THEN Len(f.gets) ELSE Len(f.m)
          /\ flush(f).m_pending_blocked_gets = f.m_pending_blocked_gets
      BY <2>1, FlushOK
    <2>3. /\ Len(f.gets) \in Nat /\ Len(f.m) \in Nat
          /\ Len(f.gets) = 0 <=> f.gets = <<>>
          /\ f.m_pending_blocked_gets = Len(f.gets) + killed_gets.analysis
      BY <2>1, EmptySeq, LenProperties DEF FifoOK, Fifo
    <2>4. /\ analysis_fifo' = flush(f)
          /\ flush_error' <=> Len(flush(f).m) > 0 /\ flush(f).m_pending_blocked_gets # 0
      BY <1>1 DEF scoreboard_flush, flush_failed, used
    <2>5. Len(flush(f).m) > 0 => Len(f.gets) # 0
      BY <2>2, <2>3
    <2> QED BY <2>1, <2>2, <2>3, <2>4, <2>5 DEF used
  <1>2. ChannelInv /\ [Next]_vars =>
          [scoreboard_flush => (flush_error' <=> used(analysis_fifo') > 0)
                                 /\ (flush_error' => analysis_fifo.gets # <<>>)]_vars
    BY <1>1
  <1> QED BY <1>2, Channel, PTL DEF Spec, FlushOrError
=============================================================================
