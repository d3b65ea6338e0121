------------------------------ MODULE TlmFifo ------------------------------
(***************************************************************************)
(* A uvm_tlm_fifo (tlm1/uvm_tlm_fifos.svh) as a record: its size, its      *)
(* mailbox, the processes that are in a put or a get, in order, and its    *)
(* count of blocked gets.                                                  *)
(*                                                                         *)
(* The mailbox is the language's: who has called put or get first is       *)
(* served first, and an item or a place that such a process will take is   *)
(* not there for the try_ calls (the error in flush tells of it).  A call  *)
(* that could return at once does so in a step of its own.                 *)
(***************************************************************************)
EXTENDS SequencesExt, Integers

new(size) ==
  [m_size |-> size, m |-> <<>>, puts |-> <<>>, gets |-> <<>>, m_pending_blocked_gets |-> 0]

used(f) == Len(f.m)
is_empty(f) == f.m = <<>>
can_get(f) == used(f) > 0 /\ f.m_pending_blocked_gets = 0
can_peek(f) == used(f) > 0

\* The mailbox.
Room(f) == f.m_size = 0 \/ used(f) + Len(f.puts) < f.m_size
Unclaimed(f) == used(f) > Len(f.gets)
push_back(f, t) == [f EXCEPT !.m = Append(@, t)]
pop_front(f) == [f EXCEPT !.m = Tail(@)]

\* The calls that block, each as the step that begins it and the one that ends it.
put(f, process) == [f EXCEPT !.puts = Append(@, process)]
put_ready(f, process) ==
  f.puts # <<>> /\ Head(f.puts) = process /\ (f.m_size = 0 \/ used(f) < f.m_size)
put_ends(f, t) == push_back([f EXCEPT !.puts = Tail(@)], t)

\* Mutant: a get is counted only when it has to wait.
get_uncounted(f, process) ==
  [f EXCEPT !.gets = Append(@, process),
            !.m_pending_blocked_gets = IF used(f) = 0 THEN @ + 1 ELSE @]

get(f, process) ==
  [f EXCEPT !.gets = Append(@, process), !.m_pending_blocked_gets = @ + 1]
get_ready(f, process) == f.gets # <<>> /\ Head(f.gets) = process /\ ~is_empty(f)
get_ends(f) ==
  pop_front([f EXCEPT !.gets = Tail(@), !.m_pending_blocked_gets = @ - 1])

\* A process that is killed leaves the mailbox, but not the count.
Killed(f, process) ==
  [f EXCEPT !.puts = RemoveFirst(@, process), !.gets = RemoveFirst(@, process)]

\* Mutant: one entry is removed.
flush_first(f) == IF Unclaimed(f) THEN pop_front(f) ELSE f

\* What try_get cannot get stays, and is an error.
flush(f) == [f EXCEPT !.m = IF Unclaimed(f) THEN SubSeq(@, used(f) - Len(f.gets) + 1, used(f))
                            ELSE @]
flush_failed(f) == used(f) > 0 /\ f.m_pending_blocked_gets # 0
=============================================================================
