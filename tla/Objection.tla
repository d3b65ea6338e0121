----------------------------- MODULE Objection -----------------------------
(***************************************************************************)
(* One uvm_objection over a tree of components                             *)
(* (src/UVM/uvm-1.2/src/base/uvm_objection.svh).                           *)
(*                                                                         *)
(* A raise or a drop at an object changes its count and is propagated to   *)
(* the root at once, except that a drop which leaves an object with total  *)
(* zero stops there: a context with the count is scheduled, the background *)
(* process moves it to the forked list and forks a process, which takes it *)
(* and drains the object (drain time, then the all_dropped callback)       *)
(* before it propagates the drop.  A raise that meets such a context takes *)
(* it back, kills the draining process if there is one, and propagates     *)
(* only the difference of the two counts.                                  *)
(***************************************************************************)
EXTENDS Integers, Sequences, SequencesExt, FiniteSets

CONSTANTS
  Objects,   \* the components that objections are raised and propagated at
  Top,       \* m_top, the root
  Parent,    \* Parent[o]: the parent of each object but the root
  NoObject,
  Counts,    \* the counts that one call may raise or drop
  MaxOwed,   \* bound: what an object may have raised and not dropped yet
  MaxForks,  \* bound: forked processes that have not run yet
  Controls   \* what else the testbench does: see ControlKinds

(***************************************************************************)
(* raise_in_all_dropped: the all_dropped callback, which runs in the       *)
(* draining process, raises an objection itself.                           *)
(***************************************************************************)
ControlKinds == {"clear", "set_propagate_mode", "raise_in_all_dropped"}

\* The objects from o up to the root.
Above(o) ==
  {a \in Objects : \A S \in SUBSET Objects :
     o \in S /\ (\A x \in S \ {Top} : Parent[x] \in S) => a \in S}

ASSUME ObjectionAssumption ==
  /\ IsFiniteSet(Objects) /\ Top \in Objects
  /\ Parent \in [Objects \ {Top} -> Objects]
  /\ \A o \in Objects : Top \in Above(o)
  /\ NoObject \notin Objects
  /\ Counts \subseteq Nat \ {0}
  /\ MaxOwed \in Nat /\ MaxForks \in Nat
  /\ Controls \subseteq ControlKinds

VARIABLES
  m_source_count,
  m_total_count,
  m_scheduled_list,   \* contexts that wait for the background process
  m_forked_list,      \* contexts that wait for a forked process
  m_forked_contexts,  \* contexts that a process drains
  unstarted,          \* forked processes that have not run yet
  m_prop_mode,
  m_cleared,
  m_top_all_dropped,
  waiter,             \* a process in wait_for(UVM_ALL_DROPPED, m_top)
  owed,               \* what the owner of each object still has to drop
  fatal               \* "attempted to drop objection count below zero"

contexts == <<m_scheduled_list, m_forked_list, m_forked_contexts>>
vars == <<m_source_count, m_total_count, contexts, unstarted, m_prop_mode,
          m_cleared, m_top_all_dropped, waiter, owed, fatal>>

Context == [obj : Objects, count : Nat \ {0}]

m_get_parent(o) == IF m_prop_mode THEN Parent[o] ELSE Top

-----------------------------------------------------------------------------
(***************************************************************************)
(* What m_raise and m_drop do, on a record of the counts and contexts and  *)
(* of the call that is still to be made: count raised at at, or -count     *)
(* dropped there.  caller is the object whose draining process makes the   *)
(* call and does not survive its own kill, or NoObject.                    *)
(***************************************************************************)
Books ==
  [total |-> m_total_count, scheduled |-> m_scheduled_list,
   forked |-> m_forked_list, draining |-> m_forked_contexts,
   cleared |-> m_cleared, fatal |-> FALSE, caller |-> NoObject,
   at |-> NoObject, count |-> 0]

SetBooks(B) ==
  /\ m_total_count' = B.total
  /\ m_scheduled_list' = B.scheduled
  /\ m_forked_list' = B.forked
  /\ m_forked_contexts' = B.draining
  /\ fatal' = B.fatal

Listed(list, o) == \E i \in 1..Len(list) : list[i].obj = o
FirstOf(list, o) == list[SelectInSeq(list, LAMBDA c : c.obj = o)]
Drained(B, o) == \E c \in B.draining : c.obj = o

Caught(B, o) ==
  IF Listed(B.scheduled, o) THEN FirstOf(B.scheduled, o).count
  ELSE IF Listed(B.forked, o) THEN FirstOf(B.forked, o).count
  ELSE IF Drained(B, o) THEN (CHOOSE c \in B.draining : c.obj = o).count
  ELSE 0

\* Mutant: a process that drains already is left alone.
take_back_queued(B, o) ==
  IF Listed(B.scheduled, o)
  THEN [B EXCEPT !.scheduled = RemoveFirst(@, FirstOf(@, o))]
  ELSE IF Listed(B.forked, o)
  THEN [B EXCEPT !.forked = RemoveFirst(@, FirstOf(@, o))]
  ELSE B

\* The context of o leaves the first place it is found in; the process that
\* drains o, if it is there, is killed.
take_back(B, o) ==
  IF Listed(B.scheduled, o)
  THEN [B EXCEPT !.scheduled = RemoveFirst(@, FirstOf(@, o))]
  ELSE IF Listed(B.forked, o)
  THEN [B EXCEPT !.forked = RemoveFirst(@, FirstOf(@, o))]
  ELSE [B EXCEPT !.draining = {c \in @ : c.obj # o}]

\* The next call.
CallAt(B, o, count) == [B EXCEPT !.at = o, !.count = count]

m_drop(B) ==
  LET o == B.at
      left == B.total[o] + B.count
      D == [B EXCEPT !.total[o] = left, !.count = 0]
  IN  IF left < 0 THEN [B EXCEPT !.fatal = ~B.cleared, !.count = 0]
      ELSE IF left = 0
      THEN [D EXCEPT !.scheduled = Append(@, [obj |-> o, count |-> -B.count])]
      ELSE IF o = Top THEN D
      ELSE CallAt(D, m_get_parent(o), B.count)

\* Mutant: all of the raise is propagated, whatever drop it took back.
raise_all(B) ==
  LET o == B.at
      R == take_back([B EXCEPT !.total[o] = @ + B.count], o)
  IN  IF o = Top THEN [R EXCEPT !.count = 0]
      ELSE CallAt(R, m_get_parent(o), B.count)

\* A process that meets its own context kills itself: caller is gone before
\* the difference is propagated.
m_raise(B) ==
  LET o == B.at
      R == take_back([B EXCEPT !.total[o] = @ + B.count], o)
  IN  IF o = Top \/ o = B.caller THEN [R EXCEPT !.count = 0]
      ELSE CallAt(R, m_get_parent(o), B.count - Caught(B, o))

Call(B) ==
  IF B.count > 0 THEN m_raise(B) ELSE IF B.count < 0 THEN m_drop(B) ELSE B

\* Each call makes the next one, at the parent, at most once per object.
m_propagate(B, o, count) ==
  LET calls[k \in 0..Cardinality(Objects)] ==
        IF k = 0 THEN CallAt(B, o, count) ELSE Call(calls[k - 1])
  IN  calls[Cardinality(Objects)]

-----------------------------------------------------------------------------
(* What objects do. *)

\* Mutant: "all dropped" is not taken back.
raise_keeps_all_dropped(o, count) ==
  /\ ~fatal /\ owed[o] + count <= MaxOwed
  /\ m_cleared' = FALSE
  /\ m_source_count' = [m_source_count EXCEPT ![o] = @ + count]
  /\ SetBooks(m_propagate([Books EXCEPT !.cleared = FALSE], o, count))
  /\ owed' = [owed EXCEPT ![o] = @ + count]
  /\ UNCHANGED <<unstarted, m_prop_mode, m_top_all_dropped, waiter>>

raise_objection(o, count) ==
  /\ ~fatal /\ owed[o] + count <= MaxOwed
  /\ m_cleared' = FALSE /\ m_top_all_dropped' = FALSE
  /\ m_source_count' = [m_source_count EXCEPT ![o] = @ + count]
  /\ SetBooks(m_propagate([Books EXCEPT !.cleared = FALSE], o, count))
  /\ owed' = [owed EXCEPT ![o] = @ + count]
  /\ UNCHANGED <<unstarted, m_prop_mode, waiter>>

\* An owner drops no more than it has raised; what a clear has taken away is
\* ignored until the next raise of any object, and a fatal after it.
drop_objection(o, count) ==
  /\ ~fatal /\ count <= owed[o]
  /\ owed' = [owed EXCEPT ![o] = @ - count]
  /\ IF count > m_total_count[o] \/ count > m_source_count[o]
     THEN /\ fatal' = ~m_cleared
          /\ UNCHANGED <<m_source_count, m_total_count, contexts>>
     ELSE /\ m_source_count' = [m_source_count EXCEPT ![o] = @ - count]
          /\ SetBooks(m_propagate(Books, o, -count))
  /\ UNCHANGED <<unstarted, m_prop_mode, m_cleared, m_top_all_dropped, waiter>>

set_propagate_mode(mode) ==
  /\ ~fatal /\ "set_propagate_mode" \in Controls
  /\ m_top_all_dropped \/ m_total_count[Top] = 0
  /\ m_prop_mode' = mode
  /\ UNCHANGED <<m_source_count, m_total_count, contexts, unstarted, m_cleared,
                 m_top_all_dropped, waiter, owed, fatal>>

\* Mutant: nobody is told.
clear_silently ==
  /\ ~fatal /\ "clear" \in Controls
  /\ m_source_count' = [o \in Objects |-> 0]
  /\ m_total_count' = [o \in Objects |-> 0]
  /\ m_scheduled_list' = <<>> /\ m_forked_list' = <<>>
  /\ m_forked_contexts' = {}
  /\ m_top_all_dropped' = FALSE /\ m_cleared' = TRUE
  /\ UNCHANGED <<unstarted, m_prop_mode, waiter, owed, fatal>>

\* Mutant: the processes that drain are not killed.
clear_counts ==
  /\ ~fatal /\ "clear" \in Controls
  /\ m_source_count' = [o \in Objects |-> 0]
  /\ m_total_count' = [o \in Objects |-> 0]
  /\ m_scheduled_list' = <<>> /\ m_forked_list' = <<>>
  /\ m_top_all_dropped' = FALSE /\ m_cleared' = TRUE
  /\ waiter' = "idle"
  /\ UNCHANGED <<m_forked_contexts, unstarted, m_prop_mode, owed, fatal>>

clear ==
  /\ ~fatal /\ "clear" \in Controls
  /\ m_source_count' = [o \in Objects |-> 0]
  /\ m_total_count' = [o \in Objects |-> 0]
  /\ m_scheduled_list' = <<>> /\ m_forked_list' = <<>>
  /\ m_forked_contexts' = {}
  /\ m_top_all_dropped' = FALSE /\ m_cleared' = TRUE
  /\ waiter' = "idle"
  /\ UNCHANGED <<unstarted, m_prop_mode, owed, fatal>>

\* A phase waits if something is raised; the event wakes it.
wait_for ==
  /\ ~fatal /\ waiter = "idle"
  /\ m_total_count[Top] # 0 /\ ~m_top_all_dropped
  /\ waiter' = "waiting"
  /\ UNCHANGED <<m_source_count, m_total_count, contexts, unstarted, m_prop_mode,
                 m_cleared, m_top_all_dropped, owed, fatal>>

-----------------------------------------------------------------------------
(* The background process, and the processes it forks. *)

\* The background process moves all it finds before it blocks again.
m_execute_scheduled_forks ==
  /\ ~fatal /\ m_scheduled_list # <<>>
  /\ unstarted + Len(m_scheduled_list) <= MaxForks
  /\ m_forked_list' = m_forked_list \o m_scheduled_list
  /\ unstarted' = unstarted + Len(m_scheduled_list)
  /\ m_scheduled_list' = <<>>
  /\ UNCHANGED <<m_source_count, m_total_count, m_forked_contexts, m_prop_mode,
                 m_cleared, m_top_all_dropped, waiter, owed, fatal>>

\* A forked process takes the first context of the list, which need not be
\* the one it was forked for; it ends if a raise has left none.
fork_starts ==
  /\ ~fatal /\ unstarted > 0
  /\ unstarted' = unstarted - 1
  /\ IF m_forked_list = <<>> THEN UNCHANGED contexts
     ELSE /\ m_forked_list' = Tail(m_forked_list)
          /\ m_forked_contexts' = m_forked_contexts \union {Head(m_forked_list)}
          /\ UNCHANGED m_scheduled_list
  /\ UNCHANGED <<m_source_count, m_total_count, m_prop_mode, m_cleared,
                 m_top_all_dropped, waiter, owed, fatal>>

\* The drain time has passed and the all_dropped callback has returned.  At the root
\* "all dropped" is said before the processes that the callback has forked are awaited
\* (wait fork), and the context may stay until a later step.
m_forked_drain(c) ==
  /\ ~fatal /\ c \in m_forked_contexts
  /\ IF c.obj = Top
     THEN /\ m_forked_contexts' \in {m_forked_contexts, m_forked_contexts \ {c}}
          /\ m_top_all_dropped' = TRUE
          /\ waiter' = "idle"
          /\ UNCHANGED <<m_total_count, m_scheduled_list, m_forked_list, fatal>>
     ELSE /\ SetBooks(m_propagate([Books EXCEPT !.draining = @ \ {c}],
                                  m_get_parent(c.obj), -c.count))
          /\ UNCHANGED <<m_top_all_dropped, waiter>>
  /\ UNCHANGED <<m_source_count, unstarted, m_prop_mode, m_cleared, owed>>

\* The callback of c raises at o. Whether a process that kills itself still
\* runs to the end of m_raise is the simulator's choice.
all_dropped_raises(c, o, count) ==
  /\ ~fatal /\ "raise_in_all_dropped" \in Controls
  /\ c \in m_forked_contexts /\ owed[o] + count <= MaxOwed
  /\ m_cleared' = FALSE /\ m_top_all_dropped' = FALSE
  /\ m_source_count' = [m_source_count EXCEPT ![o] = @ + count]
  /\ \E caller \in {c.obj, NoObject} :
       SetBooks(m_propagate([Books EXCEPT !.cleared = FALSE, !.caller = caller],
                            o, count))
  /\ owed' = [owed EXCEPT ![o] = @ + count]
  /\ UNCHANGED <<unstarted, m_prop_mode, waiter>>

-----------------------------------------------------------------------------

Init ==
  /\ m_source_count = [o \in Objects |-> 0]
  /\ m_total_count = [o \in Objects |-> 0]
  /\ m_scheduled_list = <<>> /\ m_forked_list = <<>> /\ m_forked_contexts = {}
  /\ unstarted = 0
  /\ m_prop_mode = TRUE /\ m_cleared = FALSE /\ m_top_all_dropped = FALSE
  /\ waiter = "idle"
  /\ owed = [o \in Objects |-> 0]
  /\ fatal = FALSE

Testbench ==
  \/ \E o \in Objects, count \in Counts :
       raise_objection(o, count) \/ drop_objection(o, count)
  \/ \E mode \in BOOLEAN : set_propagate_mode(mode)
  \/ clear \/ wait_for

Drain == \E c \in m_forked_contexts : m_forked_drain(c)

Next ==
  \/ Testbench
  \/ m_execute_scheduled_forks \/ fork_starts \/ Drain
  \/ \E c \in m_forked_contexts, o \in Objects, count \in Counts :
       all_dropped_raises(c, o, count)

Spec == Init /\ [][Next]_vars

\* Processes that can run do, drain times pass and callbacks return.
FairSpec ==
  /\ Spec
  /\ WF_vars(m_execute_scheduled_forks) /\ WF_vars(fork_starts)
  /\ \A o \in Objects :
       WF_vars(\E c \in m_forked_contexts : c.obj = o /\ m_forked_drain(c))

=============================================================================
