------------------------------- MODULE Phase -------------------------------
(***************************************************************************)
(* The phase scheduler (src/UVM/uvm-1.2/src/base/uvm_phase.svh): a graph   *)
(* of phase nodes, each executed by a process of its own (execute_phase)   *)
(* that a runner forks for every node it takes from the hopper.            *)
(*                                                                         *)
(* Processes are cooperative.  "#0" and uvm_wait_for_nba_region postpone a *)
(* process until no other can run in this delta, in this time step; the    *)
(* code relies on it to let waiters wake up.  An objection is reduced to   *)
(* what a phase sees of it: raised, draining at the root, all dropped.     *)
(***************************************************************************)
EXTENDS Naturals, Sequences, SequencesExt, FiniteSets

CONSTANTS
  Nodes,
  Kind,          \* "task", "function", or "fake": a schedule, domain or terminal
  m_successors,  \* per node a sequence: the order of the code's foreach
  m_predecessors,
  m_sync,
  JumpPairs,     \* the jumps <<from, to>> that the testbench may ask for
  MaxJumps,      \* bound: how many it asks for
  max_ready_to_end_iter

ASSUME PhaseAssumption ==
  /\ IsFiniteSet(Nodes)
  /\ Kind \in [Nodes -> {"task", "function", "fake"}]
  /\ \A f \in {m_successors, m_predecessors, m_sync} :
       DOMAIN f = Nodes /\ \A n \in Nodes : f[n] \in Seq(Nodes)
  /\ JumpPairs \subseteq Nodes \X Nodes
  /\ MaxJumps \in Nat /\ max_ready_to_end_iter \in Nat \ {0}

\* add() enters every successor's edge at its other end too. Not the reverse:
\* between two phases it leaves the later one the edge to the earlier.
ASSUME EdgeAssumption ==
  \A m, n \in Nodes : n \in ToSet(m_successors[m]) => m \in ToSet(m_predecessors[n])

VARIABLES
  m_state,
  proc,              \* execute_phase of each node: see Process
  m_ready_to_end_count,
  m_phase_proc,      \* the tasks of a phase: "lost" if only the handle is gone
  objection,         \* phase_done: see Objects
  m_premature_end,
  m_jump,            \* m_jump_fwd, m_jump_bkwd, m_jump_phase
  m_phase_hopper,
  runner,            \* how long m_run_phases postpones itself
  m_phase_all_done,
  overlap,           \* a node is executed by two processes
  jumps

runVars == <<m_phase_hopper, runner, m_phase_all_done, overlap>>
jumpVars == <<m_premature_end, m_jump, jumps>>
taskVars == <<m_ready_to_end_count, m_phase_proc, objection>>
vars == <<m_state, proc, taskVars, jumpVars, runVars>>

\* uvm_phase_state
DORMANT == 1
SCHEDULED == 2
SYNCING == 4
STARTED == 8
EXECUTING == 16
READY_TO_END == 32
ENDED == 64
CLEANUP == 128
DONE == 256
JUMPING == 512

-----------------------------------------------------------------------------
(* The graph. *)

\* The nodes that edges lead to from those of N, fakes replaced by what
\* follows them.
Expand(edges, N) ==
  LET step[k \in 0..Cardinality(Nodes)] ==
        IF k = 0 THEN N
        ELSE {n \in step[k - 1] : Kind[n] # "fake"} \union
             UNION {ToSet(edges[n]) : n \in {m \in step[k - 1] : Kind[m] = "fake"}}
  IN  step[Cardinality(Nodes)]

get_adjacent_successor_nodes(n) == Expand(m_successors, ToSet(m_successors[n]))

get_predecessors_for_successors(n) ==
  Expand(m_predecessors,
         UNION {ToSet(m_predecessors[s]) : s \in get_adjacent_successor_nodes(n)})
    \ {n}

\* An associative array: some order.
predecessors_of_successors ==
  [n \in Nodes |-> SetToSeq(get_predecessors_for_successors(n))]
Siblings ==
  [n \in Nodes |->
     SetToSeq(get_predecessors_for_successors(n) \union ToSet(m_sync[n]))]

\* What clear_successors reaches from n without entering end.
Reach(n, end) ==
  LET step[k \in 0..Cardinality(Nodes)] ==
        IF k = 0 THEN {n} \ end
        ELSE step[k - 1] \union
             UNION {ToSet(m_successors[m]) \ end : m \in step[k - 1]}
  IN  step[Cardinality(Nodes)]

ASSUME JumpAssumption ==
  \A n, to \in Nodes :
    <<n, to>> \in JumpPairs => n \in Reach(to, {}) \/ to \in Reach(n, {})

-----------------------------------------------------------------------------
(***************************************************************************)
(* Processes. at is where execute_phase is, delay how long it postpones    *)
(* itself, todo what is left of the foreach it is in, and again is         *)
(* need_to_check_all.                                                      *)
(***************************************************************************)
At(at) == [at |-> at, delay |-> "none", todo |-> <<>>, again |-> FALSE]
Over(at, todo) == [At(at) EXCEPT !.todo = todo]
Later(at) == [At(at) EXCEPT !.delay = "#0"]
Nba(at) == [At(at) EXCEPT !.delay = "nba"]

Go(n, p) == proc' = [proc EXCEPT ![n] = p]

\* Mutant: a predecessor need not be done.
ended_will_do(at, m) ==
  CASE at = "predecessors" -> m_state[m] >= ENDED
    [] at = "sync" -> m_state[m] >= SYNCING
    [] at = "wait_for_pred" -> m_state[m] >= READY_TO_END
    [] at = "siblings" -> m_state[m] >= EXECUTING

\* What a foreach with a wait in it waits for.
Satisfied(at, m) ==
  CASE at = "predecessors" -> m_state[m] = DONE
    [] at = "sync" -> m_state[m] >= SYNCING
    [] at = "wait_for_pred" -> m_state[m] >= READY_TO_END
    [] at = "siblings" -> m_state[m] >= EXECUTING

Foreach == {"predecessors", "sync", "wait_for_pred", "siblings"}
Asleep == {"idle", "all_dropped", "self_drop", "sibling_drop"}

\* The three threads that wait for the end of a task phase.
InFork(n) ==
  \/ proc[n].at = "check" /\ proc[n].delay = "none"
  \/ proc[n].at \in {"all_dropped", "self_drop", "sibling_drop", "drop_check",
                     "siblings", "ready_to_end", "recheck"}

\* phase_done.get_objection_total(top) is not 0. An objection is "unheard" if the
\* phase has looked at its own before it was raised, and no other look is to come.
Objects(n) == objection[n] \in {"raised", "unheard"}

\* After all, another look is to come.
Heard(n) == [objection EXCEPT ![n] = IF @ = "unheard" THEN "raised" ELSE @]

Ready(n, at) == ~overlap /\ proc[n].at = at /\ proc[n].delay = "none"

Blocked(n) ==
  \/ proc[n].delay # "none" \/ proc[n].at \in Asleep
  \/ /\ proc[n].at \in Foreach /\ proc[n].todo # <<>>
     /\ ~Satisfied(proc[n].at, Head(proc[n].todo))

Runnable(n) == ~Blocked(n) \/ (InFork(n) /\ m_premature_end[n])

\* The foreach goes on to the first element that it has to wait for.
Remaining(n) ==
  LET blocked == SelectInSeq(proc[n].todo,
                             LAMBDA m : ~Satisfied(proc[n].at, m))
  IN  IF blocked = 0 THEN <<>>
      ELSE SubSeq(proc[n].todo, blocked, Len(proc[n].todo))

Waits(n, at) ==
  /\ Ready(n, at) /\ ~Blocked(n) /\ Remaining(n) # <<>>
  /\ Go(n, Over(at, Remaining(n)))
  /\ UNCHANGED <<m_state, taskVars, jumpVars, runVars>>
Passes(n, at) == Ready(n, at) /\ Remaining(n) = <<>>

\* P with the processes woken that wait for an objection of N.
Woken(P, N) ==
  [n \in Nodes |->
     CASE P[n].at = "all_dropped" /\ n \in N -> At("drop_check")
       [] P[n].at = "self_drop" /\ n \in N ->
            [Over("siblings", Siblings[n]) EXCEPT !.again = TRUE]
       [] P[n].at = "sibling_drop" /\ Head(P[n].todo) \in N ->
            [P[n] EXCEPT !.at = "siblings", !.todo = Tail(@)]
       [] OTHER -> P[n]]

-----------------------------------------------------------------------------
(* execute_phase, up to the body of the phase. *)

await_predecessors(n) ==
  \/ Waits(n, "predecessors")
  \/ /\ Passes(n, "predecessors")
     /\ IF m_state[n] = DONE
        THEN Go(n, At("idle")) /\ UNCHANGED m_state
        ELSE /\ m_state' = [m_state EXCEPT ![n] = SYNCING]
             /\ Go(n, [Later("sync") EXCEPT !.todo = m_sync[n]])
     /\ UNCHANGED <<taskVars, jumpVars, runVars>>

await_sync(n) ==
  \/ Waits(n, "sync")
  \/ /\ Passes(n, "sync")
     /\ m_state' = [m_state EXCEPT ![n] = STARTED]
     /\ m_ready_to_end_count' =
          [m_ready_to_end_count EXCEPT ![n] = IF Kind[n] = "fake" THEN @ ELSE 0]
     /\ Go(n, Later("started"))
     /\ UNCHANGED <<m_phase_proc, objection, jumpVars, runVars>>

execute(n) ==
  /\ Ready(n, "started")
  /\ m_state' = [m_state EXCEPT ![n] = EXECUTING]
  /\ \/ Kind[n] = "fake" /\ Go(n, Later("finish")) /\ UNCHANGED m_phase_proc
     \/ Kind[n] = "function" /\ Go(n, Later("function")) /\ UNCHANGED m_phase_proc
     \/ /\ Kind[n] = "task" /\ Go(n, Nba("check"))
        /\ m_phase_proc' = [m_phase_proc EXCEPT ![n] = "alive"]
  /\ UNCHANGED <<m_ready_to_end_count, objection, jumpVars, runVars>>

function_phase(n) ==
  /\ Ready(n, "function")
  /\ Go(n, IF m_premature_end[n] THEN Later("ended")
           ELSE Over("wait_for_pred", predecessors_of_successors[n]))
  /\ UNCHANGED <<m_state, taskVars, jumpVars, runVars>>

m_wait_for_pred(n) ==
  \/ Waits(n, "wait_for_pred")
  \/ /\ Passes(n, "wait_for_pred")
     /\ Go(n, Later("ended"))
     /\ UNCHANGED <<m_state, taskVars, jumpVars, runVars>>

-----------------------------------------------------------------------------
(* The end of a task phase: all objections dropped, or a jump. *)

\* "if (phase_done.get_objection_total(top))"
check_objection(n) ==
  /\ Ready(n, "check")
  /\ Go(n, At(IF Objects(n) THEN "all_dropped" ELSE "drop_check"))
  /\ UNCHANGED <<m_state, taskVars, jumpVars, runVars>>

\* All are dropped: first time and after every return to EXECUTING, the
\* phase says that it is ready to end.
Dropped(n) ==
  IF m_ready_to_end_count[n] = 0
     \/ (m_state[n] = EXECUTING /\ m_ready_to_end_count[n] < max_ready_to_end_iter)
  THEN Nba("ready_to_end")
  ELSE At("exit")

\* Mutant: nobody is looked at again.
sweep_once(list, again, passed) ==
  LET i == SelectInSeq(list, LAMBDA m : m_state[m] < EXECUTING \/ Objects(m))
      left == SubSeq(list, i, Len(list))
  IN  IF i = 0 THEN passed
      ELSE IF m_state[list[i]] < EXECUTING THEN Over("siblings", left)
      ELSE Over("sibling_drop", left)

\* The foreach over siblings, from list on.
Sweep(list, again, passed) ==
  LET i == SelectInSeq(list, LAMBDA m : m_state[m] < EXECUTING \/ Objects(m))
      left == SubSeq(list, i, Len(list))
  IN  IF i = 0 THEN passed
      ELSE IF m_state[list[i]] < EXECUTING
      THEN [Over("siblings", left) EXCEPT !.again = again]
      ELSE [Over("sibling_drop", left) EXCEPT !.again = TRUE]

\* Mutant: its own objection does not hold a phase that was ready to end.
siblings_only(n) ==
  IF Objects(n) /\ m_ready_to_end_count[n] = 0 THEN At("self_drop")
  ELSE Sweep(Siblings[n], FALSE, Dropped(n))

CheckAll(n) ==
  IF Objects(n) THEN At("self_drop")
  ELSE Sweep(Siblings[n], FALSE, Dropped(n))

CheckRest(n) ==
  Sweep(proc[n].todo, proc[n].again,
        IF proc[n].again THEN CheckAll(n) ELSE Dropped(n))

wait_for_self_and_siblings_to_drop(n) ==
  LET p == IF proc[n].at = "siblings" THEN CheckRest(n) ELSE CheckAll(n)
  IN  /\ Ready(n, "drop_check") \/ Ready(n, "recheck") \/ Ready(n, "siblings")
      /\ ~Blocked(n)
      /\ Go(n, p)
      /\ IF p.at \in {"self_drop", "sibling_drop"}
         THEN m_state' = [m_state EXCEPT ![n] = EXECUTING] /\ objection' = Heard(n)
         ELSE UNCHANGED <<m_state, objection>>
      /\ UNCHANGED <<m_ready_to_end_count, m_phase_proc, jumpVars, runVars>>

\* The callbacks of this step may raise: see raise_objection.
ready_to_end(n) ==
  /\ Ready(n, "ready_to_end")
  /\ m_ready_to_end_count' = [m_ready_to_end_count EXCEPT ![n] = @ + 1]
  /\ m_state' = [m_state EXCEPT ![n] = READY_TO_END]
  /\ Go(n, Nba("recheck")) /\ objection' = Heard(n)
  /\ UNCHANGED <<m_phase_proc, jumpVars, runVars>>

exit_on_jump(n) ==
  /\ ~overlap /\ InFork(n) /\ m_premature_end[n]
  /\ Go(n, At("exit"))
  /\ UNCHANGED <<m_state, taskVars, jumpVars, runVars>>

-----------------------------------------------------------------------------
(* The rest of execute_phase. *)

\* After the fork: "#0" on a jump, and on to ENDED at once otherwise.
exit_fork(n) ==
  /\ Ready(n, "exit")
  /\ IF m_premature_end[n] THEN Go(n, Later("ended")) /\ UNCHANGED m_state
     ELSE Go(n, Later("cleanup")) /\ m_state' = [m_state EXCEPT ![n] = ENDED]
  /\ UNCHANGED <<taskVars, jumpVars, runVars>>

ended(n) ==
  /\ Ready(n, "ended")
  /\ m_state' = [m_state EXCEPT ![n] = ENDED]
  /\ Go(n, Later("cleanup"))
  /\ UNCHANGED <<taskVars, jumpVars, runVars>>

\* Mutant: the tasks of a phase that jumps are left.
cleanup_keeps_tasks(n) ==
  /\ Ready(n, "cleanup")
  /\ m_state' = [m_state EXCEPT ![n] = IF m_premature_end[n] THEN JUMPING ELSE CLEANUP]
  /\ m_phase_proc' = [m_phase_proc EXCEPT ![n] = IF m_premature_end[n] THEN @ ELSE "none"]
  /\ Go(n, Later("finish"))
  /\ UNCHANGED <<m_ready_to_end_count, objection, jumpVars, runVars>>

cleanup(n) ==
  /\ Ready(n, "cleanup")
  /\ m_state' = [m_state EXCEPT ![n] = IF m_premature_end[n] THEN JUMPING ELSE CLEANUP]
  /\ m_phase_proc' = [m_phase_proc EXCEPT ![n] = IF @ = "alive" THEN "none" ELSE @]
  /\ Go(n, Later("finish"))
  /\ UNCHANGED <<m_ready_to_end_count, objection, jumpVars, runVars>>

NoJump == [fwd |-> FALSE, bkwd |-> FALSE, phase |-> {}]
Jumps(n) == m_jump[n].fwd \/ m_jump[n].bkwd

\* Mutant: nobody is woken.
clear_silently(N, P) ==
  /\ objection' = [n \in Nodes |-> IF n \in N THEN "none" ELSE objection[n]]
  /\ proc' = P

\* clear() of the nodes N: their objections are cleared, the handles of their
\* tasks are dropped.
ClearNodes(N, P) ==
  /\ objection' = [n \in Nodes |-> IF n \in N THEN "none" ELSE objection[n]]
  /\ proc' = Woken(P, N)

\* phase_done.clear(), and then DONE, or the clearing of what a jump passes.
finish(n) ==
  LET target == m_jump[n].phase
      skipped == IF m_jump[n].fwd THEN Reach(n, target) ELSE {}
      ahead == UNION {Reach(m, {}) : m \in target}
  IN  /\ Ready(n, "finish")
      /\ m_premature_end' = [m_premature_end EXCEPT ![n] = FALSE]
      /\ IF Jumps(n)
         THEN /\ m_state' = [m \in Nodes |-> IF m \in ahead THEN DORMANT
                                             ELSE IF m \in skipped THEN DONE
                                             ELSE m_state[m]]
              /\ ClearNodes({n} \union skipped \union ahead,
                            [proc EXCEPT ![n] = Later("schedule")])
              /\ m_phase_proc' = [m \in Nodes |->
                   IF m \in skipped \union ahead /\ m_phase_proc[m] = "alive"
                   THEN "lost" ELSE m_phase_proc[m]]
         ELSE /\ m_state' = [m_state EXCEPT ![n] = DONE]
              /\ ClearNodes({n}, [proc EXCEPT ![n] = Later("settle")])
              /\ UNCHANGED m_phase_proc
      /\ UNCHANGED <<m_ready_to_end_count, m_jump, jumps, runVars>>

\* The first "#0" after DONE.
settle(n) ==
  /\ Ready(n, "settle")
  /\ Go(n, Later("schedule"))
  /\ UNCHANGED <<m_state, taskVars, jumpVars, runVars>>

\* Mutant: a successor that waits is put once more.
schedule_again(n, list) ==
  LET i == SelectInSeq(list, LAMBDA m : m_state[m] < STARTED)
  IN  IF i = 0 THEN <<At("idle"), {}>>
      ELSE <<[Later("put") EXCEPT !.todo = SubSeq(list, i, Len(list))], {list[i]}>>

\* The loop over successors from list on: the first that is not scheduled
\* yet is marked, and put into the hopper after a "#0".
ScheduleFrom(n, list) ==
  LET i == SelectInSeq(list, LAMBDA m : m_state[m] < SCHEDULED)
  IN  IF i = 0 THEN <<At("idle"), {}>>
      ELSE <<[Later("put") EXCEPT !.todo = SubSeq(list, i, Len(list))], {list[i]}>>

Marked(N) == [m \in Nodes |-> IF m \in N THEN SCHEDULED ELSE m_state[m]]

schedule(n) ==
  LET next == ScheduleFrom(n, m_successors[n])
  IN  /\ Ready(n, "schedule")
      /\ IF Jumps(n)
         THEN /\ m_phase_hopper' = m_phase_hopper \o SetToSeq(m_jump[n].phase)
              /\ m_jump' = [m_jump EXCEPT ![n] = NoJump]
              /\ ClearNodes({n}, [proc EXCEPT ![n] = At("idle")])
              /\ UNCHANGED <<m_state, m_phase_all_done>>
         ELSE /\ m_phase_all_done' = (m_phase_all_done \/ m_successors[n] = <<>>)
              /\ ClearNodes({n}, [proc EXCEPT ![n] = next[1]])
              /\ m_state' = Marked(next[2])
              /\ UNCHANGED <<m_phase_hopper, m_jump>>
      /\ UNCHANGED <<m_ready_to_end_count, m_phase_proc, m_premature_end, jumps,
                     runner, overlap>>

put(n) ==
  LET next == ScheduleFrom(n, Tail(proc[n].todo))
  IN  /\ Ready(n, "put")
      /\ m_phase_hopper' = Append(m_phase_hopper, Head(proc[n].todo))
      /\ Go(n, next[1])
      /\ m_state' = Marked(next[2])
      /\ UNCHANGED <<taskVars, jumpVars, runner, m_phase_all_done, overlap>>

execute_phase(n) ==
  \/ await_predecessors(n) \/ await_sync(n) \/ execute(n)
  \/ function_phase(n) \/ m_wait_for_pred(n)
  \/ check_objection(n) \/ wait_for_self_and_siblings_to_drop(n)
  \/ ready_to_end(n) \/ exit_on_jump(n) \/ exit_fork(n)
  \/ ended(n) \/ cleanup(n) \/ finish(n) \/ settle(n) \/ schedule(n) \/ put(n)

-----------------------------------------------------------------------------
(* The runner, and the simulator's regions. *)

m_run_phases ==
  /\ ~overlap /\ runner = "none" /\ m_phase_hopper # <<>>
  /\ LET n == Head(m_phase_hopper)
     IN  IF proc[n].at # "idle" THEN overlap' = TRUE /\ UNCHANGED proc
         ELSE Go(n, Over("predecessors", m_predecessors[n])) /\ UNCHANGED overlap
  /\ m_phase_hopper' = Tail(m_phase_hopper)
  /\ runner' = "#0"
  /\ UNCHANGED <<m_state, taskVars, jumpVars, m_phase_all_done>>

Busy == (runner = "none" /\ m_phase_hopper # <<>>) \/ \E n \in Nodes : Runnable(n)
Postponed(region) == {n \in Nodes : proc[n].delay = region}

next_delta ==
  /\ ~overlap /\ ~Busy
  /\ Postponed("#0") # {} \/ runner = "#0"
  /\ runner' = "none"
  /\ proc' = [n \in Nodes |-> IF n \in Postponed("#0")
                              THEN [proc[n] EXCEPT !.delay = "none"] ELSE proc[n]]
  /\ UNCHANGED <<m_state, taskVars, jumpVars, m_phase_hopper, m_phase_all_done, overlap>>

nba_region ==
  /\ ~overlap /\ ~Busy
  /\ Postponed("#0") = {} /\ runner = "none" /\ Postponed("nba") # {}
  /\ proc' = [n \in Nodes |-> IF n \in Postponed("nba")
                              THEN [proc[n] EXCEPT !.delay = "none"] ELSE proc[n]]
  /\ UNCHANGED <<m_state, taskVars, jumpVars, runVars>>

-----------------------------------------------------------------------------
(* Components. *)

\* Components object from phase_started on and as long as the tasks of the phase
\* live, so from phase_ready_to_end and phase_ended too.
MayRaise(n) == Kind[n] = "task" /\ (m_state[n] = STARTED \/ m_phase_proc[n] = "alive")

\* The phase looks at its own objection once more. It does not when it has decided
\* to end, nor, as far as it knows, while it waits for the state of a sibling and
\* nobody has objected in this round.
LooksAgain(n) ==
  /\ m_state[n] < ENDED /\ proc[n].at # "exit"
  /\ proc[n].at = "siblings" => proc[n].again

raise_objection(n) ==
  /\ ~overlap /\ MayRaise(n) /\ ~Objects(n)
  /\ objection' = [objection EXCEPT ![n] = IF LooksAgain(n) THEN "raised" ELSE "unheard"]
  /\ UNCHANGED <<m_state, proc, m_ready_to_end_count, m_phase_proc, jumpVars, runVars>>

\* The last objection reaches the root.
drop_objection(n) ==
  /\ ~overlap /\ Objects(n)
  /\ objection' = [objection EXCEPT ![n] = "draining"]
  /\ UNCHANGED <<m_state, proc, m_ready_to_end_count, m_phase_proc, jumpVars, runVars>>

all_dropped(n) ==
  /\ ~overlap /\ objection[n] = "draining"
  /\ objection' = [objection EXCEPT ![n] = "none"]
  /\ proc' = Woken(proc, {n})
  /\ UNCHANGED <<m_state, m_ready_to_end_count, m_phase_proc, jumpVars, runVars>>

\* set_jump_phase; with end_prematurely, jump.
jump(n, to, prematurely) ==
  /\ ~overlap /\ <<n, to>> \in JumpPairs /\ jumps < MaxJumps
  /\ m_jump' = [m_jump EXCEPT ![n].phase = {to},
                              ![n].bkwd = @ \/ n \in Reach(to, {}),
                              ![n].fwd = @ \/ n \notin Reach(to, {})]
  /\ m_premature_end' = [m_premature_end EXCEPT ![n] = @ \/ prematurely]
  /\ jumps' = jumps + 1
  /\ UNCHANGED <<m_state, proc, taskVars, runVars>>

end_prematurely(n) ==
  /\ ~overlap /\ (\E to \in Nodes : <<n, to>> \in JumpPairs) /\ jumps < MaxJumps
  /\ m_premature_end' = [m_premature_end EXCEPT ![n] = TRUE]
  /\ jumps' = jumps + 1
  /\ UNCHANGED <<m_state, proc, taskVars, m_jump, runVars>>

-----------------------------------------------------------------------------

Init ==
  /\ m_state = [n \in Nodes |-> DORMANT]
  /\ proc = [n \in Nodes |-> At("idle")]
  /\ m_ready_to_end_count = [n \in Nodes |-> 0]
  /\ m_phase_proc = [n \in Nodes |-> "none"]
  /\ objection = [n \in Nodes |-> "none"]
  /\ m_premature_end = [n \in Nodes |-> FALSE]
  /\ m_jump = [n \in Nodes |-> NoJump]
  /\ m_phase_hopper = SetToSeq({n \in Nodes : m_predecessors[n] = <<>>})
  /\ runner = "none"
  /\ m_phase_all_done = FALSE
  /\ overlap = FALSE
  /\ jumps = 0

Components ==
  \/ \E n \in Nodes : raise_objection(n) \/ drop_objection(n) \/ all_dropped(n)
  \/ \E n, to \in Nodes, prematurely \in BOOLEAN : jump(n, to, prematurely)
  \/ \E n \in Nodes : end_prematurely(n)

Simulator ==
  (\E n \in Nodes : execute_phase(n)) \/ m_run_phases \/ next_delta \/ nba_region

Next == Simulator \/ Components

Spec == Init /\ [][Next]_vars

\* The simulator does not stop as long as something can run, in whatever order,
\* and drains come to an end.
FairSpec ==
  /\ Spec
  /\ WF_vars(Simulator) /\ WF_vars(\E n \in Nodes : all_dropped(n))

=============================================================================
