-------------------------- MODULE PhaseProperties --------------------------
(***************************************************************************)
(* What the phase scheduler promises to components and to the run.         *)
(***************************************************************************)
EXTENDS Phase

Running(n) == m_state[n] \in STARTED..CLEANUP

\* A phase is executed by one process at a time.
ExecutedOnce == ~overlap

\* A phase runs only after all its predecessors are done.
PredecessorsDone ==
  \A n \in Nodes : Running(n) =>
    \A p \in ToSet(m_predecessors[n]) : m_state[p] = DONE

\* What a component has raised, at whatever moment tasks of the phase or its
\* callbacks run, keeps the phase from ending in the regular way. Excused is the
\* raise that stays "unheard": see Objects.
ObjectionHolds ==
  [][\A n \in Nodes :
       /\ Kind[n] = "task" /\ ~m_premature_end[n]
       /\ m_state'[n] = ENDED /\ m_state[n] # ENDED
       => objection[n] # "raised"]_vars

\* The moment at which a phase decides to end in the regular way.
DecidesToEnd(n) ==
  /\ Kind[n] = "task" /\ ~m_premature_end[n]
  /\ proc'[n].at = "exit" /\ proc[n].at # "exit"

\* The decision to end in the regular way is taken at a moment when no phase of
\* the group objects, the unheard raises of the phase itself excused, and each is
\* at least executing. With two siblings it fails: one that has been looked at may
\* object again while the phase waits for the state of the other, and is not
\* looked at again.
DecidesInAgreement ==
  [][\A n \in Nodes :
       DecidesToEnd(n) =>
         /\ objection[n] # "raised"
         /\ \A m \in ToSet(Siblings[n]) : ~Objects(m) /\ m_state[m] >= EXECUTING]_vars

\* "This task loops until this phase instance and all its siblings, either sync'd or
\* sharing a common successor, have all objections dropped" (uvm_phase.svh). It
\* does not: the wait for the state of a sibling calls for no other round, and its
\* own tasks may object meanwhile.
NoObjectionIgnored == [][\A n \in Nodes : DecidesToEnd(n) => ~Objects(n)]_vars

\* "After 20 iterations, phase_ended() is called regardless of whether previous
\* iteration had any objections raised" (uvm_component.svh): after the last
\* phase_ready_to_end the phase goes on to its end. It waits for the
\* objection all the same, only that no other phase_ready_to_end follows.
EndsAfterMaxIterations ==
  [][\A n \in Nodes :
       /\ proc[n] = At("recheck") /\ m_ready_to_end_count[n] = max_ready_to_end_iter
       /\ proc'[n] # proc[n]
       => proc'[n].at = "exit"]_vars

\* The tasks of a phase live only while a process executes the phase, and
\* none outlives its handle.
TasksKilled ==
  \A n \in Nodes :
    /\ m_phase_proc[n] # "lost"
    /\ m_phase_proc[n] = "alive" => proc[n].at # "idle" /\ m_state[n] \in EXECUTING..ENDED

\* If components stop objecting, the run ends.
AllDone == (<>[](\A n \in Nodes : ~Objects(n))) => <>m_phase_all_done
=============================================================================
