--------------------------- MODULE ObjectionSpec ---------------------------
(***************************************************************************)
(* What an objection promises to the phase that waits for it: "all         *)
(* dropped" is said only while no object objects, and is taken back by the *)
(* next raise (uvm_objection::m_top_all_dropped).                          *)
(***************************************************************************)
EXTENDS Naturals

CONSTANTS Objects, Counts

VARIABLES raised,      \* the objections each object has raised and not dropped
          all_dropped  \* "all dropped" has been said

Quiet == \A o \in Objects : raised[o] = 0

Init == raised = [o \in Objects |-> 0] /\ all_dropped = FALSE

Raise(o, n) ==
  /\ raised' = [raised EXCEPT ![o] = @ + n]
  /\ all_dropped' = FALSE

Drop(o, n) ==
  /\ raised[o] >= n
  /\ raised' = [raised EXCEPT ![o] = @ - n]
  /\ UNCHANGED all_dropped

SayAllDropped == Quiet /\ all_dropped' = TRUE /\ UNCHANGED raised

Clear ==
  /\ raised' = [o \in Objects |-> 0]
  /\ all_dropped' = FALSE

Next ==
  \/ \E o \in Objects, n \in Counts : Raise(o, n) \/ Drop(o, n)
  \/ SayAllDropped \/ Clear

Spec == Init /\ [][Next]_<<raised, all_dropped>>
=============================================================================
