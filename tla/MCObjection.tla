---------------------------- MODULE MCObjection ----------------------------
(***************************************************************************)
(* TLC instances of Objection: a root with a subtree of two leaves, and a  *)
(* chain.                                                                  *)
(***************************************************************************)
EXTENDS ObjectionProperties

CONSTANTS top, env, agent1, agent2

TreeParent == [o \in Objects \ {top} |-> IF o = env THEN top ELSE env]
=============================================================================
