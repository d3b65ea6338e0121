------------------------------ MODULE MCPhase ------------------------------
(***************************************************************************)
(* TLC instances of Phase.                                                 *)
(***************************************************************************)
EXTENDS PhaseProperties, TLC

\* The common domain with the run phase beside a schedule of two phases.
RunNodes == {"begin", "run", "uvm", "reset", "main", "uvm_end", "extract"}
RunKind == [n \in RunNodes |-> CASE n \in {"run", "reset", "main"} -> "task"
                                 [] n = "extract" -> "function"
                                 [] OTHER -> "fake"]
RunSuccessors ==
  [n \in RunNodes |->
     CASE n = "begin" -> <<"run", "uvm">>
       [] n = "run" -> <<"extract">>
       [] n = "uvm" -> <<"reset">>
       [] n = "reset" -> <<"main">>
       [] n = "main" -> <<"uvm_end">>
       [] n = "uvm_end" -> <<"extract">>
       [] n = "extract" -> <<>>]
RunPredecessors ==
  [n \in RunNodes |-> SetToSeq({m \in RunNodes : n \in ToSet(RunSuccessors[m])})]
RunSync == [n \in RunNodes |-> <<>>]
JumpsOut == {<<"main", "extract">>}

\* Two domains, synced phase by phase, between begin and extract.
TwoNodes == {"begin", "a1", "a2", "b1", "b2", "b_end", "extract"}
TwoKind == [n \in TwoNodes |-> CASE n \in {"begin", "b_end"} -> "fake"
                                 [] n = "extract" -> "function"
                                 [] OTHER -> "task"]
TwoSuccessors ==
  [n \in TwoNodes |->
     CASE n = "begin" -> <<"a1", "b1">>
       [] n = "a1" -> <<"a2">>
       [] n = "b1" -> <<"b2">>
       [] n = "b2" -> <<"b_end">>
       [] n \in {"a2", "b_end"} -> <<"extract">>
       [] n = "extract" -> <<>>]
TwoPredecessors ==
  [n \in TwoNodes |-> SetToSeq({m \in TwoNodes : n \in ToSet(TwoSuccessors[m])})]
TwoSync ==
  [n \in TwoNodes |->
     CASE n = "a1" -> <<"b1">> [] n = "b1" -> <<"a1">>
       [] n = "a2" -> <<"b2">> [] n = "b2" -> <<"a2">>
       [] OTHER -> <<>>]
DomainJumps == {<<"a2", "a1">>, <<"b1", "b2">>}

\* Three phases side by side before extract: each has two siblings. One of them
\* may start anew.
JoinNodes == {"begin", "run", "b", "c", "extract"}
JoinKind == [n \in JoinNodes |-> CASE n = "begin" -> "fake"
                                   [] n = "extract" -> "function"
                                   [] OTHER -> "task"]
JoinSuccessors ==
  [n \in JoinNodes |->
     CASE n = "begin" -> <<"run", "b", "c">>
       [] n \in {"run", "b", "c"} -> <<"extract">>
       [] n = "extract" -> <<>>]
JoinPredecessors ==
  [n \in JoinNodes |-> SetToSeq({m \in JoinNodes : n \in ToSet(JoinSuccessors[m])})]
JoinSync == [n \in JoinNodes |-> <<>>]
JoinJumps == {<<"c", "c">>}

=============================================================================
