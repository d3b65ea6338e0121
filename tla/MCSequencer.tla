---------------------------- MODULE MCSequencer ----------------------------
(***************************************************************************)
(* TLC instances of Sequencer: model values for sequences and threads, and *)
(* the forests and owners that the configurations choose from.             *)
(***************************************************************************)
EXTENDS SequencerProperties, TLC

CONSTANTS s1, s2, s3, t1, t2, t3

\* Two sequences, the second a child of the first; a third unrelated to them.
FamilyParent == [s \in Sequences |-> IF s = s2 THEN s1 ELSE NoSequence]
FlatParent == [s \in Sequences |-> NoSequence]

TwoAndOne == t1 :> s1 @@ t2 :> s1 @@ t3 :> s2
OneThreadEach == t1 :> s1 @@ t2 :> s2 @@ t3 :> s3
OneThreadOfTwo == t1 :> s1 @@ t2 :> s2

StrangersLock == [s \in Sequences |-> IF s = s2 THEN 0 ELSE 1]
S1Nests == [s \in Sequences |-> IF s = s1 THEN 2 ELSE 0]
EachLocks == [s \in Sequences |-> 1]
NoLocks == [s \in Sequences |-> 0]

SamePriority == [s \in Sequences |-> 100]
S2First == [s \in Sequences |-> IF s = s2 THEN 200 ELSE 100]
=============================================================================
