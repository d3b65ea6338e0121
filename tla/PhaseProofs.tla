---------------------------- MODULE PhaseProofs ----------------------------
(***************************************************************************)
(* Proofs about the phase scheduler.                                       *)
(***************************************************************************)
EXTENDS PhaseProperties, CommonLemmas, FiniteSetTheorems

-----------------------------------------------------------------------------
(* Processes. *)

\* A record of the four fields of a process.
IsProc(p) == p = [at |-> p.at, delay |-> p.delay, todo |-> p.todo, again |-> p.again]

LEMMA ProcFacts ==
  /\ \A at : /\ IsProc(At(at)) /\ At(at).at = at /\ At(at).again = FALSE
             /\ IsProc(Later(at)) /\ Later(at).at = at /\ Later(at).again = FALSE
             /\ IsProc(Nba(at)) /\ Nba(at).at = at /\ Nba(at).again = FALSE
  /\ \A at, todo : /\ IsProc(Over(at, todo)) /\ Over(at, todo).at = at
                   /\ Over(at, todo).todo = todo /\ Over(at, todo).again = FALSE
<1>1. ASSUME NEW at
      PROVE  /\ IsProc(At(at)) /\ At(at).at = at /\ At(at).again = FALSE
             /\ IsProc(Later(at)) /\ Later(at).at = at /\ Later(at).again = FALSE
             /\ IsProc(Nba(at)) /\ Nba(at).at = at /\ Nba(at).again = FALSE
  <2>1. At(at) = [at |-> at, delay |-> "none", todo |-> <<>>, again |-> FALSE]
    BY DEF At
  <2>2. /\ Later(at) = [at |-> at, delay |-> "#0", todo |-> <<>>, again |-> FALSE]
        /\ Nba(at) = [at |-> at, delay |-> "nba", todo |-> <<>>, again |-> FALSE]
    <3>1. PICK r : r = At(at)
      OBVIOUS
    <3>2. Later(at) = [r EXCEPT !.delay = "#0"] /\ Nba(at) = [r EXCEPT !.delay = "nba"]
      BY <3>1 DEF Later, Nba
    <3>3. r = [at |-> at, delay |-> "none", todo |-> <<>>, again |-> FALSE]
      BY <2>1, <3>1
    <3>4. Later(at) = [at |-> at, delay |-> "#0", todo |-> <<>>, again |-> FALSE]
      BY <3>2, <3>3
    <3>5. Nba(at) = [at |-> at, delay |-> "nba", todo |-> <<>>, again |-> FALSE]
      BY <3>2, <3>3
    <3> QED
      BY <3>4, <3>5
  <2> QED
    BY <2>1, <2>2 DEF IsProc
<1>2. ASSUME NEW at, NEW todo
      PROVE  /\ IsProc(Over(at, todo)) /\ Over(at, todo).at = at
             /\ Over(at, todo).todo = todo /\ Over(at, todo).again = FALSE
  <2>1. Over(at, todo) = [at |-> at, delay |-> "none", todo |-> todo, again |-> FALSE]
    <3>1. PICK r : r = At(at)
      OBVIOUS
    <3>2. Over(at, todo) = [r EXCEPT !.todo = todo]
      BY <3>1 DEF Over
    <3>3. r = [at |-> at, delay |-> "none", todo |-> <<>>, again |-> FALSE]
      BY <3>1 DEF At
    <3> QED
      BY <3>2, <3>3
  <2> QED
    BY <2>1 DEF IsProc
<1> QED
  BY <1>1, <1>2

\* What a wake-up does to a process p that it finds at a wait.
WokenTo(p, q) ==
  /\ IsProc(q)
  /\ \/ q.at = p.at /\ q.again = p.again /\ q.todo = p.todo
     \/ p.at = "all_dropped" /\ q.at = "drop_check"
     \/ p.at = "self_drop" /\ q.at = "siblings" /\ q.again = TRUE
     \/ p.at = "sibling_drop" /\ q.at = "siblings" /\ q.again = p.again

LEMMA WokenFacts ==
  ASSUME NEW P, NEW N, NEW n \in Nodes, IsProc(P[n])
  PROVE  WokenTo(P[n], Woken(P, N)[n])
<1> DEFINE p == P[n]
<1>1. CASE p.at = "all_dropped" /\ n \in N
  <2>1. Woken(P, N)[n] = At("drop_check")
    BY <1>1 DEF Woken
  <2> QED
    BY <1>1, <2>1, ProcFacts DEF WokenTo
<1>2. CASE p.at = "self_drop" /\ n \in N
  <2>1. Woken(P, N)[n] = [Over("siblings", Siblings[n]) EXCEPT !.again = TRUE]
    BY <1>2 DEF Woken
  <2>2. PICK r : r = Over("siblings", Siblings[n])
    OBVIOUS
  <2>3. IsProc(r) /\ r.at = "siblings"
    BY <2>2, ProcFacts
  <2>4. Woken(P, N)[n] = [r EXCEPT !.again = TRUE]
    BY <2>1, <2>2
  <2>5. Woken(P, N)[n] = [at |-> r.at, delay |-> r.delay, todo |-> r.todo, again |-> TRUE]
    BY <2>3, <2>4 DEF IsProc
  <2> QED
    BY <1>2, <2>3, <2>5 DEF WokenTo, IsProc
<1>3. CASE p.at = "sibling_drop" /\ Head(p.todo) \in N
  <2>1. Woken(P, N)[n] = [p EXCEPT !.at = "siblings", !.todo = Tail(@)]
    BY <1>3 DEF Woken
  <2>2. p = [at |-> p.at, delay |-> p.delay, todo |-> p.todo, again |-> p.again]
    BY DEF IsProc
  <2> HIDE DEF p
  <2>3. Woken(P, N)[n] = [at |-> "siblings", delay |-> p.delay, todo |-> Tail(p.todo), again |-> p.again]
    BY <2>1, <2>2
  <2> QED
    BY <1>3, <2>3 DEF WokenTo, IsProc, p
<1>4. CASE ~(p.at = "all_dropped" /\ n \in N) /\ ~(p.at = "self_drop" /\ n \in N)
           /\ ~(p.at = "sibling_drop" /\ Head(p.todo) \in N)
  <2>1. Woken(P, N)[n] = p
    BY <1>4 DEF Woken
  <2> QED
    BY <2>1 DEF WokenTo
<1> QED
  BY <1>1, <1>2, <1>3, <1>4

-----------------------------------------------------------------------------
(* The invariant of a node. *)

IsFun(f) == f = [n \in Nodes |-> f[n]]

LEMMA GoFacts ==
  ASSUME NEW n \in Nodes, NEW p, Go(n, p), IsFun(proc)
  PROVE  /\ proc'[n] = p /\ IsFun(proc')
         /\ \A m \in Nodes : m # n => proc'[m] = proc[m]
BY DEF Go, IsFun

ObjectionStates == {"none", "raised", "unheard", "draining"}

TypeInv ==
  /\ m_state \in [Nodes -> Nat]
  /\ IsFun(proc) /\ \A n \in Nodes : IsProc(proc[n])
  /\ objection \in [Nodes -> ObjectionStates]
  /\ m_premature_end \in [Nodes -> BOOLEAN]

\* A phase that has no more than one sibling.
OneSibling(n) == Siblings[n] = <<>> \/ \E m \in Nodes : Siblings[n] = <<m>>

\* A phase that has looked at its own objection has seen none; what is raised then
\* stays unheard until the phase has ended, or looks at it once more.
NodeInv(n) ==
  /\ Kind[n] = "task" => proc[n].at \notin {"function", "wait_for_pred"}
  /\ m_state[n] = STARTED => proc[n].at = "started"
  /\ proc[n].at = "exit" /\ ~m_premature_end[n] => objection[n] # "raised"
  /\ Kind[n] = "task" /\ proc[n].at = "ended" => m_premature_end[n]
  /\ proc[n].at = "siblings" /\ proc[n].again # TRUE => objection[n] # "raised"
  /\ proc[n].at = "siblings" /\ proc[n].again # TRUE /\ OneSibling(n) =>
       proc[n].todo = Siblings[n]
  /\ proc[n].at = "sibling_drop" => proc[n].again = TRUE

PhaseInv == TypeInv /\ \A n \in Nodes : NodeInv(n)

\* The two properties, for one phase.
EndsUnraised(n) ==
  /\ Kind[n] = "task" /\ ~m_premature_end[n]
  /\ m_state'[n] = ENDED /\ m_state[n] # ENDED
  => objection[n] # "raised"

DecidesWell(n) ==
  /\ Kind[n] = "task" /\ ~m_premature_end[n]
  /\ proc'[n].at = "exit" /\ proc[n].at # "exit"
  => /\ objection[n] # "raised"
     /\ OneSibling(n) => \A m \in ToSet(Siblings[n]) :
                        ~Objects(m) /\ m_state[m] >= EXECUTING

StepOK(n) == NodeInv(n)' /\ EndsUnraised(n) /\ DecidesWell(n)

\* What happens to a node in the steps of others.
Untouched(n) ==
  /\ WokenTo(proc[n], proc'[n])
  /\ m_state'[n] = m_state[n] \/ m_state'[n] \in {DORMANT, SCHEDULED, DONE}
  /\ objection'[n] = objection[n] \/ objection'[n] # "raised"
  /\ m_premature_end'[n] = m_premature_end[n] \/ m_premature_end'[n] = TRUE

LEMMA UntouchedOK ==
  ASSUME NEW n \in Nodes, NodeInv(n), Untouched(n)
  PROVE  StepOK(n)
<1>1. NodeInv(n)'
  <2> DEFINE p == proc[n]
             q == proc'[n]
  <2>1. \/ q.at = p.at /\ q.again = p.again /\ q.todo = p.todo
        \/ p.at = "all_dropped" /\ q.at = "drop_check"
        \/ p.at = "self_drop" /\ q.at = "siblings" /\ q.again = TRUE
        \/ p.at = "sibling_drop" /\ q.at = "siblings" /\ q.again = p.again
    BY DEF Untouched, WokenTo
  <2>2. m_state'[n] = STARTED => m_state[n] = STARTED
    BY DEF Untouched, STARTED, DORMANT, SCHEDULED, DONE
  <2>3. /\ objection'[n] = "raised" => objection[n] = "raised"
        /\ ~m_premature_end'[n] => ~m_premature_end[n]
    BY DEF Untouched
  <2> QED
    BY <2>1, <2>2, <2>3 DEF NodeInv
<1>2. EndsUnraised(n)
  BY DEF EndsUnraised, Untouched, ENDED, DORMANT, SCHEDULED, DONE
<1>3. DecidesWell(n)
  BY DEF DecidesWell, Untouched, WokenTo
<1> QED
  BY <1>1, <1>2, <1>3 DEF StepOK

StepsOK == \A n \in Nodes : EndsUnraised(n) /\ DecidesWell(n)

LEMMA OthersOK ==
  ASSUME PhaseInv, TypeInv', NEW N, \A m \in Nodes \ N : Untouched(m),
         \A m \in N \intersect Nodes : StepOK(m)
  PROVE  PhaseInv' /\ StepsOK
<1>1. \A m \in Nodes : StepOK(m)
  BY UntouchedOK DEF PhaseInv
<1> QED
  BY <1>1 DEF StepOK, PhaseInv, StepsOK

\* The process of n goes to p, and m_state[n] to s.
NodeFine(n, p, s) ==
  /\ Kind[n] = "task" => p.at \notin {"function", "wait_for_pred"}
  /\ s = STARTED => p.at = "started"
  /\ p.at = "exit" /\ ~m_premature_end[n] => objection[n] # "raised"
  /\ Kind[n] = "task" /\ p.at = "ended" => m_premature_end[n]
  /\ p.at = "siblings" /\ p.again # TRUE => objection[n] # "raised"
  /\ p.at = "siblings" /\ p.again # TRUE /\ OneSibling(n) => p.todo = Siblings[n]
  /\ p.at = "sibling_drop" => p.again = TRUE
  /\ Kind[n] = "task" /\ ~m_premature_end[n] /\ s = ENDED /\ m_state[n] # ENDED =>
       objection[n] # "raised"
  /\ Kind[n] = "task" /\ ~m_premature_end[n] /\ p.at = "exit" /\ proc[n].at # "exit"
       /\ OneSibling(n) => \A m \in ToSet(Siblings[n]) :
                       ~Objects(m) /\ m_state[m] >= EXECUTING

\* The objection of n is at most heard, by a phase that goes on to look again.
Hears(n, p) ==
  /\ objection' \in [Nodes -> ObjectionStates]
  /\ \A m \in Nodes : m # n => objection'[m] = objection[m]
  /\ objection'[n] = objection[n] \/ p.at \notin {"exit", "siblings"}

LEMMA HeardFacts ==
  ASSUME TypeInv, NEW n \in Nodes, NEW p,
         (objection' = Heard(n) /\ p.at \notin {"exit", "siblings"}) \/ UNCHANGED objection
  PROVE  Hears(n, p)
<1>1. CASE objection' = Heard(n) /\ p.at \notin {"exit", "siblings"}
  <2>1. PICK o : o = IF objection[n] = "unheard" THEN "raised" ELSE objection[n]
    OBVIOUS
  <2>2. objection' = [objection EXCEPT ![n] = o] /\ o \in ObjectionStates
    BY <1>1, <2>1 DEF Heard, TypeInv, ObjectionStates
  <2> QED
    BY <1>1, <2>2 DEF Hears, TypeInv
<1>2. CASE UNCHANGED objection
  BY <1>2 DEF Hears, TypeInv
<1> QED
  BY <1>1, <1>2

LEMMA GoOK ==
  ASSUME PhaseInv, NEW n \in Nodes, NEW p, IsProc(p), Go(n, p), NEW s \in Nat,
         m_state' = [m_state EXCEPT ![n] = s], Hears(n, p), UNCHANGED m_premature_end,
         NodeFine(n, p, s)
  PROVE  PhaseInv' /\ StepsOK
<1>1. /\ proc'[n] = p /\ IsFun(proc')
      /\ \A m \in Nodes : m # n => proc'[m] = proc[m]
  BY GoFacts DEF PhaseInv, TypeInv
<1>2. /\ m_state'[n] = s /\ m_state' \in [Nodes -> Nat]
      /\ \A m \in Nodes : m # n => m_state'[m] = m_state[m]
  BY DEF PhaseInv, TypeInv
<1>3. TypeInv'
  BY <1>1, <1>2 DEF PhaseInv, TypeInv, Hears
<1>4. \A m \in Nodes \ {n} : Untouched(m)
  BY <1>1, <1>2 DEF Untouched, WokenTo, PhaseInv, TypeInv, Hears
<1>5. StepOK(n)
  <2>1. NodeInv(n)'
    BY <1>1, <1>2 DEF NodeInv, NodeFine, Hears
  <2>2. EndsUnraised(n) /\ DecidesWell(n)
    BY <1>1, <1>2 DEF EndsUnraised, DecidesWell, NodeFine
  <2> QED
    BY <2>1, <2>2 DEF StepOK
<1>6. \A m \in {n} \intersect Nodes : StepOK(m)
  BY <1>5
<1> QED
  BY <1>3, <1>4, <1>6, OthersOK

LEMMA QuietGoOK ==
  ASSUME PhaseInv, NEW n \in Nodes, NEW p, IsProc(p), Go(n, p), NEW s \in Nat,
         m_state' = [m_state EXCEPT ![n] = s], UNCHANGED <<objection, m_premature_end>>,
         NodeFine(n, p, s)
  PROVE  PhaseInv' /\ StepsOK
<1>1. Hears(n, p)
  BY HeardFacts DEF PhaseInv
<1> QED
  BY <1>1, GoOK

LEMMA StayOK ==
  ASSUME PhaseInv, NEW n \in Nodes, NEW p, IsProc(p), Go(n, p),
         UNCHANGED <<m_state, objection, m_premature_end>>, NodeFine(n, p, m_state[n])
  PROVE  PhaseInv' /\ StepsOK
<1>1. m_state' = [m_state EXCEPT ![n] = m_state[n]] /\ m_state[n] \in Nat
  BY DEF PhaseInv, TypeInv
<1>2. Hears(n, p)
  BY HeardFacts DEF PhaseInv
<1> QED
  BY <1>1, <1>2, GoOK

-----------------------------------------------------------------------------
(* The loop over siblings. *)

LEMMA SweepShape ==
  ASSUME NEW list, NEW again, NEW passed, NEW q, q = Sweep(list, again, passed)
  PROVE  \/ q = passed
         \/ IsProc(q) /\ q.at = "siblings" /\ q.again = again
         \/ IsProc(q) /\ q.at = "sibling_drop" /\ q.again = TRUE
<1> DEFINE i == SelectInSeq(list, LAMBDA m : m_state[m] < EXECUTING \/ Objects(m))
<1>1. PICK left : left = SubSeq(list, i, Len(list))
  OBVIOUS
<1>2. PICK r1, r2 : r1 = Over("siblings", left) /\ r2 = Over("sibling_drop", left)
  OBVIOUS
<1>3. \/ q = passed
      \/ q = [r1 EXCEPT !.again = again]
      \/ q = [r2 EXCEPT !.again = TRUE]
  BY <1>1, <1>2 DEF Sweep
<1>4. /\ IsProc(r1) /\ r1.at = "siblings" /\ IsProc(r2) /\ r2.at = "sibling_drop"
  BY <1>2, ProcFacts
<1>5. CASE q = [r1 EXCEPT !.again = again]
  <2>1. q = [at |-> r1.at, delay |-> r1.delay, todo |-> r1.todo, again |-> again]
    BY <1>4, <1>5 DEF IsProc
  <2> QED
    BY <1>4, <2>1 DEF IsProc
<1>6. CASE q = [r2 EXCEPT !.again = TRUE]
  <2>1. q = [at |-> r2.at, delay |-> r2.delay, todo |-> r2.todo, again |-> TRUE]
    BY <1>4, <1>6 DEF IsProc
  <2> QED
    BY <1>4, <2>1 DEF IsProc
<1> QED
  BY <1>3, <1>5, <1>6

\* A list with one element is left as it is, or passed because the element
\* does not object.
SweptOne(q, m, list, passed) ==
  \/ q = passed /\ ~Objects(m) /\ m_state[m] >= EXECUTING
  \/ q.at = "siblings" /\ q.todo = list
  \/ q.at = "sibling_drop"

LEMMA SweepOne ==
  ASSUME TypeInv, NEW m \in Nodes, NEW list, list = <<m>>, NEW again, NEW passed,
         NEW q, q = Sweep(list, again, passed)
  PROVE  SweptOne(q, m, list, passed)
<1> DEFINE I == {i \in 1..Len(list) : m_state[list[i]] < EXECUTING \/ Objects(list[i])}
<1>1. Len(list) = 1 /\ list[1] = m /\ list \in Seq(Nodes) /\ SubSeq(list, 1, Len(list)) = list
  <2>1. Len(list) = 1 /\ list[1] = m /\ list \in Seq(Nodes)
    OBVIOUS
  <2>2. PICK t : t = SubSeq(list, 1, 1)
    OBVIOUS
  <2>3. t \in Seq(Nodes) /\ Len(t) = 1 /\ t[1] = m
    BY <2>1, <2>2
  <2>4. t = list
    BY <2>1, <2>3, SeqEqual
  <2> QED
    BY <2>1, <2>2, <2>4
<1>2. m_state[m] \in Nat /\ EXECUTING \in Nat
  BY DEF TypeInv, EXECUTING
<1>3. CASE m_state[m] < EXECUTING \/ Objects(m)
  <2>1. I = {1}
    BY <1>1, <1>3
  <2>2. SelectInSeq(list, LAMBDA x : m_state[x] < EXECUTING \/ Objects(x)) = 1
    BY <2>1 DEF SelectInSeq, Min
  <2>3. PICK r1, r2 : r1 = Over("siblings", list) /\ r2 = Over("sibling_drop", list)
    OBVIOUS
  <2>4. q = [r1 EXCEPT !.again = again] \/ q = [r2 EXCEPT !.again = TRUE]
    <3>1. PICK i : i = SelectInSeq(list, LAMBDA x : m_state[x] < EXECUTING \/ Objects(x))
      OBVIOUS
    <3>2. PICK left : left = SubSeq(list, i, Len(list))
      OBVIOUS
    <3>3. PICK s1, s2 : s1 = Over("siblings", left) /\ s2 = Over("sibling_drop", left)
      OBVIOUS
    <3>4. \/ i = 0 /\ q = passed
          \/ q = [s1 EXCEPT !.again = again]
          \/ q = [s2 EXCEPT !.again = TRUE]
      BY <3>1, <3>2, <3>3 DEF Sweep
    <3>5. i = 1 /\ left = list
      BY <1>1, <2>2, <3>1, <3>2
    <3> QED
      BY <2>3, <3>3, <3>4, <3>5
  <2>5. /\ IsProc(r1) /\ r1.at = "siblings" /\ r1.todo = list
        /\ IsProc(r2) /\ r2.at = "sibling_drop"
    BY <2>3, ProcFacts
  <2>6. CASE q = [r1 EXCEPT !.again = again]
    <3>1. q = [at |-> r1.at, delay |-> r1.delay, todo |-> r1.todo, again |-> again]
      BY <2>5, <2>6 DEF IsProc
    <3> QED
      BY <2>5, <3>1 DEF SweptOne
  <2>7. CASE q = [r2 EXCEPT !.again = TRUE]
    <3>1. q = [at |-> r2.at, delay |-> r2.delay, todo |-> r2.todo, again |-> TRUE]
      BY <2>5, <2>7 DEF IsProc
    <3> QED
      BY <2>5, <3>1 DEF SweptOne
  <2> QED
    BY <2>4, <2>6, <2>7
<1>4. CASE ~(m_state[m] < EXECUTING \/ Objects(m))
  <2>1. I = {}
    BY <1>1, <1>4
  <2>2. SelectInSeq(list, LAMBDA x : m_state[x] < EXECUTING \/ Objects(x)) = 0
    BY <2>1 DEF SelectInSeq
  <2>3. q = passed
    BY <2>2 DEF Sweep
  <2> QED
    BY <1>2, <1>4, <2>3 DEF SweptOne
<1> QED
  BY <1>3, <1>4

LEMMA SweepNone ==
  ASSUME NEW again, NEW passed
  PROVE  Sweep(<<>>, again, passed) = passed
<1>1. SelectInSeq(<<>>, LAMBDA x : m_state[x] < EXECUTING \/ Objects(x)) = 0
  BY DEF SelectInSeq
<1> QED
  BY <1>1 DEF Sweep

\* What the loop ends in, when no objection has been seen.
LEMMA DroppedShape ==
  ASSUME NEW n \in Nodes, NEW q, q = Dropped(n)
  PROVE  IsProc(q) /\ q.at \in {"ready_to_end", "exit"}
BY ProcFacts DEF Dropped

\* The loop from its start.
LEMMA CheckAllOK ==
  ASSUME TypeInv, NEW n \in Nodes, NEW q, q = CheckAll(n)
  PROVE  /\ IsProc(q)
         /\ q.at \in {"self_drop", "siblings", "sibling_drop", "ready_to_end", "exit"}
         /\ q.at = "sibling_drop" => q.again = TRUE
         /\ q.at # "self_drop" => objection[n] # "raised"
         /\ OneSibling(n) =>
              /\ q.at = "siblings" => q.todo = Siblings[n]
              /\ q.at = "exit" => \A m \in ToSet(Siblings[n]) :
                                    ~Objects(m) /\ m_state[m] >= EXECUTING
<1>1. CASE Objects(n)
  <2>1. q = At("self_drop")
    BY <1>1 DEF CheckAll
  <2> QED
    BY <2>1, ProcFacts
<1>2. CASE ~Objects(n)
  <2>1. PICK d : d = Dropped(n) /\ IsProc(d) /\ d.at \in {"ready_to_end", "exit"}
    BY DroppedShape
  <2>2. q = Sweep(Siblings[n], FALSE, d)
    BY <1>2, <2>1 DEF CheckAll
  <2>3. \/ q = d
        \/ IsProc(q) /\ q.at = "siblings"
        \/ IsProc(q) /\ q.at = "sibling_drop" /\ q.again = TRUE
    BY <2>2, SweepShape, ZenonT(40)
  <2>4. ASSUME OneSibling(n)
        PROVE  /\ q.at = "siblings" => q.todo = Siblings[n]
               /\ q.at = "exit" => \A m \in ToSet(Siblings[n]) :
                                     ~Objects(m) /\ m_state[m] >= EXECUTING
    <3>1. CASE Siblings[n] = <<>>
      <4>1. q = d
        BY <2>2, <3>1, SweepNone
      <4>2. ToSet(Siblings[n]) = {}
        BY <3>1 DEF ToSet
      <4> QED
        BY <2>1, <4>1, <4>2
    <3>2. ASSUME NEW m \in Nodes, Siblings[n] = <<m>>
          PROVE  /\ q.at = "siblings" => q.todo = Siblings[n]
                 /\ q.at = "exit" => \A x \in ToSet(Siblings[n]) :
                                       ~Objects(x) /\ m_state[x] >= EXECUTING
      <4>1. \/ q = d /\ ~Objects(m) /\ m_state[m] >= EXECUTING
            \/ q.at = "siblings" /\ q.todo = Siblings[n]
            \/ q.at = "sibling_drop"
        <5>1. PICK list, again : list = Siblings[n] /\ again = FALSE
          OBVIOUS
        <5>2. list = <<m>> /\ q = Sweep(list, again, d)
          BY <2>2, <3>2, <5>1
        <5> QED
          BY <5>1, <5>2, SweepOne DEF SweptOne
      <4>2. ToSet(Siblings[n]) = {m}
        BY <3>2 DEF ToSet
      <4> QED
        BY <2>1, <4>1, <4>2
    <3> QED
      BY <2>4, <3>1, <3>2 DEF OneSibling
  <2> QED
    BY <1>2, <2>1, <2>3, <2>4 DEF Objects
<1> QED
  BY <1>1, <1>2

-----------------------------------------------------------------------------
(* The steps of execute_phase. *)

\* Places with nothing to fear about.
Plain(n, at) ==
  /\ at \notin {"exit", "ended", "siblings", "sibling_drop"}
  /\ Kind[n] = "task" => at \notin {"function", "wait_for_pred"}

LEMMA PlainFine ==
  ASSUME NEW n \in Nodes, NEW p, Plain(n, p.at), NEW s, s # ENDED, s = STARTED => p.at = "started"
  PROVE  NodeFine(n, p, s)
BY DEF Plain, NodeFine

\* A node that is not at "started" is not STARTED.
LEMMA StaysPlain ==
  ASSUME PhaseInv, NEW n \in Nodes, proc[n].at # "started", NEW p, Plain(n, p.at)
  PROVE  NodeFine(n, p, m_state[n])
BY DEF Plain, NodeFine, PhaseInv, NodeInv

LEMMA StateValues ==
  /\ {DORMANT, SCHEDULED, SYNCING, STARTED, EXECUTING, READY_TO_END, ENDED, CLEANUP, DONE,
      JUMPING} \subseteq Nat
  /\ STARTED \notin {DORMANT, SCHEDULED, SYNCING, EXECUTING, READY_TO_END, ENDED, CLEANUP,
                     DONE, JUMPING}
  /\ ENDED \notin {DORMANT, SCHEDULED, SYNCING, STARTED, EXECUTING, READY_TO_END, CLEANUP,
                   DONE, JUMPING}
BY DEF DORMANT, SCHEDULED, SYNCING, STARTED, EXECUTING, READY_TO_END, ENDED, CLEANUP, DONE,
       JUMPING

LEMMA WaitsOK ==
  ASSUME PhaseInv, NEW n \in Nodes, NEW at, at \in {"predecessors", "sync", "wait_for_pred"},
         Waits(n, at)
  PROVE  PhaseInv' /\ StepsOK
<1>1. PICK p : p = Over(at, Remaining(n))
  OBVIOUS
<1>2. IsProc(p) /\ p.at = at
  BY <1>1, ProcFacts
<1>3. /\ Go(n, p) /\ proc[n].at = at
      /\ UNCHANGED <<m_state, objection, m_premature_end>>
  BY <1>1 DEF Waits, Ready, taskVars, jumpVars
<1>4. Plain(n, at)
  BY <1>3 DEF Plain, PhaseInv, NodeInv
<1> QED
  BY <1>2, <1>3, <1>4, StaysPlain, StayOK

LEMMA PredecessorsOK ==
  ASSUME PhaseInv, NEW n \in Nodes, await_predecessors(n)
  PROVE  PhaseInv' /\ StepsOK
<1>1. CASE Waits(n, "predecessors")
  BY <1>1, WaitsOK
<1>2. CASE ~Waits(n, "predecessors")
  <2>1. proc[n].at = "predecessors" /\ UNCHANGED <<objection, m_premature_end>>
    BY <1>2 DEF await_predecessors, Passes, Ready, taskVars, jumpVars
  <2>2. CASE m_state[n] = DONE
    <3>1. PICK p : p = At("idle")
      OBVIOUS
    <3>2. IsProc(p) /\ p.at = "idle" /\ Go(n, p) /\ UNCHANGED m_state
      BY <1>2, <2>2, <3>1, ProcFacts DEF await_predecessors
    <3> QED
      BY <2>1, <3>2, StaysPlain, StayOK DEF Plain
  <2>3. CASE m_state[n] # DONE
    <3>1. PICK r, p : r = Later("sync") /\ p = [r EXCEPT !.todo = m_sync[n]]
      OBVIOUS
    <3>2. IsProc(r) /\ r.at = "sync"
      BY <3>1, ProcFacts
    <3>3. p = [at |-> r.at, delay |-> r.delay, todo |-> m_sync[n], again |-> r.again]
      BY <3>1, <3>2 DEF IsProc
    <3>4. IsProc(p) /\ p.at = "sync"
      BY <3>2, <3>3 DEF IsProc
    <3>5. Go(n, p) /\ m_state' = [m_state EXCEPT ![n] = SYNCING]
      BY <1>2, <2>3, <3>1 DEF await_predecessors
    <3>6. NodeFine(n, p, SYNCING)
      BY <3>4, PlainFine, StateValues DEF Plain
    <3> QED
      BY <2>1, <3>4, <3>5, <3>6, QuietGoOK, StateValues
  <2> QED
    BY <2>2, <2>3
<1> QED
  BY <1>1, <1>2

LEMMA SyncOK ==
  ASSUME PhaseInv, NEW n \in Nodes, await_sync(n)
  PROVE  PhaseInv' /\ StepsOK
<1>1. CASE Waits(n, "sync")
  BY <1>1, WaitsOK
<1>2. CASE ~Waits(n, "sync")
  <2>1. PICK p : p = Later("started")
    OBVIOUS
  <2>2. /\ Go(n, p) /\ m_state' = [m_state EXCEPT ![n] = STARTED]
        /\ UNCHANGED <<objection, m_premature_end>>
    BY <1>2, <2>1 DEF await_sync, jumpVars
  <2>3. IsProc(p) /\ p.at = "started"
    BY <2>1, ProcFacts
  <2>4. NodeFine(n, p, STARTED)
    BY <2>3, PlainFine, StateValues DEF Plain
  <2> QED
    BY <2>2, <2>3, <2>4, QuietGoOK, StateValues
<1> QED
  BY <1>1, <1>2

LEMMA ExecuteOK ==
  ASSUME PhaseInv, NEW n \in Nodes, execute(n)
  PROVE  PhaseInv' /\ StepsOK
<1>1. /\ m_state' = [m_state EXCEPT ![n] = EXECUTING]
      /\ UNCHANGED <<objection, m_premature_end>>
  BY DEF execute, jumpVars
<1>2. PICK p : /\ Go(n, p) /\ IsProc(p)
               /\ \/ Kind[n] = "fake" /\ p.at = "finish"
                  \/ Kind[n] = "function" /\ p.at = "function"
                  \/ Kind[n] = "task" /\ p.at = "check"
  BY ProcFacts DEF execute
<1>3. NodeFine(n, p, EXECUTING)
  BY <1>2, PlainFine, StateValues DEF Plain
<1> QED
  BY <1>1, <1>2, <1>3, QuietGoOK, StateValues

LEMMA FunctionOK ==
  ASSUME PhaseInv, NEW n \in Nodes, function_phase(n)
  PROVE  PhaseInv' /\ StepsOK
<1>1. /\ proc[n].at = "function" /\ Kind[n] # "task"
      /\ UNCHANGED <<m_state, objection, m_premature_end>>
  BY DEF function_phase, Ready, taskVars, jumpVars, PhaseInv, NodeInv
<1>2. PICK p : Go(n, p) /\ IsProc(p) /\ p.at \in {"ended", "wait_for_pred"}
  BY ProcFacts DEF function_phase
<1>3. NodeFine(n, p, m_state[n])
  BY <1>1, <1>2 DEF NodeFine, PhaseInv, NodeInv
<1> QED
  BY <1>1, <1>2, <1>3, StayOK

LEMMA WaitForPredOK ==
  ASSUME PhaseInv, NEW n \in Nodes, m_wait_for_pred(n)
  PROVE  PhaseInv' /\ StepsOK
<1>1. CASE Waits(n, "wait_for_pred")
  BY <1>1, WaitsOK
<1>2. CASE ~Waits(n, "wait_for_pred")
  <2>1. /\ proc[n].at = "wait_for_pred" /\ Kind[n] # "task"
        /\ UNCHANGED <<m_state, objection, m_premature_end>>
    BY <1>2 DEF m_wait_for_pred, Passes, Ready, taskVars, jumpVars, PhaseInv, NodeInv
  <2>2. PICK p : Go(n, p) /\ IsProc(p) /\ p.at = "ended"
    BY <1>2, ProcFacts DEF m_wait_for_pred
  <2>3. NodeFine(n, p, m_state[n])
    BY <2>1, <2>2 DEF NodeFine, PhaseInv, NodeInv
  <2> QED
    BY <2>1, <2>2, <2>3, StayOK
<1> QED
  BY <1>1, <1>2

LEMMA CheckOK ==
  ASSUME PhaseInv, NEW n \in Nodes, check_objection(n)
  PROVE  PhaseInv' /\ StepsOK
<1>1. proc[n].at = "check" /\ UNCHANGED <<m_state, objection, m_premature_end>>
  BY DEF check_objection, Ready, taskVars, jumpVars
<1>2. PICK p : Go(n, p) /\ IsProc(p) /\ p.at \in {"all_dropped", "drop_check"}
  BY ProcFacts DEF check_objection
<1> QED
  BY <1>1, <1>2, StaysPlain, StayOK DEF Plain

LEMMA DropOK ==
  ASSUME PhaseInv, NEW n \in Nodes, wait_for_self_and_siblings_to_drop(n)
  PROVE  PhaseInv' /\ StepsOK
<1>1. PICK all : all = CheckAll(n)
  OBVIOUS
<1>2. /\ IsProc(all)
      /\ all.at \in {"self_drop", "siblings", "sibling_drop", "ready_to_end", "exit"}
      /\ all.at = "sibling_drop" => all.again = TRUE
      /\ all.at # "self_drop" => objection[n] # "raised"
      /\ OneSibling(n) =>
           /\ all.at = "siblings" => all.todo = Siblings[n]
           /\ all.at = "exit" => \A m \in ToSet(Siblings[n]) :
                                   ~Objects(m) /\ m_state[m] >= EXECUTING
  BY <1>1, CheckAllOK DEF PhaseInv
<1>3. PICK p : p = IF proc[n].at = "siblings" THEN CheckRest(n) ELSE CheckAll(n)
  OBVIOUS
<1>4. /\ proc[n].at \in {"drop_check", "recheck", "siblings"}
      /\ Go(n, p) /\ UNCHANGED m_premature_end
      /\ IF p.at \in {"self_drop", "sibling_drop"}
         THEN m_state' = [m_state EXCEPT ![n] = EXECUTING] /\ objection' = Heard(n)
         ELSE UNCHANGED <<m_state, objection>>
  BY <1>3 DEF wait_for_self_and_siblings_to_drop, Ready, taskVars, jumpVars
<1>10. Hears(n, p)
  BY <1>4, HeardFacts DEF PhaseInv
<1>5. PICK s \in Nat : /\ s \in {EXECUTING, m_state[n]}
                       /\ m_state' = [m_state EXCEPT ![n] = s]
  <2>1. m_state[n] \in Nat
    BY DEF PhaseInv, TypeInv
  <2>2. CASE p.at \in {"self_drop", "sibling_drop"}
    <3>1. m_state' = [m_state EXCEPT ![n] = EXECUTING]
      BY <1>4, <2>2
    <3> QED
      BY <3>1, StateValues
  <2>3. CASE p.at \notin {"self_drop", "sibling_drop"}
    <3>1. m_state' = [m_state EXCEPT ![n] = m_state[n]]
      BY <1>4, <2>3 DEF PhaseInv, TypeInv
    <3> QED
      BY <2>1, <3>1
  <2> QED
    BY <2>2, <2>3
<1>6. s # STARTED /\ ~(s = ENDED /\ m_state[n] # ENDED)
  BY <1>4, <1>5, StateValues DEF PhaseInv, NodeInv
<1>7. ASSUME p = all PROVE IsProc(p) /\ NodeFine(n, p, s)
  BY <1>2, <1>6, <1>7 DEF NodeFine
<1>8. CASE proc[n].at # "siblings"
  BY <1>1, <1>3, <1>4, <1>10, <1>5, <1>7, <1>8, GoOK
<1>9. CASE proc[n].at = "siblings"
  <2>1. PICK list, again, d : /\ list = proc[n].todo /\ again = proc[n].again
                              /\ d = IF again THEN all ELSE Dropped(n)
    OBVIOUS
  <2>2. p = Sweep(list, again, d)
    BY <1>1, <1>3, <1>9, <2>1 DEF CheckRest
  <2>3. \/ p = d
        \/ IsProc(p) /\ p.at = "siblings" /\ p.again = again
        \/ IsProc(p) /\ p.at = "sibling_drop" /\ p.again = TRUE
    BY <2>2, SweepShape
  <2>4. CASE again = TRUE
    <3>1. d = all
      BY <2>1, <2>4
    <3>2. CASE p = all
      BY <1>4, <1>10, <1>5, <1>7, <3>2, GoOK
    <3>3. CASE p # all
      <4>1. IsProc(p) /\ p.at \in {"siblings", "sibling_drop"} /\ p.again = TRUE
        BY <2>3, <2>4, <3>1, <3>3
      <4>2. NodeFine(n, p, s)
        BY <1>6, <4>1 DEF NodeFine
      <4> QED
        BY <1>4, <1>10, <1>5, <4>1, <4>2, GoOK
    <3> QED
      BY <3>2, <3>3
  <2>5. CASE again # TRUE
    <3>1. objection[n] # "raised"
      BY <1>9, <2>1, <2>5 DEF PhaseInv, NodeInv
    <3>2. p = d => IsProc(p) /\ p.at \in {"ready_to_end", "exit"}
      <4>1. again = FALSE \/ again \notin BOOLEAN
        BY <2>5
      <4> QED
        BY <2>1, <2>5, <1>2, DroppedShape
    <3>3. ASSUME OneSibling(n)
          PROVE  /\ p.at = "siblings" => p.todo = Siblings[n]
                 /\ p.at = "exit" => \A m \in ToSet(Siblings[n]) :
                                       ~Objects(m) /\ m_state[m] >= EXECUTING
      <4>1. list = Siblings[n]
        BY <1>9, <2>1, <2>5, <3>3 DEF PhaseInv, NodeInv
      <4>2. CASE Siblings[n] = <<>>
        <5>1. p = d
          BY <2>2, <4>1, <4>2, SweepNone
        <5>2. ToSet(Siblings[n]) = {}
          BY <4>2 DEF ToSet
        <5> QED
          BY <3>2, <5>1, <5>2
      <4>3. ASSUME NEW m \in Nodes, Siblings[n] = <<m>>
            PROVE  /\ p.at = "siblings" => p.todo = Siblings[n]
                   /\ p.at = "exit" => \A x \in ToSet(Siblings[n]) :
                                         ~Objects(x) /\ m_state[x] >= EXECUTING
        <5>1. SweptOne(p, m, list, d)
          BY <2>2, <4>1, <4>3, SweepOne DEF PhaseInv
        <5>2. ToSet(Siblings[n]) = {m}
          BY <4>3 DEF ToSet
        <5> QED
          BY <3>2, <4>1, <5>1, <5>2 DEF SweptOne
      <4> QED
        BY <3>3, <4>2, <4>3 DEF OneSibling
    <3>4. IsProc(p) /\ NodeFine(n, p, s)
      BY <1>6, <2>3, <3>1, <3>2, <3>3 DEF NodeFine
    <3> QED
      BY <1>4, <1>10, <1>5, <3>4, GoOK
  <2> QED
    BY <2>4, <2>5
<1> QED
  BY <1>8, <1>9

LEMMA ReadyToEndOK ==
  ASSUME PhaseInv, NEW n \in Nodes, ready_to_end(n)
  PROVE  PhaseInv' /\ StepsOK
<1>1. /\ m_state' = [m_state EXCEPT ![n] = READY_TO_END]
      /\ objection' = Heard(n) /\ UNCHANGED m_premature_end
  BY DEF ready_to_end, jumpVars
<1>2. PICK p : Go(n, p) /\ IsProc(p) /\ p.at = "recheck"
  BY ProcFacts DEF ready_to_end
<1>10. Hears(n, p)
  BY <1>1, <1>2, HeardFacts DEF PhaseInv
<1>3. NodeFine(n, p, READY_TO_END)
  BY <1>2, PlainFine, StateValues DEF Plain
<1> QED
  BY <1>1, <1>2, <1>3, <1>10, GoOK, StateValues

LEMMA ExitOnJumpOK ==
  ASSUME PhaseInv, NEW n \in Nodes, exit_on_jump(n)
  PROVE  PhaseInv' /\ StepsOK
<1>1. /\ m_premature_end[n] /\ proc[n].at # "started"
      /\ UNCHANGED <<m_state, objection, m_premature_end>>
  BY DEF exit_on_jump, InFork, taskVars, jumpVars
<1>2. PICK p : Go(n, p) /\ IsProc(p) /\ p.at = "exit"
  BY ProcFacts DEF exit_on_jump
<1>3. NodeFine(n, p, m_state[n])
  BY <1>1, <1>2 DEF NodeFine, PhaseInv, NodeInv
<1> QED
  BY <1>1, <1>2, <1>3, StayOK

LEMMA ExitForkOK ==
  ASSUME PhaseInv, NEW n \in Nodes, exit_fork(n)
  PROVE  PhaseInv' /\ StepsOK
<1>1. proc[n].at = "exit" /\ UNCHANGED <<objection, m_premature_end>>
  BY DEF exit_fork, Ready, taskVars, jumpVars
<1>2. CASE m_premature_end[n]
  <2>1. UNCHANGED m_state
    BY <1>2 DEF exit_fork
  <2>2. PICK p : Go(n, p) /\ IsProc(p) /\ p.at = "ended"
    BY <1>2, ProcFacts DEF exit_fork
  <2>3. NodeFine(n, p, m_state[n])
    BY <1>1, <1>2, <2>2 DEF NodeFine, PhaseInv, NodeInv
  <2> QED
    BY <1>1, <2>1, <2>2, <2>3, StayOK
<1>3. CASE ~m_premature_end[n]
  <2>1. m_state' = [m_state EXCEPT ![n] = ENDED]
    BY <1>3 DEF exit_fork
  <2>2. PICK p : Go(n, p) /\ IsProc(p) /\ p.at = "cleanup"
    BY <1>3, ProcFacts DEF exit_fork
  <2>3. NodeFine(n, p, ENDED)
    BY <1>1, <1>3, <2>2, StateValues DEF NodeFine, PhaseInv, NodeInv
  <2> QED
    BY <1>1, <2>1, <2>2, <2>3, QuietGoOK, StateValues
<1> QED
  BY <1>2, <1>3

LEMMA EndedOK ==
  ASSUME PhaseInv, NEW n \in Nodes, ended(n)
  PROVE  PhaseInv' /\ StepsOK
<1>1. /\ proc[n].at = "ended" /\ m_state' = [m_state EXCEPT ![n] = ENDED]
      /\ UNCHANGED <<objection, m_premature_end>>
  BY DEF ended, Ready, taskVars, jumpVars
<1>2. PICK p : Go(n, p) /\ IsProc(p) /\ p.at = "cleanup"
  BY ProcFacts DEF ended
<1>3. NodeFine(n, p, ENDED)
  BY <1>1, <1>2, StateValues DEF NodeFine, PhaseInv, NodeInv
<1> QED
  BY <1>1, <1>2, <1>3, QuietGoOK, StateValues

LEMMA CleanupOK ==
  ASSUME PhaseInv, NEW n \in Nodes, cleanup(n)
  PROVE  PhaseInv' /\ StepsOK
<1>1. PICK s \in {JUMPING, CLEANUP} : m_state' = [m_state EXCEPT ![n] = s]
  BY DEF cleanup
<1>2. PICK p : Go(n, p) /\ IsProc(p) /\ p.at = "finish"
  BY ProcFacts DEF cleanup
<1>3. UNCHANGED <<objection, m_premature_end>> /\ s \in Nat
  BY StateValues DEF cleanup, jumpVars
<1>4. NodeFine(n, p, s)
  BY <1>2, PlainFine, StateValues DEF Plain
<1> QED
  BY <1>1, <1>2, <1>3, <1>4, QuietGoOK

LEMMA SettleOK ==
  ASSUME PhaseInv, NEW n \in Nodes, settle(n)
  PROVE  PhaseInv' /\ StepsOK
<1>1. proc[n].at = "settle" /\ UNCHANGED <<m_state, objection, m_premature_end>>
  BY DEF settle, Ready, taskVars, jumpVars
<1>2. PICK p : Go(n, p) /\ IsProc(p) /\ p.at = "schedule"
  BY ProcFacts DEF settle
<1> QED
  BY <1>1, <1>2, StaysPlain, StayOK DEF Plain

\* The steps at the end of execute_phase, which reach other nodes: those of a
\* jump are reset, waits for their objections end, successors are marked.
Quiet == {"idle", "schedule", "settle", "put"}

Reaches(n) ==
  /\ IsFun(proc') /\ m_state' \in [Nodes -> Nat]
  /\ objection' \in [Nodes -> ObjectionStates]
  /\ m_premature_end' \in [Nodes -> BOOLEAN]
  /\ \A m \in Nodes :
       /\ m_state'[m] = m_state[m] \/ m_state'[m] \in {DORMANT, SCHEDULED, DONE}
       /\ objection'[m] = objection[m] \/ objection'[m] # "raised"
       /\ m # n => WokenTo(proc[m], proc'[m]) /\ m_premature_end'[m] = m_premature_end[m]

LEMMA ReachesOK ==
  ASSUME PhaseInv, NEW n \in Nodes, Reaches(n), IsProc(proc'[n]), proc'[n].at \in Quiet,
         proc[n].at # "started"
  PROVE  PhaseInv' /\ StepsOK
<1>1. TypeInv'
  BY DEF Reaches, WokenTo, TypeInv
<1>2. \A m \in Nodes \ {n} : Untouched(m)
  BY DEF Reaches, Untouched
<1>3. StepOK(n)
  <2>1. m_state'[n] # STARTED
    BY StateValues DEF PhaseInv, NodeInv, Reaches
  <2>2. NodeInv(n)'
    BY <2>1 DEF NodeInv, Quiet
  <2>3. EndsUnraised(n)
    BY StateValues DEF EndsUnraised, Reaches
  <2>4. DecidesWell(n)
    BY DEF DecidesWell, Quiet
  <2> QED
    BY <2>2, <2>3, <2>4 DEF StepOK
<1>4. \A m \in {n} \intersect Nodes : StepOK(m)
  BY <1>3
<1> QED
  BY <1>1, <1>2, <1>4, OthersOK

\* The processes that wait for N are woken, after n has gone to p.
LEMMA ClearsOK ==
  ASSUME PhaseInv, NEW n \in Nodes, NEW p, IsProc(p), p.at \in Quiet,
         NEW N, ClearNodes(N, [proc EXCEPT ![n] = p])
  PROVE  /\ IsFun(proc') /\ IsProc(proc'[n]) /\ proc'[n].at = p.at /\ WokenTo(p, proc'[n])
         /\ \A m \in Nodes : m # n => WokenTo(proc[m], proc'[m])
         /\ objection' \in [Nodes -> ObjectionStates]
         /\ \A m \in Nodes : objection'[m] = objection[m] \/ objection'[m] # "raised"
<1>1. PICK P : P = [proc EXCEPT ![n] = p]
  OBVIOUS
<1>2. P[n] = p /\ \A m \in Nodes : m # n => P[m] = proc[m]
  BY <1>1 DEF PhaseInv, TypeInv, IsFun
<1>3. proc' = Woken(P, N)
  BY <1>1 DEF ClearNodes
<1>4. \A m \in Nodes : WokenTo(P[m], proc'[m])
  BY <1>2, <1>3, WokenFacts DEF PhaseInv, TypeInv
<1>5. IsFun(proc')
  BY <1>3 DEF Woken, IsFun
<1>6. IsProc(proc'[n]) /\ proc'[n].at = p.at
  BY <1>2, <1>4 DEF WokenTo, Quiet
<1>7. objection' = [m \in Nodes |-> IF m \in N THEN "none" ELSE objection[m]]
  BY DEF ClearNodes
<1> QED
  BY <1>2, <1>4, <1>5, <1>6, <1>7 DEF PhaseInv, TypeInv, ObjectionStates

LEMMA FinishOK ==
  ASSUME PhaseInv, NEW n \in Nodes, finish(n)
  PROVE  PhaseInv' /\ StepsOK
<1>1. /\ proc[n].at = "finish"
      /\ m_premature_end' = [m_premature_end EXCEPT ![n] = FALSE]
  BY DEF finish, Ready
<1>2. PICK N, p : p.at \in Quiet /\ IsProc(p) /\ ClearNodes(N, [proc EXCEPT ![n] = p])
  <2>1. CASE Jumps(n)
    <3>1. PICK N : ClearNodes(N, [proc EXCEPT ![n] = Later("schedule")])
      BY <2>1 DEF finish
    <3>2. PICK p : p = Later("schedule")
      OBVIOUS
    <3> QED
      BY <3>1, <3>2, ProcFacts DEF Quiet
  <2>2. CASE ~Jumps(n)
    <3>1. ClearNodes({n}, [proc EXCEPT ![n] = Later("settle")])
      BY <2>2 DEF finish
    <3>2. PICK p : p = Later("settle")
      OBVIOUS
    <3> QED
      BY <3>1, <3>2, ProcFacts DEF Quiet
  <2> QED
    BY <2>1, <2>2
<1>3. /\ IsFun(proc') /\ IsProc(proc'[n]) /\ proc'[n].at \in Quiet
      /\ \A m \in Nodes : m # n => WokenTo(proc[m], proc'[m])
      /\ objection' \in [Nodes -> ObjectionStates]
      /\ \A m \in Nodes : objection'[m] = objection[m] \/ objection'[m] # "raised"
  BY <1>2, ClearsOK
<1>4. /\ m_state' \in [Nodes -> Nat]
      /\ \A m \in Nodes : m_state'[m] = m_state[m] \/ m_state'[m] \in {DORMANT, SCHEDULED, DONE}
  <2>1. CASE Jumps(n)
    <3>1. PICK ahead, skipped :
             /\ ahead = UNION {Reach(m, {}) : m \in m_jump[n].phase}
             /\ skipped = IF m_jump[n].fwd THEN Reach(n, m_jump[n].phase) ELSE {}
      OBVIOUS
    <3>2. m_state' = [m \in Nodes |-> IF m \in ahead THEN DORMANT
                                      ELSE IF m \in skipped THEN DONE
                                      ELSE m_state[m]]
      BY <2>1, <3>1 DEF finish
    <3> QED
      BY <3>2, StateValues DEF PhaseInv, TypeInv
  <2>2. CASE ~Jumps(n)
    <3>1. m_state' = [m_state EXCEPT ![n] = DONE]
      BY <2>2 DEF finish
    <3> QED
      BY <3>1, StateValues DEF PhaseInv, TypeInv
  <2> QED
    BY <2>1, <2>2
<1>5. /\ m_premature_end' \in [Nodes -> BOOLEAN]
      /\ \A m \in Nodes : m # n => m_premature_end'[m] = m_premature_end[m]
  BY <1>1 DEF PhaseInv, TypeInv
<1>6. Reaches(n)
  BY <1>3, <1>4, <1>5 DEF Reaches
<1> QED
  BY <1>1, <1>3, <1>6, ReachesOK

\* Where the loop over successors gets to.
LEMMA ScheduleFromFacts ==
  ASSUME NEW n, NEW list, NEW next, next = ScheduleFrom(n, list)
  PROVE  IsProc(next[1]) /\ next[1].at \in Quiet
<1> DEFINE i == SelectInSeq(list, LAMBDA m : m_state[m] < SCHEDULED)
<1>1. PICK r, left : r = Later("put") /\ left = SubSeq(list, i, Len(list))
  OBVIOUS
<1>2. PICK p, q, N : /\ p = At("idle") /\ q = [r EXCEPT !.todo = left]
                     /\ N = {list[i]}
  OBVIOUS
<1>3. next[1] = At("idle") \/ next[1] = [r EXCEPT !.todo = left]
  <2>1. next = <<p, {}>> \/ next = <<q, N>>
    BY <1>1, <1>2 DEF ScheduleFrom
  <2>2. next[1] = p \/ next[1] = q
    BY <2>1
  <2> QED
    BY <1>2, <2>2
<1>4. IsProc(r) /\ r.at = "put"
  BY <1>1, ProcFacts
<1>5. CASE next[1] = [r EXCEPT !.todo = left]
  <2>1. next[1] = [at |-> r.at, delay |-> r.delay, todo |-> left, again |-> r.again]
    BY <1>4, <1>5 DEF IsProc
  <2> QED
    BY <1>4, <2>1 DEF IsProc, Quiet
<1>6. CASE next[1] = At("idle")
  BY <1>6, ProcFacts DEF Quiet
<1> QED
  BY <1>3, <1>5, <1>6

LEMMA MarkedFacts ==
  ASSUME PhaseInv, NEW N, m_state' = Marked(N)
  PROVE  /\ m_state' \in [Nodes -> Nat]
         /\ \A m \in Nodes : m_state'[m] = m_state[m] \/ m_state'[m] \in {DORMANT, SCHEDULED, DONE}
BY StateValues DEF Marked, PhaseInv, TypeInv

LEMMA ScheduleOK ==
  ASSUME PhaseInv, NEW n \in Nodes, schedule(n)
  PROVE  PhaseInv' /\ StepsOK
<1>1. proc[n].at = "schedule" /\ UNCHANGED m_premature_end
  BY DEF schedule, Ready
<1>2. PICK next : next = ScheduleFrom(n, m_successors[n])
  OBVIOUS
<1>3. PICK p : p.at \in Quiet /\ IsProc(p) /\ ClearNodes({n}, [proc EXCEPT ![n] = p])
  <2>1. CASE Jumps(n)
    <3>1. ClearNodes({n}, [proc EXCEPT ![n] = At("idle")])
      BY <2>1 DEF schedule
    <3>2. PICK p : p = At("idle")
      OBVIOUS
    <3> QED
      BY <3>1, <3>2, ProcFacts DEF Quiet
  <2>2. CASE ~Jumps(n)
    <3>1. ClearNodes({n}, [proc EXCEPT ![n] = next[1]])
      BY <1>2, <2>2 DEF schedule
    <3> QED
      BY <1>2, <3>1, ScheduleFromFacts
  <2> QED
    BY <2>1, <2>2
<1>4. /\ IsFun(proc') /\ IsProc(proc'[n]) /\ proc'[n].at \in Quiet
      /\ \A m \in Nodes : m # n => WokenTo(proc[m], proc'[m])
      /\ objection' \in [Nodes -> ObjectionStates]
      /\ \A m \in Nodes : objection'[m] = objection[m] \/ objection'[m] # "raised"
  BY <1>3, ClearsOK
<1>5. /\ m_state' \in [Nodes -> Nat]
      /\ \A m \in Nodes : m_state'[m] = m_state[m] \/ m_state'[m] \in {DORMANT, SCHEDULED, DONE}
  <2>1. CASE Jumps(n)
    BY <2>1 DEF schedule, PhaseInv, TypeInv
  <2>2. CASE ~Jumps(n)
    <3>1. m_state' = Marked(next[2])
      BY <1>2, <2>2 DEF schedule
    <3> QED
      BY <3>1, MarkedFacts
  <2> QED
    BY <2>1, <2>2
<1>6. Reaches(n)
  BY <1>1, <1>4, <1>5 DEF Reaches, PhaseInv, TypeInv
<1> QED
  BY <1>1, <1>4, <1>6, ReachesOK

LEMMA PutOK ==
  ASSUME PhaseInv, NEW n \in Nodes, put(n)
  PROVE  PhaseInv' /\ StepsOK
<1>1. PICK next : next = ScheduleFrom(n, Tail(proc[n].todo))
  OBVIOUS
<1>2. /\ proc[n].at = "put" /\ Go(n, next[1]) /\ m_state' = Marked(next[2])
      /\ UNCHANGED <<objection, m_premature_end>>
  BY <1>1 DEF put, Ready, taskVars, jumpVars
<1>3. IsProc(next[1]) /\ next[1].at \in Quiet
  BY <1>1, ScheduleFromFacts
<1>4. /\ proc'[n] = next[1] /\ IsFun(proc')
      /\ \A m \in Nodes : m # n => proc'[m] = proc[m]
  BY <1>2, GoFacts DEF PhaseInv, TypeInv
<1>5. /\ m_state' \in [Nodes -> Nat]
      /\ \A m \in Nodes : m_state'[m] = m_state[m] \/ m_state'[m] \in {DORMANT, SCHEDULED, DONE}
  BY <1>2, MarkedFacts
<1>6. Reaches(n)
  BY <1>2, <1>4, <1>5 DEF Reaches, WokenTo, PhaseInv, TypeInv
<1> QED
  BY <1>2, <1>3, <1>4, <1>6, ReachesOK

LEMMA ExecutePhaseOK ==
  ASSUME PhaseInv, NEW n \in Nodes, execute_phase(n)
  PROVE  PhaseInv' /\ StepsOK
BY PredecessorsOK, SyncOK, ExecuteOK, FunctionOK, WaitForPredOK, CheckOK, DropOK, ReadyToEndOK,
   ExitOnJumpOK, ExitForkOK, EndedOK, CleanupOK, FinishOK, SettleOK, ScheduleOK, PutOK
   DEF execute_phase

-----------------------------------------------------------------------------
(* The steps of the runner and of components. *)

\* A step that leaves every node alone, but for what may come from others.
LEMMA AllUntouchedOK ==
  ASSUME PhaseInv, TypeInv', \A m \in Nodes : Untouched(m)
  PROVE  PhaseInv' /\ StepsOK
<1>1. PICK N : N = {}
  OBVIOUS
<1> QED
  BY <1>1, OthersOK

\* The delay of processes ends.
LEMMA DelayOverOK ==
  ASSUME PhaseInv, NEW N,
         proc' = [n \in Nodes |-> IF n \in N THEN [proc[n] EXCEPT !.delay = "none"] ELSE proc[n]],
         UNCHANGED <<m_state, objection, m_premature_end>>
  PROVE  PhaseInv' /\ StepsOK
<1>1. IsFun(proc')
  BY DEF IsFun
<1>2. ASSUME NEW n \in Nodes PROVE WokenTo(proc[n], proc'[n])
  <2>1. PICK p, q : p = proc[n] /\ q = proc'[n]
    OBVIOUS
  <2>2. IsProc(p)
    BY <2>1 DEF PhaseInv, TypeInv
  <2>3. q = [p EXCEPT !.delay = "none"] \/ q = p
    BY <2>1
  <2>4. CASE q = [p EXCEPT !.delay = "none"]
    <3>1. q = [at |-> p.at, delay |-> "none", todo |-> p.todo, again |-> p.again]
      BY <2>2, <2>4 DEF IsProc
    <3> QED
      BY <2>1, <3>1 DEF WokenTo, IsProc
  <2>5. CASE q = p
    BY <2>1, <2>2, <2>5 DEF WokenTo
  <2> QED
    BY <2>3, <2>4, <2>5
<1>3. TypeInv'
  BY <1>1, <1>2 DEF PhaseInv, TypeInv, WokenTo
<1>4. \A n \in Nodes : Untouched(n)
  BY <1>2 DEF Untouched
<1> QED
  BY <1>3, <1>4, AllUntouchedOK

LEMMA StillOK ==
  ASSUME PhaseInv, UNCHANGED <<m_state, proc, objection>>,
         m_premature_end' \in [Nodes -> BOOLEAN],
         \A n \in Nodes : m_premature_end'[n] = m_premature_end[n] \/ m_premature_end'[n] = TRUE
  PROVE  PhaseInv' /\ StepsOK
<1>1. TypeInv'
  BY DEF PhaseInv, TypeInv, IsFun
<1>2. \A n \in Nodes : Untouched(n)
  BY DEF Untouched, WokenTo, PhaseInv, TypeInv
<1> QED
  BY <1>1, <1>2, AllUntouchedOK

LEMMA RunPhasesOK ==
  ASSUME PhaseInv, m_run_phases
  PROVE  PhaseInv' /\ StepsOK
<1>1. PICK n : n = Head(m_phase_hopper)
  OBVIOUS
<1>2. UNCHANGED <<m_state, objection, m_premature_end>>
  BY DEF m_run_phases, taskVars, jumpVars
<1>3. CASE proc' = proc
  BY <1>2, <1>3, StillOK DEF PhaseInv, TypeInv
<1>4. CASE proc' # proc
  <2>1. PICK p : p = Over("predecessors", m_predecessors[n])
    OBVIOUS
  <2>2. proc[n].at = "idle" /\ Go(n, p)
    BY <1>1, <1>4, <2>1 DEF m_run_phases
  <2>3. IsProc(p) /\ p.at = "predecessors"
    BY <2>1, ProcFacts
  <2>4. n \in Nodes
    BY <1>4, <2>2 DEF Go, PhaseInv, TypeInv, IsFun
  <2> QED
    BY <1>2, <2>2, <2>3, <2>4, StaysPlain, StayOK DEF Plain
<1> QED
  BY <1>3, <1>4

LEMMA RaiseOK ==
  ASSUME PhaseInv, NEW n \in Nodes, raise_objection(n)
  PROVE  PhaseInv' /\ StepsOK
<1>1. PICK o : o = IF LooksAgain(n) THEN "raised" ELSE "unheard"
  OBVIOUS
<1>2. /\ objection' = [objection EXCEPT ![n] = o] /\ o \in ObjectionStates
      /\ UNCHANGED <<m_state, proc, m_premature_end>>
  BY <1>1 DEF raise_objection, jumpVars, ObjectionStates
<1>3. TypeInv'
  BY <1>2 DEF PhaseInv, TypeInv, IsFun
<1>4. \A m \in Nodes \ {n} : Untouched(m)
  BY <1>2 DEF Untouched, WokenTo, PhaseInv, TypeInv
<1>5. objection'[n] = o
  BY <1>2 DEF PhaseInv, TypeInv
<1>6. o = "raised" => proc[n].at # "exit" /\ (proc[n].at = "siblings" => proc[n].again = TRUE)
  BY <1>1 DEF LooksAgain, PhaseInv, TypeInv, IsProc
<1>7. StepOK(n)
  BY <1>2, <1>5, <1>6 DEF StepOK, NodeInv, EndsUnraised, DecidesWell, PhaseInv
<1>8. \A m \in {n} \intersect Nodes : StepOK(m)
  BY <1>7
<1> QED
  BY <1>3, <1>4, <1>8, OthersOK

LEMMA DropObjectionOK ==
  ASSUME PhaseInv, NEW n \in Nodes, drop_objection(n)
  PROVE  PhaseInv' /\ StepsOK
<1>1. /\ objection' = [objection EXCEPT ![n] = "draining"]
      /\ UNCHANGED <<m_state, proc, m_premature_end>>
  BY DEF drop_objection, jumpVars
<1>2. TypeInv'
  BY <1>1 DEF PhaseInv, TypeInv, IsFun, ObjectionStates
<1>3. \A m \in Nodes : Untouched(m)
  BY <1>1 DEF Untouched, WokenTo, PhaseInv, TypeInv
<1> QED
  BY <1>2, <1>3, AllUntouchedOK

LEMMA AllDroppedOK ==
  ASSUME PhaseInv, NEW n \in Nodes, all_dropped(n)
  PROVE  PhaseInv' /\ StepsOK
<1>1. /\ objection' = [objection EXCEPT ![n] = "none"] /\ proc' = Woken(proc, {n})
      /\ UNCHANGED <<m_state, m_premature_end>>
  BY DEF all_dropped, jumpVars
<1>2. \A m \in Nodes : WokenTo(proc[m], proc'[m])
  BY <1>1, WokenFacts DEF PhaseInv, TypeInv
<1>3. IsFun(proc')
  BY <1>1 DEF Woken, IsFun
<1>4. TypeInv'
  BY <1>1, <1>2, <1>3 DEF PhaseInv, TypeInv, WokenTo, ObjectionStates
<1>5. \A m \in Nodes : Untouched(m)
  BY <1>1, <1>2 DEF Untouched, PhaseInv, TypeInv
<1> QED
  BY <1>4, <1>5, AllUntouchedOK

LEMMA JumpsOK ==
  ASSUME PhaseInv, NEW n \in Nodes,
         \/ \E to \in Nodes, prematurely \in BOOLEAN : jump(n, to, prematurely)
         \/ end_prematurely(n)
  PROVE  PhaseInv' /\ StepsOK
<1>1. PICK b \in BOOLEAN : m_premature_end' = [m_premature_end EXCEPT ![n] = b]
                           /\ (b = m_premature_end[n] \/ b = TRUE)
  BY DEF jump, end_prematurely, PhaseInv, TypeInv
<1>2. UNCHANGED <<m_state, proc, objection>>
  BY DEF jump, end_prematurely, taskVars
<1> QED
  BY <1>1, <1>2, StillOK DEF PhaseInv, TypeInv

-----------------------------------------------------------------------------
(* The theorems. *)

LEMMA InitOK == Init => PhaseInv
<1> SUFFICES ASSUME Init PROVE PhaseInv
  OBVIOUS
<1>1. PICK p : p = At("idle")
  OBVIOUS
<1>2. IsProc(p) /\ p.at = "idle"
  BY <1>1, ProcFacts
<1>3. proc = [n \in Nodes |-> p]
  BY <1>1 DEF Init
<1>4. TypeInv
  BY <1>2, <1>3, StateValues DEF Init, TypeInv, IsFun, ObjectionStates
<1>5. \A n \in Nodes : m_state[n] # STARTED /\ proc[n].at = "idle"
  BY <1>2, <1>3, StateValues DEF Init
<1> QED
  BY <1>4, <1>5 DEF PhaseInv, NodeInv

LEMMA NextOK ==
  ASSUME PhaseInv, [Next]_vars
  PROVE  PhaseInv' /\ StepsOK
<1>1. CASE \E n \in Nodes : execute_phase(n)
  BY <1>1, ExecutePhaseOK
<1>2. CASE m_run_phases
  BY <1>2, RunPhasesOK
<1>3. CASE next_delta
  <2>1. PICK N : N = Postponed("#0")
    OBVIOUS
  <2>2. /\ proc' = [n \in Nodes |-> IF n \in N THEN [proc[n] EXCEPT !.delay = "none"] ELSE proc[n]]
        /\ UNCHANGED <<m_state, objection, m_premature_end>>
    BY <1>3, <2>1 DEF next_delta, taskVars, jumpVars
  <2> QED
    BY <2>2, DelayOverOK
<1>4. CASE nba_region
  <2>1. PICK N : N = Postponed("nba")
    OBVIOUS
  <2>2. /\ proc' = [n \in Nodes |-> IF n \in N THEN [proc[n] EXCEPT !.delay = "none"] ELSE proc[n]]
        /\ UNCHANGED <<m_state, objection, m_premature_end>>
    BY <1>4, <2>1 DEF nba_region, taskVars, jumpVars
  <2> QED
    BY <2>2, DelayOverOK
<1>5. CASE Components
  BY <1>5, RaiseOK, DropObjectionOK, AllDroppedOK, JumpsOK DEF Components
<1>6. CASE UNCHANGED vars
  BY <1>6, StillOK DEF vars, taskVars, jumpVars, PhaseInv, TypeInv
<1> QED
  BY <1>1, <1>2, <1>3, <1>4, <1>5, <1>6 DEF Next, Simulator

\* The books of a phase: what it has looked at stays as it was seen until it has
\* ended or looks again (uvm_phase.svh:1387-1483, 2120-2168).
THEOREM PhaseBooks == Spec => []PhaseInv
<1>1. Init => PhaseInv
  BY InitOK
<1>2. PhaseInv /\ [Next]_vars => PhaseInv'
  BY NextOK
<1> QED
  BY <1>1, <1>2, PTL DEF Spec

\* For every graph of phases and all jumps, and whenever components raise: a task
\* phase that does not end prematurely is never ENDED over an objection, except
\* one that came after its last look at its own (uvm_phase.svh:2145-2160).
THEOREM ObjectionsHold == Spec => ObjectionHolds
<1>1. PhaseInv /\ [Next]_vars =>
        [\A n \in Nodes :
           /\ Kind[n] = "task" /\ ~m_premature_end[n]
           /\ m_state'[n] = ENDED /\ m_state[n] # ENDED
           => objection[n] # "raised"]_vars
  BY NextOK DEF StepsOK, EndsUnraised
<1> QED
  BY <1>1, PhaseBooks, PTL DEF Spec, ObjectionHolds

\* For every graph in which no task phase has more than one sibling, and all
\* jumps, the phases of a group end in agreement. With more siblings they need
\* not (MCPhase, the graph of JoinNodes).
THEOREM EndInAgreement ==
  ASSUME \A n \in Nodes : Kind[n] = "task" => OneSibling(n)
  PROVE  Spec => DecidesInAgreement
<1>1. PhaseInv /\ [Next]_vars =>
        [\A n \in Nodes :
           DecidesToEnd(n) =>
             /\ objection[n] # "raised"
             /\ \A m \in ToSet(Siblings[n]) : ~Objects(m) /\ m_state[m] >= EXECUTING]_vars
  BY NextOK DEF StepsOK, DecidesWell, DecidesToEnd
<1> QED
  BY <1>1, PhaseBooks, PTL DEF Spec, DecidesInAgreement

-----------------------------------------------------------------------------
(***************************************************************************)
(* Until the first jump: a phase goes through its states once, on one      *)
(* process, after its predecessors.                                        *)
(***************************************************************************)
Fork == {"check", "all_dropped", "self_drop", "sibling_drop", "drop_check", "siblings",
         "ready_to_end", "recheck"}

\* The states in which a process is at each place.
Stage(at, s) ==
  \/ at = "idle" /\ s \in {DORMANT, SCHEDULED, DONE}
  \/ at = "predecessors" /\ s \in {DORMANT, SCHEDULED}
  \/ at = "sync" /\ s = SYNCING
  \/ at = "started" /\ s = STARTED
  \/ at \in {"function", "wait_for_pred", "ended"} /\ s = EXECUTING
  \/ at \in Fork \union {"exit"} /\ s \in {EXECUTING, READY_TO_END}
  \/ at = "cleanup" /\ s = ENDED
  \/ at = "finish" /\ s \in {EXECUTING, CLEANUP}
  \/ at \in {"settle", "schedule", "put"} /\ s = DONE

WithTasks == Fork \union {"exit", "cleanup"}
Hopper == ToSet(m_phase_hopper)

\* A successor that is marked and not yet in the hopper.
Puts(n) ==
  LET todo == proc[n].todo
  IN  /\ todo \in Seq(Nodes) /\ todo # <<>> /\ ToSet(todo) \subseteq ToSet(m_successors[n])
      /\ m_state[Head(todo)] = SCHEDULED /\ proc[Head(todo)].at = "idle"
      /\ Head(todo) \notin Hopper

NodeOnce(n) ==
  /\ Stage(proc[n].at, m_state[n])
  /\ m_phase_proc[n] = "alive" => proc[n].at \in WithTasks
  /\ proc[n].at = "predecessors" =>
       /\ proc[n].todo \in Seq(Nodes)
       /\ \A p \in ToSet(m_predecessors[n]) : m_state[p] = DONE \/ p \in ToSet(proc[n].todo)
  /\ proc[n].at \notin {"idle", "predecessors"} =>
       \A p \in ToSet(m_predecessors[n]) : m_state[p] = DONE
  /\ proc[n].at = "put" => Puts(n)
  /\ m_state[n] = DORMANT /\ m_predecessors[n] # <<>> => proc[n].at = "idle"
  /\ n \in Hopper => /\ proc[n].at = "idle" /\ m_state[n] \in {DORMANT, SCHEDULED}
                     /\ m_state[n] = DORMANT => m_predecessors[n] = <<>>

OnePuts ==
  \A n, m \in Nodes :
    /\ proc[n].at = "put" /\ proc[m].at = "put"
    /\ Head(proc[n].todo) = Head(proc[m].todo)
    => n = m

OnceInv ==
  /\ ~overlap
  /\ \A n \in Nodes : m_jump[n] = NoJump /\ ~m_premature_end[n]
  /\ m_phase_proc \in [Nodes -> {"none", "alive"}]
  /\ m_phase_hopper \in Seq(Nodes) /\ IsInjective(m_phase_hopper)
  /\ \A n \in Nodes : NodeOnce(n)
  /\ OnePuts

LEMMA StateNumbers ==
  /\ DORMANT = 1 /\ SCHEDULED = 2 /\ SYNCING = 4 /\ STARTED = 8 /\ EXECUTING = 16
  /\ READY_TO_END = 32 /\ ENDED = 64 /\ CLEANUP = 128 /\ DONE = 256 /\ JUMPING = 512
BY DEF DORMANT, SCHEDULED, SYNCING, STARTED, EXECUTING, READY_TO_END, ENDED, CLEANUP, DONE,
       JUMPING

LEMMA GraphFacts ==
  ASSUME NEW n \in Nodes
  PROVE  /\ m_predecessors[n] \in Seq(Nodes) /\ m_successors[n] \in Seq(Nodes)
         /\ ToSet(m_predecessors[n]) \subseteq Nodes /\ ToSet(m_successors[n]) \subseteq Nodes
BY PhaseAssumption DEF ToSet

\* What others see of a step that takes n from one place to another.
OthersKept(n) ==
  /\ \A m \in Nodes : m # n => /\ WokenTo(proc[m], proc'[m])
                               /\ m_phase_proc'[m] = m_phase_proc[m]
  /\ \A m \in Nodes : m_jump'[m] = m_jump[m] /\ ~m_premature_end'[m]
  /\ m_phase_proc' \in [Nodes -> {"none", "alive"}]
  /\ ~overlap'

\* A node goes from a place to another that is not "put".
LEMMA MoveOK ==
  ASSUME TypeInv, OnceInv, NEW n \in Nodes, proc[n].at # "idle", OthersKept(n),
         UNCHANGED m_phase_hopper, NEW s, m_state' = [m_state EXCEPT ![n] = s],
         Stage(proc'[n].at, s), proc'[n].at # "put", s # DORMANT \/ s = m_state[n],
         m_state[n] = DONE => s = DONE,
         m_phase_proc'[n] = "alive" => proc'[n].at \in WithTasks,
         proc'[n].at = "predecessors" =>
           /\ proc'[n].todo \in Seq(Nodes)
           /\ \A p \in ToSet(m_predecessors[n]) : m_state[p] = DONE \/ p \in ToSet(proc'[n].todo),
         proc'[n].at \notin {"idle", "predecessors"} =>
           \A p \in ToSet(m_predecessors[n]) : m_state[p] = DONE
  PROVE  OnceInv'
<1>1. /\ m_state'[n] = s /\ \A m \in Nodes : m # n => m_state'[m] = m_state[m]
      /\ \A m \in Nodes : m_state[m] = DONE => m_state'[m] = DONE
  BY DEF TypeInv
<1>2. n \notin Hopper /\ Hopper' = Hopper
  BY DEF OnceInv, NodeOnce, Hopper
<1>3. ASSUME NEW m \in Nodes, m # n
      PROVE  NodeOnce(m)' /\ (proc'[m].at = "put" => proc[m].at = "put" /\ proc'[m].todo = proc[m].todo)
  <2>1. NodeOnce(m) /\ WokenTo(proc[m], proc'[m]) /\ m_phase_proc'[m] = m_phase_proc[m]
    BY <1>3 DEF OnceInv, OthersKept
  <2>2. \/ proc'[m].at = proc[m].at /\ proc'[m].todo = proc[m].todo
        \/ proc[m].at \in Fork /\ proc'[m].at \in Fork
    BY <2>1 DEF WokenTo, Fork
  <2>3. ToSet(m_predecessors[m]) \subseteq Nodes
    BY GraphFacts
  <2>4. Stage(proc'[m].at, m_state'[m])
    BY <1>1, <1>3, <2>1, <2>2 DEF NodeOnce, Stage, Fork
  <2>5. m_phase_proc'[m] = "alive" => proc'[m].at \in WithTasks
    BY <2>1, <2>2 DEF NodeOnce, WithTasks
  <2>6. proc'[m].at = "predecessors" =>
          /\ proc'[m].todo \in Seq(Nodes)
          /\ \A p \in ToSet(m_predecessors[m]) : m_state'[p] = DONE \/ p \in ToSet(proc'[m].todo)
    BY <1>1, <2>1, <2>2, <2>3 DEF NodeOnce, Fork
  <2>7. proc'[m].at \notin {"idle", "predecessors"} =>
          \A p \in ToSet(m_predecessors[m]) : m_state'[p] = DONE
    BY <1>1, <2>1, <2>2, <2>3 DEF NodeOnce, Fork
  <2>8. proc'[m].at = "put" => proc[m].at = "put" /\ proc'[m].todo = proc[m].todo
    BY <2>2 DEF Fork
  <2>9. ASSUME proc'[m].at = "put" PROVE Puts(m)'
    <3>1. Puts(m) /\ proc'[m].todo = proc[m].todo
      BY <2>1, <2>8, <2>9 DEF NodeOnce
    <3>2. PICK h : h = Head(proc[m].todo)
      OBVIOUS
    <3>3. h \in Nodes /\ proc[h].at = "idle" /\ m_state[h] = SCHEDULED /\ h \notin Hopper
      BY <3>1, <3>2 DEF Puts
    <3>4. h # n
      BY <3>3
    <3>5. proc'[h].at = "idle" /\ m_state'[h] = SCHEDULED
      BY <1>1, <3>3, <3>4 DEF OthersKept, WokenTo
    <3> QED
      BY <1>2, <3>1, <3>2, <3>3, <3>5 DEF Puts
  <2>10. /\ m_state'[m] = DORMANT /\ m_predecessors[m] # <<>> => proc'[m].at = "idle"
         /\ m \in Hopper' => /\ proc'[m].at = "idle" /\ m_state'[m] \in {DORMANT, SCHEDULED}
                             /\ m_state'[m] = DORMANT => m_predecessors[m] = <<>>
    BY <1>1, <1>2, <1>3, <2>1, <2>2 DEF NodeOnce, Fork
  <2> QED
    BY <2>4, <2>5, <2>6, <2>7, <2>8, <2>9, <2>10 DEF NodeOnce
<1>4. NodeOnce(n)'
  <2>1. ToSet(m_predecessors[n]) \subseteq Nodes
    BY GraphFacts
  <2>2. s = DORMANT => m_predecessors[n] = <<>>
    BY DEF OnceInv, NodeOnce
  <2> QED
    BY <1>1, <1>2, <2>1, <2>2 DEF NodeOnce
<1>5. OnePuts'
  BY <1>3 DEF OnceInv, OnePuts
<1> QED
  BY <1>3, <1>4, <1>5 DEF OnceInv, OthersKept

\* The next element that a foreach over predecessors waits for.
LEMMA RemainingFacts ==
  ASSUME NEW n \in Nodes, NEW todo \in Seq(Nodes), todo = proc[n].todo,
         proc[n].at = "predecessors", NEW rest, rest = Remaining(n)
  PROVE  rest \in Seq(Nodes)
         /\ \A p \in ToSet(todo) : m_state[p] = DONE \/ p \in ToSet(rest)
<1> DEFINE I == {i \in 1..Len(todo) : m_state[todo[i]] # DONE}
<1>1. SelectInSeq(todo, LAMBDA m : ~Satisfied("predecessors", m)) =
        IF I = {} THEN 0 ELSE Min(I)
  BY DEF SelectInSeq, Satisfied
<1>2. CASE I = {}
  <2>1. rest = <<>>
    BY <1>1, <1>2 DEF Remaining
  <2>2. \A p \in ToSet(todo) : m_state[p] = DONE
    BY <1>2 DEF ToSet
  <2> QED
    BY <2>1, <2>2
<1>3. CASE I # {}
  <2>0. I \in SUBSET Nat /\ I # {}
    BY <1>3
  <2>1. PICK k \in I : \A j \in I : k <= j
    BY <2>0, LeastNatural
  <2>2. Min(I) = k
    BY <2>1 DEF Min
  <2>3. rest = SubSeq(todo, k, Len(todo))
    <3>1. PICK b : b = SelectInSeq(todo, LAMBDA m : ~Satisfied("predecessors", m))
      OBVIOUS
    <3>2. b = k /\ b # 0
      BY <1>1, <1>3, <2>1, <2>2, <3>1
    <3>3. rest = IF b = 0 THEN <<>> ELSE SubSeq(todo, b, Len(todo))
      BY <3>1 DEF Remaining
    <3> QED
      BY <3>2, <3>3
  <2>4. ASSUME NEW p \in ToSet(todo), m_state[p] # DONE
        PROVE  p \in ToSet(rest)
    <3>1. PICK j \in 1..Len(todo) : p = todo[j]
      BY DEF ToSet
    <3>2. j \in I /\ k \in 1..Len(todo) /\ k <= j
      BY <2>1, <2>4, <3>1
    <3>3. j - k + 1 \in 1..Len(rest) /\ rest[j - k + 1] = todo[j]
      BY <2>3, <3>2
    <3>4. DOMAIN rest = 1..Len(rest)
      BY <2>3, <3>2
    <3> QED
      BY <3>1, <3>3, <3>4 DEF ToSet
  <2> QED
    BY <2>1, <2>3, <2>4
<1> QED
  BY <1>2, <1>3

\* What a step of n that leaves other processes alone has to show.
Fits(n, p, s) ==
  /\ Stage(p.at, s) /\ p.at # "put" /\ (s # DORMANT \/ s = m_state[n])
  /\ m_state[n] = DONE => s = DONE
  /\ p.at = "predecessors" =>
       /\ p.todo \in Seq(Nodes)
       /\ \A x \in ToSet(m_predecessors[n]) : m_state[x] = DONE \/ x \in ToSet(p.todo)
  /\ p.at \notin {"idle", "predecessors"} =>
       \A x \in ToSet(m_predecessors[n]) : m_state[x] = DONE

LEMMA GoOnce ==
  ASSUME TypeInv, OnceInv, NEW n \in Nodes, proc[n].at # "idle", NEW p, Go(n, p),
         NEW s, m_state' = [m_state EXCEPT ![n] = s], Fits(n, p, s),
         NEW t, m_phase_proc' = [m_phase_proc EXCEPT ![n] = t],
         t \in {"none", "alive"}, t = "alive" => p.at \in WithTasks,
         UNCHANGED <<jumpVars, m_phase_hopper, overlap>>
  PROVE  OnceInv'
<1>1. proc'[n] = p /\ \A m \in Nodes : m # n => proc'[m] = proc[m]
  BY GoFacts DEF TypeInv
<1>2. m_phase_proc'[n] = t /\ m_phase_proc' \in [Nodes -> {"none", "alive"}]
  BY DEF OnceInv
<1>3. OthersKept(n)
  BY <1>1, <1>2 DEF OthersKept, WokenTo, TypeInv, OnceInv, jumpVars
<1> QED
  BY <1>1, <1>2, <1>3, MoveOK DEF Fits

\* The same, for a step that does not touch tasks or the state.
LEMMA GoOnceOnly ==
  ASSUME TypeInv, OnceInv, NEW n \in Nodes, proc[n].at # "idle", NEW p, Go(n, p),
         Fits(n, p, m_state[n]), p.at \in WithTasks \/ proc[n].at \notin WithTasks,
         UNCHANGED <<m_state, m_phase_proc, jumpVars, m_phase_hopper, overlap>>
  PROVE  OnceInv'
<1>1. PICK s, t : s = m_state[n] /\ t = m_phase_proc[n]
  OBVIOUS
<1>2. /\ m_state' = [m_state EXCEPT ![n] = s]
      /\ m_phase_proc' = [m_phase_proc EXCEPT ![n] = t]
  BY <1>1 DEF TypeInv, OnceInv
<1>3. t \in {"none", "alive"} /\ (t = "alive" => p.at \in WithTasks)
  BY <1>1 DEF OnceInv, NodeOnce
<1> QED
  BY <1>1, <1>2, <1>3, GoOnce

\* A step that changes the state of n, but not its tasks.
LEMMA GoOnceState ==
  ASSUME TypeInv, OnceInv, NEW n \in Nodes, proc[n].at # "idle", NEW p, Go(n, p),
         NEW s, m_state' = [m_state EXCEPT ![n] = s], Fits(n, p, s),
         p.at \in WithTasks \/ proc[n].at \notin WithTasks,
         UNCHANGED <<m_phase_proc, jumpVars, m_phase_hopper, overlap>>
  PROVE  OnceInv'
<1>1. PICK t : t = m_phase_proc[n]
  OBVIOUS
<1>2. m_phase_proc' = [m_phase_proc EXCEPT ![n] = t]
  BY <1>1 DEF OnceInv
<1>3. t \in {"none", "alive"} /\ (t = "alive" => p.at \in WithTasks)
  BY <1>1 DEF OnceInv, NodeOnce
<1> QED
  BY <1>2, <1>3, GoOnce

LEMMA PredecessorsOnce ==
  ASSUME TypeInv, OnceInv, NEW n \in Nodes, await_predecessors(n)
  PROVE  OnceInv'
<1>1. /\ proc[n].at = "predecessors" /\ m_state[n] \in {DORMANT, SCHEDULED}
      /\ proc[n].todo \in Seq(Nodes)
      /\ \A p \in ToSet(m_predecessors[n]) : m_state[p] = DONE \/ p \in ToSet(proc[n].todo)
  BY DEF await_predecessors, Waits, Passes, Ready, OnceInv, NodeOnce, Stage, Fork
<1>2. PICK todo, rest : todo = proc[n].todo /\ rest = Remaining(n)
  OBVIOUS
<1>3. /\ rest \in Seq(Nodes)
      /\ \A p \in ToSet(m_predecessors[n]) : m_state[p] = DONE \/ p \in ToSet(rest)
  BY <1>1, <1>2, RemainingFacts
<1>4. CASE Waits(n, "predecessors")
  <2>1. PICK p : p = Over("predecessors", rest)
    OBVIOUS
  <2>2. p.at = "predecessors" /\ p.todo = rest
    BY <2>1, ProcFacts
  <2>3. /\ Go(n, p)
        /\ UNCHANGED <<m_state, m_phase_proc, jumpVars, m_phase_hopper, overlap>>
    BY <1>2, <1>4, <2>1 DEF Waits, taskVars, runVars
  <2>4. Fits(n, p, m_state[n])
    BY <1>1, <1>3, <2>2, StateNumbers DEF Fits, Stage
  <2> QED
    BY <1>1, <2>2, <2>3, <2>4, GoOnceOnly DEF WithTasks, Fork
<1>5. CASE ~Waits(n, "predecessors")
  <2>1. rest = <<>> /\ m_state[n] # DONE
    BY <1>1, <1>2, <1>5, StateNumbers DEF await_predecessors, Passes
  <2>2. ToSet(rest) = {}
    BY <2>1 DEF ToSet
  <2>3. PICK r, p : r = Later("sync") /\ p = [r EXCEPT !.todo = m_sync[n]]
    OBVIOUS
  <2>4. IsProc(r) /\ r.at = "sync"
    BY <2>3, ProcFacts
  <2>5. p = [at |-> r.at, delay |-> r.delay, todo |-> m_sync[n], again |-> r.again]
    BY <2>3, <2>4 DEF IsProc
  <2>6. p.at = "sync"
    BY <2>4, <2>5
  <2>7. /\ Go(n, p) /\ m_state' = [m_state EXCEPT ![n] = SYNCING]
        /\ UNCHANGED <<m_phase_proc, jumpVars, m_phase_hopper, overlap>>
    BY <1>5, <2>1, <2>3 DEF await_predecessors, taskVars, runVars
  <2>8. Fits(n, p, SYNCING)
    BY <1>3, <2>1, <2>2, <2>6, StateNumbers DEF Fits, Stage
  <2> QED
    BY <1>1, <2>6, <2>7, <2>8, GoOnceState DEF WithTasks, Fork
<1> QED
  BY <1>4, <1>5

\* Past its predecessors, a phase finds them done.
LEMMA PastPredecessors ==
  ASSUME OnceInv, NEW n \in Nodes, proc[n].at \notin {"idle", "predecessors"}
  PROVE  Stage(proc[n].at, m_state[n]) /\ \A p \in ToSet(m_predecessors[n]) : m_state[p] = DONE
BY DEF OnceInv, NodeOnce

LEMMA WaitsOnce ==
  ASSUME TypeInv, OnceInv, NEW n \in Nodes, NEW at, at \in {"sync", "wait_for_pred"}, Waits(n, at)
  PROVE  OnceInv'
<1>1. PICK p : p = Over(at, Remaining(n))
  OBVIOUS
<1>2. p.at = at
  BY <1>1, ProcFacts
<1>3. /\ proc[n].at = at /\ Go(n, p)
      /\ UNCHANGED <<m_state, m_phase_proc, jumpVars, m_phase_hopper, overlap>>
  BY <1>1 DEF Waits, Ready, taskVars, runVars
<1>4. Fits(n, p, m_state[n])
  BY <1>2, <1>3, PastPredecessors, StateNumbers DEF Fits
<1> QED
  BY <1>2, <1>3, <1>4, GoOnceOnly DEF WithTasks, Fork

LEMMA SyncOnce ==
  ASSUME TypeInv, OnceInv, NEW n \in Nodes, await_sync(n)
  PROVE  OnceInv'
<1>1. CASE Waits(n, "sync")
  BY <1>1, WaitsOnce
<1>2. CASE ~Waits(n, "sync")
  <2>1. PICK p : p = Later("started")
    OBVIOUS
  <2>2. p.at = "started"
    BY <2>1, ProcFacts
  <2>3. /\ proc[n].at = "sync" /\ Go(n, p) /\ m_state' = [m_state EXCEPT ![n] = STARTED]
        /\ UNCHANGED <<m_phase_proc, jumpVars, m_phase_hopper, overlap>>
    BY <1>2, <2>1 DEF await_sync, Passes, Ready, runVars
  <2>4. Fits(n, p, STARTED)
    BY <2>2, <2>3, PastPredecessors, StateNumbers DEF Fits, Stage, Fork
  <2> QED
    BY <2>2, <2>3, <2>4, GoOnceState DEF WithTasks, Fork
<1> QED
  BY <1>1, <1>2

LEMMA ExecuteOnce ==
  ASSUME TypeInv, OnceInv, NEW n \in Nodes, execute(n)
  PROVE  OnceInv'
<1>1. /\ proc[n].at = "started" /\ m_state' = [m_state EXCEPT ![n] = EXECUTING]
      /\ UNCHANGED <<jumpVars, m_phase_hopper, overlap>>
  BY DEF execute, Ready, runVars
<1>2. PICK p : /\ Go(n, p)
               /\ \/ p.at \in {"finish", "function"} /\ UNCHANGED m_phase_proc
                  \/ p.at = "check" /\ m_phase_proc' = [m_phase_proc EXCEPT ![n] = "alive"]
  BY ProcFacts DEF execute
<1>3. Fits(n, p, EXECUTING)
  BY <1>1, <1>2, PastPredecessors, StateNumbers DEF Fits, Stage, Fork
<1>4. CASE UNCHANGED m_phase_proc
  <2>1. p.at \in WithTasks \/ proc[n].at \notin WithTasks
    BY <1>1 DEF WithTasks, Fork
  <2> QED
    BY <1>1, <1>2, <1>3, <1>4, <2>1, GoOnceState
<1>5. CASE m_phase_proc' = [m_phase_proc EXCEPT ![n] = "alive"] /\ p.at = "check"
  <2>1. PICK t : t = "alive"
    OBVIOUS
  <2> QED
    BY <1>1, <1>2, <1>3, <1>5, <2>1, GoOnce DEF WithTasks, Fork
<1> QED
  BY <1>2, <1>4, <1>5

LEMMA FunctionOnce ==
  ASSUME TypeInv, OnceInv, NEW n \in Nodes, function_phase(n) \/ m_wait_for_pred(n)
  PROVE  OnceInv'
<1>1. CASE Waits(n, "wait_for_pred")
  BY <1>1, WaitsOnce
<1>2. CASE ~Waits(n, "wait_for_pred")
  <2>1. /\ proc[n].at \in {"function", "wait_for_pred"}
        /\ UNCHANGED <<m_state, m_phase_proc, jumpVars, m_phase_hopper, overlap>>
    BY <1>2 DEF function_phase, m_wait_for_pred, Passes, Ready, taskVars, runVars
  <2>2. PICK p : Go(n, p) /\ p.at \in {"ended", "wait_for_pred"}
    BY <1>2, ProcFacts DEF function_phase, m_wait_for_pred
  <2>3. Fits(n, p, m_state[n])
    BY <2>1, <2>2, PastPredecessors, StateNumbers DEF Fits, Stage, Fork
  <2> QED
    BY <2>1, <2>2, <2>3, GoOnceOnly DEF WithTasks, Fork
<1> QED
  BY <1>1, <1>2

LEMMA CheckOnce ==
  ASSUME TypeInv, OnceInv, NEW n \in Nodes, check_objection(n)
  PROVE  OnceInv'
<1>1. /\ proc[n].at = "check"
      /\ UNCHANGED <<m_state, m_phase_proc, jumpVars, m_phase_hopper, overlap>>
  BY DEF check_objection, Ready, taskVars, runVars
<1>2. PICK p : Go(n, p) /\ p.at \in {"all_dropped", "drop_check"}
  BY ProcFacts DEF check_objection
<1>3. Fits(n, p, m_state[n])
  BY <1>1, <1>2, PastPredecessors, StateNumbers DEF Fits, Stage, Fork
<1> QED
  BY <1>1, <1>2, <1>3, GoOnceOnly DEF WithTasks, Fork

\* The loop over siblings goes on, waits or ends.
LEMMA SweepPlaces ==
  ASSUME NEW n \in Nodes, NEW p,
         p = IF proc[n].at = "siblings" THEN CheckRest(n) ELSE CheckAll(n)
  PROVE  p.at \in {"self_drop", "siblings", "sibling_drop", "ready_to_end", "exit"}
<1>1. PICK d : d = Dropped(n)
  OBVIOUS
<1>2. d.at \in {"ready_to_end", "exit"}
  BY <1>1, DroppedShape
<1>3. PICK all : all = CheckAll(n)
  OBVIOUS
<1>4. all.at \in {"self_drop", "siblings", "sibling_drop", "ready_to_end", "exit"}
  <2>1. PICK self, list, no : self = At("self_drop") /\ list = Siblings[n] /\ no = FALSE
    OBVIOUS
  <2>2. all = self \/ all = Sweep(list, no, d)
    BY <1>1, <1>3, <2>1 DEF CheckAll
  <2>3. CASE all = self
    BY <2>1, <2>3, ProcFacts
  <2>4. CASE all = Sweep(list, no, d)
    BY <1>2, <2>4, SweepShape
  <2> QED
    BY <2>2, <2>3, <2>4
<1>5. CASE proc[n].at = "siblings"
  <2>1. PICK list, again, passed : /\ list = proc[n].todo /\ again = proc[n].again
                                   /\ passed = IF again THEN all ELSE d
    OBVIOUS
  <2>2. p = Sweep(list, again, passed)
    BY <1>1, <1>3, <1>5, <2>1 DEF CheckRest
  <2>3. passed = all \/ passed = d
    BY <2>1
  <2> QED
    BY <1>2, <1>4, <2>2, <2>3, SweepShape
<1> QED
  BY <1>3, <1>4, <1>5

LEMMA DropOnce ==
  ASSUME TypeInv, OnceInv, NEW n \in Nodes, wait_for_self_and_siblings_to_drop(n)
  PROVE  OnceInv'
<1>1. PICK p : p = IF proc[n].at = "siblings" THEN CheckRest(n) ELSE CheckAll(n)
  OBVIOUS
<1>2. /\ proc[n].at \in {"drop_check", "recheck", "siblings"} /\ Go(n, p)
      /\ IF p.at \in {"self_drop", "sibling_drop"}
         THEN m_state' = [m_state EXCEPT ![n] = EXECUTING] ELSE UNCHANGED m_state
      /\ UNCHANGED <<m_phase_proc, jumpVars, m_phase_hopper, overlap>>
  BY <1>1 DEF wait_for_self_and_siblings_to_drop, Ready, taskVars, runVars
<1>3. p.at \in {"self_drop", "siblings", "sibling_drop", "ready_to_end", "exit"}
  BY <1>1, SweepPlaces
<1>4. PICK s : s = IF p.at \in {"self_drop", "sibling_drop"} THEN EXECUTING ELSE m_state[n]
  OBVIOUS
<1>5. m_state' = [m_state EXCEPT ![n] = s]
  BY <1>2, <1>4 DEF TypeInv
<1>6. m_state[n] \in {EXECUTING, READY_TO_END} /\ s \in {EXECUTING, READY_TO_END}
  BY <1>2, <1>4, PastPredecessors DEF Stage, Fork
<1>7. Fits(n, p, s)
  BY <1>2, <1>3, <1>6, PastPredecessors, StateNumbers DEF Fits, Stage, Fork
<1> QED
  BY <1>2, <1>3, <1>5, <1>7, GoOnceState DEF WithTasks, Fork

LEMMA ReadyToEndOnce ==
  ASSUME TypeInv, OnceInv, NEW n \in Nodes, ready_to_end(n)
  PROVE  OnceInv'
<1>1. /\ proc[n].at = "ready_to_end" /\ m_state' = [m_state EXCEPT ![n] = READY_TO_END]
      /\ UNCHANGED <<m_phase_proc, jumpVars, m_phase_hopper, overlap>>
  BY DEF ready_to_end, Ready, runVars
<1>2. PICK p : Go(n, p) /\ p.at = "recheck"
  BY ProcFacts DEF ready_to_end
<1>3. Fits(n, p, READY_TO_END)
  BY <1>1, <1>2, PastPredecessors, StateNumbers DEF Fits, Stage, Fork
<1> QED
  BY <1>1, <1>2, <1>3, GoOnceState DEF WithTasks, Fork

LEMMA ExitOnce ==
  ASSUME TypeInv, OnceInv, NEW n \in Nodes, exit_fork(n)
  PROVE  OnceInv'
<1>1. ~m_premature_end[n]
  BY DEF OnceInv
<1>2. /\ proc[n].at = "exit" /\ m_state' = [m_state EXCEPT ![n] = ENDED]
      /\ UNCHANGED <<m_phase_proc, jumpVars, m_phase_hopper, overlap>>
  BY <1>1 DEF exit_fork, Ready, taskVars, runVars
<1>3. PICK p : Go(n, p) /\ p.at = "cleanup"
  BY <1>1, ProcFacts DEF exit_fork
<1>4. Fits(n, p, ENDED)
  BY <1>2, <1>3, PastPredecessors, StateNumbers DEF Fits, Stage, Fork
<1> QED
  BY <1>2, <1>3, <1>4, GoOnceState DEF WithTasks, Fork

LEMMA EndedOnce ==
  ASSUME TypeInv, OnceInv, NEW n \in Nodes, ended(n)
  PROVE  OnceInv'
<1>1. /\ proc[n].at = "ended" /\ m_state' = [m_state EXCEPT ![n] = ENDED]
      /\ UNCHANGED <<m_phase_proc, jumpVars, m_phase_hopper, overlap>>
  BY DEF ended, Ready, taskVars, runVars
<1>2. PICK p : Go(n, p) /\ p.at = "cleanup"
  BY ProcFacts DEF ended
<1>3. Fits(n, p, ENDED)
  BY <1>1, <1>2, PastPredecessors, StateNumbers DEF Fits, Stage, Fork
<1> QED
  BY <1>1, <1>2, <1>3, GoOnceState DEF WithTasks, Fork

LEMMA CleanupOnce ==
  ASSUME TypeInv, OnceInv, NEW n \in Nodes, cleanup(n)
  PROVE  OnceInv'
<1>1. ~m_premature_end[n]
  BY DEF OnceInv
<1>2. /\ proc[n].at = "cleanup" /\ m_state' = [m_state EXCEPT ![n] = CLEANUP]
      /\ UNCHANGED <<jumpVars, m_phase_hopper, overlap>>
  BY <1>1 DEF cleanup, Ready, runVars
<1>3. PICK t : t = IF m_phase_proc[n] = "alive" THEN "none" ELSE m_phase_proc[n]
  OBVIOUS
<1>4. m_phase_proc' = [m_phase_proc EXCEPT ![n] = t] /\ t = "none"
  <2>1. m_phase_proc' = [m_phase_proc EXCEPT ![n] = t]
    BY <1>3 DEF cleanup
  <2>2. m_phase_proc[n] \in {"none", "alive"}
    BY DEF OnceInv
  <2> QED
    BY <1>3, <2>1, <2>2
<1>5. PICK p : Go(n, p) /\ p.at = "finish"
  BY ProcFacts DEF cleanup
<1>6. Fits(n, p, CLEANUP)
  BY <1>2, <1>5, PastPredecessors, StateNumbers DEF Fits, Stage, Fork
<1>7. proc[n].at # "idle" /\ t \in {"none", "alive"} /\ t # "alive"
  BY <1>2, <1>4
<1>8. PICK s : s = CLEANUP
  OBVIOUS
<1> QED
  BY <1>2, <1>4, <1>5, <1>6, <1>7, <1>8, GoOnce

LEMMA SettleOnce ==
  ASSUME TypeInv, OnceInv, NEW n \in Nodes, settle(n)
  PROVE  OnceInv'
<1>1. /\ proc[n].at = "settle"
      /\ UNCHANGED <<m_state, m_phase_proc, jumpVars, m_phase_hopper, overlap>>
  BY DEF settle, Ready, taskVars, runVars
<1>2. PICK p : Go(n, p) /\ p.at = "schedule"
  BY ProcFacts DEF settle
<1>3. Fits(n, p, m_state[n])
  BY <1>1, <1>2, PastPredecessors, StateNumbers DEF Fits, Stage, Fork
<1> QED
  BY <1>1, <1>2, <1>3, GoOnceOnly DEF WithTasks, Fork

LEMMA FinishOnce ==
  ASSUME PhaseInv, OnceInv, NEW n \in Nodes, finish(n)
  PROVE  OnceInv'
<1>1. ~Jumps(n)
  BY DEF OnceInv, Jumps, NoJump
<1>2. /\ proc[n].at = "finish" /\ ClearNodes({n}, [proc EXCEPT ![n] = Later("settle")])
      /\ m_state' = [m_state EXCEPT ![n] = DONE]
      /\ m_premature_end' = [m_premature_end EXCEPT ![n] = FALSE]
      /\ UNCHANGED <<m_phase_proc, m_jump, m_phase_hopper, overlap>>
  BY <1>1 DEF finish, Ready, runVars
<1>3. PICK p, N : p = Later("settle") /\ N = {n}
  OBVIOUS
<1>4. IsProc(p) /\ p.at = "settle"
  BY <1>3, ProcFacts
<1>5. ClearNodes(N, [proc EXCEPT ![n] = p])
  BY <1>2, <1>3
<1>6. proc'[n].at = "settle" /\ \A m \in Nodes : m # n => WokenTo(proc[m], proc'[m])
  BY <1>4, <1>5, ClearsOK DEF Quiet
<1>7. OthersKept(n)
  BY <1>2, <1>6 DEF OthersKept, OnceInv, PhaseInv, TypeInv
<1>8. PICK s : s = DONE
  OBVIOUS
<1>9. /\ Stage(proc'[n].at, s) /\ s # DORMANT /\ proc[n].at # "idle"
      /\ \A x \in ToSet(m_predecessors[n]) : m_state[x] = DONE
  BY <1>2, <1>6, <1>8, PastPredecessors, StateNumbers DEF Stage
<1>10. m_phase_proc'[n] # "alive"
  BY <1>2 DEF OnceInv, NodeOnce, WithTasks, Fork
<1> QED
  BY <1>2, <1>6, <1>7, <1>8, <1>9, <1>10, MoveOK DEF PhaseInv

\* The loop over successors stops at one that is DORMANT, or has none left.
Stops(p, N, list) ==
  \/ p.at = "idle" /\ N = {}
  \/ /\ p.at = "put" /\ p.todo \in Seq(Nodes) /\ p.todo # <<>>
     /\ ToSet(p.todo) \subseteq ToSet(list) /\ N = {Head(p.todo)}
     /\ m_state[Head(p.todo)] < SCHEDULED

LEMMA ScheduleFromStops ==
  ASSUME NEW n, NEW list \in Seq(Nodes), NEW next, next = ScheduleFrom(n, list)
  PROVE  Stops(next[1], next[2], list)
<1> DEFINE I == {i \in 1..Len(list) : m_state[list[i]] < SCHEDULED}
<1>1. SelectInSeq(list, LAMBDA m : m_state[m] < SCHEDULED) = IF I = {} THEN 0 ELSE Min(I)
  BY DEF SelectInSeq
<1>2. CASE I = {}
  <2>1. PICK p : p = At("idle")
    OBVIOUS
  <2>2. next = <<p, {}>>
    BY <1>1, <1>2, <2>1 DEF ScheduleFrom
  <2> QED
    BY <2>1, <2>2, ProcFacts DEF Stops
<1>3. CASE I # {}
  <2>1. I \in SUBSET Nat /\ I # {}
    BY <1>3
  <2>2. PICK k \in I : \A j \in I : k <= j
    BY <2>1, LeastNatural
  <2>3. PICK b : b = SelectInSeq(list, LAMBDA m : m_state[m] < SCHEDULED)
    OBVIOUS
  <2>4. Min(I) = k
    BY <2>2 DEF Min
  <2>5. b = k /\ b # 0 /\ k \in 1..Len(list) /\ m_state[list[k]] < SCHEDULED
    BY <1>1, <1>3, <2>2, <2>3, <2>4
  <2>6. PICK r, left, q : /\ r = Later("put") /\ left = SubSeq(list, b, Len(list))
                          /\ q = [r EXCEPT !.todo = left]
    OBVIOUS
  <2>7. next = <<q, {list[b]}>>
    BY <2>3, <2>5, <2>6 DEF ScheduleFrom
  <2>8. IsProc(r) /\ r.at = "put"
    BY <2>6, ProcFacts
  <2>9. q = [at |-> r.at, delay |-> r.delay, todo |-> left, again |-> r.again]
    BY <2>6, <2>8 DEF IsProc
  <2>10. q.at = "put" /\ q.todo = left
    BY <2>8, <2>9
  <2>11. /\ left \in Seq(Nodes) /\ Len(left) = Len(list) - k + 1 /\ left # <<>>
         /\ \A i \in 1..Len(left) : left[i] = list[k + i - 1]
    BY <2>5, <2>6
  <2>12. Head(left) = list[k]
    BY <2>5, <2>11
  <2>13. ToSet(left) \subseteq ToSet(list)
    <3>1. DOMAIN left = 1..Len(left) /\ DOMAIN list = 1..Len(list)
      BY <2>11
    <3>2. \A i \in 1..Len(left) : k + i - 1 \in 1..Len(list)
      BY <2>5, <2>11
    <3> QED
      BY <2>11, <3>1, <3>2 DEF ToSet
  <2>14. next[1] = q /\ next[2] = {list[b]}
    BY <2>7
  <2> QED
    BY <2>5, <2>10, <2>11, <2>12, <2>13, <2>14 DEF Stops
<1> QED
  BY <1>2, <1>3

\* The steps of the loop over successors: what n has marked goes into the
\* hopper, the next one is marked.
LEMMA MarkOnce ==
  ASSUME TypeInv, OnceInv, NEW n \in Nodes, proc[n].at \in {"schedule", "put"},
         NEW list \in Seq(Nodes), ToSet(list) \subseteq ToSet(m_successors[n]),
         NEW N, Stops(proc'[n], N, list), m_state' = Marked(N),
         OthersKept(n), m_phase_proc'[n] = m_phase_proc[n],
         m_phase_hopper' \in Seq(Nodes), IsInjective(m_phase_hopper'),
         \A x \in ToSet(m_phase_hopper') :
           x \in Hopper \/ (proc[n].at = "put" /\ x = Head(proc[n].todo))
  PROVE  OnceInv'
<1>1. /\ Stage(proc[n].at, m_state[n]) /\ m_state[n] = DONE
      /\ \A p \in ToSet(m_predecessors[n]) : m_state[p] = DONE
  BY PastPredecessors DEF Stage, Fork
<1>2. proc'[n].at \in {"idle", "put"} /\ m_phase_proc'[n] # "alive"
  BY DEF Stops, OnceInv, NodeOnce, WithTasks, Fork
<1>3. \A h \in N : /\ h \in Nodes /\ m_state[h] = DORMANT /\ m_predecessors[h] # <<>>
                   /\ proc[h].at = "idle" /\ h \notin Hopper
  <2> SUFFICES ASSUME NEW h \in N
               PROVE  /\ h \in Nodes /\ m_state[h] = DORMANT /\ m_predecessors[h] # <<>>
                      /\ proc[h].at = "idle" /\ h \notin Hopper
    OBVIOUS
  <2>1. /\ proc'[n].todo \in Seq(Nodes) /\ proc'[n].todo # <<>> /\ h = Head(proc'[n].todo)
        /\ ToSet(proc'[n].todo) \subseteq ToSet(list) /\ m_state[h] < SCHEDULED
    BY DEF Stops
  <2>2. PICK todo : todo = proc'[n].todo
    OBVIOUS
  <2>3. h \in Nodes /\ h \in ToSet(todo)
    <3>1. todo \in Seq(Nodes) /\ todo # <<>> /\ h = Head(todo)
      BY <2>1, <2>2
    <3>2. h = todo[1] /\ 1 \in DOMAIN todo
      BY <3>1
    <3> QED
      BY <3>1, <3>2 DEF ToSet
  <2>4. n \in ToSet(m_predecessors[h])
    BY <2>1, <2>2, <2>3, EdgeAssumption
  <2>5. m_predecessors[h] # <<>>
    BY <2>4 DEF ToSet
  <2>6. NodeOnce(h)
    BY <2>3 DEF OnceInv
  <2>7. m_state[h] = DORMANT
    BY <2>1, <2>3, <2>6, StateNumbers, SMTT(40) DEF NodeOnce, Stage, TypeInv
  <2> QED
    BY <2>3, <2>5, <2>6, <2>7 DEF NodeOnce
<1>4. /\ \A m \in Nodes : m_state'[m] = IF m \in N THEN SCHEDULED ELSE m_state[m]
      /\ \A m \in Nodes : m_state[m] = DONE => m_state'[m] = DONE
      /\ \A m \in Nodes : m_state[m] = SCHEDULED => m_state'[m] = SCHEDULED
      /\ \A m \in Nodes : m_state'[m] = DORMANT => m_state[m] = DORMANT
  BY <1>3, StateNumbers DEF Marked
<1>5. \A m \in Nodes : proc[m].at = "idle" => proc'[m].at = "idle" /\ m # n
  BY DEF OthersKept, WokenTo
<1>6. ASSUME NEW m \in Nodes, m # n
      PROVE  /\ \/ proc'[m].at = proc[m].at /\ proc'[m].todo = proc[m].todo
                \/ proc[m].at \in Fork /\ proc'[m].at \in Fork
             /\ NodeOnce(m) /\ m_phase_proc'[m] = m_phase_proc[m]
  BY <1>6 DEF OthersKept, WokenTo, Fork, OnceInv
\* Nobody else has marked what goes into the hopper.
<1>7. \A x \in ToSet(m_phase_hopper') :
        /\ x \in Nodes /\ proc'[x].at = "idle" /\ m_state[x] \in {DORMANT, SCHEDULED}
        /\ m_state[x] = DORMANT => m_predecessors[x] = <<>>
        /\ x \notin N
        /\ \A m \in Nodes : m # n /\ proc[m].at = "put" => Head(proc[m].todo) # x
  <2> SUFFICES ASSUME NEW x \in ToSet(m_phase_hopper')
               PROVE  /\ x \in Nodes /\ proc'[x].at = "idle"
                      /\ m_state[x] \in {DORMANT, SCHEDULED}
                      /\ m_state[x] = DORMANT => m_predecessors[x] = <<>>
                      /\ x \notin N
                      /\ \A m \in Nodes : m # n /\ proc[m].at = "put" =>
                           Head(proc[m].todo) # x
    OBVIOUS
  <2>1. x \in Nodes
    BY DEF ToSet
  <2>2. NodeOnce(x)
    BY <2>1 DEF OnceInv
  <2>3. CASE x \in Hopper
    <3>1. /\ proc[x].at = "idle" /\ m_state[x] \in {DORMANT, SCHEDULED}
          /\ m_state[x] = DORMANT => m_predecessors[x] = <<>>
      BY <2>2, <2>3 DEF NodeOnce
    <3>2. x \notin N
      BY <1>3, <2>3
    <3>3. \A m \in Nodes : proc[m].at = "put" => Head(proc[m].todo) # x
      BY <2>3 DEF OnceInv, NodeOnce, Puts
    <3> QED
      BY <1>5, <2>1, <3>1, <3>2, <3>3
  <2>4. CASE x \notin Hopper
    <3>1. proc[n].at = "put" /\ x = Head(proc[n].todo)
      BY <2>4
    <3>2. m_state[x] = SCHEDULED /\ proc[x].at = "idle"
      BY <3>1 DEF OnceInv, NodeOnce, Puts
    <3>3. x \notin N
      BY <1>3, <3>2, StateNumbers
    <3>4. \A m \in Nodes : m # n /\ proc[m].at = "put" => Head(proc[m].todo) # x
      BY <3>1 DEF OnceInv, OnePuts
    <3> QED
      BY <1>5, <2>1, <3>2, <3>3, <3>4, StateNumbers
  <2> QED
    BY <2>3, <2>4
<1>8. ASSUME NEW m \in Nodes, m # n PROVE NodeOnce(m)'
  <2>1. ToSet(m_predecessors[m]) \subseteq Nodes
    BY GraphFacts
  <2>2. m \in N => proc[m].at = "idle" /\ proc'[m].at = "idle" /\ m_state'[m] = SCHEDULED
    BY <1>3, <1>4, <1>5
  <2>3. Stage(proc'[m].at, m_state'[m])
    <3>1. CASE m \in N
      BY <2>2, <3>1 DEF Stage
    <3>2. CASE m \notin N
      <4>1. m_state'[m] = m_state[m] /\ Stage(proc[m].at, m_state[m])
        BY <1>4, <1>6, <1>8, <3>2 DEF NodeOnce
      <4> QED
        BY <1>6, <1>8, <4>1 DEF Stage, Fork
    <3> QED
      BY <3>1, <3>2
  <2>4. m_phase_proc'[m] = "alive" => proc'[m].at \in WithTasks
    BY <1>6, <1>8 DEF NodeOnce, WithTasks
  <2>5. proc'[m].at = "predecessors" =>
          /\ proc'[m].todo \in Seq(Nodes)
          /\ \A p \in ToSet(m_predecessors[m]) : m_state'[p] = DONE \/ p \in ToSet(proc'[m].todo)
    BY <1>4, <1>6, <1>8, <2>1 DEF NodeOnce, Fork
  <2>6. proc'[m].at \notin {"idle", "predecessors"} =>
          \A p \in ToSet(m_predecessors[m]) : m_state'[p] = DONE
    BY <1>4, <1>6, <1>8, <2>1 DEF NodeOnce, Fork
  <2>7. ASSUME proc'[m].at = "put" PROVE Puts(m)'
    <3>1. Puts(m) /\ proc[m].at = "put" /\ proc'[m].todo = proc[m].todo
      BY <1>6, <1>8, <2>7 DEF NodeOnce, Fork
    <3>2. PICK h : h = Head(proc[m].todo)
      OBVIOUS
    <3>3. h \in Nodes /\ proc[h].at = "idle" /\ m_state[h] = SCHEDULED
      BY <3>1, <3>2 DEF Puts
    <3>4. proc'[h].at = "idle" /\ m_state'[h] = SCHEDULED
      BY <1>4, <1>5, <3>3
    <3>5. h \notin ToSet(m_phase_hopper')
      BY <1>7, <1>8, <3>1, <3>2
    <3> QED
      BY <3>1, <3>2, <3>4, <3>5 DEF Puts, Hopper
  <2>8. m_state'[m] = DORMANT /\ m_predecessors[m] # <<>> => proc'[m].at = "idle"
    BY <1>4, <1>5, <1>6, <1>8 DEF NodeOnce
  <2>9. m \in Hopper' => /\ proc'[m].at = "idle" /\ m_state'[m] \in {DORMANT, SCHEDULED}
                         /\ m_state'[m] = DORMANT => m_predecessors[m] = <<>>
    BY <1>4, <1>7 DEF Hopper
  <2> QED
    BY <2>3, <2>4, <2>5, <2>6, <2>7, <2>8, <2>9 DEF NodeOnce
<1>9. NodeOnce(n)'
  <2>1. ToSet(m_predecessors[n]) \subseteq Nodes /\ m_state'[n] = DONE
    BY <1>1, <1>4, GraphFacts
  <2>2. Stage(proc'[n].at, m_state'[n])
    BY <1>2, <2>1 DEF Stage
  <2>3. \A p \in ToSet(m_predecessors[n]) : m_state'[p] = DONE
    BY <1>1, <1>4, <2>1
  <2>4. n \notin Hopper'
    BY <1>1, <1>7, StateNumbers DEF Hopper
  <2>5. ASSUME proc'[n].at = "put" PROVE Puts(n)'
    <3>1. /\ proc'[n].todo \in Seq(Nodes) /\ proc'[n].todo # <<>>
          /\ ToSet(proc'[n].todo) \subseteq ToSet(list) /\ N = {Head(proc'[n].todo)}
      BY <2>5 DEF Stops
    <3>2. PICK h : h = Head(proc'[n].todo)
      OBVIOUS
    <3>3. h \in N /\ h \in Nodes /\ proc'[h].at = "idle" /\ m_state'[h] = SCHEDULED
      BY <1>3, <1>4, <1>5, <3>1, <3>2
    <3>4. h \notin ToSet(m_phase_hopper')
      BY <1>7, <3>3
    <3> QED
      BY <3>1, <3>2, <3>3, <3>4 DEF Puts, Hopper
  <2> QED
    BY <1>2, <2>1, <2>2, <2>3, <2>4, <2>5, StateNumbers DEF NodeOnce
<1>10. OnePuts'
  <2>1. ASSUME NEW m \in Nodes, m # n, proc'[m].at = "put", proc'[n].at = "put"
        PROVE  Head(proc'[m].todo) # Head(proc'[n].todo)
    <3>1. proc[m].at = "put" /\ proc'[m].todo = proc[m].todo /\ Puts(m)
      BY <1>6, <2>1 DEF NodeOnce, Fork
    <3>2. m_state[Head(proc[m].todo)] = SCHEDULED
      BY <3>1 DEF Puts
    <3>3. Head(proc'[n].todo) \in N
      BY <2>1 DEF Stops
    <3> QED
      BY <1>3, <3>1, <3>2, <3>3, StateNumbers
  <2>2. ASSUME NEW m \in Nodes, m # n, proc'[m].at = "put"
        PROVE  proc[m].at = "put" /\ proc'[m].todo = proc[m].todo
    BY <1>6, <2>2 DEF Fork
  <2> QED
    BY <2>1, <2>2 DEF OnceInv, OnePuts
<1> QED
  BY <1>8, <1>9, <1>10 DEF OnceInv, OthersKept

LEMMA ScheduleOnce ==
  ASSUME PhaseInv, OnceInv, NEW n \in Nodes, schedule(n)
  PROVE  OnceInv'
<1>1. ~Jumps(n)
  BY DEF OnceInv, Jumps, NoJump
<1>2. PICK list, next : list = m_successors[n] /\ next = ScheduleFrom(n, list)
  OBVIOUS
<1>3. /\ proc[n].at = "schedule" /\ ClearNodes({n}, [proc EXCEPT ![n] = next[1]])
      /\ m_state' = Marked(next[2])
      /\ UNCHANGED <<m_phase_proc, m_premature_end, m_jump, m_phase_hopper, overlap>>
  BY <1>1, <1>2 DEF schedule, Ready
<1>4. list \in Seq(Nodes) /\ ToSet(list) \subseteq ToSet(m_successors[n])
  BY <1>2, GraphFacts
<1>5. Stops(next[1], next[2], list)
  BY <1>2, <1>4, ScheduleFromStops
<1>6. PICK p, N, M : p = next[1] /\ N = next[2] /\ M = {n}
  OBVIOUS
<1>7. IsProc(p) /\ p.at \in Quiet
  BY <1>2, <1>6, ScheduleFromFacts
<1>8. ClearNodes(M, [proc EXCEPT ![n] = p])
  BY <1>3, <1>6
<1>9. WokenTo(p, proc'[n]) /\ \A m \in Nodes : m # n => WokenTo(proc[m], proc'[m])
  BY <1>7, <1>8, ClearsOK
<1>10. Stops(proc'[n], N, list)
  BY <1>5, <1>6, <1>7, <1>9 DEF Stops, WokenTo, Quiet
<1>11. OthersKept(n)
  BY <1>3, <1>9 DEF OthersKept, OnceInv
<1>12. /\ m_phase_hopper' \in Seq(Nodes) /\ IsInjective(m_phase_hopper')
       /\ \A x \in ToSet(m_phase_hopper') : x \in Hopper
  BY <1>3 DEF OnceInv, Hopper
<1> QED
  BY <1>3, <1>4, <1>6, <1>10, <1>11, <1>12, MarkOnce DEF PhaseInv

LEMMA AppendFacts ==
  ASSUME NEW s \in Seq(Nodes), IsInjective(s), NEW x \in Nodes, x \notin ToSet(s),
         NEW t, t = Append(s, x)
  PROVE  /\ t \in Seq(Nodes) /\ IsInjective(t)
         /\ \A y \in ToSet(t) : y \in ToSet(s) \/ y = x
<1>1. /\ t \in Seq(Nodes) /\ DOMAIN t = 1..(Len(s) + 1) /\ DOMAIN s = 1..Len(s)
      /\ \A i \in 1..Len(s) : t[i] = s[i]
      /\ t[Len(s) + 1] = x /\ Len(s) \in Nat
  OBVIOUS
<1>2. \A i \in 1..Len(s) : s[i] # x
  BY <1>1 DEF ToSet
<1>3. IsInjective(t)
  <2> SUFFICES ASSUME NEW i \in DOMAIN t, NEW j \in DOMAIN t, t[i] = t[j]
               PROVE  i = j
    BY DEF IsInjective
  <2>1. CASE i \in 1..Len(s) /\ j \in 1..Len(s)
    BY <1>1, <2>1 DEF IsInjective
  <2>2. CASE ~(i \in 1..Len(s) /\ j \in 1..Len(s))
    BY <1>1, <1>2, <2>2
  <2> QED
    BY <2>1, <2>2
<1>4. \A y \in ToSet(t) : y \in ToSet(s) \/ y = x
  <2> SUFFICES ASSUME NEW i \in DOMAIN t PROVE t[i] \in ToSet(s) \/ t[i] = x
    BY DEF ToSet
  <2>1. CASE i \in 1..Len(s)
    BY <1>1, <2>1 DEF ToSet
  <2>2. CASE i = Len(s) + 1
    BY <1>1, <2>2
  <2> QED
    BY <1>1, <2>1, <2>2
<1> QED
  BY <1>1, <1>3, <1>4

LEMMA TailFacts ==
  ASSUME NEW s \in Seq(Nodes), s # <<>>, IsInjective(s), NEW t, t = Tail(s)
  PROVE  /\ t \in Seq(Nodes) /\ IsInjective(t)
         /\ Head(s) \in ToSet(s) /\ Head(s) \in Nodes
         /\ \A y \in ToSet(t) : y \in ToSet(s) /\ y # Head(s)
<1>1. /\ t \in Seq(Nodes) /\ DOMAIN s = 1..Len(s) /\ Len(s) \in Nat \ {0}
      /\ DOMAIN t = 1..(Len(s) - 1)
      /\ \A i \in 1..(Len(s) - 1) : t[i] = s[i + 1]
      /\ Head(s) = s[1]
  OBVIOUS
<1>2. IsInjective(t)
  <2> SUFFICES ASSUME NEW i \in DOMAIN t, NEW j \in DOMAIN t, t[i] = t[j]
               PROVE  i = j
    BY DEF IsInjective
  <2>1. i + 1 \in DOMAIN s /\ j + 1 \in DOMAIN s /\ s[i + 1] = s[j + 1]
    BY <1>1
  <2>2. i + 1 = j + 1
    BY <2>1 DEF IsInjective
  <2> QED
    BY <1>1, <2>2
<1>3. Head(s) \in ToSet(s) /\ Head(s) \in Nodes
  BY <1>1 DEF ToSet
<1>4. \A y \in ToSet(t) : y \in ToSet(s) /\ y # Head(s)
  <2> SUFFICES ASSUME NEW i \in DOMAIN t PROVE t[i] \in ToSet(s) /\ t[i] # Head(s)
    BY DEF ToSet
  <2>1. i + 1 \in DOMAIN s /\ t[i] = s[i + 1] /\ 1 \in DOMAIN s /\ i + 1 # 1
    BY <1>1
  <2> QED
    BY <1>1, <2>1 DEF ToSet, IsInjective
<1> QED
  BY <1>1, <1>2, <1>3, <1>4

LEMMA PutOnce ==
  ASSUME PhaseInv, OnceInv, NEW n \in Nodes, put(n)
  PROVE  OnceInv'
<1>1. PICK todo, list, next, N : /\ todo = proc[n].todo /\ list = Tail(todo)
                                 /\ next = ScheduleFrom(n, list) /\ N = next[2]
  OBVIOUS
<1>2. /\ proc[n].at = "put" /\ Go(n, next[1]) /\ m_state' = Marked(N)
      /\ m_phase_hopper' = Append(m_phase_hopper, Head(todo))
      /\ UNCHANGED <<m_phase_proc, m_premature_end, m_jump, overlap>>
  BY <1>1 DEF put, Ready, taskVars, jumpVars
<1>3. /\ todo \in Seq(Nodes) /\ todo # <<>> /\ ToSet(todo) \subseteq ToSet(m_successors[n])
      /\ Head(todo) \in Nodes /\ Head(todo) \notin Hopper
  <2>1. Puts(n)
    BY <1>2 DEF OnceInv, NodeOnce
  <2>2. /\ todo \in Seq(Nodes) /\ todo # <<>> /\ Head(todo) \notin Hopper
        /\ ToSet(todo) \subseteq ToSet(m_successors[n])
    BY <1>1, <2>1 DEF Puts
  <2> QED
    BY <2>2
<1>4. list \in Seq(Nodes) /\ ToSet(list) \subseteq ToSet(m_successors[n])
  <2>1. /\ list \in Seq(Nodes) /\ DOMAIN list = 1..Len(list) /\ DOMAIN todo = 1..Len(todo)
        /\ \A i \in 1..Len(list) : i + 1 \in 1..Len(todo) /\ list[i] = todo[i + 1]
    BY <1>1, <1>3
  <2> QED
    BY <1>3, <2>1 DEF ToSet
<1>5. /\ proc'[n] = next[1]
      /\ \A m \in Nodes : m # n => proc'[m] = proc[m]
  BY <1>2, GoFacts DEF PhaseInv, TypeInv
<1>6. Stops(proc'[n], N, list)
  BY <1>1, <1>4, <1>5, ScheduleFromStops
<1>7. OthersKept(n)
  BY <1>2, <1>5 DEF OthersKept, WokenTo, OnceInv, PhaseInv, TypeInv
<1>8. /\ m_phase_hopper' \in Seq(Nodes) /\ IsInjective(m_phase_hopper')
      /\ \A x \in ToSet(m_phase_hopper') : x \in Hopper \/ x = Head(todo)
  <2>1. PICK s, x, t : s = m_phase_hopper /\ x = Head(todo) /\ t = m_phase_hopper'
    OBVIOUS
  <2>2. s \in Seq(Nodes) /\ IsInjective(s) /\ x \in Nodes /\ x \notin ToSet(s) /\ t = Append(s, x)
    BY <1>2, <1>3, <2>1 DEF OnceInv, Hopper
  <2>3. t \in Seq(Nodes) /\ IsInjective(t) /\ \A y \in ToSet(t) : y \in ToSet(s) \/ y = x
    BY <2>2, AppendFacts
  <2> QED
    BY <2>1, <2>3 DEF Hopper
<1> QED
  BY <1>1, <1>2, <1>4, <1>6, <1>7, <1>8, MarkOnce DEF PhaseInv

LEMMA ExecutePhaseOnce ==
  ASSUME PhaseInv, OnceInv, NEW n \in Nodes, execute_phase(n)
  PROVE  OnceInv'
<1>1. ~exit_on_jump(n)
  BY DEF exit_on_jump, OnceInv
<1>2. TypeInv
  BY DEF PhaseInv
<1> QED
  BY <1>1, <1>2, PredecessorsOnce, SyncOnce, ExecuteOnce, FunctionOnce, CheckOnce, DropOnce,
     ReadyToEndOnce, ExitOnce, EndedOnce, CleanupOnce, FinishOnce, SettleOnce, ScheduleOnce,
     PutOnce DEF execute_phase

\* Steps that leave the places of all processes alone, or wake them.
LEMMA AllWokenOnce ==
  ASSUME OnceInv, \A n \in Nodes : WokenTo(proc[n], proc'[n]),
         UNCHANGED <<m_state, m_phase_proc, m_premature_end, m_jump, m_phase_hopper, overlap>>
  PROVE  OnceInv'
<1>1. ASSUME NEW n \in Nodes
      PROVE  \/ proc'[n].at = proc[n].at /\ proc'[n].todo = proc[n].todo
             \/ proc[n].at \in Fork /\ proc'[n].at \in Fork
  BY DEF WokenTo, Fork
<1>2. ASSUME NEW n \in Nodes PROVE NodeOnce(n)'
  <2>1. NodeOnce(n) /\ Hopper' = Hopper
    BY DEF OnceInv, Hopper
  <2>2. Stage(proc'[n].at, m_state'[n])
    BY <1>1, <2>1 DEF NodeOnce, Stage, Fork
  <2>3. ASSUME proc'[n].at = "put" PROVE Puts(n)'
    <3>1. Puts(n) /\ proc'[n].todo = proc[n].todo
      BY <1>1, <2>1, <2>3 DEF NodeOnce, Fork
    <3>2. PICK h : h = Head(proc[n].todo)
      OBVIOUS
    <3>3. h \in Nodes /\ proc[h].at = "idle"
      BY <3>1, <3>2 DEF Puts
    <3>4. proc'[h].at = "idle"
      BY <1>1, <3>3 DEF Fork
    <3> QED
      BY <2>1, <3>1, <3>2, <3>4 DEF Puts
  <2> QED
    BY <1>1, <2>1, <2>2, <2>3 DEF NodeOnce, WithTasks, Fork
<1>3. OnePuts'
  BY <1>1 DEF OnceInv, OnePuts, Fork
<1> QED
  BY <1>2, <1>3 DEF OnceInv

LEMMA StillOnce ==
  ASSUME TypeInv, OnceInv,
         UNCHANGED <<m_state, proc, m_phase_proc, m_premature_end, m_jump, m_phase_hopper, overlap>>
  PROVE  OnceInv'
<1>1. \A n \in Nodes : WokenTo(proc[n], proc'[n])
  BY DEF WokenTo, TypeInv
<1> QED
  BY <1>1, AllWokenOnce

LEMMA DelayOverOnce ==
  ASSUME TypeInv, OnceInv, NEW N,
         proc' = [n \in Nodes |-> IF n \in N THEN [proc[n] EXCEPT !.delay = "none"] ELSE proc[n]],
         UNCHANGED <<m_state, m_phase_proc, m_premature_end, m_jump, m_phase_hopper, overlap>>
  PROVE  OnceInv'
<1>1. ASSUME NEW n \in Nodes PROVE WokenTo(proc[n], proc'[n])
  <2>1. PICK p, q : p = proc[n] /\ q = proc'[n]
    OBVIOUS
  <2>2. IsProc(p)
    BY <2>1 DEF TypeInv
  <2>3. q = [p EXCEPT !.delay = "none"] \/ q = p
    BY <2>1
  <2>4. CASE q = [p EXCEPT !.delay = "none"]
    <3>1. q = [at |-> p.at, delay |-> "none", todo |-> p.todo, again |-> p.again]
      BY <2>2, <2>4 DEF IsProc
    <3> QED
      BY <2>1, <3>1 DEF WokenTo, IsProc
  <2>5. CASE q = p
    BY <2>1, <2>2, <2>5 DEF WokenTo
  <2> QED
    BY <2>3, <2>4, <2>5
<1> QED
  BY <1>1, AllWokenOnce

LEMMA RunPhasesOnce ==
  ASSUME TypeInv, OnceInv, m_run_phases
  PROVE  OnceInv'
<1>1. PICK n, hopper, p : /\ hopper = m_phase_hopper /\ n = Head(hopper)
                          /\ p = Over("predecessors", m_predecessors[n])
  OBVIOUS
<1>2. hopper # <<>> /\ hopper \in Seq(Nodes) /\ IsInjective(hopper) /\ ToSet(hopper) = Hopper
  BY <1>1 DEF m_run_phases, OnceInv, Hopper
<1>3. PICK rest : rest = Tail(hopper)
  OBVIOUS
<1>4. /\ rest \in Seq(Nodes) /\ IsInjective(rest) /\ n \in Hopper /\ n \in Nodes
      /\ \A y \in ToSet(rest) : y \in Hopper /\ y # n
  BY <1>1, <1>2, <1>3, TailFacts
<1>5. /\ NodeOnce(n) /\ proc[n].at = "idle" /\ m_state[n] \in {DORMANT, SCHEDULED}
      /\ m_state[n] = DORMANT => m_predecessors[n] = <<>>
  BY <1>4 DEF OnceInv, NodeOnce
<1>6. /\ Go(n, p) /\ m_phase_hopper' = rest
      /\ UNCHANGED <<m_state, m_phase_proc, m_premature_end, m_jump, overlap>>
  BY <1>1, <1>3, <1>5 DEF m_run_phases, taskVars, jumpVars
<1>7. p.at = "predecessors" /\ p.todo = m_predecessors[n]
  BY <1>1, ProcFacts
<1>8. proc'[n] = p /\ \A m \in Nodes : m # n => proc'[m] = proc[m]
  BY <1>4, <1>6, GoFacts DEF TypeInv
<1>9. NodeOnce(n)'
  <2>1. Stage(proc'[n].at, m_state'[n])
    BY <1>5, <1>6, <1>7, <1>8 DEF Stage
  <2>2. m_phase_proc'[n] # "alive"
    BY <1>5, <1>6 DEF NodeOnce, WithTasks, Fork
  <2>3. n \notin Hopper' /\ m_predecessors[n] \in Seq(Nodes)
    BY <1>4, <1>6, GraphFacts DEF Hopper
  <2> QED
    BY <1>5, <1>6, <1>7, <1>8, <2>1, <2>2, <2>3 DEF NodeOnce
<1>10. ASSUME NEW m \in Nodes, m # n PROVE NodeOnce(m)'
  <2>1. NodeOnce(m) /\ proc'[m] = proc[m] /\ (m \in Hopper' => m \in Hopper)
    BY <1>4, <1>6, <1>8, <1>10 DEF OnceInv, Hopper
  <2>2. ASSUME proc[m].at = "put" PROVE Puts(m)'
    <3>1. Puts(m)
      BY <2>1, <2>2 DEF NodeOnce
    <3>2. PICK h : h = Head(proc[m].todo)
      OBVIOUS
    <3>3. h \in Nodes /\ h \notin Hopper /\ proc[h].at = "idle"
      BY <3>1, <3>2 DEF Puts
    <3>4. h # n /\ h \notin Hopper'
      BY <1>4, <1>6, <3>3 DEF Hopper
    <3>5. proc'[h].at = "idle"
      BY <1>8, <3>3, <3>4
    <3> QED
      BY <1>6, <2>1, <3>1, <3>2, <3>4, <3>5 DEF Puts
  <2> QED
    BY <1>6, <2>1, <2>2 DEF NodeOnce
<1>11. OnePuts'
  BY <1>7, <1>8 DEF OnceInv, OnePuts
<1> QED
  BY <1>4, <1>6, <1>9, <1>10, <1>11 DEF OnceInv

\* What is in the hopper at the start is there once.
LEMMA SetToSeqFacts ==
  ASSUME NEW S, IsFiniteSet(S), NEW s, s = SetToSeq(S)
  PROVE  s \in Seq(S) /\ IsInjective(s)
<1>1. PICK c : c = Cardinality(S)
  OBVIOUS
<1>2. c \in Nat /\ ExistsBijection(1..c, S)
  BY <1>1, FS_CardinalityType
<1>3. \E f \in [1..c -> S] : IsInjective(f)
  <2>1. PICK f : f \in Bijection(1..c, S)
    BY <1>2 DEF ExistsBijection
  <2>2. f \in [1..c -> S] /\ IsInjective(f)
    BY <2>1 DEF Bijection, Injection, IsInjective
  <2> QED
    BY <2>2
<1>4. s \in [1..c -> S] /\ IsInjective(s)
  BY <1>1, <1>3 DEF SetToSeq
<1> QED
  BY <1>2, <1>4

LEMMA InitOnce == Init => OnceInv
<1> SUFFICES ASSUME Init PROVE OnceInv
  OBVIOUS
<1>1. PICK p : p = At("idle")
  OBVIOUS
<1>2. p.at = "idle" /\ \A n \in Nodes : proc[n] = p
  BY <1>1, ProcFacts DEF Init
<1>3. PICK roots : roots = {n \in Nodes : m_predecessors[n] = <<>>}
  OBVIOUS
<1>4. IsFiniteSet(roots) /\ roots \subseteq Nodes
  BY <1>3, PhaseAssumption, FS_Subset
<1>5. m_phase_hopper \in Seq(roots) /\ IsInjective(m_phase_hopper)
  BY <1>3, <1>4, SetToSeqFacts DEF Init
<1>6. Hopper \subseteq roots
  BY <1>5 DEF Hopper, ToSet
<1>7. ASSUME NEW n \in Nodes PROVE NodeOnce(n)
  <2>1. proc[n].at = "idle" /\ m_state[n] = DORMANT /\ m_phase_proc[n] = "none"
    BY <1>2 DEF Init
  <2>2. n \in Hopper => m_predecessors[n] = <<>>
    BY <1>3, <1>6
  <2> QED
    BY <2>1, <2>2 DEF NodeOnce, Stage
<1>8. OnePuts
  BY <1>2 DEF OnePuts
<1>9. m_phase_hopper \in Seq(Nodes)
  BY <1>4, <1>5
<1> QED
  BY <1>5, <1>7, <1>8, <1>9 DEF OnceInv, Init

OnceUntilJump == jumps = 0 => OnceInv

LEMMA NextOnce ==
  ASSUME PhaseInv, jumps \in Nat, OnceUntilJump, [Next]_vars
  PROVE  jumps' \in Nat /\ OnceUntilJump'
<1>0. ASSUME UNCHANGED jumps, jumps = 0 => OnceInv'
      PROVE  jumps' \in Nat /\ OnceUntilJump'
  BY <1>0 DEF OnceUntilJump
<1> DEFINE Same == UNCHANGED <<m_state, m_phase_proc, m_premature_end, m_jump, m_phase_hopper, overlap>>
<1>1. ASSUME NEW n \in Nodes, execute_phase(n)
      PROVE  jumps' \in Nat /\ OnceUntilJump'
  <2>1. UNCHANGED jumps
    BY <1>1 DEF execute_phase, await_predecessors, await_sync, execute, function_phase,
       m_wait_for_pred, Waits, check_objection, wait_for_self_and_siblings_to_drop, ready_to_end,
       exit_on_jump, exit_fork, ended, cleanup, finish, settle, schedule, put, jumpVars
  <2> QED
    BY <1>0, <1>1, <2>1, ExecutePhaseOnce DEF OnceUntilJump
<1>2. CASE m_run_phases
  <2>1. UNCHANGED jumps
    BY <1>2 DEF m_run_phases, jumpVars
  <2> QED
    BY <1>0, <1>2, <2>1, RunPhasesOnce DEF OnceUntilJump, PhaseInv
<1>3. CASE next_delta \/ nba_region
  <2>1. UNCHANGED jumps /\ Same
    BY <1>3 DEF next_delta, nba_region, taskVars, jumpVars, runVars
  <2>2. PICK N : proc' = [n \in Nodes |-> IF n \in N THEN [proc[n] EXCEPT !.delay = "none"] ELSE proc[n]]
    BY <1>3 DEF next_delta, nba_region
  <2> QED
    BY <1>0, <2>1, <2>2, DelayOverOnce DEF OnceUntilJump, PhaseInv
<1>4. ASSUME NEW n \in Nodes, raise_objection(n) \/ drop_objection(n)
      PROVE  jumps' \in Nat /\ OnceUntilJump'
  <2>1. UNCHANGED jumps /\ Same /\ UNCHANGED proc
    BY <1>4 DEF raise_objection, drop_objection, jumpVars, runVars
  <2> QED
    BY <1>0, <2>1, StillOnce DEF OnceUntilJump, PhaseInv
<1>5. ASSUME NEW n \in Nodes, all_dropped(n)
      PROVE  jumps' \in Nat /\ OnceUntilJump'
  <2>1. UNCHANGED jumps /\ Same /\ proc' = Woken(proc, {n})
    BY <1>5 DEF all_dropped, jumpVars, runVars
  <2>2. \A m \in Nodes : WokenTo(proc[m], proc'[m])
    BY <2>1, WokenFacts DEF PhaseInv, TypeInv
  <2> QED
    BY <1>0, <2>1, <2>2, AllWokenOnce DEF OnceUntilJump
<1>6. ASSUME \/ \E n, to \in Nodes, prematurely \in BOOLEAN : jump(n, to, prematurely)
             \/ \E n \in Nodes : end_prematurely(n)
      PROVE  jumps' \in Nat /\ OnceUntilJump'
  <2>1. jumps' = jumps + 1
    BY <1>6 DEF jump, end_prematurely
  <2> QED
    BY <2>1 DEF OnceUntilJump
<1>7. CASE UNCHANGED vars
  <2>1. UNCHANGED jumps /\ Same /\ UNCHANGED proc
    BY <1>7 DEF vars, taskVars, jumpVars, runVars
  <2> QED
    BY <1>0, <2>1, StillOnce DEF OnceUntilJump, PhaseInv
<1> QED
  BY <1>1, <1>2, <1>3, <1>4, <1>5, <1>6, <1>7 DEF Next, Simulator, Components

\* What the invariant says of the three properties.
LEMMA OnceSafe == OnceUntilJump => (jumps = 0 => ExecutedOnce /\ PredecessorsDone /\ TasksKilled)
<1> SUFFICES ASSUME OnceInv PROVE ExecutedOnce /\ PredecessorsDone /\ TasksKilled
  BY DEF OnceUntilJump
<1>1. ExecutedOnce
  BY DEF OnceInv, ExecutedOnce
<1>2. ASSUME NEW n \in Nodes, Running(n)
      PROVE  \A p \in ToSet(m_predecessors[n]) : m_state[p] = DONE
  <2>1. m_state[n] \notin {1, 2, 256}
    BY <1>2, StateNumbers DEF Running
  <2>2. Stage(proc[n].at, m_state[n])
    BY DEF OnceInv, NodeOnce
  <2>3. proc[n].at \notin {"idle", "predecessors"}
    BY <2>1, <2>2, StateNumbers DEF Stage, Fork
  <2> QED
    BY <2>3, PastPredecessors
<1>3. ASSUME NEW n \in Nodes
      PROVE  /\ m_phase_proc[n] # "lost"
             /\ m_phase_proc[n] = "alive" => proc[n].at # "idle" /\ m_state[n] \in EXECUTING..ENDED
  <2>1. NodeOnce(n) /\ m_phase_proc[n] \in {"none", "alive"}
    BY DEF OnceInv
  <2>2. ASSUME proc[n].at \in WithTasks
        PROVE  proc[n].at # "idle" /\ m_state[n] \in EXECUTING..ENDED
    <3>1. m_state[n] \in {16, 32, 64}
      BY <2>1, <2>2, StateNumbers DEF NodeOnce, Stage, WithTasks, Fork
    <3> QED
      BY <2>2, <3>1, StateNumbers DEF WithTasks, Fork
  <2> QED
    BY <2>1, <2>2 DEF NodeOnce
<1> QED
  BY <1>1, <1>2, <1>3 DEF PredecessorsDone, TasksKilled

\* OnceInv holds until the first jump is asked for.
THEOREM OnceKept == Spec => [](jumps \in Nat /\ OnceUntilJump)
<1>1. Init => jumps \in Nat /\ OnceUntilJump
  BY InitOnce DEF Init, OnceUntilJump
<1>2. PhaseInv /\ (jumps \in Nat /\ OnceUntilJump) /\ [Next]_vars =>
        (jumps \in Nat /\ OnceUntilJump)'
  BY NextOnce
<1> QED
  BY <1>1, <1>2, PhaseBooks, PTL DEF Spec

\* For every graph of phases, until the first jump is asked for, a phase is executed
\* by one process at a time. After a jump this fails (MCPhase, the graph of RunNodes).
THEOREM OnceEach == Spec => [](jumps = 0 => ExecutedOnce)
BY OnceKept, OnceSafe, PTL

\* Until the first jump is asked for, a phase runs only when all its predecessors are
\* done (uvm_phase.svh:1311, execute_phase).
THEOREM InOrder == Spec => [](jumps = 0 => PredecessorsDone)
BY OnceKept, OnceSafe, PTL

\* Until the first jump is asked for, a phase that ends leaves no task behind
\* (uvm_phase.svh:1598).
THEOREM NothingRunsOn == Spec => [](jumps = 0 => TasksKilled)
BY OnceKept, OnceSafe, PTL
=============================================================================
