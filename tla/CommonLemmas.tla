---------------------------- MODULE CommonLemmas ----------------------------
(***************************************************************************)
(* Lemmas that the proofs of several components rest on.  Induction is     *)
(* stated about sets, which the provers can instantiate: a set of natural  *)
(* numbers has a least one because the intervals 1 .. n are finite, and    *)
(* finite sets are well founded under inclusion.                           *)
(***************************************************************************)
EXTENDS SequencesExt, Integers, FiniteSetTheorems, SequenceTheorems, TLAPS

\* A set of natural numbers that is not empty has a least element.
LEMMA LeastNatural ==
  ASSUME NEW T \in SUBSET Nat, T # {}
  PROVE  \E x \in T : \A y \in T : x <= y
  <1> DEFINE U == {1 .. n : n \in T}
  <1>1. U \subseteq FiniteSubsetsOf(Nat)
    <2> SUFFICES ASSUME NEW n \in T PROVE 1 .. n \in FiniteSubsetsOf(Nat)
      OBVIOUS
    <2> QED BY FS_Interval DEF FiniteSubsetsOf
  <1>2. U # {}
    OBVIOUS
  <1>3. PICK u \in U : \A v \in U : <<v, u>> \notin StrictSubsetOrdering(Nat)
    <2> HIDE DEF U
    <2> QED BY <1>1, <1>2, FS_StrictSubsetOrderingWellFounded, WFMin
  <1>4. PICK x \in T : u = 1 .. x
    OBVIOUS
  <1>5. ASSUME NEW y \in T, y < x PROVE FALSE
    <2>1. 1 .. y \in SUBSET Nat /\ 1 .. x \in SUBSET Nat
      OBVIOUS
    <2>2. 1 .. y \subseteq 1 .. x /\ x \in 1 .. x /\ x \notin 1 .. y
      BY <1>5
    <2>3. <<1 .. y, 1 .. x>> \in StrictSubsetOrdering(Nat)
      BY <2>1, <2>2 DEF StrictSubsetOrdering
    <2> QED BY <1>3, <1>4, <2>3
  <1> QED BY <1>4, <1>5

\* Mathematical induction.
LEMMA NatInductionOnSets ==
  ASSUME NEW S \in SUBSET Nat, 0 \in S, \A n \in S : n + 1 \in S
  PROVE  S = Nat
  <1> SUFFICES ASSUME Nat \ S # {} PROVE FALSE
    OBVIOUS
  <1>1. PICK x \in Nat \ S : \A y \in Nat \ S : x <= y
    BY LeastNatural
  <1>2. x # 0 /\ x - 1 \in Nat
    BY <1>1
  <1>3. x - 1 \in S
    BY <1>1, <1>2
  <1> QED BY <1>3, <1>2

\* A function from finitely many numbers to numbers is greatest somewhere.
LEMMA GreatestValue ==
  ASSUME NEW n \in Nat, NEW A \in SUBSET (0..n), A # {}, NEW f \in [A -> Nat]
  PROVE  \E x \in A : \A y \in A : f[y] <= f[x]
  <1> DEFINE Bounded(k, b) == \A y \in A : y <= k => f[y] <= b
             T == {k \in Nat : \E b \in Nat : Bounded(k, b)}
             U == {b \in Nat : \A y \in A : f[y] <= b}
  <1>1. 0 \in T
    <2>1. CASE 0 \in A
      <3>1. f[0] \in Nat /\ Bounded(0, f[0])
        BY <2>1
      <3> QED BY <3>1
    <2>2. CASE 0 \notin A
      <3>1. Bounded(0, 0)
        BY <2>2
      <3> QED BY <3>1
    <2> QED BY <2>1, <2>2
  <1>2. ASSUME NEW k \in T PROVE k + 1 \in T
    <2>1. PICK b \in Nat : Bounded(k, b)
      OBVIOUS
    <2>2. CASE k + 1 \in A
      <3>1. PICK c \in Nat : b <= c /\ f[k + 1] <= c
        <4>1. f[k + 1] \in Nat
          BY <2>2
        <4> QED BY <4>1
      <3>2. \A y \in A : y <= k + 1 => y <= k \/ y = k + 1
        OBVIOUS
      <3>3. \A y \in A : f[y] \in Nat
        OBVIOUS
      <3>4. Bounded(k + 1, c)
        BY <2>1, <3>1, <3>2, <3>3
      <3> QED BY <3>4
    <2>3. CASE k + 1 \notin A
      <3>1. \A y \in A : y <= k + 1 => y <= k
        BY <2>3
      <3>2. Bounded(k + 1, b)
        BY <2>1, <3>1
      <3> QED BY <3>2
    <2> QED BY <2>2, <2>3
  <1> HIDE DEF T
  <1>3. T = Nat
    <2>1. T \in SUBSET Nat
      BY DEF T
    <2> QED BY <1>1, <1>2, <2>1, NatInductionOnSets
  <1>4. PICK b \in Nat : Bounded(n, b)
    BY <1>3 DEF T
  <1>5. U \in SUBSET Nat /\ U # {}
    <2>1. \A y \in A : y <= n
      OBVIOUS
    <2>2. b \in U
      BY <1>4, <2>1
    <2> QED BY <2>2
  <1> HIDE DEF U
  <1>6. PICK u \in U : \A v \in U : u <= v
    BY <1>5, LeastNatural
  <1>7. u \in Nat /\ \A y \in A : f[y] <= u
    BY <1>6 DEF U
  <1>8. ASSUME \A x \in A : f[x] # u PROVE FALSE
    <2>1. \A x \in A : f[x] \in Nat /\ f[x] < u
      BY <1>7, <1>8
    <2>2. PICK a \in A : TRUE
      OBVIOUS
    <2>3. u - 1 \in Nat
      BY <1>7, <2>1, <2>2
    <2>4. \A x \in A : f[x] <= u - 1
      BY <1>7, <2>1
    <2>5. u - 1 \in U
      BY <2>3, <2>4 DEF U
    <2> QED BY <1>6, <1>7, <2>5
  <1> QED BY <1>7, <1>8

\* rest is the list without one of its entries.
LacksOne(rest, list, e) ==
  /\ Len(rest) = Len(list) - 1
  /\ \E n \in 1 .. Len(list) :
       /\ list[n] = e
       /\ \A i \in 1 .. Len(rest) : rest[i] = IF i < n THEN list[i] ELSE list[i + 1]

\* What RemoveFirst does to a list that has the entry, and to one that has not.
LEMMA RemoveLemma ==
  ASSUME NEW S, NEW list \in Seq(S), NEW e, NEW k \in 1 .. Len(list), list[k] = e
  PROVE  RemoveFirst(list, e) \in Seq(S) /\ LacksOne(RemoveFirst(list, e), list, e)
  <1> DEFINE I == {i \in 1 .. Len(list) : list[i] = e}
             n == Min(I)
             pre == SubSeq(list, 1, n - 1)
             post == SubSeq(list, n + 1, Len(list))
  <1>1. n \in 1 .. Len(list) /\ list[n] = e
    <2>1. I \in SUBSET Nat /\ I # {}
      OBVIOUS
    <2>2. PICK x \in I : \A y \in I : x <= y
      BY <2>1, LeastNatural
    <2>3. \A y \in I : y \in Int
      OBVIOUS
    <2>4. n \in I
      BY <2>2 DEF Min
    <2> QED BY <2>4
  <1>2. RemoveFirst(list, e) = pre \o post
    BY DEF RemoveFirst, RemoveAt, SelectInSeq
  <1> HIDE DEF n, pre, post
  <1>3. pre \in Seq(S) /\ Len(pre) = n - 1 /\ \A i \in 1 .. n - 1 : pre[i] = list[i]
    BY <1>1, SubSeqProperties DEF pre
  <1>4. /\ post \in Seq(S) /\ Len(post) = Len(list) - n
        /\ \A i \in 1 .. Len(list) - n : post[i] = list[n + i]
    BY <1>1, SubSeqProperties DEF post
  <1>5. /\ pre \o post \in Seq(S) /\ Len(pre \o post) = Len(list) - 1
        /\ \A i \in 1 .. Len(list) - 1 :
             (pre \o post)[i] = IF i <= n - 1 THEN pre[i] ELSE post[i - (n - 1)]
    <2>1. Len(pre) + Len(post) = Len(list) - 1
      BY <1>1, <1>3, <1>4
    <2>2. /\ pre \o post \in Seq(S) /\ Len(pre \o post) = Len(pre) + Len(post)
          /\ \A i \in 1 .. Len(pre) + Len(post) :
               (pre \o post)[i] = IF i <= Len(pre) THEN pre[i] ELSE post[i - Len(pre)]
      BY <1>3, <1>4, ConcatProperties
    <2> QED BY <2>1, <2>2, <1>3
  <1>6. \A i \in 1 .. Len(list) - 1 :
          (pre \o post)[i] = IF i < n THEN list[i] ELSE list[i + 1]
    <2> SUFFICES ASSUME NEW i \in 1 .. Len(list) - 1
                 PROVE  (pre \o post)[i] = IF i < n THEN list[i] ELSE list[i + 1]
      OBVIOUS
    <2>1. CASE i < n
      BY <2>1, <1>1, <1>3, <1>5
    <2>2. CASE ~(i < n)
      <3>1. i - (n - 1) \in 1 .. Len(list) - n
        BY <2>2, <1>1
      <3>2. post[i - (n - 1)] = list[n + (i - (n - 1))]
        BY <3>1, <1>4
      <3>3. n + (i - (n - 1)) = i + 1
        BY <1>1
      <3> QED BY <3>2, <3>3, <2>2, <1>1, <1>5
    <2> QED BY <2>1, <2>2
  <1> QED BY <1>1, <1>2, <1>5, <1>6 DEF LacksOne

\* Removing what is not in the list leaves the list as it is.
LEMMA RemoveOther ==
  ASSUME NEW S, NEW list \in Seq(S), NEW e, \A i \in 1 .. Len(list) : list[i] # e
  PROVE  RemoveFirst(list, e) = list
  BY DEF RemoveFirst

\* A list without one of its entries still has the others.
HasOthers(rest, list, e) ==
  \A k \in DOMAIN list : list[k] # e => \E i \in DOMAIN rest : rest[i] = list[k]

\* What is left after a removal is a list that has the others.
LEMMA OthersStay ==
  ASSUME NEW S, NEW list \in Seq(S), NEW e
  PROVE  RemoveFirst(list, e) \in Seq(S) /\ HasOthers(RemoveFirst(list, e), list, e)
  <1> DEFINE rest == RemoveFirst(list, e)
  <1>0. DOMAIN list = 1 .. Len(list) /\ Len(list) \in Nat
    OBVIOUS
  <1>1. CASE \A i \in 1 .. Len(list) : list[i] # e
    BY <1>1, RemoveOther DEF HasOthers
  <1>2. CASE \E i \in 1 .. Len(list) : list[i] = e
    <2>1. rest \in Seq(S) /\ LacksOne(rest, list, e)
      BY <1>2, RemoveLemma
    <2> HIDE DEF rest
    <2>2. DOMAIN rest = 1 .. Len(rest) /\ Len(rest) \in Nat
      BY <2>1
    <2>3. /\ Len(rest) = Len(list) - 1
          /\ \E n \in 1 .. Len(list) :
               /\ list[n] = e
               /\ \A i \in 1 .. Len(rest) :
                    rest[i] = IF i < n THEN list[i] ELSE list[i + 1]
      BY <2>1 DEF LacksOne
    <2>4. PICK n \in 1 .. Len(list) :
            /\ list[n] = e
            /\ \A i \in 1 .. Len(rest) :
                 rest[i] = IF i < n THEN list[i] ELSE list[i + 1]
      BY <2>3
    <2>5. ASSUME NEW k \in DOMAIN list, list[k] # e
          PROVE  \E i \in DOMAIN rest : rest[i] = list[k]
      <3>1. k \in Nat /\ n \in Nat /\ k # n
        BY <1>0, <2>4, <2>5
      <3>2. CASE k < n
        <4>1. k \in 1 .. Len(rest)
          BY <1>0, <2>2, <2>3, <3>2
        <4> QED BY <2>2, <2>4, <3>2, <4>1, <2>1
      <3>3. CASE k > n
        <4>1. k - 1 \in 1 .. Len(rest) /\ ~(k - 1 < n) /\ (k - 1) + 1 = k
          BY <1>0, <2>2, <2>3, <2>4, <3>3
        <4>2. rest[k - 1] = list[k]
          BY <2>4, <4>1
        <4> QED BY <2>1, <2>2, <4>1, <4>2
      <3> QED BY <3>1, <3>2, <3>3
    <2>6. HasOthers(rest, list, e)
      BY <2>5 DEF HasOthers
    <2> QED BY <2>1, <2>6 DEF rest
  <1> QED BY <1>1, <1>2

\* Removal from a list of one entry or none.
LEMMA RemoveOfShort ==
  ASSUME NEW x, NEW y
  PROVE  RemoveFirst(<<>>, y) = <<>> /\ RemoveFirst(<<x>>, y) = IF x = y THEN <<>> ELSE <<x>>
  <1>1. RemoveFirst(<<>>, y) = <<>>
    BY DEF RemoveFirst
  <1>2. CASE x = y
    <2>1. <<x>> \in Seq({x}) /\ Len(<<x>>) = 1 /\ <<x>>[1] = y /\ 1 \in 1 .. Len(<<x>>)
      BY <1>2
    <2>2. RemoveFirst(<<x>>, y) \in Seq({x}) /\ LacksOne(RemoveFirst(<<x>>, y), <<x>>, y)
      BY <2>1, RemoveLemma
    <2>3. Len(RemoveFirst(<<x>>, y)) = 0
      BY <2>1, <2>2 DEF LacksOne
    <2> QED BY <1>1, <1>2, <2>2, <2>3, EmptySeq
  <1>3. CASE x # y
    <2>1. \A i \in 1 .. Len(<<x>>) : <<x>>[i] # y
      BY <1>3
    <2> QED BY <1>1, <1>3, <2>1 DEF RemoveFirst
  <1> QED BY <1>2, <1>3

\* f applied to x again and again, N times.
HasRun(S, f, x, N) ==
  \E g \in [0..N -> S] : g[0] = x /\ \A k \in 1..N : g[k] = f[g[k - 1]]

\* A function from a set to itself can be applied any number of times.
LEMMA Iterates ==
  ASSUME NEW S, NEW f \in [S -> S], NEW x \in S, NEW N \in Nat
  PROVE  HasRun(S, f, x, N)
<1> DEFINE Run(n, g) == g[0] = x /\ \A k \in 1..n : g[k] = f[g[k - 1]]
           T == {n \in Nat : \E g \in [0..n -> S] : Run(n, g)}
<1>1. 0 \in T
  <2>1. [k \in 0..0 |-> x] \in [0..0 -> S] /\ Run(0, [k \in 0..0 |-> x])
    OBVIOUS
  <2> QED
    BY <2>1
<1>2. ASSUME NEW n \in T PROVE n + 1 \in T
  <2>1. PICK g \in [0..n -> S] : Run(n, g)
    OBVIOUS
  <2>2. PICK h : h = [k \in 0..n + 1 |-> IF k = n + 1 THEN f[g[n]] ELSE g[k]]
    OBVIOUS
  <2>3. h \in [0..n + 1 -> S]
    <3>1. n \in 0..n /\ f[g[n]] \in S
      OBVIOUS
    <3>2. \A k \in 0..n + 1 : k # n + 1 => g[k] \in S
      OBVIOUS
    <3> QED
      BY <2>2, <3>1, <3>2
  <2>4. h[0] = x
    BY <2>1, <2>2
  <2>5. ASSUME NEW k \in 1..n + 1 PROVE h[k] = f[h[k - 1]]
    <3>1. k - 1 \in 0..n + 1 /\ k - 1 # n + 1 /\ h[k - 1] = g[k - 1]
      BY <2>2
    <3>2. CASE k = n + 1
      BY <2>2, <3>1, <3>2
    <3>3. CASE k # n + 1
      <4>1. k \in 1..n
        BY <3>3
      <4> QED
        BY <2>1, <2>2, <3>1, <4>1
    <3> QED
      BY <3>2, <3>3
  <2> QED
    BY <2>3, <2>4, <2>5
<1> HIDE DEF T
<1>3. T = Nat
  <2>1. T \in SUBSET Nat
    BY DEF T
  <2> QED
    BY <1>1, <1>2, <2>1, NatInductionOnSets
<1> QED
  BY <1>3 DEF T, HasRun

\* What the first m rounds of a loop may leave, if each round stays within J.
LoopRun(g, F, J, x, m) ==
  /\ g = [k \in 0..m |-> IF k = 0 THEN {x} ELSE UNION {F[k][d] : d \in g[k - 1]}]
  /\ \A k \in 0..m : g[k] \subseteq J[k]

\* The loop can run one round more.
LEMMA LoopStep ==
  ASSUME NEW m \in Nat, NEW J, NEW F, NEW x, NEW g, LoopRun(g, F, J, x, m),
         \A d \in J[m] : F[m + 1][d] \subseteq J[m + 1]
  PROVE  \E h : LoopRun(h, F, J, x, m + 1)
<1> DEFINE After(f, k) == IF k = 0 THEN {x} ELSE UNION {F[k][d] : d \in f[k - 1]}
<1>1. PICK next : next = UNION {F[m + 1][d] : d \in g[m]}
  OBVIOUS
<1>2. PICK h : h = [k \in 0..m + 1 |-> IF k = m + 1 THEN next ELSE g[k]]
  OBVIOUS
<1>3. ASSUME NEW k \in 0..m PROVE h[k] = g[k] /\ g[k] = After(g, k) /\ g[k] \subseteq J[k]
  <2>1. g = [l \in 0..m |-> After(g, l)] /\ g[k] \subseteq J[k]
    BY DEF LoopRun
  <2>2. g[k] = After(g, k)
    BY <2>1
  <2>3. k \in 0..m + 1 /\ k # m + 1
    OBVIOUS
  <2> QED
    BY <1>2, <2>1, <2>2, <2>3
<1>4. h[m + 1] = next
  BY <1>2
<1>5. ASSUME NEW k \in 0..m + 1 PROVE h[k] = After(h, k)
  <2>1. CASE k = 0
    <3>1. k \in 0..m /\ After(h, k) = {x} /\ After(g, k) = {x}
      BY <2>1
    <3> HIDE DEF After
    <3> QED
      BY <1>3, <3>1
  <2>2. CASE k # 0 /\ k # m + 1
    <3>1. k \in 0..m /\ k - 1 \in 0..m
      BY <2>2
    <3>2. h[k] = After(g, k) /\ h[k - 1] = g[k - 1]
      BY <1>3, <3>1
    <3> QED
      BY <2>2, <3>2
  <2>3. CASE k = m + 1
    <3>1. m + 1 # 0 /\ (m + 1) - 1 = m /\ m \in 0..m
      OBVIOUS
    <3>2. h[(m + 1) - 1] = g[m]
      BY <1>3, <3>1
    <3>3. After(h, m + 1) = UNION {F[m + 1][d] : d \in g[m]}
      BY <3>1, <3>2
    <3> QED
      BY <1>1, <1>4, <2>3, <3>3
  <2> QED
    BY <2>1, <2>2, <2>3
<1>6. h = [k \in 0..m + 1 |-> After(h, k)]
  <2>1. h = [k \in 0..m + 1 |-> h[k]]
    BY <1>2
  <2> HIDE DEF After
  <2> QED
    BY <2>1, <1>5
<1>7. next \subseteq J[m + 1]
  <2>1. g[m] \subseteq J[m]
    <3>1. m \in 0..m
      OBVIOUS
    <3> HIDE DEF After
    <3> QED
      BY <1>3, <3>1
  <2> QED
    BY <1>1, <2>1
<1>8. \A k \in 0..m + 1 : h[k] \subseteq J[k]
  <2>1. \A k \in 0..m + 1 : k = m + 1 \/ k \in 0..m
    OBVIOUS
  <2> QED
    BY <1>3, <1>4, <1>7, <2>1
<1> QED
  BY <1>6, <1>8 DEF LoopRun

\* A loop whose k-th round leads from J[k - 1] into J[k] has a value after every round.
LEMMA LoopExists ==
  ASSUME NEW n \in Nat, NEW J, NEW F, NEW x, x \in J[0],
         \A k \in 1..n : \A d \in J[k - 1] : F[k][d] \subseteq J[k]
  PROVE  \E g : LoopRun(g, F, J, x, n)
<1> DEFINE T == {m \in Nat : m <= n => \E g : LoopRun(g, F, J, x, m)}
<1>1. 0 \in T
  <2>1. PICK g : g = [k \in 0..0 |-> {x}]
    OBVIOUS
  <2>2. g = [k \in 0..0 |-> IF k = 0 THEN {x} ELSE UNION {F[k][d] : d \in g[k - 1]}]
    BY <2>1
  <2>3. \A k \in 0..0 : g[k] \subseteq J[k]
    BY <2>1
  <2>4. LoopRun(g, F, J, x, 0)
    BY <2>2, <2>3 DEF LoopRun
  <2> QED
    BY <2>4
<1>2. ASSUME NEW m \in T PROVE m + 1 \in T
  <2>1. ASSUME m + 1 <= n PROVE \E g : LoopRun(g, F, J, x, m + 1)
    <3>1. PICK g : LoopRun(g, F, J, x, m)
      BY <2>1
    <3>2. m + 1 \in 1..n /\ (m + 1) - 1 = m
      BY <2>1
    <3>3. \A d \in J[m] : F[m + 1][d] \subseteq J[m + 1]
      BY <3>2
    <3> QED
      BY <3>1, <3>3, LoopStep
  <2> QED
    BY <2>1
<1> HIDE DEF T
<1>3. T = Nat
  <2>1. T \in SUBSET Nat
    BY DEF T
  <2> QED
    BY <1>1, <1>2, <2>1, NatInductionOnSets
<1>4. n \in T
  BY <1>3
<1> QED
  BY <1>4 DEF T

\* What each round of a loop keeps holds after every round.
LEMMA LoopKeeps ==
  ASSUME NEW n \in Nat, NEW J, NEW h, h[0] \subseteq J[0],
         \A k \in 1..n : h[k - 1] \subseteq J[k - 1] => h[k] \subseteq J[k]
  PROVE  h[n] \subseteq J[n]
<1> DEFINE T == {m \in Nat : m <= n => h[m] \subseteq J[m]}
<1>1. 0 \in T
  OBVIOUS
<1>2. ASSUME NEW m \in T PROVE m + 1 \in T
  <2>1. m + 1 <= n => m + 1 \in 1..n /\ (m + 1) - 1 = m
    OBVIOUS
  <2> QED
    BY <2>1
<1> HIDE DEF T
<1>3. T = Nat
  <2>1. T \in SUBSET Nat
    BY DEF T
  <2> QED
    BY <1>1, <1>2, <2>1, NatInductionOnSets
<1> QED
  BY <1>3 DEF T
=============================================================================
