-------------------------- MODULE ObjectionProofs --------------------------
(***************************************************************************)
(* Proofs about objections.                                                *)
(***************************************************************************)
EXTENDS ObjectionProperties, CommonLemmas

-----------------------------------------------------------------------------
(* Sums. *)

\* The pairs that a sum counts, for the arguments in D.
Units(f, D) == UNION {{x} \X (1..f[x]) : x \in D}

LEMMA ColumnSize ==
  ASSUME NEW x, NEW n \in Nat
  PROVE  IsFiniteSet({x} \X (1..n)) /\ Cardinality({x} \X (1..n)) = n
<1>1. IsFiniteSet({x}) /\ Cardinality({x}) = 1
  BY FS_Singleton
<1>2. IsFiniteSet(1..n) /\ Cardinality(1..n) = n
  BY FS_Interval
<1>3. Cardinality({x} \X (1..n)) = 1 * n
  BY <1>1, <1>2, FS_Product
<1> QED
  BY <1>1, <1>2, <1>3, FS_Product

LEMMA UnitsFinite ==
  ASSUME NEW S, IsFiniteSet(S), NEW f \in [S -> Nat]
  PROVE  IsFiniteSet(Units(f, S))
<1> DEFINE column == [x \in S |-> {x} \X (1..f[x])]
           columns == {{x} \X (1..f[x]) : x \in S}
<1>1. column \in Surjection(S, columns)
  BY DEF Surjection
<1>2. IsFiniteSet(columns)
  BY <1>1, FS_Surjection
<1>3. \A x \in S : IsFiniteSet({x} \X (1..f[x]))
  <2> TAKE x \in S
  <2>1. f[x] \in Nat
    OBVIOUS
  <2> QED
    BY <2>1, ColumnSize
<1>4. \A T \in columns : IsFiniteSet(T)
  BY <1>3
<1> HIDE DEF columns
<1>5. IsFiniteSet(UNION columns)
  BY <1>2, <1>4, FS_UNION
<1> QED
  BY <1>5 DEF Units, columns

\* A sum is its value at one argument and the rest.
LEMMA SumSplit ==
  ASSUME NEW S, IsFiniteSet(S), NEW f \in [S -> Nat], NEW x \in S
  PROVE  /\ IsFiniteSet(Units(f, S \ {x})) /\ Cardinality(Units(f, S \ {x})) \in Nat
         /\ SumOf(f) = Cardinality(Units(f, S \ {x})) + f[x]
<1> DEFINE R == Units(f, S \ {x})
           C == {x} \X (1..f[x])
<1>1. Units(f, S) = R \union C /\ R \intersect C = {}
  BY DEF Units
<1>2. IsFiniteSet(R)
  BY <1>1, UnitsFinite, FS_Subset
<1>3. IsFiniteSet(C) /\ Cardinality(C) = f[x]
  BY ColumnSize
<1>4. SumOf(f) = Cardinality(Units(f, S))
  BY DEF SumOf, Units
<1> HIDE DEF R, C
<1>5. Cardinality(R \union C) = Cardinality(R) + Cardinality(C) - Cardinality(R \intersect C)
  BY <1>2, <1>3, FS_Union
<1>6. Cardinality(R \intersect C) = 0
  BY <1>1, FS_EmptySet
<1>7. Cardinality(R) \in Nat
  BY <1>2, FS_CardinalityType
<1> QED
  BY <1>1, <1>2, <1>3, <1>4, <1>5, <1>6, <1>7 DEF R

LEMMA SumType ==
  ASSUME NEW S, IsFiniteSet(S), NEW f \in [S -> Nat]
  PROVE  SumOf(f) \in Nat
<1>1. SumOf(f) = Cardinality(Units(f, S))
  BY DEF SumOf, Units
<1> QED
  BY <1>1, UnitsFinite, FS_CardinalityType

\* Functions that agree but at x.
LEMMA SumChange ==
  ASSUME NEW S, IsFiniteSet(S), NEW f \in [S -> Nat], NEW g \in [S -> Nat], NEW x \in S,
         \A y \in S : y # x => g[y] = f[y]
  PROVE  SumOf(g) = SumOf(f) - f[x] + g[x]
<1>1. Units(f, S \ {x}) = Units(g, S \ {x})
  BY DEF Units
<1> QED
  BY <1>1, SumSplit

LEMMA SumMember ==
  ASSUME NEW S, IsFiniteSet(S), NEW f \in [S -> Nat], NEW x \in S
  PROVE  f[x] <= SumOf(f)
<1>1. PICK n \in Nat : SumOf(f) = n + f[x]
  BY SumSplit
<1>2. f[x] \in Nat
  OBVIOUS
<1> QED
  BY <1>1, <1>2

LEMMA SumZero ==
  ASSUME NEW S, NEW f \in [S -> Nat], \A x \in S : f[x] = 0
  PROVE  SumOf(f) = 0
<1>1. \A x \in S : {x} \X (1..f[x]) = {}
  OBVIOUS
<1>2. UNION {{x} \X (1..f[x]) : x \in S} = {}
  BY <1>1
<1> QED
  BY <1>2, FS_EmptySet DEF SumOf

LEMMA SumOne ==
  ASSUME NEW x, NEW f \in [{x} -> Nat]
  PROVE  SumOf(f) = f[x]
<1>1. SumOf(f) = Cardinality({x} \X (1..f[x]))
  <2>1. UNION {{y} \X (1..f[y]) : y \in DOMAIN f} = {x} \X (1..f[x])
    OBVIOUS
  <2> QED
    BY <2>1 DEF SumOf
<1> QED
  BY <1>1, ColumnSize

-----------------------------------------------------------------------------
(* The tree. *)

\* Sets that contain the parents of their members.
Upwards(S) == \A x \in S \ {Top} : Parent[x] \in S

LEMMA AboveFacts ==
  ASSUME NEW o \in Objects
  PROVE  /\ o \in Above(o) /\ Above(o) \subseteq Objects
         /\ Upwards(Above(o))
         /\ \A S \in SUBSET Objects : o \in S /\ Upwards(S) => Above(o) \subseteq S
<1>1. \A x \in Objects \ {Top} : Parent[x] \in Objects
  BY ObjectionAssumption
<1> QED
  BY <1>1 DEF Above, Upwards

LEMMA AboveTop == Above(Top) = {Top}
<1>1. Top \in Objects /\ {Top} \in SUBSET Objects /\ Upwards({Top})
  BY ObjectionAssumption DEF Upwards
<1> QED
  BY <1>1, AboveFacts

\* No object is above its own parent.
LEMMA NoCycle ==
  ASSUME NEW o \in Objects \ {Top}
  PROVE  o \notin Above(Parent[o])
<1> DEFINE D == {z \in Objects : o \in Above(z)}
<1>1. ASSUME NEW z \in Objects \ {Top}, NEW x \in Above(z), x # z
      PROVE  x \in Above(Parent[z])
  <2>1. Parent[z] \in Objects
    BY ObjectionAssumption
  <2>2. Upwards(Above(Parent[z])) /\ Parent[z] \in Above(Parent[z])
        /\ Above(Parent[z]) \subseteq Objects
    BY <2>1, AboveFacts
  <2>3. Upwards(Above(Parent[z]) \union {z})
    BY <2>2 DEF Upwards
  <2>4. Above(z) \subseteq Above(Parent[z]) \union {z}
    BY <2>2, <2>3, AboveFacts
  <2> QED
    BY <1>1, <2>4
<1>2. SUFFICES ASSUME o \in Above(Parent[o]) PROVE FALSE
  OBVIOUS
<1>3. o \in D /\ D \in SUBSET Objects
  BY AboveFacts
<1>4. Upwards(D)
  <2> SUFFICES ASSUME NEW z \in D \ {Top} PROVE Parent[z] \in D
    BY DEF Upwards
  <2>1. Parent[z] \in Objects
    BY ObjectionAssumption
  <2> QED
    BY <1>1, <1>2, <2>1
<1>5. Top \in D
  BY <1>3, <1>4, AboveFacts, ObjectionAssumption
<1> QED
  BY <1>5, AboveTop

\* A parent is nearer to the root.
LEMMA ParentNearer ==
  ASSUME m_prop_mode \in BOOLEAN, NEW o \in Objects \ {Top}
  PROVE  /\ m_get_parent(o) \in Objects /\ m_get_parent(o) # o
         /\ Cardinality(Above(o)) \in Nat /\ Cardinality(Above(m_get_parent(o))) \in Nat
         /\ Cardinality(Above(m_get_parent(o))) < Cardinality(Above(o))
<1>1. PICK p : p = m_get_parent(o)
  OBVIOUS
<1>2. p \in Objects /\ p \in Above(o) /\ o \notin Above(p)
  <2>1. Parent[o] \in Objects /\ Parent[o] \in Above(o)
    BY ObjectionAssumption, AboveFacts DEF Upwards
  <2>2. Top \in Objects /\ Top \in Above(o) /\ o \notin Above(Top)
    BY ObjectionAssumption, AboveTop
  <2> QED
    BY <1>1, <2>1, <2>2, NoCycle DEF m_get_parent
<1>3. Above(p) \subseteq Above(o)
  BY <1>2, AboveFacts
<1>4. IsFiniteSet(Above(o))
  BY AboveFacts, FS_Subset, ObjectionAssumption
<1>5. /\ IsFiniteSet(Above(p)) /\ Cardinality(Above(p)) <= Cardinality(Above(o))
      /\ Cardinality(Above(p)) # Cardinality(Above(o))
  BY <1>2, <1>3, <1>4, FS_Subset, AboveFacts
<1>6. Cardinality(Above(o)) \in Nat /\ Cardinality(Above(p)) \in Nat
  BY <1>4, <1>5, FS_CardinalityType
<1> QED
  BY <1>1, <1>2, <1>5, <1>6, AboveFacts

-----------------------------------------------------------------------------
(* Lists of contexts. *)

Distinct(list) == \A i, j \in 1..Len(list) : list[i].obj = list[j].obj => i = j

Apart(S, T) == \A c \in S, d \in T : c.obj # d.obj

Others(S, o) == {c \in S : c.obj # o}

LEMMA FirstOfFacts ==
  ASSUME NEW list \in Seq(Context), NEW o, Listed(list, o)
  PROVE  \E i \in 1..Len(list) : FirstOf(list, o) = list[i] /\ list[i].obj = o
<1> DEFINE I == {i \in 1..Len(list) : list[i].obj = o}
<1>1. I \in SUBSET Nat /\ I # {}
  BY DEF Listed
<1>2. PICK x \in I : \A y \in I : x <= y
  BY <1>1, LeastNatural
<1>3. \A y \in I : y \in Int
  OBVIOUS
<1>4. Min(I) \in I
  BY <1>2, <1>3 DEF Min
<1>5. FirstOf(list, o) = list[Min(I)]
  BY <1>1 DEF FirstOf, SelectInSeq
<1> QED
  BY <1>4, <1>5

\* In a list with one context per object.
LEMMA FirstOfDistinct ==
  ASSUME NEW list \in Seq(Context), Distinct(list), NEW c \in ToSet(list)
  PROVE  Listed(list, c.obj) /\ FirstOf(list, c.obj) = c
<1>1. PICK k \in 1..Len(list) : list[k] = c
  BY DEF ToSet
<1>2. Listed(list, c.obj)
  BY <1>1 DEF Listed
<1> QED
  BY <1>1, <1>2, FirstOfFacts DEF Distinct

LEMMA RemoveDistinct ==
  ASSUME NEW list \in Seq(Context), Distinct(list), NEW o, Listed(list, o)
  PROVE  /\ RemoveFirst(list, FirstOf(list, o)) \in Seq(Context)
         /\ Distinct(RemoveFirst(list, FirstOf(list, o)))
         /\ ToSet(RemoveFirst(list, FirstOf(list, o))) = Others(ToSet(list), o)
<1>1. PICK e : e = FirstOf(list, o)
  OBVIOUS
<1>2. PICK k \in 1..Len(list) : list[k] = e /\ e.obj = o
  BY <1>1, FirstOfFacts
<1>3. PICK rest : rest = RemoveFirst(list, e)
  OBVIOUS
<1>4. rest \in Seq(Context) /\ LacksOne(rest, list, e)
  BY <1>2, <1>3, RemoveLemma
<1>5. PICK n \in 1..Len(list) :
        /\ list[n] = e
        /\ \A i \in 1..Len(rest) : rest[i] = IF i < n THEN list[i] ELSE list[i + 1]
  BY <1>4 DEF LacksOne
<1>6. Len(rest) = Len(list) - 1 /\ Len(rest) \in Nat /\ Len(list) \in Nat
  BY <1>4 DEF LacksOne
<1>7. ASSUME NEW i \in 1..Len(rest)
      PROVE  \E j \in 1..Len(list) :
               /\ rest[i] = list[j] /\ j # n
               /\ (i < n /\ j = i) \/ (~(i < n) /\ j = i + 1)
  <2>1. i \in 1..Len(list) /\ i + 1 \in 1..Len(list)
    BY <1>6
  <2>2. CASE i < n
    BY <1>5, <2>1, <2>2
  <2>3. CASE ~(i < n)
    <3>1. i + 1 # n
      BY <2>3
    <3> QED
      BY <1>5, <2>1, <2>3, <3>1
  <2> QED
    BY <2>2, <2>3
<1>8. Distinct(rest)
  <2> SUFFICES ASSUME NEW i1 \in 1..Len(rest), NEW i2 \in 1..Len(rest),
                      rest[i1].obj = rest[i2].obj
               PROVE  i1 = i2
    BY DEF Distinct
  <2>1. PICK j1 \in 1..Len(list) :
          /\ rest[i1] = list[j1]
          /\ (i1 < n /\ j1 = i1) \/ (~(i1 < n) /\ j1 = i1 + 1)
    BY <1>7
  <2>2. PICK j2 \in 1..Len(list) :
          /\ rest[i2] = list[j2]
          /\ (i2 < n /\ j2 = i2) \/ (~(i2 < n) /\ j2 = i2 + 1)
    BY <1>7
  <2>3. j1 = j2
    BY <2>1, <2>2 DEF Distinct
  <2> QED
    BY <2>1, <2>2, <2>3
<1>9. ToSet(rest) \subseteq Others(ToSet(list), o)
  <2> SUFFICES ASSUME NEW i \in 1..Len(rest)
               PROVE  rest[i] \in ToSet(list) /\ rest[i].obj # o
    BY <1>4 DEF ToSet, Others
  <2>1. PICK j \in 1..Len(list) : rest[i] = list[j] /\ j # n
    BY <1>7
  <2>2. list[j].obj # o
    BY <1>2, <1>5, <2>1 DEF Distinct
  <2> QED
    BY <2>1, <2>2 DEF ToSet
<1>10. Others(ToSet(list), o) \subseteq ToSet(rest)
  <2> SUFFICES ASSUME NEW j \in 1..Len(list), list[j].obj # o
               PROVE  \E i \in 1..Len(rest) : rest[i] = list[j]
    BY <1>4 DEF ToSet, Others
  <2>1. j # n
    BY <1>2, <1>5
  <2>2. CASE j < n
    <3>1. j \in 1..Len(rest)
      BY <1>6, <2>2
    <3> QED
      BY <1>5, <2>2, <3>1
  <2>3. CASE j > n
    <3>1. j - 1 \in 1..Len(rest) /\ ~(j - 1 < n) /\ (j - 1) + 1 = j
      BY <1>6, <2>3
    <3>2. rest[j - 1] = list[j]
      BY <1>5, <3>1
    <3> QED
      BY <3>1, <3>2
  <2> QED
    BY <2>1, <2>2, <2>3
<1> QED
  BY <1>1, <1>3, <1>4, <1>8, <1>9, <1>10

LEMMA AppendDistinct ==
  ASSUME NEW list \in Seq(Context), Distinct(list), NEW c \in Context,
         \A d \in ToSet(list) : d.obj # c.obj
  PROVE  /\ Append(list, c) \in Seq(Context) /\ Distinct(Append(list, c))
         /\ ToSet(Append(list, c)) = ToSet(list) \union {c}
<1>1. PICK new : new = Append(list, c)
  OBVIOUS
<1>2. /\ new \in Seq(Context) /\ Len(new) = Len(list) + 1 /\ Len(list) \in Nat
      /\ new[Len(list) + 1] = c /\ \A i \in 1..Len(list) : new[i] = list[i]
  BY <1>1, AppendProperties
<1>3. \A i \in 1..Len(list) : list[i].obj # c.obj
  BY DEF ToSet
<1>4. \A i \in 1..Len(new) : i = Len(list) + 1 \/ i \in 1..Len(list)
  BY <1>2
<1>5. Distinct(new)
  BY <1>2, <1>3, <1>4 DEF Distinct
<1>6. ToSet(new) \subseteq ToSet(list) \union {c}
  BY <1>2, <1>4 DEF ToSet
<1>7. ToSet(list) \union {c} \subseteq ToSet(new)
  <2>1. Len(list) + 1 \in 1..Len(new) /\ \A i \in 1..Len(list) : i \in 1..Len(new)
    BY <1>2
  <2> QED
    BY <1>2, <2>1 DEF ToSet
<1> QED
  BY <1>1, <1>2, <1>5, <1>6, <1>7

LEMMA ConcatDistinct ==
  ASSUME NEW s \in Seq(Context), NEW t \in Seq(Context), Distinct(s), Distinct(t),
         Apart(ToSet(s), ToSet(t))
  PROVE  /\ s \o t \in Seq(Context) /\ Distinct(s \o t)
         /\ ToSet(s \o t) = ToSet(s) \union ToSet(t)
<1>1. PICK u : u = s \o t
  OBVIOUS
<1>2. /\ u \in Seq(Context) /\ Len(u) = Len(s) + Len(t)
      /\ Len(s) \in Nat /\ Len(t) \in Nat
      /\ \A i \in 1..Len(s) + Len(t) : u[i] = IF i <= Len(s) THEN s[i] ELSE t[i - Len(s)]
  BY <1>1, ConcatProperties
<1>3. \A i \in 1..Len(u) : \/ i \in 1..Len(s) /\ u[i] = s[i]
                           \/ /\ i - Len(s) \in 1..Len(t) /\ ~(i <= Len(s))
                              /\ u[i] = t[i - Len(s)]
  BY <1>2
<1>4. \A i \in 1..Len(s), j \in 1..Len(t) : s[i].obj # t[j].obj
  BY DEF Apart, ToSet
<1>5. Distinct(u)
  <2> SUFFICES ASSUME NEW i \in 1..Len(u), NEW j \in 1..Len(u), u[i].obj = u[j].obj
               PROVE  i = j
    BY DEF Distinct
  <2>1. CASE i \in 1..Len(s) /\ u[i] = s[i]
    <3>1. ASSUME j - Len(s) \in 1..Len(t), u[j] = t[j - Len(s)] PROVE FALSE
      <4>1. s[i].obj # t[j - Len(s)].obj
        BY <1>4, <2>1, <3>1
      <4> QED
        BY <2>1, <3>1, <4>1
    <3>2. j \in 1..Len(s) /\ u[j] = s[j]
      BY <1>3, <3>1
    <3> QED
      BY <2>1, <3>2 DEF Distinct
  <2>2. CASE i - Len(s) \in 1..Len(t) /\ u[i] = t[i - Len(s)]
    <3>1. ASSUME j \in 1..Len(s), u[j] = s[j] PROVE FALSE
      <4>1. s[j].obj # t[i - Len(s)].obj
        BY <1>4, <2>2, <3>1
      <4> QED
        BY <2>2, <3>1, <4>1
    <3>2. j - Len(s) \in 1..Len(t) /\ u[j] = t[j - Len(s)]
      BY <1>3, <3>1
    <3>3. i - Len(s) = j - Len(s)
      BY <2>2, <3>2 DEF Distinct
    <3> QED
      BY <1>2, <3>3
  <2> QED
    BY <1>3, <2>1, <2>2
<1>6. ToSet(u) \subseteq ToSet(s) \union ToSet(t)
  BY <1>2, <1>3 DEF ToSet
<1>7. ToSet(s) \subseteq ToSet(u)
  <2>1. \A i \in 1..Len(s) : i \in 1..Len(u) /\ u[i] = s[i]
    BY <1>2
  <2> QED
    BY <1>2, <2>1 DEF ToSet
<1>8. ToSet(t) \subseteq ToSet(u)
  <2>1. \A i \in 1..Len(t) : /\ i + Len(s) \in 1..Len(u) /\ ~(i + Len(s) <= Len(s))
                             /\ (i + Len(s)) - Len(s) = i
    BY <1>2
  <2>2. \A i \in 1..Len(t) : u[i + Len(s)] = t[i]
    BY <1>2, <2>1
  <2> SUFFICES ASSUME NEW i \in 1..Len(t) PROVE \E k \in DOMAIN u : u[k] = t[i]
    BY DEF ToSet
  <2>3. i + Len(s) \in DOMAIN u
    BY <1>2, <2>1
  <2> QED
    BY <2>2, <2>3
<1> QED
  BY <1>1, <1>2, <1>5, <1>6, <1>7, <1>8

LEMMA TailDistinct ==
  ASSUME NEW s \in Seq(Context), Distinct(s), s # <<>>
  PROVE  /\ Tail(s) \in Seq(Context) /\ Distinct(Tail(s)) /\ Head(s) \in ToSet(s)
         /\ ToSet(Tail(s)) = Others(ToSet(s), Head(s).obj)
<1>1. PICK t : t = Tail(s)
  OBVIOUS
<1>2. /\ t \in Seq(Context) /\ Len(t) = Len(s) - 1 /\ Len(s) \in Nat \ {0}
      /\ \A i \in 1..Len(t) : t[i] = s[i + 1]
  BY <1>1, HeadTailProperties
<1>3. 1 \in 1..Len(s) /\ Head(s) = s[1] /\ \A i \in 1..Len(t) : i + 1 \in 1..Len(s)
  BY <1>2
<1>4. Distinct(t)
  BY <1>2, <1>3 DEF Distinct
<1>5. ToSet(t) \subseteq Others(ToSet(s), s[1].obj)
  <2>1. \A i \in 1..Len(t) : s[i + 1].obj # s[1].obj
    BY <1>2, <1>3 DEF Distinct
  <2> QED
    BY <1>2, <1>3, <2>1 DEF ToSet, Others
<1>6. Others(ToSet(s), s[1].obj) \subseteq ToSet(t)
  <2> SUFFICES ASSUME NEW j \in 1..Len(s), s[j].obj # s[1].obj
               PROVE  \E i \in 1..Len(t) : t[i] = s[j]
    BY <1>2 DEF ToSet, Others
  <2>1. j # 1 /\ j - 1 \in 1..Len(t) /\ (j - 1) + 1 = j
    BY <1>2
  <2>2. t[j - 1] = s[j]
    BY <1>2, <2>1
  <2> QED
    BY <2>1, <2>2
<1> QED
  BY <1>1, <1>2, <1>3, <1>4, <1>5, <1>6 DEF ToSet

-----------------------------------------------------------------------------
(* The books in the middle of a propagation. *)

BookSet ==
  [total : [Objects -> Nat], scheduled : Seq(Context), forked : Seq(Context),
   draining : SUBSET Context, cleared : BOOLEAN, fatal : BOOLEAN,
   caller : Objects \union {NoObject}, at : Objects \union {NoObject}, count : Int]

Held(B) == ToSet(B.scheduled) \union ToSet(B.forked) \union B.draining

\* No object has two contexts.
OncePerObject(B) ==
  /\ Distinct(B.scheduled) /\ Distinct(B.forked)
  /\ \A c, d \in B.draining : c.obj = d.obj => c = d
  /\ Apart(ToSet(B.scheduled), ToSet(B.forked))
  /\ Apart(ToSet(B.scheduled) \union ToSet(B.forked), B.draining)

Orderly(B) == B \in BookSet /\ OncePerObject(B)

LEMMA HeldType ==
  ASSUME NEW B \in BookSet
  PROVE  /\ Held(B) \subseteq Context
         /\ \A c \in Held(B) : c.obj \in Objects /\ c.count \in Nat \ {0}
<1>1. B.scheduled \in Seq(Context) /\ B.forked \in Seq(Context) /\ B.draining \subseteq Context
  BY DEF BookSet
<1>2. ToSet(B.scheduled) \subseteq Context /\ ToSet(B.forked) \subseteq Context
  BY <1>1 DEF ToSet
<1>3. Held(B) \subseteq Context
  BY <1>1, <1>2 DEF Held
<1> QED
  BY <1>3 DEF Context

\* m_raise finds the context of an object, wherever it is.
LEMMA CaughtFacts ==
  ASSUME NEW B, Orderly(B)
  PROVE  /\ \A c \in Held(B) : Caught(B, c.obj) = c.count
         /\ \A o \in Objects : (\A c \in Held(B) : c.obj # o) => Caught(B, o) = 0
         /\ \A o \in Objects : Caught(B, o) \in Nat
<1>0. /\ B.scheduled \in Seq(Context) /\ B.forked \in Seq(Context)
      /\ B.draining \in SUBSET Context
  BY DEF Orderly, BookSet
<1>1. ASSUME NEW o
      PROVE  /\ Listed(B.scheduled, o) => \E c \in ToSet(B.scheduled) : c.obj = o
             /\ Listed(B.forked, o) => \E c \in ToSet(B.forked) : c.obj = o
  BY <1>0 DEF Listed, ToSet
<1>2. ASSUME NEW c \in Held(B) PROVE Caught(B, c.obj) = c.count
  <2>1. CASE c \in ToSet(B.scheduled)
    <3>1. Listed(B.scheduled, c.obj) /\ FirstOf(B.scheduled, c.obj) = c
      BY <1>0, <2>1, FirstOfDistinct DEF Orderly, OncePerObject
    <3> QED
      BY <3>1 DEF Caught
  <2>2. CASE c \in ToSet(B.forked)
    <3>1. Listed(B.forked, c.obj) /\ FirstOf(B.forked, c.obj) = c
      BY <1>0, <2>2, FirstOfDistinct DEF Orderly, OncePerObject
    <3>2. ~Listed(B.scheduled, c.obj)
      BY <1>1, <2>2 DEF Orderly, OncePerObject, Apart
    <3> QED
      BY <3>1, <3>2 DEF Caught
  <2>3. CASE c \in B.draining
    <3>0. \A d \in ToSet(B.scheduled) \union ToSet(B.forked) : d.obj # c.obj
      BY <2>3 DEF Orderly, OncePerObject, Apart
    <3>1. ~Listed(B.scheduled, c.obj) /\ ~Listed(B.forked, c.obj)
      BY <1>1, <3>0
    <3>2. Drained(B, c.obj) /\ (CHOOSE d \in B.draining : d.obj = c.obj) = c
      BY <2>3 DEF Orderly, OncePerObject, Drained
    <3> QED
      BY <3>1, <3>2 DEF Caught
  <2> QED
    BY <2>1, <2>2, <2>3 DEF Held
<1>3. ASSUME NEW o \in Objects, \A c \in Held(B) : c.obj # o PROVE Caught(B, o) = 0
  <2>1. ~Listed(B.scheduled, o) /\ ~Listed(B.forked, o)
    BY <1>1, <1>3 DEF Held
  <2>2. ~Drained(B, o)
    BY <1>3 DEF Held, Drained
  <2> QED
    BY <2>1, <2>2 DEF Caught
<1>4. \A c \in Held(B) : c.count \in Nat
  BY HeldType DEF Orderly
<1>5. ASSUME NEW o \in Objects PROVE Caught(B, o) \in Nat
  <2>1. CASE \A c \in Held(B) : c.obj # o
    BY <1>3, <2>1
  <2>2. CASE \E c \in Held(B) : c.obj = o
    BY <1>2, <1>4, <2>2
  <2> QED
    BY <2>1, <2>2
<1> QED
  BY <1>2, <1>3, <1>5

\* What the contexts of two books have in common.
LEMMA CaughtSame ==
  ASSUME NEW B, Orderly(B), NEW R, Orderly(R), NEW o \in Objects,
         Others(Held(R), o) = Others(Held(B), o)
  PROVE  \A x \in Objects : x # o => Caught(R, x) = Caught(B, x)
<1> SUFFICES ASSUME NEW x \in Objects, x # o PROVE Caught(R, x) = Caught(B, x)
  OBVIOUS
<1>1. CASE \E c \in Held(B) : c.obj = x
  <2>1. PICK c \in Held(B) : c.obj = x
    BY <1>1
  <2>2. c \in Held(R)
    BY <2>1 DEF Others
  <2> QED
    BY <2>1, <2>2, CaughtFacts
<1>2. CASE \A c \in Held(B) : c.obj # x
  <2>1. \A c \in Held(R) : c.obj # x
    BY <1>2 DEF Others
  <2> QED
    BY <1>2, <2>1, CaughtFacts
<1> QED
  BY <1>1, <1>2

\* take_back leaves no context of o.
LEMMA TakeBack ==
  ASSUME NEW B, Orderly(B), NEW o \in Objects, NEW R, R = take_back(B, o)
  PROVE  /\ Orderly(R) /\ Held(R) = Others(Held(B), o)
         /\ \A c \in B.draining : c.obj # o => c \in R.draining
         /\ R.total = B.total /\ R.at = B.at /\ R.count = B.count /\ R.fatal = B.fatal
         /\ R.cleared = B.cleared /\ R.caller = B.caller
<1>0. /\ B.scheduled \in Seq(Context) /\ B.forked \in Seq(Context)
      /\ B.draining \in SUBSET Context /\ B \in BookSet
  BY DEF Orderly, BookSet
<1>1. CASE Listed(B.scheduled, o)
  <2>1. PICK new : new = RemoveFirst(B.scheduled, FirstOf(B.scheduled, o))
    OBVIOUS
  <2>2. new \in Seq(Context) /\ Distinct(new) /\ ToSet(new) = Others(ToSet(B.scheduled), o)
    BY <1>0, <1>1, <2>1, RemoveDistinct DEF Orderly, OncePerObject
  <2>3. R = [B EXCEPT !.scheduled = new]
    BY <1>1, <2>1 DEF take_back
  <2>4. R \in BookSet /\ R.scheduled = new /\ R.forked = B.forked /\ R.draining = B.draining
        /\ R.total = B.total /\ R.at = B.at /\ R.count = B.count /\ R.fatal = B.fatal
        /\ R.cleared = B.cleared /\ R.caller = B.caller
    BY <1>0, <2>2, <2>3 DEF BookSet
  <2>5. \A c \in ToSet(B.forked) \union B.draining : c.obj # o
    <3>1. \E c \in ToSet(B.scheduled) : c.obj = o
      BY <1>0, <1>1 DEF Listed, ToSet
    <3> QED
      BY <3>1 DEF Orderly, OncePerObject, Apart
  <2>6. Held(R) = Others(Held(B), o)
    BY <2>2, <2>4, <2>5 DEF Held, Others
  <2>7. OncePerObject(R)
    BY <2>2, <2>4 DEF Orderly, OncePerObject, Apart, Others
  <2> QED
    BY <2>4, <2>6, <2>7 DEF Orderly
<1>2. CASE ~Listed(B.scheduled, o) /\ Listed(B.forked, o)
  <2>1. PICK new : new = RemoveFirst(B.forked, FirstOf(B.forked, o))
    OBVIOUS
  <2>2. new \in Seq(Context) /\ Distinct(new) /\ ToSet(new) = Others(ToSet(B.forked), o)
    BY <1>0, <1>2, <2>1, RemoveDistinct DEF Orderly, OncePerObject
  <2>3. R = [B EXCEPT !.forked = new]
    BY <1>2, <2>1 DEF take_back
  <2>4. R \in BookSet /\ R.forked = new /\ R.scheduled = B.scheduled /\ R.draining = B.draining
        /\ R.total = B.total /\ R.at = B.at /\ R.count = B.count /\ R.fatal = B.fatal
        /\ R.cleared = B.cleared /\ R.caller = B.caller
    BY <1>0, <2>2, <2>3 DEF BookSet
  <2>5. \A c \in ToSet(B.scheduled) \union B.draining : c.obj # o
    <3>1. \E c \in ToSet(B.forked) : c.obj = o
      BY <1>0, <1>2 DEF Listed, ToSet
    <3> QED
      BY <3>1 DEF Orderly, OncePerObject, Apart
  <2>6. Held(R) = Others(Held(B), o)
    BY <2>2, <2>4, <2>5 DEF Held, Others
  <2>7. OncePerObject(R)
    BY <2>2, <2>4 DEF Orderly, OncePerObject, Apart, Others
  <2> QED
    BY <2>4, <2>6, <2>7 DEF Orderly
<1>3. CASE ~Listed(B.scheduled, o) /\ ~Listed(B.forked, o)
  <2>1. R = [B EXCEPT !.draining = Others(B.draining, o)]
    BY <1>3 DEF take_back, Others
  <2>2. R \in BookSet /\ R.draining = Others(B.draining, o)
        /\ R.scheduled = B.scheduled /\ R.forked = B.forked
        /\ R.total = B.total /\ R.at = B.at /\ R.count = B.count /\ R.fatal = B.fatal
        /\ R.cleared = B.cleared /\ R.caller = B.caller
    <3>1. Others(B.draining, o) \in SUBSET Context
      BY <1>0 DEF Others
    <3> QED
      BY <1>0, <2>1, <3>1 DEF BookSet
  <2>3. \A c \in ToSet(B.scheduled) \union ToSet(B.forked) : c.obj # o
    BY <1>0, <1>3 DEF Listed, ToSet
  <2>4. Held(R) = Others(Held(B), o)
    BY <2>2, <2>3 DEF Held, Others
  <2>5. OncePerObject(R)
    BY <2>2 DEF Orderly, OncePerObject, Apart, Others
  <2> QED
    BY <2>2, <2>4, <2>5 DEF Orderly, Others
<1> QED
  BY <1>1, <1>2, <1>3

-----------------------------------------------------------------------------
(* The loop invariant of a propagation: totals are sums, but for the call  *)
(* that is still to be made.                                               *)

\* What an object stands for in the total of its parent.
Weight(B) == [c \in Objects |-> B.total[c] + Caught(B, c)]

ChildSum(w, o) == SumOf([c \in Children(o) |-> w[c]])

Sums(B, source) ==
  \A o \in Objects :
    B.total[o] + (IF o = B.at THEN B.count ELSE 0) = source[o] + ChildSum(Weight(B), o)

\* Where only single objections are raised and dropped, only such are pending.
Ones(B) ==
  Counts \subseteq {1} =>
    B.count \in {-1, 0, 1} /\ \A c \in Held(B) : c.count = 1

\* A process that is going to kill itself is still there.
CallerOK(B) ==
  B.caller # NoObject =>
    /\ Counts \subseteq {1} /\ B.count \in {0, 1}
    /\ B.count = 1 => \E c \in B.draining : c.obj = B.caller

Sound(B, source) ==
  /\ Orderly(B)
  /\ \A c \in Held(B) : B.total[c.obj] = 0
  /\ ~B.fatal
  /\ B.count # 0 => B.at \in Objects
  /\ Sums(B, source)
  /\ Ones(B) /\ CallerOK(B)

LEMMA WeightType ==
  ASSUME NEW B, Orderly(B)
  PROVE  /\ Weight(B) \in [Objects -> Nat]
         /\ \A x \in Objects : /\ Weight(B)[x] = B.total[x] + Caught(B, x)
                               /\ B.total[x] \in Nat /\ Caught(B, x) \in Nat
<1>1. \A x \in Objects : B.total[x] \in Nat
  BY DEF Orderly, BookSet
<1>2. \A x \in Objects : Caught(B, x) \in Nat
  BY CaughtFacts
<1> QED
  BY <1>1, <1>2 DEF Weight

LEMMA ChildSumChange ==
  ASSUME NEW v \in [Objects -> Nat], NEW w \in [Objects -> Nat], NEW o \in Objects,
         \A x \in Objects : x # o => v[x] = w[x], NEW y \in Objects
  PROVE  /\ ChildSum(w, y) \in Nat /\ ChildSum(v, y) \in Nat
         /\ ChildSum(v, y) = ChildSum(w, y) + IF o \in Children(y) THEN v[o] - w[o] ELSE 0
<1> DEFINE f == [c \in Children(y) |-> w[c]]
           g == [c \in Children(y) |-> v[c]]
<1>1. Children(y) \subseteq Objects /\ IsFiniteSet(Children(y))
  BY ObjectionAssumption, FS_Subset DEF Children
<1>2. f \in [Children(y) -> Nat] /\ g \in [Children(y) -> Nat]
  BY <1>1
<1>3. ChildSum(w, y) = SumOf(f) /\ ChildSum(v, y) = SumOf(g)
  BY DEF ChildSum
<1>4. SumOf(f) \in Nat /\ SumOf(g) \in Nat
  BY <1>1, <1>2, SumType
<1>5. CASE o \in Children(y)
  <2>1. \A c \in Children(y) : c # o => g[c] = f[c]
    BY <1>1
  <2>2. f[o] = w[o] /\ g[o] = v[o] /\ w[o] \in Nat /\ v[o] \in Nat
    BY <1>5
  <2> HIDE DEF f, g
  <2>3. SumOf(g) = SumOf(f) - f[o] + g[o]
    BY <1>1, <1>2, <1>5, <2>1, SumChange
  <2> QED
    BY <1>3, <1>4, <1>5, <2>2, <2>3
<1>6. CASE o \notin Children(y)
  <2>1. f = g
    BY <1>1, <1>6
  <2> HIDE DEF f, g
  <2> QED
    BY <1>3, <1>4, <1>6, <2>1
<1> QED
  BY <1>5, <1>6

\* A call changes the sums at its object and leaves the rest to the parent.
LEMMA SumsMove ==
  ASSUME NEW B, Orderly(B), NEW source \in [Objects -> Nat], Sums(B, source),
         NEW o \in Objects, o = B.at, NEW R, Orderly(R),
         \A x \in Objects : R.total[x] = B.total[x] + IF x = o THEN B.count ELSE 0,
         \A x \in Objects : x # o => Caught(R, x) = Caught(B, x),
         NEW delta \in Int, delta = B.count + Caught(R, o) - Caught(B, o),
         \/ R.count = 0 /\ (o = Top \/ delta = 0)
         \/ o # Top /\ R.at = m_get_parent(o) /\ R.count = delta
  PROVE  Sums(R, source)
<1> SUFFICES ASSUME NEW y \in Objects
             PROVE  R.total[y] + (IF y = R.at THEN R.count ELSE 0)
                      = source[y] + ChildSum(Weight(R), y)
  BY DEF Sums
<1> DEFINE v == Weight(R)
           w == Weight(B)
<1>1. /\ v \in [Objects -> Nat] /\ w \in [Objects -> Nat]
      /\ v[o] = R.total[o] + Caught(R, o) /\ w[o] = B.total[o] + Caught(B, o)
      /\ Caught(R, o) \in Nat /\ Caught(B, o) \in Nat
      /\ R.total[o] \in Nat /\ B.total[o] \in Nat /\ R.total[y] \in Nat /\ B.total[y] \in Nat
  BY WeightType
<1>2. \A x \in Objects : x # o => v[x] = w[x]
  BY WeightType
<1>3. B.count \in Int /\ R.count \in Int /\ source[y] \in Nat
  BY DEF Orderly, BookSet
<1>4. v[o] - w[o] = delta
  <2>1. R.total[o] = B.total[o] + B.count
    OBVIOUS
  <2> QED
    BY <1>1, <1>3, <2>1
<1> HIDE DEF v, w
<1>5. /\ ChildSum(w, y) \in Nat /\ ChildSum(v, y) \in Nat
      /\ ChildSum(v, y) = ChildSum(w, y) + IF o \in Children(y) THEN v[o] - w[o] ELSE 0
  BY <1>1, <1>2, ChildSumChange
<1>6. R.total[y] = source[y] + ChildSum(w, y)
  <2>1. B.total[y] + (IF y = o THEN B.count ELSE 0) = source[y] + ChildSum(w, y)
    BY DEF Sums, w
  <2>2. R.total[y] = B.total[y] + IF y = o THEN B.count ELSE 0
    OBVIOUS
  <2> QED
    BY <2>1, <2>2
<1>7. (IF y = R.at THEN R.count ELSE 0) = IF o \in Children(y) THEN delta ELSE 0
  <2>1. o \in Children(y) <=> o # Top /\ y = m_get_parent(o)
    BY DEF Children
  <2> QED
    BY <2>1
<1> QED
  <2> DEFINE m == ChildSum(w, y)
             n == ChildSum(v, y)
             d == IF o \in Children(y) THEN delta ELSE 0
             t == R.total[y]
             s == source[y]
             r == IF y = R.at THEN R.count ELSE 0
  <2>1. d \in Int /\ m \in Int /\ s \in Int
    BY <1>3, <1>5
  <2>2. n = m + d /\ t = s + m /\ r = d
    BY <1>4, <1>5, <1>6, <1>7
  <2>3. t + r = s + n
    <3> HIDE DEF m, n, d, t, s, r
    <3> QED
      BY <2>1, <2>2
  <2> QED
    BY <2>3 DEF v

\* How far the next call is from the root.
Left(B) == IF B.count = 0 THEN 0 ELSE Cardinality(Above(B.at))

\* What a call does to the books.
CallOK(B, R, source) ==
  Sound(R, source) /\ Left(R) < Left(B)

LEMMA LeftType ==
  ASSUME m_prop_mode \in BOOLEAN, NEW B, B.count # 0 => B.at \in Objects
  PROVE  Left(B) \in Nat /\ (Left(B) = 0 <=> B.count = 0) /\ Left(B) <= Cardinality(Objects)
<1>1. ASSUME NEW o \in Objects
      PROVE  /\ Cardinality(Above(o)) \in Nat /\ Cardinality(Above(o)) # 0
             /\ Cardinality(Above(o)) <= Cardinality(Objects)
  <2>1. IsFiniteSet(Above(o)) /\ Cardinality(Above(o)) <= Cardinality(Objects)
    BY AboveFacts, FS_Subset, ObjectionAssumption
  <2>2. Above(o) # {}
    BY AboveFacts
  <2> QED
    BY <2>1, <2>2, FS_CardinalityType, FS_EmptySet
<1>2. Cardinality(Objects) \in Nat
  BY FS_CardinalityType, ObjectionAssumption
<1> QED
  BY <1>1, <1>2 DEF Left

LEMMA CallNearer ==
  ASSUME m_prop_mode \in BOOLEAN, NEW B, NEW R, NEW o \in Objects, o = B.at, B.count # 0,
         \/ R.count = 0
         \/ o # Top /\ R.at = m_get_parent(o)
  PROVE  Left(R) < Left(B) /\ (R.count # 0 => R.at \in Objects)
<1>1. CASE R.count = 0
  BY <1>1, LeftType DEF Left
<1>2. CASE R.count # 0
  <2>1. o \in Objects \ {Top} /\ R.at = m_get_parent(o)
    BY <1>2
  <2> QED
    BY <1>2, <2>1, ParentNearer DEF Left
<1> QED
  BY <1>1, <1>2

\* A raise at one object.
LEMMA RaiseSound ==
  ASSUME m_prop_mode \in BOOLEAN, NEW source \in [Objects -> Nat], NEW B, Sound(B, source),
         B.count > 0
  PROVE  CallOK(B, m_raise(B), source)
<1> DEFINE o == B.at
           T == [B EXCEPT !.total[o] = @ + B.count]
           K == take_back(T, o)
           delta == B.count - Caught(B, o)
           stops == o = Top \/ o = B.caller
           R == IF stops THEN [K EXCEPT !.count = 0]
                ELSE [K EXCEPT !.at = m_get_parent(o), !.count = delta]
<1>0. /\ B \in BookSet /\ OncePerObject(B) /\ o \in Objects /\ B.count \in Int
      /\ B.total \in [Objects -> Nat]
  BY DEF Sound, Orderly, BookSet
<1>1. m_raise(B) = R
  BY DEF m_raise, CallAt
<1>2. /\ Orderly(T) /\ Held(T) = Held(B)
      /\ T.total = [B.total EXCEPT ![o] = @ + B.count]
      /\ T.draining = B.draining
      /\ T.at = B.at /\ T.count = B.count /\ T.fatal = B.fatal
      /\ T.cleared = B.cleared /\ T.caller = B.caller
  <2>1. B.total[o] + B.count \in Nat
    BY <1>0
  <2>2. PICK t \in [Objects -> Nat] : t = [B.total EXCEPT ![o] = @ + B.count]
    BY <1>0, <2>1
  <2>3. T = [B EXCEPT !.total = t]
    BY <2>2
  <2> HIDE DEF T
  <2>4. T \in BookSet /\ T.total = t /\ T.scheduled = B.scheduled /\ T.forked = B.forked
        /\ T.draining = B.draining /\ T.at = B.at /\ T.count = B.count /\ T.fatal = B.fatal
        /\ T.cleared = B.cleared /\ T.caller = B.caller
    BY <1>0, <2>3 DEF BookSet
  <2>5. OncePerObject(T) /\ Held(T) = Held(B)
    BY <1>0, <2>4 DEF OncePerObject, Held
  <2> QED
    BY <2>2, <2>4, <2>5 DEF Orderly
<1> HIDE DEF T
<1>3. /\ Orderly(K) /\ Held(K) = Others(Held(B), o)
      /\ \A c \in B.draining : c.obj # o => c \in K.draining
      /\ K.total = T.total /\ K.at = B.at /\ K.count = B.count /\ K.fatal = B.fatal
      /\ K.cleared = B.cleared /\ K.caller = B.caller
  <2>1. /\ Orderly(K) /\ Held(K) = Others(Held(T), o)
        /\ \A c \in T.draining : c.obj # o => c \in K.draining
        /\ K.total = T.total /\ K.at = T.at /\ K.count = T.count /\ K.fatal = T.fatal
        /\ K.cleared = T.cleared /\ K.caller = T.caller
    BY <1>0, <1>2, TakeBack
  <2> QED
    BY <1>2, <2>1
<1> HIDE DEF K
<1>4. Caught(B, o) \in Nat /\ delta \in Int
  <2>1. Caught(B, o) \in Nat
    BY <1>0, CaughtFacts DEF Sound
  <2> QED
    BY <1>0, <2>1
<1>5. /\ Orderly(R) /\ Held(R) = Others(Held(B), o)
      /\ R.total = T.total /\ R.fatal = B.fatal /\ R.draining = K.draining
      /\ R.cleared = B.cleared /\ R.caller = B.caller
      /\ stops => R.count = 0
      /\ ~stops => R.at = m_get_parent(o) /\ R.count = delta
  <2>1. K \in BookSet /\ OncePerObject(K)
    BY <1>3 DEF Orderly
  <2>2. ~stops => m_get_parent(o) \in Objects
    BY <1>0, ParentNearer
  <2>3. /\ R \in BookSet /\ R.scheduled = K.scheduled /\ R.forked = K.forked
        /\ R.draining = K.draining /\ R.total = K.total /\ R.fatal = K.fatal
        /\ R.cleared = K.cleared /\ R.caller = K.caller
        /\ stops => R.count = 0
        /\ ~stops => R.at = m_get_parent(o) /\ R.count = delta
    <3>1. CASE stops
      <4>1. PICK n \in Int : n = 0 /\ R = [K EXCEPT !.count = n]
        BY <3>1
      <4> HIDE DEF R, stops, delta
      <4>2. /\ R \in BookSet /\ R.scheduled = K.scheduled /\ R.forked = K.forked
            /\ R.draining = K.draining /\ R.total = K.total /\ R.fatal = K.fatal
            /\ R.cleared = K.cleared /\ R.caller = K.caller /\ R.count = n
        BY <2>1, <4>1 DEF BookSet
      <4> QED
        BY <3>1, <4>1, <4>2
    <3>2. CASE ~stops
      <4>1. R = [K EXCEPT !.at = m_get_parent(o), !.count = delta]
        BY <3>2
      <4>2. PICK p \in Objects, d \in Int : p = m_get_parent(o) /\ d = delta
        BY <1>4, <2>2, <3>2
      <4> HIDE DEF R, stops, delta
      <4>3. R = [K EXCEPT !.at = p, !.count = d]
        BY <4>1, <4>2
      <4> QED
        BY <2>1, <3>2, <4>2, <4>3 DEF BookSet
    <3> QED
      BY <3>1, <3>2
  <2> HIDE DEF R, stops, delta
  <2>4. OncePerObject(R) /\ Held(R) = Held(K)
    BY <2>1, <2>3 DEF OncePerObject, Held
  <2> QED
    BY <1>3, <2>3, <2>4 DEF Orderly
<1> HIDE DEF R
<1>6. \A x \in Objects : R.total[x] = B.total[x] + IF x = o THEN B.count ELSE 0
  BY <1>0, <1>2, <1>5
<1>7. Caught(R, o) = 0 /\ \A x \in Objects : x # o => Caught(R, x) = Caught(B, x)
  <2>1. Orderly(B) /\ Others(Held(R), o) = Others(Held(B), o)
    BY <1>5 DEF Sound, Others
  <2>2. \A c \in Held(R) : c.obj # o
    BY <1>5 DEF Others
  <2>3. \A x \in Objects : x # o => Caught(R, x) = Caught(B, x)
    BY <1>0, <1>5, <2>1, CaughtSame
  <2> QED
    BY <1>0, <1>5, <2>2, <2>3, CaughtFacts
<1>8. /\ Ones(R) /\ CallerOK(R)
      /\ stops => o = Top \/ delta = 0
  <2>1. Counts \subseteq {1} => Caught(B, o) \in {0, 1} /\ B.count = 1
    <3> SUFFICES ASSUME Counts \subseteq {1} PROVE Caught(B, o) \in {0, 1} /\ B.count = 1
      OBVIOUS
    <3>1. \A c \in Held(B) : Caught(B, c.obj) = 1
      BY CaughtFacts DEF Sound, Ones
    <3>2. (\A c \in Held(B) : c.obj # o) => Caught(B, o) = 0
      BY <1>0, CaughtFacts DEF Sound
    <3> QED
      BY <3>1, <3>2 DEF Sound, Ones
  <2>2. Ones(R)
    <3>1. Held(R) \subseteq Held(B)
      BY <1>5 DEF Others
    <3>2. Counts \subseteq {1} => R.count \in {-1, 0, 1}
      BY <1>5, <2>1
    <3> QED
      BY <3>1, <3>2 DEF Sound, Ones
  <2>3. ASSUME B.caller # NoObject
        PROVE  /\ Counts \subseteq {1} /\ Caught(B, B.caller) = 1
               /\ \E c \in B.draining : c.obj = B.caller
    <3>1. PICK c \in B.draining : c.obj = B.caller
      BY <2>1, <2>3 DEF Sound, CallerOK
    <3>2. Counts \subseteq {1} /\ c \in Held(B) /\ c.count = 1
      BY <2>3, <3>1 DEF Sound, CallerOK, Ones, Held
    <3> QED
      BY <3>1, <3>2, CaughtFacts DEF Sound
  <2>4. stops => o = Top \/ delta = 0
    <3> SUFFICES ASSUME o = B.caller PROVE delta = 0
      OBVIOUS
    <3>1. B.caller # NoObject
      BY <1>0, ObjectionAssumption
    <3> QED
      BY <2>1, <2>3, <3>1
  <2>5. CallerOK(R)
    <3> SUFFICES ASSUME B.caller # NoObject
                 PROVE  /\ Counts \subseteq {1} /\ R.count \in {0, 1}
                        /\ R.count = 1 => \E c \in R.draining : c.obj = B.caller
      BY <1>5 DEF CallerOK
    <3>1. CASE stops
      BY <1>5, <2>3, <3>1
    <3>2. CASE ~stops
      <4>1. PICK c \in B.draining : c.obj = B.caller
        BY <2>3
      <4>3. c \in K.draining
        BY <1>3, <3>2, <4>1
      <4> QED
        BY <1>5, <2>1, <2>3, <3>2, <4>1, <4>3
    <3> QED
      BY <3>1, <3>2
  <2> QED
    BY <2>2, <2>4, <2>5
<1>9. Sums(R, source)
  <2>1. delta = B.count + Caught(R, o) - Caught(B, o)
    BY <1>0, <1>4, <1>7
  <2>2. \/ R.count = 0 /\ (o = Top \/ delta = 0)
        \/ o # Top /\ R.at = m_get_parent(o) /\ R.count = delta
    BY <1>5, <1>8
  <2>3. Orderly(B) /\ Sums(B, source)
    BY DEF Sound
  <2> HIDE DEF delta, stops
  <2> QED
    BY <1>0, <1>4, <1>5, <1>6, <1>7, <2>1, <2>2, <2>3, SumsMove
<1>10. \A c \in Held(R) : R.total[c.obj] = 0
  <2> SUFFICES ASSUME NEW c \in Held(B), c.obj # o PROVE R.total[c.obj] = 0
    BY <1>5 DEF Others
  <2>1. c.obj \in Objects /\ B.total[c.obj] = 0
    BY <1>0, HeldType DEF Sound
  <2> QED
    BY <1>6, <2>1
<1>11. Left(R) < Left(B) /\ (R.count # 0 => R.at \in Objects)
  <2>1. R.count = 0 \/ (o # Top /\ R.at = m_get_parent(o))
    BY <1>5
  <2>2. B.count # 0
    BY <1>0
  <2> QED
    BY <1>0, <2>1, <2>2, CallNearer
<1> QED
  BY <1>1, <1>5, <1>8, <1>9, <1>10, <1>11 DEF CallOK, Sound

\* A drop at one object: the total suffices, because it is a sum.
LEMMA DropSound ==
  ASSUME m_prop_mode \in BOOLEAN, NEW source \in [Objects -> Nat], NEW B, Sound(B, source),
         B.count < 0
  PROVE  CallOK(B, m_drop(B), source)
<1> DEFINE o == B.at
           left == B.total[o] + B.count
           c == [obj |-> o, count |-> -B.count]
           D == [B EXCEPT !.total[o] = left, !.count = 0]
           R == IF left = 0 THEN [D EXCEPT !.scheduled = Append(@, c)]
                ELSE IF o = Top THEN D
                ELSE [D EXCEPT !.at = m_get_parent(o), !.count = B.count]
<1>0. /\ B \in BookSet /\ OncePerObject(B) /\ o \in Objects /\ B.count \in Int
      /\ B.total \in [Objects -> Nat] /\ B.scheduled \in Seq(Context) /\ Orderly(B)
      /\ B.total[o] \in Nat
  BY DEF Sound, Orderly, BookSet
<1>1. left \in Nat
  <2>1. left = source[o] + ChildSum(Weight(B), o)
    BY <1>0 DEF Sound, Sums
  <2>2. ChildSum(Weight(B), o) \in Nat
    BY <1>0, WeightType, ChildSumChange
  <2>3. source[o] \in Nat
    BY <1>0
  <2> HIDE DEF left
  <2> QED
    BY <2>1, <2>2, <2>3
<1>2. m_drop(B) = R
  <2>1. ~(left < 0)
    BY <1>1
  <2> QED
    BY <2>1 DEF m_drop, CallAt
<1>3. c \in Context /\ c.obj = o /\ c.count = -B.count
  BY <1>0 DEF Context
<1>4. \A d \in Held(B) : d.obj # o
  <2>1. B.total[o] # 0
    BY <1>0, <1>1
  <2> QED
    BY <2>1 DEF Sound
<1>5. /\ Orderly(D) /\ Held(D) = Held(B)
      /\ D.total = [B.total EXCEPT ![o] = left] /\ D.count = 0
      /\ D.scheduled = B.scheduled /\ D.forked = B.forked /\ D.draining = B.draining
      /\ D.at = B.at /\ D.fatal = B.fatal /\ D.cleared = B.cleared /\ D.caller = B.caller
  <2>1. PICK t \in [Objects -> Nat] : t = [B.total EXCEPT ![o] = left]
    <3> HIDE DEF left
    <3>1. [B.total EXCEPT ![o] = left] \in [Objects -> Nat]
      BY <1>0, <1>1
    <3> QED
      BY <3>1
  <2>0. PICK n \in Int : n = 0
    OBVIOUS
  <2>2. D = [B EXCEPT !.total = t, !.count = n]
    BY <2>0, <2>1
  <2> HIDE DEF D, left
  <2>3. D \in BookSet /\ D.total = t /\ D.scheduled = B.scheduled /\ D.forked = B.forked
        /\ D.draining = B.draining /\ D.at = B.at /\ D.count = n /\ D.fatal = B.fatal
        /\ D.cleared = B.cleared /\ D.caller = B.caller
    BY <1>0, <2>2 DEF BookSet
  <2>4. OncePerObject(D) /\ Held(D) = Held(B)
    BY <1>0, <2>3 DEF OncePerObject, Held
  <2> QED
    BY <2>0, <2>1, <2>3, <2>4 DEF Orderly
<1> HIDE DEF D, c
<1>6. /\ Orderly(R) /\ R.total = [B.total EXCEPT ![o] = left]
      /\ R.fatal = B.fatal /\ R.cleared = B.cleared /\ R.caller = B.caller
      /\ R.draining = B.draining
      /\ IF left = 0 THEN Held(R) = Held(B) \union {c} /\ R.count = 0
         ELSE /\ Held(R) = Held(B)
              /\ IF o = Top THEN R.count = 0
                 ELSE R.at = m_get_parent(o) /\ R.count = B.count
  <2>0. D \in BookSet /\ OncePerObject(D)
    BY <1>5 DEF Orderly
  <2>1. CASE left = 0
    <3>1. PICK new : new = Append(B.scheduled, c)
      OBVIOUS
    <3>2. \A d \in ToSet(B.scheduled) : d.obj # c.obj
      BY <1>3, <1>4 DEF Held
    <3>3. /\ new \in Seq(Context) /\ Distinct(new) /\ ToSet(new) = ToSet(B.scheduled) \union {c}
      BY <1>0, <1>3, <3>1, <3>2, AppendDistinct DEF OncePerObject
    <3>4. R = [D EXCEPT !.scheduled = new]
      BY <1>5, <2>1, <3>1
    <3> HIDE DEF R
    <3>5. /\ R \in BookSet /\ R.scheduled = new /\ R.forked = D.forked
          /\ R.draining = D.draining /\ R.total = D.total /\ R.fatal = D.fatal
          /\ R.cleared = D.cleared /\ R.caller = D.caller /\ R.count = D.count
      BY <2>0, <3>3, <3>4 DEF BookSet
    <3>6. Held(R) = Held(B) \union {c}
      BY <1>5, <3>3, <3>5 DEF Held
    <3>7. OncePerObject(R)
      <4>1. \A d \in ToSet(D.forked) \union D.draining : d.obj # c.obj
        BY <1>3, <1>4, <1>5 DEF Held
      <4> QED
        BY <1>5, <2>0, <3>3, <3>5, <4>1 DEF OncePerObject, Apart
    <3> QED
      BY <1>5, <2>1, <3>5, <3>6, <3>7 DEF Orderly
  <2>2. CASE left # 0 /\ o = Top
    <3>1. R = D
      BY <2>2
    <3> HIDE DEF R
    <3> QED
      BY <1>5, <2>2, <3>1
  <2>3. CASE left # 0 /\ o # Top
    <3>1. PICK p \in Objects, n \in Int : p = m_get_parent(o) /\ n = B.count
      BY <1>0, <2>3, ParentNearer
    <3>2. R = [D EXCEPT !.at = p, !.count = n]
      BY <2>3, <3>1
    <3> HIDE DEF R
    <3>3. /\ R \in BookSet /\ R.scheduled = D.scheduled /\ R.forked = D.forked
          /\ R.draining = D.draining /\ R.total = D.total /\ R.fatal = D.fatal
          /\ R.cleared = D.cleared /\ R.caller = D.caller /\ R.at = p /\ R.count = n
      BY <2>0, <3>2 DEF BookSet
    <3>4. OncePerObject(R) /\ Held(R) = Held(D)
      BY <2>0, <3>3 DEF OncePerObject, Held
    <3> QED
      BY <1>5, <2>3, <3>1, <3>3, <3>4 DEF Orderly
  <2> QED
    BY <2>1, <2>2, <2>3
<1> HIDE DEF R
<1>7. \A x \in Objects : R.total[x] = B.total[x] + IF x = o THEN B.count ELSE 0
  <2>1. \A x \in Objects : R.total[x] = IF x = o THEN left ELSE B.total[x]
    BY <1>0, <1>6
  <2>2. \A x \in Objects : B.total[x] \in Nat
    BY <1>0
  <2> QED
    BY <2>1, <2>2
<1>8. /\ Caught(B, o) = 0 /\ Caught(R, o) = IF left = 0 THEN -B.count ELSE 0
      /\ \A x \in Objects : x # o => Caught(R, x) = Caught(B, x)
  <2>1. Others(Held(R), o) = Others(Held(B), o)
    BY <1>3, <1>6 DEF Others
  <2>2. \A x \in Objects : x # o => Caught(R, x) = Caught(B, x)
    BY <1>0, <1>6, <2>1, CaughtSame
  <2>3. Caught(B, o) = 0
    BY <1>0, <1>4, CaughtFacts
  <2>4. CASE left = 0
    <3>1. c \in Held(R)
      BY <1>6, <2>4
    <3>2. Caught(R, o) = -B.count
      BY <1>3, <1>6, <3>1, CaughtFacts
    <3> QED
      BY <2>2, <2>3, <2>4, <3>2
  <2>5. CASE left # 0
    <3>1. Caught(R, o) = 0
      BY <1>0, <1>4, <1>6, <2>5, CaughtFacts
    <3> QED
      BY <2>2, <2>3, <2>5, <3>1
  <2> QED
    BY <2>4, <2>5
<1>9. Sums(R, source)
  <2>1. PICK delta \in Int : delta = IF left = 0 THEN 0 ELSE B.count
    BY <1>0
  <2>2. delta = B.count + Caught(R, o) - Caught(B, o)
    BY <1>0, <1>8, <2>1
  <2>3. \/ R.count = 0 /\ (o = Top \/ delta = 0)
        \/ o # Top /\ R.at = m_get_parent(o) /\ R.count = delta
    BY <1>6, <2>1
  <2>4. Sums(B, source)
    BY DEF Sound
  <2>5. Orderly(R) /\ \A x \in Objects : x # o => Caught(R, x) = Caught(B, x)
    BY <1>6, <1>8
  <2> HIDE DEF left
  <2> QED
    BY <1>0, <1>7, <2>2, <2>3, <2>4, <2>5, SumsMove
<1>10. \A d \in Held(R) : R.total[d.obj] = 0
  <2> SUFFICES ASSUME NEW d \in Held(R) PROVE R.total[d.obj] = 0
    OBVIOUS
  <2>1. CASE d \in Held(B)
    <3>1. d.obj \in Objects /\ d.obj # o /\ B.total[d.obj] = 0
      BY <1>0, <1>4, <2>1, HeldType DEF Sound
    <3> QED
      BY <1>7, <3>1
  <2>2. CASE d = c /\ left = 0
    BY <1>0, <1>3, <1>6, <2>2
  <2> QED
    BY <1>6, <2>1, <2>2
<1>11. Ones(R) /\ CallerOK(R)
  <2>1. B.caller = NoObject
    <3> SUFFICES ASSUME B.caller # NoObject PROVE FALSE
      OBVIOUS
    <3>1. B.count \in {0, 1}
      BY DEF Sound, CallerOK
    <3> QED
      BY <3>1
  <2>2. CallerOK(R)
    BY <1>6, <2>1 DEF CallerOK
  <2>3. Ones(R)
    <3> SUFFICES ASSUME Counts \subseteq {1}
                 PROVE  R.count \in {-1, 0, 1} /\ \A d \in Held(R) : d.count = 1
      BY DEF Ones
    <3>1. B.count = -1 /\ \A d \in Held(B) : d.count = 1
      BY DEF Sound, Ones
    <3> QED
      BY <1>3, <1>6, <3>1
  <2> QED
    BY <2>2, <2>3
<1>12. Left(R) < Left(B) /\ (R.count # 0 => R.at \in Objects)
  <2>1. R.count = 0 \/ (o # Top /\ R.at = m_get_parent(o))
    BY <1>6
  <2>2. B.count # 0
    BY <1>0
  <2> QED
    BY <1>0, <2>1, <2>2, CallNearer
<1>13. ~R.fatal /\ R.cleared = B.cleared
  BY <1>6 DEF Sound
<1> QED
  BY <1>2, <1>6, <1>9, <1>10, <1>11, <1>12, <1>13 DEF CallOK, Sound

\* m_propagate makes all the calls, and ends with sums that are exact.
LEMMA Propagation ==
  ASSUME m_prop_mode \in BOOLEAN, NEW source \in [Objects -> Nat], NEW B, NEW o, NEW count,
         NEW P, P = CallAt(B, o, count), Sound(P, source)
  PROVE  Sound(m_propagate(B, o, count), source) /\ m_propagate(B, o, count).count = 0
<1> DEFINE N == Cardinality(Objects)
<1> DEFINE S == {X \in BookSet : Sound(X, source)}
           calls == CHOOSE c : c = [k \in 0..N |-> IF k = 0 THEN P ELSE Call(c[k - 1])]
<1>2. N \in Nat
  BY FS_CardinalityType, ObjectionAssumption
<1>3. P \in S
  BY DEF Sound, Orderly
<1>4. ASSUME NEW X \in S
      PROVE  Call(X) \in S /\ (X.count # 0 => Left(Call(X)) < Left(X)) /\ (X.count = 0 => Call(X) = X)
  <2>1. X.count \in Int
    BY DEF BookSet
  <2>2. CASE X.count = 0
    BY <2>2 DEF Call
  <2>3. CASE X.count > 0
    <3>1. CallOK(X, m_raise(X), source) /\ Call(X) = m_raise(X)
      BY <2>3, RaiseSound DEF Call
    <3> QED
      BY <2>3, <3>1 DEF CallOK, Sound, Orderly
  <2>4. CASE X.count < 0
    <3>1. CallOK(X, m_drop(X), source) /\ Call(X) = m_drop(X)
      BY <2>1, <2>4, DropSound DEF Call
    <3> QED
      BY <2>4, <3>1 DEF CallOK, Sound, Orderly
  <2> QED
    BY <2>1, <2>2, <2>3, <2>4
<1>5. \A X \in S : (X.count # 0 => X.at \in Objects)
  BY DEF Sound
<1> HIDE DEF S, N
<1>6. PICK f \in [S -> S] : \A X \in S : f[X] = Call(X)
  <2>1. [X \in S |-> Call(X)] \in [S -> S]
    BY <1>4
  <2> QED
    BY <2>1
<1>7. calls = [k \in 0..N |-> IF k = 0 THEN P ELSE Call(calls[k - 1])]
  <2>1. PICK g \in [0..N -> S] : g[0] = P /\ \A k \in 1..N : g[k] = f[g[k - 1]]
    <3> HIDE DEF calls
    <3>1. HasRun(S, f, P, N)
      BY <1>2, <1>3, Iterates
    <3> QED
      BY <3>1 DEF HasRun
  <2>2. ASSUME NEW k \in 0..N PROVE g[k] = IF k = 0 THEN P ELSE Call(g[k - 1])
    <3>1. CASE k = 0
      BY <2>1, <3>1
    <3>2. CASE k # 0
      <4>1. k \in 1..N /\ g[k - 1] \in S
        BY <1>2, <2>1, <3>2
      <4> QED
        BY <1>6, <2>1, <3>2, <4>1
    <3> QED
      BY <3>1, <3>2
  <2>3. g = [k \in 0..N |-> IF k = 0 THEN P ELSE Call(g[k - 1])]
    <3>1. g = [k \in 0..N |-> g[k]]
      OBVIOUS
    <3> QED
      BY <2>2, <3>1
  <2> QED
    BY <2>3
<1>8. m_propagate(B, o, count) = calls[N]
  BY DEF m_propagate, N
<1> HIDE DEF calls
<1> DEFINE T == {k \in Nat : k <= N =>
                  /\ calls[k] \in S
                  /\ Left(calls[k]) = 0 \/ Left(calls[k]) + k <= N}
<1>9. 0 \in T
  <2>1. calls[0] = P
    BY <1>2, <1>7
  <2>2. Left(P) \in Nat /\ Left(P) <= N
    BY <1>3, <1>5, LeftType DEF N
  <2> QED
    BY <1>3, <2>1, <2>2
<1>10. ASSUME NEW k \in T PROVE k + 1 \in T
  <2> SUFFICES ASSUME k + 1 <= N
               PROVE  /\ calls[k + 1] \in S
                      /\ Left(calls[k + 1]) = 0 \/ Left(calls[k + 1]) + (k + 1) <= N
    OBVIOUS
  <2>1. /\ calls[k] \in S
        /\ Left(calls[k]) = 0 \/ Left(calls[k]) + k <= N
    BY <1>2
  <2>2. calls[k + 1] = Call(calls[k])
    <3>1. k + 1 \in 0..N /\ k + 1 # 0 /\ (k + 1) - 1 = k
      BY <1>2
    <3> QED
      BY <1>7, <3>1
  <2>3. Call(calls[k]) \in S
    BY <1>4, <2>1
  <2>4. /\ Left(calls[k]) \in Nat /\ Left(Call(calls[k])) \in Nat
        /\ (Left(calls[k]) = 0 <=> calls[k].count = 0)
    BY <1>5, <2>1, <2>3, LeftType
  <2>5. CASE calls[k].count = 0
    BY <1>4, <2>1, <2>2, <2>4, <2>5
  <2>6. CASE calls[k].count # 0
    <3>1. Left(Call(calls[k])) < Left(calls[k]) /\ Left(calls[k]) + k <= N
      BY <1>4, <2>1, <2>4, <2>6
    <3> QED
      BY <1>2, <2>2, <2>3, <2>4, <3>1
  <2> QED
    BY <2>5, <2>6
<1> HIDE DEF T
<1>11. N \in T
  <2>1. T \in SUBSET Nat
    BY DEF T
  <2>2. T = Nat
    BY <1>9, <1>10, <2>1, NatInductionOnSets
  <2> QED
    BY <1>2, <2>2
<1>12. calls[N] \in S /\ (Left(calls[N]) = 0 \/ Left(calls[N]) + N <= N)
  BY <1>2, <1>11 DEF T
<1>13. Left(calls[N]) \in Nat /\ (Left(calls[N]) = 0 <=> calls[N].count = 0)
  BY <1>5, <1>12, LeftType
<1>14. calls[N].count = 0
  BY <1>2, <1>12, <1>13
<1> QED
  BY <1>8, <1>12, <1>14 DEF S

-----------------------------------------------------------------------------
(* From one state to the next. *)

\* The same lists hold the same contexts.
LEMMA CaughtByLists ==
  ASSUME NEW B, NEW R, R.scheduled = B.scheduled, R.forked = B.forked, R.draining = B.draining
  PROVE  Held(R) = Held(B) /\ \A x : Caught(R, x) = Caught(B, x)
BY DEF Held, Caught, Drained

LEMMA CaughtEqual ==
  ASSUME NEW B, Orderly(B), NEW R, Orderly(R), Held(R) = Held(B)
  PROVE  \A x \in Objects : Caught(R, x) = Caught(B, x)
<1> SUFFICES ASSUME NEW x \in Objects PROVE Caught(R, x) = Caught(B, x)
  OBVIOUS
<1>1. CASE \E c \in Held(B) : c.obj = x
  BY <1>1, CaughtFacts
<1>2. CASE \A c \in Held(B) : c.obj # x
  BY <1>2, CaughtFacts
<1> QED
  BY <1>1, <1>2

\* Books in which nothing is raised.
LEMMA EmptySound ==
  ASSUME NEW B \in BookSet, B.total = [o \in Objects |-> 0], B.scheduled = <<>>,
         B.forked = <<>>, B.draining = {}, ~B.fatal, B.caller = NoObject, B.count = 0
  PROVE  Sound(B, [o \in Objects |-> 0])
<1>1. ToSet(B.scheduled) = {} /\ ToSet(B.forked) = {} /\ Held(B) = {}
  BY DEF ToSet, Held
<1>2. Orderly(B)
  <2>1. Distinct(B.scheduled) /\ Distinct(B.forked)
    BY DEF Distinct
  <2> QED
    BY <1>1, <2>1 DEF Orderly, OncePerObject, Apart
<1>3. \A x \in Objects : Caught(B, x) = 0
  BY <1>1, <1>2, CaughtFacts
<1>4. Sums(B, [o \in Objects |-> 0])
  <2> SUFFICES ASSUME NEW y \in Objects PROVE ChildSum(Weight(B), y) = 0
    BY DEF Sums
  <2>1. PICK f : f = [c \in Children(y) |-> Weight(B)[c]]
    OBVIOUS
  <2>2. \A c \in Children(y) : c \in Objects /\ f[c] = 0
    BY <1>3, <2>1 DEF Children, Weight
  <2>3. f \in [Children(y) -> Nat]
    BY <2>1, <2>2
  <2> QED
    BY <2>1, <2>2, <2>3, SumZero DEF ChildSum
<1> QED
  BY <1>1, <1>2, <1>4 DEF Sound, Ones, CallerOK

\* A propagation starts with what the source has raised or dropped.
LEMMA StartSound ==
  ASSUME NEW source \in [Objects -> Nat], NEW B, Sound(B, source), B.count = 0,
         NEW o \in Objects, NEW n \in Int, n # 0, Counts \subseteq {1} => n \in {-1, 1},
         NEW src \in [Objects -> Nat],
         \A y \in Objects : src[y] = source[y] + IF y = o THEN n ELSE 0,
         NEW P \in BookSet, P.total = B.total, P.scheduled = B.scheduled,
         P.forked = B.forked, P.draining = B.draining, ~P.fatal, P.at = o, P.count = n,
         P.caller # NoObject => /\ Counts \subseteq {1} /\ n = 1
                                /\ \E c \in P.draining : c.obj = P.caller
  PROVE  Sound(P, src)
<1>1. Held(P) = Held(B) /\ \A x : Caught(P, x) = Caught(B, x)
  BY CaughtByLists
<1>2. Orderly(P) /\ Orderly(B)
  BY DEF Sound, Orderly, OncePerObject
<1>3. Weight(P) = Weight(B)
  BY <1>1 DEF Weight
<1>4. Sums(P, src)
  <2> SUFFICES ASSUME NEW y \in Objects
               PROVE  P.total[y] + (IF y = o THEN n ELSE 0) = src[y] + ChildSum(Weight(P), y)
    BY DEF Sums
  <2>1. B.total[y] = source[y] + ChildSum(Weight(B), y)
    <3>1. B.total[y] + 0 = source[y] + ChildSum(Weight(B), y)
      BY DEF Sound, Sums
    <3>2. B.total[y] \in Nat
      BY <1>2, WeightType
    <3> QED
      BY <3>1, <3>2
  <2>2. src[y] = source[y] + IF y = o THEN n ELSE 0
    OBVIOUS
  <2>3. ChildSum(Weight(B), y) \in Nat /\ source[y] \in Nat
    BY <1>2, WeightType, ChildSumChange
  <2> QED
    BY <1>3, <2>1, <2>2, <2>3
<1> QED
  BY <1>1, <1>2, <1>4 DEF Sound, Ones, CallerOK

\* A drain that is over gives its context up.
LEMMA ReleaseSound ==
  ASSUME m_prop_mode \in BOOLEAN, NEW source \in [Objects -> Nat], NEW B, Sound(B, source),
         B.count = 0, NEW c \in B.draining,
         NEW R \in BookSet, R.total = B.total, R.scheduled = B.scheduled,
         R.forked = B.forked, R.draining = B.draining \ {c}, ~R.fatal, R.caller = NoObject,
         \/ c.obj = Top /\ R.count = 0
         \/ c.obj # Top /\ R.at = m_get_parent(c.obj) /\ R.count = -c.count
  PROVE  Sound(R, source) /\ Held(R) = Others(Held(B), c.obj)
<1> DEFINE o == c.obj
<1>0. /\ B \in BookSet /\ OncePerObject(B) /\ Orderly(B) /\ c \in Held(B) /\ c \in Context
      /\ o \in Objects /\ c.count \in Nat \ {0}
  BY DEF Sound, Orderly, BookSet, Context, Held
<1>1. \A d \in Held(B) : d.obj = o => d = c
  BY <1>0 DEF OncePerObject, Apart, Held
<1>2. Held(R) = Others(Held(B), o)
  <2>1. c \notin ToSet(B.scheduled) \union ToSet(B.forked)
    BY <1>0 DEF OncePerObject, Apart
  <2> QED
    BY <1>1, <2>1 DEF Held, Others
<1>3. Orderly(R)
  BY <1>0 DEF Orderly, OncePerObject, Apart
<1>4. /\ Caught(R, o) = 0 /\ Caught(B, o) = c.count
      /\ \A x \in Objects : x # o => Caught(R, x) = Caught(B, x)
  <2>1. Others(Held(R), o) = Others(Held(B), o)
    BY <1>2 DEF Others
  <2>2. \A d \in Held(R) : d.obj # o
    BY <1>2 DEF Others
  <2>3. Caught(B, o) = c.count
    BY <1>0, CaughtFacts
  <2>4. Caught(R, o) = 0
    BY <1>0, <1>3, <2>2, CaughtFacts
  <2>5. \A x \in Objects : x # o => Caught(R, x) = Caught(B, x)
    BY <1>0, <1>3, <2>1, CaughtSame
  <2> QED
    BY <2>3, <2>4, <2>5
<1>5. PICK A : A = [B EXCEPT !.at = o]
  OBVIOUS
<1>6. /\ A \in BookSet /\ A.at = o /\ A.count = 0 /\ A.total = B.total
      /\ A.scheduled = B.scheduled /\ A.forked = B.forked /\ A.draining = B.draining
  BY <1>0, <1>5 DEF BookSet
<1>7. Orderly(A) /\ Sums(A, source) /\ \A x : Caught(A, x) = Caught(B, x)
  <2>1. \A x : Caught(A, x) = Caught(B, x)
    BY <1>6, CaughtByLists
  <2>2. Weight(A) = Weight(B)
    BY <1>6, <2>1 DEF Weight
  <2>3. Sums(A, source)
    BY <1>6, <2>2 DEF Sound, Sums
  <2> QED
    BY <1>0, <1>6, <2>1, <2>3 DEF Orderly, OncePerObject
<1>8. Sums(R, source)
  <2>1. PICK delta \in Int : delta = -c.count
    BY <1>0
  <2>2. delta = A.count + Caught(R, o) - Caught(A, o)
    BY <1>0, <1>4, <1>6, <1>7, <2>1
  <2>3. \A x \in Objects : R.total[x] = A.total[x] + IF x = o THEN A.count ELSE 0
    <3>1. \A x \in Objects : B.total[x] \in Nat
      BY <1>0, WeightType
    <3> QED
      BY <1>6, <3>1
  <2>4. \A x \in Objects : x # o => Caught(R, x) = Caught(A, x)
    BY <1>4, <1>7
  <2>5. \/ R.count = 0 /\ (o = Top \/ delta = 0)
        \/ o # Top /\ R.at = m_get_parent(o) /\ R.count = delta
    BY <2>1
  <2> HIDE DEF o
  <2> QED
    BY <1>0, <1>3, <1>6, <1>7, <2>2, <2>3, <2>4, <2>5, SumsMove
<1>9. R.count # 0 => R.at \in Objects
  BY <1>0, ParentNearer
<1>10. Ones(R) /\ \A d \in Held(R) : R.total[d.obj] = 0
  <2>1. \A d \in Held(R) : d \in Held(B)
    BY <1>2 DEF Others
  <2>2. Counts \subseteq {1} => c.count = 1
    BY <1>0 DEF Sound, Ones
  <2> QED
    BY <2>1, <2>2 DEF Sound, Ones
<1> QED
  BY <1>2, <1>3, <1>8, <1>9, <1>10 DEF Sound, CallerOK

\* Contexts that only change their places.
LEMMA MovedSound ==
  ASSUME NEW source, NEW B, Sound(B, source), B.count = 0,
         NEW R, Orderly(R), R.total = B.total, Held(R) = Held(B), ~R.fatal,
         R.caller = NoObject, R.count = 0
  PROVE  Sound(R, source)
<1>1. \A x \in Objects : Caught(R, x) = Caught(B, x)
  BY CaughtEqual DEF Sound
<1>2. Weight(R) = Weight(B)
  BY <1>1 DEF Weight
<1>3. Sums(R, source)
  BY <1>2 DEF Sound, Sums
<1> QED
  BY <1>3 DEF Sound, Ones, CallerOK

\* Nothing is raised, nothing drains below the root and no drop is to come if
\* nothing is raised at the root.
LEMMA AllQuiet ==
  ASSUME m_prop_mode \in BOOLEAN, NEW source \in [Objects -> Nat], NEW B, Sound(B, source),
         B.count = 0, B.total[Top] = 0
  PROVE  /\ \A x \in Objects : B.total[x] = 0 /\ source[x] = 0
         /\ \A x \in Objects : x # Top => Caught(B, x) = 0
         /\ \A c \in Held(B) : c.obj = Top
<1>0. /\ Orderly(B) /\ Weight(B) \in [Objects -> Nat]
      /\ \A x \in Objects : /\ Weight(B)[x] = B.total[x] + Caught(B, x)
                            /\ B.total[x] \in Nat /\ Caught(B, x) \in Nat
  BY WeightType DEF Sound
<1>1. ASSUME NEW y \in Objects
      PROVE  ChildSum(Weight(B), y) \in Nat /\ B.total[y] = source[y] + ChildSum(Weight(B), y)
  <2>1. B.total[y] + 0 = source[y] + ChildSum(Weight(B), y)
    BY DEF Sound, Sums
  <2> QED
    BY <1>0, <2>1, ChildSumChange
<1>2. ASSUME NEW x \in Objects \ {Top}
      PROVE  /\ m_get_parent(x) \in Objects
             /\ B.total[x] + Caught(B, x) <= B.total[m_get_parent(x)]
  <2>1. PICK p \in Objects : p = m_get_parent(x)
    BY ParentNearer
  <2>2. PICK f : f = [c \in Children(p) |-> Weight(B)[c]]
    OBVIOUS
  <2>3. x \in Children(p) /\ IsFiniteSet(Children(p)) /\ Children(p) \subseteq Objects
    BY <2>1, FS_Subset, ObjectionAssumption DEF Children
  <2>4. f \in [Children(p) -> Nat] /\ f[x] = Weight(B)[x]
    BY <1>0, <2>2, <2>3
  <2>5. f[x] <= ChildSum(Weight(B), p)
    BY <2>2, <2>3, <2>4, SumMember DEF ChildSum
  <2>6. source[p] \in Nat /\ B.total[x] \in Nat /\ Caught(B, x) \in Nat
    BY <1>0
  <2> QED
    BY <1>0, <1>1, <2>1, <2>4, <2>5, <2>6
<1>3. ASSUME NEW x \in Objects PROVE B.total[x] = 0
  <2> DEFINE raised == {z \in Objects : B.total[z] # 0}
  <2>1. SUFFICES ASSUME x \in raised PROVE FALSE
    OBVIOUS
  <2>2. ASSUME NEW z \in raised \ {Top} PROVE m_get_parent(z) \in raised
    <3>1. PICK p \in Objects : p = m_get_parent(z) /\ B.total[z] + Caught(B, z) <= B.total[p]
      BY <1>2
    <3>2. B.total[z] \in Nat /\ B.total[z] # 0 /\ Caught(B, z) \in Nat /\ B.total[p] \in Nat
      BY <1>0
    <3> QED
      BY <3>1, <3>2
  <2>3. CASE m_prop_mode
    <3>1. Upwards(raised)
      BY <2>2, <2>3 DEF Upwards, m_get_parent
    <3>2. Top \in raised
      BY <2>1, <3>1, AboveFacts, ObjectionAssumption
    <3> QED
      BY <3>2
  <2>4. CASE ~m_prop_mode
    <3>1. x # Top
      BY <2>1
    <3> QED
      BY <2>1, <2>2, <2>4, <3>1 DEF m_get_parent
  <2> QED
    BY <2>3, <2>4
<1>4. ASSUME NEW x \in Objects PROVE source[x] = 0
  BY <1>1, <1>3
<1>5. ASSUME NEW x \in Objects, x # Top PROVE Caught(B, x) = 0
  BY <1>0, <1>2, <1>3, <1>5
<1>6. ASSUME NEW c \in Held(B) PROVE c.obj = Top
  <2>1. c.obj \in Objects /\ c.count \in Nat \ {0}
    BY HeldType DEF Sound, Orderly
  <2>2. Caught(B, c.obj) = c.count
    BY <1>0, CaughtFacts
  <2> QED
    BY <1>5, <2>1, <2>2
<1> QED
  BY <1>3, <1>4, <1>5, <1>6

-----------------------------------------------------------------------------
(* The invariant. *)

\* The books of a state.
Shows(B) ==
  /\ m_total_count = B.total /\ m_scheduled_list = B.scheduled
  /\ m_forked_list = B.forked /\ m_forked_contexts = B.draining
  /\ B.count = 0

\* Nothing is raised at the root.
RootQuiet(B) == B.total[Top] = 0

BooksInv ==
  \E source \in [Objects -> Nat], B \in BookSet :
    /\ m_source_count = source /\ Shows(B) /\ Sound(B, source)
    /\ m_top_all_dropped => RootQuiet(B)

FlagsOK == m_prop_mode \in BOOLEAN /\ m_cleared \in BOOLEAN /\ m_top_all_dropped \in BOOLEAN

ObjectionInv == FlagsOK /\ BooksInv

\* A callback that raises an objection kills the process it runs in; where
\* all counts are one there is never a difference left to propagate.
SingleCalls == "raise_in_all_dropped" \in Controls => Counts \subseteq {1}

LEMMA SoundNext ==
  ASSUME NEW R, NEW src, Sound(R, src), UNCHANGED m_prop_mode
  PROVE  Sound(R, src)'
<1>1. \A o : Children(o)' = Children(o)
  BY DEF Children, m_get_parent
<1>2. Sums(R, src)'
  BY <1>1 DEF Sound, Sums, ChildSum
<1> QED
  BY <1>2 DEF Sound

LEMMA InvNext ==
  ASSUME NEW R, NEW src \in [Objects -> Nat], Sound(R, src), R.count = 0,
         m_source_count' = src, m_total_count' = R.total, m_scheduled_list' = R.scheduled,
         m_forked_list' = R.forked, m_forked_contexts' = R.draining,
         UNCHANGED m_prop_mode, m_top_all_dropped' => RootQuiet(R)
  PROVE  BooksInv'
<1>1. Sound(R, src)'
  BY SoundNext
<1>2. R \in BookSet
  BY DEF Sound, Orderly
<1> QED
  BY <1>1, <1>2 DEF BooksInv, Shows

LEMMA CallAtFacts ==
  ASSUME NEW B \in BookSet, NEW o \in Objects, NEW n \in Int, NEW R, R = CallAt(B, o, n)
  PROVE  /\ R \in BookSet /\ R.total = B.total /\ R.scheduled = B.scheduled
         /\ R.forked = B.forked /\ R.draining = B.draining /\ R.fatal = B.fatal
         /\ R.caller = B.caller /\ R.at = o /\ R.count = n
BY DEF BookSet, CallAt

\* A propagation of n from o, in the books BB of the code.
LEMMA PropagateInv ==
  ASSUME m_prop_mode \in BOOLEAN, NEW source \in [Objects -> Nat], NEW B, Sound(B, source), Shows(B),
         NEW BB \in BookSet, BB.total = B.total, BB.scheduled = B.scheduled,
         BB.forked = B.forked, BB.draining = B.draining, ~BB.fatal,
         NEW o \in Objects, NEW n \in Int, n # 0, Counts \subseteq {1} => n \in {-1, 1},
         BB.caller # NoObject => /\ Counts \subseteq {1} /\ n = 1
                                 /\ \E c \in B.draining : c.obj = BB.caller,
         NEW src \in [Objects -> Nat],
         \A y \in Objects : src[y] = source[y] + IF y = o THEN n ELSE 0,
         SetBooks(m_propagate(BB, o, n)), m_source_count' = src,
         UNCHANGED m_prop_mode, ~m_top_all_dropped'
  PROVE  BooksInv' /\ ~fatal'
<1>1. PICK P : P = CallAt(BB, o, n)
  OBVIOUS
<1>2. /\ P \in BookSet /\ P.total = BB.total /\ P.scheduled = BB.scheduled
      /\ P.forked = BB.forked /\ P.draining = BB.draining /\ P.fatal = BB.fatal
      /\ P.caller = BB.caller /\ P.at = o /\ P.count = n
  BY <1>1, CallAtFacts
<1>3. Sound(P, src)
  BY <1>2, StartSound DEF Shows
<1>4. Sound(m_propagate(BB, o, n), src) /\ m_propagate(BB, o, n).count = 0
  BY <1>1, <1>3, Propagation
<1>5. PICK R : R = m_propagate(BB, o, n) /\ Sound(R, src) /\ R.count = 0
  BY <1>4
<1>6. BooksInv'
  BY <1>5, InvNext DEF SetBooks
<1> QED
  BY <1>5, <1>6 DEF SetBooks, Sound

\* The books that an action starts from.
LEMMA BooksFacts ==
  ASSUME NEW B \in BookSet, Shows(B), FlagsOK
  PROVE  /\ Books \in BookSet /\ Books.total = B.total /\ Books.scheduled = B.scheduled
         /\ Books.forked = B.forked /\ Books.draining = B.draining /\ ~Books.fatal
         /\ Books.caller = NoObject
BY DEF BookSet, Shows, FlagsOK, Books

LEMMA RaiseInv ==
  ASSUME ObjectionInv, NEW o \in Objects, NEW count \in Counts, NEW BB \in BookSet,
         BB.total = m_total_count, BB.scheduled = m_scheduled_list,
         BB.forked = m_forked_list, BB.draining = m_forked_contexts, ~BB.fatal,
         BB.caller # NoObject => /\ Counts \subseteq {1}
                                 /\ \E c \in m_forked_contexts : c.obj = BB.caller,
         SetBooks(m_propagate(BB, o, count)),
         m_source_count' = [m_source_count EXCEPT ![o] = @ + count],
         m_cleared' = FALSE, m_top_all_dropped' = FALSE, UNCHANGED m_prop_mode
  PROVE  ObjectionInv' /\ ~fatal'
<1>1. PICK source \in [Objects -> Nat], B \in BookSet :
        m_source_count = source /\ Shows(B) /\ Sound(B, source)
  BY DEF ObjectionInv, BooksInv
<1>2. m_prop_mode \in BOOLEAN /\ count \in Int /\ count # 0 /\ count \in Nat
  BY ObjectionAssumption DEF ObjectionInv, FlagsOK
<1>3. PICK src \in [Objects -> Nat] : src = [source EXCEPT ![o] = @ + count]
  <2>1. [source EXCEPT ![o] = @ + count] \in [Objects -> Nat]
    BY <1>2
  <2> QED
    BY <2>1
<1>4. \A y \in Objects : src[y] = source[y] + IF y = o THEN count ELSE 0
  BY <1>2, <1>3
<1>5. Counts \subseteq {1} => count = 1
  OBVIOUS
<1>6. BooksInv' /\ ~fatal'
  BY <1>1, <1>2, <1>3, <1>4, <1>5, PropagateInv DEF Shows
<1> QED
  BY <1>6 DEF ObjectionInv, FlagsOK

LEMMA PickBooks ==
  ASSUME ObjectionInv
  PROVE  \E source \in [Objects -> Nat], B \in BookSet :
           /\ m_source_count = source /\ Shows(B) /\ Sound(B, source)
           /\ m_top_all_dropped => RootQuiet(B)
BY DEF ObjectionInv, BooksInv

LEMMA StepRaise ==
  ASSUME ObjectionInv, NEW o \in Objects, NEW count \in Counts, raise_objection(o, count)
  PROVE  ObjectionInv' /\ ~fatal'
<1>1. PICK BB : BB = [Books EXCEPT !.cleared = FALSE]
  OBVIOUS
<1>2. PICK B \in BookSet : Shows(B)
  BY PickBooks
<1>3. /\ Books \in BookSet /\ Books.total = m_total_count /\ Books.scheduled = m_scheduled_list
      /\ Books.forked = m_forked_list /\ Books.draining = m_forked_contexts /\ ~Books.fatal
      /\ Books.caller = NoObject
  BY <1>2, BooksFacts DEF Shows, ObjectionInv
<1>4. /\ BB \in BookSet /\ BB.total = m_total_count /\ BB.scheduled = m_scheduled_list
      /\ BB.forked = m_forked_list /\ BB.draining = m_forked_contexts /\ ~BB.fatal
      /\ BB.caller = NoObject
  BY <1>1, <1>3 DEF BookSet
<1>5. SetBooks(m_propagate(BB, o, count))
  BY <1>1 DEF raise_objection
<1>6. /\ m_source_count' = [m_source_count EXCEPT ![o] = @ + count]
      /\ m_cleared' = FALSE /\ m_top_all_dropped' = FALSE /\ UNCHANGED m_prop_mode
  BY DEF raise_objection
<1> QED
  BY <1>4, <1>5, <1>6, RaiseInv

LEMMA StepCallbackRaise ==
  ASSUME SingleCalls, ObjectionInv, NEW c \in m_forked_contexts, NEW o \in Objects,
         NEW count \in Counts, all_dropped_raises(c, o, count)
  PROVE  ObjectionInv' /\ ~fatal'
<1>1. PICK caller \in {c.obj, NoObject} :
        SetBooks(m_propagate([Books EXCEPT !.cleared = FALSE, !.caller = caller], o, count))
  BY DEF all_dropped_raises
<1>2. PICK BB : BB = [Books EXCEPT !.cleared = FALSE, !.caller = caller]
  OBVIOUS
<1>3. PICK B \in BookSet : Shows(B)
  BY PickBooks
<1>4. /\ Books \in BookSet /\ Books.total = m_total_count /\ Books.scheduled = m_scheduled_list
      /\ Books.forked = m_forked_list /\ Books.draining = m_forked_contexts /\ ~Books.fatal
  BY <1>3, BooksFacts DEF Shows, ObjectionInv
<1>5. caller \in Objects \union {NoObject}
  BY <1>3 DEF Shows, BookSet, Context
<1>6. /\ BB \in BookSet /\ BB.total = m_total_count /\ BB.scheduled = m_scheduled_list
      /\ BB.forked = m_forked_list /\ BB.draining = m_forked_contexts /\ ~BB.fatal
      /\ BB.caller = caller
  BY <1>2, <1>4, <1>5 DEF BookSet
<1>7. Counts \subseteq {1}
  BY DEF SingleCalls, all_dropped_raises
<1>8. SetBooks(m_propagate(BB, o, count))
  BY <1>1, <1>2
<1>9. /\ m_source_count' = [m_source_count EXCEPT ![o] = @ + count]
      /\ m_cleared' = FALSE /\ m_top_all_dropped' = FALSE /\ UNCHANGED m_prop_mode
  BY DEF all_dropped_raises
<1>10. BB.caller # NoObject => \E d \in m_forked_contexts : d.obj = BB.caller
  BY <1>1, <1>6
<1> QED
  BY <1>6, <1>7, <1>8, <1>9, <1>10, RaiseInv

\* A drop that is not ignored finds its count everywhere on its way.
LEMMA StepDrop ==
  ASSUME ObjectionInv, NEW o \in Objects, NEW count \in Counts, drop_objection(o, count)
  PROVE  /\ ObjectionInv'
         /\ ~(count > m_total_count[o] \/ count > m_source_count[o]) => ~fatal'
<1>1. PICK source \in [Objects -> Nat], B \in BookSet :
        /\ m_source_count = source /\ Shows(B) /\ Sound(B, source)
        /\ m_top_all_dropped => RootQuiet(B)
  BY PickBooks
<1>2. CASE count > m_total_count[o] \/ count > m_source_count[o]
  <2>1. UNCHANGED <<m_source_count, m_total_count, contexts, m_prop_mode, m_cleared,
                    m_top_all_dropped>>
    BY <1>2 DEF drop_objection
  <2>2. BooksInv'
    BY <1>1, <2>1, InvNext DEF contexts, Shows
  <2> QED
    BY <1>2, <2>1, <2>2 DEF ObjectionInv, FlagsOK
<1>3. CASE ~(count > m_total_count[o] \/ count > m_source_count[o])
  <2>1. count \in Nat /\ count # 0 /\ m_prop_mode \in BOOLEAN
    BY ObjectionAssumption DEF ObjectionInv, FlagsOK
  <2>2. source[o] \in Nat /\ B.total[o] \in Nat /\ B.total[o] = m_total_count[o]
    BY <1>1 DEF BookSet, Shows
  <2>3. source[o] >= count /\ B.total[o] >= count
    BY <1>1, <1>3, <2>1, <2>2
  <2>4. ~m_top_all_dropped
    <3>1. SUFFICES ASSUME m_top_all_dropped PROVE B.total[o] = 0
      BY <2>1, <2>2, <2>3
    <3> QED
      BY <1>1, <2>1, <3>1, AllQuiet DEF RootQuiet, Shows
  <2>5. PICK src \in [Objects -> Nat] : src = [source EXCEPT ![o] = @ - count]
    <3>1. [source EXCEPT ![o] = @ - count] \in [Objects -> Nat]
      BY <2>1, <2>2, <2>3
    <3> QED
      BY <3>1
  <2>6. \A y \in Objects : src[y] = source[y] + IF y = o THEN -count ELSE 0
    BY <2>1, <2>5
  <2>7. /\ m_source_count' = src /\ SetBooks(m_propagate(Books, o, -count))
        /\ UNCHANGED <<m_prop_mode, m_cleared, m_top_all_dropped>>
    BY <1>1, <1>3, <2>5 DEF drop_objection
  <2>8. /\ Books \in BookSet /\ Books.total = B.total /\ Books.scheduled = B.scheduled
        /\ Books.forked = B.forked /\ Books.draining = B.draining /\ ~Books.fatal
        /\ Books.caller = NoObject
    BY <1>1, BooksFacts DEF ObjectionInv
  <2>9. -count \in Int /\ -count # 0 /\ (Counts \subseteq {1} => -count \in {-1, 1})
    BY <2>1
  <2> HIDE DEF Books
  <2>10. BooksInv' /\ ~fatal'
    BY <1>1, <2>1, <2>4, <2>6, <2>7, <2>8, <2>9, PropagateInv
  <2> QED
    BY <2>7, <2>10 DEF ObjectionInv, FlagsOK
<1> QED
  BY <1>2, <1>3

LEMMA StepMode ==
  ASSUME ObjectionInv, NEW mode \in BOOLEAN, set_propagate_mode(mode)
  PROVE  ObjectionInv'
<1>1. PICK source \in [Objects -> Nat], B \in BookSet :
        /\ m_source_count = source /\ Shows(B) /\ Sound(B, source)
        /\ m_top_all_dropped => RootQuiet(B)
  BY PickBooks
<1>2. B.total[Top] = 0
  BY <1>1 DEF set_propagate_mode, RootQuiet, Shows
<1>3. /\ \A x \in Objects : B.total[x] = 0 /\ source[x] = 0
      /\ \A x \in Objects : x # Top => Caught(B, x) = 0
  BY <1>1, <1>2, AllQuiet DEF ObjectionInv, FlagsOK, Shows
<1>4. Sums(B, source)'
  <2> SUFFICES ASSUME NEW y \in Objects PROVE ChildSum(Weight(B), y)' = 0
    BY <1>1, <1>3 DEF Sums, Shows
  <2>1. PICK C : C = Children(y)'
    OBVIOUS
  <2>2. C \subseteq Objects \ {Top}
    BY <2>1 DEF Children
  <2>3. PICK f : f = [c \in C |-> Weight(B)[c]]
    OBVIOUS
  <2>4. \A c \in C : f[c] = 0
    BY <1>3, <2>2, <2>3 DEF Weight
  <2>5. f \in [C -> Nat]
    BY <2>3, <2>4
  <2>6. SumOf(f) = 0
    BY <2>4, <2>5, SumZero
  <2> QED
    BY <2>1, <2>3, <2>6 DEF ChildSum
<1>5. Sound(B, source)'
  BY <1>1, <1>4 DEF Sound
<1>6. /\ UNCHANGED <<m_source_count, m_total_count, contexts, m_cleared, m_top_all_dropped>>
      /\ m_prop_mode' = mode
  BY DEF set_propagate_mode, contexts
<1>7. BooksInv'
  BY <1>1, <1>5, <1>6 DEF BooksInv, Shows, contexts
<1> QED
  BY <1>6, <1>7 DEF ObjectionInv, FlagsOK

\* The books in which nothing is raised, and nobody drains.
NoBooks ==
  [total |-> [o \in Objects |-> 0], scheduled |-> <<>>, forked |-> <<>>,
   draining |-> {}, cleared |-> FALSE, fatal |-> FALSE, caller |-> NoObject,
   at |-> NoObject, count |-> 0]

LEMMA NoBooksSound ==
  /\ Sound(NoBooks, [o \in Objects |-> 0]) /\ [o \in Objects |-> 0] \in [Objects -> Nat]
  /\ NoBooks \in BookSet
<1>1. NoBooks \in BookSet
  BY DEF NoBooks, BookSet
<1>2. /\ NoBooks.total = [o \in Objects |-> 0] /\ NoBooks.scheduled = <<>>
      /\ NoBooks.forked = <<>> /\ NoBooks.draining = {} /\ ~NoBooks.fatal
      /\ NoBooks.caller = NoObject /\ NoBooks.count = 0
  BY DEF NoBooks
<1> HIDE DEF NoBooks
<1> QED
  BY <1>1, <1>2, EmptySound

LEMMA StepClear ==
  ASSUME ObjectionInv, clear
  PROVE  ObjectionInv'
<1>1. /\ m_source_count' = [o \in Objects |-> 0] /\ m_total_count' = NoBooks.total
      /\ m_scheduled_list' = NoBooks.scheduled /\ m_forked_list' = NoBooks.forked
      /\ m_forked_contexts' = NoBooks.draining /\ NoBooks.count = 0
      /\ UNCHANGED m_prop_mode /\ m_top_all_dropped' = FALSE /\ m_cleared' = TRUE
  BY DEF clear, NoBooks
<1>2. BooksInv'
  BY <1>1, NoBooksSound, InvNext
<1> QED
  BY <1>1, <1>2 DEF ObjectionInv, FlagsOK

LEMMA InitInv ==
  ASSUME Init
  PROVE  ObjectionInv
<1>1. Shows(NoBooks) /\ m_source_count = [o \in Objects |-> 0] /\ ~m_top_all_dropped
  BY DEF Init, Shows, NoBooks
<1>2. BooksInv
  BY <1>1, NoBooksSound DEF BooksInv
<1> QED
  BY <1>2 DEF ObjectionInv, FlagsOK, Init

\* The books do not change.
LEMMA StepIdle ==
  ASSUME ObjectionInv, UNCHANGED <<m_source_count, m_total_count, contexts, m_prop_mode,
                                   m_cleared, m_top_all_dropped>>
  PROVE  ObjectionInv'
<1>1. PICK source \in [Objects -> Nat], B \in BookSet :
        /\ m_source_count = source /\ Shows(B) /\ Sound(B, source)
        /\ m_top_all_dropped => RootQuiet(B)
  BY PickBooks
<1>2. BooksInv'
  BY <1>1, InvNext DEF contexts, Shows
<1> QED
  BY <1>2 DEF ObjectionInv, FlagsOK

\* Contexts that change their places.
LEMMA MovedInv ==
  ASSUME NEW source \in [Objects -> Nat], NEW B \in BookSet, Shows(B), Sound(B, source),
         m_source_count = source, m_top_all_dropped => RootQuiet(B), FlagsOK,
         NEW scheduled \in Seq(Context), NEW forked \in Seq(Context),
         NEW draining \in SUBSET Context,
         Distinct(scheduled), Distinct(forked),
         \A c, d \in draining : c.obj = d.obj => c = d,
         Apart(ToSet(scheduled), ToSet(forked)),
         Apart(ToSet(scheduled) \union ToSet(forked), draining),
         ToSet(scheduled) \union ToSet(forked) \union draining = Held(B),
         m_scheduled_list' = scheduled, m_forked_list' = forked, m_forked_contexts' = draining,
         UNCHANGED <<m_source_count, m_total_count, m_prop_mode, m_cleared, m_top_all_dropped>>
  PROVE  ObjectionInv'
<1>1. PICK total \in [Objects -> Nat] : total = B.total
  BY DEF BookSet
<1>2. PICK R : R = [total |-> total, scheduled |-> scheduled, forked |-> forked,
                    draining |-> draining, cleared |-> FALSE, fatal |-> FALSE,
                    caller |-> NoObject, at |-> NoObject, count |-> 0]
  OBVIOUS
<1>3. /\ R \in BookSet /\ R.total = total /\ R.scheduled = scheduled /\ R.forked = forked
      /\ R.draining = draining /\ ~R.fatal /\ R.caller = NoObject /\ R.count = 0
  BY <1>2 DEF BookSet
<1>4. Orderly(R) /\ Held(R) = Held(B)
  BY <1>3 DEF Orderly, OncePerObject, Held
<1>5. Sound(R, source)
  BY <1>1, <1>3, <1>4, MovedSound DEF Shows
<1>6. m_top_all_dropped' => RootQuiet(R)
  BY <1>1, <1>3, <1>4 DEF RootQuiet
<1>7. BooksInv'
  BY <1>1, <1>3, <1>5, <1>6, InvNext DEF Shows
<1> QED
  BY <1>7 DEF ObjectionInv, FlagsOK

LEMMA StepFork ==
  ASSUME ObjectionInv, m_execute_scheduled_forks
  PROVE  ObjectionInv'
<1>1. PICK source \in [Objects -> Nat], B \in BookSet :
        /\ m_source_count = source /\ Shows(B) /\ Sound(B, source)
        /\ m_top_all_dropped => RootQuiet(B)
  BY PickBooks
<1>2. /\ B.scheduled \in Seq(Context) /\ B.forked \in Seq(Context)
      /\ B.draining \in SUBSET Context /\ OncePerObject(B)
  BY <1>1 DEF BookSet, Sound, Orderly
<1>3. PICK list : list = B.forked \o B.scheduled
  OBVIOUS
<1>4. /\ list \in Seq(Context) /\ Distinct(list)
      /\ ToSet(list) = ToSet(B.forked) \union ToSet(B.scheduled)
  <2>1. Apart(ToSet(B.forked), ToSet(B.scheduled))
    BY <1>2 DEF OncePerObject, Apart
  <2> QED
    BY <1>2, <1>3, <2>1, ConcatDistinct DEF OncePerObject
<1>5. <<>> \in Seq(Context) /\ Distinct(<<>>) /\ ToSet(<<>>) = {}
  BY DEF Distinct, ToSet
<1>6. /\ Apart(ToSet(<<>>), ToSet(list))
      /\ Apart(ToSet(<<>>) \union ToSet(list), B.draining)
      /\ ToSet(<<>>) \union ToSet(list) \union B.draining = Held(B)
      /\ \A c, d \in B.draining : c.obj = d.obj => c = d
  BY <1>2, <1>4, <1>5 DEF OncePerObject, Apart, Held
<1>7. /\ m_scheduled_list' = <<>> /\ m_forked_list' = list /\ m_forked_contexts' = B.draining
      /\ UNCHANGED <<m_source_count, m_total_count, m_prop_mode, m_cleared, m_top_all_dropped>>
  BY <1>1, <1>3 DEF m_execute_scheduled_forks, Shows
<1>8. FlagsOK
  BY DEF ObjectionInv
<1> QED
  BY <1>1, <1>2, <1>4, <1>5, <1>6, <1>7, <1>8, MovedInv

LEMMA StepStart ==
  ASSUME ObjectionInv, fork_starts
  PROVE  ObjectionInv'
<1>1. PICK source \in [Objects -> Nat], B \in BookSet :
        /\ m_source_count = source /\ Shows(B) /\ Sound(B, source)
        /\ m_top_all_dropped => RootQuiet(B)
  BY PickBooks
<1>2. /\ B.scheduled \in Seq(Context) /\ B.forked \in Seq(Context)
      /\ B.draining \in SUBSET Context /\ OncePerObject(B)
  BY <1>1 DEF BookSet, Sound, Orderly
<1>3. CASE m_forked_list = <<>>
  <2>1. UNCHANGED <<m_source_count, m_total_count, contexts, m_prop_mode, m_cleared,
                    m_top_all_dropped>>
    BY <1>3 DEF fork_starts
  <2> QED
    BY <2>1, StepIdle
<1>4. CASE m_forked_list # <<>>
  <2>1. PICK h, t : h = Head(B.forked) /\ t = Tail(B.forked)
    OBVIOUS
  <2>2. /\ t \in Seq(Context) /\ Distinct(t) /\ h \in ToSet(B.forked)
        /\ ToSet(t) = Others(ToSet(B.forked), h.obj)
    BY <1>1, <1>2, <1>4, <2>1, TailDistinct DEF OncePerObject, Shows
  <2>3. h \in Context /\ B.draining \union {h} \in SUBSET Context
    BY <1>2, <2>2 DEF ToSet
  <2>4. ASSUME NEW c \in ToSet(B.forked), c.obj = h.obj PROVE c = h
    <3>1. PICK i \in 1..Len(B.forked), j \in 1..Len(B.forked) :
            c = B.forked[i] /\ h = B.forked[j]
      BY <1>2, <2>2 DEF ToSet
    <3>2. i = j
      BY <1>2, <2>4, <3>1 DEF OncePerObject, Distinct
    <3> QED
      BY <3>1, <3>2
  <2>5. \A c, d \in B.draining \union {h} : c.obj = d.obj => c = d
    BY <1>2, <2>2 DEF OncePerObject, Apart
  <2>6. /\ Apart(ToSet(B.scheduled), ToSet(t))
        /\ Apart(ToSet(B.scheduled) \union ToSet(t), B.draining \union {h})
    BY <1>2, <2>2 DEF OncePerObject, Apart, Others
  <2>7. ToSet(B.scheduled) \union ToSet(t) \union (B.draining \union {h}) = Held(B)
    BY <2>2, <2>4 DEF Held, Others
  <2>8. /\ m_scheduled_list' = B.scheduled /\ m_forked_list' = t
        /\ m_forked_contexts' = B.draining \union {h}
        /\ UNCHANGED <<m_source_count, m_total_count, m_prop_mode, m_cleared,
                       m_top_all_dropped>>
    BY <1>1, <1>4, <2>1 DEF fork_starts, Shows
  <2>9. FlagsOK /\ Distinct(B.scheduled)
    BY <1>2 DEF ObjectionInv, OncePerObject
  <2> QED
    BY <1>1, <1>2, <2>2, <2>3, <2>5, <2>6, <2>7, <2>8, <2>9, MovedInv
<1> QED
  BY <1>3, <1>4

LEMMA StepDrain ==
  ASSUME ObjectionInv, NEW c \in m_forked_contexts, m_forked_drain(c)
  PROVE  /\ ObjectionInv' /\ (c.obj # Top => ~fatal')
         /\ c.obj = Top => \A x \in Objects : m_source_count[x] = 0
<1>1. PICK source \in [Objects -> Nat], B \in BookSet :
        /\ m_source_count = source /\ Shows(B) /\ Sound(B, source)
        /\ m_top_all_dropped => RootQuiet(B)
  BY PickBooks
<1>2. /\ c \in B.draining /\ c \in Context /\ c \in Held(B) /\ B.count = 0
      /\ m_prop_mode \in BOOLEAN
  BY <1>1 DEF Shows, BookSet, Held, ObjectionInv, FlagsOK
<1>3. c.obj \in Objects /\ c.count \in Nat \ {0} /\ B.total[c.obj] = 0
  BY <1>1, <1>2 DEF Context, Sound
<1>4. /\ Books \in BookSet /\ Books.total = B.total /\ Books.scheduled = B.scheduled
      /\ Books.forked = B.forked /\ Books.draining = B.draining /\ ~Books.fatal
      /\ Books.caller = NoObject
  BY <1>1, BooksFacts DEF ObjectionInv
<1>5. PICK BB : BB = [Books EXCEPT !.draining = @ \ {c}]
  OBVIOUS
<1>6. /\ BB \in BookSet /\ BB.total = B.total /\ BB.scheduled = B.scheduled
      /\ BB.forked = B.forked /\ BB.draining = B.draining \ {c} /\ ~BB.fatal
      /\ BB.caller = NoObject
  BY <1>4, <1>5 DEF BookSet
<1>7. CASE c.obj = Top /\ m_forked_contexts' # m_forked_contexts
  <2>1. PICK R : R = CallAt(BB, Top, 0)
    OBVIOUS
  <2>2. /\ R \in BookSet /\ R.total = BB.total /\ R.scheduled = BB.scheduled
        /\ R.forked = BB.forked /\ R.draining = BB.draining /\ R.fatal = BB.fatal
        /\ R.caller = BB.caller /\ R.at = Top /\ R.count = 0
    <3>1. Top \in Objects /\ 0 \in Int
      BY ObjectionAssumption
    <3> QED
      BY <1>6, <2>1, <3>1, CallAtFacts
  <2>3. Sound(R, source) /\ Held(R) = Others(Held(B), Top)
    BY <1>1, <1>2, <1>6, <1>7, <2>2, ReleaseSound
  <2>4. RootQuiet(R)
    BY <1>3, <1>6, <1>7, <2>2 DEF RootQuiet
  <2>5. /\ m_source_count' = source /\ m_total_count' = R.total
        /\ m_scheduled_list' = R.scheduled /\ m_forked_list' = R.forked
        /\ m_forked_contexts' = R.draining
        /\ m_top_all_dropped' = TRUE /\ UNCHANGED <<m_prop_mode, m_cleared>>
    BY <1>1, <1>6, <1>7, <2>2 DEF m_forked_drain, Shows
  <2>6. BooksInv'
    BY <2>2, <2>3, <2>4, <2>5, InvNext
  <2>7. ObjectionInv'
    BY <2>5, <2>6 DEF ObjectionInv, FlagsOK
  <2>8. \A x \in Objects : source[x] = 0
    BY <1>1, <1>2, <1>3, <1>7, AllQuiet
  <2> QED
    BY <1>1, <1>7, <2>7, <2>8
<1>8. CASE c.obj = Top /\ m_forked_contexts' = m_forked_contexts
  <2>1. /\ m_source_count' = source /\ m_total_count' = B.total
        /\ m_scheduled_list' = B.scheduled /\ m_forked_list' = B.forked
        /\ m_forked_contexts' = B.draining
        /\ m_top_all_dropped' = TRUE /\ UNCHANGED <<m_prop_mode, m_cleared>>
    BY <1>1, <1>8 DEF m_forked_drain, Shows
  <2>2. RootQuiet(B)
    BY <1>3, <1>8 DEF RootQuiet
  <2>3. BooksInv'
    BY <1>1, <1>2, <2>1, <2>2, InvNext
  <2>4. ObjectionInv'
    BY <2>1, <2>3 DEF ObjectionInv, FlagsOK
  <2>5. \A x \in Objects : source[x] = 0
    BY <1>1, <1>2, <1>3, <1>8, AllQuiet
  <2> QED
    BY <1>1, <1>8, <2>4, <2>5
<1>9. CASE c.obj # Top
  <2>1. PICK p \in Objects : p = m_get_parent(c.obj)
    BY <1>2, <1>3, <1>9, ParentNearer
  <2>2. -c.count \in Int /\ -c.count # 0
    BY <1>3
  <2>3. PICK P : P = CallAt(BB, p, -c.count)
    OBVIOUS
  <2>4. /\ P \in BookSet /\ P.total = BB.total /\ P.scheduled = BB.scheduled
        /\ P.forked = BB.forked /\ P.draining = BB.draining /\ P.fatal = BB.fatal
        /\ P.caller = BB.caller /\ P.at = p /\ P.count = -c.count
    BY <1>6, <2>2, <2>3, CallAtFacts
  <2>5. Sound(P, source)
    BY <1>1, <1>2, <1>6, <1>9, <2>1, <2>4, ReleaseSound
  <2>6. PICK R : R = m_propagate(BB, p, -c.count)
    OBVIOUS
  <2>7. Sound(R, source) /\ R.count = 0
    BY <1>2, <2>3, <2>5, <2>6, Propagation
  <2>8. ~m_top_all_dropped
    <3>1. SUFFICES ASSUME m_top_all_dropped PROVE c.obj = Top
      BY <1>9
    <3> QED
      BY <1>1, <1>2, <3>1, AllQuiet DEF RootQuiet
  <2>9. /\ SetBooks(R)
        /\ UNCHANGED <<m_source_count, m_prop_mode, m_cleared, m_top_all_dropped>>
    BY <1>5, <1>9, <2>1, <2>6 DEF m_forked_drain
  <2>10. BooksInv' /\ ~fatal'
    <3>1. ~R.fatal
      BY <2>7 DEF Sound
    <3> QED
      BY <1>1, <2>7, <2>8, <2>9, <3>1, InvNext DEF SetBooks
  <2> QED
    BY <1>9, <2>9, <2>10 DEF ObjectionInv, FlagsOK
<1> QED
  BY <1>7, <1>8, <1>9

LEMMA InvStep ==
  ASSUME SingleCalls, ObjectionInv, [Next]_vars
  PROVE  ObjectionInv'
<1>1. ASSUME NEW o \in Objects, NEW count \in Counts, raise_objection(o, count)
      PROVE  ObjectionInv'
  BY <1>1, StepRaise
<1>2. ASSUME NEW o \in Objects, NEW count \in Counts, drop_objection(o, count)
      PROVE  ObjectionInv'
  BY <1>2, StepDrop
<1>3. ASSUME NEW mode \in BOOLEAN, set_propagate_mode(mode)
      PROVE  ObjectionInv'
  BY <1>3, StepMode
<1>4. CASE clear
  BY <1>4, StepClear
<1>5. CASE wait_for
  <2>1. UNCHANGED <<m_source_count, m_total_count, contexts, m_prop_mode, m_cleared,
                    m_top_all_dropped>>
    BY <1>5 DEF wait_for
  <2> QED
    BY <2>1, StepIdle
<1>6. CASE m_execute_scheduled_forks
  BY <1>6, StepFork
<1>7. CASE fork_starts
  BY <1>7, StepStart
<1>8. ASSUME NEW c \in m_forked_contexts, m_forked_drain(c)
      PROVE  ObjectionInv'
  BY <1>8, StepDrain
<1>9. ASSUME NEW c \in m_forked_contexts, NEW o \in Objects, NEW count \in Counts,
             all_dropped_raises(c, o, count)
      PROVE  ObjectionInv'
  BY <1>9, StepCallbackRaise
<1>10. CASE UNCHANGED vars
  <2>1. UNCHANGED <<m_source_count, m_total_count, contexts, m_prop_mode, m_cleared,
                    m_top_all_dropped>>
    BY <1>10 DEF vars
  <2> QED
    BY <2>1, StepIdle
<1> QED
  BY <1>1, <1>2, <1>3, <1>4, <1>5, <1>6, <1>7, <1>8, <1>9, <1>10 DEF Next, Testbench, Drain

-----------------------------------------------------------------------------
(* What the properties see of the books. *)

\* A pending context is one that the books hold, and there is one per object.
LEMMA PendingFacts ==
  ASSUME NEW B, Orderly(B), Shows(B), NEW o
  PROVE  /\ \A p \in PendingOf(o) : p[3] \in Held(B) /\ p[3].obj = o
         /\ \A p, q \in PendingOf(o) : p = q
         /\ \A c \in Held(B) : c.obj = o => \E p \in PendingOf(o) : p[3] = c
<1> DEFINE s == B.scheduled
           f == B.forked
           d == B.draining
           PS == {<<"scheduled", i, s[i]>> : i \in 1..Len(s)}
           PF == {<<"forked", i, f[i]>> : i \in 1..Len(f)}
           PD == {<<"draining", 0, c>> : c \in d}
<1>1. /\ s \in Seq(Context) /\ f \in Seq(Context) /\ d \in SUBSET Context
  BY DEF Orderly, BookSet
<1>2. PendingContexts = PS \union PF \union PD
  <2>1. DOMAIN s = 1..Len(s) /\ DOMAIN f = 1..Len(f)
    BY <1>1
  <2> QED
    BY <2>1 DEF PendingContexts, Shows
<1>3. \A p \in PS : \E i \in 1..Len(s) : p = <<"scheduled", i, s[i]>> /\ p[3] = s[i]
  OBVIOUS
<1>4. \A p \in PF : \E i \in 1..Len(f) : p = <<"forked", i, f[i]>> /\ p[3] = f[i]
  OBVIOUS
<1>5. \A p \in PD : p[3] \in d /\ p = <<"draining", 0, p[3]>>
  OBVIOUS
<1>6. /\ \A i \in 1..Len(s) : s[i] \in ToSet(s)
      /\ \A i \in 1..Len(f) : f[i] \in ToSet(f)
  BY <1>1 DEF ToSet
<1>7. /\ \A c \in ToSet(s) : \E i \in 1..Len(s) : s[i] = c
      /\ \A c \in ToSet(f) : \E i \in 1..Len(f) : f[i] = c
  BY <1>1 DEF ToSet
<1>8. /\ \A p \in PS : p[3] \in ToSet(s)
      /\ \A p \in PF : p[3] \in ToSet(f)
  BY <1>3, <1>4, <1>6
<1>9. \A p \in PendingOf(o) : p \in PS \union PF \union PD /\ p[3].obj = o
  BY <1>2 DEF PendingOf
<1>10. /\ Distinct(s) /\ Distinct(f) /\ \A c, e \in d : c.obj = e.obj => c = e
       /\ \A c \in ToSet(s), e \in ToSet(f) : c.obj # e.obj
       /\ \A c \in ToSet(s), e \in d : c.obj # e.obj
       /\ \A c \in ToSet(f), e \in d : c.obj # e.obj
  BY DEF Orderly, OncePerObject, Apart
<1>11. Held(B) = ToSet(s) \union ToSet(f) \union d
  BY DEF Held
<1> HIDE DEF s, f, d
<1>12. \A p \in PendingOf(o) : p[3] \in Held(B) /\ p[3].obj = o
  BY <1>5, <1>8, <1>9, <1>11
<1>13. ASSUME NEW p \in PendingOf(o), NEW q \in PendingOf(o) PROVE p = q
  <2>1. CASE p \in PS
    <3>1. q \in PS
      BY <1>5, <1>8, <1>9, <1>10, <2>1
    <3>2. PICK i \in 1..Len(s) : p = <<"scheduled", i, s[i]>> /\ p[3] = s[i]
      BY <1>3, <2>1
    <3>3. PICK j \in 1..Len(s) : q = <<"scheduled", j, s[j]>> /\ q[3] = s[j]
      BY <1>3, <3>1
    <3>4. i = j
      BY <1>9, <1>10, <3>2, <3>3 DEF Distinct
    <3> QED
      BY <3>2, <3>3, <3>4
  <2>2. CASE p \in PF
    <3>1. q \in PF
      BY <1>5, <1>8, <1>9, <1>10, <2>2
    <3>2. PICK i \in 1..Len(f) : p = <<"forked", i, f[i]>> /\ p[3] = f[i]
      BY <1>4, <2>2
    <3>3. PICK j \in 1..Len(f) : q = <<"forked", j, f[j]>> /\ q[3] = f[j]
      BY <1>4, <3>1
    <3>4. i = j
      BY <1>9, <1>10, <3>2, <3>3 DEF Distinct
    <3> QED
      BY <3>2, <3>3, <3>4
  <2>3. CASE p \in PD
    <3>1. q \in PD
      BY <1>5, <1>8, <1>9, <1>10, <2>3
    <3>2. p[3] = q[3]
      BY <1>5, <1>9, <1>10, <2>3, <3>1
    <3> QED
      BY <1>5, <2>3, <3>1, <3>2
  <2> QED
    BY <1>9, <2>1, <2>2, <2>3
<1>14. ASSUME NEW c \in Held(B), c.obj = o PROVE \E p \in PendingOf(o) : p[3] = c
  <2>1. CASE c \in ToSet(s)
    <3>1. PICK i \in 1..Len(s) : s[i] = c
      BY <1>7, <2>1
    <3>2. <<"scheduled", i, s[i]>> \in PendingOf(o)
      BY <1>2, <1>14, <3>1 DEF PendingOf
    <3> QED
      BY <3>1, <3>2
  <2>2. CASE c \in ToSet(f)
    <3>1. PICK i \in 1..Len(f) : f[i] = c
      BY <1>7, <2>2
    <3>2. <<"forked", i, f[i]>> \in PendingOf(o)
      BY <1>2, <1>14, <3>1 DEF PendingOf
    <3> QED
      BY <3>1, <3>2
  <2>3. CASE c \in d
    <3>1. <<"draining", 0, c>> \in PendingOf(o)
      BY <1>2, <1>14, <2>3 DEF PendingOf
    <3> QED
      BY <3>1
  <2> QED
    BY <1>11, <1>14, <2>1, <2>2, <2>3
<1> QED
  BY <1>12, <1>13, <1>14

\* What an object holds back is what a raise would find there.
LEMMA HeldBackCaught ==
  ASSUME NEW B, Orderly(B), Shows(B), NEW o \in Objects
  PROVE  /\ HeldBack(o) = Caught(B, o)
         /\ PendingOf(o) # {} => /\ Cardinality(PendingOf(o)) = 1
                                 /\ \E c \in Held(B) : c.obj = o
<1> DEFINE f == [p \in PendingOf(o) |-> p[3].count]
<1>0. HeldBack(o) = SumOf(f)
  BY DEF HeldBack
<1>1. CASE PendingOf(o) = {}
  <2>1. \A c \in Held(B) : c.obj # o
    BY <1>1, PendingFacts
  <2>2. Caught(B, o) = 0
    BY <2>1, CaughtFacts
  <2>3. f \in [{} -> Nat] /\ \A p \in {} : f[p] = 0
    BY <1>1
  <2>4. SumOf(f) = 0
    BY <2>3, SumZero
  <2> QED
    BY <1>0, <1>1, <2>2, <2>4
<1>2. CASE PendingOf(o) # {}
  <2>1. PICK p : PendingOf(o) = {p}
    <3>1. PICK p \in PendingOf(o) : TRUE
      BY <1>2
    <3>2. \A q \in PendingOf(o) : q = p
      BY PendingFacts
    <3>3. PendingOf(o) = {p}
      BY <3>1, <3>2
    <3> QED
      BY <3>3
  <2>2. p[3] \in Held(B) /\ p[3].obj = o
    BY <2>1, PendingFacts
  <2>3. Caught(B, o) = p[3].count /\ p[3].count \in Nat
    BY <2>2, CaughtFacts, HeldType DEF Orderly
  <2>4. f \in [{p} -> Nat] /\ f[p] = p[3].count
    BY <2>1, <2>3
  <2>5. SumOf(f) = p[3].count
    BY <2>4, SumOne
  <2>6. Cardinality(PendingOf(o)) = 1
    BY <2>1, FS_Singleton
  <2> QED
    BY <1>0, <2>2, <2>3, <2>5, <2>6
<1> QED
  BY <1>1, <1>2

-----------------------------------------------------------------------------
(* Theorems. *)

\* The inductive invariant: the counts and the contexts of every reachable
\* state are books whose sums are exact, and m_top_all_dropped is set only
\* while nothing is raised, and nothing drains, at the root.
THEOREM ObjectionBooks ==
  ASSUME SingleCalls
  PROVE  Spec => []ObjectionInv
<1>1. Init => ObjectionInv
  BY InitInv
<1>2. ObjectionInv /\ [Next]_vars => ObjectionInv'
  BY InvStep
<1> QED
  BY <1>1, <1>2, PTL DEF Spec

\* Whatever is raised, dropped, drained, taken back or cleared, in any order,
\* the total of an object is what it has raised itself plus what its children
\* have raised and hold back (uvm_objection::m_raise, m_drop, m_forked_drain).
THEOREM ExactTotals ==
  ASSUME SingleCalls
  PROVE  Spec => []TotalsAreSums
<1>1. ASSUME ObjectionInv PROVE TotalsAreSums
  <2>1. PICK source \in [Objects -> Nat], B \in BookSet :
          m_source_count = source /\ Shows(B) /\ Sound(B, source)
    BY <1>1, PickBooks
  <2>2. Orderly(B)
    BY <2>1 DEF Sound
  <2> SUFFICES ASSUME NEW o \in Objects
               PROVE  m_total_count[o] = m_source_count[o]
                        + SumOf([c \in Children(o) |-> m_total_count[c] + HeldBack(c)])
    BY DEF TotalsAreSums
  <2>3. [c \in Children(o) |-> m_total_count[c] + HeldBack(c)]
          = [c \in Children(o) |-> Weight(B)[c]]
    <3>1. \A c \in Children(o) : c \in Objects
      BY DEF Children
    <3>2. \A c \in Children(o) : m_total_count[c] + HeldBack(c) = Weight(B)[c]
      BY <2>1, <2>2, <3>1, HeldBackCaught, WeightType DEF Shows
    <3> QED
      BY <3>2
  <2>4. B.total[o] + 0 = source[o] + ChildSum(Weight(B), o)
    BY <2>1 DEF Sound, Sums, Shows
  <2>5. B.total[o] \in Nat
    BY DEF BookSet
  <2> QED
    BY <2>1, <2>3, <2>4, <2>5 DEF ChildSum, Shows
<1> QED
  BY <1>1, ObjectionBooks, PTL

\* An object never has two contexts, wherever they are, and one only while
\* nothing is raised at it or below it (m_drop, m_raise, m_execute_scheduled_forks).
THEOREM QuietDrains ==
  ASSUME SingleCalls
  PROVE  Spec => []DrainsQuietly
<1>1. ASSUME ObjectionInv PROVE DrainsQuietly
  <2>1. PICK source \in [Objects -> Nat], B \in BookSet :
          m_source_count = source /\ Shows(B) /\ Sound(B, source)
    BY <1>1, PickBooks
  <2> SUFFICES ASSUME NEW o \in Objects, PendingOf(o) # {}
               PROVE  Cardinality(PendingOf(o)) = 1 /\ m_total_count[o] = 0
    BY DEF DrainsQuietly
  <2>2. Cardinality(PendingOf(o)) = 1 /\ \E c \in Held(B) : c.obj = o
    BY <2>1, HeldBackCaught DEF Sound
  <2> QED
    BY <2>1, <2>2 DEF Sound, Shows
<1> QED
  BY <1>1, ObjectionBooks, PTL

\* When the objection says that all objections are dropped, nothing is raised
\* at any object and no drop is on its way to the root, which may drain itself until
\* what its callback has forked is done (m_forked_drain at m_top, m_raise).
THEOREM LastIsLast ==
  ASSUME SingleCalls
  PROVE  Spec => []AllDroppedIsLast
<1>1. ASSUME ObjectionInv PROVE AllDroppedIsLast
  <2>1. PICK source \in [Objects -> Nat], B \in BookSet :
          /\ m_source_count = source /\ Shows(B) /\ Sound(B, source)
          /\ m_top_all_dropped => RootQuiet(B)
    BY <1>1, PickBooks
  <2>2. Orderly(B) /\ B.count = 0 /\ m_prop_mode \in BOOLEAN
    BY <1>1, <2>1 DEF Sound, Shows, ObjectionInv, FlagsOK
  <2> SUFFICES ASSUME m_top_all_dropped, NEW o \in Objects
               PROVE  m_total_count[o] = 0 /\ (o # Top => HeldBack(o) = 0)
    BY DEF AllDroppedIsLast
  <2>3. /\ \A x \in Objects : B.total[x] = 0
        /\ \A x \in Objects : x # Top => Caught(B, x) = 0
    BY <2>1, <2>2, AllQuiet DEF RootQuiet
  <2> QED
    BY <2>1, <2>2, <2>3, HeldBackCaught DEF Shows
<1> QED
  BY <1>1, ObjectionBooks, PTL

\* The owners' view agrees with the objection's.
Balanced == owed = m_source_count /\ ~fatal

\* In a testbench that does not clear the objection, where nobody drops more
\* than it has raised, no drop ever finds a count too small: not the one at
\* the object, and not the ones that a drain makes later, all the way up.
THEOREM NeverFatal ==
  ASSUME SingleCalls, "clear" \notin Controls
  PROVE  Spec => []NoFatal
<1>1. Init => Balanced
  BY DEF Init, Balanced
<1>2. ASSUME ObjectionInv, Balanced, [Next]_vars PROVE Balanced'
  <2>1. PICK source \in [Objects -> Nat], B \in BookSet :
          m_source_count = source /\ Shows(B) /\ Sound(B, source)
    BY <1>2, PickBooks
  <2>2. ASSUME NEW o \in Objects, NEW count \in Counts, raise_objection(o, count)
        PROVE  Balanced'
    BY <1>2, <2>2, StepRaise DEF Balanced, raise_objection
  <2>3. ASSUME NEW o \in Objects, NEW count \in Counts, drop_objection(o, count)
        PROVE  Balanced'
    <3>1. count \in Nat /\ source[o] \in Nat /\ count <= source[o]
      BY <1>2, <2>1, <2>3, ObjectionAssumption DEF drop_objection, Balanced
    <3>2. Orderly(B) /\ B.total[o] + 0 = source[o] + ChildSum(Weight(B), o)
      BY <2>1 DEF Sound, Sums, Shows
    <3>3. ChildSum(Weight(B), o) \in Nat /\ B.total[o] \in Nat
      BY <3>2, WeightType, ChildSumChange
    <3>4. ~(count > m_total_count[o] \/ count > m_source_count[o])
      BY <2>1, <3>1, <3>2, <3>3 DEF Shows
    <3> QED
      BY <1>2, <2>3, <3>4, StepDrop DEF Balanced, drop_objection
  <2>4. ASSUME NEW c \in m_forked_contexts, m_forked_drain(c)
        PROVE  Balanced'
    <3>1. ~fatal' /\ UNCHANGED <<owed, m_source_count>>
      BY <1>2, <2>4, StepDrain DEF m_forked_drain, Balanced
    <3> QED
      BY <1>2, <3>1 DEF Balanced
  <2>5. ASSUME NEW c \in m_forked_contexts, NEW o \in Objects, NEW count \in Counts,
               all_dropped_raises(c, o, count)
        PROVE  Balanced'
    BY <1>2, <2>5, StepCallbackRaise DEF Balanced, all_dropped_raises
  <2>6. ASSUME NEW mode \in BOOLEAN, set_propagate_mode(mode) PROVE Balanced'
    BY <1>2, <2>6 DEF Balanced, set_propagate_mode
  <2>7. CASE wait_for
    BY <1>2, <2>7 DEF Balanced, wait_for
  <2>8. CASE m_execute_scheduled_forks
    BY <1>2, <2>8 DEF Balanced, m_execute_scheduled_forks
  <2>9. CASE fork_starts
    BY <1>2, <2>9 DEF Balanced, fork_starts
  <2>10. CASE UNCHANGED vars
    BY <1>2, <2>10 DEF Balanced, vars
  <2>11. ~clear
    BY DEF clear
  <2> QED
    BY <1>2, <2>2, <2>3, <2>4, <2>5, <2>6, <2>7, <2>8, <2>9, <2>10, <2>11
       DEF Next, Testbench, Drain
<1>3. Balanced => NoFatal
  BY DEF Balanced, NoFatal
<1>4. Spec => []ObjectionInv
  BY ObjectionBooks
<1> QED
  BY <1>1, <1>2, <1>3, <1>4, PTL DEF Spec

\* Every step of the objection is a step, or no step, of what it promises to
\* the phase: "all dropped" is said only while nobody objects, and taken back
\* by the next raise.
THEOREM PromiseKept ==
  ASSUME SingleCalls
  PROVE  Spec => ImplementsPromise
<1>1. Init => Promise!Init
  BY DEF Init, Promise!Init
<1>2. ASSUME ObjectionInv, [Next]_vars
      PROVE  [Promise!Next]_<<m_source_count, m_top_all_dropped>>
  <2>1. ASSUME NEW o \in Objects, NEW count \in Counts,
               \/ raise_objection(o, count)
               \/ \E c \in m_forked_contexts : all_dropped_raises(c, o, count)
        PROVE  Promise!Next
    <3>1. Promise!Raise(o, count)
      BY <2>1 DEF Promise!Raise, raise_objection, all_dropped_raises
    <3> QED
      BY <3>1 DEF Promise!Next
  <2>2. ASSUME NEW o \in Objects, NEW count \in Counts, drop_objection(o, count)
        PROVE  Promise!Next \/ UNCHANGED <<m_source_count, m_top_all_dropped>>
    <3>1. CASE count > m_total_count[o] \/ count > m_source_count[o]
      BY <2>2, <3>1 DEF drop_objection
    <3>2. CASE ~(count > m_total_count[o] \/ count > m_source_count[o])
      <4>1. m_source_count[o] \in Nat /\ count \in Nat
        BY <1>2, PickBooks, ObjectionAssumption
      <4>2. Promise!Drop(o, count)
        BY <2>2, <3>2, <4>1 DEF Promise!Drop, drop_objection
      <4> QED
        BY <4>2 DEF Promise!Next
    <3> QED
      BY <3>1, <3>2
  <2>3. ASSUME NEW c \in m_forked_contexts, m_forked_drain(c)
        PROVE  Promise!Next \/ UNCHANGED <<m_source_count, m_top_all_dropped>>
    <3>1. CASE c.obj = Top
      <4>1. Promise!Quiet
        BY <1>2, <2>3, <3>1, StepDrain DEF Promise!Quiet
      <4>2. Promise!SayAllDropped
        BY <2>3, <3>1, <4>1 DEF Promise!SayAllDropped, m_forked_drain
      <4> QED
        BY <4>2 DEF Promise!Next
    <3>2. CASE c.obj # Top
      BY <2>3, <3>2 DEF m_forked_drain
    <3> QED
      BY <3>1, <3>2
  <2>4. CASE clear
    <3>1. Promise!Clear
      BY <2>4 DEF Promise!Clear, clear
    <3> QED
      BY <3>1 DEF Promise!Next
  <2>5. ASSUME NEW mode \in BOOLEAN, set_propagate_mode(mode)
        PROVE  UNCHANGED <<m_source_count, m_top_all_dropped>>
    BY <2>5 DEF set_propagate_mode
  <2>6. CASE wait_for \/ m_execute_scheduled_forks \/ fork_starts \/ UNCHANGED vars
    BY <2>6 DEF wait_for, m_execute_scheduled_forks, fork_starts, vars
  <2> QED
    BY <1>2, <2>1, <2>2, <2>3, <2>4, <2>5, <2>6 DEF Next, Testbench, Drain
<1>3. Spec => []ObjectionInv
  BY ObjectionBooks
<1> QED
  BY <1>1, <1>2, <1>3, PTL DEF Spec, ImplementsPromise, Promise!Spec
=============================================================================
