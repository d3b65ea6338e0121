---------------------------- MODULE ConfigProofs ----------------------------
(***************************************************************************)
(* Proofs about the configuration database.                                *)
(***************************************************************************)
EXTENDS ConfigProperties, CommonLemmas

-----------------------------------------------------------------------------
(* The inductive invariant.                                                *)

Resource == [T : Types, cntxt : Components, inst_name : Scopes,
             scope : {uvm_glob_to_re(x) : x \in Scopes}, precedence : Int, val : Nat]

Setting == [T : Types, field : Fields, inst_name : Scopes, precedence : Int]

Entry == [inst_name : Components, monitor : Monitors]

TypeOK ==
  /\ rtab \in [Fields -> Seq(Resource)]
  /\ sets \in Seq(Setting)
  /\ m_waiters \in [Types -> [Fields -> Seq(Entry)]]
  /\ curr_phase \in {"none", "build", "later"} /\ levels \in Nat
  /\ curr_phase = "none" => levels = 0
  /\ pc \in [Monitors -> {"idle", "wait", "triggered", "dead"}]
  /\ seen \in [Monitors -> Nat]

\* A resource is a setting, with the scope that set made of its instance name;
\* setting it again would not lower its precedence.
ResourceIsSetting(f, r) ==
  /\ r.val \in DOMAIN sets
  /\ sets[r.val] = [T |-> r.T, field |-> f, inst_name |-> r.inst_name,
                    precedence |-> r.precedence]
  /\ r.scope = uvm_glob_to_re(r.inst_name)
  /\ get_depth(r.cntxt) <= levels
  /\ r.precedence <= setting_precedence(r.cntxt)

\* The queue of a field is in the order of the settings, the last in front.
QueuesOK ==
  \A f \in Fields : \A i \in DOMAIN rtab[f] :
    /\ ResourceIsSetting(f, rtab[f][i])
    /\ \A j \in DOMAIN rtab[f] : i < j => rtab[f][j].val < rtab[f][i].val

\* What has become of a setting: there is a resource of its scope that is at
\* least as late and at least as strong.
Survives(k, r) ==
  /\ r.T = sets[k].T /\ r.inst_name = sets[k].inst_name
  /\ k <= r.val /\ sets[k].precedence <= r.precedence

NothingForgotten ==
  \A k \in DOMAIN sets : \E i \in DOMAIN rtab[sets[k].field] :
    Survives(k, rtab[sets[k].field][i])

\* The settings for a name, as uvm_re_match decides.
MatchingSets(q) ==
  {k \in DOMAIN sets : /\ sets[k].T = q.T /\ sets[k].field = q.field
                       /\ uvm_re_match(uvm_glob_to_re(sets[k].inst_name), q.name) = 0}

GetIsLatestMatch ==
  \A q \in Reads : get(q.T, q.name, q.field) = Latest(MatchingSets(q))

WaitersOK ==
  \A m \in Monitors : pc[m] = "wait" =>
    /\ \E i \in DOMAIN m_waiters[Watch[m].T][Watch[m].field] :
         m_waiters[Watch[m].T][Watch[m].field][i]
           = [inst_name |-> Watch[m].name, monitor |-> m]
    /\ seen[m] = Latest(MatchingSets(Watch[m]))

ConfigInv == TypeOK /\ QueuesOK /\ NothingForgotten /\ WaitersOK

-----------------------------------------------------------------------------
(* Types of the helpers.                                                   *)

LEMMA DepthType == \A c \in Components : get_depth(c) \in Nat
  <1> SUFFICES ASSUME NEW c \in Components PROVE get_depth(c) \in Nat
    OBVIOUS
  <1> DEFINE Dots == {i \in DOMAIN c : c[i] = "."}
  <1>1. c \in Seq(STRING)
    BY ConfigAssumption DEF ConfigAssumption
  <1>2. DOMAIN c = 1 .. Len(c) /\ Len(c) \in Nat
    BY <1>1
  <1>3. IsFiniteSet(1 .. Len(c))
    BY <1>2, FS_Interval
  <1>4. IsFiniteSet(Dots)
    BY <1>2, <1>3, FS_Subset
  <1>5. Cardinality(Dots) \in Nat
    BY <1>4, FS_CardinalityType
  <1> QED BY <1>5 DEF get_depth

\* setting_precedence is at most the default and never falls from build on.
LEMMA PrecedenceType ==
  ASSUME NEW c \in Components
  PROVE  setting_precedence(c) \in Int /\ setting_precedence(c) <= default_precedence
  BY DepthType DEF setting_precedence, default_precedence

LEMMA WatchType ==
  ASSUME NEW m \in Monitors
  PROVE  /\ Watch[m] \in Reads /\ Watch[m].T \in Types
         /\ Watch[m].name \in Components /\ Watch[m].field \in Fields
  BY ConfigAssumption DEF ConfigAssumption, Reads

\* The first of some places among those with the highest precedence exists.
LEMMA HighestExists ==
  ASSUME NEW rq, NEW places \in SUBSET Nat, places # {},
         \A i \in places : rq[i].precedence \in Int /\ rq[i].precedence <= default_precedence
  PROVE  LET i == get_highest_precedence(rq, places)
         IN /\ i \in places
            /\ \A j \in places : \/ rq[j].precedence < rq[i].precedence
                                 \/ rq[j].precedence = rq[i].precedence /\ i <= j
  <1> DEFINE Below == {default_precedence - rq[i].precedence : i \in places}
             Best(i) == \A j \in places : \/ rq[j].precedence < rq[i].precedence
                                          \/ rq[j].precedence = rq[i].precedence /\ i <= j
  <1>1. Below \in SUBSET Nat /\ Below # {}
    BY DEF default_precedence
  <1>2. PICK x \in Below : \A y \in Below : x <= y
    BY <1>1, LeastNatural
  <1> DEFINE Top == {i \in places : default_precedence - rq[i].precedence = x}
  <1>3. Top \in SUBSET Nat /\ Top # {}
    BY <1>2
  <1>4. PICK i \in Top : \A j \in Top : i <= j
    BY <1>3, LeastNatural
  <1>5. ASSUME NEW j \in places
        PROVE  \/ rq[j].precedence < rq[i].precedence
               \/ rq[j].precedence = rq[i].precedence /\ i <= j
    <2>1. x <= default_precedence - rq[j].precedence
      BY <1>2
    <2>2. rq[i].precedence = default_precedence - x /\ x \in Int
      BY <1>1, <1>2, <1>4 DEF default_precedence
    <2>3. rq[j].precedence \in Int /\ rq[j].precedence <= rq[i].precedence
      BY <2>1, <2>2 DEF default_precedence
    <2>4. rq[j].precedence = rq[i].precedence => j \in Top
      BY <1>4
    <2> QED BY <1>4, <2>2, <2>3, <2>4 DEF default_precedence
  <1>6. i \in places /\ Best(i)
    BY <1>4, <1>5
  <1> HIDE DEF Best
  <1>7. (CHOOSE k \in places : Best(k)) \in places /\ Best(CHOOSE k \in places : Best(k))
    BY <1>6
  <1> QED BY <1>7 DEF get_highest_precedence, Best

\* There is one latest of some settings.
LEMMA LatestUnique ==
  ASSUME NEW relevant \in SUBSET Nat, NEW v \in relevant,
         \A j \in relevant : sets[j].precedence \in Int,
         \A j \in relevant : \/ sets[j].precedence < sets[v].precedence
                             \/ sets[j].precedence = sets[v].precedence /\ j <= v
  PROVE  Latest(relevant) = v
  <1> DEFINE Wins(i) == \A j \in relevant :
                          \/ sets[j].precedence < sets[i].precedence
                          \/ sets[j].precedence = sets[i].precedence /\ j <= i
  <1>1. ASSUME NEW w \in relevant, Wins(w) PROVE w = v
    <2>1. \/ sets[v].precedence < sets[w].precedence
          \/ sets[v].precedence = sets[w].precedence /\ v <= w
      BY <1>1
    <2>2. \/ sets[w].precedence < sets[v].precedence
          \/ sets[w].precedence = sets[v].precedence /\ w <= v
      OBVIOUS
    <2>3. v \in Nat /\ w \in Nat /\ sets[v].precedence \in Int /\ sets[w].precedence \in Int
      OBVIOUS
    <2> QED BY <2>1, <2>2, <2>3
  <1>2. v \in relevant /\ Wins(v)
    OBVIOUS
  <1> HIDE DEF Wins
  <1>3. (CHOOSE i \in relevant : Wins(i)) = v
    BY <1>1, <1>2
  <1> QED BY <1>3 DEF Latest, Wins

-----------------------------------------------------------------------------
(* get and the settings.                                                   *)

LEMMA MatchOfResource ==
  ASSUME NEW q \in Reads, NEW i \in DOMAIN rtab[q.field], QueuesOK, q.field \in Fields
  PROVE  i \in lookup_name(q.T, q.name, q.field)
           <=> rtab[q.field][i].val \in MatchingSets(q)
  <1>1. ResourceIsSetting(q.field, rtab[q.field][i])
    BY DEF QueuesOK
  <1> DEFINE r == rtab[q.field][i]
  <1>2. /\ r.val \in DOMAIN sets /\ sets[r.val].T = r.T /\ sets[r.val].field = q.field
        /\ sets[r.val].inst_name = r.inst_name /\ r.scope = uvm_glob_to_re(r.inst_name)
    BY <1>1 DEF ResourceIsSetting
  <1> QED BY <1>2 DEF lookup_name, match_scope, MatchingSets

\* get is the latest setting of the highest precedence, as uvm_re_match decides.
LEMMA GetLatest ==
  ASSUME TypeOK, QueuesOK, NothingForgotten
  PROVE  GetIsLatestMatch
  <1> SUFFICES ASSUME NEW q \in Reads
               PROVE  get(q.T, q.name, q.field) = Latest(MatchingSets(q))
    BY DEF GetIsLatestMatch
  <1> DEFINE rq == rtab[q.field]
             places == lookup_name(q.T, q.name, q.field)
             relevant == MatchingSets(q)
  <1>1. q.field \in Fields
    BY DEF Reads
  <1>2. rq \in Seq(Resource) /\ DOMAIN rq = 1 .. Len(rq) /\ Len(rq) \in Nat
    BY <1>1 DEF TypeOK
  <1>3. places \in SUBSET Nat /\ places \subseteq DOMAIN rq
    BY <1>2 DEF lookup_name
  <1>4. relevant \in SUBSET Nat /\ relevant \subseteq DOMAIN sets
    BY DEF MatchingSets, TypeOK
  <1>5. ASSUME NEW i \in places
        PROVE  /\ rq[i].val \in relevant /\ rq[i].val \in Nat
               /\ rq[i].precedence \in Int /\ rq[i].precedence <= default_precedence
               /\ sets[rq[i].val].precedence = rq[i].precedence
    <2>1. rq[i] \in Resource /\ i \in DOMAIN rq
      BY <1>2, <1>3
    <2>2. rq[i].cntxt \in Components /\ rq[i].precedence \in Int /\ rq[i].val \in Nat
      BY <2>1 DEF Resource
    <2>3. ResourceIsSetting(q.field, rq[i])
      BY <1>1, <2>1 DEF QueuesOK
    <2>4. rq[i].precedence <= setting_precedence(rq[i].cntxt)
      BY <2>3 DEF ResourceIsSetting
    <2>5. rq[i].precedence <= default_precedence
      BY <2>2, <2>4, PrecedenceType DEF default_precedence
    <2>6. sets[rq[i].val].precedence = rq[i].precedence
      BY <2>3 DEF ResourceIsSetting
    <2>7. rq[i].val \in relevant
      BY <1>1, <2>1, MatchOfResource
    <2> QED BY <2>2, <2>5, <2>6, <2>7
  <1>6. ASSUME NEW k \in relevant
        PROVE  /\ sets[k].precedence \in Int
               /\ \E i \in places : k <= rq[i].val /\ sets[k].precedence <= rq[i].precedence
    <2>1. k \in DOMAIN sets /\ sets[k] \in Setting /\ sets[k].field = q.field
      BY <1>4 DEF TypeOK, MatchingSets
    <2>2. PICK i \in DOMAIN rtab[sets[k].field] : Survives(k, rtab[sets[k].field][i])
      BY <2>1 DEF NothingForgotten
    <2>3. i \in DOMAIN rq /\ Survives(k, rq[i])
      BY <2>1, <2>2
    <2>4. ResourceIsSetting(q.field, rq[i])
      BY <1>1, <2>3 DEF QueuesOK
    <2>5. rq[i].T = q.T /\ match_scope(rq[i], q.name)
      BY <2>3, <2>4 DEF Survives, ResourceIsSetting, MatchingSets, match_scope
    <2>6. i \in places
      BY <2>3, <2>5 DEF lookup_name
    <2>7. sets[k].precedence \in Int
      BY <2>1 DEF Setting
    <2> QED BY <2>3, <2>6, <2>7 DEF Survives
  <1>7. CASE places = {}
    <2>1. relevant = {}
      BY <1>6, <1>7
    <2> HIDE DEF relevant, places
    <2> QED BY <1>7, <2>1 DEF get, Latest, places, relevant
  <1>8. CASE places # {}
    <2> DEFINE i == get_highest_precedence(rq, places)
               v == rq[i].val
    <2> HIDE DEF places, rq, relevant
    <2>1. /\ i \in places
          /\ \A j \in places : \/ rq[j].precedence < rq[i].precedence
                               \/ rq[j].precedence = rq[i].precedence /\ i <= j
      BY <1>3, <1>5, <1>8, HighestExists
    <2> HIDE DEF i
    <2>2. /\ v \in relevant /\ v \in Nat /\ sets[v].precedence = rq[i].precedence
          /\ sets[v].precedence \in Int
      BY <1>5, <2>1
    <2>3. ASSUME NEW k \in relevant
          PROVE  \/ sets[k].precedence < sets[v].precedence
                 \/ sets[k].precedence = sets[v].precedence /\ k <= v
      <3>1. PICK j \in places : k <= rq[j].val /\ sets[k].precedence <= rq[j].precedence
        BY <1>6
      <3>2. /\ sets[k].precedence \in Int /\ k \in Nat
            /\ rq[j].precedence \in Int /\ rq[j].val \in Nat
        BY <1>4, <1>5, <1>6
      <3>3. CASE rq[j].precedence < rq[i].precedence
        <4> DEFINE a == sets[k].precedence
                   b == rq[j].precedence
                   c == rq[i].precedence
        <4>1. a \in Int /\ b \in Int /\ c \in Int /\ a <= b /\ b < c
          BY <2>2, <3>1, <3>2, <3>3
        <4> HIDE DEF a, b, c
        <4>2. a < c
          BY <4>1
        <4> QED BY <2>2, <4>2 DEF a, c
      <3>4. CASE rq[j].precedence = rq[i].precedence /\ i <= j
        <4>1. i \in DOMAIN rq /\ j \in DOMAIN rq /\ i \in Nat /\ j \in Nat
          BY <1>2, <1>3, <2>1
        <4>2. i = j \/ rq[j].val < v
          BY <1>1, <3>4, <4>1 DEF QueuesOK, rq
        <4>3. k <= v
          <5> DEFINE a == rq[j].val
          <5>1. a \in Nat /\ v \in Nat /\ k \in Nat /\ k <= a /\ (a = v \/ a < v)
            BY <2>2, <3>1, <3>2, <4>2
          <5> HIDE DEF a, v
          <5> QED BY <5>1
        <4> DEFINE b == sets[k].precedence
                   c == sets[v].precedence
        <4>4. b \in Int /\ c \in Int /\ b <= c
          BY <2>2, <3>1, <3>2, <3>4
        <4> HIDE DEF b, c
        <4>5. b < c \/ b = c
          BY <4>4
        <4> QED BY <4>3, <4>5 DEF b, c
      <3> QED BY <2>1, <3>3, <3>4
    <2>4. Latest(relevant) = v
      <3> HIDE DEF v
      <3> QED BY <1>4, <1>6, <2>2, <2>3, LatestUnique
    <2>5. get(q.T, q.name, q.field) = v
      BY <1>8 DEF get, places, rq, i
    <2> QED BY <2>4, <2>5 DEF relevant
  <1> QED BY <1>7, <1>8

-----------------------------------------------------------------------------
(* set.                                                                    *)

\* A resource in front of the queue with its old copy gone: whatever else was
\* there is still there, in its order.
InFrontOf(r, rq, new) ==
  /\ new \in Seq(Resource) /\ Len(new) > 0 /\ new[1] = r
  /\ \A i \in DOMAIN new : i # 1 =>
       \E k \in DOMAIN rq :
         /\ new[i] = rq[k]
         /\ \A j \in DOMAIN new : i < j => \E l \in DOMAIN rq : k < l /\ new[j] = rq[l]
  /\ \A k \in DOMAIN rq :
       \/ \E i \in DOMAIN new : new[i] = rq[k]
       \/ rq[k].T = r.T /\ rq[k].inst_name = r.inst_name /\ rq[k].cntxt = r.cntxt

LEMMA PutInFront ==
  ASSUME NEW rq \in Seq(Resource), NEW r \in Resource
  PROVE  InFrontOf(r, rq, put_in_front(rq, r))
  <1> DEFINE place == place_of(rq, r)
  <1>0. DOMAIN rq = 1 .. Len(rq) /\ Len(rq) \in Nat
    OBVIOUS
  <1>1. CASE place = {}
    <2> DEFINE new == <<r>> \o rq
    <2>1. put_in_front(rq, r) = new
      BY <1>1 DEF put_in_front
    <2>2. /\ new \in Seq(Resource) /\ Len(new) = Len(rq) + 1 /\ new[1] = r
          /\ \A i \in 1 .. Len(rq) : new[i + 1] = rq[i]
      OBVIOUS
    <2>3. DOMAIN new = 1 .. Len(rq) + 1
      BY <2>2
    <2> HIDE DEF new
    <2>4. \A i \in DOMAIN new : i # 1 => i - 1 \in DOMAIN rq /\ new[i] = rq[i - 1]
      BY <1>0, <2>2, <2>3
    <2>5. ASSUME NEW i \in DOMAIN new, i # 1
          PROVE  \E k \in DOMAIN rq :
                   /\ new[i] = rq[k]
                   /\ \A j \in DOMAIN new : i < j =>
                        \E l \in DOMAIN rq : k < l /\ new[j] = rq[l]
      <3>1. ASSUME NEW j \in DOMAIN new, i < j
            PROVE  \E l \in DOMAIN rq : i - 1 < l /\ new[j] = rq[l]
        <4>1. j # 1 /\ i - 1 < j - 1
          BY <2>3, <2>5, <3>1, <1>0
        <4> QED BY <2>4, <4>1
      <3> QED BY <2>4, <2>5, <3>1
    <2>6. \A k \in DOMAIN rq : k + 1 \in DOMAIN new /\ new[k + 1] = rq[k]
      BY <1>0, <2>2, <2>3
    <2>7. Len(new) > 0
      BY <1>0, <2>2
    <2> HIDE DEF new
    <2>8. InFrontOf(r, rq, new)
      BY <2>2, <2>5, <2>6, <2>7 DEF InFrontOf
    <2> QED BY <2>1, <2>8
  <1>2. CASE place # {}
    <2> DEFINE p == CHOOSE i \in place : TRUE
               rest == RemoveAt(rq, p)
               new == <<r>> \o rest
    <2>1. put_in_front(rq, r) = new
      BY <1>2 DEF put_in_front
    <2>2. p \in 1 .. Len(rq) /\ rq[p].T = r.T /\ rq[p].inst_name = r.inst_name
          /\ rq[p].cntxt = r.cntxt
      BY <1>0, <1>2 DEF place_of
    <2> HIDE DEF p
    <2>3. /\ rest \in Seq(Resource) /\ Len(rest) = Len(rq) - 1
          /\ \A i \in 1 .. Len(rest) : rest[i] = IF i < p THEN rq[i] ELSE rq[i + 1]
      <3> DEFINE pre == SubSeq(rq, 1, p - 1)
                 post == SubSeq(rq, p + 1, Len(rq))
      <3>1. /\ pre \in Seq(Resource) /\ Len(pre) = p - 1
            /\ \A i \in 1 .. p - 1 : pre[i] = rq[i]
        BY <2>2, SubSeqProperties
      <3>2. /\ post \in Seq(Resource) /\ Len(post) = Len(rq) - p
            /\ \A i \in 1 .. Len(rq) - p : post[i] = rq[p + i]
        BY <2>2, SubSeqProperties
      <3>3. rest = pre \o post
        BY DEF RemoveAt
      <3> HIDE DEF pre, post, rest
      <3>4. /\ rest \in Seq(Resource) /\ Len(rest) = Len(pre) + Len(post)
            /\ \A i \in 1 .. Len(pre) + Len(post) :
                 rest[i] = IF i <= Len(pre) THEN pre[i] ELSE post[i - Len(pre)]
        BY <3>1, <3>2, <3>3, ConcatProperties
      <3>5. Len(rest) = Len(rq) - 1
        BY <1>0, <2>2, <3>1, <3>2, <3>4
      <3>6. ASSUME NEW i \in 1 .. Len(rest)
            PROVE  rest[i] = IF i < p THEN rq[i] ELSE rq[i + 1]
        <4>1. CASE i < p
          BY <1>0, <2>2, <3>1, <3>2, <3>4, <3>5, <4>1
        <4>2. CASE ~(i < p)
          <5>1. rest[i] = post[i - (p - 1)] /\ i - (p - 1) \in 1 .. Len(rq) - p
            BY <1>0, <2>2, <3>1, <3>2, <3>4, <3>5, <4>2
          <5>2. rest[i] = rq[p + (i - (p - 1))]
            BY <3>2, <5>1
          <5>3. p + (i - (p - 1)) = i + 1
            BY <2>2, <3>5
          <5> QED BY <4>2, <5>2, <5>3
        <4> QED BY <4>1, <4>2
      <3> QED BY <3>4, <3>5, <3>6
    <2> HIDE DEF rest
    <2>4. /\ new \in Seq(Resource) /\ Len(new) = Len(rq) /\ new[1] = r
          /\ \A i \in 2 .. Len(rq) : new[i] = rest[i - 1]
      <3>1. <<r>> \in Seq(Resource) /\ Len(<<r>>) = 1 /\ <<r>>[1] = r
        OBVIOUS
      <3>2. /\ new \in Seq(Resource) /\ Len(new) = Len(<<r>>) + Len(rest)
            /\ \A i \in 1 .. Len(<<r>>) + Len(rest) :
                 new[i] = IF i <= Len(<<r>>) THEN <<r>>[i] ELSE rest[i - Len(<<r>>)]
        BY <2>3, <3>1, ConcatProperties
      <3> HIDE DEF new
      <3>3. Len(new) = Len(rq) /\ 1 + Len(rest) = Len(rq)
        BY <1>0, <2>2, <2>3, <3>1, <3>2
      <3>4. \A i \in 1 .. Len(rq) : new[i] = IF i <= 1 THEN <<r>>[i] ELSE rest[i - 1]
        BY <3>1, <3>2, <3>3
      <3>5. 1 \in 1 .. Len(rq)
        BY <1>0, <2>2
      <3>6. new[1] = r
        BY <3>1, <3>4, <3>5
      <3>7. \A i \in 2 .. Len(rq) : new[i] = rest[i - 1]
        BY <1>0, <3>4
      <3> QED BY <3>2, <3>3, <3>6, <3>7
    <2> HIDE DEF new
    <2>5. DOMAIN new = 1 .. Len(rq) /\ Len(new) > 0
      BY <1>0, <2>2, <2>4
    <2> DEFINE Old(i) == IF i - 1 < p THEN i - 1 ELSE i
    <2>6. \A i \in DOMAIN new : i # 1 => Old(i) \in DOMAIN rq /\ new[i] = rq[Old(i)]
      BY <1>0, <2>2, <2>3, <2>4, <2>5
    <2>7. \A i, j \in DOMAIN new : i < j => Old(i) < Old(j)
      BY <1>0, <2>2, <2>5
    <2>8. ASSUME NEW k \in DOMAIN rq, k # p
          PROVE  \E i \in DOMAIN new : new[i] = rq[k]
      <3>1. CASE k < p
        <4>1. k + 1 \in DOMAIN new /\ k + 1 # 1 /\ Old(k + 1) = k
          BY <1>0, <2>2, <2>5, <3>1
        <4> QED BY <2>6, <4>1
      <3>2. CASE k > p
        <4>1. k \in DOMAIN new /\ k # 1 /\ Old(k) = k
          BY <1>0, <2>2, <2>5, <3>2
        <4> QED BY <2>6, <4>1
      <3> QED BY <1>0, <2>2, <2>8, <3>1, <3>2
    <2>9. ASSUME NEW i \in DOMAIN new, i # 1
          PROVE  \E k \in DOMAIN rq :
                   /\ new[i] = rq[k]
                   /\ \A j \in DOMAIN new : i < j =>
                        \E l \in DOMAIN rq : k < l /\ new[j] = rq[l]
      <3>1. ASSUME NEW j \in DOMAIN new, i < j
            PROVE  \E l \in DOMAIN rq : Old(i) < l /\ new[j] = rq[l]
        <4>1. j # 1
          BY <2>5, <2>9, <3>1, <1>0
        <4>2. Old(i) < Old(j)
          BY <2>7, <3>1
        <4> HIDE DEF Old
        <4> QED BY <2>6, <4>1, <4>2
      <3> HIDE DEF Old
      <3> QED BY <2>6, <2>9, <3>1
    <2>10. InFrontOf(r, rq, new)
      BY <2>2, <2>4, <2>5, <2>8, <2>9 DEF InFrontOf
    <2> QED BY <2>1, <2>10
  <1> QED BY <1>1, <1>2

\* A setting that is not for a name leaves the latest of that name as it is.
LEMMA LatestUnchanged ==
  ASSUME NEW q, MatchingSets(q)' = MatchingSets(q),
         \A k \in MatchingSets(q) : sets'[k] = sets[k]
  PROVE  Latest(MatchingSets(q))' = Latest(MatchingSets(q))
  <1> DEFINE rel == MatchingSets(q)
             Wins(i) == \A j \in rel : \/ sets[j].precedence < sets[i].precedence
                                       \/ sets[j].precedence = sets[i].precedence /\ j <= i
             Wins1(i) == \A j \in rel : \/ sets'[j].precedence < sets'[i].precedence
                                        \/ sets'[j].precedence = sets'[i].precedence /\ j <= i
  <1>1. \A i : (i \in rel /\ Wins(i)) <=> (i \in rel /\ Wins1(i))
    OBVIOUS
  <1>2. Latest(rel) = IF rel = {} THEN None ELSE CHOOSE i \in rel : Wins(i)
    BY DEF Latest
  <1>3. Latest(MatchingSets(q))' = IF rel = {} THEN None ELSE CHOOSE i \in rel : Wins1(i)
    BY DEF Latest
  <1> HIDE DEF Wins, Wins1, rel
  <1>4. (CHOOSE i \in rel : Wins(i)) = (CHOOSE i \in rel : Wins1(i))
    BY <1>1
  <1> QED BY <1>2, <1>3, <1>4 DEF rel

LEMMA SetStep ==
  ASSUME ConfigInv, NEW T \in Types, NEW s \in Settings, NEW f \in Fields, set(T, s, f)
  PROVE  ConfigInv'
  <1> USE DEF ConfigInv
  <1> DEFINE inst == full_name(s.cntxt, s.inst_name)
             val == Len(sets) + 1
             prec == setting_precedence(s.cntxt)
  <1>1. s.cntxt \in Components /\ inst \in Scopes
    BY ConfigAssumption DEF ConfigAssumption, Scopes
  <1>2. prec \in Int
    BY <1>1, PrecedenceType
  <1>3. Len(sets) \in Nat /\ val \in Nat /\ sets \in Seq(Setting) /\ DOMAIN sets = 1 .. Len(sets)
    BY DEF TypeOK
  <1>5. PICK r \in Resource :
          r = [T |-> T, cntxt |-> s.cntxt, inst_name |-> inst,
               scope |-> uvm_glob_to_re(inst), precedence |-> prec, val |-> val]
    <2> HIDE DEF inst, prec
    <2> QED BY <1>1, <1>2, <1>3 DEF Resource
  <1>5x. PICK x \in Setting :
           x = [T |-> T, field |-> f, inst_name |-> inst, precedence |-> prec]
    <2> HIDE DEF inst, prec
    <2> QED BY <1>1, <1>2 DEF Setting
  <1>5b. PICK new : new = put_in_front(rtab[f], r)
    OBVIOUS
  <1>4. /\ get_depth(s.cntxt) <= levels
        /\ rtab' = [rtab EXCEPT ![f] = new]
        /\ pc' = [m \in Monitors |->
                    IF pc[m] = "wait" /\ m \in triggered(T, inst, f)
                    THEN "triggered" ELSE pc[m]]
        /\ sets' = Append(sets, x)
        /\ UNCHANGED <<m_waiters, curr_phase, levels, seen, kills>>
    BY <1>5, <1>5x, <1>5b DEF set
  <1> HIDE DEF inst, prec
  <1>6. /\ r.T = T /\ r.cntxt = s.cntxt /\ r.inst_name = inst
        /\ r.scope = uvm_glob_to_re(inst) /\ r.precedence = prec /\ r.val = val
        /\ x.T = T /\ x.field = f /\ x.inst_name = inst /\ x.precedence = prec
        /\ x = [T |-> r.T, field |-> f, inst_name |-> r.inst_name,
                precedence |-> r.precedence]
    BY <1>5, <1>5x
  <1> HIDE DEF val
  <1>7. rtab[f] \in Seq(Resource)
    BY DEF TypeOK
  <1>8. InFrontOf(r, rtab[f], new)
    BY <1>5b, <1>7, PutInFront
  <1>9. DOMAIN new = 1 .. Len(new) /\ Len(new) \in Nat /\ 1 \in DOMAIN new
    BY <1>8 DEF InFrontOf
  <1>10. /\ rtab'[f] = new /\ \A g \in Fields \ {f} : rtab'[g] = rtab[g]
         /\ rtab' \in [Fields -> Seq(Resource)]
    BY <1>4, <1>8 DEF TypeOK, InFrontOf
  <1>11. /\ sets' \in Seq(Setting) /\ DOMAIN sets' = DOMAIN sets \cup {val}
         /\ val \notin DOMAIN sets /\ sets'[val] = x
         /\ \A k \in DOMAIN sets : sets'[k] = sets[k] /\ k \in Nat /\ k < val
    <2>1. /\ sets' \in Seq(Setting) /\ Len(sets') = Len(sets) + 1
          /\ sets'[Len(sets) + 1] = x
          /\ \A k \in 1 .. Len(sets) : sets'[k] = sets[k]
      BY <1>3, <1>4
    <2>2. DOMAIN sets' = 1 .. Len(sets) + 1
      BY <2>1
    <2> QED BY <1>3, <2>1, <2>2 DEF val
  <1>12. \A c : setting_precedence(c)' = setting_precedence(c)
    BY <1>4 DEF setting_precedence
  <1>13. TypeOK'
    BY <1>4, <1>10, <1>11 DEF TypeOK
  <1>14. ASSUME NEW g \in Fields, NEW o, ResourceIsSetting(g, o)
         PROVE  ResourceIsSetting(g, o)'
    BY <1>4, <1>11, <1>12, <1>14 DEF ResourceIsSetting
  <1>15. ResourceIsSetting(f, r)'
    <2>1. r.val \in DOMAIN sets' /\ sets'[r.val] = x
      BY <1>6, <1>11
    <2>2. r.precedence <= setting_precedence(r.cntxt)'
      BY <1>2, <1>6, <1>12 DEF prec
    <2>3. get_depth(r.cntxt) <= levels'
      BY <1>4, <1>6
    <2> QED BY <1>6, <2>1, <2>2, <2>3 DEF ResourceIsSetting
  <1>16. QueuesOK'
    <2> SUFFICES ASSUME NEW g \in Fields, NEW i \in DOMAIN rtab'[g]
                 PROVE  /\ ResourceIsSetting(g, rtab[g][i])'
                        /\ \A j \in DOMAIN rtab'[g] :
                             i < j => rtab'[g][j].val < rtab'[g][i].val
      BY DEF QueuesOK
    <2>1. CASE g # f
      <3>1. rtab'[g] = rtab[g]
        BY <1>10, <2>1
      <3>2. /\ ResourceIsSetting(g, rtab[g][i])
            /\ \A j \in DOMAIN rtab[g] : i < j => rtab[g][j].val < rtab[g][i].val
        BY <3>1 DEF QueuesOK
      <3>3. ResourceIsSetting(g, rtab[g][i])'
        BY <1>14, <3>1, <3>2
      <3> QED BY <3>1, <3>2, <3>3
    <2>2. CASE g = f /\ i = 1
      <3>1. rtab'[g][i] = r
        BY <1>8, <1>10, <2>2 DEF InFrontOf
      <3>2. ASSUME NEW j \in DOMAIN new, 1 < j PROVE new[j].val < val
        <4>1. PICK k \in DOMAIN rtab[f] : new[j] = rtab[f][k]
          BY <1>8, <1>9, <3>2 DEF InFrontOf
        <4>2. new[j].val \in DOMAIN sets
          BY <4>1 DEF QueuesOK, ResourceIsSetting
        <4> QED BY <1>11, <4>2
      <3> QED BY <1>6, <1>10, <1>15, <2>2, <3>1, <3>2
    <2>3. CASE g = f /\ i # 1
      <3>1. PICK k \in DOMAIN rtab[f] :
              /\ new[i] = rtab[f][k]
              /\ \A j \in DOMAIN new : i < j =>
                   \E l \in DOMAIN rtab[f] : k < l /\ new[j] = rtab[f][l]
        BY <1>8, <1>10, <2>3 DEF InFrontOf
      <3>2. ResourceIsSetting(f, rtab[f][k])
        BY DEF QueuesOK
      <3>3. ResourceIsSetting(f, rtab[f][i])'
        <4>1. PICK o : o = rtab[f][k]
          OBVIOUS
        <4>2. ResourceIsSetting(f, o)'
          BY <1>14, <3>2, <4>1
        <4>3. rtab'[f][i] = o
          BY <1>10, <3>1, <4>1
        <4> QED BY <4>2, <4>3 DEF ResourceIsSetting
      <3>4. ASSUME NEW j \in DOMAIN new, i < j PROVE new[j].val < new[i].val
        <4>1. PICK l \in DOMAIN rtab[f] : k < l /\ new[j] = rtab[f][l]
          BY <3>1, <3>4
        <4> QED BY <3>1, <4>1 DEF QueuesOK
      <3> QED BY <1>10, <2>3, <3>1, <3>3, <3>4
    <2> QED BY <2>1, <2>2, <2>3
  <1>17. NothingForgotten'
    <2> SUFFICES ASSUME NEW k \in DOMAIN sets'
                 PROVE  \E i \in DOMAIN rtab'[sets'[k].field] :
                          Survives(k, rtab[sets[k].field][i])'
      BY DEF NothingForgotten
    <2>1. CASE k = val
      <3>1. Survives(k, r)'
        BY <1>2, <1>3, <1>6, <1>11, <2>1 DEF Survives
      <3> QED BY <1>6, <1>8, <1>9, <1>10, <1>11, <2>1, <3>1 DEF Survives, InFrontOf
    <2>2. CASE k \in DOMAIN sets
      <3> DEFINE g == sets[k].field
      <3>1. sets'[k] = sets[k] /\ sets[k] \in Setting /\ g \in Fields
        <4>1. sets[k] \in Setting
          BY <1>3, <2>2
        <4> QED BY <1>11, <2>2, <4>1 DEF Setting
      <3>2. PICK i \in DOMAIN rtab[g] : Survives(k, rtab[g][i])
        BY <2>2 DEF NothingForgotten
      <3>3. CASE g # f
        BY <1>10, <3>1, <3>2, <3>3 DEF Survives
      <3>4. CASE g = f
        <4>1. CASE \E j \in DOMAIN new : new[j] = rtab[f][i]
          BY <1>10, <3>1, <3>2, <3>4, <4>1 DEF Survives
        <4>2. CASE /\ rtab[f][i].T = r.T /\ rtab[f][i].inst_name = r.inst_name
                   /\ rtab[f][i].cntxt = r.cntxt
          <5>1. rtab[f][i] \in Resource /\ ResourceIsSetting(f, rtab[f][i])
            BY <1>7, <3>2, <3>4 DEF QueuesOK
          <5> DEFINE a == sets[k].precedence
                     b == rtab[f][i].precedence
          <5>2. a \in Int /\ b \in Int /\ a <= b /\ b <= prec
            BY <1>6, <3>1, <3>2, <3>4, <4>2, <5>1 DEF Setting, Resource, Survives,
               ResourceIsSetting, prec
          <5> HIDE DEF a, b
          <5>3. a <= prec
            BY <1>2, <5>2
          <5>4. k <= r.val
            BY <1>6, <1>11, <1>3, <2>2
          <5>5. Survives(k, r)'
            BY <1>6, <3>1, <3>2, <3>4, <4>2, <5>3, <5>4 DEF Survives, a
          <5> QED BY <1>8, <1>9, <1>10, <3>1, <3>4, <5>5 DEF Survives, InFrontOf
        <4> QED BY <1>8, <3>2, <3>4, <4>1, <4>2 DEF InFrontOf
      <3> QED BY <3>3, <3>4
    <2> QED BY <1>11, <2>1, <2>2
  <1>18. WaitersOK'
    <2> SUFFICES ASSUME NEW m \in Monitors, pc'[m] = "wait"
                 PROVE  /\ \E i \in DOMAIN m_waiters[Watch[m].T][Watch[m].field] :
                             m_waiters[Watch[m].T][Watch[m].field][i]
                               = [inst_name |-> Watch[m].name, monitor |-> m]
                        /\ seen[m] = Latest(MatchingSets(Watch[m]))'
      BY <1>4 DEF WaitersOK
    <2> DEFINE w == Watch[m]
    <2>1. pc[m] = "wait" /\ m \notin triggered(T, inst, f)
      BY <1>4
    <2>2. PICK i \in DOMAIN m_waiters[w.T][w.field] :
            m_waiters[w.T][w.field][i] = [inst_name |-> w.name, monitor |-> m]
      BY <2>1 DEF WaitersOK
    <2>3. seen[m] = Latest(MatchingSets(w))
      BY <2>1 DEF WaitersOK
    <2>4. ~(/\ w.T = T /\ w.field = f
            /\ uvm_re_match(uvm_glob_to_re(inst), w.name) = 0)
      BY <2>1, <2>2 DEF triggered
    <2>5. MatchingSets(w)' = MatchingSets(w)
      BY <1>6, <1>11, <2>4 DEF MatchingSets
    <2>6. \A k \in MatchingSets(w) : sets'[k] = sets[k]
      BY <1>11 DEF MatchingSets
    <2>7. Latest(MatchingSets(w))' = Latest(MatchingSets(w))
      BY <2>5, <2>6, LatestUnchanged
    <2> QED BY <2>2, <2>3, <2>7
  <1> QED BY <1>13, <1>16, <1>17, <1>18

-----------------------------------------------------------------------------
(* The other steps.                                                        *)

\* What the queues say stays true while the tree of components grows.
LEMMA BuildStep ==
  ASSUME ConfigInv, build
  PROVE  ConfigInv'
  <1> USE DEF ConfigInv
  <1>1. UNCHANGED <<rtab, m_waiters, pc, seen, sets, kills>>
    BY DEF build
  <1>2. TypeOK'
    BY <1>1 DEF build, TypeOK
  <1>3. levels \in Nat /\ levels' \in Nat /\ levels <= levels'
    BY DEF build, TypeOK
  <1>4. ASSUME NEW c \in Components, get_depth(c) <= levels
        PROVE  setting_precedence(c) <= setting_precedence(c)'
    <2>1. get_depth(c) \in Nat
      BY DepthType
    <2>2. CASE curr_phase = "none" /\ curr_phase' = "build"
      <3>1. get_depth(c) = 0
        BY <1>4, <2>1, <2>2 DEF TypeOK
      <3> QED BY <2>2, <3>1 DEF setting_precedence, default_precedence
    <2>3. CASE curr_phase' = curr_phase
      BY <2>1, <2>3 DEF setting_precedence, default_precedence
    <2>4. CASE curr_phase = "build" /\ curr_phase' = "later"
      BY <2>1, <2>4 DEF setting_precedence, default_precedence
    <2> QED BY <2>2, <2>3, <2>4 DEF build
  <1>5. ASSUME NEW f \in Fields, NEW r \in Resource, ResourceIsSetting(f, r)
        PROVE  ResourceIsSetting(f, r)'
    <2>1. get_depth(r.cntxt) <= levels' /\ r.cntxt \in Components
      <3>1. get_depth(r.cntxt) <= levels /\ r.cntxt \in Components
        BY <1>5 DEF ResourceIsSetting, Resource
      <3>2. get_depth(r.cntxt) \in Nat
        BY <3>1, DepthType
      <3> QED BY <1>3, <3>1, <3>2
    <2>2. r.precedence <= setting_precedence(r.cntxt)'
      <3> DEFINE a == r.precedence
                 b == setting_precedence(r.cntxt)
                 c == setting_precedence(r.cntxt)'
      <3>1. a <= b /\ get_depth(r.cntxt) <= levels
        BY <1>5 DEF ResourceIsSetting
      <3>2. b <= c
        BY <1>4, <2>1, <3>1
      <3>3. a \in Int /\ b \in Int /\ c \in Int
        BY <2>1, DepthType DEF Resource, setting_precedence, default_precedence
      <3> HIDE DEF a, b, c
      <3>4. a <= c
        BY <3>1, <3>2, <3>3
      <3> QED BY <3>4 DEF a, c
    <2> QED BY <1>1, <1>5, <2>1, <2>2 DEF ResourceIsSetting
  <1>6. QueuesOK'
    <2> SUFFICES ASSUME NEW f \in Fields, NEW i \in DOMAIN rtab[f]
                 PROVE  /\ ResourceIsSetting(f, rtab[f][i])'
                        /\ \A j \in DOMAIN rtab[f] :
                             i < j => rtab[f][j].val < rtab[f][i].val
      BY <1>1 DEF QueuesOK
    <2>1. rtab[f] \in Seq(Resource)
      BY DEF TypeOK
    <2>2. PICK r \in Resource : r = rtab[f][i]
      BY <2>1
    <2>3. ResourceIsSetting(f, r)
      BY <2>2 DEF QueuesOK
    <2>4. ResourceIsSetting(f, r)'
      BY <1>5, <2>3
    <2>5. r = rtab'[f][i]
      BY <1>1, <2>2
    <2>6. ResourceIsSetting(f, rtab[f][i])'
      BY <2>4, <2>5 DEF ResourceIsSetting
    <2> QED BY <2>6 DEF QueuesOK
  <1>7. NothingForgotten'
    BY <1>1 DEF NothingForgotten, Survives
  <1>8. \A q : Latest(MatchingSets(q))' = Latest(MatchingSets(q))
    BY <1>1 DEF Latest, MatchingSets
  <1>9. WaitersOK'
    BY <1>1, <1>8 DEF WaitersOK
  <1> QED BY <1>2, <1>6, <1>7, <1>9

\* Steps of a monitor leave the settings and the resources alone.
LEMMA SettingsUnchanged ==
  ASSUME QueuesOK, NothingForgotten, UNCHANGED <<rtab, sets, curr_phase, levels>>
  PROVE  /\ QueuesOK' /\ NothingForgotten'
         /\ \A q : Latest(MatchingSets(q))' = Latest(MatchingSets(q))
  <1>1. QueuesOK'
    BY DEF QueuesOK, ResourceIsSetting, setting_precedence
  <1>2. NothingForgotten'
    BY DEF NothingForgotten, Survives
  <1>3. \A q : Latest(MatchingSets(q))' = Latest(MatchingSets(q))
    BY DEF Latest, MatchingSets
  <1> QED BY <1>1, <1>2, <1>3

LEMMA WaitStep ==
  ASSUME ConfigInv, NEW m \in Monitors, wait_modified(m)
  PROVE  ConfigInv'
  <1> USE DEF ConfigInv
  <1> DEFINE w == Watch[m]
  <1>1. w \in Reads /\ w.T \in Types /\ w.name \in Components /\ w.field \in Fields
    BY WatchType
  <1>2. PICK e \in Entry : e = [inst_name |-> w.name, monitor |-> m]
    BY <1>1 DEF Entry
  <1>3. /\ seen' = [seen EXCEPT ![m] = get(w.T, w.name, w.field)]
        /\ m_waiters' = [m_waiters EXCEPT ![w.T][w.field] = Append(@, e)]
        /\ pc' = [pc EXCEPT ![m] = "wait"]
        /\ UNCHANGED <<rtab, curr_phase, levels, sets, kills>>
    BY <1>2 DEF wait_modified
  <1>4. get(w.T, w.name, w.field) = Latest(MatchingSets(w))
    BY <1>1, GetLatest DEF GetIsLatestMatch
  <1>5. get(w.T, w.name, w.field) \in Nat
    <2> DEFINE places == lookup_name(w.T, w.name, w.field)
               rq == rtab[w.field]
               i == get_highest_precedence(rq, places)
    <2>1. rq \in Seq(Resource) /\ places \subseteq DOMAIN rq /\ DOMAIN rq \in SUBSET Nat
      BY <1>1 DEF TypeOK, lookup_name
    <2>2. CASE places = {}
      BY <2>2 DEF get, None
    <2>3. CASE places # {}
      <3>1. ASSUME NEW j \in places
            PROVE  rq[j].precedence \in Int /\ rq[j].precedence <= default_precedence
        <4>1. ResourceIsSetting(w.field, rq[j]) /\ rq[j] \in Resource
          BY <1>1, <2>1 DEF QueuesOK
        <4>2. /\ rq[j].precedence \in Int /\ rq[j].cntxt \in Components
              /\ rq[j].precedence <= setting_precedence(rq[j].cntxt)
          BY <4>1 DEF ResourceIsSetting, Resource
        <4> QED BY <4>2, PrecedenceType DEF default_precedence
      <3> HIDE DEF places, rq
      <3>2. places \in SUBSET Nat
        BY <2>1
      <3>3. i \in places
        BY <2>3, <3>1, <3>2, HighestExists
      <3>4. rq[i] \in Resource
        <4> HIDE DEF i
        <4> QED BY <2>1, <3>3
      <3>5. get(w.T, w.name, w.field) = rq[i].val
        BY <2>3 DEF get, places, rq
      <3> HIDE DEF i
      <3> QED BY <3>4, <3>5 DEF Resource
    <2> QED BY <2>2, <2>3
  <1>6. /\ m_waiters' \in [Types -> [Fields -> Seq(Entry)]]
        /\ m_waiters'[w.T][w.field] = Append(m_waiters[w.T][w.field], e)
        /\ \A T \in Types, f \in Fields :
             (T = w.T /\ f = w.field) \/ m_waiters'[T][f] = m_waiters[T][f]
    <2>1. m_waiters[w.T][w.field] \in Seq(Entry)
      BY <1>1 DEF TypeOK
    <2>2. Append(m_waiters[w.T][w.field], e) \in Seq(Entry)
      BY <2>1
    <2> QED BY <1>1, <1>3, <2>2 DEF TypeOK
  <1>7. TypeOK'
    BY <1>3, <1>5, <1>6 DEF TypeOK
  <1>8. /\ QueuesOK' /\ NothingForgotten'
        /\ \A q : Latest(MatchingSets(q))' = Latest(MatchingSets(q))
    BY <1>3, SettingsUnchanged
  <1>9. WaitersOK'
    <2> SUFFICES ASSUME NEW n \in Monitors, pc'[n] = "wait"
                 PROVE  /\ \E i \in DOMAIN m_waiters'[Watch[n].T][Watch[n].field] :
                             m_waiters'[Watch[n].T][Watch[n].field][i]
                               = [inst_name |-> Watch[n].name, monitor |-> n]
                        /\ seen'[n] = Latest(MatchingSets(Watch[n]))'
      BY DEF WaitersOK
    <2> DEFINE old == m_waiters[w.T][w.field]
    <2>1. /\ old \in Seq(Entry) /\ m_waiters'[w.T][w.field] = Append(old, e)
          /\ Len(old) \in Nat /\ DOMAIN old = 1 .. Len(old)
      BY <1>1, <1>6 DEF TypeOK
    <2> HIDE DEF old
    <2>2. /\ DOMAIN Append(old, e) = 1 .. Len(old) + 1 /\ Append(old, e)[Len(old) + 1] = e
          /\ \A i \in 1 .. Len(old) : Append(old, e)[i] = old[i]
      BY <2>1
    <2>3. CASE n = m
      <3>1. seen'[n] = Latest(MatchingSets(w))
        BY <1>3, <1>4, <2>3 DEF TypeOK
      <3>2. Len(old) + 1 \in DOMAIN m_waiters'[w.T][w.field]
        BY <2>1, <2>2
      <3> QED BY <1>2, <1>8, <2>1, <2>2, <2>3, <3>1, <3>2
    <2>4. CASE n # m
      <3>1. pc[n] = "wait" /\ seen'[n] = seen[n]
        BY <1>3, <2>4 DEF TypeOK
      <3>2. PICK i \in DOMAIN m_waiters[Watch[n].T][Watch[n].field] :
              m_waiters[Watch[n].T][Watch[n].field][i]
                = [inst_name |-> Watch[n].name, monitor |-> n]
        BY <3>1 DEF WaitersOK
      <3>3. \/ m_waiters'[Watch[n].T][Watch[n].field] = m_waiters[Watch[n].T][Watch[n].field]
            \/ Watch[n].T = w.T /\ Watch[n].field = w.field
        BY <1>6, WatchType
      <3>4. i \in DOMAIN m_waiters'[Watch[n].T][Watch[n].field]
            /\ m_waiters'[Watch[n].T][Watch[n].field][i]
                 = m_waiters[Watch[n].T][Watch[n].field][i]
        <4>1. CASE m_waiters'[Watch[n].T][Watch[n].field]
                     = m_waiters[Watch[n].T][Watch[n].field]
          BY <3>2, <4>1
        <4>2. CASE Watch[n].T = w.T /\ Watch[n].field = w.field
          <5>1. m_waiters[Watch[n].T][Watch[n].field] = old
            BY <4>2 DEF old
          <5>2. m_waiters'[Watch[n].T][Watch[n].field] = Append(old, e)
            BY <2>1, <4>2
          <5>3. i \in 1 .. Len(old)
            BY <2>1, <3>2, <5>1
          <5>4. i \in 1 .. Len(old) + 1
            BY <2>1, <5>3
          <5> QED BY <2>2, <5>1, <5>2, <5>3, <5>4
        <4> QED BY <3>3, <4>1, <4>2
      <3>5. seen[n] = Latest(MatchingSets(Watch[n]))
        BY <3>1 DEF WaitersOK
      <3> QED BY <1>8, <3>1, <3>2, <3>4, <3>5
    <2> QED BY <2>3, <2>4
  <1> QED BY <1>7, <1>8, <1>9

LEMMA ModifiedStep ==
  ASSUME ConfigInv, NEW m \in Monitors, modified(m)
  PROVE  ConfigInv'
  <1> USE DEF ConfigInv
  <1> DEFINE w == Watch[m]
  <1>1. w \in Reads /\ w.T \in Types /\ w.name \in Components /\ w.field \in Fields
    BY WatchType
  <1>2. PICK e : e = [inst_name |-> w.name, monitor |-> m]
    OBVIOUS
  <1>3. /\ m_waiters' = [m_waiters EXCEPT ![w.T][w.field] = RemoveFirst(@, e)]
        /\ pc' = [pc EXCEPT ![m] = "idle"]
        /\ UNCHANGED <<rtab, curr_phase, levels, seen, sets, kills>>
    BY <1>2 DEF modified
  <1> DEFINE old == m_waiters[w.T][w.field]
  <1>4. old \in Seq(Entry)
    BY <1>1 DEF TypeOK
  <1>5. PICK rest : rest = RemoveFirst(old, e)
    OBVIOUS
  <1>6. rest \in Seq(Entry) /\ HasOthers(rest, old, e)
    <2> HIDE DEF old
    <2> QED BY <1>4, <1>5, OthersStay
  <1>7. /\ m_waiters' \in [Types -> [Fields -> Seq(Entry)]]
        /\ m_waiters'[w.T][w.field] = rest
        /\ \A T \in Types, f \in Fields :
             (T = w.T /\ f = w.field) \/ m_waiters'[T][f] = m_waiters[T][f]
    BY <1>1, <1>3, <1>5, <1>6 DEF TypeOK
  <1>8. TypeOK'
    BY <1>3, <1>7 DEF TypeOK
  <1>9. /\ QueuesOK' /\ NothingForgotten'
        /\ \A q : Latest(MatchingSets(q))' = Latest(MatchingSets(q))
    BY <1>3, SettingsUnchanged
  <1>10. WaitersOK'
    <2> SUFFICES ASSUME NEW n \in Monitors, pc'[n] = "wait"
                 PROVE  /\ \E i \in DOMAIN m_waiters'[Watch[n].T][Watch[n].field] :
                             m_waiters'[Watch[n].T][Watch[n].field][i]
                               = [inst_name |-> Watch[n].name, monitor |-> n]
                        /\ seen'[n] = Latest(MatchingSets(Watch[n]))'
      BY DEF WaitersOK
    <2>1. n # m /\ pc[n] = "wait"
      BY <1>3 DEF TypeOK
    <2>2. PICK i \in DOMAIN m_waiters[Watch[n].T][Watch[n].field] :
            m_waiters[Watch[n].T][Watch[n].field][i]
              = [inst_name |-> Watch[n].name, monitor |-> n]
      BY <2>1 DEF WaitersOK
    <2>3. seen'[n] = Latest(MatchingSets(Watch[n]))'
      BY <1>3, <1>9, <2>1 DEF WaitersOK
    <2>4. CASE m_waiters'[Watch[n].T][Watch[n].field]
                 = m_waiters[Watch[n].T][Watch[n].field]
      BY <2>2, <2>3, <2>4
    <2>5. CASE Watch[n].T = w.T /\ Watch[n].field = w.field
      <3>1. i \in DOMAIN old /\ old[i] = [inst_name |-> Watch[n].name, monitor |-> n]
        BY <2>2, <2>5
      <3>2. old[i] # e
        BY <1>2, <2>1, <3>1
      <3>3. \E j \in DOMAIN rest : rest[j] = old[i]
        BY <1>6, <3>1, <3>2 DEF HasOthers
      <3> QED BY <1>7, <2>3, <2>5, <3>1, <3>3
    <2> QED BY <1>7, <2>4, <2>5, WatchType
  <1> QED BY <1>8, <1>9, <1>10

LEMMA KillStep ==
  ASSUME ConfigInv, NEW m \in Monitors, kill(m)
  PROVE  ConfigInv'
  <1> USE DEF ConfigInv
  <1>1. /\ pc' = [pc EXCEPT ![m] = "dead"]
        /\ UNCHANGED <<rtab, m_waiters, curr_phase, levels, seen, sets>>
    BY DEF kill
  <1>2. TypeOK'
    BY <1>1 DEF TypeOK
  <1>3. /\ QueuesOK' /\ NothingForgotten'
        /\ \A q : Latest(MatchingSets(q))' = Latest(MatchingSets(q))
    BY <1>1, SettingsUnchanged
  <1>4. \A n \in Monitors : pc'[n] = "wait" => pc[n] = "wait"
    BY <1>1 DEF TypeOK
  <1>5. WaitersOK'
    BY <1>1, <1>3, <1>4 DEF WaitersOK
  <1> QED BY <1>2, <1>3, <1>5

-----------------------------------------------------------------------------
(* The theorems.                                                           *)

LEMMA ConfigInit == Init => ConfigInv
  <1> SUFFICES ASSUME Init PROVE ConfigInv
    OBVIOUS
  <1>1. TypeOK
    BY DEF Init, TypeOK, None
  <1>2. QueuesOK
    BY DEF Init, QueuesOK
  <1>3. NothingForgotten
    BY DEF Init, NothingForgotten
  <1>4. WaitersOK
    BY DEF Init, WaitersOK
  <1> QED BY <1>1, <1>2, <1>3, <1>4 DEF ConfigInv

LEMMA ConfigNext == ConfigInv /\ [Next]_vars => ConfigInv'
  <1> SUFFICES ASSUME ConfigInv, [Next]_vars PROVE ConfigInv'
    OBVIOUS
  <1>1. CASE UNCHANGED vars
    <2>1. TypeOK'
      BY <1>1 DEF ConfigInv, TypeOK, vars
    <2>2. /\ QueuesOK' /\ NothingForgotten'
          /\ \A q : Latest(MatchingSets(q))' = Latest(MatchingSets(q))
      BY <1>1, SettingsUnchanged DEF ConfigInv, vars
    <2>3. WaitersOK'
      BY <1>1, <2>2 DEF ConfigInv, WaitersOK, vars
    <2> QED BY <2>1, <2>2, <2>3 DEF ConfigInv
  <1>2. ASSUME NEW T \in Types, NEW s \in Settings, NEW f \in Fields, set(T, s, f)
        PROVE  ConfigInv'
    BY <1>2, SetStep
  <1>3. CASE build
    BY <1>3, BuildStep
  <1>4. ASSUME NEW m \in Monitors, wait_modified(m) PROVE ConfigInv'
    BY <1>4, WaitStep
  <1>5. ASSUME NEW m \in Monitors, modified(m) PROVE ConfigInv'
    BY <1>5, ModifiedStep
  <1>6. ASSUME NEW m \in Monitors, kill(m) PROVE ConfigInv'
    BY <1>6, KillStep
  <1> QED BY <1>1, <1>2, <1>3, <1>4, <1>5, <1>6 DEF Next

(***************************************************************************)
(* The invariant of the database holds: the queue of a field is in the     *)
(* order of the settings, every setting is there or has been overtaken by  *)
(* one of its scope that is as strong, and a monitor that waits has its    *)
(* entry and has got the latest value for its name.                        *)
(***************************************************************************)
THEOREM Database == Spec => []ConfigInv
  BY ConfigInit, ConfigNext, PTL DEF Spec

(***************************************************************************)
(* A monitor in wait_modified has what it would get now                    *)
(* (uvm_config_db.svh:219): no setting that is for it comes in between,    *)
(* whatever uvm_re_match says a setting is for.                            *)
(***************************************************************************)
THEOREM NoChangeMissed == Spec => []WaiterHasLast
  <1>1. ConfigInv => WaiterHasLast
    <2> SUFFICES ASSUME ConfigInv, NEW m \in Monitors, pc[m] = "wait"
                 PROVE  seen[m] = get(Watch[m].T, Watch[m].name, Watch[m].field)
      BY DEF WaiterHasLast
    <2>1. seen[m] = Latest(MatchingSets(Watch[m]))
      BY DEF ConfigInv, WaitersOK
    <2>2. GetIsLatestMatch
      BY GetLatest DEF ConfigInv
    <2> QED BY <2>1, <2>2, WatchType DEF GetIsLatestMatch
  <1> QED BY <1>1, Database, PTL

(***************************************************************************)
(* get returns the last value among those of the highest precedence whose  *)
(* scope matches the name (uvm_config_db.svh:89, 130), the scopes being    *)
(* matched as uvm_glob_to_re and uvm_re_match do it.                       *)
(***************************************************************************)
THEOREM GetIsLatestMatching == Spec => []GetIsLatestMatch
  <1>1. ConfigInv => GetIsLatestMatch
    BY GetLatest DEF ConfigInv
  <1> QED BY <1>1, Database, PTL

(***************************************************************************)
(* Where the scopes are compiled to what they say, get returns the last    *)
(* value of the highest precedence among the settings whose scope covers   *)
(* the name (uvm_resource.svh:335).                                        *)
(***************************************************************************)
THEOREM LatestOfCovering ==
  ASSUME ScopesMeanWhatTheySay
  PROVE  Spec => []GetIsLatest
  <1>1. ConfigInv => GetIsLatest
    <2> SUFFICES ASSUME ConfigInv, NEW q \in Reads
                 PROVE  get(q.T, q.name, q.field) =
                          Latest({i \in DOMAIN sets :
                                    /\ sets[i].T = q.T /\ sets[i].field = q.field
                                    /\ ScopeCovers(sets[i].inst_name, q.name)})
      BY DEF GetIsLatest
    <2>1. get(q.T, q.name, q.field) = Latest(MatchingSets(q))
      BY GetLatest DEF ConfigInv, GetIsLatestMatch
    <2>2. q.name \in Components
      BY DEF Reads
    <2>3. \A i \in DOMAIN sets : sets[i].inst_name \in Scopes
      <3>1. sets \in Seq(Setting)
        BY DEF ConfigInv, TypeOK
      <3>2. \A i \in DOMAIN sets : sets[i] \in Setting
        BY <3>1
      <3> QED BY <3>2 DEF Setting
    <2>4. MatchingSets(q) =
            {i \in DOMAIN sets : /\ sets[i].T = q.T /\ sets[i].field = q.field
                                 /\ ScopeCovers(sets[i].inst_name, q.name)}
      BY <2>2, <2>3 DEF MatchingSets, ScopesMeanWhatTheySay
    <2> QED BY <2>1, <2>4
  <1> QED BY <1>1, Database, PTL
=============================================================================
