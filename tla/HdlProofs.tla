------------------------------ MODULE HdlProofs ------------------------------
(***************************************************************************)
(* The back door keeps its promises for every design, every word width,    *)
(* every path and every caller's vector, in each of the four builds.       *)
(***************************************************************************)
EXTENDS HdlProperties, CommonLemmas

-----------------------------------------------------------------------------
(* Words, indexes and slices. *)

\* The words of a vector hold all its bits.
LEMMA Chunks ==
  ASSUME NEW n \in Nat \ {0}
  PROVE  chunks(n) \in Nat \ {0} /\ chunks(n) * Word \in Nat /\ chunks(n) * Word >= n
BY DesignAssumption DEF chunks

\* What DesignAssumption says of one object.
LEMMA ObjectFacts ==
  ASSUME NEW o \in Objects
  PROVE  /\ Size[o] \in Nat \ {0} /\ Size[o] <= Memory /\ Memory \in Nat \ {0}
         /\ Kind[o] \in {"verilog", "enum", "enumvec", "int"}
         /\ Kind[o] = "enum" => Size[o] = 1
BY DesignAssumption

\* A vector has a place for each bit of an object, and for each bit of a word.
LEMMA BitsFacts ==
  /\ Word \in Nat \ {0} /\ Bits \subseteq Nat
  /\ 0 .. Memory - 1 \subseteq Bits /\ 0 .. Word - 1 \subseteq Bits
<1>1. Memory \in Nat \ {0} /\ Word \in Nat \ {0}
  BY DesignAssumption
<1>2. PICK n \in Nat \ {0} : n = chunks(Memory)
  BY <1>1, Chunks
<1>3. n * Word \in Nat /\ n * Word >= Memory /\ n * Word >= Word
  BY <1>1, <1>2, Chunks
<1> QED
  BY <1>1, <1>2, <1>3 DEF Bits

\* The parts of a path.
LEMMA PathFacts ==
  ASSUME NEW p \in Path
  PROVE  /\ p.object \in Objects /\ p.root \in BOOLEAN /\ p.lhs \in Nat /\ p.rhs \in Nat
         /\ p.select \in {"none", "bit", "slice"}
         /\ p.select = "none" => p.lhs = Size[p.object] - 1 /\ p.rhs = 0
         /\ p.select = "bit" => p.lhs = p.rhs
         /\ width(p) \in Nat \ {0}
BY DEF Path, width

\* The place of a bit in a vector and the index of a place are inverse to each other.
LEMMA Places ==
  ASSUME NEW p \in Path
  PROVE  /\ \A b \in Named(p) : /\ b \in 0 .. Size[p.object] - 1
                                /\ Is(b, p) \in 0 .. width(p) - 1 /\ index(p, Is(b, p)) = b
         /\ \A i \in 0 .. width(p) - 1 :
              /\ index(p, i) \in Nat /\ Is(index(p, i), p) = i
              /\ index(p, i) \in 0 .. Size[p.object] - 1 => index(p, i) \in Named(p)
<1>1. Size[p.object] \in Nat \ {0}
  BY PathFacts, ObjectFacts
<1>2. p.lhs \in Nat /\ p.rhs \in Nat
  BY PathFacts
<1>3. CASE p.lhs > p.rhs
  BY <1>1, <1>2, <1>3 DEF Named, Is, index, width
<1>4. CASE ~(p.lhs > p.rhs)
  BY <1>1, <1>2, <1>4 DEF Named, Is, index, width
<1> QED
  BY <1>3, <1>4

\* A path within its object is no wider than it, and names a bit at each place.
LEMMA Within ==
  ASSUME NEW p \in Path, InRange(p)
  PROVE  /\ width(p) <= Size[p.object]
         /\ \A i \in 0 .. width(p) - 1 : index(p, i) \in Named(p)
<1>1. Size[p.object] \in Nat \ {0}
  BY PathFacts, ObjectFacts
<1> QED
  BY <1>1, PathFacts DEF Named, index, width, InRange

\* A whole object is within itself, and its bits are at their own places.
LEMMA Whole ==
  ASSUME NEW p \in Path, p.select = "none"
  PROVE  /\ Named(p) = 0 .. Size[p.object] - 1
         /\ \A b \in Named(p) : Is(b, p) = b
<1>1. Size[p.object] \in Nat \ {0}
  BY PathFacts, ObjectFacts
<1> QED
  BY <1>1, PathFacts DEF Named, Is

-----------------------------------------------------------------------------
(* The records that the C code works on. *)

\* What a call leaves of the record that it was given, but for the vector.
SameDesign(c, d) == d.val = c.val /\ d.forced = c.forced
SameBuild(c, d) == d.simulator = c.simulator /\ d.visible = c.visible

\* How a call ends changes nothing else.
LEMMA Ends ==
  ASSUME NEW c \in Calls, NEW d \in {Succeed(c), Fail(c), Refuse(c), Finish(c)}
  PROVE  /\ d \in Calls /\ SameDesign(c, d) /\ SameBuild(c, d) /\ d.value = c.value
         /\ d.partsel = c.partsel
BY DEF Calls, Call, SameDesign, SameBuild, Succeed, Fail, Refuse, Finish

\* What a call that ends returns.
LEMMA EndsOk ==
  ASSUME NEW c \in Calls
  PROVE  Succeed(c).ok = TRUE /\ Fail(c).ok = FALSE /\ Refuse(c).ok = FALSE
BY DEF Calls, Call, Succeed, Fail, Refuse

\* Words that are copied into the vector change only the vector.
LEMMA VectorWritten ==
  ASSUME NEW c \in Calls, NEW words, \A k \in Bits : k \in DOMAIN words => words[k] \in VhdlLogic
  PROVE  /\ Copy(c, words) \in Calls
         /\ SameDesign(c, Copy(c, words)) /\ SameBuild(c, Copy(c, words))
         /\ Copy(c, words).ok = c.ok /\ Copy(c, words).partsel = c.partsel
         /\ \A k \in Bits : Copy(c, words).value[k] =
              IF k \in DOMAIN words THEN words[k] ELSE c.value[k]
<1> DEFINE v == [k \in Bits |-> IF k \in DOMAIN words THEN words[k] ELSE c.value[k]]
<1>1. v \in [Bits -> VhdlLogic]
  BY DEF Calls, Call
<1>2. Copy(c, words) = [c EXCEPT !.value = v]
  BY DEF Copy
<1> HIDE DEF v
<1>3. [c EXCEPT !.value = v].value = v
  BY DEF Calls, Call
<1>4. [c EXCEPT !.value = v] \in Calls
  BY <1>1 DEF Calls, Call
<1> QED
  BY <1>2, <1>3, <1>4 DEF v, Calls, Call, SameDesign, SameBuild

\* Clearing words of the vector is such a copy.
LEMMA Cleared ==
  ASSUME NEW c \in Calls, NEW n \in Nat
  PROVE  /\ Zero(c, n) \in Calls /\ SameDesign(c, Zero(c, n)) /\ SameBuild(c, Zero(c, n))
         /\ Zero(c, n).partsel = c.partsel
         /\ \A k \in Bits : Zero(c, n).value[k] = IF k < n * Word THEN "0" ELSE c.value[k]
<1> DEFINE zeros == [k \in 0 .. n * Word - 1 |-> "0"]
<1>1. Word \in Nat /\ Bits \subseteq Nat /\ n * Word \in Nat
  BY BitsFacts
<1>2. "0" \in VhdlLogic
  BY DEF VhdlLogic
<1>3. /\ Copy(c, zeros) \in Calls
      /\ SameDesign(c, Copy(c, zeros)) /\ SameBuild(c, Copy(c, zeros))
      /\ Copy(c, zeros).partsel = c.partsel
      /\ \A k \in Bits : Copy(c, zeros).value[k] =
              IF k \in DOMAIN zeros THEN zeros[k] ELSE c.value[k]
  <2>1. PICK z : z = zeros
    OBVIOUS
  <2>2. \A k \in Bits : k \in DOMAIN z => z[k] \in VhdlLogic
    BY <1>2, <2>1
  <2> QED
    BY <2>1, <2>2, VectorWritten
<1>4. PICK m \in Nat : m = n * Word
  BY <1>1
<1>5. \A k \in Bits : IF k < n * Word THEN k \in DOMAIN zeros /\ zeros[k] = "0"
                      ELSE k \notin DOMAIN zeros
  BY <1>1, <1>4
<1>6. Zero(c, n) = Copy(c, zeros)
  BY DEF Zero
<1> HIDE DEF zeros
<1> QED
  BY <1>3, <1>5, <1>6

Flags == {"deposit", "force", "release"}

\* The bits that a put stores.
Stored(c, o, new, flag) ==
  IF flag = "deposit" THEN DOMAIN new \ c.forced[o]
  ELSE IF flag = "force" THEN DOMAIN new ELSE {}

\* d has the design of c with the bits of new put into the object o.
IsPut(c, d, o, new, flag) ==
  /\ \A x \in Objects \ {o} : d.val[x] = c.val[x] /\ d.forced[x] = c.forced[x]
  /\ \A b \in 0 .. Size[o] - 1 :
       d.val[o][b] = IF b \in Stored(c, o, new, flag) THEN new[b] ELSE c.val[o][b]
  /\ d.forced[o] = CASE flag = "force" -> c.forced[o] \union DOMAIN new
                     [] flag = "release" -> c.forced[o] \ DOMAIN new
                     [] OTHER -> c.forced[o]

\* What may be put into an object.
Puttable(c, o, new) ==
  /\ DOMAIN new \subseteq Nat
  /\ \A b \in DOMAIN new : new[b] \in VhdlLogic
  /\ Kind[o] = "int" => \/ DOMAIN new = {}
                        \/ /\ c.simulator # "inca"
                           /\ \A b \in DOMAIN new : new[b] \in {"0", "1"}

\* A put leaves a record of the C code, and does what IsPut says.
LEMMA PutFacts ==
  ASSUME NEW c \in Calls, NEW o \in Objects, NEW new, NEW flag \in Flags, Puttable(c, o, new)
  PROVE  /\ Put(c, o, new, flag) \in Calls
         /\ SameBuild(c, Put(c, o, new, flag)) /\ Put(c, o, new, flag).value = c.value
         /\ Put(c, o, new, flag).partsel = c.partsel
         /\ IsPut(c, Put(c, o, new, flag), o, new, flag)
<1> DEFINE d == Put(c, o, new, flag)
           v == [b \in 0 .. Size[o] - 1 |->
                   IF b \in Stored(c, o, new, flag) THEN new[b] ELSE c.val[o][b]]
           f == CASE flag = "force" -> c.forced[o] \union DOMAIN new
                  [] flag = "release" -> c.forced[o] \ DOMAIN new
                  [] OTHER -> c.forced[o]
<1>1. /\ c \in Call /\ c.val[o] \in Values(o) /\ c.forced[o] \subseteq Nat
      /\ c.val \in [Objects -> UNION {Values(x) : x \in Objects}]
      /\ c.forced \in [Objects -> SUBSET Nat]
  BY DEF Calls, Call, Sound
<1>2. DOMAIN c.val[o] = 0 .. Size[o] - 1
  BY <1>1 DEF Values
<1>3. d = [c EXCEPT !.val = [c.val EXCEPT ![o] = v], !.forced = [c.forced EXCEPT ![o] = f]]
  BY <1>1, <1>2 DEF Put, Stored, Call
<1>4. v \in Values(o)
  BY <1>1 DEF Values, Puttable, Stored
<1>5. f \in SUBSET Nat
  BY <1>1 DEF Puttable, Flags
<1>6. /\ Kind[o] = "int" => /\ \A b \in 0 .. Size[o] - 1 : v[b] \in {"0", "1"}
                            /\ c.simulator = "inca" => f = {}
  BY DEF Puttable, Stored, Calls, Sound
<1> HIDE DEF v, f, d
<1>7. /\ d.val = [c.val EXCEPT ![o] = v] /\ d.forced = [c.forced EXCEPT ![o] = f]
      /\ SameBuild(c, d) /\ d.value = c.value /\ d.partsel = c.partsel
  BY <1>1, <1>3 DEF Call, SameBuild
<1>8. d \in Call
  <2>1. [c.val EXCEPT ![o] = v] \in [Objects -> UNION {Values(x) : x \in Objects}]
    BY <1>1, <1>4
  <2>2. [c.forced EXCEPT ![o] = f] \in [Objects -> SUBSET Nat]
    BY <1>1, <1>5
  <2> HIDE DEF Values
  <2> QED
    BY <1>1, <1>3, <2>1, <2>2 DEF Call
<1>9. Sound(d.simulator, d.val, d.forced)
  <2>1. SUFFICES ASSUME NEW x \in Objects
                 PROVE  /\ d.val[x] \in Values(x)
                        /\ Kind[x] = "int" =>
                             /\ \A b \in 0 .. Size[x] - 1 : d.val[x][b] \in {"0", "1"}
                             /\ c.simulator = "inca" => d.forced[x] = {}
    BY <1>7 DEF Sound, SameBuild
  <2>2. CASE x = o
    BY <1>1, <1>4, <1>6, <1>7, <2>2
  <2>3. CASE x # o
    <3>1. d.val[x] = c.val[x] /\ d.forced[x] = c.forced[x]
      BY <1>1, <1>7, <2>3
    <3> QED
      BY <3>1 DEF Calls, Sound
  <2> QED
    BY <2>2, <2>3
<1>10. IsPut(c, d, o, new, flag)
  BY <1>1, <1>7 DEF IsPut, v, f
<1> QED
  BY <1>7, <1>8, <1>9, <1>10 DEF d, Calls

-----------------------------------------------------------------------------
(* What a call does to the bits of its path. *)

\* What WritesThePath asks of a call that leads from c to d.
Writes(c, d, p, flag) ==
  LET o == p.object
      new(b) == c.value[Is(b, p)]
  IN  /\ \A x \in Objects : \A b \in 0 .. Size[x] - 1 :
           x # o \/ b \notin Named(p) =>
             d.val[x][b] = c.val[x][b] /\ (b \in d.forced[x] <=> b \in c.forced[x])
      /\ Carried(o, c.value) => \A b \in Named(p) :
           IF d.ok
           THEN CASE flag = "deposit" ->
                       /\ d.val[o][b] = IF b \in c.forced[o] THEN c.val[o][b] ELSE new(b)
                       /\ b \in d.forced[o] <=> b \in c.forced[o]
                  [] flag = "force" -> d.val[o][b] = new(b) /\ b \in d.forced[o]
                  [] OTHER -> d.val[o][b] = c.val[o][b] /\ b \notin d.forced[o]
           ELSE d.val[o][b] \in {c.val[o][b], new(b)}

\* A put of some bits of the path, of all of them if the call succeeds.
LEMMA PutWrites ==
  ASSUME NEW c \in Calls, NEW d, NEW p \in Path, NEW new, NEW flag \in Flags,
         IsPut(c, d, p.object, new, flag),
         DOMAIN new \subseteq Named(p), d.ok => DOMAIN new = Named(p),
         Carried(p.object, c.value) => \A b \in DOMAIN new : new[b] = c.value[Is(b, p)]
  PROVE  Writes(c, d, p, flag)
<1> DEFINE o == p.object
<1>1. o \in Objects /\ Named(p) \subseteq 0 .. Size[o] - 1
  BY PathFacts, Places
<1>2. ASSUME NEW x \in Objects, NEW b \in 0 .. Size[x] - 1, x # o \/ b \notin Named(p)
      PROVE  d.val[x][b] = c.val[x][b] /\ (b \in d.forced[x] <=> b \in c.forced[x])
  <2>1. CASE x # o
    BY <2>1 DEF IsPut
  <2>2. CASE x = o
    <3>1. b \notin DOMAIN new /\ b \in 0 .. Size[o] - 1
      BY <1>2, <2>2
    <3> QED
      BY <2>2, <3>1 DEF IsPut, Stored, Flags
  <2> QED
    BY <2>1, <2>2
<1>3. ASSUME NEW b \in Named(p), Carried(o, c.value)
      PROVE  IF d.ok
             THEN CASE flag = "deposit" ->
                        /\ d.val[o][b] = IF b \in c.forced[o] THEN c.val[o][b]
                                         ELSE c.value[Is(b, p)]
                        /\ b \in d.forced[o] <=> b \in c.forced[o]
                    [] flag = "force" ->
                         d.val[o][b] = c.value[Is(b, p)] /\ b \in d.forced[o]
                    [] OTHER -> d.val[o][b] = c.val[o][b] /\ b \notin d.forced[o]
             ELSE d.val[o][b] \in {c.val[o][b], c.value[Is(b, p)]}
  <2>1. b \in 0 .. Size[o] - 1
    BY <1>1
  <2>2. b \in DOMAIN new => new[b] = c.value[Is(b, p)]
    BY <1>3
  <2>3. d.ok => b \in DOMAIN new
    BY <1>3
  <2>4. flag \in {"deposit", "force", "release"}
    BY DEF Flags
  <2> QED
    BY <2>1, <2>2, <2>3, <2>4 DEF IsPut, Stored
<1> QED
  BY <1>2, <1>3 DEF Writes

\* A call that fails and leaves the design as it was.
LEMMA FailureWrites ==
  ASSUME NEW c, NEW d, NEW p, NEW flag, SameDesign(c, d), d.ok = FALSE
  PROVE  Writes(c, d, p, flag)
BY DEF Writes, SameDesign

\* The first n bits of the vector, for as many indexes as are within the object.
LEMMA FirstBitsFacts ==
  ASSUME NEW v \in [Bits -> VhdlLogic], NEW p \in Path, NEW n \in 0 .. width(p),
         \A i \in 0 .. n - 1 : index(p, i) \in 0 .. Size[p.object] - 1
  PROVE  LET new == FirstBits(v, p, n)
         IN  /\ DOMAIN new \subseteq Named(p) /\ (n = width(p) => DOMAIN new = Named(p))
             /\ \A b \in DOMAIN new : new[b] = v[Is(b, p)] /\ new[b] \in VhdlLogic
<1> DEFINE new == FirstBits(v, p, n)
<1>1. /\ Size[p.object] \in Nat \ {0} /\ Size[p.object] <= Memory /\ Memory \in Nat
      /\ width(p) \in Nat /\ n \in Nat /\ p.lhs \in Nat /\ p.rhs \in Nat
  BY PathFacts, ObjectFacts
<1>2. DOMAIN new = {index(p, i) : i \in 0 .. n - 1}
  BY DEF FirstBits
<1>3. \A b \in DOMAIN new : new[b] = v[Is(b, p)]
  BY <1>2 DEF FirstBits, Is
<1>4. \A i \in 0 .. n - 1 : i \in 0 .. width(p) - 1
  BY <1>1
<1>5. ASSUME NEW i \in 0 .. n - 1 PROVE i \in Bits
  <2>1. 0 \in 0 .. n - 1 /\ 0 \in 0 .. width(p) - 1
    BY <1>1
  <2>2. index(p, 0) \in 0 .. Size[p.object] - 1 /\ index(p, i) \in 0 .. Size[p.object] - 1
    BY <2>1
  <2>3. i < Size[p.object]
    BY <1>1, <2>2 DEF index
  <2>4. i \in 0 .. Memory - 1
    BY <1>1, <2>3
  <2> QED
    BY <2>4, BitsFacts
<1>6. DOMAIN new \subseteq Named(p)
  BY <1>2, <1>4, Places
<1>7. ASSUME NEW b \in DOMAIN new PROVE new[b] \in VhdlLogic
  <2>1. PICK i \in 0 .. n - 1 : b = index(p, i)
    BY <1>2
  <2>2. Is(b, p) = i
    BY <1>4, <2>1, Places
  <2> QED
    BY <1>3, <1>5, <2>2
<1>8. ASSUME n = width(p), NEW b \in Named(p) PROVE b \in DOMAIN new
  BY <1>2, <1>8, Places
<1> QED
  BY <1>3, <1>6, <1>7, <1>8

\* d has in its vector what c shows at the path.
Shows(c, d, p) ==
  \A i \in 0 .. width(p) - 1 : d.value[i] = c.val[p.object][index(p, i)]

\* A value that is read through a handle is in the vector, followed by zeros up to the
\* end of its last word; the rest of the vector stays.
LEMMA HandleReads ==
  ASSUME NEW c \in Calls, NEW p \in Path, InRange(p)
  PROVE  LET d == Copy(c, vpi_get_value(c, p))
         IN  /\ d \in Calls /\ SameDesign(c, d) /\ SameBuild(c, d) /\ Shows(c, d, p)
             /\ d.ok = c.ok /\ d.partsel = c.partsel
             /\ \A k \in Bits : k >= width(p) => d.value[k] \in {"0", c.value[k]}
<1> DEFINE words == vpi_get_value(c, p)
           o == p.object
<1>1. /\ o \in Objects /\ Size[o] \in Nat \ {0} /\ Size[o] <= Memory /\ Memory \in Nat
      /\ width(p) \in Nat \ {0} /\ width(p) <= Size[o]
  BY PathFacts, ObjectFacts, Within
<1>2. PICK n \in Nat : n = chunks(width(p)) * Word /\ n >= width(p)
  BY <1>1, Chunks
<1>3. /\ DOMAIN words = 0 .. n - 1
      /\ \A k \in 0 .. n - 1 : words[k] = IF k < width(p) THEN c.val[o][index(p, k)] ELSE "0"
  BY <1>2 DEF vpi_get_value
<1> HIDE DEF words
<1>4. \A i \in 0 .. width(p) - 1 : c.val[o][index(p, i)] \in VhdlLogic
  <2>1. c.val[o] \in [0 .. Size[o] - 1 -> VhdlLogic]
    BY <1>1 DEF Calls, Sound, Values
  <2> QED
    BY <2>1, Places, Within
<1>5. "0" \in VhdlLogic
  BY DEF VhdlLogic
<1>6. \A k \in Bits : k \in DOMAIN words => words[k] \in VhdlLogic
  BY <1>1, <1>2, <1>3, <1>4, <1>5
<1>7. /\ Copy(c, words) \in Calls
      /\ SameDesign(c, Copy(c, words)) /\ SameBuild(c, Copy(c, words))
      /\ Copy(c, words).ok = c.ok /\ Copy(c, words).partsel = c.partsel
      /\ \A k \in Bits : Copy(c, words).value[k] =
           IF k \in DOMAIN words THEN words[k] ELSE c.value[k]
  BY <1>6, VectorWritten
<1>8. \A i \in 0 .. width(p) - 1 : i \in Bits /\ i \in 0 .. n - 1
  <2>1. \A i \in 0 .. width(p) - 1 : i \in 0 .. Memory - 1
    BY <1>1
  <2> QED
    BY <1>1, <1>2, <2>1, BitsFacts
<1>9. Shows(c, Copy(c, words), p)
  BY <1>1, <1>3, <1>7, <1>8 DEF Shows
<1>10. \A k \in Bits : k >= width(p) => Copy(c, words).value[k] \in {"0", c.value[k]}
  <2>1. \A k \in Bits : k \in Nat
    BY BitsFacts
  <2> QED
    BY <1>1, <1>3, <1>7, <2>1
<1> QED
  BY <1>7, <1>9, <1>10 DEF words

\* A put through a handle; a release hands a value back.
LEMMA HandlePuts ==
  ASSUME NEW c \in Calls, NEW p \in Path, InRange(p), Kind[p.object] = "verilog",
         NEW flag \in Flags
  PROVE  LET d == Succeed(vpi_put_value(c, p, flag))
         IN  d \in Calls /\ SameBuild(c, d) /\ Writes(c, d, p, flag)
<1> DEFINE o == p.object
           new == FirstBits(c.value, p, width(p))
           e == Put(c, o, new, flag)
           f == vpi_put_value(c, p, flag)
<1>1. /\ o \in Objects /\ width(p) \in Nat \ {0} /\ width(p) \in 0 .. width(p)
      /\ \A i \in 0 .. width(p) - 1 : index(p, i) \in 0 .. Size[o] - 1
  BY PathFacts, Places, Within
<1>2. c.value \in [Bits -> VhdlLogic]
  BY DEF Calls, Call
<1>3. /\ DOMAIN new = Named(p)
      /\ \A b \in DOMAIN new : new[b] = c.value[Is(b, p)] /\ new[b] \in VhdlLogic
  BY <1>1, <1>2, FirstBitsFacts
<1>4. Puttable(c, o, new)
  BY <1>3, Places DEF Puttable
<1>5. /\ e \in Calls /\ SameBuild(c, e) /\ IsPut(c, e, o, new, flag)
  BY <1>1, <1>4, PutFacts
<1>6. f \in Calls /\ SameBuild(e, f) /\ SameDesign(e, f)
  <2>1. f = IF flag = "release" THEN Copy(e, vpi_get_value(e, p)) ELSE e
    BY DEF vpi_put_value
  <2> HIDE DEF e, f
  <2>2. CASE flag = "release"
    BY <1>5, <2>1, <2>2, HandleReads
  <2>3. CASE flag # "release"
    BY <1>5, <2>1, <2>3 DEF SameBuild, SameDesign
  <2> QED
    BY <2>2, <2>3
<1> HIDE DEF e, f, new
<1>7. /\ Succeed(f) \in Calls /\ SameBuild(f, Succeed(f)) /\ SameDesign(f, Succeed(f))
  BY <1>6, Ends
<1>8. IsPut(c, Succeed(f), o, new, flag)
  BY <1>5, <1>6, <1>7 DEF IsPut, SameDesign
<1>9. Writes(c, Succeed(f), p, flag)
  BY <1>3, <1>8, PutWrites
<1>10. SameBuild(c, Succeed(f))
  BY <1>5, <1>6, <1>7 DEF SameBuild
<1> QED
  BY <1>7, <1>9, <1>10 DEF f

\* What a call may leave that reads through a path, and one that writes.
Reads(c, d, p) ==
  /\ d.ok /\ (Kind[p.object] = "verilog" \/ Fits(p.object))
       /\ ~(c.simulator = "vcsmx" /\ Vcs!mhpiPliP(p) = "none") =>
       \A b \in Named(p) : d.value[Is(b, p)] = Shown(p.object, c.val[p.object][b])
  /\ SameDesign(c, d)

Clean(c, d, p) ==
  /\ d.ok /\ c.visible
  /\ \/ c.simulator = "questa" /\ ~c.partsel
     \/ c.simulator = "inca" /\ p.select = "slice"
  => \A k \in width(p) .. (chunks(MaxWidth) - 1) * Word - 1 : d.value[k] = "0"

ReadDone(c, d, p) == d \in Calls /\ SameBuild(c, d) /\ Reads(c, d, p) /\ Clean(c, d, p)
WriteDone(c, d, p, flag) == d \in Calls /\ SameBuild(c, d) /\ Writes(c, d, p, flag)

\* A call that fails.
LEMMA FailureDone ==
  ASSUME NEW c \in Calls, NEW p, NEW flag,
         NEW d \in {Fail(c), Refuse(c), Refuse(Finish(c))}
  PROVE  ReadDone(c, d, p) /\ WriteDone(c, d, p, flag)
<1>1. Finish(c) \in Calls /\ SameDesign(c, Finish(c)) /\ SameBuild(c, Finish(c))
  BY Ends
<1>2. /\ d \in Calls /\ d.ok = FALSE /\ SameDesign(c, d) /\ SameBuild(c, d)
  <2>1. CASE d = Fail(c) \/ d = Refuse(c)
    BY <2>1, Ends, EndsOk
  <2>2. CASE d = Refuse(Finish(c))
    <3>1. /\ d \in Calls /\ d.ok = FALSE
          /\ SameDesign(Finish(c), d) /\ SameBuild(Finish(c), d)
      BY <1>1, <2>2, Ends, EndsOk
    <3> QED
      BY <1>1, <3>1 DEF SameDesign, SameBuild
  <2> QED
    BY <2>1, <2>2
<1> QED
  BY <1>2, FailureWrites DEF ReadDone, WriteDone, Reads, Clean

-----------------------------------------------------------------------------
(* VCS. *)

\* The function for Verilog objects, in the terms of HdlDesign.
LEMMA VcsVlog ==
  ASSUME NEW c, NEW p, NEW flag
  PROVE  LET found == Kind[p.object] = "verilog" /\ ~p.root /\ InRange(p)
         IN  /\ Vcs!vpi_handle_by_name(p) = found
             /\ Vcs!uvm_hdl_set_vlog(c, p, flag) =
                  IF found THEN Succeed(vpi_put_value(c, p, flag)) ELSE Fail(c)
             /\ Vcs!uvm_hdl_get_vlog(c, p) =
                  IF found /\ width(p) <= (IF c.visible THEN MaxWidth ELSE DefaultWidth)
                  THEN Succeed(Copy(c, vpi_get_value(c, p))) ELSE Fail(c)
BY DEF Vcs!vpi_handle_by_name, Vcs!uvm_hdl_set_vlog, Vcs!uvm_hdl_get_vlog,
       Vcs!uvm_hdl_max_width, Vcs!InRange, InRange, Vcs!vpi_put_value, vpi_put_value,
       Vcs!vpi_get_value, vpi_get_value, Vcs!Put, Put, Vcs!FirstBits, FirstBits,
       Vcs!index, index, Vcs!width, width, Vcs!Copy, Copy, Vcs!Bits, Bits,
       Vcs!chunks, chunks, Vcs!Succeed, Succeed, Vcs!Fail, Fail

\* A read through a handle returns the bits of the path.
LEMMA HandleReadDone ==
  ASSUME NEW c \in Calls, NEW p \in Path, InRange(p), Kind[p.object] = "verilog"
  PROVE  LET d == Succeed(Copy(c, vpi_get_value(c, p)))
         IN  /\ d \in Calls /\ SameBuild(c, d) /\ Reads(c, d, p)
             /\ \A k \in Bits : k >= width(p) => d.value[k] \in {"0", c.value[k]}
<1> DEFINE e == Copy(c, vpi_get_value(c, p))
<1>1. /\ e \in Calls /\ SameDesign(c, e) /\ SameBuild(c, e) /\ Shows(c, e, p)
      /\ \A k \in Bits : k >= width(p) => e.value[k] \in {"0", c.value[k]}
  BY HandleReads
<1> HIDE DEF e
<1>2. /\ Succeed(e) \in Calls /\ SameDesign(e, Succeed(e)) /\ SameBuild(e, Succeed(e))
      /\ Succeed(e).value = e.value
  BY <1>1, Ends
<1>3. \A b \in Named(p) : e.value[Is(b, p)] = Shown(p.object, c.val[p.object][b])
  BY <1>1, Places DEF Shows, Shown
<1>4. SameDesign(c, Succeed(e)) /\ SameBuild(c, Succeed(e))
  BY <1>1, <1>2 DEF SameDesign, SameBuild
<1>5. Reads(c, Succeed(e), p)
  BY <1>2, <1>3, <1>4 DEF Reads
<1> QED
  BY <1>1, <1>2, <1>4, <1>5 DEF e

\* The functions for Verilog objects.
LEMMA VcsVlogDone ==
  ASSUME NEW c \in Calls, c.simulator \in {"vcs", "vcsmx"}, NEW p \in Path, NEW flag \in Flags
  PROVE  /\ WriteDone(c, Vcs!uvm_hdl_set_vlog(c, p, flag), p, flag)
         /\ ReadDone(c, Vcs!uvm_hdl_get_vlog(c, p), p)
<1>1. WriteDone(c, Vcs!uvm_hdl_set_vlog(c, p, flag), p, flag)
  BY VcsVlog, HandlePuts, FailureDone DEF WriteDone
<1>2. ReadDone(c, Vcs!uvm_hdl_get_vlog(c, p), p)
  <2>1. CASE Vcs!uvm_hdl_get_vlog(c, p) = Fail(c)
    BY <2>1, FailureDone
  <2>2. CASE /\ Vcs!uvm_hdl_get_vlog(c, p) = Succeed(Copy(c, vpi_get_value(c, p)))
             /\ InRange(p) /\ Kind[p.object] = "verilog"
    BY <2>2, HandleReadDone DEF ReadDone, Clean
  <2> QED
    BY <2>1, <2>2, VcsVlog
<1> QED
  BY <1>1, <1>2

\* The functions for VHDL objects in a mixed-language build.
LEMMA VcsMhdl ==
  ASSUME NEW c, NEW p, NEW flag
  PROVE  LET o == p.object
             digits == Vcs!uvm_hdl_dtob(c.value)
         IN  /\ Vcs!uvm_hdl_get_mhdl(c, p) = Succeed(Copy(c, Vcs!uvm_hdl_btoi(c.val[o])))
             /\ Vcs!uvm_hdl_set_mhdl(c, p, flag) =
                  Succeed(Put(c, o, [b \in 0 .. Size[o] - 1 |->
                                       IF b < Word THEN digits[b] ELSE "0"], flag))
BY DEF Vcs!uvm_hdl_get_mhdl, Vcs!uvm_hdl_set_mhdl, Vcs!Put, Put, Vcs!Copy, Copy, Vcs!Bits,
       Bits, Vcs!chunks, chunks, Vcs!Succeed, Succeed

\* A number is read digit by digit.
LEMMA VcsGetMhdlDone ==
  ASSUME NEW c \in Calls, c.simulator = "vcsmx", c.simulator = scenario.simulator,
         NEW p \in Path, p.select = "none", Kind[p.object] # "verilog"
  PROVE  ReadDone(c, Vcs!uvm_hdl_get_mhdl(c, p), p)
<1> DEFINE o == p.object
           bits == c.val[o]
           words == Vcs!uvm_hdl_btoi(bits)
           e == Copy(c, words)
<1>1. /\ o \in Objects /\ Word \in Nat \ {0} /\ Size[o] \in Nat \ {0}
      /\ DOMAIN bits = 0 .. Size[o] - 1
  BY PathFacts, ObjectFacts, BitsFacts DEF Calls, Sound, Values
<1>2. words = [k \in 0 .. Word - 1 |-> IF k \in DOMAIN bits /\ bits[k] = "1" THEN "1" ELSE "0"]
  BY DEF Vcs!uvm_hdl_btoi
<1> HIDE DEF words
<1>3. /\ DOMAIN words = 0 .. Word - 1
      /\ \A k \in 0 .. Word - 1 : words[k] \in VhdlLogic
      /\ \A k \in 0 .. Word - 1 : k < Size[o] => words[k] = TwoState(bits[k])
  BY <1>1, <1>2 DEF VhdlLogic, TwoState
<1>4. /\ e \in Calls /\ SameDesign(c, e) /\ SameBuild(c, e)
      /\ \A k \in Bits : k \in DOMAIN words => e.value[k] = words[k]
  BY <1>3, VectorWritten
<1> HIDE DEF e
<1>5. /\ Succeed(e) \in Calls /\ SameDesign(e, Succeed(e)) /\ SameBuild(e, Succeed(e))
      /\ Succeed(e).value = e.value
  BY <1>4, Ends
<1>6. SameDesign(c, Succeed(e)) /\ SameBuild(c, Succeed(e))
  BY <1>4, <1>5 DEF SameDesign, SameBuild
<1>7. ASSUME Fits(o), NEW b \in Named(p)
      PROVE  Succeed(e).value[Is(b, p)] = Shown(o, c.val[o][b])
  <2>1. Is(b, p) = b /\ b \in 0 .. Size[o] - 1
    BY Whole
  <2>2. b \in 0 .. Word - 1 /\ b < Size[o]
    BY <1>1, <1>7, <2>1 DEF Fits
  <2>3. e.value[b] = TwoState(bits[b])
    BY <1>3, <1>4, <2>2, BitsFacts
  <2>4. Shown(o, bits[b]) = TwoState(bits[b])
    BY DEF Shown, TwoState
  <2> QED
    BY <1>5, <2>1, <2>3, <2>4
<1>8. Reads(c, Succeed(e), p)
  BY <1>6, <1>7 DEF Reads
<1>9. Vcs!uvm_hdl_get_mhdl(c, p) = Succeed(e)
  BY VcsMhdl DEF e, words
<1> QED
  BY <1>5, <1>6, <1>8, <1>9 DEF ReadDone, Clean

\* A number is written digit by digit; the sign of the word is lost.
LEMMA VcsSetMhdlDone ==
  ASSUME NEW c \in Calls, c.simulator = "vcsmx", c.simulator = scenario.simulator,
         NEW p \in Path, p.select = "none", Kind[p.object] # "verilog", NEW flag \in Flags
  PROVE  WriteDone(c, Vcs!uvm_hdl_set_mhdl(c, p, flag), p, flag)
<1> DEFINE o == p.object
           digits == Vcs!uvm_hdl_dtob(c.value)
           new == [b \in 0 .. Size[o] - 1 |-> IF b < Word THEN digits[b] ELSE "0"]
           e == Put(c, o, new, flag)
<1>1. o \in Objects /\ Word \in Nat \ {0} /\ Size[o] \in Nat \ {0}
  BY PathFacts, ObjectFacts, BitsFacts
<1>2. digits = [k \in 0 .. Word - 1 |->
                  IF aval(c.value[k]) # (aval(c.value[Word - 1])
                                           /\ \E j \in 0 .. k - 1 : aval(c.value[j]))
                  THEN "1" ELSE "0"]
  BY DEF Vcs!uvm_hdl_dtob, Vcs!aval, aval
<1> HIDE DEF digits
<1>3. \A k \in 0 .. Word - 1 : digits[k] \in {"0", "1"}
  BY <1>2
<1>4. /\ DOMAIN new = 0 .. Size[o] - 1
      /\ \A b \in 0 .. Size[o] - 1 : new[b] \in {"0", "1"}
      /\ \A b \in 0 .. Size[o] - 1 : b < Word => new[b] = digits[b]
  BY <1>1, <1>3
<1>5. Carried(o, c.value) => \A b \in DOMAIN new : new[b] = c.value[Is(b, p)]
  <2>1. SUFFICES ASSUME Carried(o, c.value), NEW b \in 0 .. Size[o] - 1
                 PROVE  new[b] = c.value[Is(b, p)]
    BY <1>4
  <2>2. /\ Size[o] <= Word /\ c.value[Word - 1] = "0"
        /\ \A k \in 0 .. Word - 1 : c.value[k] \in {"0", "1"}
    BY <2>1 DEF Carried, Fits
  <2>3. b \in 0 .. Word - 1 /\ b < Word /\ Is(b, p) = b
    BY <1>1, <2>1, <2>2, Whole
  <2>4. digits[b] = c.value[b]
    BY <1>2, <2>2, <2>3 DEF aval
  <2> QED
    BY <1>4, <2>3, <2>4
<1> HIDE DEF new
<1>6. Puttable(c, o, new)
  BY <1>4 DEF Puttable, VhdlLogic
<1>7. e \in Calls /\ SameBuild(c, e) /\ IsPut(c, e, o, new, flag)
  BY <1>1, <1>6, PutFacts
<1> HIDE DEF e
<1>8. Succeed(e) \in Calls /\ SameBuild(e, Succeed(e)) /\ SameDesign(e, Succeed(e))
  BY <1>7, Ends
<1>9. IsPut(c, Succeed(e), o, new, flag)
  BY <1>7, <1>8 DEF IsPut, SameDesign
<1>10. DOMAIN new = Named(p)
  BY <1>4, Whole
<1>11. Writes(c, Succeed(e), p, flag)
  BY <1>5, <1>9, <1>10, PutWrites
<1>12. SameBuild(c, Succeed(e))
  BY <1>7, <1>8 DEF SameBuild
<1>13. Vcs!uvm_hdl_set_mhdl(c, p, flag) = Succeed(e)
  BY VcsMhdl DEF e, new, digits
<1> QED
  BY <1>8, <1>11, <1>12, <1>13 DEF WriteDone

\* The release of a VHDL object.
LEMMA VcsReleaseMhdl ==
  ASSUME NEW c \in Calls, NEW p \in Path, p.select = "none"
  PROVE  WriteDone(c, Succeed([c EXCEPT !.forced[p.object] = {}]), p, "release")
<1> DEFINE o == p.object
           e == [c EXCEPT !.forced[o] = {}]
<1>1. o \in Objects
  BY PathFacts
<1>2. /\ e \in Call /\ e.val = c.val /\ SameBuild(c, e)
      /\ e.forced[o] = {} /\ \A x \in Objects \ {o} : e.forced[x] = c.forced[x]
  BY <1>1 DEF Calls, Call, SameBuild
<1>3. e \in Calls
  BY <1>2 DEF Calls, Sound, SameBuild
<1> HIDE DEF e
<1>4. Succeed(e) \in Calls /\ SameBuild(e, Succeed(e)) /\ SameDesign(e, Succeed(e))
  BY <1>3, Ends
<1>5. Named(p) = 0 .. Size[o] - 1
  BY Whole
<1>6. Writes(c, Succeed(e), p, "release")
  BY <1>1, <1>2, <1>4, <1>5, EndsOk, <1>3 DEF Writes, SameDesign
<1> QED
  BY <1>2, <1>4, <1>6 DEF WriteDone, SameBuild, e

\* Every imported function of this back end.
LEMMA VcsDone ==
  ASSUME NEW c \in Calls, c.simulator \in {"vcs", "vcsmx"}, c.simulator = scenario.simulator,
         NEW p \in Path
  PROVE  /\ \A d \in Vcs!uvm_hdl_read(c, p) : ReadDone(c, d, p)
         /\ \A d \in Vcs!uvm_hdl_deposit(c, p) : WriteDone(c, d, p, "deposit")
         /\ \A d \in Vcs!uvm_hdl_force(c, p) : WriteDone(c, d, p, "force")
         /\ \A d \in Vcs!uvm_hdl_release(c, p) \union Vcs!uvm_hdl_release_and_read(c, p) :
              WriteDone(c, d, p, "release")
<1> DEFINE verilog == c.simulator = "vcs" \/ Vcs!mhpiPliP(p) = "mhpiVpiPli"
           vhdl == c.simulator = "vcsmx" /\ Vcs!mhpiPliP(p) = "mhpiVhpiPli"
<1>1. /\ Vcs!mhpiPliP(p) \in {"mhpiVpiPli", "mhpiVhpiPli", "none"}
      /\ vhdl => Kind[p.object] # "verilog" /\ p.select = "none"
  BY DEF Vcs!mhpiPliP
<1>2. \A flag \in Flags : /\ WriteDone(c, Vcs!uvm_hdl_set_vlog(c, p, flag), p, flag)
                          /\ ReadDone(c, Vcs!uvm_hdl_get_vlog(c, p), p)
  BY VcsVlogDone
<1>3. \A flag \in Flags : vhdl => /\ WriteDone(c, Vcs!uvm_hdl_set_mhdl(c, p, flag), p, flag)
                                  /\ ReadDone(c, Vcs!uvm_hdl_get_mhdl(c, p), p)
  BY <1>1, VcsGetMhdlDone, VcsSetMhdlDone
<1>4. /\ "deposit" \in Flags /\ "force" \in Flags /\ "release" \in Flags
      /\ Vcs!Refuse(c) = Refuse(c) /\ \A d : Vcs!Succeed(d) = Succeed(d)
  BY DEF Flags, Vcs!Refuse, Refuse, Vcs!Succeed, Succeed
<1>5. \A flag : ReadDone(c, Refuse(c), p) /\ WriteDone(c, Refuse(c), p, flag)
  BY FailureDone
<1>6. \A d \in Vcs!uvm_hdl_read(c, p) : ReadDone(c, d, p)
  <2>1. CASE verilog
    BY <1>2, <1>4, <2>1 DEF Vcs!uvm_hdl_read
  <2>2. CASE vhdl
    BY <1>3, <1>4, <2>2 DEF Vcs!uvm_hdl_read
  <2>3. CASE ~verilog /\ ~vhdl
    <3>1. c.simulator = "vcsmx" /\ Vcs!mhpiPliP(p) = "none"
      BY <1>1, <2>3
    <3>2. ReadDone(c, Succeed(c), p)
      BY <3>1, Ends DEF ReadDone, Reads, Clean
    <3>3. \A d \in Vcs!uvm_hdl_read(c, p) : d = Succeed(c) \/ d = Refuse(c)
      BY <2>3, <1>4 DEF Vcs!uvm_hdl_read
    <3> QED
      BY <1>5, <3>2, <3>3
  <2> QED
    BY <2>1, <2>2, <2>3
<1>7. \A d \in Vcs!uvm_hdl_deposit(c, p) : WriteDone(c, d, p, "deposit")
  BY <1>2, <1>3, <1>4, <1>5 DEF Vcs!uvm_hdl_deposit
<1>8. \A d \in Vcs!uvm_hdl_force(c, p) : WriteDone(c, d, p, "force")
  BY <1>2, <1>3, <1>4, <1>5 DEF Vcs!uvm_hdl_force
<1>9. \A d \in Vcs!uvm_hdl_release(c, p) : WriteDone(c, d, p, "release")
  <2>1. vhdl => WriteDone(c, Succeed([c EXCEPT !.forced[p.object] = {}]), p, "release")
    BY <1>1, VcsReleaseMhdl
  <2> QED
    BY <1>2, <1>4, <1>5, <2>1 DEF Vcs!uvm_hdl_release
<1>10. \A d \in Vcs!uvm_hdl_release_and_read(c, p) : WriteDone(c, d, p, "release")
  BY <1>2, <1>4 DEF Vcs!uvm_hdl_release_and_read
<1> QED
  BY <1>6, <1>7, <1>8, <1>9, <1>10

-----------------------------------------------------------------------------
(* Slices that are taken apart. *)

\* n bits of the path are found.
FirstFound(p, n) ==
  /\ n \in 0 .. width(p)
  /\ \A i \in 0 .. n - 1 :
       Kind[p.object] = "verilog" /\ index(p, i) \in 0 .. Size[p.object] - 1

\* There is a first place where a set of numbers ends.
LEMMA FirstMiss ==
  ASSUME NEW w \in Nat, NEW T
  PROVE  \E n \in 0 .. w : (\A i \in 0 .. n - 1 : i \in T) /\ (n = w \/ n \notin T)
<1> DEFINE M == {i \in 0 .. w : i = w \/ i \notin T}
<1>1. M \in SUBSET Nat /\ w \in M
  OBVIOUS
<1>2. PICK n \in M : \A i \in M : n <= i
  BY <1>1, LeastNatural
<1>3. ASSUME NEW i \in 0 .. n - 1 PROVE i \in T
  BY <1>2
<1> QED
  BY <1>2, <1>3

\* What Found says in Questa and in Incisive.
LEMMA FoundFacts ==
  ASSUME NEW p \in Path
  PROVE  FirstFound(p, Questa!Found(p)) /\ FirstFound(p, Inca!Found(p))
<1>1. width(p) \in Nat
  BY PathFacts
<1>2. FirstFound(p, Questa!Found(p))
  <2> DEFINE T == {i \in 0 .. width(p) : Questa!vpi_handle_by_name(Questa!bit(p, i))}
             Until(n) == /\ \A i \in 0 .. n - 1 : Questa!vpi_handle_by_name(Questa!bit(p, i))
                         /\ n = width(p) \/ ~Questa!vpi_handle_by_name(Questa!bit(p, n))
  <2>1. \E n \in 0 .. width(p) : Until(n)
    <3>1. PICK n \in 0 .. width(p) : (\A i \in 0 .. n - 1 : i \in T) /\ (n = width(p) \/ n \notin T)
      BY <1>1, FirstMiss
    <3> QED
      BY <3>1
  <2>2. Questa!Found(p) = CHOOSE n \in 0 .. width(p) : Until(n)
    BY DEF Questa!Found, Questa!width, width
  <2>3. Questa!Found(p) \in 0 .. width(p) /\ Until(Questa!Found(p))
    BY <2>1, <2>2
  <2>4. \A i \in 0 .. width(p) - 1 : Questa!vpi_handle_by_name(Questa!bit(p, i)) =>
          Kind[p.object] = "verilog" /\ index(p, i) \in 0 .. Size[p.object] - 1
    BY DEF Path, Questa!vpi_handle_by_name, Questa!bit, Questa!InRange, Questa!index, index
  <2> QED
    BY <1>1, <2>3, <2>4 DEF FirstFound
<1>3. FirstFound(p, Inca!Found(p))
  <2> DEFINE T == {i \in 0 .. width(p) : Inca!vpi_handle_by_name(Inca!bit(p, i))}
             Until(n) == /\ \A i \in 0 .. n - 1 : Inca!vpi_handle_by_name(Inca!bit(p, i))
                         /\ n = width(p) \/ ~Inca!vpi_handle_by_name(Inca!bit(p, n))
  <2>1. \E n \in 0 .. width(p) : Until(n)
    <3>1. PICK n \in 0 .. width(p) : (\A i \in 0 .. n - 1 : i \in T) /\ (n = width(p) \/ n \notin T)
      BY <1>1, FirstMiss
    <3> QED
      BY <3>1
  <2>2. Inca!Found(p) = CHOOSE n \in 0 .. width(p) : Until(n)
    BY DEF Inca!Found, Inca!width, width
  <2>3. Inca!Found(p) \in 0 .. width(p) /\ Until(Inca!Found(p))
    BY <2>1, <2>2
  <2>4. \A i \in 0 .. width(p) - 1 : Inca!vpi_handle_by_name(Inca!bit(p, i)) =>
          Kind[p.object] = "verilog" /\ index(p, i) \in 0 .. Size[p.object] - 1
    BY DEF Path, Inca!vpi_handle_by_name, Inca!bit, Inca!InRange, Inca!index, index
  <2> QED
    BY <1>1, <2>3, <2>4 DEF FirstFound
<1> QED
  BY <1>2, <1>3

\* Bits that are found one by one have places in the vector.
LEMMA FoundPlaces ==
  ASSUME NEW p \in Path, NEW n, FirstFound(p, n)
  PROVE  /\ \A i \in 0 .. n - 1 : i \in Bits
         /\ n = width(p) => /\ InRange(p) /\ Kind[p.object] = "verilog"
<1>1. /\ Size[p.object] \in Nat \ {0} /\ Size[p.object] <= Memory /\ Memory \in Nat
      /\ width(p) \in Nat \ {0} /\ n \in Nat /\ p.lhs \in Nat /\ p.rhs \in Nat
  BY PathFacts, ObjectFacts DEF FirstFound
<1>2. ASSUME NEW i \in 0 .. n - 1 PROVE i \in Bits
  <2>1. 0 \in 0 .. n - 1
    BY <1>1
  <2>2. index(p, 0) \in 0 .. Size[p.object] - 1 /\ index(p, i) \in 0 .. Size[p.object] - 1
    BY <2>1 DEF FirstFound
  <2>3. i \in 0 .. Memory - 1
    BY <1>1, <2>2 DEF index
  <2> QED
    BY <2>3, BitsFacts
<1>3. ASSUME n = width(p) PROVE InRange(p) /\ Kind[p.object] = "verilog"
  <2>1. 0 \in 0 .. n - 1 /\ n - 1 \in 0 .. n - 1
    BY <1>1, <1>3
  <2>2. /\ index(p, 0) \in 0 .. Size[p.object] - 1 /\ index(p, n - 1) \in 0 .. Size[p.object] - 1
        /\ Kind[p.object] = "verilog"
    BY <2>1 DEF FirstFound
  <2> QED
    BY <1>1, <1>3, <2>2 DEF index, width, InRange
<1> QED
  BY <1>2, <1>3

\* The bits that are found are put; the call succeeds if all are.
LEMMA PartselWrites ==
  ASSUME NEW c \in Calls, NEW p \in Path, NEW n, FirstFound(p, n), NEW flag \in Flags
  PROVE  LET d == Put(c, p.object, FirstBits(c.value, p, n), flag)
         IN  WriteDone(c, IF n = width(p) THEN Succeed(d) ELSE Fail(d), p, flag)
<1> DEFINE o == p.object
           new == FirstBits(c.value, p, n)
           e == Put(c, o, new, flag)
           d == IF n = width(p) THEN Succeed(e) ELSE Fail(e)
<1>1. o \in Objects /\ c.value \in [Bits -> VhdlLogic]
  BY PathFacts DEF Calls, Call
<1>2. /\ DOMAIN new \subseteq Named(p) /\ (n = width(p) => DOMAIN new = Named(p))
      /\ \A b \in DOMAIN new : new[b] = c.value[Is(b, p)] /\ new[b] \in VhdlLogic
  BY <1>1, FirstBitsFacts DEF FirstFound
<1>3. DOMAIN new # {} => Kind[o] = "verilog"
  <2>1. DOMAIN new = {index(p, i) : i \in 0 .. n - 1}
    BY DEF FirstBits
  <2> QED
    BY <2>1 DEF FirstFound
<1> HIDE DEF new
<1>4. Puttable(c, o, new)
  BY <1>2, <1>3, Places DEF Puttable
<1>5. e \in Calls /\ SameBuild(c, e) /\ IsPut(c, e, o, new, flag)
  BY <1>1, <1>4, PutFacts
<1> HIDE DEF e
<1>6. /\ d \in Calls /\ SameBuild(e, d) /\ SameDesign(e, d) /\ (d.ok => n = width(p))
  BY <1>5, Ends, EndsOk
<1>7. IsPut(c, d, o, new, flag)
  BY <1>5, <1>6 DEF IsPut, SameDesign
<1>8. Writes(c, d, p, flag)
  BY <1>2, <1>6, <1>7, PutWrites
<1> QED
  BY <1>5, <1>6, <1>8 DEF WriteDone, SameBuild, e, new

\* The bits that are found are read.
LEMMA PartselReads ==
  ASSUME NEW c \in Calls, NEW p \in Path, NEW n, FirstFound(p, n)
  PROVE  LET d == Copy(c, [i \in 0 .. n - 1 |-> c.val[p.object][index(p, i)]])
         IN  /\ d \in Calls /\ SameBuild(c, d) /\ SameDesign(c, d)
             /\ \A k \in Bits : k >= n => d.value[k] = c.value[k]
             /\ n = width(p) => \A b \in Named(p) :
                  d.value[Is(b, p)] = Shown(p.object, c.val[p.object][b])
<1> DEFINE o == p.object
           words == [i \in 0 .. n - 1 |-> c.val[o][index(p, i)]]
           d == Copy(c, words)
<1>1. o \in Objects /\ n \in Nat /\ c.val[o] \in [0 .. Size[o] - 1 -> VhdlLogic]
  <2>1. o \in Objects /\ n \in 0 .. width(p) /\ width(p) \in Nat
    BY PathFacts DEF FirstFound
  <2> QED
    BY <2>1 DEF Calls, Sound, Values
<1>2. \A i \in 0 .. n - 1 : words[i] = c.val[o][index(p, i)] /\ words[i] \in VhdlLogic
  BY <1>1 DEF FirstFound
<1>3. DOMAIN words = 0 .. n - 1
  OBVIOUS
<1> HIDE DEF words
<1>4. /\ d \in Calls /\ SameBuild(c, d) /\ SameDesign(c, d)
      /\ \A k \in Bits : d.value[k] = IF k \in DOMAIN words THEN words[k] ELSE c.value[k]
  <2>1. \A k \in Bits : k \in DOMAIN words => words[k] \in VhdlLogic
    BY <1>2, <1>3
  <2> QED
    BY <2>1, VectorWritten
<1> HIDE DEF d
<1>5. \A k \in Bits : k >= n => d.value[k] = c.value[k]
  <2>1. \A k \in Bits : k \in Nat
    BY BitsFacts
  <2> QED
    BY <1>1, <1>3, <1>4, <2>1
<1>6. ASSUME n = width(p), NEW b \in Named(p)
      PROVE  d.value[Is(b, p)] = Shown(o, c.val[o][b])
  <2>1. Is(b, p) \in 0 .. n - 1 /\ index(p, Is(b, p)) = b
    BY <1>6, Places
  <2>2. Is(b, p) \in Bits /\ Kind[o] = "verilog"
    BY <1>6, <2>1, FoundPlaces
  <2> QED
    BY <1>2, <1>3, <1>4, <2>1, <2>2 DEF Shown
<1> QED
  BY <1>4, <1>5, <1>6 DEF d, words

\* A read from a record whose vector was cleared is a read from the record.
LEMMA ReadsFrom ==
  ASSUME NEW c, NEW e, NEW d, NEW p, SameDesign(c, e), SameBuild(c, e), Reads(e, d, p)
  PROVE  Reads(c, d, p)
BY DEF Reads, SameDesign, SameBuild

-----------------------------------------------------------------------------
(* Questa. *)

\* The functions that read, in the terms of HdlDesign.
LEMMA QuestaGet ==
  ASSUME NEW c, NEW p
  PROVE  LET n == Questa!Found(p)
             most == IF c.visible THEN MaxWidth ELSE DefaultWidth
             d == Copy(c, [i \in 0 .. n - 1 |-> c.val[p.object][index(p, i)]])
             last == [i \in {n} |-> IF n = 0 THEN "0" ELSE c.val[p.object][index(p, n - 1)]]
             cleared == IF c.partsel THEN c ELSE Zero(c, chunks(most) - 1)
         IN  /\ Questa!uvm_hdl_get_vlog_partsel(c, p) =
                  IF n = width(p) THEN Succeed([d EXCEPT !.partsel = FALSE])
                  ELSE Fail([Copy(d, last) EXCEPT !.partsel = TRUE])
             /\ Questa!uvm_hdl_get_vlog(c, p) =
                  CASE p.select = "slice" -> Questa!uvm_hdl_get_vlog_partsel(cleared, p)
                    [] p.select # "slice" /\ Questa!vpi_handle_by_name(p) /\ width(p) <= most ->
                         Succeed(Copy(cleared, vpi_get_value(cleared, p)))
                    [] OTHER -> Fail(cleared)
BY DEF Questa!uvm_hdl_get_vlog, Questa!uvm_hdl_max_width, Questa!vpi_get_value, vpi_get_value,
       Questa!index, index, Questa!width, width, Questa!Copy, Copy, Questa!Bits, Bits,
       Questa!chunks, chunks, Questa!Succeed, Succeed, Questa!Fail, Fail, Questa!Zero, Zero,
       Questa!uvm_hdl_get_vlog_partsel

\* The functions that write, and what VPI finds.
LEMMA QuestaSet ==
  ASSUME NEW c, NEW p, NEW flag
  PROVE  LET n == Questa!Found(p)
             put == Put(c, p.object, FirstBits(c.value, p, n), flag)
         IN  Questa!uvm_hdl_set_vlog(c, p, flag) =
               CASE p.select = "slice" -> IF n = width(p) THEN Succeed(put) ELSE Fail(put)
                 [] p.select # "slice" /\ Questa!vpi_handle_by_name(p) ->
                      Succeed(vpi_put_value(c, p, flag))
                 [] OTHER -> Fail(c)
BY DEF Questa!uvm_hdl_set_vlog, Questa!vpi_put_value, vpi_put_value, Questa!vpi_get_value,
       vpi_get_value, Questa!Put, Put, Questa!FirstBits, FirstBits, Questa!index, index,
       Questa!width, width, Questa!Copy, Copy, Questa!Bits, Bits, Questa!chunks, chunks,
       Questa!Succeed, Succeed, Questa!Fail, Fail, Questa!uvm_hdl_set_vlog_partsel

\* A name that VPI finds is within its object.
LEMMA QuestaHandle ==
  ASSUME NEW p, Questa!vpi_handle_by_name(p)
  PROVE  InRange(p) /\ Kind[p.object] = "verilog"
BY DEF Questa!vpi_handle_by_name, Questa!InRange, InRange

\* What a build that takes slices apart leaves of a read.
ReadKept(c, d, p) ==
  /\ d \in Calls /\ SameBuild(c, d) /\ Reads(c, d, p)
  /\ d.ok => \A k \in Bits : k >= width(p) => d.value[k] \in {"0", c.value[k]}

\* The bits of a slice, one by one.
LEMMA QuestaPartselDone ==
  ASSUME NEW c \in Calls, NEW p \in Path
  PROVE  ReadKept(c, Questa!uvm_hdl_get_vlog_partsel(c, p), p)
<1> DEFINE n == Questa!Found(p)
           o == p.object
           e == Copy(c, [i \in 0 .. n - 1 |-> c.val[o][index(p, i)]])
           last == [i \in {n} |-> IF n = 0 THEN "0" ELSE c.val[o][index(p, n - 1)]]
           d == Questa!uvm_hdl_get_vlog_partsel(c, p)
<1>0. SUFFICES ReadKept(c, d, p)
  OBVIOUS
<1>1. FirstFound(p, n)
  BY FoundFacts
<1>2. /\ e \in Calls /\ SameBuild(c, e) /\ SameDesign(c, e)
      /\ \A k \in Bits : k >= n => e.value[k] = c.value[k]
      /\ n = width(p) => \A b \in Named(p) :
           e.value[Is(b, p)] = Shown(p.object, c.val[p.object][b])
  BY <1>1, PartselReads
<1>3. d = IF n = width(p) THEN Succeed([e EXCEPT !.partsel = FALSE])
          ELSE Fail([Copy(e, last) EXCEPT !.partsel = TRUE])
  BY QuestaGet
<1>4. n \in Nat /\ n \in 0 .. width(p) /\ width(p) \in Nat /\ o \in Objects
  BY <1>1, PathFacts DEF FirstFound
<1>5. \A k \in Bits : k \in DOMAIN last => last[k] \in VhdlLogic
  <2>1. n # 0 => c.val[o][index(p, n - 1)] \in VhdlLogic
    <3>1. n # 0 => n - 1 \in 0 .. n - 1
      BY <1>4
    <3>2. c.val[o] \in [0 .. Size[o] - 1 -> VhdlLogic]
      BY <1>4 DEF Calls, Sound, Values
    <3> QED
      BY <1>1, <3>1, <3>2 DEF FirstFound
  <2> QED
    BY <2>1 DEF VhdlLogic
<1> HIDE DEF e, d, last
<1>6. CASE n = width(p)
  <2> DEFINE f == [e EXCEPT !.partsel = FALSE]
  <2>1. /\ f \in Calls /\ SameDesign(e, f) /\ SameBuild(e, f) /\ f.value = e.value
    BY <1>2 DEF Calls, Call, SameDesign, SameBuild
  <2> HIDE DEF f
  <2>2. /\ d \in Calls /\ SameDesign(f, d) /\ SameBuild(f, d) /\ d.value = f.value
    BY <1>3, <1>6, <2>1, Ends DEF f
  <2>3. SameDesign(c, d) /\ SameBuild(c, d) /\ d.value = e.value
    BY <1>2, <2>1, <2>2 DEF SameDesign, SameBuild
  <2> QED
    BY <1>2, <1>6, <2>2, <2>3 DEF ReadKept, Reads
<1>7. CASE n # width(p)
  <2> DEFINE f == Copy(e, last)
             g == [f EXCEPT !.partsel = TRUE]
  <2>1. f \in Calls /\ SameDesign(e, f) /\ SameBuild(e, f)
    BY <1>2, <1>5, VectorWritten
  <2> HIDE DEF f
  <2>2. g \in Calls /\ SameDesign(f, g) /\ SameBuild(f, g)
    BY <2>1 DEF Calls, Call, SameDesign, SameBuild
  <2> HIDE DEF g
  <2>3. d \in Calls /\ SameDesign(g, d) /\ SameBuild(g, d) /\ d.ok = FALSE
    BY <1>3, <1>7, <2>2, Ends, EndsOk DEF g, f
  <2>4. SameDesign(c, d) /\ SameBuild(c, d)
    BY <1>2, <2>1, <2>2, <2>3 DEF SameDesign, SameBuild
  <2> QED
    BY <2>3, <2>4 DEF ReadKept, Reads
<1> QED
  BY <1>6, <1>7

\* The bits of all words but the last have places in the vector.
LEMMA AllButLast ==
  /\ chunks(MaxWidth) - 1 \in Nat
  /\ \A m \in Nat \ {0} : chunks(m) - 1 \in Nat
  /\ \A w \in Nat : \A k \in w .. (chunks(MaxWidth) - 1) * Word - 1 :
       k \in Bits /\ k >= w /\ k < (chunks(MaxWidth) - 1) * Word
<1>1. MaxWidth \in Nat \ {0} /\ Word \in Nat \ {0}
  BY DesignAssumption
<1>2. \A m \in Nat \ {0} : chunks(m) - 1 \in Nat
  BY Chunks
<1>3. PICK n \in Nat : n = chunks(MaxWidth) - 1
  BY <1>1, <1>2
<1>4. chunks(MaxWidth) = n + 1
  BY <1>1, <1>3, Chunks
<1>5. n * Word \in Nat /\ n * Word < MaxWidth
  BY <1>1, <1>3 DEF chunks
<1>6. MaxWidth <= Memory /\ Memory \in Nat
  BY DesignAssumption
<1>7. ASSUME NEW w \in Nat, NEW k \in w .. n * Word - 1
      PROVE  k \in Bits /\ k >= w /\ k < n * Word
  <2>1. k \in 0 .. Memory - 1
    BY <1>1, <1>5, <1>6
  <2> QED
    BY <1>5, <2>1, BitsFacts
<1> QED
  BY <1>2, <1>3, <1>7

\* What is kept of a vector whose words have been cleared.
LEMMA KeptClean ==
  ASSUME NEW c \in Calls, NEW d, NEW p \in Path, NEW m,
         c.visible => m = chunks(MaxWidth) - 1,
         NEW e, ~(c.simulator = "questa" /\ c.partsel) => e = Zero(c, m), m \in Nat,
         ReadKept(e, d, p)
  PROVE  Clean(c, d, p)
<1>1. SUFFICES ASSUME d.ok, c.visible, ~(c.simulator = "questa" /\ c.partsel),
                      NEW k \in width(p) .. (chunks(MaxWidth) - 1) * Word - 1
               PROVE  d.value[k] = "0"
  BY DEF Clean
<1>2. width(p) \in Nat
  BY PathFacts
<1>3. k \in Bits /\ k >= width(p) /\ k < m * Word
  BY <1>1, <1>2, AllButLast
<1>4. e.value[k] = "0"
  BY <1>1, <1>3, Cleared
<1> QED
  BY <1>1, <1>3, <1>4 DEF ReadKept

\* A read of anything.
LEMMA QuestaReadDone ==
  ASSUME NEW c \in Calls, c.simulator = "questa", NEW p \in Path
  PROVE  ReadDone(c, Questa!uvm_hdl_get_vlog(c, p), p)
<1> DEFINE most == IF c.visible THEN MaxWidth ELSE DefaultWidth
           m == chunks(most) - 1
           e == IF c.partsel THEN c ELSE Zero(c, m)
           d == Questa!uvm_hdl_get_vlog(c, p)
<1>0. SUFFICES ReadDone(c, d, p)
  OBVIOUS
<1>1. m \in Nat /\ (c.visible => m = chunks(MaxWidth) - 1)
  BY AllButLast, DesignAssumption
<1>2. e \in Calls /\ SameDesign(c, e) /\ SameBuild(c, e)
  BY <1>1, Cleared DEF SameDesign, SameBuild
<1>3. d = CASE p.select = "slice" -> Questa!uvm_hdl_get_vlog_partsel(e, p)
            [] p.select # "slice" /\ Questa!vpi_handle_by_name(p) /\ width(p) <= most ->
                 Succeed(Copy(e, vpi_get_value(e, p)))
            [] OTHER -> Fail(e)
  BY QuestaGet
<1>4. Questa!vpi_handle_by_name(p) => InRange(p) /\ Kind[p.object] = "verilog"
  BY QuestaHandle
<1> HIDE DEF d
<1>5. ReadKept(e, d, p)
  <2> HIDE DEF e, most
  <2>1. CASE p.select = "slice"
    BY <1>2, <1>3, <2>1, QuestaPartselDone
  <2>2. CASE p.select # "slice" /\ Questa!vpi_handle_by_name(p) /\ width(p) <= most
    BY <1>2, <1>3, <1>4, <2>2, HandleReadDone DEF ReadKept
  <2>3. CASE d = Fail(e)
    <3>1. d \in Calls /\ SameBuild(e, d) /\ SameDesign(e, d) /\ d.ok = FALSE
      BY <1>2, <2>3, Ends, EndsOk
    <3> QED
      BY <3>1 DEF ReadKept, Reads
  <2> QED
    BY <1>3, <2>1, <2>2, <2>3
<1>6. Reads(c, d, p)
  BY <1>2, <1>5, ReadsFrom DEF ReadKept
<1>7. SameBuild(c, d) /\ d \in Calls
  BY <1>2, <1>5 DEF SameBuild, ReadKept
<1>8. Clean(c, d, p)
  BY <1>1, <1>5, KeptClean
<1> QED
  BY <1>6, <1>7, <1>8 DEF ReadDone

\* A write of anything.
LEMMA QuestaWriteDone ==
  ASSUME NEW c \in Calls, NEW p \in Path, NEW flag \in Flags
  PROVE  WriteDone(c, Questa!uvm_hdl_set_vlog(c, p, flag), p, flag)
<1>1. FirstFound(p, Questa!Found(p))
  BY FoundFacts
<1>2. Questa!vpi_handle_by_name(p) => InRange(p) /\ Kind[p.object] = "verilog"
  BY QuestaHandle
<1>3. CASE p.select = "slice"
  BY <1>1, <1>3, QuestaSet, PartselWrites
<1>4. CASE p.select # "slice" /\ Questa!vpi_handle_by_name(p)
  BY <1>2, <1>4, QuestaSet, HandlePuts DEF WriteDone
<1>5. CASE p.select # "slice" /\ ~Questa!vpi_handle_by_name(p)
  BY <1>5, QuestaSet, FailureDone
<1> QED
  BY <1>3, <1>4, <1>5

-----------------------------------------------------------------------------
(* Incisive. *)

\* The functions for Verilog objects, in the terms of HdlDesign.
LEMMA IncaSet ==
  ASSUME NEW c, NEW p, NEW flag
  PROVE  LET n == Inca!Found(p)
             put == Put(c, p.object, FirstBits(c.value, p, n), flag)
         IN  /\ Inca!uvm_hdl_set_vlog_partsel(c, p, flag) =
                  IF n = width(p) THEN Succeed(put) ELSE Fail(put)
             /\ Inca!uvm_hdl_set_vlog(c, p, flag) =
                  IF Inca!vpi_handle_by_name(p) THEN Succeed(vpi_put_value(c, p, flag))
                  ELSE Fail(c)
BY DEF Inca!uvm_hdl_set_vlog, Inca!vpi_put_value, vpi_put_value, Inca!vpi_get_value,
       vpi_get_value, Inca!Put, Put, Inca!FirstBits, FirstBits, Inca!index, index,
       Inca!width, width, Inca!Copy, Copy, Inca!Bits, Bits, Inca!chunks, chunks,
       Inca!Succeed, Succeed, Inca!Fail, Fail, Inca!uvm_hdl_set_vlog_partsel

\* The functions that read Verilog objects.
LEMMA IncaGet ==
  ASSUME NEW c, NEW p
  PROVE  LET most == IF c.visible THEN MaxWidth ELSE 0
             n == IF most = 0 THEN 0 ELSE Inca!Found(p)
             d == Copy(c, [i \in 0 .. n - 1 |-> c.val[p.object][index(p, i)]])
             words == IF most = 0 THEN 1 ELSE chunks(most)
         IN  /\ Inca!uvm_hdl_get_vlog_partsel(c, p) =
                  CASE p.select # "slice" -> Refuse(c)
                    [] p.select = "slice" /\ n = width(p) -> Succeed(d)
                    [] OTHER -> Fail(d)
             /\ Inca!clear_value(c) = Zero(c, words - 1)
             /\ Inca!uvm_hdl_get_vlog(c, p) =
                  IF Inca!vpi_handle_by_name(p) /\ width(p) <= most
                  THEN Succeed(Copy(c, vpi_get_value(c, p)))
                  ELSE Fail(c)
BY DEF Inca!uvm_hdl_get_vlog, Inca!uvm_hdl_max_width, Inca!vpi_get_value, vpi_get_value,
       Inca!index, index, Inca!width, width, Inca!Copy, Copy, Inca!Bits, Bits,
       Inca!chunks, chunks, Inca!Succeed, Succeed, Inca!Fail, Fail, Inca!Zero, Zero,
       Inca!uvm_hdl_get_vlog_partsel, Inca!clear_value, Inca!words,
       Inca!is_valid_path_slice, Inca!Refuse, Refuse

\* A name that VPI finds is within its object.
LEMMA IncaHandle ==
  ASSUME NEW p, Inca!vpi_handle_by_name(p)
  PROVE  InRange(p) /\ Kind[p.object] = "verilog" /\ p.select # "slice"
BY DEF Inca!vpi_handle_by_name, Inca!InRange, InRange

\* The functions for Verilog objects that are named whole or by a bit.
LEMMA IncaVlogDone ==
  ASSUME NEW c \in Calls, c.simulator = "inca", NEW p \in Path, NEW flag \in Flags
  PROVE  /\ WriteDone(c, Inca!uvm_hdl_set_vlog(c, p, flag), p, flag)
         /\ ReadDone(c, Inca!uvm_hdl_get_vlog(c, p), p)
<1>1. WriteDone(c, Inca!uvm_hdl_set_vlog(c, p, flag), p, flag)
  BY IncaSet, IncaHandle, HandlePuts, FailureDone DEF WriteDone
<1>2. ReadDone(c, Inca!uvm_hdl_get_vlog(c, p), p)
  <2>1. CASE Inca!uvm_hdl_get_vlog(c, p) = Fail(c)
    BY <2>1, FailureDone
  <2>2. CASE /\ Inca!uvm_hdl_get_vlog(c, p) = Succeed(Copy(c, vpi_get_value(c, p)))
             /\ Inca!vpi_handle_by_name(p)
    BY <2>2, IncaHandle, HandleReadDone DEF ReadDone, Clean
  <2> QED
    BY <2>1, <2>2, IncaGet
<1> QED
  BY <1>1, <1>2

\* The bits of a slice, one by one.
LEMMA IncaPartselDone ==
  ASSUME NEW c \in Calls, c.simulator = "inca", NEW p \in Path, p.select = "slice"
  PROVE  /\ \A flag \in Flags : WriteDone(c, Inca!uvm_hdl_set_vlog_partsel(c, p, flag), p, flag)
         /\ ReadDone(c, Inca!uvm_hdl_get_vlog_partsel(Inca!clear_value(c), p), p)
<1> DEFINE most == IF c.visible THEN MaxWidth ELSE 0
           n == IF most = 0 THEN 0 ELSE Inca!Found(p)
           m == (IF most = 0 THEN 1 ELSE chunks(most)) - 1
           e == Zero(c, m)
           f == Copy(e, [i \in 0 .. n - 1 |-> e.val[p.object][index(p, i)]])
           d == Inca!uvm_hdl_get_vlog_partsel(e, p)
<1>1. FirstFound(p, Inca!Found(p))
  BY FoundFacts
<1>2. \A flag \in Flags : WriteDone(c, Inca!uvm_hdl_set_vlog_partsel(c, p, flag), p, flag)
  BY <1>1, IncaSet, PartselWrites
<1>3. m \in Nat /\ (c.visible => m = chunks(MaxWidth) - 1) /\ e = Inca!clear_value(c)
  <2>1. MaxWidth \in Nat \ {0}
    BY DesignAssumption
  <2>2. m \in Nat /\ (c.visible => m = chunks(MaxWidth) - 1)
    BY <2>1, AllButLast
  <2>3. e = Inca!clear_value(c)
    BY IncaGet
  <2> QED
    BY <2>2, <2>3
<1>4. e \in Calls /\ SameDesign(c, e) /\ SameBuild(c, e)
  BY <1>3, Cleared
<1>5. FirstFound(p, n)
  BY <1>1, PathFacts DEF FirstFound
<1> HIDE DEF e, m
<1>6. /\ f \in Calls /\ SameBuild(e, f) /\ SameDesign(e, f)
      /\ \A k \in Bits : k >= n => f.value[k] = e.value[k]
      /\ n = width(p) => \A b \in Named(p) :
           f.value[Is(b, p)] = Shown(p.object, e.val[p.object][b])
  BY <1>4, <1>5, PartselReads
<1>7. d = IF n = width(p) THEN Succeed(f) ELSE Fail(f)
  <2>1. e.visible = c.visible
    BY <1>4 DEF SameBuild
  <2> QED
    BY <2>1, IncaGet
<1>8. width(p) \in Nat
  BY PathFacts
<1> HIDE DEF f, d, n
<1>9. ReadKept(e, d, p)
  <2>1. /\ d \in Calls /\ SameBuild(f, d) /\ SameDesign(f, d) /\ d.value = f.value
        /\ d.ok => n = width(p)
    BY <1>6, <1>7, Ends, EndsOk
  <2>2. SameBuild(e, d) /\ SameDesign(e, d)
    BY <1>6, <2>1 DEF SameBuild, SameDesign
  <2>3. Reads(e, d, p)
    BY <1>6, <2>1, <2>2 DEF Reads
  <2> QED
    BY <1>6, <2>1, <2>2, <2>3 DEF ReadKept
<1>10. Reads(c, d, p)
  BY <1>4, <1>9, ReadsFrom DEF ReadKept
<1>11. SameBuild(c, d) /\ d \in Calls
  BY <1>4, <1>9 DEF SameBuild, ReadKept
<1>12. Clean(c, d, p)
  BY <1>3, <1>9, KeptClean DEF e
<1>13. ReadDone(c, d, p)
  BY <1>10, <1>11, <1>12 DEF ReadDone
<1> QED
  BY <1>2, <1>3, <1>13 DEF d

\* The functions for VHDL objects, in the terms of HdlDesign.
LEMMA IncaVhdl ==
  ASSUME NEW c, NEW p, NEW flag
  PROVE  LET o == p.object
             most == IF c.visible THEN MaxWidth ELSE 0
             words == IF most = 0 THEN 1 ELSE chunks(most)
             new == [b \in 0 .. Size[o] - 1 |->
                       Inca!vhpi2val(Inca!WordOf(c.value, b \div Word), b % Word)]
             d == IF Size[o] > most THEN Finish(c) ELSE c
             cleared == Zero(d, words)
             one == [k \in {0} |-> Inca!Folded(c.val[o][0])]
         IN  /\ Inca!uvm_hdl_set_vhdl(c, p, flag) =
                  IF Kind[o] = "int" THEN Refuse(Finish(d)) ELSE Succeed(Put(d, o, new, flag))
             /\ Inca!uvm_hdl_get_vhdl(c, p) =
                  CASE Kind[o] = "int" ->
                         {Succeed(Copy(d, [k \in 0 .. Word - 1 |->
                            IF k \in DOMAIN c.val[o] THEN c.val[o][k] ELSE "0"]))}
                    [] Kind[o] = "enum" ->
                         {Succeed(Copy(d, [k \in 0 .. Word - 1 |->
                            IF k \in DOMAIN one THEN one[k] ELSE "0"]))}
                    [] Kind[o] = "enumvec" ->
                         {Succeed(Copy(cleared, Inca!EnumVec(c.val[o], Size[o])))}
                           \union (IF chunks(Size[o]) > 1 THEN {Refuse(Finish(cleared))}
                                   ELSE {})
BY DEF Inca!uvm_hdl_set_vhdl, Inca!uvm_hdl_get_vhdl, Inca!uvm_hdl_max_width, Inca!Put, Put,
       Inca!Copy, Copy, Inca!Bits, Bits, Inca!chunks, chunks, Inca!words, Inca!Zero, Zero,
       Inca!Succeed, Succeed, Inca!Refuse, Refuse, Inca!Finish, Finish

\* The record that the functions for VHDL objects start from.
LEMMA Begun ==
  ASSUME NEW c \in Calls, NEW d \in {c, Finish(c)}
  PROVE  /\ d \in Calls /\ SameDesign(c, d) /\ SameBuild(c, d) /\ d.value = c.value
         /\ d.partsel = c.partsel
BY Ends DEF SameDesign, SameBuild

\* The bits that a VHDL object is given are two-state, and the caller's if these are.
LEMMA IncaDigits ==
  ASSUME NEW c \in Calls, NEW p \in Path, p.select = "none", Kind[p.object] # "verilog",
         NEW b \in 0 .. Size[p.object] - 1
  PROVE  LET l == Inca!vhpi2val(Inca!WordOf(c.value, b \div Word), b % Word)
         IN  l \in {"0", "1"} /\ (Carried(p.object, c.value) => l = c.value[Is(b, p)])
<1> DEFINE word == Inca!WordOf(c.value, b \div Word)
           l == Inca!vhpi2val(word, b % Word)
           o == p.object
<1>1. /\ Word \in Nat \ {0} /\ Size[o] \in Nat \ {0} /\ b \in Nat
  BY PathFacts, ObjectFacts, BitsFacts
<1>2. l \in {"0", "1"}
  BY DEF Inca!vhpi2val
<1>3. ASSUME Carried(o, c.value) PROVE l = c.value[Is(b, p)]
  <2>1. Size[o] <= Word /\ \A k \in 0 .. Word - 1 : c.value[k] \in {"0", "1"}
    BY <1>3 DEF Carried, Fits
  <2>2. b \div Word = 0 /\ b % Word = b
    BY <1>1, <2>1
  <2>3. word = [k \in 0 .. Word - 1 |-> c.value[k]]
    <3>1. 0 * Word = 0
      BY <1>1
    <3>2. word = [k \in 0 .. Word - 1 |-> c.value[0 * Word + k]]
      BY <2>2 DEF Inca!WordOf
    <3>3. \A k \in 0 .. Word - 1 : 0 * Word + k = k
      BY <1>1, <3>1
    <3> QED
      BY <3>2, <3>3
  <2>4. b \in 0 .. Word - 1 /\ Is(b, p) = b
    BY <1>1, <2>1, Whole
  <2>5. \A k \in 0 .. Word - 1 : ~Inca!bval(word[k])
    BY <2>1, <2>3 DEF Inca!bval
  <2>6. l = IF Inca!aval(word[b]) THEN "1" ELSE "0"
    <3>1. \A k \in b .. Word - 1 : k \in 0 .. Word - 1
      BY <1>1
    <3> QED
      BY <1>1, <2>2, <2>5, <3>1 DEF Inca!vhpi2val
  <2> QED
    BY <2>1, <2>3, <2>4, <2>6 DEF Inca!aval
<1> QED
  BY <1>2, <1>3

\* A write of a VHDL object; an integer is refused.
LEMMA IncaSetVhdlDone ==
  ASSUME NEW c \in Calls, NEW p \in Path, p.select = "none", Kind[p.object] # "verilog",
         NEW flag \in Flags
  PROVE  WriteDone(c, Inca!uvm_hdl_set_vhdl(c, p, flag), p, flag)
<1> DEFINE o == p.object
           most == IF c.visible THEN MaxWidth ELSE 0
           new == [b \in 0 .. Size[o] - 1 |->
                     Inca!vhpi2val(Inca!WordOf(c.value, b \div Word), b % Word)]
           d == IF Size[o] > most THEN Finish(c) ELSE c
           e == Put(d, o, new, flag)
           r == Inca!uvm_hdl_set_vhdl(c, p, flag)
<1>0. SUFFICES WriteDone(c, r, p, flag)
  OBVIOUS
<1>1. r = IF Kind[o] = "int" THEN Refuse(Finish(d)) ELSE Succeed(e)
  BY IncaVhdl
<1>2. o \in Objects
  BY PathFacts
<1>3. d \in Calls /\ SameDesign(c, d) /\ SameBuild(c, d) /\ d.value = c.value
  BY Begun
<1> HIDE DEF r, d
<1>4. CASE Kind[o] = "int"
  <2>1. Finish(d) \in Calls /\ SameDesign(d, Finish(d)) /\ SameBuild(d, Finish(d))
    BY <1>3, Ends
  <2>2. /\ r \in Calls /\ SameDesign(Finish(d), r) /\ SameBuild(Finish(d), r)
        /\ r.ok = FALSE
    BY <1>1, <1>4, <2>1, Ends, EndsOk
  <2>3. SameDesign(c, r) /\ SameBuild(c, r)
    BY <1>3, <2>1, <2>2 DEF SameDesign, SameBuild
  <2> QED
    BY <2>2, <2>3, FailureWrites DEF WriteDone
<1>5. CASE Kind[o] # "int"
  <2>1. /\ DOMAIN new = 0 .. Size[o] - 1
        /\ \A b \in DOMAIN new : new[b] \in {"0", "1"}
        /\ Carried(o, c.value) => \A b \in DOMAIN new : new[b] = c.value[Is(b, p)]
    BY IncaDigits
  <2> HIDE DEF new
  <2>2. Puttable(d, o, new)
    BY <1>5, <2>1 DEF Puttable, VhdlLogic
  <2>3. e \in Calls /\ SameBuild(d, e) /\ IsPut(d, e, o, new, flag)
    BY <1>2, <1>3, <2>2, PutFacts
  <2> HIDE DEF e
  <2>4. r \in Calls /\ SameBuild(e, r) /\ SameDesign(e, r)
    BY <1>1, <1>5, <2>3, Ends
  <2>5. IsPut(c, r, o, new, flag)
    BY <1>3, <2>3, <2>4 DEF IsPut, SameDesign, Stored
  <2>6. DOMAIN new = Named(p)
    BY <2>1, Whole
  <2>7. Writes(c, r, p, flag)
    BY <2>1, <2>5, <2>6, PutWrites
  <2> QED
    BY <1>3, <2>3, <2>4, <2>7 DEF WriteDone, SameBuild
<1> QED
  BY <1>4, <1>5

\* std_logic is folded into four values.
LEMMA FoldedType ==
  /\ \A l \in VhdlLogic : Folded(l) \in VhdlLogic /\ Inca!Folded(l) = Folded(l)
  /\ "0" \in VhdlLogic
BY DEF Folded, Inca!Folded, VhdlLogic

\* The words of a vector of std_logic; one word has its elements in order.
LEMMA EnumVecFacts ==
  ASSUME NEW size \in Nat \ {0}, NEW elements \in [0 .. size - 1 -> VhdlLogic]
  PROVE  LET words == Inca!EnumVec(elements, size)
         IN  /\ \A k \in DOMAIN words : words[k] \in VhdlLogic
             /\ size <= Word => \A k \in 0 .. size - 1 :
                  k \in DOMAIN words /\ words[k] = Folded(elements[k])
<1> DEFINE words == Inca!EnumVec(elements, size)
           first(k) == (k \div Word) * Word
           n(k) == IF size - first(k) < Word THEN size - first(k) ELSE Word
           at(k) == size - first(k) - n(k) + (k - first(k))
<1>1. Word \in Nat \ {0} /\ chunks(size) * Word \in Nat /\ chunks(size) * Word >= size
  BY BitsFacts, Chunks
<1>2. words = [k \in 0 .. chunks(size) * Word - 1 |->
                 IF k - first(k) < n(k) THEN Inca!Folded(elements[at(k)]) ELSE "0"]
  BY DEF Inca!EnumVec, Inca!chunks, chunks
<1>3. ASSUME NEW k \in Nat PROVE first(k) \in Nat /\ k - first(k) \in Nat
  <2>0. /\ k \div Word \in Nat /\ k % Word \in Nat
        /\ k = Word * (k \div Word) + (k % Word)
    BY <1>1
  <2>1. PICK q \in Nat : q = k \div Word /\ q * Word \in Nat /\ q * Word <= k
    BY <1>1, <2>0
  <2> QED
    BY <2>1
<1>4. DOMAIN words = 0 .. chunks(size) * Word - 1
  BY <1>2
<1>5. ASSUME NEW k \in DOMAIN words PROVE words[k] \in VhdlLogic
  <2>1. k \in Nat /\ first(k) \in Nat /\ k - first(k) \in Nat
    BY <1>1, <1>3, <1>4
  <2>2. k - first(k) < n(k) => at(k) \in 0 .. size - 1
    <3> HIDE DEF first
    <3> QED
      BY <1>1, <2>1
  <2>3. words[k] = IF k - first(k) < n(k) THEN Inca!Folded(elements[at(k)]) ELSE "0"
    BY <1>2, <1>4
  <2> HIDE DEF first, n, at, words
  <2> QED
    BY <2>2, <2>3, FoldedType
<1>6. ASSUME size <= Word, NEW k \in 0 .. size - 1
      PROVE  k \in DOMAIN words /\ words[k] = Folded(elements[k])
  <2>1. k \div Word = 0 /\ k \in 0 .. chunks(size) * Word - 1
    BY <1>1, <1>6
  <2>2. first(k) = 0
    BY <1>1, <2>1
  <2>3. n(k) = size /\ at(k) = k /\ k - first(k) < n(k)
    <3> HIDE DEF first
    <3> QED
      BY <1>1, <1>6, <2>2
  <2>4. words[k] = IF k - first(k) < n(k) THEN Inca!Folded(elements[at(k)]) ELSE "0"
    BY <1>2, <2>1
  <2>5. words[k] = Inca!Folded(elements[k])
    BY <2>3, <2>4
  <2> QED
    BY <1>4, <2>1, <2>5, FoldedType
<1> QED
  BY <1>5, <1>6

\* A read that ends well with words in the vector of d, which has the design of c.
LEMMA WordsRead ==
  ASSUME NEW c \in Calls, c.simulator = "inca", NEW p \in Path, p.select = "none",
         Kind[p.object] # "verilog", NEW d \in Calls, SameDesign(c, d), SameBuild(c, d), NEW words,
         \A k \in DOMAIN words : words[k] \in VhdlLogic,
         Fits(p.object) => \A k \in 0 .. Size[p.object] - 1 :
           k \in DOMAIN words /\ words[k] = Shown(p.object, c.val[p.object][k])
  PROVE  ReadDone(c, Succeed(Copy(d, words)), p)
<1> DEFINE o == p.object
           e == Copy(d, words)
           r == Succeed(e)
<1>0. SUFFICES ReadDone(c, r, p)
  OBVIOUS
<1>1. /\ e \in Calls /\ SameDesign(d, e) /\ SameBuild(d, e)
      /\ \A k \in Bits : e.value[k] = IF k \in DOMAIN words THEN words[k] ELSE d.value[k]
  BY VectorWritten
<1> HIDE DEF e
<1>2. /\ r \in Calls /\ SameDesign(e, r) /\ SameBuild(e, r) /\ r.value = e.value
  BY <1>1, Ends
<1>3. SameDesign(c, r) /\ SameBuild(c, r)
  BY <1>1, <1>2 DEF SameDesign, SameBuild
<1>4. /\ Size[o] \in Nat \ {0} /\ Size[o] <= Memory /\ Memory \in Nat
  BY PathFacts, ObjectFacts
<1> HIDE DEF r
<1>5. ASSUME Fits(o), NEW b \in Named(p) PROVE r.value[Is(b, p)] = Shown(o, c.val[o][b])
  <2>1. Is(b, p) = b /\ b \in 0 .. Size[o] - 1
    BY Whole
  <2>2. b \in Bits
    <3>1. b \in 0 .. Memory - 1
      BY <1>4, <2>1
    <3> QED
      BY <3>1, BitsFacts
  <2> QED
    BY <1>1, <1>2, <1>5, <2>1, <2>2
<1> QED
  BY <1>2, <1>3, <1>5 DEF ReadDone, Reads, Clean

\* A read of a VHDL object.
LEMMA IncaGetVhdlDone ==
  ASSUME NEW c \in Calls, c.simulator = "inca", c.simulator = scenario.simulator,
         NEW p \in Path, p.select = "none", Kind[p.object] # "verilog",
         NEW r \in Inca!uvm_hdl_get_vhdl(c, p)
  PROVE  ReadDone(c, r, p)
<1> DEFINE o == p.object
           elements == c.val[o]
           most == IF c.visible THEN MaxWidth ELSE 0
           n == IF most = 0 THEN 1 ELSE chunks(most)
           d == IF Size[o] > most THEN Finish(c) ELSE c
           cleared == Zero(d, n)
           one == [k \in {0} |-> Inca!Folded(elements[0])]
           digits == [k \in 0 .. Word - 1 |-> IF k \in DOMAIN elements THEN elements[k] ELSE "0"]
           oneBit == [k \in 0 .. Word - 1 |-> IF k \in DOMAIN one THEN one[k] ELSE "0"]
           vector == Inca!EnumVec(elements, Size[o])
<1>1. /\ o \in Objects /\ Word \in Nat \ {0} /\ Size[o] \in Nat \ {0} /\ MaxWidth \in Nat \ {0}
      /\ Kind[o] \in {"verilog", "enum", "enumvec", "int"} /\ (Kind[o] = "enum" => Size[o] = 1)
  BY PathFacts, ObjectFacts, BitsFacts, DesignAssumption
<1>2. /\ elements \in [0 .. Size[o] - 1 -> VhdlLogic]
      /\ Kind[o] = "int" => \A b \in 0 .. Size[o] - 1 : elements[b] \in {"0", "1"}
  BY <1>1 DEF Calls, Sound, Values
<1>3. /\ Kind[o] = "int" => r = Succeed(Copy(d, digits))
      /\ Kind[o] = "enum" => r = Succeed(Copy(d, oneBit))
      /\ Kind[o] = "enumvec" =>
           r = Succeed(Copy(cleared, vector)) \/ r = Refuse(Finish(cleared))
  <2>1. Inca!uvm_hdl_get_vhdl(c, p) =
          CASE Kind[o] = "int" -> {Succeed(Copy(d, digits))}
            [] Kind[o] = "enum" -> {Succeed(Copy(d, oneBit))}
            [] Kind[o] = "enumvec" ->
                 {Succeed(Copy(cleared, vector))}
                   \union (IF chunks(Size[o]) > 1 THEN {Refuse(Finish(cleared))} ELSE {})
    BY IncaVhdl
  <2> HIDE DEF d, digits, oneBit, cleared, vector
  <2> QED
    BY <1>1, <2>1
<1>4. d \in Calls /\ SameDesign(c, d) /\ SameBuild(c, d)
  BY Begun
<1>5. n \in Nat
  BY <1>1, Chunks
<1> HIDE DEF d, n, most
<1>6. cleared \in Calls /\ SameDesign(c, cleared) /\ SameBuild(c, cleared)
  <2>1. cleared \in Calls /\ SameDesign(d, cleared) /\ SameBuild(d, cleared)
    BY <1>4, <1>5, Cleared
  <2> QED
    BY <1>4, <2>1 DEF SameDesign, SameBuild
<1> HIDE DEF cleared, elements
<1>7. CASE Kind[o] = "int"
  <2>1. \A k \in DOMAIN digits : digits[k] \in VhdlLogic
    BY <1>2, FoldedType
  <2>2. Fits(o) => \A k \in 0 .. Size[o] - 1 :
          k \in DOMAIN digits /\ digits[k] = Shown(o, elements[k])
    BY <1>1, <1>2, <1>7 DEF Fits, Shown, TwoState
  <2> HIDE DEF digits
  <2> QED
    BY <1>3, <1>4, <1>7, <2>1, <2>2, WordsRead DEF elements
<1>8. CASE Kind[o] = "enum"
  <2>1. 0 \in 0 .. Size[o] - 1
    BY <1>1
  <2>2. one[0] = Folded(elements[0]) /\ one[0] \in VhdlLogic /\ DOMAIN one = {0}
    BY <1>2, <2>1, FoldedType
  <2> HIDE DEF one
  <2>3. \A k \in DOMAIN oneBit : oneBit[k] \in VhdlLogic
    BY <2>2, FoldedType
  <2>4. Fits(o) => \A k \in 0 .. Size[o] - 1 :
          k \in DOMAIN oneBit /\ oneBit[k] = Shown(o, elements[k])
    BY <1>1, <1>8, <2>2 DEF Fits, Shown
  <2> HIDE DEF oneBit
  <2> QED
    BY <1>3, <1>4, <1>8, <2>3, <2>4, WordsRead DEF elements
<1>9. CASE Kind[o] = "enumvec"
  <2>1. CASE r = Refuse(Finish(cleared))
    <3>1. r \in Calls /\ SameDesign(cleared, r) /\ SameBuild(cleared, r) /\ r.ok = FALSE
      <4>1. /\ Finish(cleared) \in Calls /\ SameDesign(cleared, Finish(cleared))
            /\ SameBuild(cleared, Finish(cleared))
        BY <1>6, Ends
      <4>2. /\ r \in Calls /\ SameDesign(Finish(cleared), r) /\ SameBuild(Finish(cleared), r)
            /\ r.ok = FALSE
        BY <2>1, <4>1, Ends, EndsOk
      <4> QED
        BY <4>1, <4>2 DEF SameDesign, SameBuild
    <3> QED
      BY <1>6, <3>1 DEF ReadDone, Reads, Clean, SameDesign, SameBuild
  <2>2. CASE r = Succeed(Copy(cleared, vector))
    <3>1. \A k \in DOMAIN vector : vector[k] \in VhdlLogic
      BY <1>1, <1>2, EnumVecFacts
    <3>2. Fits(o) => \A k \in 0 .. Size[o] - 1 :
            k \in DOMAIN vector /\ vector[k] = Shown(o, elements[k])
      BY <1>1, <1>2, <1>9, EnumVecFacts DEF Fits, Shown
    <3> HIDE DEF vector
    <3> QED
      BY <1>6, <2>2, <3>1, <3>2, WordsRead DEF elements
  <2> QED
    BY <1>3, <1>9, <2>1, <2>2
<1> QED
  BY <1>1, <1>7, <1>8, <1>9

\* What follows a write and leaves the design alone; it does not succeed alone.
LEMMA WriteThen ==
  ASSUME NEW c, NEW e, NEW d \in Calls, NEW p, NEW flag \in Flags,
         WriteDone(c, e, p, flag), SameDesign(e, d), SameBuild(e, d), d.ok => e.ok
  PROVE  WriteDone(c, d, p, flag)
<1>1. SameBuild(c, d)
  BY DEF WriteDone, SameBuild
<1>2. Writes(c, d, p, flag)
  BY DEF WriteDone, Writes, SameDesign, Flags
<1> QED
  BY <1>1, <1>2 DEF WriteDone

\* Where a name leads that is no slice.
LEMMA SwitchCases ==
  ASSUME NEW c, NEW p, NEW verilog, NEW vhdl, NEW d \in Inca!Switch(c, p, verilog, vhdl)
  PROVE  \/ Inca!vpi_handle_by_name(p) /\ d \in verilog
         \/ Kind[p.object] # "verilog" /\ p.select = "none" /\ d \in vhdl
         \/ d \in {Fail(c), Refuse(c), Refuse(Finish(c))}
<1> DEFINE Goes(language) == CASE language = "vhpiVerilog" -> verilog
                               [] language = "vhpiVHDL" -> vhdl
                               [] language = "uninitialised vhpiVHDL" -> {Refuse(Finish(c))}
                               [] OTHER -> {Fail(c)}
<1>1. PICK language \in Inca!m_uvm_get_object_handle(p) : d \in Goes(language)
  BY DEF Inca!Switch, Inca!Refuse, Refuse, Inca!Finish, Finish, Inca!Fail, Fail
<1>2. /\ language = "vhpiVerilog" => Inca!vpi_handle_by_name(p)
      /\ language = "vhpiVHDL" => Kind[p.object] # "verilog" /\ p.select = "none"
  BY DEF Inca!m_uvm_get_object_handle
<1> QED
  BY <1>1, <1>2

\* A release of an integer, and the read that follows it.
LEMMA IncaIntRelease ==
  ASSUME NEW c \in Calls, c.simulator = "inca", NEW p \in Path, Kind[p.object] = "int",
         NEW d \in Calls, SameDesign(c, d), SameBuild(c, d)
  PROVE  WriteDone(c, d, p, "release")
<1>1. p.object \in Objects
  BY PathFacts
<1>2. c.forced[p.object] = {}
  BY <1>1 DEF Calls, Sound
<1> QED
  BY <1>2 DEF WriteDone, Writes, SameDesign

\* A release and a read of what is no slice.
LEMMA IncaReleaseRead ==
  ASSUME NEW c \in Calls, c.simulator = "inca", c.simulator = scenario.simulator,
         NEW p \in Path
  PROVE  /\ Inca!vpi_handle_by_name(p) =>
              WriteDone(c, Inca!uvm_hdl_get_vlog(Inca!uvm_hdl_set_vlog(c, p, "release"), p),
                        p, "release")
         /\ Kind[p.object] # "verilog" /\ p.select = "none" =>
              \A d \in Inca!uvm_hdl_get_vhdl(Inca!uvm_hdl_set_vhdl(c, p, "release"), p) :
                WriteDone(c, d, p, "release")
<1>1. "release" \in Flags
  BY DEF Flags
<1>2. ASSUME Inca!vpi_handle_by_name(p)
      PROVE  WriteDone(c, Inca!uvm_hdl_get_vlog(Inca!uvm_hdl_set_vlog(c, p, "release"), p),
                       p, "release")
  <2>1. PICK e : e = Inca!uvm_hdl_set_vlog(c, p, "release")
    OBVIOUS
  <2>2. PICK d : d = Inca!uvm_hdl_get_vlog(e, p)
    OBVIOUS
  <2>3. WriteDone(c, e, p, "release")
    BY <1>1, <2>1, IncaVlogDone
  <2>4. e \in Calls /\ e.simulator = "inca"
    BY <2>3 DEF WriteDone, SameBuild
  <2>5. ReadDone(e, d, p)
    BY <1>1, <2>2, <2>4, IncaVlogDone
  <2>6. e.ok
    <3>1. e = Succeed(vpi_put_value(c, p, "release"))
      BY <1>2, <2>1, IncaSet
    <3> QED
      BY <2>4, <3>1 DEF Calls, Call, Succeed
  <2> QED
    BY <1>1, <2>1, <2>2, <2>3, <2>5, <2>6, WriteThen DEF ReadDone, Reads
<1>3. ASSUME Kind[p.object] # "verilog", p.select = "none",
             NEW d \in Inca!uvm_hdl_get_vhdl(Inca!uvm_hdl_set_vhdl(c, p, "release"), p)
      PROVE  WriteDone(c, d, p, "release")
  <2>1. PICK e : e = Inca!uvm_hdl_set_vhdl(c, p, "release")
    OBVIOUS
  <2>2. WriteDone(c, e, p, "release")
    BY <1>1, <1>3, <2>1, IncaSetVhdlDone
  <2>3. e \in Calls /\ e.simulator = "inca" /\ e.simulator = scenario.simulator
    BY <2>2 DEF WriteDone, SameBuild
  <2>4. ReadDone(e, d, p)
    BY <1>3, <2>1, <2>3, IncaGetVhdlDone
  <2>5. d \in Calls /\ SameDesign(e, d) /\ SameBuild(e, d)
    BY <2>4 DEF ReadDone, Reads
  <2>6. CASE Kind[p.object] = "int"
    <3>1. e = Refuse(Finish(c)) \/ e = Refuse(Finish(Finish(c)))
      BY <2>1, <2>6, IncaVhdl
    <3>2. SameDesign(c, e) /\ SameBuild(c, e)
      <4>1. Finish(c) \in Calls /\ SameDesign(c, Finish(c)) /\ SameBuild(c, Finish(c))
        BY Ends
      <4>2. /\ Finish(Finish(c)) \in Calls /\ SameDesign(Finish(c), Finish(Finish(c)))
            /\ SameBuild(Finish(c), Finish(Finish(c)))
        BY <4>1, Ends
      <4>3. \/ SameDesign(Finish(c), e) /\ SameBuild(Finish(c), e)
            \/ SameDesign(Finish(Finish(c)), e) /\ SameBuild(Finish(Finish(c)), e)
        BY <3>1, <4>1, <4>2, Ends
      <4> QED
        BY <4>1, <4>2, <4>3 DEF SameDesign, SameBuild
    <3>3. SameDesign(c, d) /\ SameBuild(c, d)
      BY <2>5, <3>2 DEF SameDesign, SameBuild
    <3> QED
      BY <2>5, <2>6, <3>3, IncaIntRelease
  <2>7. CASE Kind[p.object] # "int"
    <3>1. \E x : e = Succeed(x)
      BY <2>1, <2>7, IncaVhdl
    <3>2. e.ok
      BY <2>3, <3>1 DEF Calls, Call, Succeed
    <3> QED
      BY <1>1, <2>2, <2>5, <3>2, WriteThen
  <2> QED
    BY <2>6, <2>7
<1> QED
  BY <1>2, <1>3

\* For a slice the read refuses the path that the release has rewritten.
LEMMA IncaSliceRelease ==
  ASSUME NEW c \in Calls, c.simulator = "inca", NEW p \in Path, p.select = "slice"
  PROVE  WriteDone(c, Inca!uvm_hdl_get_vlog_partsel(
                        Inca!clear_value(Inca!uvm_hdl_set_vlog_partsel(c, p, "release")),
                        Inca!LastTried(p)), p, "release")
<1>1. "release" \in Flags
  BY DEF Flags
<1>2. PICK e : e = Inca!uvm_hdl_set_vlog_partsel(c, p, "release")
  OBVIOUS
<1>3. WriteDone(c, e, p, "release")
  BY <1>1, <1>2, IncaPartselDone
<1>4. PICK f : f = Inca!clear_value(e)
  OBVIOUS
<1>5. f \in Calls /\ SameDesign(e, f) /\ SameBuild(e, f)
  <2>1. MaxWidth \in Nat \ {0}
    BY DesignAssumption
  <2>2. PICK m \in Nat : f = Zero(e, m)
    <3> DEFINE most == IF e.visible THEN MaxWidth ELSE 0
               m == (IF most = 0 THEN 1 ELSE chunks(most)) - 1
    <3>1. m \in Nat
      BY <2>1, AllButLast
    <3>2. f = Zero(e, m)
      BY <1>4, IncaGet
    <3> QED
      BY <3>1, <3>2
  <2>3. e \in Calls
    BY <1>3 DEF WriteDone
  <2> QED
    BY <2>2, <2>3, Cleared
<1>6. PICK d : d = Inca!uvm_hdl_get_vlog_partsel(f, Inca!LastTried(p))
  OBVIOUS
<1>7. d = Refuse(f)
  <2>1. Inca!LastTried(p).select = "bit"
    BY DEF Inca!LastTried, Inca!bit, Path
  <2> QED
    BY <1>6, <2>1, IncaGet
<1>8. d \in Calls /\ SameDesign(e, d) /\ SameBuild(e, d) /\ d.ok = FALSE
  BY <1>5, <1>7, Ends, EndsOk DEF SameDesign, SameBuild
<1> QED
  BY <1>1, <1>2, <1>3, <1>4, <1>6, <1>8, WriteThen

\* Every imported function of this back end.
LEMMA IncaDone ==
  ASSUME NEW c \in Calls, c.simulator = "inca", c.simulator = scenario.simulator,
         NEW p \in Path
  PROVE  /\ \A d \in Inca!uvm_hdl_read(c, p) : ReadDone(c, d, p)
         /\ \A d \in Inca!uvm_hdl_deposit(c, p) : WriteDone(c, d, p, "deposit")
         /\ \A d \in Inca!uvm_hdl_force(c, p) : WriteDone(c, d, p, "force")
         /\ \A d \in Inca!uvm_hdl_release(c, p) \union Inca!uvm_hdl_release_and_read(c, p) :
              WriteDone(c, d, p, "release")
<1>1. "deposit" \in Flags /\ "force" \in Flags /\ "release" \in Flags
  BY DEF Flags
<1>2. Inca!is_valid_path_slice(p) <=> p.select = "slice"
  BY DEF Inca!is_valid_path_slice
<1>3. \A flag : \A d \in {Fail(c), Refuse(c), Refuse(Finish(c))} :
        ReadDone(c, d, p) /\ WriteDone(c, d, p, flag)
  BY FailureDone
<1>4. p.select = "slice" =>
        /\ \A flag \in Flags : WriteDone(c, Inca!uvm_hdl_set_vlog_partsel(c, p, flag), p, flag)
        /\ ReadDone(c, Inca!uvm_hdl_get_vlog_partsel(Inca!clear_value(c), p), p)
  BY IncaPartselDone
<1>5. \A flag \in Flags : /\ WriteDone(c, Inca!uvm_hdl_set_vlog(c, p, flag), p, flag)
                          /\ ReadDone(c, Inca!uvm_hdl_get_vlog(c, p), p)
  BY IncaVlogDone
<1>6. Kind[p.object] # "verilog" /\ p.select = "none" =>
        /\ \A flag \in Flags : WriteDone(c, Inca!uvm_hdl_set_vhdl(c, p, flag), p, flag)
        /\ \A d \in Inca!uvm_hdl_get_vhdl(c, p) : ReadDone(c, d, p)
  BY IncaSetVhdlDone, IncaGetVhdlDone
<1>7. \A d \in Inca!uvm_hdl_read(c, p) : ReadDone(c, d, p)
  <2>1. CASE p.select = "slice"
    BY <1>2, <1>4, <2>1 DEF Inca!uvm_hdl_read
  <2>2. CASE p.select # "slice"
    <3>1. \A d \in Inca!uvm_hdl_read(c, p) :
            d \in Inca!Switch(c, p, {Inca!uvm_hdl_get_vlog(c, p)}, Inca!uvm_hdl_get_vhdl(c, p))
      BY <1>2, <2>2 DEF Inca!uvm_hdl_read
    <3> QED
      BY <1>1, <1>3, <1>5, <1>6, <3>1, SwitchCases
  <2> QED
    BY <2>1, <2>2
<1>8. ASSUME NEW flag \in Flags, NEW d,
             d \in IF p.select = "slice" THEN {Inca!uvm_hdl_set_vlog_partsel(c, p, flag)}
                   ELSE Inca!Switch(c, p, {Inca!uvm_hdl_set_vlog(c, p, flag)},
                                    {Inca!uvm_hdl_set_vhdl(c, p, flag)})
      PROVE  WriteDone(c, d, p, flag)
  <2>1. CASE p.select = "slice"
    BY <1>4, <1>8, <2>1
  <2>2. CASE p.select # "slice"
    <3>1. d \in Inca!Switch(c, p, {Inca!uvm_hdl_set_vlog(c, p, flag)},
                            {Inca!uvm_hdl_set_vhdl(c, p, flag)})
      BY <1>8, <2>2
    <3> QED
      BY <1>3, <1>5, <1>6, <3>1, SwitchCases
  <2> QED
    BY <2>1, <2>2
<1>9. /\ \A d \in Inca!uvm_hdl_deposit(c, p) : WriteDone(c, d, p, "deposit")
      /\ \A d \in Inca!uvm_hdl_force(c, p) : WriteDone(c, d, p, "force")
      /\ \A d \in Inca!uvm_hdl_release(c, p) : WriteDone(c, d, p, "release")
  BY <1>1, <1>2, <1>8 DEF Inca!uvm_hdl_deposit, Inca!uvm_hdl_force, Inca!uvm_hdl_release
<1>10. \A d \in Inca!uvm_hdl_release_and_read(c, p) : WriteDone(c, d, p, "release")
  <2>1. CASE p.select = "slice"
    BY <1>2, <2>1, IncaSliceRelease DEF Inca!uvm_hdl_release_and_read
  <2>2. CASE p.select # "slice"
    <3>1. \A d \in Inca!uvm_hdl_release_and_read(c, p) :
            d \in Inca!Switch(c, p,
                    {Inca!uvm_hdl_get_vlog(Inca!uvm_hdl_set_vlog(c, p, "release"), p)},
                    Inca!uvm_hdl_get_vhdl(Inca!uvm_hdl_set_vhdl(c, p, "release"), p))
      BY <1>2, <2>2 DEF Inca!uvm_hdl_release_and_read
    <3> QED
      BY <1>3, <3>1, SwitchCases, IncaReleaseRead
  <2> QED
    BY <2>1, <2>2
<1> QED
  BY <1>7, <1>9, <1>10

-----------------------------------------------------------------------------
(* The imported functions, whatever the simulator. *)

\* Every imported function of Questa.
LEMMA QuestaDone ==
  ASSUME NEW c \in Calls, c.simulator = "questa", NEW p \in Path
  PROVE  /\ \A d \in Questa!uvm_hdl_read(c, p) : ReadDone(c, d, p)
         /\ \A d \in Questa!uvm_hdl_deposit(c, p) : WriteDone(c, d, p, "deposit")
         /\ \A d \in Questa!uvm_hdl_force(c, p) : WriteDone(c, d, p, "force")
         /\ \A d \in Questa!uvm_hdl_release(c, p) \union Questa!uvm_hdl_release_and_read(c, p) :
              WriteDone(c, d, p, "release")
BY QuestaReadDone, QuestaWriteDone
   DEF Questa!uvm_hdl_read, Questa!uvm_hdl_deposit, Questa!uvm_hdl_force,
       Questa!uvm_hdl_release, Questa!uvm_hdl_release_and_read, Flags

\* A read.
LEMMA ReadCall ==
  ASSUME NEW c \in Calls, c.simulator = scenario.simulator, NEW p \in Path,
         NEW d \in uvm_hdl_read(c, p)
  PROVE  ReadDone(c, d, p)
<1>1. c.simulator \in {"vcs", "vcsmx", "questa", "inca"}
  BY DEF Calls, Call
<1>2. CASE c.simulator \in {"vcs", "vcsmx"}
  BY <1>2, VcsDone DEF uvm_hdl_read
<1>3. CASE c.simulator = "questa"
  BY <1>3, QuestaDone DEF uvm_hdl_read
<1>4. CASE c.simulator = "inca"
  BY <1>4, IncaDone DEF uvm_hdl_read
<1> QED
  BY <1>1, <1>2, <1>3, <1>4

\* A deposit.
LEMMA DepositCall ==
  ASSUME NEW c \in Calls, c.simulator = scenario.simulator, NEW p \in Path,
         NEW d \in uvm_hdl_deposit(c, p)
  PROVE  WriteDone(c, d, p, "deposit")
<1>1. c.simulator \in {"vcs", "vcsmx", "questa", "inca"}
  BY DEF Calls, Call
<1>2. CASE c.simulator \in {"vcs", "vcsmx"}
  BY <1>2, VcsDone DEF uvm_hdl_deposit
<1>3. CASE c.simulator = "questa"
  BY <1>3, QuestaDone DEF uvm_hdl_deposit
<1>4. CASE c.simulator = "inca"
  BY <1>4, IncaDone DEF uvm_hdl_deposit
<1> QED
  BY <1>1, <1>2, <1>3, <1>4

\* What each imported function leaves of the record that it was given.
LEMMA CallDone ==
  ASSUME NEW c \in Calls, c.simulator = scenario.simulator, NEW p \in Path,
         NEW op \in Operations, NEW d \in Outcomes(op, c, p)
  PROVE  /\ d \in Calls /\ SameBuild(c, d)
         /\ op = "read" => ReadDone(c, d, p)
         /\ op \in {"deposit", "force"} => WriteDone(c, d, p, op)
         /\ op \in {"release", "release_and_read"} => WriteDone(c, d, p, "release")
<1>1. c.simulator \in {"vcs", "vcsmx", "questa", "inca"}
  BY DEF Calls, Call
<1>2. CASE op = "read"
  <2>1. d \in uvm_hdl_read(c, p)
    BY <1>2 DEF Outcomes
  <2>2. ReadDone(c, d, p)
    BY <2>1, ReadCall
  <2> QED
    BY <1>2, <2>2 DEF ReadDone
<1>3. CASE op = "deposit"
  <2>1. d \in uvm_hdl_deposit(c, p)
    BY <1>3 DEF Outcomes
  <2>2. WriteDone(c, d, p, "deposit")
    BY <2>1, DepositCall
  <2> QED
    BY <1>3, <2>2 DEF WriteDone
<1>4. CASE op = "check_path"
  <2>1. d \in {Succeed(c), Refuse(c)}
    BY <1>1, <1>4 DEF Outcomes, Vcs!uvm_hdl_check_path, Questa!uvm_hdl_check_path,
                      Inca!uvm_hdl_check_path, Vcs!Succeed, Vcs!Refuse, Questa!Succeed,
                      Questa!Refuse, Inca!Succeed, Inca!Refuse, Succeed, Refuse
  <2> QED
    BY <1>4, <2>1, Ends
<1>5. CASE op \in {"force", "release", "release_and_read"}
  <2>1. IF op = "force" THEN WriteDone(c, d, p, "force") ELSE WriteDone(c, d, p, "release")
    <3>1. CASE c.simulator \in {"vcs", "vcsmx"}
      BY <1>5, <3>1, VcsDone DEF Outcomes
    <3>2. CASE c.simulator = "questa"
      BY <1>5, <3>2, QuestaDone DEF Outcomes
    <3>3. CASE c.simulator = "inca"
      BY <1>5, <3>3, IncaDone DEF Outcomes
    <3> QED
      BY <1>1, <3>1, <3>2, <3>3
  <2> QED
    BY <1>5, <2>1 DEF WriteDone
<1> QED
  BY <1>2, <1>3, <1>4, <1>5 DEF Operations
-----------------------------------------------------------------------------
(* Loops. *)

\* What holds of every value that a loop of ForEach may have after each round holds at its
\* end: the slices of a copy are written one after the other.
LEMMA WriteCopyLoop ==
  ASSUME NEW c, NEW slices, Len(slices) \in Nat, NEW value, NEW J, c \in J[0],
         \A k \in 1 .. Len(slices) : \A d \in J[k - 1] :
           write_slice(d, slices[k], value) \subseteq J[k]
  PROVE  write_copy(c, slices, value) \subseteq J[Len(slices)]
<1> DEFINE n == Len(slices)
           F == [k \in 1 .. n |-> [d \in J[k - 1] |-> write_slice(d, slices[k], value)]]
           After(g, k) ==
             IF k = 0 THEN {c} ELSE UNION {write_slice(d, slices[k], value) : d \in g[k - 1]}
           h == CHOOSE g : g = [k \in 0 .. n |-> After(g, k)]
<1>1. \A k \in 1 .. n : \A d \in J[k - 1] : F[k][d] = write_slice(d, slices[k], value)
  OBVIOUS
<1>2. PICK f : f = F
  OBVIOUS
<1>3. \A k \in 1 .. n : \A d \in J[k - 1] : f[k][d] \subseteq J[k]
  BY <1>1, <1>2
<1>4. PICK g : LoopRun(g, f, J, c, n)
  <2> HIDE DEF F
  <2> QED
    BY <1>3, LoopExists
<1>5. g = [k \in 0 .. n |-> After(g, k)]
  <2>1. /\ g = [k \in 0 .. n |-> IF k = 0 THEN {c} ELSE UNION {f[k][d] : d \in g[k - 1]}]
        /\ \A k \in 0 .. n : g[k] \subseteq J[k]
    BY <1>4 DEF LoopRun
  <2>2. ASSUME NEW k \in 0 .. n, k # 0
        PROVE  UNION {f[k][d] : d \in g[k - 1]}
                 = UNION {write_slice(d, slices[k], value) : d \in g[k - 1]}
    <3>1. k \in 1 .. n /\ g[k - 1] \subseteq J[k - 1]
      BY <2>1, <2>2
    <3>2. \A d \in g[k - 1] : f[k][d] = write_slice(d, slices[k], value)
      BY <1>1, <1>2, <3>1
    <3> QED
      BY <3>2
  <2> QED
    BY <2>1, <2>2
<1>6. h = [k \in 0 .. n |-> After(h, k)]
  <2> HIDE DEF After
  <2> QED
    BY <1>5
<1>7. write_copy(c, slices, value) = h[n]
  BY DEF write_copy, ForEach
<1>8. PICK l : l = h /\ l = [k \in 0 .. n |-> After(l, k)]
  <2> HIDE DEF After, h
  <2> QED
    BY <1>6
<1> HIDE DEF h
<1>9. l[0] \subseteq J[0]
  <2>1. l[0] = {c}
    BY <1>8
  <2> QED
    BY <2>1
<1>10. ASSUME NEW k \in 1 .. n, l[k - 1] \subseteq J[k - 1] PROVE l[k] \subseteq J[k]
  <2>1. l[k] = UNION {write_slice(d, slices[k], value) : d \in l[k - 1]}
    <3>1. k \in 0 .. n /\ k # 0
      OBVIOUS
    <3>2. l[k] = After(l, k)
      <4> HIDE DEF After
      <4> QED
        BY <1>8, <3>1
    <3> QED
      BY <3>1, <3>2
  <2> QED
    BY <1>10, <2>1
<1>11. l[n] \subseteq J[n]
  BY <1>9, <1>10, LoopKeeps
<1> QED
  BY <1>7, <1>8, <1>11

\* The copies are written one after the other.
LEMMA BackdoorWriteLoop ==
  ASSUME NEW c, NEW value, Len(Copies) \in Nat, NEW J, c \in J[0],
         \A k \in 1 .. Len(Copies) : \A d \in J[k - 1] :
           write_copy(d, Copies[k], value) \subseteq J[k]
  PROVE  backdoor_write(c, value) \subseteq J[Len(Copies)]
<1> DEFINE n == Len(Copies)
           F == [k \in 1 .. n |-> [d \in J[k - 1] |-> write_copy(d, Copies[k], value)]]
           After(g, k) ==
             IF k = 0 THEN {c} ELSE UNION {write_copy(d, Copies[k], value) : d \in g[k - 1]}
           h == CHOOSE g : g = [k \in 0 .. n |-> After(g, k)]
<1>1. \A k \in 1 .. n : \A d \in J[k - 1] : F[k][d] = write_copy(d, Copies[k], value)
  OBVIOUS
<1>2. PICK f : f = F
  OBVIOUS
<1>3. \A k \in 1 .. n : \A d \in J[k - 1] : f[k][d] \subseteq J[k]
  BY <1>1, <1>2
<1>4. PICK g : LoopRun(g, f, J, c, n)
  <2> HIDE DEF F
  <2> QED
    BY <1>3, LoopExists
<1>5. g = [k \in 0 .. n |-> After(g, k)]
  <2>1. /\ g = [k \in 0 .. n |-> IF k = 0 THEN {c} ELSE UNION {f[k][d] : d \in g[k - 1]}]
        /\ \A k \in 0 .. n : g[k] \subseteq J[k]
    BY <1>4 DEF LoopRun
  <2>2. ASSUME NEW k \in 0 .. n, k # 0
        PROVE  UNION {f[k][d] : d \in g[k - 1]}
                 = UNION {write_copy(d, Copies[k], value) : d \in g[k - 1]}
    <3>1. k \in 1 .. n /\ g[k - 1] \subseteq J[k - 1]
      BY <2>1, <2>2
    <3>2. \A d \in g[k - 1] : f[k][d] = write_copy(d, Copies[k], value)
      BY <1>1, <1>2, <3>1
    <3> QED
      BY <3>2
  <2> QED
    BY <2>1, <2>2
<1>6. h = [k \in 0 .. n |-> After(h, k)]
  <2> HIDE DEF After
  <2> QED
    BY <1>5
<1>7. backdoor_write(c, value) = h[n]
  BY DEF backdoor_write, ForEach
<1>8. PICK l : l = h /\ l = [k \in 0 .. n |-> After(l, k)]
  <2> HIDE DEF After, h
  <2> QED
    BY <1>6
<1> HIDE DEF h
<1>9. l[0] \subseteq J[0]
  <2>1. l[0] = {c}
    BY <1>8
  <2> QED
    BY <2>1
<1>10. ASSUME NEW k \in 1 .. n, l[k - 1] \subseteq J[k - 1] PROVE l[k] \subseteq J[k]
  <2>1. l[k] = UNION {write_copy(d, Copies[k], value) : d \in l[k - 1]}
    <3>1. k \in 0 .. n /\ k # 0
      OBVIOUS
    <3>2. l[k] = After(l, k)
      <4> HIDE DEF After
      <4> QED
        BY <1>8, <3>1
    <3> QED
      BY <3>1, <3>2
  <2> QED
    BY <1>10, <2>1
<1>11. l[n] \subseteq J[n]
  BY <1>9, <1>10, LoopKeeps
<1> QED
  BY <1>7, <1>8, <1>11

\* The slices of a copy are read one after the other.
LEMMA ReadSlicesLoop ==
  ASSUME NEW r, NEW slices, Len(slices) \in Nat, NEW J, [r EXCEPT !.val = Zeros] \in J[0],
         \A k \in 1 .. Len(slices) : \A d \in J[k - 1] : read_slice(d, slices[k]) \subseteq J[k]
  PROVE  read_slices(r, slices) \subseteq J[Len(slices)]
<1>0. PICK start : start = [r EXCEPT !.val = Zeros]
  OBVIOUS
<1> DEFINE n == Len(slices)
           F == [k \in 1 .. n |-> [d \in J[k - 1] |-> read_slice(d, slices[k])]]
           After(g, k) ==
             IF k = 0 THEN {start} ELSE UNION {read_slice(d, slices[k]) : d \in g[k - 1]}
           h == CHOOSE g : g = [k \in 0 .. n |-> After(g, k)]
<1>1. \A k \in 1 .. n : \A d \in J[k - 1] : F[k][d] = read_slice(d, slices[k])
  OBVIOUS
<1>2. PICK f : f = F
  OBVIOUS
<1>3. \A k \in 1 .. n : \A d \in J[k - 1] : f[k][d] \subseteq J[k]
  BY <1>1, <1>2
<1>4. PICK g : LoopRun(g, f, J, start, n)
  <2> HIDE DEF F
  <2> QED
    BY <1>0, <1>3, LoopExists
<1>5. g = [k \in 0 .. n |-> After(g, k)]
  <2>1. /\ g = [k \in 0 .. n |-> IF k = 0 THEN {start} ELSE UNION {f[k][d] : d \in g[k - 1]}]
        /\ \A k \in 0 .. n : g[k] \subseteq J[k]
    BY <1>4 DEF LoopRun
  <2>2. ASSUME NEW k \in 0 .. n, k # 0
        PROVE  UNION {f[k][d] : d \in g[k - 1]}
                 = UNION {read_slice(d, slices[k]) : d \in g[k - 1]}
    <3>1. k \in 1 .. n /\ g[k - 1] \subseteq J[k - 1]
      BY <2>1, <2>2
    <3>2. \A d \in g[k - 1] : f[k][d] = read_slice(d, slices[k])
      BY <1>1, <1>2, <3>1
    <3> QED
      BY <3>2
  <2> QED
    BY <2>1, <2>2
<1>6. h = [k \in 0 .. n |-> After(h, k)]
  <2> HIDE DEF After
  <2> QED
    BY <1>5
<1>7. read_slices(r, slices) = h[n]
  BY <1>0 DEF read_slices, ForEach
<1>8. PICK l : l = h /\ l = [k \in 0 .. n |-> After(l, k)]
  <2> HIDE DEF After, h
  <2> QED
    BY <1>6
<1> HIDE DEF h
<1>9. l[0] \subseteq J[0]
  <2>1. l[0] = {start}
    BY <1>8
  <2> QED
    BY <1>0, <2>1
<1>10. ASSUME NEW k \in 1 .. n, l[k - 1] \subseteq J[k - 1] PROVE l[k] \subseteq J[k]
  <2>1. l[k] = UNION {read_slice(d, slices[k]) : d \in l[k - 1]}
    <3>1. k \in 0 .. n /\ k # 0
      OBVIOUS
    <3>2. l[k] = After(l, k)
      <4> HIDE DEF After
      <4> QED
        BY <1>8, <3>1
    <3> QED
      BY <3>1, <3>2
  <2> QED
    BY <1>10, <2>1
<1>11. l[n] \subseteq J[n]
  BY <1>9, <1>10, LoopKeeps
<1> QED
  BY <1>7, <1>8, <1>11

\* The copies are read one after the other.
LEMMA BackdoorReadLoop ==
  ASSUME NEW c, NEW garbage, Len(Copies) \in Nat, NEW J, Reading(c, garbage) \in J[0],
         \A k \in 1 .. Len(Copies) : \A d \in J[k - 1] : read_copy(d, k) \subseteq J[k]
  PROVE  backdoor_read_func(c, garbage) \subseteq J[Len(Copies)]
<1> DEFINE n == Len(Copies)
           F == [k \in 1 .. n |-> [d \in J[k - 1] |-> read_copy(d, k)]]
           After(g, k) ==
             IF k = 0 THEN {Reading(c, garbage)} ELSE UNION {read_copy(d, k) : d \in g[k - 1]}
           h == CHOOSE g : g = [k \in 0 .. n |-> After(g, k)]
<1>1. \A k \in 1 .. n : \A d \in J[k - 1] : F[k][d] = read_copy(d, k)
  OBVIOUS
<1>2. PICK f : f = F
  OBVIOUS
<1>3. \A k \in 1 .. n : \A d \in J[k - 1] : f[k][d] \subseteq J[k]
  BY <1>1, <1>2
<1>4. PICK g : LoopRun(g, f, J, Reading(c, garbage), n)
  <2> HIDE DEF F
  <2> QED
    BY <1>3, LoopExists
<1>5. g = [k \in 0 .. n |-> After(g, k)]
  <2>1. /\ g = [k \in 0 .. n |-> IF k = 0 THEN {Reading(c, garbage)}
                                 ELSE UNION {f[k][d] : d \in g[k - 1]}]
        /\ \A k \in 0 .. n : g[k] \subseteq J[k]
    BY <1>4 DEF LoopRun
  <2>2. ASSUME NEW k \in 0 .. n, k # 0
        PROVE  UNION {f[k][d] : d \in g[k - 1]}
                 = UNION {read_copy(d, k) : d \in g[k - 1]}
    <3>1. k \in 1 .. n /\ g[k - 1] \subseteq J[k - 1]
      BY <2>1, <2>2
    <3>2. \A d \in g[k - 1] : f[k][d] = read_copy(d, k)
      BY <1>1, <1>2, <3>1
    <3> QED
      BY <3>2
  <2> QED
    BY <2>1, <2>2
<1>6. h = [k \in 0 .. n |-> After(h, k)]
  <2> HIDE DEF After
  <2> QED
    BY <1>5
<1>7. backdoor_read_func(c, garbage) = h[n]
  BY DEF backdoor_read_func, ForEach
<1>8. PICK l : l = h /\ l = [k \in 0 .. n |-> After(l, k)]
  <2> HIDE DEF After, h
  <2> QED
    BY <1>6
<1> HIDE DEF h
<1>9. l[0] \subseteq J[0]
  <2>1. l[0] = {Reading(c, garbage)}
    BY <1>8
  <2> QED
    BY <2>1
<1>10. ASSUME NEW k \in 1 .. n, l[k - 1] \subseteq J[k - 1] PROVE l[k] \subseteq J[k]
  <2>1. l[k] = UNION {read_copy(d, k) : d \in l[k - 1]}
    <3>1. k \in 0 .. n /\ k # 0
      OBVIOUS
    <3>2. l[k] = After(l, k)
      <4> HIDE DEF After
      <4> QED
        BY <1>8, <3>1
    <3> QED
      BY <3>1, <3>2
  <2> QED
    BY <1>10, <2>1
<1>11. l[n] \subseteq J[n]
  BY <1>9, <1>10, LoopKeeps
<1> QED
  BY <1>7, <1>8, <1>11
-----------------------------------------------------------------------------
(* A register is poked. *)

\* What RegisterAssumption says of the register.
LEMMA RegisterFacts ==
  /\ RegBits \in Nat \ {0} /\ 0 .. RegBits - 1 \subseteq Bits \intersect Vector
  /\ Len(Copies) \in Nat \ {0}
  /\ \A i \in 1 .. Len(Copies) :
       /\ Copies[i] \in Seq(Slices) /\ Len(Copies[i]) \in Nat
       /\ \A j \in 1 .. Len(Copies[i]) : Copies[i][j] \in Slices /\ Copies[i][j] \in Slice
<1>1. RegBits \in Nat \ {0} /\ RegBits <= MaxWidth /\ MaxWidth \in Nat
  BY RegisterAssumption, DesignAssumption
<1>2. 0 .. RegBits - 1 \subseteq Bits \intersect Vector
  <2>1. Memory \in Nat /\ MaxWidth <= Memory /\ MaxWidth \in Nat \ {0}
    BY DesignAssumption
  <2>2. 0 .. RegBits - 1 \subseteq 0 .. Memory - 1
    BY <1>1, <2>1
  <2>3. chunks(MaxWidth) * Word \in Nat /\ chunks(MaxWidth) * Word >= MaxWidth
    BY <2>1, Chunks
  <2>4. 0 .. RegBits - 1 \subseteq Vector
    BY <1>1, <2>3 DEF Vector
  <2> QED
    BY <2>2, <2>4, BitsFacts
<1>3. Len(Copies) \in Nat \ {0} /\ DOMAIN Copies = 1 .. Len(Copies)
  BY RegisterAssumption
<1>4. ASSUME NEW i \in 1 .. Len(Copies)
      PROVE  /\ Copies[i] \in Seq(Slices) /\ Len(Copies[i]) \in Nat
             /\ \A j \in 1 .. Len(Copies[i]) : Copies[i][j] \in Slices /\ Copies[i][j] \in Slice
  <2>1. Copies[i] \in Seq(Slice)
    BY RegisterAssumption
  <2>2. Len(Copies[i]) \in Nat /\ DOMAIN Copies[i] = 1 .. Len(Copies[i])
    BY <2>1
  <2>3. ASSUME NEW j \in 1 .. Len(Copies[i])
        PROVE  Copies[i][j] \in Slices /\ Copies[i][j] \in Slice
    <3>1. Copies[i][j] \in Slice
      BY <2>1, <2>2
    <3>2. i \in DOMAIN Copies /\ j \in DOMAIN Copies[i]
      BY <1>3, <2>2
    <3> QED
      BY <3>1, <3>2 DEF Slices
  <2>4. Copies[i] \in Seq(Slices)
    <3>1. Copies[i] = [j \in 1 .. Len(Copies[i]) |-> Copies[i][j]]
      BY <2>1, <2>2
    <3>2. Copies[i] \in [1 .. Len(Copies[i]) -> Slices]
      BY <2>3, <3>1
    <3> QED
      BY <2>2, <3>2
  <2> QED
    BY <2>2, <2>3, <2>4
<1> QED
  BY <1>1, <1>2, <1>3, <1>4

\* Every slice is one of a copy.
LEMMA SlicesFacts ==
  ASSUME NEW s \in Slices
  PROVE  /\ s \in Slice /\ s.path \in Path /\ s.offset \in Int /\ s.size \in Nat
         /\ \E i \in 1 .. Len(Copies) : \E j \in 1 .. Len(Copies[i]) : s = Copies[i][j]
<1>1. PICK i \in DOMAIN Copies : \E j \in DOMAIN Copies[i] : s = Copies[i][j]
  BY DEF Slices
<1>2. PICK j \in DOMAIN Copies[i] : s = Copies[i][j]
  BY <1>1
<1>3. i \in 1 .. Len(Copies)
  BY RegisterAssumption
<1>4. j \in 1 .. Len(Copies[i])
  BY <1>3, RegisterFacts
<1>5. s \in Slice
  BY <1>2, <1>3, <1>4, RegisterFacts
<1> QED
  BY <1>2, <1>3, <1>4, <1>5 DEF Slice

\* The places of the bits of a slice that fits.
LEMMA PlaceFacts ==
  ASSUME NEW s \in Slices, FitsItsPlaces(s), NEW b \in Named(s.path)
  PROVE  /\ Is(b, s.path) \in Bits /\ Is(b, s.path) \in Nat
         /\ Place(s, b) \in Taken(s) /\ Place(s, b) \in 0 .. RegBits - 1
         /\ s.offset < 0 => Place(s, b) = Is(b, s.path) /\ Is(b, s.path) < RegBits
         /\ ~(s.offset < 0) => /\ Place(s, b) = s.offset + Is(b, s.path)
                               /\ Is(b, s.path) < s.size
<1>1. s.path \in Path /\ s.offset \in Int /\ s.size \in Nat
  BY SlicesFacts
<1>2. RegBits \in Nat \ {0} /\ 0 .. RegBits - 1 \subseteq Bits
  BY RegisterFacts
<1>3. width(s.path) \in Nat /\ Is(b, s.path) \in 0 .. width(s.path) - 1
  BY <1>1, PathFacts, Places
<1>4. Taken(s) \subseteq 0 .. RegBits - 1
      /\ width(s.path) <= IF s.offset < 0 THEN RegBits ELSE s.size
  BY DEF FitsItsPlaces
<1>5. CASE s.offset < 0
  BY <1>1, <1>2, <1>3, <1>4, <1>5 DEF Place, Taken
<1>6. CASE ~(s.offset < 0)
  <2>1. Is(b, s.path) \in 0 .. s.size - 1
    BY <1>1, <1>3, <1>4, <1>6
  <2>2. Place(s, b) = s.offset + Is(b, s.path)
    BY <1>6 DEF Place
  <2>3. Place(s, b) \in Taken(s)
    BY <1>1, <1>6, <2>1, <2>2 DEF Taken
  <2>4. Place(s, b) \in 0 .. RegBits - 1
    BY <1>4, <2>3
  <2>5. Is(b, s.path) \in 0 .. RegBits - 1
    BY <1>1, <1>2, <1>6, <2>1, <2>2, <2>4
  <2>6. Is(b, s.path) \in Bits /\ Is(b, s.path) \in Nat /\ Is(b, s.path) < s.size
    BY <1>1, <1>2, <2>1, <2>5
  <2> QED
    BY <1>6, <2>2, <2>3, <2>4, <2>6
<1> QED
  BY <1>5, <1>6

\* The values of the register.
Digits == {"0", "1"}
RegValues == [0 .. RegBits - 1 -> Digits]

\* The vector that is written through the path of a slice.
LEMMA PartFacts ==
  ASSUME NEW s \in Slice, NEW value \in RegValues, NEW memory \in [Bits -> VhdlLogic]
  PROVE  /\ Part(value, s, memory) \in [Bits -> VhdlLogic]
         /\ s \in Slices /\ FitsItsPlaces(s) =>
              \A b \in Named(s.path) : Part(value, s, memory)[Is(b, s.path)] = value[Place(s, b)]
<1>1. RegBits \in Nat \ {0} /\ 0 .. RegBits - 1 \subseteq Vector /\ Bits \subseteq Nat
  BY RegisterFacts, BitsFacts
<1>2. s.offset \in Int /\ s.size \in Nat
  BY DEF Slice
<1>3. ASSUME NEW k \in Bits
      PROVE  (IF k \notin Vector THEN memory[k]
              ELSE IF s.offset < 0 THEN (IF k < RegBits THEN value[k] ELSE "0")
              ELSE IF k < s.size /\ k + s.offset < RegBits THEN value[k + s.offset]
              ELSE "0") \in VhdlLogic
  <2>1. k \in Nat
    BY <1>1
  <2>2. \A l \in 0 .. RegBits - 1 : value[l] \in VhdlLogic
    BY DEF RegValues, Digits, VhdlLogic
  <2>3. "0" \in VhdlLogic
    BY DEF VhdlLogic
  <2> QED
    BY <1>1, <1>2, <2>1, <2>2, <2>3
<1>4. Part(value, s, memory) \in [Bits -> VhdlLogic]
  BY <1>3 DEF Part
<1>5. ASSUME s \in Slices, FitsItsPlaces(s), NEW b \in Named(s.path)
      PROVE  Part(value, s, memory)[Is(b, s.path)] = value[Place(s, b)]
  <2>1. PICK k \in Bits : k = Is(b, s.path) /\ k \in Nat /\ k \in Vector
    <3>1. Is(b, s.path) \in 0 .. RegBits - 1
      BY <1>1, <1>2, <1>5, PlaceFacts
    <3> QED
      BY <1>1, <1>5, <3>1, PlaceFacts
  <2>2. Part(value, s, memory)[k] =
          IF k \notin Vector THEN memory[k]
          ELSE IF s.offset < 0 THEN (IF k < RegBits THEN value[k] ELSE "0")
          ELSE IF k < s.size /\ k + s.offset < RegBits THEN value[k + s.offset]
          ELSE "0"
    BY DEF Part
  <2>3. CASE s.offset < 0
    <3>1. Place(s, b) = k /\ k < RegBits
      BY <1>5, <2>1, <2>3, PlaceFacts
    <3> QED
      BY <2>1, <2>2, <2>3, <3>1
  <2>4. CASE ~(s.offset < 0)
    <3>1. Place(s, b) = s.offset + k /\ k < s.size /\ Place(s, b) \in 0 .. RegBits - 1
      BY <1>5, <2>1, <2>4, PlaceFacts
    <3>2. Place(s, b) = k + s.offset /\ k + s.offset < RegBits
      BY <1>1, <1>2, <2>1, <3>1
    <3> QED
      BY <2>1, <2>2, <2>4, <3>1, <3>2
  <2> QED
    BY <2>3, <2>4
<1> QED
  BY <1>4, <1>5

\* After the slices of S have been written, if the calls did not fail: the forces are as
\* they were, and the slices hold their parts of the value.
Written(c, d, value, S) ==
  /\ \A x \in Objects : \A b \in 0 .. Size[x] - 1 : b \in d.forced[x] <=> b \in c.forced[x]
  /\ \A s \in S : \A b \in Named(s.path) :
       \/ d.val[s.path.object][b] = value[Place(s, b)]
       \/ b \in c.forced[s.path.object]
Poked(c, d, value, S) ==
  d \in Calls /\ SameBuild(c, d) /\ (WellMapped /\ d.ok => Written(c, d, value, S))

\* One more slice.
LEMMA SliceWritten ==
  ASSUME NEW c \in Calls, c.simulator = scenario.simulator, NEW value \in RegValues,
         NEW S \in SUBSET Slices, NEW d, Poked(c, d, value, S),
         NEW s \in Slices, NEW e \in write_slice(d, s, value)
  PROVE  Poked(c, e, value, S \union {s})
<1>1. d \in Calls /\ SameBuild(c, d)
  BY DEF Poked
<1>2. s \in Slice /\ s.path \in Path
  BY SlicesFacts
<1>3. PICK v \in [Bits -> VhdlLogic] :
        /\ v = Part(value, s, d.value)
        /\ FitsItsPlaces(s) => \A b \in Named(s.path) : v[Is(b, s.path)] = value[Place(s, b)]
  <2>1. d.value \in [Bits -> VhdlLogic]
    BY <1>1 DEF Calls, Call
  <2> QED
    BY <1>2, <2>1, PartFacts
<1>4. PICK f : f = [d EXCEPT !.value = v]
  OBVIOUS
<1>5. /\ f \in Calls /\ SameBuild(d, f) /\ SameDesign(d, f) /\ f.value = v
      /\ f.simulator = scenario.simulator
  BY <1>1, <1>3, <1>4 DEF Calls, Call, SameBuild, SameDesign
<1>6. PICK g \in uvm_hdl_deposit(f, s.path) : e = [g EXCEPT !.ok = @ /\ d.ok]
  BY <1>3, <1>4 DEF write_slice
<1>7. WriteDone(f, g, s.path, "deposit")
  BY <1>2, <1>5, <1>6, DepositCall
<1>8. g \in Calls /\ SameBuild(f, g) /\ Writes(f, g, s.path, "deposit")
  BY <1>7 DEF WriteDone
<1>9. /\ e \in Calls /\ SameBuild(g, e) /\ e.val = g.val /\ e.forced = g.forced
      /\ e.ok => d.ok /\ g.ok
  BY <1>1, <1>6, <1>8 DEF Calls, Call, SameBuild
<1>10. SameBuild(c, e)
  BY <1>1, <1>5, <1>8, <1>9 DEF SameBuild
<1>11. ASSUME WellMapped, e.ok PROVE Written(c, e, value, S \union {s})
  <2>1. Written(c, d, value, S) /\ g.ok
    BY <1>9, <1>11 DEF Poked
  <2>2. PICK o \in Objects : o = s.path.object
    BY <1>2, PathFacts
  <2>3. FitsItsPlaces(s) /\ Kind[o] = "verilog"
    BY <1>11, <2>2 DEF WellMapped, FitsItsPlaces
  <2>4. \A x \in Objects : \A b \in 0 .. Size[x] - 1 :
          x # o \/ b \notin Named(s.path) =>
            e.val[x][b] = d.val[x][b] /\ (b \in e.forced[x] <=> b \in d.forced[x])
    BY <1>5, <1>8, <1>9, <2>2 DEF Writes, SameDesign
  <2>5. \A b \in Named(s.path) :
          /\ e.val[o][b] = IF b \in d.forced[o] THEN d.val[o][b] ELSE value[Place(s, b)]
          /\ b \in e.forced[o] <=> b \in d.forced[o]
    <3>1. Carried(o, f.value)
      BY <2>3 DEF Carried
    <3>2. \A b \in Named(s.path) :
            /\ g.val[o][b] = IF b \in f.forced[o] THEN f.val[o][b]
                             ELSE f.value[Is(b, s.path)]
            /\ b \in g.forced[o] <=> b \in f.forced[o]
      BY <1>8, <2>1, <2>2, <3>1 DEF Writes
    <3>3. \A b \in Named(s.path) : f.value[Is(b, s.path)] = value[Place(s, b)]
      BY <1>3, <1>5, <2>3
    <3> QED
      BY <1>5, <1>9, <3>2, <3>3 DEF SameDesign
  <2>6. \A x \in Objects : \A b \in 0 .. Size[x] - 1 : b \in e.forced[x] <=> b \in c.forced[x]
    BY <2>1, <2>4, <2>5 DEF Written
  <2>7. ASSUME NEW t \in S \union {s}, NEW b \in Named(t.path)
        PROVE  \/ e.val[t.path.object][b] = value[Place(t, b)]
               \/ b \in c.forced[t.path.object]
    <3>1. t \in Slices /\ t.path \in Path
      BY SlicesFacts
    <3>2. PICK x \in Objects : x = t.path.object
      BY <3>1, PathFacts
    <3>3. b \in 0 .. Size[x] - 1
      BY <3>1, <3>2, Places
    <3>4. CASE x = o /\ b \in Named(s.path)
      <4>1. Place(s, b) = Place(t, b)
        BY <1>11, <2>2, <3>1, <3>2, <3>4 DEF WellMapped
      <4>2. b \in d.forced[o] <=> b \in c.forced[o]
        BY <2>1, <3>3, <3>4 DEF Written
      <4> QED
        BY <2>5, <3>2, <3>4, <4>1, <4>2
    <3>5. CASE x # o \/ b \notin Named(s.path)
      <4>1. t \in S
        BY <2>2, <3>2, <3>5
      <4>2. d.val[x][b] = value[Place(t, b)] \/ b \in c.forced[x]
        BY <2>1, <3>2, <4>1 DEF Written
      <4> QED
        BY <2>4, <3>2, <3>3, <3>5, <4>2
    <3> QED
      BY <3>4, <3>5
  <2> QED
    BY <2>6, <2>7 DEF Written
<1> QED
  BY <1>9, <1>10, <1>11 DEF Poked

\* The slices of a copy.
LEMMA CopyWritten ==
  ASSUME NEW c \in Calls, c.simulator = scenario.simulator, NEW value \in RegValues,
         NEW S \in SUBSET Slices, NEW d, Poked(c, d, value, S),
         NEW slices \in Seq(Slices), NEW e \in write_copy(d, slices, value)
  PROVE  Poked(c, e, value, S \union {slices[j] : j \in 1 .. Len(slices)})
<1> DEFINE n == Len(slices)
           So(k) == S \union {slices[j] : j \in 1 .. k}
           J == [k \in 0 .. n |-> {f \in Calls : Poked(c, f, value, So(k))}]
<1>1. n \in Nat /\ \A j \in 1 .. n : slices[j] \in Slices
  OBVIOUS
<1>2. ASSUME NEW k \in 0 .. n PROVE So(k) \in SUBSET Slices
  BY <1>1
<1>3. d \in J[0]
  <2>1. So(0) = S /\ 0 \in 0 .. n
    BY <1>1
  <2> HIDE DEF So
  <2>2. d \in {f \in Calls : Poked(c, f, value, So(0))}
    BY <2>1 DEF Poked
  <2> QED
    BY <2>1, <2>2
<1>4. ASSUME NEW k \in 1 .. n, NEW f \in J[k - 1]
      PROVE  write_slice(f, slices[k], value) \subseteq J[k]
  <2>1. k - 1 \in 0 .. n /\ k \in 0 .. n /\ slices[k] \in Slices
    BY <1>1
  <2>2. So(k) = So(k - 1) \union {slices[k]}
    BY <1>1
  <2>3. Poked(c, f, value, So(k - 1)) /\ So(k - 1) \in SUBSET Slices
    BY <1>2, <2>1
  <2> HIDE DEF So
  <2>4. ASSUME NEW g \in write_slice(f, slices[k], value) PROVE g \in J[k]
    <3>1. Poked(c, g, value, So(k))
      BY <2>1, <2>2, <2>3, SliceWritten
    <3> QED
      BY <2>1, <3>1 DEF Poked
  <2> QED
    BY <2>4
<1>5. PICK L : L = J
  OBVIOUS
<1>6. write_copy(d, slices, value) \subseteq L[n]
  <2> HIDE DEF J
  <2> QED
    BY <1>1, <1>3, <1>4, <1>5, WriteCopyLoop
<1>7. L[n] = {f \in Calls : Poked(c, f, value, So(n))}
  BY <1>1, <1>5
<1> QED
  BY <1>6, <1>7

\* The copies.
LEMMA AllWritten ==
  ASSUME NEW c \in Calls, c.simulator = scenario.simulator, NEW value \in RegValues,
         NEW e \in backdoor_write(c, value)
  PROVE  Poked(c, e, value, Slices)
<1> DEFINE n == Len(Copies)
           So(k) == UNION {{Copies[i][j] : j \in 1 .. Len(Copies[i])} : i \in 1 .. k}
           J == [k \in 0 .. n |-> {f \in Calls : Poked(c, f, value, So(k))}]
<1>1. n \in Nat /\ \A i \in 1 .. n : Copies[i] \in Seq(Slices)
  BY RegisterFacts
<1>2. ASSUME NEW k \in 0 .. n PROVE So(k) \in SUBSET Slices
  <2>1. ASSUME NEW s \in So(k) PROVE s \in Slices
    <3>1. PICK i \in 1 .. k : \E j \in 1 .. Len(Copies[i]) : s = Copies[i][j]
      BY <2>1
    <3>2. i \in 1 .. n
      BY <1>1
    <3> QED
      BY <3>1, <3>2, RegisterFacts
  <2> QED
    BY <2>1
<1>3. c \in J[0]
  <2>1. So(0) = {} /\ 0 \in 0 .. n
    BY <1>1
  <2>2. Poked(c, c, value, {})
    BY DEF Poked, Written, SameBuild
  <2> HIDE DEF So
  <2>3. c \in {f \in Calls : Poked(c, f, value, So(0))}
    BY <2>1, <2>2
  <2> QED
    BY <2>1, <2>3
<1>4. ASSUME NEW k \in 1 .. n, NEW f \in J[k - 1]
      PROVE  write_copy(f, Copies[k], value) \subseteq J[k]
  <2>1. k - 1 \in 0 .. n /\ k \in 0 .. n /\ Copies[k] \in Seq(Slices)
    BY <1>1
  <2>2. So(k) = So(k - 1) \union {Copies[k][j] : j \in 1 .. Len(Copies[k])}
    BY <1>1
  <2>3. Poked(c, f, value, So(k - 1)) /\ So(k - 1) \in SUBSET Slices
    BY <1>2, <2>1
  <2> HIDE DEF So
  <2>4. ASSUME NEW g \in write_copy(f, Copies[k], value) PROVE g \in J[k]
    <3>1. Poked(c, g, value, So(k))
      BY <2>1, <2>2, <2>3, CopyWritten
    <3> QED
      BY <2>1, <3>1 DEF Poked
  <2> QED
    BY <2>4
<1>5. PICK L : L = J
  OBVIOUS
<1>6. backdoor_write(c, value) \subseteq L[n]
  <2> HIDE DEF J
  <2> QED
    BY <1>1, <1>3, <1>4, <1>5, BackdoorWriteLoop
<1>7. L[n] = {f \in Calls : Poked(c, f, value, So(n))}
  BY <1>1, <1>5
<1>8. So(n) = Slices
  <2>1. So(n) \subseteq Slices
    BY <1>1, <1>2
  <2>2. ASSUME NEW s \in Slices PROVE s \in So(n)
    BY SlicesFacts
  <2> QED
    BY <2>1, <2>2
<1> QED
  <2> HIDE DEF So
  <2> QED
    BY <1>6, <1>7, <1>8
-----------------------------------------------------------------------------
(* A register is peeked. *)

\* The records of a reading, after calls that left the design as it was.
Readings == [call : Calls, garbage : [Bits -> VhdlLogic], val : RegValues, value : RegValues,
             returned : BOOLEAN]
Peeking(c, r) == r \in Readings /\ SameBuild(c, r.call) /\ SameDesign(c, r.call)

\* The value has what the design holds for a slice.
Holds(c, s, value) ==
  \A b \in Named(s.path) : value[Place(s, b)] = TwoState(c.val[s.path.object][b])

\* A value is gathered bit by bit.
LEMMA GatheredFacts ==
  ASSUME NEW s \in Slice, NEW reg \in RegValues, NEW v \in [Bits -> VhdlLogic]
  PROVE  /\ Gathered(reg, s, v) \in RegValues
         /\ \A k \in 0 .. RegBits - 1 : k \notin Taken(s) => Gathered(reg, s, v)[k] = reg[k]
         /\ s \in Slices /\ FitsItsPlaces(s) => \A b \in Named(s.path) :
              Gathered(reg, s, v)[Place(s, b)] = TwoState(v[Is(b, s.path)])
<1>1. RegBits \in Nat \ {0} /\ s.offset \in Int /\ s.size \in Nat
  BY RegisterFacts DEF Slice
<1>2. ASSUME NEW k \in 0 .. RegBits - 1
      PROVE  (IF s.offset < 0 THEN TwoState(v[k])
              ELSE IF k - s.offset \in 0 .. s.size - 1 THEN TwoState(v[k - s.offset])
              ELSE reg[k]) \in Digits
  <2>1. reg[k] \in Digits
    BY DEF RegValues
  <2>2. \A l : TwoState(l) \in Digits
    BY DEF TwoState, Digits
  <2> QED
    BY <2>1, <2>2
<1>3. Gathered(reg, s, v) \in RegValues
  BY <1>2 DEF Gathered, RegValues
<1>4. ASSUME NEW k \in 0 .. RegBits - 1
      PROVE  Gathered(reg, s, v)[k] =
               IF s.offset < 0 THEN TwoState(v[k])
               ELSE IF k - s.offset \in 0 .. s.size - 1 THEN TwoState(v[k - s.offset])
               ELSE reg[k]
  BY DEF Gathered
<1>5. ASSUME NEW k \in 0 .. RegBits - 1, k \notin Taken(s)
      PROVE  Gathered(reg, s, v)[k] = reg[k]
  <2>1. ~(s.offset < 0) /\ k - s.offset \notin 0 .. s.size - 1
    BY <1>1, <1>5 DEF Taken
  <2> QED
    BY <1>4, <2>1
<1>6. ASSUME s \in Slices, FitsItsPlaces(s), NEW b \in Named(s.path)
      PROVE  Gathered(reg, s, v)[Place(s, b)] = TwoState(v[Is(b, s.path)])
  <2>1. PICK j \in Nat : j = Is(b, s.path)
    BY <1>6, PlaceFacts
  <2>2. PICK k \in 0 .. RegBits - 1 : k = Place(s, b)
    BY <1>6, PlaceFacts
  <2>3. CASE s.offset < 0
    <3>1. k = j
      BY <1>6, <2>1, <2>2, <2>3, PlaceFacts
    <3> QED
      BY <1>4, <2>1, <2>2, <2>3, <3>1
  <2>4. CASE ~(s.offset < 0)
    <3>1. k = s.offset + j /\ j < s.size
      BY <1>6, <2>1, <2>2, <2>4, PlaceFacts
    <3>2. k - s.offset = j /\ k - s.offset \in 0 .. s.size - 1
      BY <1>1, <2>1, <2>2, <3>1
    <3> QED
      BY <1>4, <2>1, <2>2, <2>4, <3>2
  <2> QED
    BY <2>3, <2>4
<1> QED
  BY <1>3, <1>5, <1>6

\* The functions for VCS find every slice that fits.
LEMMA SliceFound ==
  ASSUME NEW s, FitsItsPlaces(s), NEW c, c.simulator = scenario.simulator,
         scenario \in Scenarios
  PROVE  ~(c.simulator = "vcsmx" /\ Vcs!mhpiPliP(s.path) = "none")
<1>1. CASE s.path.root
  BY <1>1 DEF FitsItsPlaces
<1>2. CASE ~s.path.root
  <2>1. Vcs!vpi_handle_by_name(s.path)
    BY <1>2 DEF FitsItsPlaces, Vcs!vpi_handle_by_name, Vcs!InRange, InRange
  <2>2. Vcs!mhpiPliP(s.path) = "mhpiVpiPli"
    BY <2>1 DEF Vcs!mhpiPliP, Vcs!vpi_handle_by_name
  <2> QED
    BY <2>2
<1> QED
  BY <1>1, <1>2

\* One slice.
LEMMA SliceRead ==
  ASSUME NEW c \in Calls, c.simulator = scenario.simulator, scenario \in Scenarios,
         NEW r, Peeking(c, r), NEW s \in Slice, NEW e \in read_slice(r, s)
  PROVE  /\ Peeking(c, e) /\ e.value = r.value /\ e.returned = r.returned
         /\ e.call.ok => r.call.ok
         /\ \A k \in 0 .. RegBits - 1 : k \notin Taken(s) => e.val[k] = r.val[k]
         /\ s \in Slices /\ FitsItsPlaces(s) /\ e.call.ok => Holds(c, s, e.val)
<1>1. r \in Readings /\ SameBuild(c, r.call) /\ SameDesign(c, r.call) /\ s.path \in Path
  BY DEF Peeking, Slice
<1>2. PICK d \in Calls : d = r.call
  BY <1>1 DEF Readings
<1>3. PICK f : f = [d EXCEPT !.value = r.garbage]
  OBVIOUS
<1>4. /\ f \in Calls /\ SameBuild(d, f) /\ SameDesign(d, f)
      /\ f.simulator = scenario.simulator
  BY <1>1, <1>2, <1>3 DEF Calls, Call, Readings, SameBuild, SameDesign
<1>5. PICK g \in uvm_hdl_read(f, s.path) :
        e = [r EXCEPT !.call = [g EXCEPT !.ok = @ /\ r.call.ok],
                      !.val = Gathered(@, s, g.value)]
  BY <1>2, <1>3 DEF read_slice
<1>6. ReadDone(f, g, s.path)
  BY <1>1, <1>4, <1>5, ReadCall
<1>7. g \in Calls /\ SameBuild(f, g) /\ Reads(f, g, s.path)
  BY <1>6 DEF ReadDone
<1>8. SameDesign(f, g)
  BY <1>7 DEF Reads
<1>9. PICK h : h = [g EXCEPT !.ok = @ /\ r.call.ok]
  OBVIOUS
<1>10. /\ h \in Calls /\ SameBuild(g, h) /\ SameDesign(g, h)
       /\ h.ok => g.ok /\ r.call.ok
  BY <1>2, <1>7, <1>9 DEF Calls, Call, SameBuild, SameDesign
<1>11. g.value \in [Bits -> VhdlLogic] /\ r.val \in RegValues
  BY <1>1, <1>7 DEF Calls, Call, Readings
<1>12. PICK w \in RegValues : w = Gathered(r.val, s, g.value)
  BY <1>11, GatheredFacts
<1>13. e = [r EXCEPT !.call = h, !.val = w]
  BY <1>5, <1>9, <1>12
<1>14. /\ e \in Readings /\ e.call = h /\ e.val = w
       /\ e.value = r.value /\ e.returned = r.returned
  BY <1>1, <1>10, <1>13 DEF Readings
<1>15. SameBuild(c, h) /\ SameDesign(c, h)
  BY <1>1, <1>2, <1>4, <1>7, <1>8, <1>10 DEF SameBuild, SameDesign
<1>16. ASSUME s \in Slices, FitsItsPlaces(s), h.ok PROVE Holds(c, s, w)
  <2>1. Kind[s.path.object] = "verilog"
    BY <1>16 DEF FitsItsPlaces
  <2>2. ~(f.simulator = "vcsmx" /\ Vcs!mhpiPliP(s.path) = "none")
    BY <1>4, <1>16, SliceFound
  <2>3. \A b \in Named(s.path) :
          g.value[Is(b, s.path)] = Shown(s.path.object, f.val[s.path.object][b])
    BY <1>7, <1>10, <1>16, <2>1, <2>2 DEF Reads
  <2>4. \A b \in Named(s.path) : g.value[Is(b, s.path)] = c.val[s.path.object][b]
    BY <1>1, <1>2, <1>4, <2>1, <2>3 DEF Shown, SameDesign
  <2>5. \A b \in Named(s.path) : w[Place(s, b)] = TwoState(g.value[Is(b, s.path)])
    BY <1>11, <1>12, <1>16, GatheredFacts
  <2> QED
    BY <2>4, <2>5 DEF Holds
<1>17. \A k \in 0 .. RegBits - 1 : k \notin Taken(s) => w[k] = r.val[k]
  BY <1>11, <1>12, GatheredFacts
<1> QED
  BY <1>10, <1>14, <1>15, <1>16, <1>17 DEF Peeking

\* While the slices of a copy are read.
CopyPeeked(c, r, d, i, k) ==
  /\ Peeking(c, d) /\ d.value = r.value /\ d.returned = r.returned
  /\ d.call.ok => r.call.ok
  /\ WellMapped /\ d.call.ok => \A j \in 1 .. k : Holds(c, Copies[i][j], d.val)

\* The slices of a copy.
LEMMA CopyRead ==
  ASSUME NEW c \in Calls, c.simulator = scenario.simulator, scenario \in Scenarios,
         NEW r, Peeking(c, r), NEW i \in 1 .. Len(Copies),
         NEW e \in read_slices(r, Copies[i])
  PROVE  CopyPeeked(c, r, e, i, Len(Copies[i]))
<1> DEFINE n == Len(Copies[i])
           J == [k \in 0 .. n |-> {d \in Readings : CopyPeeked(c, r, d, i, k)}]
<1>1. n \in Nat /\ \A j \in 1 .. n : Copies[i][j] \in Slices /\ Copies[i][j] \in Slice
  BY RegisterFacts
<1>2. PICK start : start = [r EXCEPT !.val = Zeros]
  OBVIOUS
<1>3. start \in J[0]
  <2>1. Zeros \in RegValues
    BY DEF Zeros, RegValues, Digits
  <2>2. CopyPeeked(c, r, start, i, 0)
    BY <1>2, <2>1 DEF CopyPeeked, Peeking, Readings
  <2>3. start \in Readings /\ 0 \in 0 .. n
    BY <1>1, <2>2 DEF CopyPeeked, Peeking
  <2> QED
    BY <2>2, <2>3
<1>4. ASSUME NEW k \in 1 .. n, NEW d \in J[k - 1]
      PROVE  read_slice(d, Copies[i][k]) \subseteq J[k]
  <2>1. k - 1 \in 0 .. n /\ k \in 0 .. n
    BY <1>1
  <2>2. CopyPeeked(c, r, d, i, k - 1)
    BY <2>1
  <2>3. PICK s \in Slices : s = Copies[i][k] /\ s \in Slice
    BY <1>1
  <2>4. ASSUME NEW g \in read_slice(d, s) PROVE g \in J[k]
    <3>1. Peeking(c, d)
      BY <2>2 DEF CopyPeeked
    <3>2. /\ Peeking(c, g) /\ g.value = d.value /\ g.returned = d.returned
          /\ g.call.ok => d.call.ok
          /\ \A l \in 0 .. RegBits - 1 : l \notin Taken(s) => g.val[l] = d.val[l]
          /\ s \in Slices /\ FitsItsPlaces(s) /\ g.call.ok => Holds(c, s, g.val)
      BY <2>3, <2>4, <3>1, SliceRead
    <3>3. ASSUME WellMapped, g.call.ok, NEW j \in 1 .. k
          PROVE  Holds(c, Copies[i][j], g.val)
      <4>1. CASE j = k
        BY <2>3, <3>2, <3>3, <4>1 DEF WellMapped
      <4>2. CASE j # k
        <5>1. j \in 1 .. k - 1 /\ j \in 1 .. n
          BY <1>1, <4>2
        <5>2. PICK t \in Slices : t = Copies[i][j]
          BY <1>1, <5>1
        <5>3. Holds(c, t, d.val)
          BY <2>2, <3>2, <3>3, <5>1, <5>2 DEF CopyPeeked
        <5>4. Taken(t) \intersect Taken(s) = {}
          <6>1. /\ i \in DOMAIN Copies /\ j \in DOMAIN Copies[i] /\ k \in DOMAIN Copies[i]
            BY <1>1, <5>1, RegisterFacts, RegisterAssumption
          <6> QED
            BY <2>3, <3>3, <4>2, <5>2, <6>1 DEF WellMapped
        <5>5. ASSUME NEW b \in Named(t.path)
              PROVE  g.val[Place(t, b)] = d.val[Place(t, b)]
          <6>1. FitsItsPlaces(t)
            BY <3>3 DEF WellMapped
          <6>2. Place(t, b) \in Taken(t) /\ Place(t, b) \in 0 .. RegBits - 1
            BY <6>1, PlaceFacts
          <6> QED
            BY <3>2, <5>4, <6>2
        <5> QED
          BY <5>2, <5>3, <5>5 DEF Holds
      <4> QED
        BY <4>1, <4>2
    <3>4. CopyPeeked(c, r, g, i, k)
      BY <2>2, <3>2, <3>3 DEF CopyPeeked
    <3>5. g \in Readings
      BY <3>2 DEF Peeking
    <3> QED
      BY <2>1, <3>4, <3>5
  <2> QED
    BY <2>3, <2>4
<1>5. PICK L : L = J
  OBVIOUS
<1>6. read_slices(r, Copies[i]) \subseteq L[n]
  <2> HIDE DEF J
  <2> QED
    BY <1>1, <1>2, <1>3, <1>4, <1>5, ReadSlicesLoop
<1>7. L[n] = {d \in Readings : CopyPeeked(c, r, d, i, n)}
  BY <1>1, <1>5
<1> QED
  BY <1>6, <1>7

\* After the first k copies.
Peeked(c, r, k) ==
  /\ Peeking(c, r) /\ (r.returned => ~r.call.ok)
  /\ WellMapped /\ r.call.ok => \A i \in 1 .. k : \A j \in 1 .. Len(Copies[i]) :
       Holds(c, Copies[i][j], r.value)

\* One more copy.
LEMMA NextCopyRead ==
  ASSUME NEW c \in Calls, c.simulator = scenario.simulator, scenario \in Scenarios,
         NEW i \in 1 .. Len(Copies), NEW r, Peeked(c, r, i - 1), NEW e \in read_copy(r, i)
  PROVE  Peeked(c, e, i)
<1>1. Peeking(c, r) /\ r \in Readings /\ i \in Nat /\ i - 1 \in Nat
  BY RegisterFacts DEF Peeked, Peeking
<1>2. CASE r.returned
  <2>1. e = r /\ ~r.call.ok
    BY <1>2 DEF read_copy, Peeked
  <2> QED
    BY <1>1, <2>1 DEF Peeked
<1>3. CASE ~r.returned
  <2>1. PICK d \in read_slices(r, Copies[i]) : e = Compared(d, i)
    BY <1>3 DEF read_copy
  <2>2. /\ Peeking(c, d) /\ d.value = r.value /\ d.returned = FALSE
        /\ d.call.ok => r.call.ok
        /\ WellMapped /\ d.call.ok =>
             \A j \in 1 .. Len(Copies[i]) : Holds(c, Copies[i][j], d.val)
    <3>1. CopyPeeked(c, r, d, i, Len(Copies[i]))
      BY <1>1, <2>1, CopyRead
    <3>2. r.returned = FALSE
      BY <1>1, <1>3 DEF Readings
    <3> QED
      BY <3>1, <3>2 DEF CopyPeeked
  <2>3. d \in Readings /\ d.call \in Calls /\ d.val \in RegValues
    BY <2>2 DEF Peeking, Readings
  <2>4. CASE i = 1
    <3>1. e = [d EXCEPT !.value = d.val]
      BY <2>1, <2>4 DEF Compared
    <3>2. /\ e \in Readings /\ e.call = d.call /\ e.value = d.val /\ e.returned = FALSE
      BY <2>2, <2>3, <3>1 DEF Readings
    <3>3. \A l \in 1 .. i : l = i
      BY <2>4
    <3> QED
      BY <2>2, <3>2, <3>3 DEF Peeked, Peeking
  <2>5. CASE i # 1 /\ d.val = d.value
    <3>1. e = d
      BY <2>1, <2>5 DEF Compared
    <3>2. ASSUME WellMapped, d.call.ok, NEW l \in 1 .. i, NEW j \in 1 .. Len(Copies[l])
          PROVE  Holds(c, Copies[l][j], d.value)
      <4>1. CASE l = i
        BY <2>2, <2>5, <3>2, <4>1
      <4>2. CASE l # i
        <5>1. l \in 1 .. i - 1
          BY <1>1, <4>2
        <5> QED
          BY <2>2, <3>2, <5>1 DEF Peeked
      <4> QED
        BY <4>1, <4>2
    <3> QED
      BY <2>2, <3>1, <3>2 DEF Peeked
  <2>6. CASE i # 1 /\ d.val # d.value
    <3>1. e = [d EXCEPT !.call.ok = FALSE, !.returned = TRUE]
      BY <2>1, <2>6 DEF Compared
    <3>2. PICK f : f = [d.call EXCEPT !.ok = FALSE]
      OBVIOUS
    <3>3. /\ f \in Calls /\ SameBuild(d.call, f) /\ SameDesign(d.call, f) /\ f.ok = FALSE
      BY <2>3, <3>2 DEF Calls, Call, SameBuild, SameDesign
    <3>4. e = [d EXCEPT !.call = f, !.returned = TRUE]
      BY <2>3, <3>1, <3>2 DEF Readings
    <3>5. e \in Readings /\ e.call = f
      BY <2>3, <3>3, <3>4 DEF Readings
    <3>6. SameBuild(c, f) /\ SameDesign(c, f)
      BY <2>2, <3>3 DEF Peeking, SameBuild, SameDesign
    <3> QED
      BY <3>3, <3>5, <3>6 DEF Peeked, Peeking
  <2> QED
    BY <2>4, <2>5, <2>6
<1> QED
  BY <1>2, <1>3

\* The copies.
LEMMA AllRead ==
  ASSUME NEW c \in Calls, c.simulator = scenario.simulator, scenario \in Scenarios,
         NEW garbage \in [Bits -> VhdlLogic], NEW e \in backdoor_read_func(c, garbage)
  PROVE  Peeked(c, e, Len(Copies))
<1> DEFINE n == Len(Copies)
           J == [k \in 0 .. n |-> {r \in Readings : Peeked(c, r, k)}]
<1>1. n \in Nat
  BY RegisterFacts
<1>2. PICK start : start = Reading(c, garbage)
  OBVIOUS
<1>3. start \in J[0]
  <2>1. Zeros \in RegValues
    BY DEF Zeros, RegValues, Digits
  <2>2. start \in Readings /\ start.call = c /\ start.returned = FALSE
    BY <1>2, <2>1 DEF Reading, Readings
  <2>3. Peeked(c, start, 0) /\ 0 \in 0 .. n
    BY <1>1, <2>2 DEF Peeked, Peeking, SameBuild, SameDesign
  <2> QED
    BY <2>2, <2>3
<1>4. ASSUME NEW k \in 1 .. n, NEW r \in J[k - 1] PROVE read_copy(r, k) \subseteq J[k]
  <2>1. k - 1 \in 0 .. n /\ k \in 0 .. n
    BY <1>1
  <2>2. Peeked(c, r, k - 1)
    BY <2>1
  <2>3. ASSUME NEW g \in read_copy(r, k) PROVE g \in J[k]
    <3>1. Peeked(c, g, k)
      BY <2>2, <2>3, NextCopyRead
    <3>2. g \in Readings
      BY <3>1 DEF Peeked, Peeking
    <3> QED
      BY <2>1, <3>1, <3>2
  <2> QED
    BY <2>3
<1>5. PICK L : L = J
  OBVIOUS
<1>6. backdoor_read_func(c, garbage) \subseteq L[n]
  <2> HIDE DEF J
  <2> QED
    BY <1>1, <1>2, <1>3, <1>4, <1>5, BackdoorReadLoop
<1>7. L[n] = {r \in Readings : Peeked(c, r, n)}
  BY <1>1, <1>5
<1> QED
  BY <1>6, <1>7
-----------------------------------------------------------------------------
(* The steps. *)

\* A call begins with a record that the C code can work on.
LEMMA Begins ==
  ASSUME BackdoorInv, NEW v \in [Bits -> VhdlLogic]
  PROVE  /\ Begin(v) \in Calls /\ Begin(v).simulator = scenario.simulator
         /\ Begin(v).visible = scenario.visible /\ Begin(v).value = v
         /\ Begin(v).val = val /\ Begin(v).forced = forced /\ Begin(v).partsel = partsel
<1>1. scenario.simulator \in {"vcs", "vcsmx", "questa", "inca"} /\ scenario.visible \in BOOLEAN
  BY ScenarioAssumption DEF BackdoorInv
<1> QED
  BY <1>1 DEF BackdoorInv, Begin, Calls, Call

\* The vectors and the values of the testbench.
LEMMA Inputs ==
  ASSUME NEW s \in Scenarios
  PROVE  /\ s.vectors \subseteq [Bits -> VhdlLogic] /\ s.paths \subseteq Path
         /\ s.ops \subseteq Operations /\ s.pokes \subseteq RegValues
         /\ s.objects \subseteq Objects /\ s.changes \subseteq VhdlLogic
         /\ \A o \in s.objects : Kind[o] = "int" => s.changes \subseteq {"0", "1"}
<1>1. Logic \subseteq VhdlLogic
  BY DEF Logic, VhdlLogic
<1>2. [Bits -> Logic] \subseteq [Bits -> VhdlLogic]
  BY <1>1
<1>3. s.vectors \subseteq [Bits -> Logic]
  BY ScenarioAssumption
<1> QED
  BY <1>2, <1>3, ScenarioAssumption DEF RegValues, Digits

\* The end of a call keeps the invariant.
LEMMA EndInv ==
  ASSUME BackdoorInv, NEW v \in [Bits -> VhdlLogic], NEW d \in Calls,
         SameBuild(Begin(v), d), End(d)
  PROVE  BackdoorInv'
<1>1. d.simulator = scenario.simulator
  BY Begins DEF SameBuild
<1> QED
  BY <1>1 DEF BackdoorInv, End, Calls, Call, Sound, Values

\* What a call of the testbench leaves.
LEMMA Called ==
  ASSUME BackdoorInv, NEW op \in Operations, NEW p \in Path,
         NEW v \in [Bits -> VhdlLogic], hdl(op, p, v)
  PROVE  /\ BackdoorInv'
         /\ call'.op = op /\ call'.path = p /\ call'.given = v
         /\ \E d \in Calls :
              /\ End(d) /\ SameBuild(Begin(v), d) /\ call'.ok = d.ok
              /\ op = "read" => call'.value = d.value
              /\ op = "read" => ReadDone(Begin(v), d, p)
              /\ op \in {"deposit", "force"} => WriteDone(Begin(v), d, p, op)
              /\ op \in {"release", "release_and_read"} =>
                   WriteDone(Begin(v), d, p, "release")
<1>1. PICK d \in Outcomes(op, Begin(v), p) :
        /\ End(d)
        /\ call' = [op |-> op, path |-> p, given |-> v, ok |-> d.ok,
                    value |-> IF op \in {"read", "release_and_read"} THEN d.value ELSE v]
  BY DEF hdl
<1>2. PICK c \in Calls : c = Begin(v) /\ c.simulator = scenario.simulator
  BY Begins
<1>3. /\ d \in Calls /\ SameBuild(c, d)
      /\ op = "read" => ReadDone(c, d, p)
      /\ op \in {"deposit", "force"} => WriteDone(c, d, p, op)
      /\ op \in {"release", "release_and_read"} => WriteDone(c, d, p, "release")
  BY <1>1, <1>2, CallDone
<1>4. BackdoorInv'
  BY <1>1, <1>2, <1>3, EndInv
<1> QED
  BY <1>1, <1>2, <1>3, <1>4

\* What a poke leaves.
LEMMA PokeLeaves ==
  ASSUME BackdoorInv, NEW value \in RegValues, NEW v \in [Bits -> VhdlLogic], poke(value, v)
  PROVE  /\ BackdoorInv' /\ call'.op = "poke" /\ call'.value = value /\ m_mirrored' = value
         /\ \E c \in Calls : \E d :
              /\ c.val = val /\ c.forced = forced /\ End(d)
              /\ call'.ok = d.ok /\ Poked(c, d, value, Slices)
<1>1. PICK d \in backdoor_write(Begin(v), value) :
        End(d) /\ call' = [op |-> "poke", ok |-> d.ok, value |-> value]
  BY DEF poke
<1>2. PICK c \in Calls :
        /\ c = Begin(v) /\ c.simulator = scenario.simulator
        /\ c.val = val /\ c.forced = forced
  BY Begins
<1>3. Poked(c, d, value, Slices)
  BY <1>1, <1>2, AllWritten
<1>4. BackdoorInv'
  BY <1>1, <1>2, <1>3, EndInv DEF Poked
<1> QED
  BY <1>1, <1>2, <1>3, <1>4 DEF poke

\* What a peek leaves.
LEMMA PeekLeaves ==
  ASSUME BackdoorInv, NEW v \in [Bits -> VhdlLogic], peek(v)
  PROVE  /\ BackdoorInv' /\ call'.op = "peek" /\ m_mirrored' = call'.value
         /\ \E c \in Calls : \E r :
              /\ c.val = val /\ End(r.call) /\ call'.ok = r.call.ok
              /\ call'.value = r.value /\ Peeked(c, r, Len(Copies))
<1>1. PICK r \in backdoor_read_func(Begin(v), v) :
        /\ End(r.call) /\ call' = [op |-> "peek", ok |-> r.call.ok, value |-> r.value]
        /\ m_mirrored' = r.value
  BY DEF peek
<1>2. PICK c \in Calls : c = Begin(v) /\ c.simulator = scenario.simulator /\ c.val = val
  BY Begins
<1>3. scenario \in Scenarios
  BY DEF BackdoorInv
<1>4. Peeked(c, r, Len(Copies))
  BY <1>1, <1>2, <1>3, AllRead
<1>5. r.call \in Calls /\ SameBuild(c, r.call)
  BY <1>4 DEF Peeked, Peeking, Readings
<1>6. BackdoorInv'
  BY <1>1, <1>2, <1>5, EndInv
<1> QED
  BY <1>1, <1>2, <1>4, <1>6

\* A change of the design keeps the invariant.
LEMMA ChangeInv ==
  ASSUME BackdoorInv, NEW o \in scenario.objects, NEW b \in 0 .. Size[o] - 1,
         NEW l \in scenario.changes, design_changes(o, b, l)
  PROVE  BackdoorInv'
<1>1. /\ o \in Objects /\ l \in VhdlLogic
      /\ Kind[o] = "int" => l \in {"0", "1"}
  BY Inputs DEF BackdoorInv
<1>2. val[o] \in Values(o)
  BY <1>1 DEF BackdoorInv, Sound
<1>3. PICK w : w = [val[o] EXCEPT ![b] = l]
  OBVIOUS
<1>4. /\ w \in Values(o)
      /\ Kind[o] = "int" => \A k \in 0 .. Size[o] - 1 : w[k] \in {"0", "1"}
  BY <1>1, <1>2, <1>3 DEF Values, BackdoorInv, Sound
<1>5. val' = [val EXCEPT ![o] = w] /\ UNCHANGED <<scenario, forced, partsel, finished>>
  BY <1>3 DEF design_changes
<1>6. val' \in [Objects -> UNION {Values(x) : x \in Objects}]
  BY <1>1, <1>4, <1>5 DEF BackdoorInv
<1>7. Sound(scenario.simulator, val', forced)
  BY <1>1, <1>4, <1>5 DEF BackdoorInv, Sound
<1> QED
  BY <1>5, <1>6, <1>7 DEF BackdoorInv, Sound, Values

\* The invariant holds at first.
LEMMA InitInv == Init => BackdoorInv
<1>1. SUFFICES ASSUME Init PROVE BackdoorInv
  OBVIOUS
<1>2. ASSUME NEW o \in Objects
      PROVE  /\ val[o] \in Values(o)
             /\ Kind[o] = "int" => \A b \in 0 .. Size[o] - 1 : val[o][b] \in {"0", "1"}
             /\ forced[o] = {}
  BY <1>1, <1>2 DEF Init, Values, VhdlLogic
<1>3. val \in [Objects -> UNION {Values(o) : o \in Objects}]
  <2>1. val = [o \in Objects |-> val[o]]
    BY <1>1 DEF Init
  <2> QED
    BY <1>2, <2>1
<1>4. forced \in [Objects -> SUBSET Nat]
  BY <1>1 DEF Init
<1> QED
  BY <1>1, <1>2, <1>3, <1>4 DEF Init, BackdoorInv, Sound

\* Which step was taken.
LEMMA Actions ==
  ASSUME BackdoorInv, Next
  PROVE  \/ \E op \in Operations, p \in Path, v \in [Bits -> VhdlLogic] : hdl(op, p, v)
         \/ \E value \in RegValues, v \in [Bits -> VhdlLogic] : poke(value, v)
         \/ \E v \in [Bits -> VhdlLogic] : peek(v)
         \/ \E o \in scenario.objects : \E b \in 0 .. Size[o] - 1, l \in scenario.changes :
              design_changes(o, b, l)
<1>1. /\ scenario.vectors \subseteq [Bits -> VhdlLogic] /\ scenario.paths \subseteq Path
      /\ scenario.ops \subseteq Operations /\ scenario.pokes \subseteq RegValues
  BY Inputs DEF BackdoorInv
<1>2. CASE \E op \in scenario.ops, p \in scenario.paths, v \in scenario.vectors : hdl(op, p, v)
  BY <1>1, <1>2
<1>3. CASE \E value \in scenario.pokes, v \in scenario.vectors : poke(value, v)
  BY <1>1, <1>3
<1>4. CASE \E v \in scenario.vectors : peek(v)
  BY <1>1, <1>4
<1> QED
  BY <1>2, <1>3, <1>4 DEF Next

\* Every step keeps the invariant.
LEMMA NextInv == BackdoorInv /\ [Next]_vars => BackdoorInv'
<1>1. SUFFICES ASSUME BackdoorInv, [Next]_vars PROVE BackdoorInv'
  OBVIOUS
<1>2. CASE \E op \in Operations, p \in Path, v \in [Bits -> VhdlLogic] : hdl(op, p, v)
  BY <1>1, <1>2, Called
<1>3. CASE \E value \in RegValues, v \in [Bits -> VhdlLogic] : poke(value, v)
  BY <1>1, <1>3, PokeLeaves
<1>4. CASE \E v \in [Bits -> VhdlLogic] : peek(v)
  BY <1>1, <1>4, PeekLeaves
<1>5. CASE \E o \in scenario.objects : \E b \in 0 .. Size[o] - 1, l \in scenario.changes :
             design_changes(o, b, l)
  BY <1>1, <1>5, ChangeInv
<1>6. CASE UNCHANGED vars
  BY <1>1, <1>6 DEF vars, BackdoorInv, Sound, Values
<1> QED
  BY <1>1, <1>2, <1>3, <1>4, <1>5, <1>6, Actions

\* The records of the C code keep their types, the values their ranges, and under
\* Incisive no integer of VHDL is ever forced.
THEOREM Backdoor == Spec => []BackdoorInv
BY InitInv, NextInv, PTL DEF Spec

-----------------------------------------------------------------------------
(* What a testbench expects. *)

\* A step that is a call of the testbench.
LEMMA WhichCall ==
  ASSUME BackdoorInv, Next, NEW op \in Operations, call'.op = op
  PROVE  \E p \in Path, v \in [Bits -> VhdlLogic] : hdl(op, p, v)
<1>1. op # "poke" /\ op # "peek" /\ op # "none"
  BY DEF Operations
<1>2. CASE \E o \in Operations, p \in Path, v \in [Bits -> VhdlLogic] : hdl(o, p, v)
  BY <1>2, Called
<1>3. CASE \E value \in RegValues, v \in [Bits -> VhdlLogic] : poke(value, v)
  BY <1>1, <1>3, PokeLeaves
<1>4. CASE \E v \in [Bits -> VhdlLogic] : peek(v)
  BY <1>1, <1>4, PeekLeaves
<1>5. CASE \E o \in scenario.objects : \E b \in 0 .. Size[o] - 1, l \in scenario.changes :
             design_changes(o, b, l)
  BY <1>1, <1>5 DEF design_changes, NoCall
<1> QED
  BY <1>2, <1>3, <1>4, <1>5, Actions

\* A deposit, a force or a release changes what its path names, and nothing else, whatever
\* the design, the widths and the path, in all four builds.  A Verilog object takes the
\* caller's bits, and where it is wider than the vector what lies behind that; for VHDL
\* objects it is told only of two-state values that fit into a word (Carried).
THEOREM WritesNamed == Spec => WritesThePath
<1>1. ASSUME BackdoorInv, Next,
             call'.op \in {"deposit", "force", "release", "release_and_read"}
      PROVE  Write
  <2>1. PICK op \in Operations : op = call'.op
    BY <1>1 DEF Operations
  <2>2. PICK p \in Path, v \in [Bits -> VhdlLogic] : hdl(op, p, v)
    BY <1>1, <2>1, WhichCall
  <2>3. PICK flag \in Flags :
          flag = IF op \in {"release", "release_and_read"} THEN "release" ELSE op
    BY <1>1, <2>1 DEF Flags
  <2>4. PICK d \in Calls :
          End(d) /\ call'.ok = d.ok /\ WriteDone(Begin(v), d, p, flag)
    BY <1>1, <2>1, <2>2, <2>3, Called
  <2>5. call'.op = op /\ call'.path = p /\ call'.given = v
    BY <1>1, <2>2, Called
  <2>6. Writes(Begin(v), d, p, flag)
    BY <2>4 DEF WriteDone
  <2>7. Begin(v).value = v /\ Begin(v).val = val /\ Begin(v).forced = forced
    BY <1>1, Begins
  <2>8. val' = d.val /\ forced' = d.forced
    BY <2>4 DEF End
  <2>9. \A x \in Objects : DOMAIN val[x] = 0 .. Size[x] - 1
    BY <1>1 DEF BackdoorInv, Sound, Values
  <2>10. \A x \in Objects, b \in 0 .. Memory - 1 :
           b \in DOMAIN val[x] /\ (x # p.object \/ b \notin Named(p)) =>
             val'[x][b] = val[x][b] /\ (b \in forced'[x] <=> b \in forced[x])
    BY <2>6, <2>7, <2>8, <2>9 DEF Writes
  <2>11. ASSUME Carried(p.object, v), NEW b \in Named(p)
         PROVE  IF d.ok
                THEN CASE flag = "deposit" ->
                            /\ val'[p.object][b] = IF b \in forced[p.object]
                                                   THEN val[p.object][b] ELSE v[Is(b, p)]
                            /\ b \in forced'[p.object] <=> b \in forced[p.object]
                       [] flag = "force" ->
                            val'[p.object][b] = v[Is(b, p)] /\ b \in forced'[p.object]
                       [] OTHER ->
                            val'[p.object][b] = val[p.object][b] /\ b \notin forced'[p.object]
                ELSE val'[p.object][b] \in {val[p.object][b], v[Is(b, p)]}
    BY <2>6, <2>7, <2>8, <2>11 DEF Writes
  <2>12. /\ op = "deposit" <=> flag = "deposit"
         /\ op = "force" <=> flag = "force"
    BY <2>3
  <2> QED
    BY <2>4, <2>5, <2>10, <2>11, <2>12 DEF Write
<1>2. BackdoorInv /\ [Next]_vars => [Write]_vars
  BY <1>1 DEF Write
<1> QED
  BY <1>2, Backdoor, PTL DEF Spec, WritesThePath

\* The call behind a step that is a read.
LEMMA WhichRead ==
  ASSUME BackdoorInv, Next, call'.op = "read"
  PROVE  \E c \in Calls, d \in Calls, p \in Path :
           /\ c.simulator = scenario.simulator /\ c.visible = scenario.visible
           /\ c.val = val /\ c.forced = forced /\ c.partsel = partsel
           /\ call'.path = p /\ call'.ok = d.ok /\ call'.value = d.value
           /\ val' = d.val /\ forced' = d.forced /\ ReadDone(c, d, p)
<1>1. "read" \in Operations
  BY DEF Operations
<1>2. PICK p \in Path, v \in [Bits -> VhdlLogic] : hdl("read", p, v)
  BY <1>1, WhichCall
<1>3. PICK d \in Calls : /\ End(d) /\ call'.ok = d.ok /\ call'.value = d.value
                         /\ ReadDone(Begin(v), d, p)
  BY <1>1, <1>2, Called
<1>4. call'.path = p
  BY <1>1, <1>2, Called
<1>5. val' = d.val /\ forced' = d.forced
  BY <1>3 DEF End
<1>6. PICK c \in Calls :
        /\ c = Begin(v) /\ c.simulator = scenario.simulator /\ c.visible = scenario.visible
        /\ c.val = val /\ c.forced = forced /\ c.partsel = partsel
  BY Begins
<1> QED
  BY <1>3, <1>4, <1>5, <1>6

\* A read that succeeds returns the bits that its path names and leaves the design alone,
\* whatever was in the vector and whatever the earlier calls left.
THEOREM ReadsNamed == Spec => ReadsThePath
<1>1. ASSUME BackdoorInv, Next, call'.op = "read"
      PROVE  Read
  <2>1. PICK c \in Calls, d \in Calls, p \in Path :
          /\ c.simulator = scenario.simulator /\ c.val = val /\ c.forced = forced
          /\ call'.path = p /\ call'.ok = d.ok /\ call'.value = d.value
          /\ val' = d.val /\ forced' = d.forced /\ ReadDone(c, d, p)
    BY <1>1, WhichRead
  <2>2. Reads(c, d, p)
    BY <2>1 DEF ReadDone
  <2>3. val' = val /\ forced' = forced
    BY <2>1, <2>2 DEF Reads, SameDesign
  <2> QED
    BY <2>1, <2>2, <2>3 DEF Read, Reads
<1>2. BackdoorInv /\ [Next]_vars => [Read]_vars
  BY <1>1 DEF Read
<1> QED
  BY <1>2, Backdoor, PTL DEF Spec, ReadsThePath

\* Above the value that was read nothing is left of an earlier one, up to the last word, where
\* the vector is cleared first.
THEOREM VectorsClean == Spec => NoLeftovers
<1>1. ASSUME BackdoorInv, Next, call'.op = "read"
      PROVE  CleanRead
  <2>1. PICK c \in Calls, d \in Calls, p \in Path :
          /\ c.simulator = scenario.simulator /\ c.visible = scenario.visible
          /\ c.partsel = partsel
          /\ call'.path = p /\ call'.ok = d.ok /\ call'.value = d.value
          /\ ReadDone(c, d, p)
    BY <1>1, WhichRead
  <2>2. Clean(c, d, p)
    BY <2>1 DEF ReadDone
  <2> QED
    BY <2>1, <2>2 DEF CleanRead, Clears, Clean
<1>2. BackdoorInv /\ [Next]_vars => [CleanRead]_vars
  BY <1>1 DEF CleanRead
<1> QED
  BY <1>2, Backdoor, PTL DEF Spec, NoLeftovers

\* A poke and a peek that succeed leave every HDL copy of the register with its value, for
\* every register whose HDL paths fit it, however it is cut into slices.
THEOREM RegisterCopies ==
  ASSUME WellMapped PROVE Spec => CopiesAgree
<1>1. ASSUME BackdoorInv, Next, call'.op \in {"poke", "peek"}, call'.ok
      PROVE  RegisterStep
  <2>1. CASE \E o \in Operations, p \in Path, v \in [Bits -> VhdlLogic] : hdl(o, p, v)
    <3>1. "poke" \notin Operations /\ "peek" \notin Operations
      BY DEF Operations
    <3> QED
      BY <1>1, <2>1, <3>1, Called
  <2>2. CASE \E o \in scenario.objects : \E b \in 0 .. Size[o] - 1, l \in scenario.changes :
               design_changes(o, b, l)
    BY <1>1, <2>2 DEF design_changes, NoCall
  <2>3. CASE \E value \in RegValues, v \in [Bits -> VhdlLogic] : poke(value, v)
    <3>1. PICK value \in RegValues, v \in [Bits -> VhdlLogic] : poke(value, v)
      BY <2>3
    <3>2. PICK c \in Calls : \E d :
            /\ c.val = val /\ c.forced = forced /\ End(d)
            /\ call'.ok = d.ok /\ Poked(c, d, value, Slices)
      BY <1>1, <3>1, PokeLeaves
    <3>3. PICK d : /\ c.val = val /\ c.forced = forced /\ End(d)
                   /\ call'.ok = d.ok /\ Poked(c, d, value, Slices)
      BY <3>2
    <3>4. Written(c, d, value, Slices) /\ val' = d.val
      BY <1>1, <3>3 DEF Poked, End
    <3>5. ASSUME NEW i \in DOMAIN Copies, NEW j \in DOMAIN Copies[i],
                 NEW b \in Named(Copies[i][j].path)
          PROVE  \/ TwoState(val'[Copies[i][j].path.object][b]) = value[Place(Copies[i][j], b)]
                 \/ b \in forced[Copies[i][j].path.object]
      <4>1. PICK s \in Slices : s = Copies[i][j]
        BY DEF Slices
      <4>2. val'[s.path.object][b] = value[Place(s, b)] \/ b \in forced[s.path.object]
        BY <3>3, <3>4, <4>1 DEF Written
      <4>3. Place(s, b) \in 0 .. RegBits - 1
        BY <1>1, <4>1, PlaceFacts DEF WellMapped
      <4>4. value[Place(s, b)] \in {"0", "1"}
        BY <4>3 DEF RegValues, Digits
      <4> QED
        BY <4>1, <4>2, <4>4 DEF TwoState
    <3>6. call'.op = "poke" /\ call'.value = value /\ m_mirrored' = value
      BY <1>1, <3>1, PokeLeaves
    <3> QED
      BY <3>5, <3>6 DEF RegisterStep
  <2>4. CASE \E v \in [Bits -> VhdlLogic] : peek(v)
    <3>1. PICK v \in [Bits -> VhdlLogic] : peek(v)
      BY <2>4
    <3>2. PICK c \in Calls : \E r :
            /\ c.val = val /\ End(r.call) /\ call'.ok = r.call.ok
            /\ call'.value = r.value /\ Peeked(c, r, Len(Copies))
      BY <1>1, <3>1, PeekLeaves
    <3>3. PICK r : /\ c.val = val /\ End(r.call) /\ call'.ok = r.call.ok
                   /\ call'.value = r.value /\ Peeked(c, r, Len(Copies))
      BY <3>2
    <3>4. val' = val
      BY <3>3 DEF End, Peeked, Peeking, SameDesign
    <3>5. ASSUME NEW i \in DOMAIN Copies, NEW j \in DOMAIN Copies[i],
                 NEW b \in Named(Copies[i][j].path)
          PROVE  TwoState(val'[Copies[i][j].path.object][b]) = r.value[Place(Copies[i][j], b)]
      <4>1. i \in 1 .. Len(Copies)
        BY RegisterAssumption
      <4>2. j \in 1 .. Len(Copies[i])
        BY <4>1, RegisterFacts
      <4>3. Holds(c, Copies[i][j], r.value)
        BY <1>1, <3>3, <4>1, <4>2 DEF Peeked
      <4> QED
        BY <3>3, <3>4, <4>3 DEF Holds
    <3>6. m_mirrored' = call'.value
      BY <1>1, <3>1, PeekLeaves
    <3> QED
      BY <3>3, <3>5, <3>6 DEF RegisterStep
  <2> QED
    BY <1>1, <2>1, <2>2, <2>3, <2>4, Actions
<1>2. BackdoorInv /\ [Next]_vars => [RegisterStep]_vars
  BY <1>1 DEF RegisterStep
<1> QED
  BY <1>2, Backdoor, PTL DEF Spec, CopiesAgree
=============================================================================
