--------------------------- MODULE HdlProperties ---------------------------
(***************************************************************************)
(* What a testbench expects of the back door, as far as the three back     *)
(* ends deliver it.                                                        *)
(***************************************************************************)
EXTENDS Hdl

\* The bits of its object that a path names, and where a vector has them.
Named(p) == ((p.lhs .. p.rhs) \union (p.rhs .. p.lhs)) \intersect 0 .. Size[p.object] - 1
Is(b, p) == IF b >= p.rhs THEN b - p.rhs ELSE p.rhs - b

\* VHDL objects keep their values only if these are two-state and fit into a word;
\* under VCSMX the sign bit of the word must be free, too, and not set.
Fits(o) == Size[o] <= Word /\ (scenario.simulator = "vcsmx" => Size[o] < Word)
Carried(o, v) ==
  \/ Kind[o] = "verilog"
  \/ /\ Fits(o)
     /\ \A k \in 0 .. Word - 1 : v[k] \in {"0", "1"}
     /\ scenario.simulator = "vcsmx" => v[Word - 1] = "0"
Shown(o, l) ==
  IF Kind[o] = "verilog" \/ (scenario.simulator = "vcsmx" /\ l = "1") THEN l
  ELSE IF scenario.simulator = "vcsmx" \/ Kind[o] = "int" THEN TwoState(l)
  ELSE Folded(l)

\* A step with a call that writes.
Write ==
  LET p == call'.path
      o == p.object
      new(b) == call'.given[Is(b, p)]
  IN  call'.op \in {"deposit", "force", "release", "release_and_read"} =>
        /\ \A x \in Objects, b \in 0 .. Memory - 1 :
             b \in DOMAIN val[x] /\ (x # o \/ b \notin Named(p)) =>
               val'[x][b] = val[x][b] /\ (b \in forced'[x] <=> b \in forced[x])
        /\ Carried(o, call'.given) => \A b \in Named(p) :
             IF call'.ok
             THEN CASE call'.op = "deposit" ->
                         /\ val'[o][b] = IF b \in forced[o] THEN val[o][b] ELSE new(b)
                         /\ b \in forced'[o] <=> b \in forced[o]
                    [] call'.op = "force" -> val'[o][b] = new(b) /\ b \in forced'[o]
                    [] OTHER -> val'[o][b] = val[o][b] /\ b \notin forced'[o]
             ELSE val'[o][b] \in {val[o][b], new(b)}

(***************************************************************************)
(* A write through a path stores the caller's bits at the bits that the    *)
(* path names, in the order of the slice, whichever way the back end takes *)
(* the slice apart (uvm_hdl_set_vlog_partsel); of a path that is wider     *)
(* than the vector the rest is what lies behind the vector, as no put      *)
(* looks at the width.  Nothing else in the design changes, also if the    *)
(* call fails in the middle of a slice, when each bit has its old value or *)
(* the new one.  A force holds until its release.  What is stored in a     *)
(* VHDL object is told only for two-state values within a word (Carried).  *)
(***************************************************************************)
WritesThePath == [][Write]_vars

\* A step with a call that reads.
Read ==
  LET p == call'.path
      o == p.object
  IN  call'.op = "read" /\ call'.ok /\ (Kind[o] = "verilog" \/ Fits(o))
        /\ ~(scenario.simulator = "vcsmx" /\ Vcs!mhpiPliP(p) = "none") =>
         /\ \A b \in Named(p) : call'.value[Is(b, p)] = Shown(o, val[o][b])
         /\ UNCHANGED <<val, forced>>

(***************************************************************************)
(* A read that succeeds returns the bits that the path names, in the order *)
(* of the slice, whatever was in the caller's vector and whatever earlier  *)
(* calls left in the statics of the back end.  (Names that were not found  *)
(* are excluded under VCSMX, where such a read has no return statement,    *)
(* and VHDL objects of more than a word, which Incisive returns with the   *)
(* words in the wrong order.)                                              *)
(***************************************************************************)
ReadsThePath == [][Read]_vars

(***************************************************************************)
(* What uvm_hdl.svh says of the calls without these exceptions.            *)
(***************************************************************************)
Access(ops) == call'.op \in ops /\ call'.ok

\* UVM_HDL_MAX_WIDTH "sets the maximum size bit vector for backdoor access": no call
\* gets through a path that is wider. A put does, with what lies behind the vector.
WithinMaxWidth ==
  [][Access(Operations \ {"check_path"}) => width(call'.path) <= MaxWidth]_vars

\* uvm_hdl_deposit "sets the given HDL path to the specified value". A VHDL object gets
\* what an index of && and || makes of its bits (uvm_hdl_inca.c:275).
DepositSets ==
  [][Access({"deposit"}) =>
       LET p == call'.path
       IN  \A b \in Named(p) \ forced[p.object] :
             val'[p.object][b] = call'.given[Is(b, p)]]_vars

\* uvm_hdl_read "gets the value at the given path", here as the four values that a vector
\* has. Of a VHDL object of two words the words come back exchanged (uvm_hdl_inca.c:527).
ReadGets ==
  [][Access({"read"}) =>
       LET p == call'.path
       IN  \A b \in Named(p) : call'.value[Is(b, p)] = Folded(val[p.object][b])]_vars

\* After uvm_hdl_release_and_read "value is set to the HDL value after the release". For
\* a slice the bits that come back stay in a local (uvm_hdl_questa.c:97).
ReleaseReads ==
  [][Access({"release_and_read"}) =>
       LET p == call'.path
       IN  \A b \in Named(p) : call'.value[Is(b, p)] = Folded(val'[p.object][b])]_vars

\* Whether the back end clears the vector before it reads.
Clears(p) == \/ scenario.simulator = "questa" /\ ~partsel
             \/ scenario.simulator = "inca" /\ p.select = "slice"

\* A step with a read into a vector that is cleared first.
CleanRead ==
  call'.op = "read" /\ call'.ok /\ scenario.visible /\ Clears(call'.path) =>
    \A k \in width(call'.path) .. (chunks(MaxWidth) - 1) * Word - 1 :
      call'.value[k] = "0"

(***************************************************************************)
(* Nothing of an earlier vector is left above the value that was read, up  *)
(* to the last word, where the back end clears the vector first: Questa,   *)
(* unless a slice that failed has left partsel set, and Incisive for       *)
(* slices, if UVM_HDL_MAX_WIDTH is visible.                                *)
(***************************************************************************)
NoLeftovers == [][CleanRead]_vars

\* The places of the value of the register that a slice takes, and that of a bit.
Taken(slice) == IF slice.offset < 0 THEN 0 .. RegBits - 1
                ELSE slice.offset .. slice.offset + slice.size - 1
Place(slice, b) == (IF slice.offset < 0 THEN 0 ELSE slice.offset) + Is(b, slice.path)

\* A step with a poke or a peek.
RegisterStep ==
  call'.op \in {"poke", "peek"} /\ call'.ok =>
    /\ m_mirrored' = call'.value
    /\ \A i \in DOMAIN Copies : \A j \in DOMAIN Copies[i] :
         LET slice == Copies[i][j]
             o == slice.path.object
         IN  \A b \in Named(slice.path) :
               \/ TwoState(val'[o][b]) = call'.value[Place(slice, b)]
               \/ call'.op = "poke" /\ b \in forced[o]

(***************************************************************************)
(* A poke that succeeds leaves the value in every HDL copy of the          *)
(* register, but for bits under a force; a peek that succeeds returns what *)
(* every copy holds, as two-state bits.  Both move the mirror with them    *)
(* (backdoor_write, backdoor_read_func, poke, peek).                       *)
(***************************************************************************)
CopiesAgree == [][RegisterStep]_vars

(***************************************************************************)
(* The HDL paths for which a testbench may expect that, as nothing checks  *)
(* what add_hdl_path is given: slices of Verilog variables that are there  *)
(* and fit into their part of the register; a bit of the design has one    *)
(* place in the register; the slices of a copy share no place.             *)
(***************************************************************************)
Slices == UNION {{Copies[i][j] : j \in DOMAIN Copies[i]} : i \in DOMAIN Copies}
FitsItsPlaces(slice) ==
  LET p == slice.path
  IN  /\ Kind[p.object] = "verilog" /\ InRange(p)
      /\ p.root => \A s \in Scenarios : s.simulator # "vcsmx"
      /\ Taken(slice) \subseteq 0 .. RegBits - 1
      /\ width(p) <= IF slice.offset < 0 THEN RegBits ELSE slice.size
WellMapped ==
  /\ \A s \in Slices : FitsItsPlaces(s)
  /\ \A s, t \in Slices : s.path.object = t.path.object =>
       \A b \in Named(s.path) \intersect Named(t.path) : Place(s, b) = Place(t, b)
  /\ \A i \in DOMAIN Copies : \A j, k \in DOMAIN Copies[i] :
       j # k => Taken(Copies[i][j]) \intersect Taken(Copies[i][k]) = {}

-----------------------------------------------------------------------------
(***************************************************************************)
(* The inductive invariant behind these.  An integer of VHDL holds digits, *)
(* and Incisive refuses to force one.                                      *)
(***************************************************************************)
Values(o) == [0 .. Size[o] - 1 -> VhdlLogic]
Sound(simulator, v, f) ==
  \A o \in Objects :
    /\ v[o] \in Values(o)
    /\ Kind[o] = "int" => /\ \A b \in 0 .. Size[o] - 1 : v[o][b] \in {"0", "1"}
                          /\ simulator = "inca" => f[o] = {}

\* The records that the C code works on.
Call == [simulator : {"vcs", "vcsmx", "questa", "inca"}, visible : BOOLEAN,
         val : [Objects -> UNION {Values(o) : o \in Objects}],
         forced : [Objects -> SUBSET Nat], partsel : BOOLEAN, value : [Bits -> VhdlLogic],
         ok : BOOLEAN, reported : BOOLEAN, finished : BOOLEAN]
Calls == {c \in Call : Sound(c.simulator, c.val, c.forced)}

BackdoorInv ==
  /\ scenario \in Scenarios
  /\ val \in [Objects -> UNION {Values(o) : o \in Objects}]
  /\ forced \in [Objects -> SUBSET Nat]
  /\ partsel \in BOOLEAN /\ finished \in BOOLEAN
  /\ Sound(scenario.simulator, val, forced)
=============================================================================
