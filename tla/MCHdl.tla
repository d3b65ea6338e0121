------------------------------- MODULE MCHdl -------------------------------
(***************************************************************************)
(* Words of two bits and vectors of three words: a register of three bits  *)
(* and a second copy of it, a variable that is wider than a vector, and a  *)
(* VHDL signal of each kind.                                               *)
(***************************************************************************)
EXTENDS HdlProperties

McObjects == {"reg", "copy", "huge", "wide", "one", "bit", "num"}
McSize == [reg |-> 3, copy |-> 3, huge |-> 8, wide |-> 3, one |-> 1, bit |-> 1, num |-> 2]
McKind == [reg |-> "verilog", copy |-> "verilog", huge |-> "verilog", wide |-> "enumvec", one |-> "enumvec",
           bit |-> "enum", num |-> "int"]
McWord == 2
McMaxWidth == 6
McDefaultWidth == 8
McMemory == 8
McRegBits == 3

P(o, root, select, lhs, rhs) ==
  [object |-> o, root |-> root, select |-> select, lhs |-> lhs, rhs |-> rhs]
Whole(o) == P(o, FALSE, "none", McSize[o] - 1, 0)

\* Slices in both directions, one that reaches beyond the object on either side,
\* a bit that is there and one that is not, and a name with a root.
McPaths ==
  {Whole("reg"), P("reg", TRUE, "none", 2, 0),
   P("reg", FALSE, "bit", 1, 1), P("reg", FALSE, "bit", 3, 3),
   P("reg", FALSE, "slice", 2, 1), P("reg", FALSE, "slice", 0, 1),
   P("reg", FALSE, "slice", 3, 2), P("reg", FALSE, "slice", 1, 3)}

\* One copy in two slices, the other as a whole.
McCopies ==
  << <<[path |-> P("reg", FALSE, "slice", 2, 1), offset |-> 1, size |-> 2],
       [path |-> P("reg", FALSE, "bit", 0, 0), offset |-> 0, size |-> 1]>>,
     <<[path |-> Whole("copy"), offset |-> -1, size |-> 3]>> >>

Vec(a, b, c, rest) ==
  [k \in 0 .. 7 |-> CASE k = 0 -> a [] k = 1 -> b [] k = 2 -> c [] OTHER -> rest]
McVectors == {Vec("1", "0", "0", "1"), Vec("0", "X", "1", "Z")}

S(simulator, visible, ops, paths, vectors, pokes, objects, changes) ==
  [simulator |-> simulator, visible |-> visible, ops |-> ops, paths |-> paths,
   vectors |-> vectors, pokes |-> pokes, objects |-> objects, changes |-> changes]

\* The calls on Verilog names, on VHDL names, and the register.
Verilog == {S(s, v, IF v THEN Operations ELSE {"deposit", "read"}, McPaths, McVectors, {},
              {"reg"}, {"1"}) :
              s \in {"vcs", "vcsmx", "questa", "inca"}, v \in BOOLEAN}
Vhdl == {S(s, v, Operations, {Whole(o), P(o, TRUE, "none", McSize[o] - 1, 0)},
           McVectors \union {Vec("1", "0", "1", "0"), Vec("1", "1", "Z", "Z")},
           {}, {o}, CASE o = "num" -> {"0", "1"}
             [] o = "wide" -> {"0", "1", "-"} [] OTHER -> VhdlLogic) :
           s \in {"vcsmx", "inca"}, v \in BOOLEAN, o \in {"wide", "one", "bit", "num"}}
Register == {S(s, v, {"force", "release"}, {Whole("copy")}, McVectors,
               {[k \in 0 .. 2 |-> IF k = i THEN "1" ELSE "0"] : i \in 0 .. 3}, {"reg"}, {"1", "X"}) :
               s \in {"vcs", "vcsmx", "questa", "inca"}, v \in BOOLEAN}
Huge == {S(s, v, IF v THEN Operations ELSE {"deposit", "read"},
           {Whole("huge"), P("huge", FALSE, "slice", 0, 7)}, McVectors, {}, {}, {}) :
           s \in {"vcs", "vcsmx", "questa", "inca"}, v \in BOOLEAN}
McScenarios == Verilog \union Vhdl \union Register \union Huge

\* One back end and one kind of object each: with these what uvm_hdl.svh says without
\* exceptions fails (WithinMaxWidth, DepositSets, ReadGets, ReleaseReads).
McHuge == {s \in Huge : s.simulator = "vcs" /\ s.visible}
McWide == {s \in Vhdl : s.simulator = "inca" /\ s.visible /\ s.objects = {"wide"}}
McReads == {[s EXCEPT !.ops = {"read"}] : s \in McWide}
McSlices == {s \in Verilog : s.simulator = "questa" /\ s.visible}

\* The register of this instance is one that CopiesAgree is proved for.
ASSUME McWellMapped == WellMapped

=============================================================================
