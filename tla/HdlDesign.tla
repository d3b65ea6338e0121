----------------------------- MODULE HdlDesign -----------------------------
(***************************************************************************)
(* The design as a simulator shows it to the back-door C code, through     *)
(* VPI, VHPI and the mixed-language interface.  The simulator is external: *)
(* this is how src/dpi/uvm_hdl_*.c uses it.                                *)
(*                                                                         *)
(* A call of the C code works on a record: the design (val, forced), the   *)
(* caller's vector with what lies behind it, the statics of the C code,    *)
(* and the outcome so far.                                                 *)
(***************************************************************************)
EXTENDS Integers

CONSTANTS Objects,      \* the variables of the design
          Size,         \* their sizes in bits
          Kind,         \* "verilog", or the VHPI format "enum", "enumvec", "int"
          Word,         \* the bits of one s_vpi_vecval; 32
          MaxWidth,     \* UVM_HDL_MAX_WIDTH, the size of uvm_hdl_data_t
          DefaultWidth, \* what is assumed if VPI does not show that parameter; 1024
          Memory        \* how many bits are looked at from the start of a vector on

ASSUME DesignAssumption ==
  /\ Word \in Nat \ {0} /\ Memory \in Nat \ {0}
  /\ {MaxWidth, DefaultWidth} \subseteq 1..Memory
  /\ Size \in [Objects -> 1..Memory]
  /\ Kind \in [Objects -> {"verilog", "enum", "enumvec", "int"}]
  /\ \A o \in Objects : Kind[o] = "enum" => Size[o] = 1

chunks(size) == (size - 1) \div Word + 1

\* The places of a vector, and those with what lies behind it in memory: nothing keeps
\* a put, or a width that is only assumed, from going there.  What the aval and bval
\* bits of a place say together.
Vector == 0 .. chunks(MaxWidth) * Word - 1
Bits == 0 .. chunks(Memory) * Word - 1
Logic == {"0", "1", "X", "Z"}
aval(l) == l \in {"1", "X"}
bval(l) == l \in {"X", "Z"}

\* std_logic as the C code folds it into four values.
VhdlLogic == {"U", "X", "0", "1", "Z", "W", "L", "H", "-"}
Folded(l) == CASE l \in {"U", "W", "X"} -> "X" [] l = "Z" -> "Z"
               [] l \in {"0", "L", "-"} -> "0" [] l \in {"1", "H"} -> "1"

(***************************************************************************)
(* A path names an object, one bit of it or a slice [lhs:rhs], perhaps     *)
(* after "$root.".  Bit 0 of a vector belongs to index rhs.                *)
(***************************************************************************)
Path == {p \in [object : Objects, root : BOOLEAN, select : {"none", "bit", "slice"},
                lhs : Nat, rhs : Nat] :
           /\ p.select = "none" => p.lhs = Size[p.object] - 1 /\ p.rhs = 0
           /\ p.select = "bit" => p.lhs = p.rhs}

width(p) == IF p.lhs > p.rhs THEN p.lhs - p.rhs + 1 ELSE p.rhs - p.lhs + 1
index(p, i) == IF p.lhs > p.rhs THEN p.rhs + i ELSE p.rhs - i
bit(p, i) == [p EXCEPT !.select = "bit", !.lhs = index(p, i), !.rhs = index(p, i)]
InRange(p) == {p.lhs, p.rhs} \subseteq 0 .. Size[p.object] - 1

\* The first n bits of a vector, at the indexes that p gives them.
FirstBits(v, p, n) ==
  [b \in {index(p, i) : i \in 0 .. n - 1} |->
     v[IF b >= p.rhs THEN b - p.rhs ELSE p.rhs - b]]

\* A put: a forced bit ignores a deposit; a variable that is released keeps its
\* value until the design changes it.
Put(c, o, new, flag) ==
  LET stored == IF flag = "deposit" THEN DOMAIN new \ c.forced[o]
                ELSE IF flag = "force" THEN DOMAIN new ELSE {}
  IN  [c EXCEPT !.val[o] = [b \in DOMAIN @ |-> IF b \in stored THEN new[b] ELSE @[b]],
                !.forced[o] = CASE flag = "force" -> @ \union DOMAIN new
                                [] flag = "release" -> @ \ DOMAIN new
                                [] OTHER -> @]

\* vpi_get_value fills the last word with zeros.
vpi_get_value(c, p) ==
  [i \in 0 .. chunks(width(p)) * Word - 1 |->
     IF i < width(p) THEN c.val[p.object][index(p, i)] ELSE "0"]

Copy(c, words) ==
  [c EXCEPT !.value = [k \in Bits |-> IF k \in DOMAIN words THEN words[k] ELSE @[k]]]
Zero(c, n) == Copy(c, [k \in 0 .. n * Word - 1 |-> "0"])

\* A release hands the value back through the vector that it was given.
vpi_put_value(c, p, flag) ==
  LET d == Put(c, p.object, FirstBits(c.value, p, width(p)), flag)
  IN  IF flag = "release" THEN Copy(d, vpi_get_value(d, p)) ELSE d

\* How a call ends: 1; 0 with an error; 0 without a word; tf_dofinish.
Succeed(c) == [c EXCEPT !.ok = TRUE]
Fail(c) == [c EXCEPT !.ok = FALSE, !.reported = TRUE]
Refuse(c) == [c EXCEPT !.ok = FALSE]
Finish(c) == [c EXCEPT !.reported = TRUE, !.finished = TRUE]
=============================================================================
