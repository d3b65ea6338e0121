-------------------------------- MODULE Hdl --------------------------------
(***************************************************************************)
(* Back-door access: src/dpi/uvm_hdl.c takes the back end of the simulator *)
(* it is compiled for; the testbench calls it (uvm_hdl.svh), by itself and *)
(* from the registers (reg/uvm_reg.svh), while the design runs.  A call    *)
(* takes no simulation time and is one action.                             *)
(***************************************************************************)
EXTENDS HdlDesign, Sequences

CONSTANTS Scenarios,  \* what a testbench is compiled for and what it does: see Init
          Copies,     \* the HDL copies of a register, each a sequence of slices
          RegBits     \* m_n_bits

Operations == {"check_path", "deposit", "force", "read", "release", "release_and_read"}

ASSUME ScenarioAssumption ==
  \A s \in Scenarios :
    /\ s.simulator \in {"vcs", "vcsmx", "questa", "inca"} /\ s.visible \in BOOLEAN
    /\ s.ops \subseteq Operations /\ s.paths \subseteq Path
    /\ s.vectors \subseteq [Bits -> Logic]
    /\ s.pokes \subseteq [0 .. RegBits - 1 -> {"0", "1"}]
    /\ s.objects \subseteq Objects /\ s.changes \subseteq VhdlLogic
    /\ \A o \in s.objects : Kind[o] = "int" => s.changes \subseteq {"0", "1"}

\* A register that is peeked or poked has an HDL path (has_hdl_path).
Slice == [path : Path, offset : Int, size : Nat]
ASSUME RegisterAssumption ==
  /\ RegBits \in 1 .. MaxWidth
  /\ Copies \in Seq(Seq(Slice)) /\ Copies # <<>>

VARIABLES scenario,   \* simulator, visible (of UVM_HDL_MAX_WIDTH), paths, vectors, pokes
          val,        \* the values of the objects
          forced,     \* their bits that are under a force
          partsel,    \* the static of the Questa back end
          finished,   \* tf_dofinish: the run is over
          m_mirrored, \* the mirrored value of the register
          call        \* the last call and what it returned

vars == <<scenario, val, forced, partsel, finished, m_mirrored, call>>

Vcs == INSTANCE HdlVcs
Questa == INSTANCE HdlQuesta
Inca == INSTANCE HdlInca

uvm_hdl_deposit(c, p) ==
  CASE c.simulator \in {"vcs", "vcsmx"} -> Vcs!uvm_hdl_deposit(c, p)
    [] c.simulator = "questa" -> Questa!uvm_hdl_deposit(c, p)
    [] c.simulator = "inca" -> Inca!uvm_hdl_deposit(c, p)

uvm_hdl_read(c, p) ==
  CASE c.simulator \in {"vcs", "vcsmx"} -> Vcs!uvm_hdl_read(c, p)
    [] c.simulator = "questa" -> Questa!uvm_hdl_read(c, p)
    [] c.simulator = "inca" -> Inca!uvm_hdl_read(c, p)

Outcomes(op, c, p) ==
  CASE op = "deposit" -> uvm_hdl_deposit(c, p)
    [] op = "read" -> uvm_hdl_read(c, p)
    [] op = "check_path" ->
         (CASE c.simulator \in {"vcs", "vcsmx"} -> {Vcs!uvm_hdl_check_path(c, p)}
            [] c.simulator = "questa" -> {Questa!uvm_hdl_check_path(c, p)}
            [] c.simulator = "inca" -> {Inca!uvm_hdl_check_path(c, p)})
    [] op = "force" ->
         (CASE c.simulator \in {"vcs", "vcsmx"} -> Vcs!uvm_hdl_force(c, p)
            [] c.simulator = "questa" -> Questa!uvm_hdl_force(c, p)
            [] c.simulator = "inca" -> Inca!uvm_hdl_force(c, p))
    [] op = "release" ->
         (CASE c.simulator \in {"vcs", "vcsmx"} -> Vcs!uvm_hdl_release(c, p)
            [] c.simulator = "questa" -> Questa!uvm_hdl_release(c, p)
            [] c.simulator = "inca" -> Inca!uvm_hdl_release(c, p))
    [] op = "release_and_read" ->
         (CASE c.simulator \in {"vcs", "vcsmx"} -> Vcs!uvm_hdl_release_and_read(c, p)
            [] c.simulator = "questa" -> Questa!uvm_hdl_release_and_read(c, p)
            [] c.simulator = "inca" -> Inca!uvm_hdl_release_and_read(c, p))

\* A call begins with the caller's vector, and ends in the variables.
Begin(v) ==
  [simulator |-> scenario.simulator, visible |-> scenario.visible, val |-> val,
   forced |-> forced, partsel |-> partsel, value |-> v, ok |-> TRUE,
   reported |-> FALSE, finished |-> FALSE]

End(c) ==
  /\ val' = c.val
  /\ forced' = c.forced
  /\ partsel' = c.partsel
  /\ finished' = c.finished
  /\ UNCHANGED scenario

NoCall == [op |-> "none"]
Init ==
  /\ scenario \in Scenarios
  /\ val = [o \in Objects |-> [b \in 0 .. Size[o] - 1 |->
                                 IF Kind[o] = "verilog" THEN "X"
                                 ELSE IF Kind[o] = "int" THEN "0" ELSE "U"]]
  /\ forced = [o \in Objects |-> {}]
  /\ partsel = FALSE
  /\ finished = FALSE
  /\ m_mirrored = [k \in 0 .. RegBits - 1 |-> "0"]
  /\ call = NoCall

\* A call of the testbench.  An argument that is only put in comes back as it was.
hdl(op, p, v) ==
  /\ ~finished
  /\ \E c \in Outcomes(op, Begin(v), p) :
       /\ End(c)
       /\ call' = [op |-> op, path |-> p, given |-> v, ok |-> c.ok,
                   value |-> IF op \in {"read", "release_and_read"} THEN c.value ELSE v]
  /\ UNCHANGED m_mirrored

-----------------------------------------------------------------------------
(***************************************************************************)
(* A register with HDL paths.  The failures of the slices are collected in *)
(* the status.                                                             *)
(***************************************************************************)
\* The bits of a register value that a slice takes, as a vector.
Part(value, slice, memory) ==
  [k \in Bits |->
     IF k \notin Vector THEN memory[k]
     ELSE IF slice.offset < 0 THEN (IF k < RegBits THEN value[k] ELSE "0")
     ELSE IF k < slice.size /\ k + slice.offset < RegBits THEN value[k + slice.offset]
     ELSE "0"]

\* What n rounds of a loop may leave.
ForEach(Round(_, _), start, n) ==
  LET after[k \in 0 .. n] ==
        IF k = 0 THEN {start} ELSE UNION {Round(d, k) : d \in after[k - 1]}
  IN  after[n]

write_slice(c, slice, value) ==
  {[d EXCEPT !.ok = @ /\ c.ok] :
     d \in uvm_hdl_deposit([c EXCEPT !.value = Part(value, slice, @)], slice.path)}

write_copy(c, slices, value) ==
  ForEach(LAMBDA d, j : write_slice(d, slices[j], value), c, Len(slices))

backdoor_write(c, value) ==
  ForEach(LAMBDA d, i : write_copy(d, Copies[i], value), c, Len(Copies))

\* uvm_reg_data_t has two states.
TwoState(l) == IF l = "1" THEN "1" ELSE "0"
Zeros == [k \in 0 .. RegBits - 1 |-> "0"]

\* While a register is read: the call, what the vector of a read has in it, the value of
\* the copy as far as it is gathered, the value of the first copy, an early return.
Reading(c, garbage) ==
  [call |-> c, garbage |-> garbage, val |-> Zeros, value |-> Zeros, returned |-> FALSE]

\* The bits of a slice go to their places.
Gathered(reg, slice, vector) ==
  [k \in 0 .. RegBits - 1 |->
     IF slice.offset < 0 THEN TwoState(vector[k])
     ELSE IF k - slice.offset \in 0 .. slice.size - 1 THEN TwoState(vector[k - slice.offset])
     ELSE reg[k]]

read_slice(r, slice) ==
  {[r EXCEPT !.call = [c EXCEPT !.ok = @ /\ r.call.ok],
             !.val = Gathered(@, slice, c.value)] :
     c \in uvm_hdl_read([r.call EXCEPT !.value = r.garbage], slice.path)}

\* Mutant: the copy that is read last gives the value.
not_compared(r, i) == [r EXCEPT !.value = r.val]

\* The first copy gives the value; one that differs ends the reading with a failure.
Compared(r, i) ==
  IF i = 1 THEN [r EXCEPT !.value = r.val]
  ELSE IF r.val = r.value THEN r
  ELSE [r EXCEPT !.call.ok = FALSE, !.returned = TRUE]

read_slices(r, slices) ==
  ForEach(LAMBDA d, j : read_slice(d, slices[j]), [r EXCEPT !.val = Zeros], Len(slices))

read_copy(r, i) ==
  IF r.returned THEN {r} ELSE {Compared(d, i) : d \in read_slices(r, Copies[i])}

backdoor_read_func(c, garbage) == ForEach(read_copy, Reading(c, garbage), Len(Copies))

\* The mirror follows the value that was written or read, whatever the status.
poke(value, memory) ==
  /\ ~finished
  /\ \E c \in backdoor_write(Begin(memory), value) :
       /\ End(c)
       /\ call' = [op |-> "poke", ok |-> c.ok, value |-> value]
  /\ m_mirrored' = value

peek(garbage) ==
  /\ ~finished
  /\ \E r \in backdoor_read_func(Begin(garbage), garbage) :
       /\ End(r.call)
       /\ call' = [op |-> "peek", ok |-> r.call.ok, value |-> r.value]
       /\ m_mirrored' = r.value

-----------------------------------------------------------------------------
\* The design changes one of its bits.
design_changes(o, b, l) ==
  /\ ~finished
  /\ b \notin forced[o]
  /\ val' = [val EXCEPT ![o][b] = l]
  /\ call' = NoCall
  /\ UNCHANGED <<scenario, forced, partsel, finished, m_mirrored>>

Next ==
  \/ \E op \in scenario.ops, p \in scenario.paths, v \in scenario.vectors : hdl(op, p, v)
  \/ \E value \in scenario.pokes, v \in scenario.vectors : poke(value, v)
  \/ scenario.pokes # {} /\ \E v \in scenario.vectors : peek(v)
  \/ \E o \in scenario.objects : \E b \in 0 .. Size[o] - 1, l \in scenario.changes :
       design_changes(o, b, l)

Spec == Init /\ [][Next]_vars
=============================================================================
