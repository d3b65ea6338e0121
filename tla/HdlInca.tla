------------------------------- MODULE HdlInca -------------------------------
(***************************************************************************)
(* The back door for Incisive, src/dpi/uvm_hdl_inca.c: Verilog through     *)
(* VPI, VHDL through VHPI, slices of Verilog objects bit by bit.           *)
(***************************************************************************)
EXTENDS HdlDesign

\* If the parameter is not shown, the width is what the initial value says.
uvm_hdl_max_width(c) == IF c.visible THEN MaxWidth ELSE 0

vpi_handle_by_name(p) ==
  Kind[p.object] = "verilog" /\ ~p.root /\ p.select # "slice" /\ InRange(p)

\* The languages that the switch of a call may see: `language' is set only if
\* the name is found.
m_uvm_get_object_handle(p) ==
  CASE vpi_handle_by_name(p) -> {"vhpiVerilog"}
    [] Kind[p.object] # "verilog" /\ ~p.root /\ p.select = "none" -> {"vhpiVHDL"}
    [] OTHER -> {"uninitialised vhpiVerilog", "uninitialised vhpiVHDL", "uninitialised"}

is_valid_path_slice(p) == p.select = "slice"

uvm_hdl_check_path(c, p) ==
  IF m_uvm_get_object_handle(p) \subseteq {"vhpiVerilog", "vhpiVHDL"}
  THEN Succeed(c) ELSE Refuse(c)

-----------------------------------------------------------------------------
\* How many bits of a slice are found before the first that is not.
Found(p) ==
  CHOOSE n \in 0 .. width(p) :
    /\ \A i \in 0 .. n - 1 : vpi_handle_by_name(bit(p, i))
    /\ n = width(p) \/ ~vpi_handle_by_name(bit(p, n))

\* Bit after bit is put; those before one that is not found keep the new value.
\* The path is left naming the last bit that was tried.
uvm_hdl_set_vlog_partsel(c, p, flag) ==
  LET d == Put(c, p.object, FirstBits(c.value, p, Found(p)), flag)
  IN  IF Found(p) = width(p) THEN Succeed(d) ELSE Fail(d)

LastTried(p) == bit(p, IF Found(p) = width(p) THEN Found(p) - 1 ELSE Found(p))

\* A path that is no slice is refused; each bit must be narrower than the maximum.
uvm_hdl_get_vlog_partsel(c, p) ==
  LET n == IF uvm_hdl_max_width(c) = 0 THEN 0 ELSE Found(p)
      d == Copy(c, [i \in 0 .. n - 1 |-> c.val[p.object][index(p, i)]])
  IN  CASE ~is_valid_path_slice(p) -> Refuse(c)
        [] is_valid_path_slice(p) /\ n = width(p) -> Succeed(d)
        [] OTHER -> Fail(d)

\* The words of a width, as C divides: a width of 0 has one.
words(maxsize) == IF maxsize = 0 THEN 1 ELSE chunks(maxsize)

\* The last word is not cleared.
clear_value(c) == Zero(c, words(uvm_hdl_max_width(c)) - 1)

uvm_hdl_set_vlog(c, p, flag) ==
  IF vpi_handle_by_name(p) THEN Succeed(vpi_put_value(c, p, flag)) ELSE Fail(c)

uvm_hdl_get_vlog(c, p) ==
  IF vpi_handle_by_name(p) /\ width(p) <= uvm_hdl_max_width(c)
  THEN Succeed(Copy(c, vpi_get_value(c, p)))
  ELSE Fail(c)

-----------------------------------------------------------------------------
(***************************************************************************)
(* VHDL.  The index into the table of values is built with logical         *)
(* operators, so it is 0 or 1: a bit is stored as '1' if its aval is set   *)
(* or if bval, shifted left by one, is not zero.  bval holds the word from *)
(* this bit upwards, its sign extended.                                    *)
(***************************************************************************)
vhpi2val(word, j) ==
  LET top == IF j = 0 THEN Word - 2 ELSE Word - 1
  IN  IF aval(word[j]) \/ \E k \in j .. top : bval(word[k]) THEN "1" ELSE "0"

WordOf(v, i) == [k \in 0 .. Word - 1 |-> v[i * Word + k]]

\* An object that is too wide ends the run, after the value has been put.
uvm_hdl_set_vhdl(c, p, flag) ==
  LET o == p.object
      new == [b \in 0 .. Size[o] - 1 |-> vhpi2val(WordOf(c.value, b \div Word), b % Word)]
      d == IF Size[o] > uvm_hdl_max_width(c) THEN Finish(c) ELSE c
  IN  IF Kind[o] = "int" THEN Refuse(Finish(d)) ELSE Succeed(Put(d, o, new, flag))

\* The elements of a vector are shifted into the words from the left end of the
\* object, so that the first word holds its most significant bits.
EnumVec(elements, size) ==
  [k \in 0 .. chunks(size) * Word - 1 |->
     LET first == (k \div Word) * Word
         n == IF size - first < Word THEN size - first ELSE Word
     IN  IF k - first < n THEN Folded(elements[size - first - n + (k - first)]) ELSE "0"]

\* The buffer of the elements is freed after each word: with more than one word
\* the second is read from freed memory and the second free may end the run.
uvm_hdl_get_vhdl(c, p) ==
  LET o == p.object
      elements == c.val[o]
      d == IF Size[o] > uvm_hdl_max_width(c) THEN Finish(c) ELSE c
      FirstWord(bits) ==
        Copy(d, [k \in 0 .. Word - 1 |-> IF k \in DOMAIN bits THEN bits[k] ELSE "0"])
      cleared == Zero(d, words(uvm_hdl_max_width(c)))
  IN  CASE Kind[o] = "int" -> {Succeed(FirstWord(elements))}
        [] Kind[o] = "enum" -> {Succeed(FirstWord([k \in {0} |-> Folded(elements[0])]))}
        [] Kind[o] = "enumvec" ->
             {Succeed(Copy(cleared, EnumVec(elements, Size[o])))}
               \union (IF chunks(Size[o]) > 1 THEN {Refuse(Finish(cleared))} ELSE {})

-----------------------------------------------------------------------------
\* A name that was not found goes where the uninitialised language says: to an
\* error, or to VHPI without an object, which ends the run.
Switch(c, p, verilog, vhdl) ==
  UNION {CASE language = "vhpiVerilog" -> verilog
           [] language = "vhpiVHDL" -> vhdl
           [] language = "uninitialised vhpiVHDL" -> {Refuse(Finish(c))}
           [] OTHER -> {Fail(c)} : language \in m_uvm_get_object_handle(p)}

uvm_hdl_read(c, p) ==
  IF is_valid_path_slice(p) THEN {uvm_hdl_get_vlog_partsel(clear_value(c), p)}
  ELSE Switch(c, p, {uvm_hdl_get_vlog(c, p)}, uvm_hdl_get_vhdl(c, p))

uvm_hdl_deposit(c, p) ==
  IF is_valid_path_slice(p) THEN {uvm_hdl_set_vlog_partsel(c, p, "deposit")}
  ELSE Switch(c, p, {uvm_hdl_set_vlog(c, p, "deposit")}, {uvm_hdl_set_vhdl(c, p, "deposit")})

uvm_hdl_force(c, p) ==
  IF is_valid_path_slice(p) THEN {uvm_hdl_set_vlog_partsel(c, p, "force")}
  ELSE Switch(c, p, {uvm_hdl_set_vlog(c, p, "force")}, {uvm_hdl_set_vhdl(c, p, "force")})

uvm_hdl_release(c, p) ==
  IF is_valid_path_slice(p) THEN {uvm_hdl_set_vlog_partsel(c, p, "release")}
  ELSE Switch(c, p, {uvm_hdl_set_vlog(c, p, "release")}, {uvm_hdl_set_vhdl(c, p, "release")})

\* For a slice the read finds the path that the release has rewritten.
uvm_hdl_release_and_read(c, p) ==
  IF is_valid_path_slice(p)
  THEN {uvm_hdl_get_vlog_partsel(
          clear_value(uvm_hdl_set_vlog_partsel(c, p, "release")), LastTried(p))}
  ELSE Switch(c, p, {uvm_hdl_get_vlog(uvm_hdl_set_vlog(c, p, "release"), p)},
              uvm_hdl_get_vhdl(uvm_hdl_set_vhdl(c, p, "release"), p))
=============================================================================
