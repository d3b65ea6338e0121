------------------------------ MODULE HdlQuesta ------------------------------
(***************************************************************************)
(* The back door for Questa, src/dpi/uvm_hdl_questa.c.  VPI finds no       *)
(* slices by name: they are taken apart into bits.                         *)
(***************************************************************************)
EXTENDS HdlDesign

uvm_hdl_max_width(c) == IF c.visible THEN MaxWidth ELSE DefaultWidth

\* The leading "$root." is skipped before the name is looked up.
vpi_handle_by_name(p) == Kind[p.object] = "verilog" /\ p.select # "slice" /\ InRange(p)

uvm_hdl_check_path(c, p) == IF vpi_handle_by_name(p) THEN Succeed(c) ELSE Refuse(c)

\* How many bits of a slice are found before the first that is not.
Found(p) ==
  CHOOSE n \in 0 .. width(p) :
    /\ \A i \in 0 .. n - 1 : vpi_handle_by_name(bit(p, i))
    /\ n = width(p) \/ ~vpi_handle_by_name(bit(p, n))

\* Mutant: the slice is filled from its left end.
set_from_the_left(c, p, flag) ==
  LET n == Found(p)
      d == Put(c, p.object, [b \in {index(p, i) : i \in 0 .. n - 1} |->
                               c.value[width(p) - 1 - (IF b >= p.rhs THEN b - p.rhs ELSE p.rhs - b)]],
               flag)
  IN  IF n = width(p) THEN Succeed(d) ELSE Fail(d)

\* Bit after bit is put; those before one that is not found keep the new value.
\* What a release hands back stays in a local.
uvm_hdl_set_vlog_partsel(c, p, flag) ==
  LET d == Put(c, p.object, FirstBits(c.value, p, Found(p)), flag)
  IN  IF Found(p) = width(p) THEN Succeed(d) ELSE Fail(d)

\* Mutant: the bits come in the order of the indexes.
get_upwards(c, p) ==
  LET n == Found(p)
      least == IF p.lhs < p.rhs THEN p.lhs ELSE p.rhs
  IN  IF n = width(p)
      THEN Succeed([Copy(c, [i \in 0 .. n - 1 |-> c.val[p.object][least + i]])
                      EXCEPT !.partsel = FALSE])
      ELSE Fail([c EXCEPT !.partsel = TRUE])

\* partsel tells the nested calls not to clear; a bit that is not found leaves it
\* set, and leaves the bit before it in its own place.
uvm_hdl_get_vlog_partsel(c, p) ==
  LET n == Found(p)
      Read(i) == c.val[p.object][index(p, i)]
      d == Copy(c, [i \in 0 .. n - 1 |-> Read(i)])
  IN  IF n = width(p) THEN Succeed([d EXCEPT !.partsel = FALSE])
      ELSE Fail([Copy(d, [i \in {n} |-> IF n = 0 THEN "0" ELSE Read(n - 1)])
                   EXCEPT !.partsel = TRUE])

uvm_hdl_set_vlog(c, p, flag) ==
  CASE p.select = "slice" -> uvm_hdl_set_vlog_partsel(c, p, flag)
    [] p.select # "slice" /\ vpi_handle_by_name(p) -> Succeed(vpi_put_value(c, p, flag))
    [] OTHER -> Fail(c)

\* Mutant: the vector is not cleared.
get_uncleared(c, p) ==
  CASE p.select = "slice" -> uvm_hdl_get_vlog_partsel(c, p)
    [] p.select # "slice" /\ vpi_handle_by_name(p)
         /\ width(p) <= uvm_hdl_max_width(c) -> Succeed(Copy(c, vpi_get_value(c, p)))
    [] OTHER -> Fail(c)

\* The last word is not cleared.
uvm_hdl_get_vlog(c, p) ==
  LET d == IF c.partsel THEN c ELSE Zero(c, chunks(uvm_hdl_max_width(c)) - 1)
  IN  CASE p.select = "slice" -> uvm_hdl_get_vlog_partsel(d, p)
        [] p.select # "slice" /\ vpi_handle_by_name(p)
             /\ width(p) <= uvm_hdl_max_width(c) -> Succeed(Copy(d, vpi_get_value(d, p)))
        [] OTHER -> Fail(d)

uvm_hdl_read(c, p) == {uvm_hdl_get_vlog(c, p)}
uvm_hdl_deposit(c, p) == {uvm_hdl_set_vlog(c, p, "deposit")}
uvm_hdl_force(c, p) == {uvm_hdl_set_vlog(c, p, "force")}
uvm_hdl_release_and_read(c, p) == {uvm_hdl_set_vlog(c, p, "release")}
uvm_hdl_release(c, p) == {uvm_hdl_set_vlog(c, p, "release")}
=============================================================================
