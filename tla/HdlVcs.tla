------------------------------- MODULE HdlVcs -------------------------------
(***************************************************************************)
(* The back door for VCS, src/dpi/uvm_hdl_vcs.c, without and with VCSMX.   *)
(***************************************************************************)
EXTENDS HdlDesign

uvm_hdl_max_width(c) == IF c.visible THEN MaxWidth ELSE DefaultWidth

\* VPI finds Verilog objects, their bits and their slices by name.
vpi_handle_by_name(p) == Kind[p.object] = "verilog" /\ ~p.root /\ InRange(p)

uvm_hdl_check_path(c, p) == IF vpi_handle_by_name(p) THEN Succeed(c) ELSE Refuse(c)

uvm_hdl_set_vlog(c, p, flag) ==
  IF vpi_handle_by_name(p) THEN Succeed(vpi_put_value(c, p, flag)) ELSE Fail(c)

uvm_hdl_get_vlog(c, p) ==
  IF vpi_handle_by_name(p) /\ width(p) <= uvm_hdl_max_width(c)
  THEN Succeed(Copy(c, vpi_get_value(c, p)))
  ELSE Fail(c)

-----------------------------------------------------------------------------
\* The interface that a name belongs to in a mixed-language build.
mhpiPliP(p) ==
  CASE vpi_handle_by_name(p) -> "mhpiVpiPli"
    [] Kind[p.object] # "verilog" /\ ~p.root /\ p.select = "none" -> "mhpiVhpiPli"
    [] OTHER -> "none"

\* A string of digits as an integer, of which the first word is kept: atoi makes
\* a 0 of every character that is no digit.
uvm_hdl_btoi(bits) ==
  [k \in 0 .. Word - 1 |-> IF k \in DOMAIN bits /\ bits[k] = "1" THEN "1" ELSE "0"]

\* A signed word as a string of binary digits: the sign is lost, the magnitude of
\* the two's complement number is left, without leading zeros.
uvm_hdl_dtob(word) ==
  [k \in 0 .. Word - 1 |->
     IF aval(word[k]) # (aval(word[Word - 1]) /\ \E j \in 0 .. k - 1 : aval(word[j]))
     THEN "1" ELSE "0"]

uvm_hdl_get_mhdl(c, p) == Succeed(Copy(c, uvm_hdl_btoi(c.val[p.object])))

\* mhpi_force_value extends a short string by zeros.
uvm_hdl_set_mhdl(c, p, flag) ==
  LET digits == uvm_hdl_dtob(c.value)
  IN  Succeed(Put(c, p.object, [b \in 0 .. Size[p.object] - 1 |->
                                  IF b < Word THEN digits[b] ELSE "0"], flag))

\* A read of a name that neither interface knows runs off the end of the function.
uvm_hdl_read(c, p) ==
  CASE c.simulator = "vcs" \/ mhpiPliP(p) = "mhpiVpiPli" -> {uvm_hdl_get_vlog(c, p)}
    [] c.simulator = "vcsmx" /\ mhpiPliP(p) = "mhpiVhpiPli" -> {uvm_hdl_get_mhdl(c, p)}
    [] OTHER -> {Succeed(c), Refuse(c)}

uvm_hdl_deposit(c, p) ==
  CASE c.simulator = "vcs" \/ mhpiPliP(p) = "mhpiVpiPli" ->
         {uvm_hdl_set_vlog(c, p, "deposit")}
    [] c.simulator = "vcsmx" /\ mhpiPliP(p) = "mhpiVhpiPli" ->
         {uvm_hdl_set_mhdl(c, p, "deposit")}
    [] OTHER -> {Refuse(c)}

uvm_hdl_force(c, p) ==
  CASE c.simulator = "vcs" \/ mhpiPliP(p) = "mhpiVpiPli" -> {uvm_hdl_set_vlog(c, p, "force")}
    [] c.simulator = "vcsmx" /\ mhpiPliP(p) = "mhpiVhpiPli" ->
         {uvm_hdl_set_mhdl(c, p, "force")}
    [] OTHER -> {Refuse(c)}

uvm_hdl_release_and_read(c, p) == {uvm_hdl_set_vlog(c, p, "release")}

uvm_hdl_release(c, p) ==
  CASE c.simulator = "vcs" \/ mhpiPliP(p) = "mhpiVpiPli" ->
         {uvm_hdl_set_vlog(c, p, "release")}
    [] c.simulator = "vcsmx" /\ mhpiPliP(p) = "mhpiVhpiPli" ->
         {Succeed([c EXCEPT !.forced[p.object] = {}])}
    [] OTHER -> {Refuse(c)}
=============================================================================
