------------------------- MODULE ConfigProperties -------------------------
(***************************************************************************)
(* What a reader of the configuration database relies on, with a           *)
(* definition of its own of which names a scope covers.                    *)
(***************************************************************************)
EXTENDS Config

\* The table of uvm_resource.svh:335: * is any text, + any but the empty one,
\* ? a character; every other character, the dot included, is itself.
GlobCovers(glob, name) ==
  LET covers[i \in 0 .. Len(glob), j \in 0 .. Len(name)] ==
        IF i = 0 THEN j = 0
        ELSE CASE glob[i] = "*" -> \E k \in 0 .. j : covers[i - 1, k]
               [] glob[i] = "+" -> \E k \in 0 .. j - 1 : covers[i - 1, k]
               [] OTHER -> /\ j > 0 /\ glob[i] \in {"?", name[j]}
                           /\ covers[i - 1, j - 1]
  IN covers[Len(glob), Len(name)]

\* An empty scope covers every name; a text of letters between slashes covers
\* the names it is in.
ScopeCovers(scope, name) ==
  IF scope = <<>> THEN TRUE
  ELSE IF Bracketed(scope)
  THEN \E i \in 1 .. Len(name) - Len(Inside(scope)) + 1 :
         SubSeq(name, i, i + Len(Inside(scope)) - 1) = Inside(scope)
  ELSE GlobCovers(scope, name)

\* The instance names of settings, and when the compiled ones mean what they say.
Scopes == {full_name(s.cntxt, s.inst_name) : s \in Settings}
ScopesMeanWhatTheySay ==
  \A x \in Scopes, name \in Components :
    ScopeCovers(x, name) <=> uvm_re_match(uvm_glob_to_re(x), name) = 0

\* The last of some settings, among those with the highest precedence.
Latest(relevant) ==
  IF relevant = {} THEN None
  ELSE CHOOSE i \in relevant :
         \A j \in relevant : \/ sets[j].precedence < sets[i].precedence
                             \/ sets[j].precedence = sets[i].precedence /\ j <= i

(***************************************************************************)
(* get returns the value of the last setting, among those with the highest *)
(* precedence, whose scope covers the name (uvm_config_db.svh:130): a      *)
(* setting from higher in the hierarchy during build, and the later one    *)
(* after it, however the resources were moved in their queue meanwhile.    *)
(***************************************************************************)
GetIsLatest ==
  \A q \in Reads :
    get(q.T, q.name, q.field) =
      Latest({i \in DOMAIN sets : /\ sets[i].T = q.T /\ sets[i].field = q.field
                                  /\ ScopeCovers(sets[i].inst_name, q.name)})

(***************************************************************************)
(* No change is missed (uvm_config_db.svh:219, 269): while a monitor waits *)
(* in wait_modified, what it got before is what it would get now, whatever *)
(* entries killed monitors have left.                                      *)
(***************************************************************************)
WaiterHasLast ==
  \A m \in Monitors :
    pc[m] = "wait" => seen[m] = get(Watch[m].T, Watch[m].name, Watch[m].field)
=============================================================================
