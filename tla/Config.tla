------------------------------ MODULE Config ------------------------------
(***************************************************************************)
(* uvm_config_db (base/uvm_config_db.svh) over the resource pool           *)
(* (base/uvm_resource.svh): settings for scopes, looked up by name, and    *)
(* the monitors that wait_modified on one.  The components are made level  *)
(* by level while the root's current phase is "build".                     *)
(***************************************************************************)
EXTENDS Regex, FiniteSets

CONSTANTS Components,  \* their full names, the root's <<>> among them
          Types,       \* T: each has its own uvm_config_db
          Fields,
          Settings,    \* the components and instance names of the calls of set
          Monitors, Watch,  \* what each monitor watches: T, its component, a field
          MaxSets, MaxKills

None == 0  \* no value
default_precedence == 1000
Reads == [T : Types, name : Components, field : Fields]
ASSUME ConfigAssumption ==
  /\ <<>> \in Components /\ Components \subseteq Seq(STRING)
  /\ Watch \in [Monitors -> Reads]
  /\ Settings \subseteq [cntxt : Components, inst_name : Seq(STRING)]
  /\ MaxSets \in Nat /\ MaxKills \in Nat

VARIABLES rtab,        \* the resources of each field, searched from the front
          m_waiters,   \* of each type and field, the oldest first
          curr_phase,  \* of the root: none yet, build or a later one
          levels,      \* how deep the components are that there are
          pc, seen,    \* of each monitor: where it is, what it got last
          sets,        \* the settings made so far
          kills
vars == <<rtab, m_waiters, curr_phase, levels, pc, seen, sets, kills>>

get_depth(name) ==
  IF name = <<>> THEN 0 ELSE 1 + Cardinality({i \in DOMAIN name : name[i] = "."})

\* The scope of a call: its instance name seen from its component.
full_name(cntxt, inst_name) ==
  IF inst_name = <<>> THEN cntxt
  ELSE IF cntxt = <<>> THEN inst_name ELSE cntxt \o <<".">> \o inst_name

Init ==
  /\ rtab = [f \in Fields |-> <<>>]
  /\ m_waiters = [T \in Types |-> [f \in Fields |-> <<>>]]
  /\ curr_phase = "none" /\ levels = 0
  /\ pc = [m \in Monitors |-> "idle"]
  /\ seen = [m \in Monitors |-> None]
  /\ sets = <<>> /\ kills = 0

-----------------------------------------------------------------------------
match_scope(r, name) == uvm_re_match(r.scope, name) = 0

\* The places in the queue of the field of the resources for a name.
lookup_name(T, name, field) ==
  {i \in DOMAIN rtab[field] : rtab[field][i].T = T /\ match_scope(rtab[field][i], name)}

\* The first of the places with the highest precedence.
get_highest_precedence(rq, places) ==
  CHOOSE i \in places :
    \A j \in places : \/ rq[j].precedence < rq[i].precedence
                      \/ rq[j].precedence = rq[i].precedence /\ i <= j

get(T, name, field) ==
  LET places == lookup_name(T, name, field)
  IN IF places = {} THEN None
     ELSE rtab[field][get_highest_precedence(rtab[field], places)].val

\* Only during build does the depth of the setter count.
setting_precedence(cntxt) ==
  IF curr_phase = "build" THEN default_precedence - get_depth(cntxt) ELSE default_precedence

-----------------------------------------------------------------------------
\* Where the resource of the same type, component and instance name is.
place_of(rq, r) ==
  {i \in DOMAIN rq : rq[i].T = r.T /\ rq[i].cntxt = r.cntxt /\ rq[i].inst_name = r.inst_name}

\* Mutant: a resource that exists keeps its place in the queue.
write_in_place(rq, r) ==
  IF place_of(rq, r) = {} THEN <<r>> \o rq
  ELSE [i \in DOMAIN rq |-> IF i \in place_of(rq, r) THEN r ELSE rq[i]]

\* A new resource, or the one of this type, component and instance name with a
\* new value and precedence, is put in front (set_override, set_priority_name).
put_in_front(rq, r) ==
  <<r>> \o IF place_of(rq, r) = {} THEN rq
           ELSE RemoveAt(rq, CHOOSE i \in place_of(rq, r) : TRUE)

\* Mutant: the scope is compared as a text.
triggered_by_name(T, inst_name, field) ==
  {m_waiters[T][field][i].monitor : i \in
     {j \in DOMAIN m_waiters[T][field] : m_waiters[T][field][j].inst_name = inst_name}}

\* The monitors whose entries a setting triggers.
triggered(T, inst_name, field) ==
  {m_waiters[T][field][i].monitor : i \in
     {j \in DOMAIN m_waiters[T][field] :
        uvm_re_match(uvm_glob_to_re(inst_name), m_waiters[T][field][j].inst_name) = 0}}

\* A trigger of which nobody is waiting (the monitor is killed, or triggered
\* already) is lost.
set(T, s, field) ==
  LET inst_name == full_name(s.cntxt, s.inst_name)
      val == Len(sets) + 1
      r == [T |-> T, cntxt |-> s.cntxt, inst_name |-> inst_name,
            scope |-> uvm_glob_to_re(inst_name),
            precedence |-> setting_precedence(s.cntxt), val |-> val]
  IN /\ val <= MaxSets /\ get_depth(s.cntxt) <= levels
     /\ rtab' = [rtab EXCEPT ![field] = put_in_front(@, r)]
     /\ pc' = [m \in Monitors |->
                 IF pc[m] = "wait" /\ m \in triggered(T, inst_name, field)
                 THEN "triggered" ELSE pc[m]]
     /\ sets' = Append(sets, [T |-> T, field |-> field, inst_name |-> inst_name,
                              precedence |-> r.precedence])
     /\ UNCHANGED <<m_waiters, curr_phase, levels, seen, kills>>

-----------------------------------------------------------------------------
\* The root and then each level of components build their children.
build ==
  /\ \/ /\ curr_phase = "none"
        /\ curr_phase' = "build" /\ UNCHANGED levels
     \/ /\ curr_phase = "build" /\ \E c \in Components : get_depth(c) > levels
        /\ levels' = levels + 1 /\ UNCHANGED curr_phase
     \/ /\ curr_phase = "build" /\ \A c \in Components : get_depth(c) <= levels
        /\ curr_phase' = "later" /\ UNCHANGED levels
  /\ UNCHANGED <<rtab, m_waiters, pc, seen, sets, kills>>

\* A monitor gets the value and calls wait_modified.
wait_modified(m) ==
  LET w == Watch[m]
  IN /\ curr_phase = "later" /\ pc[m] = "idle"
     /\ seen' = [seen EXCEPT ![m] = get(w.T, w.name, w.field)]
     /\ m_waiters' = [m_waiters EXCEPT ![w.T][w.field] =
                        Append(@, [inst_name |-> w.name, monitor |-> m])]
     /\ pc' = [pc EXCEPT ![m] = "wait"]
     /\ UNCHANGED <<rtab, curr_phase, levels, sets, kills>>

\* The rest of wait_modified: the monitor removes its own entry.
modified(m) ==
  LET w == Watch[m]
  IN /\ pc[m] = "triggered"
     /\ m_waiters' = [m_waiters EXCEPT ![w.T][w.field] =
                        RemoveFirst(@, [inst_name |-> w.name, monitor |-> m])]
     /\ pc' = [pc EXCEPT ![m] = "idle"]
     /\ UNCHANGED <<rtab, curr_phase, levels, seen, sets, kills>>

\* A killed monitor leaves its entry behind.
kill(m) ==
  /\ kills < MaxKills /\ pc[m] \in {"wait", "triggered"}
  /\ kills' = kills + 1
  /\ pc' = [pc EXCEPT ![m] = "dead"]
  /\ UNCHANGED <<rtab, m_waiters, curr_phase, levels, seen, sets>>

Next ==
  \/ \E T \in Types, s \in Settings, f \in Fields : set(T, s, f)
  \/ build
  \/ \E m \in Monitors : wait_modified(m) \/ modified(m) \/ kill(m)

Spec == Init /\ [][Next]_vars
=============================================================================
