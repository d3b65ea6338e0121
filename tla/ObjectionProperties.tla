------------------------ MODULE ObjectionProperties ------------------------
(***************************************************************************)
(* What an objection promises to those who raise it and to the phase.      *)
(***************************************************************************)
EXTENDS Objection

\* The sum of a function to natural numbers, as the number of the pairs below
\* its graph.
SumOf(f) == Cardinality(UNION {{x} \X (1..f[x]) : x \in DOMAIN f})

\* Every context that holds back a drop, with the place it is in.
PendingContexts ==
  {<<"scheduled", i, m_scheduled_list[i]>> : i \in DOMAIN m_scheduled_list}
    \union {<<"forked", i, m_forked_list[i]>> : i \in DOMAIN m_forked_list}
    \union {<<"draining", 0, c>> : c \in m_forked_contexts}
PendingOf(o) == {p \in PendingContexts : p[3].obj = o}
HeldBack(o) == SumOf([p \in PendingOf(o) |-> p[3].count])

Children(o) == {c \in Objects \ {Top} : m_get_parent(c) = o}

\* The total of an object is what it has raised itself plus, for each child,
\* the child's total and the drops that the child holds back: "the number of
\* raised propagated up is reduced by the number of drops that were pending".
TotalsAreSums ==
  \A o \in Objects :
    m_total_count[o] =
      m_source_count[o]
        + SumOf([c \in Children(o) |-> m_total_count[c] + HeldBack(c)])

\* An object drains at most once at a time, and only while nothing is raised
\* at it or below it.
DrainsQuietly ==
  \A o \in Objects : PendingOf(o) # {} =>
    Cardinality(PendingOf(o)) = 1 /\ m_total_count[o] = 0

\* An owner that drops what it has raised never meets the fatal.
NoFatal == ~fatal

\* Only the root may still be draining when the objection has said that all
\* objections are dropped, and no drop will be propagated any more.
AllDroppedIsLast ==
  m_top_all_dropped =>
    \A o \in Objects : m_total_count[o] = 0 /\ (o # Top => HeldBack(o) = 0)

\* The phase's view: "all dropped" is said only while nobody objects.
Promise == INSTANCE ObjectionSpec WITH raised <- m_source_count,
                                       all_dropped <- m_top_all_dropped
ImplementsPromise == Promise!Spec

\* A phase that waits for all objections to be dropped is woken, unless
\* somebody objects again or a drop that a clear made late ends the run.
WaiterReleased ==
  (waiter = "waiting" /\ \A o \in Objects : m_source_count[o] = 0)
    ~> (waiter = "idle" \/ fatal \/ \E o \in Objects : m_source_count[o] # 0)
=============================================================================
