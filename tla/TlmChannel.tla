----------------------------- MODULE TlmChannel -----------------------------
(***************************************************************************)
(* A uvm_tlm_transport_channel (tlm1/uvm_tlm_req_rsp.svh) between callers  *)
(* and a slave that answers one request after the other, and an analysis   *)
(* fifo at its request_ap, which a scoreboard reads and flushes.  Callers, *)
(* the slave and the scoreboard are threads of a testbench: any of them    *)
(* may be killed while it waits.                                           *)
(***************************************************************************)
EXTENDS TlmFifo

CONSTANTS Callers,   \* threads that call transport or nb_transport
          slave,     \* the thread that gets requests and puts responses
          scoreboard,
          MaxCalls,  \* of each caller
          MaxKills

ASSUME ChannelAssumption ==
  /\ slave \notin Callers /\ scoreboard \notin Callers \union {slave}
  /\ MaxCalls \in [Callers -> Nat] /\ MaxKills \in Nat

VARIABLES m_request_fifo, m_response_fifo,
          analysis_fifo, \* a uvm_tlm_analysis_fifo that is connected to request_ap
          pc,            \* where each thread is
          calls,         \* how often each caller has called
          serving,       \* the request that the slave answers
          returned,      \* the last answer that a caller got
          orphans,       \* how many requests have no caller who waits for the answer
          lost,          \* how many responses were lost with the slave that put them
          killed_gets,   \* how many gets of each fifo have been killed
          kills,
          flush_error    \* the last step was a flush that failed

fifos == <<m_request_fifo, m_response_fifo, analysis_fifo>>
vars == <<fifos, pc, calls, serving, returned, orphans, lost, killed_gets, kills, flush_error>>

None == <<>>

Init ==
  /\ m_request_fifo = new(1) /\ m_response_fifo = new(1) /\ analysis_fifo = new(0)
  /\ pc = [p \in Callers \union {slave, scoreboard} |-> "idle"]
  /\ calls = [c \in Callers |-> 0]
  /\ serving = None /\ returned = None
  /\ orphans = 0 /\ lost = 0 /\ kills = 0
  /\ killed_gets = [request |-> 0, response |-> 0, analysis |-> 0]
  /\ flush_error = FALSE

Goto(p, place) == pc' = [pc EXCEPT ![p] = place]
Request(c) == <<c, calls[c]>>

\* What is put into the request fifo is written to its analysis port.
write(t) == analysis_fifo' = push_back(analysis_fifo, t)

-----------------------------------------------------------------------------
\* Mutant: transport tries to put, and waits for a response in any case.
transport_tries(c) ==
  /\ pc[c] = "idle" /\ calls[c] < MaxCalls[c]
  /\ LET request == <<c, calls[c] + 1>>
     IN  IF Room(m_request_fifo)
         THEN m_request_fifo' = push_back(m_request_fifo, request) /\ write(request)
         ELSE UNCHANGED <<m_request_fifo, analysis_fifo>>
  /\ m_response_fifo' = get(m_response_fifo, c)
  /\ Goto(c, "get")
  /\ calls' = [calls EXCEPT ![c] = @ + 1]
  /\ flush_error' = FALSE
  /\ UNCHANGED <<serving, returned, orphans, lost, killed_gets, kills>>

transport(c) ==
  /\ pc[c] = "idle" /\ calls[c] < MaxCalls[c]
  /\ m_request_fifo' = put(m_request_fifo, c)
  /\ Goto(c, "put")
  /\ calls' = [calls EXCEPT ![c] = @ + 1]
  /\ flush_error' = FALSE
  /\ UNCHANGED <<m_response_fifo, analysis_fifo, serving, returned, orphans, lost, killed_gets, kills>>

\* The request is in: wait for the response.
transport_put(c) ==
  /\ pc[c] = "put" /\ put_ready(m_request_fifo, c)
  /\ m_request_fifo' = put_ends(m_request_fifo, Request(c))
  /\ write(Request(c))
  /\ m_response_fifo' = get(m_response_fifo, c)
  /\ Goto(c, "get")
  /\ flush_error' = FALSE
  /\ UNCHANGED <<calls, serving, returned, orphans, lost, killed_gets, kills>>

transport_get(c) ==
  /\ pc[c] = "get" /\ get_ready(m_response_fifo, c)
  /\ m_response_fifo' = get_ends(m_response_fifo)
  /\ returned' = <<c, Head(m_response_fifo.m)>>
  /\ Goto(c, "idle")
  /\ flush_error' = FALSE
  /\ UNCHANGED <<m_request_fifo, analysis_fifo, calls, serving, orphans, lost, killed_gets, kills>>

\* Mutant: a response is taken although others wait for it.
nb_transport_takes_any(c) ==
  /\ pc[c] = "idle" /\ calls[c] < MaxCalls[c]
  /\ Room(m_request_fifo)
  /\ m_request_fifo' = push_back(m_request_fifo, <<c, calls[c] + 1>>)
  /\ write(<<c, calls[c] + 1>>)
  /\ IF ~is_empty(m_response_fifo)
     THEN /\ m_response_fifo' = pop_front(m_response_fifo)
          /\ returned' = <<c, Head(m_response_fifo.m)>>
          /\ UNCHANGED orphans
     ELSE orphans' = orphans + 1 /\ UNCHANGED <<m_response_fifo, returned>>
  /\ calls' = [calls EXCEPT ![c] = @ + 1]
  /\ flush_error' = FALSE
  /\ UNCHANGED <<pc, serving, lost, killed_gets, kills>>

\* The request stays in the channel if the response is not there yet, which it
\* never is for this request; a response that is there was for somebody else.
nb_transport(c) ==
  /\ pc[c] = "idle" /\ calls[c] < MaxCalls[c]
  /\ Room(m_request_fifo)
  /\ LET request == <<c, calls[c] + 1>>
     IN  /\ m_request_fifo' = push_back(m_request_fifo, request)
         /\ write(request)
  /\ IF Unclaimed(m_response_fifo)
     THEN /\ m_response_fifo' = pop_front(m_response_fifo)
          /\ returned' = <<c, Head(m_response_fifo.m)>>
          /\ UNCHANGED orphans
     ELSE /\ orphans' = orphans + 1
          /\ UNCHANGED <<m_response_fifo, returned>>
  /\ calls' = [calls EXCEPT ![c] = @ + 1]
  /\ flush_error' = FALSE
  /\ UNCHANGED <<pc, serving, lost, killed_gets, kills>>

-----------------------------------------------------------------------------
(***************************************************************************)
(* The slave: a loop that gets a request, by a get, a peek and a get, or a *)
(* try_get when can_get allows it, and puts the response.                  *)
(***************************************************************************)
SlaveOnly == UNCHANGED <<analysis_fifo, calls, returned, orphans, lost, killed_gets, kills>>

slave_get ==
  /\ \/ pc[slave] = "idle"
     \/ pc[slave] = "peek" /\ can_peek(m_request_fifo)
  /\ m_request_fifo' = get(m_request_fifo, slave)
  /\ Goto(slave, "get")
  /\ flush_error' = FALSE
  /\ SlaveOnly /\ UNCHANGED <<m_response_fifo, serving>>

slave_peek ==
  /\ pc[slave] = "idle"
  /\ Goto(slave, "peek")
  /\ flush_error' = FALSE
  /\ SlaveOnly /\ UNCHANGED <<m_request_fifo, m_response_fifo, serving>>

slave_got ==
  /\ \/ /\ pc[slave] = "get" /\ get_ready(m_request_fifo, slave)
        /\ m_request_fifo' = get_ends(m_request_fifo)
     \/ /\ pc[slave] = "idle" /\ can_get(m_request_fifo) /\ Unclaimed(m_request_fifo)
        /\ m_request_fifo' = pop_front(m_request_fifo)
  /\ serving' = Head(m_request_fifo.m)
  /\ m_response_fifo' = put(m_response_fifo, slave)
  /\ Goto(slave, "put")
  /\ flush_error' = FALSE
  /\ SlaveOnly

slave_put ==
  /\ pc[slave] = "put" /\ put_ready(m_response_fifo, slave)
  /\ m_response_fifo' = put_ends(m_response_fifo, serving)
  /\ serving' = None
  /\ Goto(slave, "idle")
  /\ flush_error' = FALSE
  /\ SlaveOnly /\ UNCHANGED m_request_fifo

-----------------------------------------------------------------------------
scoreboard_get ==
  /\ \/ /\ pc[scoreboard] = "idle"
        /\ analysis_fifo' = get(analysis_fifo, scoreboard)
        /\ Goto(scoreboard, "get")
     \/ /\ pc[scoreboard] = "get" /\ get_ready(analysis_fifo, scoreboard)
        /\ analysis_fifo' = get_ends(analysis_fifo)
        /\ Goto(scoreboard, "idle")
  /\ flush_error' = FALSE
  /\ UNCHANGED <<m_request_fifo, m_response_fifo, calls, serving, returned, orphans,
                 lost, killed_gets, kills>>

\* By another thread of the scoreboard, at a reset of the design.
scoreboard_flush ==
  /\ analysis_fifo' = flush(analysis_fifo)
  /\ flush_error' = flush_failed(analysis_fifo')
  /\ UNCHANGED <<m_request_fifo, m_response_fifo, pc, calls, serving, returned, orphans,
                 lost, killed_gets, kills>>

\* A caller that is killed is gone; the slave and the scoreboard start over. What
\* the slave was about to put is lost.
kill(p) ==
  /\ kills < MaxKills
  /\ pc[p] \in {"peek", "put", "get"}
  /\ m_request_fifo' = Killed(m_request_fifo, p)
  /\ m_response_fifo' = Killed(m_response_fifo, p)
  /\ analysis_fifo' = Killed(analysis_fifo, p)
  /\ Goto(p, IF p \in Callers THEN "dead" ELSE "idle")
  /\ kills' = kills + 1
  /\ LET fifo == IF p = slave THEN "request"
                 ELSE IF p = scoreboard THEN "analysis" ELSE "response"
     IN  killed_gets' = IF pc[p] = "get" THEN [killed_gets EXCEPT ![fifo] = @ + 1]
                        ELSE killed_gets
  /\ orphans' = IF p \in Callers /\ pc[p] = "get" THEN orphans + 1 ELSE orphans
  /\ IF p = slave /\ pc[p] = "put" THEN lost' = lost + 1 /\ serving' = None
     ELSE UNCHANGED <<lost, serving>>
  /\ flush_error' = FALSE
  /\ UNCHANGED <<calls, returned>>

Next ==
  \/ \E c \in Callers : transport(c) \/ transport_put(c) \/ transport_get(c) \/ nb_transport(c)
  \/ slave_get \/ slave_peek \/ slave_got \/ slave_put
  \/ scoreboard_get \/ scoreboard_flush
  \/ \E p \in Callers \union {slave, scoreboard} : kill(p)

Spec == Init /\ [][Next]_vars

\* A thread that can go on does; the slave's loop runs for ever.
FairSpec ==
  /\ Spec
  /\ \A c \in Callers : WF_vars(transport_put(c)) /\ WF_vars(transport_get(c))
  /\ WF_vars(slave_get \/ slave_got) /\ WF_vars(slave_put)
=============================================================================
