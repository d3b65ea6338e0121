--------------------------- MODULE TlmProperties ---------------------------
(***************************************************************************)
(* What a transport channel keeps, and how it degrades when threads that   *)
(* wait in it are killed.                                                  *)
(***************************************************************************)
EXTENDS TlmChannel

\* The callers of the requests that are in the channel, the oldest first.
InFlight ==
  [i \in 1 .. Len(m_response_fifo.m) |-> m_response_fifo.m[i][1]]
    \o (IF serving = None THEN <<>> ELSE <<serving[1]>>)
    \o [i \in 1 .. Len(m_request_fifo.m) |-> m_request_fifo.m[i][1]]

(***************************************************************************)
(* transport is a put and a get (uvm_tlm_req_rsp.svh:336): nothing ties a  *)
(* response to its caller but the order in which they wait.  That order is *)
(* the one of the requests in the channel, unless a caller was killed or   *)
(* did not wait (nb_transport), or the slave was killed before it had put  *)
(* its response; after that there are for ever as many more requests than  *)
(* callers as there were calls of the first kind, less those of the other. *)
(***************************************************************************)
ResponsesInOrder ==
  /\ Len(InFlight) + lost = Len(m_response_fifo.gets) + orphans
  /\ orphans = 0 /\ lost = 0 =>
       /\ InFlight = m_response_fifo.gets
       /\ returned # None => returned[1] = returned[2][1]

\* "Upon return, the response argument carries the response to the request"
\* (uvm_tlm_req_rsp.svh): a caller gets the answer to a request of its own. After
\* one nb_transport the next transport gets the answer to that.
AnswersItsRequest == returned # None => returned[1] = returned[2][1]

Fifos == {<<m_request_fifo, "request">>, <<m_response_fifo, "response">>,
          <<analysis_fifo, "analysis">>}

(***************************************************************************)
(* If can_get says yes (uvm_tlm_fifos.svh:158), a try_get succeeds. It     *)
(* says no although a try_get would succeed only while a get is blocked,   *)
(* also if there are more items than gets, or if a blocked get of this     *)
(* fifo has been killed: then for ever.                                    *)
(***************************************************************************)
CanGetIsSafe ==
  \A f \in Fifos :
    /\ can_get(f[1]) => Unclaimed(f[1])
    /\ Unclaimed(f[1]) /\ ~can_get(f[1]) => f[1].gets # <<>> \/ killed_gets[f[2]] > 0

\* "Returns 1 if a new transaction can be provided immediately upon request, 0
\* otherwise" (uvm_tlm_ifs.svh): can_get says what try_get would do.
CanGetAsDocumented == \A f \in Fifos : can_get(f[1]) <=> Unclaimed(f[1])

(***************************************************************************)
(* A flush leaves the fifo empty, or there is a get that waits and an      *)
(* error is reported (uvm_tlm_fifos.svh:172); a get that was killed does   *)
(* not raise the error.                                                    *)
(***************************************************************************)
FlushOrError ==
  [][scoreboard_flush =>
       (flush_error' <=> used(analysis_fifo') > 0)
         /\ (flush_error' => analysis_fifo.gets # <<>>)]_vars

(***************************************************************************)
(* Every transport returns or its caller is killed, unless the channel has *)
(* as many orphans more than lost responses as it has places, one in each  *)
(* fifo and one with the slave: three stop it for good; or more responses  *)
(* are lost than there are orphans, and somebody waits for one in vain.    *)
(***************************************************************************)
TransportReturns ==
  \A c \in Callers :
    pc[c] \in {"put", "get"} ~>
      (pc[c] \in {"idle", "dead"} \/ orphans - lost \notin 0..2)
=============================================================================
