------------------------------ MODULE MCServing ------------------------------
(***************************************************************************)
(* What serves a request, for TLC: the handler, the connection the request *)
(* comes in on and the client it is sent on with.  They meet only through  *)
(* hyper, so a behaviour is of one of them, the others staying as they     *)
(* start; the handler meets the client as the failures it may report.      *)
(***************************************************************************)
EXTENDS Request, TLC

CONSTANTS
  HandshakeTimeout, HeaderTimeout, IdleTimeout, DrainIdleGrace, CloseGrace,
  Streams, Late, MaxTime, Never,
  Sends, Slots, MaxConnections, ConnectTimeout, Unlimited, Nobody

VARIABLES
  part,
  phase, reason, http1, now, head, stream, requests, streams_in_flight, idle_since,
  drain, changed, draining, told_to_close, shut_down_for, leave_by, watchdog,
  ended, after,
  in_use, permit, conn, send

Edge == INSTANCE Connection WITH in_flight <- streams_in_flight
Client == INSTANCE Upstream

ASSUME EdgeAssumption == Edge!ValidOptions

get == [grpc |-> FALSE, idempotent |-> TRUE, frames |-> 0]
post == [grpc |-> FALSE, idempotent |-> FALSE, frames |-> 1]
call == [grpc |-> TRUE, idempotent |-> FALSE, frames |-> 1]
MCKinds == [r \in Requests |-> {get, post, call}]
MCWeight == <<1, 1>>
MCHash == <<<<1>>, <<2>>>>
MCKey == [r \in Requests |-> 1]

-----------------------------------------------------------------------------
edge == <<phase, reason, http1, now, head, stream, requests, streams_in_flight,
          idle_since, drain, changed, draining, told_to_close, shut_down_for,
          leave_by, watchdog, ended, after>>
client == <<in_use, permit, conn, send>>

ServingInit ==
  /\ Init /\ Edge!Init /\ Client!Init
  /\ part \in {"handler", "edge", "client"}
  /\ part = "edge" \/ (phase = "handshake" /\ http1)

ServingNext ==
  /\ \/ part = "handler" /\ Next /\ UNCHANGED <<edge, client>>
     \/ part = "edge" /\ Edge!Next /\ UNCHANGED <<vars, client>>
     \/ part = "client" /\ Client!Next /\ UNCHANGED <<vars, edge>>
  /\ UNCHANGED part

(* The fairness of Request's FairSpec.                                     *)
ServingSpec ==
  /\ ServingInit /\ [][ServingNext]_<<part, vars, edge, client>>
  /\ \A r \in Requests : WF_vars(Step(r))
  /\ WF_vars(Tick)

-----------------------------------------------------------------------------
(* Connection: the timers cut no request off, shut none down for being idle*)
(* too soon and see a head that came in time; a silent connection is gone  *)
(* by the timeouts and the grace; one that drains is asked to leave, and   *)
(* begins one more request at most.                                        *)
EdgePromises ==
  /\ [](part = "edge" => Edge!TypeOK /\ Edge!SilenceEnds /\ Edge!AskedToLeave /\ Edge!OneMoreAtMost)
  /\ Edge!NeverCutShort /\ Edge!NotIdleTooSoon /\ Edge!SeenInTime

(* Upstream: every connection, and nothing else, has a place under the cap;*)
(* one deadline covers all the steps of opening one; it is used for the    *)
(* protocol it agreed to; a failure to connect is of a request not sent.   *)
ClientPromises ==
  part = "client" =>
    /\ Client!TypeOK
    /\ Client!UnderTheCap /\ Client!ConnectionsAreCounted
    /\ Client!DialsEnd /\ Client!SpokenAsAgreed /\ Client!ConnectKindsMeanUnsent
=============================================================================
