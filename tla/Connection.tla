------------------------------ MODULE Connection ------------------------------
(***************************************************************************)
(* One client connection (proxy/src/edge/connection.rs and conn_record.rs, *)
(* lib/http/src/server.rs and server/activity.rs): the TLS handshake, then *)
(* the loop that looks at the connection, at the drain and at one timer,   *)
(* in that order, and what each of them makes of the requests in flight.   *)
(*                                                                         *)
(* hyper is external: it reads heads, calls the service, writes responses  *)
(* out, and ends the connection when it will.  The streams of an HTTP/2    *)
(* connection end on tasks of their own.                                   *)
(***************************************************************************)
EXTENDS Integers, FiniteSets

LOCAL INSTANCE FiniteSetsExt

CONSTANTS
  HandshakeTimeout,   \* timeouts.tls_handshake
  HeaderTimeout,      \* timeouts.request_header
  IdleTimeout,        \* timeouts.client_idle
  DrainIdleGrace,     \* half of timeouts.drain_deadline
  CloseGrace,         \* CLOSE_GRACE
  Streams,            \* the requests a behaviour may have: 1..n
  Late,               \* how late the runtime may look at what is due
  MaxTime,
  Never

(* Edge::new: http_options(..).validate().                                 *)
ValidOptions ==
  {HandshakeTimeout, HeaderTimeout, IdleTimeout, DrainIdleGrace, CloseGrace} \subseteq Nat \ {0}

VARIABLES
  phase,                  \* "handshake", "serving" or "closed"
  reason,                 \* why it closed, as the record has it
  http1,
  now,                    \* since the phase began
  head,                   \* when a head arrived that hyper has not read
  stream,                 \* where each request is
  requests, in_flight, idle_since,   \* ConnActivity
  drain,                  \* what the watch channel holds
  changed, draining,      \* a value not looked at; that it was `true'
  told_to_close,
  shut_down_for, leave_by, watchdog,
  ended, after            \* history: the last end of a request; the requests
                          \* begun after the drain

activity == <<requests, in_flight, idle_since>>
loop == <<changed, draining, shut_down_for, leave_by, watchdog>>
vars == <<phase, reason, http1, now, head, stream, activity, drain, loop,
          told_to_close, ended, after>>

CloseReasons ==
  {"Closed", "Drain", "IdleTimeout", "HeaderTimeout", "ClientAbort",
   "ClientUnresponsive", "ProtocolError"}

Times == 0..MaxTime
Deadlines == 0..(MaxTime + IdleTimeout + HeaderTimeout + DrainIdleGrace + CloseGrace)
Active == {i \in Streams : stream[i] \in {"handling", "writing", "dropping"}}

TypeOK ==
  /\ phase \in {"handshake", "serving", "closed"}
  /\ reason \in CloseReasons \cup
       {Never, "tls_handshake_failed", "tls_handshake_timeout", "shutdown"}
  /\ {http1, drain, changed, draining, told_to_close} \subseteq BOOLEAN
  /\ now \in Times /\ idle_since \in Times /\ ended \in Times
  /\ head \in Times \cup {Never}
  /\ stream \in [Streams -> {"none", "handling", "writing", "dropping", "done"}]
  /\ in_flight = Cardinality(Active)
  /\ requests = Cardinality({i \in Streams : stream[i] # "none"})
  /\ shut_down_for \in {Never, "Drain", "IdleTimeout"}
  /\ leave_by \in Deadlines \cup {Never} /\ watchdog \in Deadlines

(* serve begins: the watchdog looks when either timer could first be due,  *)
(* and mark_changed has the drain looked at once.                          *)
Init ==
  /\ phase \in {"handshake", "serving"}
  /\ http1 \in BOOLEAN
  /\ reason = Never /\ now = 0 /\ head = Never
  /\ stream = [i \in Streams |-> "none"]
  /\ requests = 0 /\ in_flight = 0 /\ idle_since = 0
  /\ drain = FALSE /\ changed = TRUE /\ draining = FALSE
  /\ told_to_close = FALSE
  /\ shut_down_for = Never /\ leave_by = Never
  /\ watchdog = Min({HeaderTimeout, IdleTimeout})
  /\ ended = 0 /\ after = 0

(* The record is dropped with why it closed; what was in flight is dropped *)
(* with the connection.                                                    *)
Close(why) ==
  /\ phase' = "closed"
  /\ reason' = why
  /\ stream' = [i \in Streams |-> IF i \in Active THEN "done" ELSE stream[i]]
  /\ in_flight' = 0
  /\ head' = Never
  /\ UNCHANGED <<http1, now, requests, idle_since, drain, loop, told_to_close,
                 ended, after>>

-----------------------------------------------------------------------------
Handshake ==
  /\ phase = "handshake"
  /\ \/ /\ phase' = "serving" /\ now' = 0
        /\ UNCHANGED <<reason, http1, head, stream, activity, drain, loop,
                       told_to_close, ended, after>>
     \/ Close("tls_handshake_failed")

HandshakeTimesOut ==
  /\ phase = "handshake" /\ now >= HandshakeTimeout
  /\ Close("tls_handshake_timeout")

(* The client sends a request.                                             *)
HeadArrives ==
  /\ phase = "serving" /\ head = Never
  /\ \E i \in Streams : stream[i] = "none"
  /\ head' = now
  /\ UNCHANGED <<phase, reason, http1, now, stream, activity, drain, loop,
                 told_to_close, ended, after>>

(* hyper reads a head if it may: over HTTP/1.1 not during another request, *)
(* nor once the connection is to close.                                    *)
CanBegin ==
  /\ phase = "serving" /\ head # Never
  /\ http1 => Active = {} /\ ~ told_to_close /\ shut_down_for = Never

(* The service is called, in the connection's own task.                    *)
BeginRequest ==
  /\ CanBegin
  /\ \E i \in Streams :
       /\ stream[i] = "none" /\ \A k \in Streams : k < i => stream[k] # "none"
       /\ stream' = [stream EXCEPT ![i] = "handling"]
  /\ requests' = requests + 1 /\ in_flight' = in_flight + 1
  /\ head' = Never
  /\ after' = IF drain THEN after + 1 ELSE after
  /\ UNCHANGED <<phase, reason, http1, now, idle_since, drain, loop,
                 told_to_close, ended>>

(* The drain as the loop last saw it.                                      *)
RespondAsSeen(i) ==
  /\ phase = "serving" /\ stream[i] = "handling"
  /\ stream' = [stream EXCEPT ![i] = "writing"]
  /\ told_to_close' = (told_to_close \/ (http1 /\ draining))
  /\ UNCHANGED <<phase, reason, http1, now, head, activity, drain, loop, ended, after>>

(* The handler is done.  Draining, an HTTP/1.1 client is told to close.    *)
Respond(i) ==
  /\ phase = "serving" /\ stream[i] = "handling"
  /\ stream' = [stream EXCEPT ![i] = "writing"]
  /\ told_to_close' = (told_to_close \/ (http1 /\ drain))
  /\ UNCHANGED <<phase, reason, http1, now, head, activity, drain, loop, ended, after>>

(* When the connection became idle is not noted.                           *)
DropGuardUnstamped(i) ==
  /\ phase = "serving"
  /\ stream[i] = "writing" \/ (stream[i] = "handling" /\ ~ http1)
  /\ in_flight' = in_flight - 1
  /\ stream' = [stream EXCEPT ![i] = "done"]
  /\ ended' = now
  /\ UNCHANGED <<phase, reason, http1, now, head, requests, idle_since, drain, loop,
                 told_to_close, after>>

(* RequestGuard::drop: the body was written out or let go of, or an HTTP/2 *)
(* client reset the stream.  Another task may look between the store and   *)
(* the decrement of an HTTP/2 stream; HTTP/1.1 runs in the loop's own.     *)
DropGuard(i) ==
  /\ phase = "serving"
  /\ stream[i] = "writing" \/ (stream[i] = "handling" /\ ~ http1)
  /\ idle_since' = now
  /\ ended' = now
  /\ stream' = [stream EXCEPT ![i] = IF http1 THEN "done" ELSE "dropping"]
  /\ in_flight' = IF http1 THEN in_flight - 1 ELSE in_flight
  /\ UNCHANGED <<phase, reason, http1, now, head, requests, drain, loop,
                 told_to_close, after>>

Decrement(i) ==
  /\ phase = "serving" /\ stream[i] = "dropping"
  /\ stream' = [stream EXCEPT ![i] = "done"]
  /\ in_flight' = in_flight - 1
  /\ UNCHANGED <<phase, reason, http1, now, head, requests, idle_since, drain,
                 loop, told_to_close, ended, after>>

(* hyper's connection is over: in an orderly way (or shut down before the  *)
(* protocol was known), or with an error that error_close_reason names     *)
(* (over HTTP/1.1 its own wait for the next head is one).                  *)
Ends ==
  /\ phase = "serving"
  /\ \/ /\ Active = {}
        /\ Close(IF told_to_close THEN "Drain"
                 ELSE IF shut_down_for # Never THEN shut_down_for ELSE "Closed")
     \/ http1 /\ requests > 0 /\ Active = {} /\ Close("IdleTimeout")
     \/ ~ http1 /\ requests > 0 /\ Close("ClientUnresponsive")
     \/ \E why \in {"ClientAbort", "ProtocolError"} : Close(why)

DrainBegins ==
  /\ ~ drain /\ phase # "closed"
  /\ drain' = TRUE /\ changed' = TRUE
  /\ UNCHANGED <<phase, reason, http1, now, head, stream, activity, draining,
                 shut_down_for, leave_by, watchdog, told_to_close, ended, after>>

(* The second arm of the loop, the connection having nothing to do.        *)
DrainSeen ==
  /\ phase = "serving" /\ ~ CanBegin
  /\ changed /\ ~ draining
  /\ changed' = FALSE
  /\ draining' = drain
  /\ IF drain /\ shut_down_for = Never /\ in_flight > 0
     THEN shut_down_for' = "Drain" /\ UNCHANGED <<leave_by, watchdog>>
     ELSE /\ UNCHANGED shut_down_for
          /\ IF drain /\ shut_down_for = Never
             THEN /\ leave_by' = now + DrainIdleGrace
                  /\ watchdog' = Min({watchdog, now + DrainIdleGrace})
             ELSE UNCHANGED <<leave_by, watchdog>>
  /\ UNCHANGED <<phase, reason, http1, now, head, stream, activity, drain,
                 told_to_close, ended, after>>

(* The first request's end overlooked: nothing to look at before the       *)
(* header deadline.                                                        *)
VerdictAtTheHeader ==
  LET deadline == IF requests = 0 THEN HeaderTimeout ELSE idle_since + IdleTimeout
  IN IF requests > 0 /\ in_flight > 0
     THEN [due |-> "no", at |-> now + IdleTimeout]
     ELSE [due |-> IF now < deadline THEN "no"
                   ELSE IF requests = 0 THEN "HeaderTimeout" ELSE "IdleTimeout",
           at |-> deadline]

(* Looked at without asking what is in flight.                             *)
VerdictOfIdling ==
  LET deadline == IF requests = 0 THEN HeaderTimeout ELSE idle_since + IdleTimeout
  IN [due |-> IF now < deadline THEN "no"
              ELSE IF requests = 0 THEN "HeaderTimeout" ELSE "IdleTimeout",
      at |-> IF requests = 0 THEN Min({deadline, now + IdleTimeout}) ELSE deadline]

(* ConnActivity::verdict: what is due, else when to look again.            *)
Verdict ==
  LET deadline == IF requests = 0 THEN HeaderTimeout ELSE idle_since + IdleTimeout
  IN IF requests > 0 /\ in_flight > 0
     THEN [due |-> "no", at |-> now + IdleTimeout]
     ELSE [due |-> IF now < deadline THEN "no"
                   ELSE IF requests = 0 THEN "HeaderTimeout" ELSE "IdleTimeout",
           at |-> IF requests = 0 THEN Min({deadline, now + IdleTimeout})
                  ELSE deadline]

(* The next look not brought forward to when a draining connection leaves. *)
NextCheckOfTimers(at, shut_down) == at

NextCheck(at, shut_down) ==
  IF leave_by # Never /\ shut_down = Never THEN Min({at, leave_by}) ELSE at

(* A draining connection that waited long enough is shut down, then the    *)
(* timers are looked at.                                                   *)
LookAtTimers ==
  LET leaves == shut_down_for = Never /\ leave_by # Never /\ now >= leave_by
      shut_down == IF leaves THEN "Drain" ELSE shut_down_for
      idles == Verdict.due = "IdleTimeout" /\ shut_down = Never
  IN IF Verdict.due = "HeaderTimeout" \/ (Verdict.due = "IdleTimeout" /\ ~ idles)
     THEN Close(Verdict.due)
     ELSE /\ shut_down_for' = IF idles THEN "IdleTimeout" ELSE shut_down
          /\ watchdog' = NextCheck(IF idles THEN now + CloseGrace ELSE Verdict.at,
                                   shut_down_for')
          /\ UNCHANGED <<phase, reason, http1, now, head, stream, activity, drain,
                         changed, draining, leave_by, told_to_close, ended, after>>

(* The arms in any order.                                                  *)
WatchdogUnbiased == phase = "serving" /\ now >= watchdog /\ LookAtTimers

(* The third arm, neither of the others having anything.                   *)
Watchdog ==
  /\ phase = "serving" /\ ~ CanBegin /\ ~ (changed /\ ~ draining)
  /\ now >= watchdog
  /\ LookAtTimers

(* The listeners drop the task at the drain deadline.                      *)
Cut ==
  /\ phase # "closed" /\ drain
  /\ Close("shutdown")

(* Time passes; the loop comes to what is due no more than Late after, and *)
(* a guard is dropped within the instant.                                  *)
Tick ==
  /\ phase # "closed" /\ now < MaxTime
  /\ phase = "handshake" => now < HandshakeTimeout + Late
  /\ phase = "serving" =>
       /\ now < watchdog + Late
       /\ CanBegin => now < head + Late
       /\ ~ (changed /\ ~ draining)
       /\ \A i \in Streams : stream[i] # "dropping"
  /\ now' = now + 1
  /\ UNCHANGED <<phase, reason, http1, head, stream, activity, drain, loop,
                 told_to_close, ended, after>>

Next ==
  \/ Handshake \/ HandshakeTimesOut
  \/ HeadArrives \/ BeginRequest
  \/ \E i \in Streams : Respond(i) \/ DropGuard(i) \/ Decrement(i)
  \/ Ends \/ DrainBegins \/ DrainSeen \/ Watchdog \/ Cut
  \/ Tick

Spec == Init /\ [][Next]_vars

-----------------------------------------------------------------------------
(* The timers never cut a request off: whatever its streams do meanwhile,  *)
(* a connection closed for its silence has none in flight.                 *)
NeverCutShort ==
  [][phase = "serving" /\ reason' \in {"HeaderTimeout", "IdleTimeout"} => Active = {}]_vars

(* ... and it is shut down for being idle only after being idle that long, *)
(* though the last requests end on other tasks while the timer looks.      *)
NotIdleTooSoon ==
  [][shut_down_for = Never /\ shut_down_for' = "IdleTimeout"
       => now >= ended + IdleTimeout]_vars

(* A client that sent its first head before the deadline is not told it    *)
(* sent none, however late the runtime finds both, unless the drain had    *)
(* the connection shut down before.                                        *)
SeenInTime ==
  [][phase = "serving" /\ reason' = "HeaderTimeout" /\ shut_down_for = Never
       => head = Never]_vars

(* A silent connection does not stay: with no head it is gone by the       *)
(* header timeout; with no request in flight it is shut down by the idle   *)
(* timeout and gone by the grace after it, whatever hyper and the client   *)
(* make of the shutdown.                                                   *)
SilenceEnds ==
  phase = "serving" =>
    /\ requests = 0 => now <= HeaderTimeout + Late
    /\ requests > 0 /\ Active = {} /\ ~ CanBegin =>
         now <= ended + IdleTimeout + Late
                  + (IF shut_down_for = Never THEN 0 ELSE CloseGrace + Late)

(* A connection that drains is asked to leave: at once with a request in   *)
(* flight, else within the grace.                                          *)
AskedToLeave ==
  phase = "serving" /\ draining /\ shut_down_for = Never =>
    leave_by # Never /\ now <= leave_by + Late

(* Once the drain has begun an HTTP/1.1 connection takes one more request  *)
(* at most: the answer to it says to close, or the shutdown is there       *)
(* first.                                                                  *)
OneMoreAtMost == http1 => after <= 1
=============================================================================
