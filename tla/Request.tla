------------------------------- MODULE Request -------------------------------
(***************************************************************************)
(* One proxied request after another (proxy/src/handler: mod.rs,           *)
(* forward.rs, record.rs): the handler admits it to the pool, selects a    *)
(* backend, sends it there and waits, may send it to another one, and      *)
(* hands the answer over to be written out; what the request holds of the  *)
(* pool and of the backend is given back, and the request reported, when   *)
(* its record is dropped, wherever that happens.                           *)
(*                                                                         *)
(* The steps of one request interleave with those of others and with the   *)
(* polls of its body, which the connection to the backend makes.           *)
(***************************************************************************)
EXTENDS LoadBalancing, Answers, SendProgress

CONSTANTS
  Requests,      \* the requests a behaviour may have
  Kinds,         \* Kinds[r]: what r may be, of [grpc, idempotent, frames]
  MaxInFlight,   \* the pool's max_in_flight
  RateLimits,    \* whether the pool has a rate it may be over
  Early,         \* the refusals met before forwarding, of EarlyRefusals
  Reported,      \* the failures the upstream client may report
  Key,           \* Key[r]: the hash of the client's address
  MaxReply,      \* the most frames of an answer's body
  CounterMax,    \* the pool's counter counts 0..CounterMax
  None

ASSUME MaxInFlightAssumption == MaxInFlight \in Nat \ {0}
ASSUME RequestsAssumption == IsFiniteSet(Requests)
ASSUME NoneAssumption == None \notin Nat /\ None \notin Backends /\ None \notin Refusals
ASSUME CounterAssumption == CounterMax \in Nat
ASSUME KindsAssumption ==
  \A r \in Requests :
    Kinds[r] \subseteq [grpc : BOOLEAN, idempotent : BOOLEAN, frames : 0..MaxBody]

VARIABLES
  at,                   \* where the handler of each request is
  kind, attempts, sent,
  chosen,               \* the backend select returned, its guard in hand
  busy,                 \* the backend of UpstreamLeg::busy
  answer,               \* the answer being written: status, code, error, left
  termination,
  load, counter,
  in_flight,            \* the pool's
  upstream_in_flight,   \* the gauge, by backend
  requests_in_flight,   \* the gauge
  reached, performed    \* whether this attempt reached its backend; how many did

handler == <<at, kind, attempts, chosen, busy, answer, termination>>
pool == <<load, counter, in_flight>>
metrics == <<upstream_in_flight, requests_in_flight>>
history == <<reached, performed>>
vars == <<handler, sent, pool, metrics, history>>

(* "full" and "counted" are within Pool::admit, "overdue" between the      *)
(* timeout and the look at who is to blame for it.                         *)
Phases == {"idle", "admitting", "full", "counted", "selecting", "chosen",
           "waiting", "overdue", "answering", "done"}

EarlyRefusals ==
  {"HostConflict", "HostMissing", "Misdirected", "NoRoute", "PoolNotFound",
   "UnsupportedTarget", "UpgradeNotSupported"}

ASSUME EarlyAssumption == Early \subseteq EarlyRefusals

(* The handler is told no kind of failure the client does not report.      *)
ASSUME ReportedAssumption == Reported \subseteq FailureKinds \cup {"ProtocolRefused"}

(* forward's own Arc of the pool's place is alive.                         *)
Forwarding(r) == at[r] \in {"selecting", "chosen", "waiting", "overdue"}

Replayable(r) == IsReplayable(kind[r].idempotent, kind[r].frames > 0)

Ring == BuildRing

TypeOK ==
  /\ at \in [Requests -> Phases]
  /\ \A r \in Requests : kind[r] = None \/ kind[r] \in Kinds[r]
  /\ attempts \in [Requests -> 0..MaxAttempts]
  /\ \A r \in Requests : sent[r] = None \/ sent[r] \in Sent
  /\ chosen \in [Requests -> Backends \cup {None}]
  /\ busy \in [Requests -> Backends \cup {None}]
  /\ \A r \in Requests : answer[r] = None \/ answer[r].error \in Refusals \cup {None}
  /\ termination \in [Requests -> {"Complete", "ClientAbort", "UpstreamAbort"}]
  /\ load \in [Backends -> Nat] /\ upstream_in_flight \in [Backends -> Nat]
  /\ counter \in 0..CounterMax
  /\ in_flight \in Nat /\ requests_in_flight \in Nat
  /\ performed \in [Requests -> 0..MaxAttempts]

Init ==
  /\ at = [r \in Requests |-> "idle"]
  /\ kind = [r \in Requests |-> None]
  /\ attempts = [r \in Requests |-> 0]
  /\ sent = [r \in Requests |-> None]
  /\ chosen = [r \in Requests |-> None]
  /\ busy = [r \in Requests |-> None]
  /\ answer = [r \in Requests |-> None]
  /\ termination = [r \in Requests |-> "ClientAbort"]
  /\ load = [b \in Backends |-> 0]
  /\ counter = 0
  /\ in_flight = 0
  /\ upstream_in_flight = [b \in Backends |-> 0]
  /\ requests_in_flight = 0
  /\ reached = [r \in Requests |-> FALSE]
  /\ performed = [r \in Requests |-> 0]

-----------------------------------------------------------------------------
(* What a request is busy with is let go of: one guard of the backend.     *)
Without(counts, b) == IF b = None THEN counts ELSE [counts EXCEPT ![b] = @ - 1]

GuardOf(b) == IF Policy = "LeastRequest" THEN b ELSE None

DropBusy(r) ==
  /\ load' = Without(load, GuardOf(busy[r]))
  /\ upstream_in_flight' = Without(upstream_in_flight, busy[r])
  /\ busy' = [busy EXCEPT ![r] = None]

(* RequestRecord::respond: the record goes with the answer; a body that is *)
(* empty has ended already.  What the record knows of the attempts is only *)
(* logged from here on.                                                    *)
Respond(r, a) ==
  /\ attempts' = [attempts EXCEPT ![r] = 0]
  /\ reached' = [reached EXCEPT ![r] = FALSE]
  /\ performed' = [performed EXCEPT ![r] = 0]
  /\ at' = [at EXCEPT ![r] = "answering"]
  /\ answer' = [answer EXCEPT ![r] = a]
  /\ termination' = [termination EXCEPT ![r] = IF a.left = 0 THEN "Complete" ELSE @]

(* An answer of GFE's own, for why it refuses.                             *)
Refused(r, why, grpc) ==
  LET refusal == Refusal(why, grpc)
  IN [status |-> refusal.status, code |-> refusal.code, error |-> why,
      left |-> refusal.body]

Own(status, frames) ==
  [status |-> status, code |-> NoCode, error |-> None, left |-> frames]

(* Proxy::handle up to forward: refused for its host or its route, or      *)
(* answered by the route itself, or on its way to a pool.                  *)
Handle(r, k) ==
  /\ at[r] = "idle"
  /\ kind' = [kind EXCEPT ![r] = k]
  /\ requests_in_flight' = requests_in_flight + 1
  /\ \/ /\ at' = [at EXCEPT ![r] = "admitting"]
        /\ UNCHANGED <<attempts, answer, termination, history>>
     \/ \E why \in Early : Respond(r, Refused(r, why, k.grpc))
     \/ Respond(r, Own(308, 0))
     \/ Respond(r, Own(200, 1))
  /\ UNCHANGED <<chosen, busy, sent, pool, upstream_in_flight>>

(* The comparison off by one.                                              *)
AdmitOneMore(r) ==
  /\ at[r] = "admitting"
  /\ in_flight' = in_flight + 1
  /\ at' = [at EXCEPT ![r] = IF in_flight > MaxInFlight THEN "full" ELSE "counted"]
  /\ UNCHANGED <<kind, attempts, chosen, busy, answer, termination, sent,
                 load, counter, metrics, history>>

(* Pool::admit counts the request first and looks second.                  *)
Admit(r) ==
  /\ at[r] = "admitting"
  /\ in_flight' = in_flight + 1
  /\ at' = [at EXCEPT ![r] = IF in_flight >= MaxInFlight THEN "full" ELSE "counted"]
  /\ UNCHANGED <<kind, attempts, chosen, busy, answer, termination, sent,
                 load, counter, metrics, history>>

(* ... and gives the place of one too many back.                           *)
TurnAway(r) ==
  /\ at[r] = "full"
  /\ in_flight' = in_flight - 1
  /\ Respond(r, Refused(r, "PoolFull", kind[r].grpc))
  /\ UNCHANGED <<kind, chosen, busy, sent, load, counter,
                 metrics>>

OverRate(r) ==
  /\ at[r] = "counted" /\ RateLimits
  /\ in_flight' = in_flight - 1
  /\ Respond(r, Refused(r, "PoolRateLimited", kind[r].grpc))
  /\ UNCHANGED <<kind, chosen, busy, sent, load, counter,
                 metrics>>

Admitted(r) ==
  /\ at[r] = "counted"
  /\ at' = [at EXCEPT ![r] = "selecting"]
  /\ sent' = [sent EXCEPT ![r] = Begin(~ Replayable(r), kind[r].frames)]
  /\ UNCHANGED <<kind, attempts, chosen, busy, answer, termination, pool,
                 metrics, history>>

(* forward returns without a response: its place in the pool and the       *)
(* backend's go, and the client is told why.                               *)
GiveUp(r, why) ==
  /\ in_flight' = in_flight - 1
  /\ DropBusy(r)
  /\ Respond(r, Refused(r, why, kind[r].grpc))
  /\ sent' = [sent EXCEPT ![r] = None]

NoneHealthy(r) ==
  /\ at[r] = "selecting"
  /\ GiveUp(r, "NoHealthyUpstream")
  /\ UNCHANGED <<kind, chosen, counter, requests_in_flight>>

(* Pool::select: the health map says what it says at the moment it is      *)
(* read.  The backend of a failed attempt still counts as busy.            *)
Select(r) ==
  /\ at[r] = "selecting"
  /\ \E health \in SUBSET Backends :
       /\ \E b \in Backends :
            /\ b \in Chosen(Ring, health, load, counter, Key[r])
            /\ chosen' = [chosen EXCEPT ![r] = b]
       /\ counter' = IF Rotates(Ring, health, Key[r])
                     THEN (counter + 1) % (CounterMax + 1) ELSE counter
  /\ at' = [at EXCEPT ![r] = "chosen"]
  /\ UNCHANGED <<kind, attempts, busy, answer, termination, sent, load, in_flight, metrics, history>>

(* The guard of the choice, BackendBusy::new and RequestRecord::attempting *)
(* (the mark of the attempt before goes with the new one in place), and    *)
(* the request is sent.                                                    *)
Attempt(r) ==
  /\ at[r] = "chosen"
  /\ LET b == chosen[r]
         More(counts, x) == IF x = None THEN counts ELSE [counts EXCEPT ![x] = @ + 1]
     IN /\ load' = Without(More(load, GuardOf(b)), GuardOf(busy[r]))
        /\ upstream_in_flight' = Without(More(upstream_in_flight, b), busy[r])
        /\ busy' = [busy EXCEPT ![r] = b]
  /\ chosen' = [chosen EXCEPT ![r] = None]
  /\ attempts' = [attempts EXCEPT ![r] = @ + 1]
  /\ sent' = [sent EXCEPT ![r] = AttemptStarted(@)]
  /\ reached' = [reached EXCEPT ![r] = FALSE]
  /\ at' = [at EXCEPT ![r] = "waiting"]
  /\ UNCHANGED <<kind, answer, termination, counter, in_flight,
                 requests_in_flight, performed>>

(* The attempt gets to the backend, which may do what it asks.             *)
Reach(r) ==
  /\ at[r] = "waiting" /\ ~ reached[r]
  /\ reached' = [reached EXCEPT ![r] = TRUE]
  /\ performed' = [performed EXCEPT ![r] = @ + 1]
  /\ UNCHANGED <<handler, sent, pool, metrics>>

(* The body of a request that is not replayable is polled, by the task of  *)
(* the connection.                                                         *)
Poll(r) ==
  /\ at[r] \in {"waiting", "overdue"} /\ ~ Replayable(r)
  /\ \E s \in Polls(sent[r]) \ {sent[r]} : sent' = [sent EXCEPT ![r] = s]
  /\ UNCHANGED <<handler, pool, metrics, history>>

(* A response head: the backend stays busy while its body is relayed.      *)
Reply(r) ==
  /\ at[r] = "waiting" /\ reached[r]
  /\ \E frames \in 0..MaxReply :
       Respond(r, [status |-> 200, code |-> NoCode, error |-> None, left |-> frames])
  /\ sent' = [sent EXCEPT ![r] = None]
  /\ UNCHANGED <<kind, chosen, busy, pool, metrics>>

(* The record is dropped: the request is reported, all it still holds is   *)
(* let go of (places: of the pool, forward's and busy's being one) and     *)
(* nothing is left of it.                                                  *)
Report(r, places) ==
  /\ at' = [at EXCEPT ![r] = "done"]
  /\ DropBusy(r)
  /\ in_flight' = in_flight - places
  /\ requests_in_flight' = requests_in_flight - 1
  /\ kind' = [kind EXCEPT ![r] = None]
  /\ attempts' = [attempts EXCEPT ![r] = 0]
  /\ sent' = [sent EXCEPT ![r] = None]
  /\ answer' = [answer EXCEPT ![r] = None]
  /\ termination' = [termination EXCEPT ![r] = "ClientAbort"]
  /\ reached' = [reached EXCEPT ![r] = FALSE]
  /\ performed' = [performed EXCEPT ![r] = 0]
  /\ UNCHANGED <<chosen, counter>>

(* The exchange with the backend fails.  A request that broke off ends     *)
(* there; one that may be retried is selected for again, everything it     *)
(* holds kept; another is refused.                                         *)
SendFails(r) ==
  /\ at[r] = "waiting"
  /\ \E reported \in Reported :
       LET failure == Classify(reported)
       IN /\ reached[r] => failure \in {"Reset", "Other"}
          /\ IF sent[r].failed
             THEN Report(r, 1)
             ELSE /\ UNCHANGED <<kind, chosen, counter,
                                 requests_in_flight>>
                  /\ IF MayRetry(Replayable(r), attempts[r], failure)
                     THEN /\ at' = [at EXCEPT ![r] = "selecting"]
                          /\ UNCHANGED <<busy, load, upstream_in_flight, in_flight,
                                         sent, attempts, answer, termination, history>>
                     ELSE GiveUp(r, failure)

(* The deadline read once, when the sleep began.                           *)
WakeOnce(r) ==
  /\ at[r] = "waiting" /\ ~ kind[r].grpc
  /\ sent[r].elapsed >= sent[r].wake
  /\ at' = [at EXCEPT ![r] = "overdue"]
  /\ UNCHANGED <<kind, attempts, chosen, busy, answer, termination, sent, pool,
                 metrics, history>>

(* Only a request sent in full is timed.                                   *)
WakeWhenSent(r) ==
  /\ at[r] = "waiting" /\ ~ kind[r].grpc
  /\ sent[r].completed # NotCompleted
  /\ sent[r].elapsed >= sent[r].wake
  /\ IF sent[r].elapsed >= ResponseDeadline(sent[r])
     THEN at' = [at EXCEPT ![r] = "overdue"] /\ UNCHANGED sent
     ELSE sent' = [sent EXCEPT ![r] = Sleep(@)] /\ UNCHANGED at
  /\ UNCHANGED <<kind, attempts, chosen, busy, answer, termination, pool,
                 metrics, history>>

(* overdue wakes: the deadline may have moved while it slept.  A gRPC call *)
(* is not timed.                                                           *)
Wake(r) ==
  /\ at[r] = "waiting" /\ ~ kind[r].grpc
  /\ sent[r].elapsed >= sent[r].wake
  /\ IF sent[r].elapsed >= ResponseDeadline(sent[r])
     THEN at' = [at EXCEPT ![r] = "overdue"] /\ UNCHANGED sent
     ELSE sent' = [sent EXCEPT ![r] = Sleep(@)] /\ UNCHANGED at
  /\ UNCHANGED <<kind, attempts, chosen, busy, answer, termination, pool,
                 metrics, history>>

(* The client, if it was what the request last waited for, else the        *)
(* backend.                                                                *)
Blame(r) ==
  /\ at[r] = "overdue"
  /\ GiveUp(r, IF sent[r].pending THEN "RequestBodyTimeout" ELSE "Timeout")
  /\ UNCHANGED <<kind, chosen, counter, requests_in_flight>>

(* The client's connection goes: the handler is dropped where it waits.    *)
Leave(r) ==
  /\ at[r] = "waiting"
  /\ Report(r, 1)

Relayed(r) == busy[r] # None

(* ObservedBody::poll_frame: a frame, which may end the body; the end; the *)
(* failure of the backend's.                                               *)
Write(r) ==
  /\ at[r] = "answering" /\ termination[r] = "ClientAbort"
  /\ \/ /\ answer[r].left > 0
        /\ answer' = [answer EXCEPT ![r].left = @ - 1]
        /\ \E ended \in BOOLEAN :
             /\ ended => answer[r].left = 1
             /\ ~ Relayed(r) => ended
             /\ termination' = [termination EXCEPT ![r] = IF ended THEN "Complete" ELSE @]
     \/ /\ answer[r].left = 0 /\ UNCHANGED answer
        /\ termination' = [termination EXCEPT ![r] = "Complete"]
     \/ /\ Relayed(r) /\ UNCHANGED answer
        /\ termination' = [termination EXCEPT ![r] = "UpstreamAbort"]
  /\ UNCHANGED <<at, kind, attempts, chosen, busy, sent, pool, metrics, history>>

(* The mark of the backend leaves the pool's place behind.                 *)
FinishKeepingThePlace(r) == at[r] = "answering" /\ Report(r, 0)

(* hyper is done with the body: it was written, it failed or the client is *)
(* gone.                                                                   *)
Finish(r) ==
  /\ at[r] = "answering"
  /\ Report(r, IF Relayed(r) THEN 1 ELSE 0)

(* Time passes while every request waits for somebody else, and no further *)
(* than the end of a sleep.                                                *)
Timed(r) == at[r] = "waiting" /\ ~ kind[r].grpc

Tick ==
  /\ \E r \in Requests : Timed(r)
  /\ \A r \in Requests :
       /\ at[r] \in {"idle", "waiting", "answering", "done"}
       /\ Timed(r) => sent[r].elapsed < sent[r].wake
  /\ sent' = [r \in Requests |-> IF Timed(r) THEN [sent[r] EXCEPT !.elapsed = @ + 1]
                                 ELSE sent[r]]
  /\ UNCHANGED <<handler, pool, metrics, history>>

Step(r) ==
  \/ Admit(r) \/ TurnAway(r) \/ OverRate(r) \/ Admitted(r)
  \/ NoneHealthy(r) \/ Select(r) \/ Attempt(r) \/ Wake(r) \/ Blame(r)

Next ==
  \/ \E r \in Requests :
       \/ \E k \in Kinds[r] : Handle(r, k)
       \/ Step(r)
       \/ Reach(r) \/ Poll(r) \/ Reply(r) \/ SendFails(r) \/ Leave(r)
       \/ Write(r) \/ Finish(r)
  \/ Tick

Spec == Init /\ [][Next]_vars

(* A task whose turn it is runs, timers fire and time passes; clients,     *)
(* backends and health checks owe nothing.                                 *)
FairSpec ==
  /\ Spec
  /\ \A r \in Requests : WF_vars(Step(r))
  /\ WF_vars(Tick)

-----------------------------------------------------------------------------
Counted(r) == at[r] \in {"full", "counted"} \/ Forwarding(r) \/ busy[r] # None

(* Whatever way a request ends (answered, refused, retried, timed out, its *)
(* client gone while it is sent, while its body is, or while the answer is *)
(* written), the places it took are given back, no more and no fewer: the  *)
(* counters of the pool and of its backends and both gauges say how many   *)
(* requests there are.                                                     *)
PlacesAreHeld ==
  /\ in_flight = Cardinality({r \in Requests : Counted(r)})
  /\ \A b \in Backends :
       /\ upstream_in_flight[b] = Cardinality({r \in Requests : busy[r] = b})
       /\ Policy = "LeastRequest" => load[b] = upstream_in_flight[b]
  /\ requests_in_flight =
       Cardinality({r \in Requests : at[r] \notin {"idle", "done"}})

(* The pool's max_in_flight is a concurrency limit, and what is told of    *)
(* those holds of it: a place is taken by counting first and looking       *)
(* second, a request keeps its own through every attempt.                  *)
PermitOf(r) ==
  CASE at[r] = "full" -> "refused"
    [] at[r] = "counted" \/ Forwarding(r) \/ (at[r] = "answering" /\ busy[r] # None) -> "held"
    [] at[r] \in {"idle", "admitting", "done"} \/ (at[r] = "answering" /\ busy[r] = None) -> "none"

Places == INSTANCE ConcurrencyLimit WITH
  Callers <- Requests, Max <- MaxInFlight, NoMax <- None,
  in_use <- in_flight, permit <- [r \in Requests |-> PermitOf(r)]

PoolIsALimit == Places!Spec

(* A request that is not both idempotent and without a body reaches at     *)
(* most one backend, whatever fails and when: forward, which decides       *)
(* whether to try again, cannot tell a request the backend has performed   *)
(* from one it has not.                                                    *)
NeverSentTwice ==
  \A r \in Requests : performed[r] > 1 => Replayable(r) /\ performed[r] <= MaxAttempts

(* Nobody waits on a silent backend for longer than the timeouts say: a    *)
(* request sent in full not longer than request_total, over all its        *)
(* attempts together, and none longer than upstream_first_byte after       *)
(* something was last sent.  (A request_total that is the shorter of the   *)
(* two is not kept to: overdue sleeps on when the body ends.)              *)
WaitBounded ==
  \A r \in Requests : Timed(r) =>
    /\ sent[r].elapsed <= sent[r].last + FirstByte
    /\ sent[r].completed # NotCompleted /\ FirstByte <= RequestTotal =>
         sent[r].elapsed <= sent[r].completed + RequestTotal

(* What the handler keeps of a request is what it may be at that point,    *)
(* and nobody is kept waiting.                                             *)
HandlerPromises == TypeOK /\ WaitBounded

(* The handler gives up on a backend only when it has been silent for that *)
(* long: the client that kept sending while overdue slept moved the        *)
(* deadline.                                                               *)
NotGivenUpEarly ==
  [][\A r \in Requests : at[r] = "waiting" /\ at'[r] = "overdue" =>
       \/ sent[r].elapsed >= sent[r].last + FirstByte
       \/ /\ sent[r].completed # NotCompleted
          /\ sent[r].elapsed >= sent[r].completed + RequestTotal]_vars

(* A client is told it was too slow only if its body was incomplete, and   *)
(* its breaking off is not held against a backend, unless the backend was  *)
(* overdue by then too.                                                    *)
BlamesFairly ==
  [][\A r \in Requests : at[r] \in {"waiting", "overdue"} /\ at'[r] = "answering" =>
       /\ answer'[r].error = "RequestBodyTimeout" => sent[r].completed = NotCompleted
       /\ sent[r].failed => answer'[r].error \in {None, "Timeout"}]_vars

(* So whoever is given up on deserves it, and is the one who is told.      *)
GivesUpFairly == NotGivenUpEarly /\ BlamesFairly

(* A request that is not a gRPC call does not hang: with nothing from the  *)
(* client or the backend, it is answered all the same.                     *)
Answered ==
  \A r \in Requests : Timed(r) ~> at[r] \in {"answering", "done"}
=============================================================================
