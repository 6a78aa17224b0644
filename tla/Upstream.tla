------------------------------- MODULE Upstream ------------------------------
(***************************************************************************)
(* The client requests are sent to backends with (lib/http/src/client): a  *)
(* pool of connections for HTTP/1.1 and one for HTTP/2, under one cap,     *)
(* opened by a dialer whose deadline covers the lookup, TCP and TLS, and   *)
(* the kinds its failures are told apart by.  One server is modelled.      *)
(*                                                                         *)
(* The pools are hyper's.  Which connection serves which request is theirs *)
(* to choose: a request takes an idle connection of its pool, or one that  *)
(* speaks HTTP/2, or has one opened; a request that no longer waits leaves *)
(* the opening to go on or drops it.                                       *)
(***************************************************************************)
EXTENDS Integers, Sequences, FiniteSets

CONSTANTS
  Sends,            \* the calls of send
  Slots,            \* the connections there may be, being opened included
  MaxConnections,   \* Options::max_connections
  ConnectTimeout,   \* Options::connect_timeout
  Unlimited, Nobody

VARIABLES
  in_use, permit,   \* ConcurrencyLimit
  conn,             \* the connections
  send              \* the calls

vars == <<in_use, permit, conn, send>>

Limit == INSTANCE ConcurrencyLimit
           WITH Callers <- Slots, Max <- MaxConnections, NoMax <- Unlimited

-----------------------------------------------------------------------------
(* FailureKind::of_connect.  A ConnectError is its variant, that of Tcp and *)
(* of Tls with what the error underneath is.                               *)
OfConnect(error) ==
  CASE error = "Limit" -> "ConnectionLimit"
    [] error \in {"TimedOut", "Tcp TimedOut"} -> "ConnectTimeout"
    [] error = "Tcp ConnectionRefused" -> "ConnectRefused"
    [] error \in {"Resolve", "Tcp other", "Tls transport"} -> "ConnectError"
    [] error \in {"Tls protocol refusal", "Alpn"} -> "ProtocolRefused"
    [] error = "Tls error" -> "Tls"

TcpErrors == {"Tcp TimedOut", "Tcp ConnectionRefused", "Tcp other"}
TlsErrors == {"Tls transport", "Tls protocol refusal", "Tls error"}
ConnectErrors == {"Limit", "TimedOut", "Resolve", "Alpn"} \cup TcpErrors \cup TlsErrors

(* What the errors of a connection that breaks are made of: hyper's, and   *)
(* the transport's under it, if any.                                       *)
Broken == {<<"hyper closed">>, <<"hyper incomplete">>, <<"hyper timeout">>,
           <<"hyper", "io ConnectionReset">>, <<"hyper", "io TimedOut">>,
           <<"hyper", "io tls">>, <<"hyper", "io other">>}

(* What one error of the chain settles, whether connecting or not.         *)
SettlesEverywhere(cause, connecting) ==
  CASE cause \in ConnectErrors -> OfConnect(cause)
    [] cause = "io tls" -> "Tls"
    [] cause = "io TimedOut" -> "ConnectTimeout"
    [] cause = "io ConnectionRefused" -> "ConnectRefused"
    [] cause \in {"io ConnectionReset", "hyper timeout"} -> "Reset"
    [] cause = "hyper user" -> "Other"
    [] cause \in {"hyper closed", "hyper incomplete", "hyper canceled"} -> "Reset"
    [] OTHER -> "nothing"

(* What one error of the chain settles.                                    *)
Settles(cause, connecting) ==
  CASE cause \in ConnectErrors -> OfConnect(cause)
    [] cause = "io tls" -> "Tls"
    [] cause = "io TimedOut" /\ connecting -> "ConnectTimeout"
    [] cause = "io ConnectionRefused" -> "ConnectRefused"
    [] cause \in {"io ConnectionReset", "hyper timeout"} /\ ~ connecting -> "Reset"
    [] cause = "hyper user" -> "Other"
    [] cause \in {"hyper closed", "hyper incomplete", "hyper canceled"} -> "Reset"
    [] OTHER -> "nothing"

(* FailureKind::of: the first error of the chain that settles it.          *)
FailureOf(chain, connecting) ==
  LET settled == SelectSeq([i \in DOMAIN chain |-> Settles(chain[i], connecting)],
                           LAMBDA kind : kind # "nothing")
  IN IF settled # <<>> THEN settled[1]
     ELSE IF connecting THEN "ConnectError" ELSE "Other"

-----------------------------------------------------------------------------
Schemes == {"Http", "Https", "H2c"}

(* The pool a request is sent through: which client, and whether over TLS. *)
PoolOf(scheme, needs_http2) ==
  [http2 |-> scheme = "H2c" \/ (scheme = "Https" /\ needs_http2),
   tls |-> scheme = "Https"]

NoConn == [at |-> "none", pool |-> PoolOf("Http", FALSE), age |-> 0,
           for |-> Nobody, agreed |-> "none", users |-> {}]
NoSend == [at |-> "idle", pool |-> PoolOf("Http", FALSE), on |-> Nobody,
           waited |-> 0, sent |-> FALSE, failure |-> "none"]

Opening == {"lookup", "tcp", "tls"}

(* The counter is never below zero, and who uses a connection is on it.    *)
TypeOK ==
  /\ Limit!TypeOK
  /\ \A k \in Slots :
       /\ conn[k].at \in {"none", "refused", "open"} \cup Opening
       /\ conn[k].users \subseteq {r \in Sends : send[r].on = k /\ send[r].at = "sent"}
  /\ \A r \in Sends : send[r].at \in {"idle", "waiting", "sent", "failed"}

Init ==
  /\ Limit!Init
  /\ conn = [k \in Slots |-> NoConn]
  /\ send = [r \in Sends |-> NoSend]

(* A call of send.                                                         *)
Begin(r, scheme, needs_http2) ==
  /\ send[r].at = "idle"
  /\ send' = [send EXCEPT ![r] = [NoSend EXCEPT !.at = "waiting",
                                                !.pool = PoolOf(scheme, needs_http2)]]
  /\ UNCHANGED <<in_use, permit, conn>>

(* A pooled connection: an idle one, or any that speaks HTTP/2.            *)
Checkout(r, k) ==
  /\ send[r].at = "waiting"
  /\ conn[k].at = "open" /\ conn[k].pool = send[r].pool
  /\ conn[k].pool.http2 \/ conn[k].users = {}
  /\ conn' = [[i \in Slots |-> IF conn[i].for = r THEN [conn[i] EXCEPT !.for = Nobody]
                               ELSE conn[i]]
                EXCEPT ![k].users = @ \cup {r}]
  /\ send' = [send EXCEPT ![r].at = "sent", ![r].on = k, ![r].sent = TRUE,
                       ![r].waited = 0]
  /\ UNCHANGED <<in_use, permit>>

(* A place taken, and the answer not looked at.                            *)
CallRegardless(r, k) ==
  /\ send[r].at = "waiting" /\ conn[k].at = "none"
  /\ \A i \in Slots : conn[i].for # r
  /\ Limit!TryAcquire(k)
  /\ conn' = [conn EXCEPT ![k] = [NoConn EXCEPT !.at = "lookup",
                                                !.pool = send[r].pool, !.for = r]]
  /\ send' = [send EXCEPT ![r].waited = 0]

(* ServerConnector::call: a place under the cap is taken first.  One       *)
(* HTTP/2 connection is opened at a time.                                  *)
Call(r, k) ==
  /\ send[r].at = "waiting" /\ conn[k].at = "none"
  /\ \A i \in Slots :
       /\ conn[i].for # r
       /\ conn[i].at \in Opening /\ conn[i].pool = send[r].pool => ~ send[r].pool.http2
  /\ Limit!TryAcquire(k)
  /\ conn' = [conn EXCEPT ![k] =
                [NoConn EXCEPT !.at = IF Limit!Reached THEN "refused" ELSE "lookup",
                               !.pool = send[r].pool, !.for = r]]
  /\ send' = [send EXCEPT ![r].waited = 0]

(* The calls that wait for k fail with the error, and those on it with it. *)
Fail(k, chain, connecting) ==
  send' = [r \in Sends |->
             IF conn[k].for = r \/ r \in conn[k].users
             THEN [NoSend EXCEPT !.at = "failed", !.sent = send[r].sent,
                                 !.failure = FailureOf(chain, connecting)]
             ELSE send[r]]

(* An attempt that ends without letting go of its permit.                  *)
GoneUncounted(k) ==
  conn' = [conn EXCEPT ![k] = NoConn] /\ UNCHANGED <<in_use, permit>>

(* The connection, or the attempt, is gone, and its permit with it.        *)
Gone(k) == Limit!DropPermit(k) /\ conn' = [conn EXCEPT ![k] = NoConn]

(* An attempt over the cap.                                                *)
Refused(k) ==
  /\ conn[k].at = "refused"
  /\ Fail(k, <<"Limit">>, TRUE)
  /\ Gone(k)

(* A deadline for each of lookup, TCP and TLS.                             *)
AdvanceAfresh(k, at) ==
  /\ conn' = [conn EXCEPT ![k].at = at, ![k].age = 0]
  /\ UNCHANGED <<in_use, permit, send>>

(* On to the next step, under the same deadline.                           *)
Advance(k, at) ==
  /\ conn' = [conn EXCEPT ![k].at = at]
  /\ UNCHANGED <<in_use, permit, send>>

LookedUp(k) == conn[k].at = "lookup" /\ Advance(k, "tcp")

Connected(k) ==
  conn[k].at = "tcp" /\ Advance(k, IF conn[k].pool.tls THEN "tls" ELSE "open")

(* A server without ALPN taken for one that speaks whatever is offered.    *)
AgreedUnlessOther(http2, negotiated) ==
  IF http2 THEN negotiated # "http/1.1" ELSE negotiated # "h2"

(* HTTP/2 must have been agreed to, HTTP/1.1 not been refused.             *)
Agreed(http2, negotiated) ==
  IF http2 THEN negotiated = "h2" ELSE negotiated # "h2"

Shaken(k, negotiated) ==
  /\ conn[k].at = "tls"
  /\ Agreed(conn[k].pool.http2, negotiated)
  /\ conn' = [conn EXCEPT ![k].at = "open", ![k].agreed = negotiated]
  /\ UNCHANGED <<in_use, permit, send>>

(* What can fail of an attempt: its step, or its deadline.                 *)
DialFails(k, error) ==
  /\ \/ conn[k].at = "lookup" /\ error = "Resolve"
     \/ conn[k].at = "tcp" /\ error \in TcpErrors
     \/ conn[k].at = "tls" /\ error \in TlsErrors
     \/ /\ conn[k].at = "tls" /\ error = "Alpn"
        /\ \E negotiated \in {"none", "h2", "http/1.1"} :
             ~ Agreed(conn[k].pool.http2, negotiated)
     \/ /\ conn[k].at \in Opening /\ error = "TimedOut"
        /\ conn[k].age >= ConnectTimeout
  /\ Fail(k, <<error>>, TRUE)
  /\ Gone(k)

(* The response's head arrived, and the exchange is over.                  *)
Answered(r) ==
  /\ send[r].at = "sent"
  /\ conn' = [conn EXCEPT ![send[r].on].users = @ \ {r}]
  /\ send' = [send EXCEPT ![r] = NoSend]
  /\ UNCHANGED <<in_use, permit>>

(* A connection breaks, with the requests on it.                           *)
Breaks(k, chain) ==
  /\ conn[k].at = "open" /\ conn[k].users # {}
  /\ Fail(k, chain, FALSE)
  /\ Gone(k)

(* A connection that was closed before anything of the request was sent:   *)
(* the request is sent again on another.                                   *)
ClosedBefore(k, r) ==
  /\ conn[k].at = "open" /\ conn[k].users = {r}
  /\ send' = [send EXCEPT ![r].at = "waiting", ![r].on = Nobody, ![r].sent = FALSE]
  /\ Gone(k)

(* Idle for too long, one too many, or closed by the server.               *)
IdleCloses(k) ==
  /\ conn[k].at = "open" /\ conn[k].users = {}
  /\ send' = send
  /\ Gone(k)

(* The caller reads the failure, or drops the call; what is being opened   *)
(* for it goes on for others, and an HTTP/2 connection it was on does.     *)
Leave(r) ==
  /\ \/ send[r].at \in {"waiting", "failed"}
     \/ send[r].at = "sent" /\ send[r].pool.http2
  /\ conn' = [k \in Slots |-> [conn[k] EXCEPT !.for = IF @ = r THEN Nobody ELSE @,
                                              !.users = @ \ {r}]]
  /\ send' = [send EXCEPT ![r] = NoSend]
  /\ UNCHANGED <<in_use, permit>>

(* The caller drops a call that an HTTP/1.1 connection is busy with, which *)
(* is then of no use to another.                                           *)
Abandon(r) ==
  /\ send[r].at = "sent" /\ ~ send[r].pool.http2
  /\ Gone(send[r].on)
  /\ send' = [send EXCEPT ![r] = NoSend]

(* What nobody waits for any more is dropped.                              *)
DropDial(k) ==
  /\ conn[k].at \in Opening /\ conn[k].for = Nobody
  /\ send' = send
  /\ Gone(k)

(* Time passes; a timer that is due fires first.                           *)
Tick ==
  LET opening == {k \in Slots : conn[k].at \in Opening}
  IN /\ opening # {}
     /\ \A k \in opening : conn[k].age < ConnectTimeout
     /\ conn' = [k \in Slots |-> IF k \in opening
                                 THEN [conn[k] EXCEPT !.age = @ + 1] ELSE conn[k]]
     /\ send' = [r \in Sends |-> IF \E k \in opening : conn[k].for = r
                                 THEN [send[r] EXCEPT !.waited = @ + 1] ELSE send[r]]
     /\ UNCHANGED <<in_use, permit>>

Next ==
  \/ \E r \in Sends :
       \/ \E scheme \in Schemes, needs_http2 \in BOOLEAN : Begin(r, scheme, needs_http2)
       \/ \E k \in Slots : Checkout(r, k) \/ Call(r, k) \/ ClosedBefore(k, r)
       \/ Answered(r) \/ Leave(r) \/ Abandon(r)
  \/ \E k \in Slots :
       \/ Refused(k) \/ LookedUp(k) \/ Connected(k)
       \/ \E negotiated \in {"none", "h2", "http/1.1"} : Shaken(k, negotiated)
       \/ \E error \in ConnectErrors : DialFails(k, error)
       \/ \E chain \in Broken : Breaks(k, chain)
       \/ IdleCloses(k) \/ DropDial(k)
  \/ Tick

Spec == Init /\ [][Next]_vars

-----------------------------------------------------------------------------
(* open_connections: every connection open or being opened, and nothing    *)
(* else, holds a place under the cap, so failed attempts, dropped calls    *)
(* and broken connections all give theirs back.                            *)
ConnectionsAreCounted ==
  \A k \in Slots : (permit[k] = "held") <=> (conn[k].at \in Opening \cup {"open"})

(* Options::max_connections: never more open or being opened.              *)
UnderTheCap ==
  Cardinality({k \in Slots : conn[k].at \in Opening \cup {"open"}}) <= MaxConnections

(* connect_timeout covers the lookup, TCP and TLS together: nobody waits   *)
(* longer for a connection that is being opened for them.                  *)
DialsEnd ==
  \A k \in Slots, r \in Sends :
    conn[k].at \in Opening /\ conn[k].for = r => send[r].waited <= ConnectTimeout

(* send: a request that needs HTTP/2 over TLS is only ever on a connection *)
(* that agreed to it, and no other is on one that did.                     *)
SpokenAsAgreed ==
  \A k \in Slots :
    conn[k].users # {} /\ conn[k].pool.tls => (conn[k].pool.http2 <=> conn[k].agreed = "h2")

(* FailureKind: a request that fails with a kind of failing to connect has *)
(* not been sent: it may be tried again whatever it is.                    *)
ConnectKindsMeanUnsent ==
  \A r \in Sends :
    send[r].failure \in {"ConnectTimeout", "ConnectRefused", "ConnectError",
                         "ProtocolRefused", "ConnectionLimit"} => ~ send[r].sent

=============================================================================
