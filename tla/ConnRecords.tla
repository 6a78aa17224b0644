----------------------------- MODULE ConnRecords ------------------------------
(***************************************************************************)
(* The record of each client connection, from accept to close (proxy       *)
(* edge/conn_record.rs), as Edge::serve_connection keeps it (edge/         *)
(* connection.rs), and the bytes metered on its way (netkit-listen         *)
(* metered.rs).  Its task may be dropped while it awaits, or panic.  A     *)
(* reload may rename the listener meanwhile, or turn TLS on or off.        *)
(*                                                                         *)
(* Timings, addresses and the event that is logged are left out.           *)
(***************************************************************************)
EXTENDS Integers, FiniteSets

LOCAL INSTANCE FiniteSetsExt

CONSTANTS
  Clients,
  ListenerNames,
  CloseReasons,   \* what server::serve may end with
  MaxBytes,
  NotYet

VARIABLES
  configured,   \* the listener as configured now: its name, and whether it speaks TLS
  records,
  active,       \* the gauges and counters, by listener
  accepted,
  closed,       \* by listener and reason
  bytes,
  settled       \* the handshakes: ok, failed, and rejected as too slow

connections == <<configured, records, active, accepted, closed, bytes, settled>>

Reasons == CloseReasons \cup {"tls_handshake_failed", "tls_handshake_timeout", "shutdown", "error"}

Init ==
  /\ configured \in [name : ListenerNames, tls : BOOLEAN]
  /\ records = [c \in Clients |-> [at |-> "none", listener |-> NotYet, is_tls |-> FALSE,
                                   tls |-> FALSE, meter |-> 0, reason |-> NotYet,
                                   goodbye |-> FALSE]]
  /\ active = [l \in ListenerNames |-> 0]
  /\ accepted = [l \in ListenerNames |-> 0]
  /\ closed = [l \in ListenerNames, r \in Reasons |-> 0]
  /\ bytes = [l \in ListenerNames |-> 0]
  /\ settled = [ok |-> 0, failed |-> 0, rejected |-> 0]

Reconfigure(listener) ==
  /\ configured' = listener
  /\ UNCHANGED <<records, active, accepted, closed, bytes, settled>>

(* ConnRecord::open and meter: the listener is loaded once.                *)
Open(c) ==
  /\ records[c].at = "none"
  /\ records' = [records EXCEPT ![c].at = IF configured.tls THEN "handshake" ELSE "http",
                                ![c].listener = configured.name,
                                ![c].is_tls = configured.tls]
  /\ accepted' = [accepted EXCEPT ![configured.name] = @ + 1]
  /\ active' = [active EXCEPT ![configured.name] = @ + 1]
  /\ UNCHANGED <<configured, closed, bytes, settled>>

(* Metered: bytes are counted for the record and for its listener.         *)
Transfer(c) ==
  /\ records[c].at \in {"handshake", "http"} /\ records[c].meter < MaxBytes
  /\ records' = [records EXCEPT ![c].meter = @ + 1]
  /\ bytes' = [bytes EXCEPT ![records[c].listener] = @ + 1]
  /\ UNCHANGED <<configured, active, accepted, closed, settled>>

Established(c) ==
  /\ records[c].at = "handshake"
  /\ records' = [records EXCEPT ![c].at = "http", ![c].tls = TRUE]
  /\ settled' = [settled EXCEPT !.ok = @ + 1]
  /\ UNCHANGED <<configured, active, accepted, closed, bytes>>

DropAsNamedNow(c, reason) ==
  /\ records' = [records EXCEPT ![c].at = "dropped", ![c].reason = reason,
                                ![c].goodbye = records[c].tls]
  /\ active' = [active EXCEPT ![configured.name] = @ - 1]
  /\ closed' = [closed EXCEPT ![configured.name, reason] = @ + 1]
  /\ UNCHANGED <<configured, accepted, bytes>>

DropQuietly(c, reason) ==
  /\ records' = [records EXCEPT ![c].at = "dropped", ![c].reason = reason,
                                ![c].goodbye = records[c].tls /\ reason \in CloseReasons]
  /\ active' = [active EXCEPT ![records[c].listener] = @ - 1]
  /\ closed' = [closed EXCEPT ![records[c].listener, reason] = @ + 1]
  /\ UNCHANGED <<configured, accepted, bytes>>

(* The record is dropped, and before it a CloseNotify: an established TLS  *)
(* stream attempts to tell the client.                                     *)
Drop(c, reason) ==
  /\ records' = [records EXCEPT ![c].at = "dropped", ![c].reason = reason,
                                ![c].goodbye = records[c].tls]
  /\ active' = [active EXCEPT ![records[c].listener] = @ - 1]
  /\ closed' = [closed EXCEPT ![records[c].listener, reason] = @ + 1]
  /\ UNCHANGED <<configured, accepted, bytes>>

TlsFailed(c) ==
  /\ records[c].at = "handshake"
  /\ settled' = [settled EXCEPT !.failed = @ + 1]
  /\ Drop(c, "tls_handshake_failed")

TlsTimedOutAndFailed(c) ==
  /\ records[c].at = "handshake"
  /\ settled' = [settled EXCEPT !.failed = @ + 1, !.rejected = @ + 1]
  /\ Drop(c, "tls_handshake_timeout")

TlsTimedOut(c) ==
  /\ records[c].at = "handshake"
  /\ settled' = [settled EXCEPT !.rejected = @ + 1]
  /\ Drop(c, "tls_handshake_timeout")

ServedHttp(c, reason) ==
  /\ records[c].at = "http"
  /\ Drop(c, reason) /\ UNCHANGED settled

(* The task is dropped at an await, or panics: there is no reason yet.     *)
Cut(c, panicking) ==
  /\ records[c].at \in {"handshake", "http"}
  /\ Drop(c, IF panicking THEN "error" ELSE "shutdown") /\ UNCHANGED settled

Next ==
  \/ \E listener \in [name : ListenerNames, tls : BOOLEAN] : Reconfigure(listener)
  \/ \E c \in Clients :
       \/ Open(c) \/ Transfer(c) \/ Established(c) \/ TlsFailed(c) \/ TlsTimedOut(c)
       \/ \E reason \in CloseReasons : ServedHttp(c, reason)
       \/ \E panicking \in BOOLEAN : Cut(c, panicking)

-----------------------------------------------------------------------------
(* What a listener's metrics say is what its records say, under whatever   *)
(* name the listener goes by now and however the connections ended: the    *)
(* active ones are those open, every other one is counted closed once, for *)
(* one reason, and the bytes are those they moved (ConnRecord).            *)
RecordsAddUp ==
  \A l \in ListenerNames :
    LET of == {c \in Clients : records[c].listener = l}
        Bytes(c) == records[c].meter
    IN  /\ active[l] = Cardinality({c \in of : records[c].at # "dropped"})
        /\ accepted[l] = Cardinality(of)
        /\ \A r \in Reasons : closed[l, r] = Cardinality({c \in of : records[c].reason = r})
        /\ bytes[l] = MapThenSumSet(Bytes, of)

(* Every connection accepted to speak TLS is shaking hands, or its         *)
(* handshake is counted once as what it came to, unless the task was cut   *)
(* (serve_connection, tls_established, tls_failed, tls_timed_out).         *)
HandshakesAddUp ==
  LET secure == {c \in Clients : records[c].is_tls}
      shaking == {c \in secure : records[c].at = "handshake"}
      cut == {c \in secure : records[c].reason \in {"shutdown", "error"} /\ ~records[c].tls}
  IN  settled.ok + settled.failed + settled.rejected = Cardinality(secure \ (shaking \cup cut))

(* A client whose TLS was established is told of the close, however its    *)
(* connection ends, and no other is (CloseNotify).                         *)
GoodbyeIsSaid ==
  \A c \in Clients : records[c].goodbye <=> records[c].at = "dropped" /\ records[c].tls

=============================================================================
