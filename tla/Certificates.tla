----------------------------- MODULE Certificates ----------------------------
(***************************************************************************)
(* Which certificate a TLS connection gets, and which hosts it may then be *)
(* used for: the store (lib/tls/src/cert_store.rs) behind a resolver that  *)
(* is swapped by reloads (resolver.rs), the metric of the handshakes it    *)
(* had nothing for (edge/shared.rs), and a request's host                  *)
(* (handler/host.rs).  A store is the sequence of the entries it was built *)
(* from, and a certificate is known by its entry's place in it.            *)
(***************************************************************************)
EXTENDS HostNames

LOCAL INSTANCE FiniteSetsExt

CONSTANTS
  Configs,       \* sequences of CertSpec: [sni, default]
  Snis,          \* the names handshakes ask for
  Clients,       \* the connections
  Authorities,   \* what request targets and Host headers name, ports included
  MaxHandshakes, \* bound: the handshakes made
  NoName         \* no SNI, no certificate, no authority, no host

VARIABLES
  store,      \* SniResolver::store
  conn,       \* what each connection's task holds
  misses,     \* SniResolver::misses
  exported,   \* Shared::sni_misses_exported
  no_cert,    \* gfe_tls_sni_no_cert
  handshakes, \* bound: how many there were
  served      \* history: the request the last step let through, if one

vars == <<store, conn, misses, exported, no_cert, handshakes, served>>

-----------------------------------------------------------------------------
(* build: refused on a second default.                                     *)
BuildsStore(entries) ==
  \A i, j \in DOMAIN entries : entries[i].default /\ entries[j].default => i = j

NamedBy(entries, Matches(_)) ==
  {i \in DOMAIN entries : \E n \in DOMAIN entries[i].sni : Matches(ToLower(entries[i].sni[n]))}

(* resolve: the last entry with the very name, else the first with a       *)
(* wildcard for it (all of one length, having its suffix), else the        *)
(* default.                                                                *)
Resolve(entries, sni) ==
  LET name == ToLower(sni)
      exact == NamedBy(entries, LAMBDA n : ~ IsWildcard(n) /\ n = name)
      wild == NamedBy(entries, LAMBDA n : IsWildcard(n) /\ SuffixMatches(Tail(n), name))
      default == {i \in DOMAIN entries : entries[i].default}
  IN CASE sni # NoName /\ exact # {} -> Max(exact)
       [] sni # NoName /\ exact = {} /\ wild # {} -> Min(wild)
       [] OTHER -> IF default = {} THEN NoName ELSE Max(default)

(* A host with any certificate at all taken for covered.                   *)
SameCertificateIfAny(entries, a, b) ==
  Resolve(entries, a) # NoName /\ Resolve(entries, b) # NoName

(* The same entry, found for both names.                                   *)
SameCertificate(entries, a, b) ==
  Resolve(entries, a) # NoName /\ Resolve(entries, a) = Resolve(entries, b)

(* covered_by_sni, for a connection with an SNI.                           *)
CoveredBySni(entries, sni, host) ==
  sni # NoName =>
    (ToLower(sni) # ToLower(host) => SameCertificate(entries, sni, host))

(* The target's authority and the Host header name the same host, and the  *)
(* same port when both have one (0 for none).                              *)
Agree(header, target) ==
  /\ header # NoName
  /\ ToLower(header.host) = ToLower(target.host)
  /\ header.port = 0 \/ target.port = 0 \/ header.port = target.port

(* request_host without the comparison.                                    *)
RequestHostOfTarget(target, header, http10, sni) ==
  CASE target # NoName -> ToLower(target.host)
    [] target = NoName /\ header # <<>> ->
         IF header[1] = NoName THEN NoName ELSE ToLower(header[1].host)
    [] OTHER -> IF sni # NoName THEN ToLower(sni) ELSE IF http10 THEN <<>> ELSE NoName

(* request_host; header is none or one, NoName if it does not parse.       *)
(* NoName is a request that is refused, <<>> the empty host.               *)
RequestHost(target, header, http10, sni) ==
  CASE target # NoName ->
         IF header = <<>> \/ Agree(header[1], target) THEN ToLower(target.host) ELSE NoName
    [] target = NoName /\ header # <<>> ->
         IF header[1] = NoName THEN NoName ELSE ToLower(header[1].host)
    [] OTHER -> IF sni # NoName THEN ToLower(sni) ELSE IF http10 THEN <<>> ELSE NoName

-----------------------------------------------------------------------------
Closed == [at |-> "closed", sni |-> NoName, entry |-> NoName, read |-> 0,
           owed |-> 0, swapped |-> FALSE]

Nothing == [client |-> NoName, host |-> NoName, header |-> <<>>]

(* A connection that is open has a certificate.                            *)
TypeOK ==
  /\ store \in Configs
  /\ {misses, exported, no_cert} \subseteq 0..MaxHandshakes * MaxHandshakes
  /\ \A c \in Clients :
       /\ conn[c].at \in {"closed", "shaken", "read", "owing", "open"}
       /\ conn[c].at = "open" => conn[c].entry # NoName

Init ==
  /\ store \in {entries \in Configs : BuildsStore(entries)}
  /\ conn = [c \in Clients |-> Closed]
  /\ misses = 0 /\ exported = 0 /\ no_cert = 0
  /\ handshakes = 0
  /\ served = Nothing

(* SniResolver::swap, once the new store is built.                         *)
Swap(entries) ==
  /\ BuildsStore(entries) /\ entries # store
  /\ store' = entries
  /\ conn' = [c \in Clients |-> [conn[c] EXCEPT !.swapped = conn[c].at # "closed"]]
  /\ UNCHANGED <<misses, exported, no_cert, handshakes>>
  /\ served' = Nothing

(* The handshake, up to its end: resolve_sni, and a miss is counted.       *)
Handshake(c, sni) ==
  /\ conn[c].at = "closed" /\ handshakes < MaxHandshakes
  /\ handshakes' = handshakes + 1
  /\ LET entry == Resolve(store, sni)
     IN /\ conn' = [conn EXCEPT ![c] = [Closed EXCEPT !.at = "shaken", !.sni = sni,
                                                      !.entry = entry]]
        /\ misses' = misses + IF entry = NoName THEN 1 ELSE 0
  /\ UNCHANGED <<store, exported, no_cert>>
  /\ served' = Nothing

(* export_sni_misses: miss_count.                                          *)
ReadMisses(c) ==
  /\ conn[c].at = "shaken"
  /\ conn' = [conn EXCEPT ![c].at = "read", ![c].read = misses]
  /\ UNCHANGED <<store, misses, exported, no_cert, handshakes>>
  /\ served' = Nothing

(* The mark moved to what was read, even if it is further already.         *)
FetchMaxBySwap(c) ==
  /\ conn[c].at = "read"
  /\ exported' = conn[c].read
  /\ conn' = [conn EXCEPT ![c].at = "owing",
                ![c].owed = IF conn[c].read > exported THEN conn[c].read - exported ELSE 0]
  /\ UNCHANGED <<store, misses, no_cert, handshakes>>
  /\ served' = Nothing

(* fetch_max: whoever moves the mark owes the difference.                  *)
FetchMax(c) ==
  /\ conn[c].at = "read"
  /\ exported' = IF conn[c].read > exported THEN conn[c].read ELSE exported
  /\ conn' = [conn EXCEPT ![c].at = "owing",
                ![c].owed = IF conn[c].read > exported THEN conn[c].read - exported ELSE 0]
  /\ UNCHANGED <<store, misses, no_cert, handshakes>>
  /\ served' = Nothing

(* inc_by, and the handshake's outcome: it fails without a certificate,    *)
(* and may fail with one.                                                  *)
Export(c, established) ==
  /\ conn[c].at = "owing"
  /\ established => conn[c].entry # NoName
  /\ no_cert' = no_cert + conn[c].owed
  /\ conn' = [conn EXCEPT ![c] = IF established
                                 THEN [conn[c] EXCEPT !.at = "open", !.owed = 0, !.read = 0]
                                 ELSE Closed]
  /\ UNCHANGED <<store, misses, exported, handshakes>>
  /\ served' = Nothing

(* Proxy::handle up to routing, for a request that is let through: its     *)
(* host, checked against the current store.                                *)
Request(c, target, header, http10) ==
  /\ conn[c].at = "open"
  /\ LET host == RequestHost(target, header, http10, conn[c].sni)
     IN /\ host # NoName
        /\ CoveredBySni(store, conn[c].sni, host)
        /\ served' = [client |-> c, host |-> host, header |-> header]
  /\ UNCHANGED <<store, conn, misses, exported, no_cert, handshakes>>

Close(c) ==
  /\ conn[c].at = "open"
  /\ conn' = [conn EXCEPT ![c] = Closed]
  /\ UNCHANGED <<store, misses, exported, no_cert, handshakes>>
  /\ served' = Nothing

Headers == {<<>>} \cup {<<a>> : a \in Authorities \cup {NoName}}

Next ==
  \/ \E entries \in Configs : Swap(entries)
  \/ \E c \in Clients :
       \/ \E sni \in Snis \cup {NoName} : Handshake(c, sni)
       \/ ReadMisses(c) \/ FetchMax(c)
       \/ \E established \in BOOLEAN : Export(c, established)
       \/ \E target \in Authorities \cup {NoName}, header \in Headers, http10 \in BOOLEAN :
            Request(c, target, header, http10)
       \/ Close(c)

Spec == Init /\ [][Next]_vars

-----------------------------------------------------------------------------
(* export_sni_misses: no miss is ever counted twice, and when no handshake *)
(* is at it each has been counted, whoever raced whom.                     *)
MissesCountedOnce ==
  /\ no_cert <= misses
  /\ (\A c \in Clients : conn[c].at \in {"closed", "open"}) => no_cert = misses

(* request_host, covered_by_sni: on a connection as old as the store, a    *)
(* request is let through for its SNI or for a host that has the           *)
(* certificate the client accepted.                                        *)
ServedUnderItsCertificate ==
  \A c \in Clients :
    served.client = c /\ ~ conn[c].swapped /\ conn[c].sni # NoName
      => \/ served.host = ToLower(conn[c].sni)
         \/ Resolve(store, served.host) = conn[c].entry

(* request_host: a request is not routed by one name and forwarded with    *)
(* another in its Host header.                                             *)
RoutedAsForwarded ==
  served.header # <<>> =>
    served.header[1] # NoName /\ ToLower(served.header[1].host) = served.host

=============================================================================
