------------------------------- MODULE MCParts -------------------------------
(***************************************************************************)
(* The parts that are used on their own, for TLC: a behaviour is one of    *)
(* them, the others staying as they start.                                 *)
(***************************************************************************)
EXTENDS ConcurrencyLimit, Level, TLC

CONSTANTS
  Keys, Capacity, SweepInterval,
  MaxUntracked,           \* the calls a table lets through uncounted
  CountMax, MaxProbes,
  MaxTime,
  Lookups, Ttl, LastTime, MaxAddresses, Unknown,
  Targets, FileOnly, QueueLines, RotationCheck, MaxLines, MaxFiles, EndOfTime,
  Selectors, Weights, Points, HashKeys, Replicas, RingLimit, CounterWidth, MaxPicks,
  Lowercase, Size,
  RouteListeners, RouteHosts, RoutePaths, AskedHosts, AskedPaths, MaxRoutes, NoRoute,
  Configs, Snis, Clients, Authorities, MaxHandshakes, NoName,
  DynamicConfigs, NodeConfigs, NoConfig, NoCheck, NoPool, NoStatus,
  Hops, ClientHeads, BackendHeads, Opaque, NoHead, Hsts,
  ListenerNames, CloseReasons, MaxBytes, NotYet,
  Outgoing, NoListener, TableSize, RingSize

VARIABLES
  part,
  level, grants,
  levels, swept_at, untracked, ideal, latest,
  check, bh, outcomes,
  now, since, entry, call, got, known,
  has_file, queue, dropped, refused, written, path, present, moved_at, open,
  misplaced, checked_at, clock, logged,
  policy, weight, health, counter, inflight, choice, picks, released,
  routes,
  store, conn, misses, exported, no_cert, handshakes, served,
  startup, routing, expiry, cache, cached, asked,
  stage, hop, head, sent, replied, ids,
  configured, records, active, accepted, closed, bytes, settled,
  sockets, listener, tcp_closes, table, missed, ring, lost, reader

Bucket == INSTANCE TokenBucket
Keyed == INSTANCE KeyedBuckets
Verdicts == INSTANCE HealthVerdicts
Dns == INSTANCE DnsCache
Logging == INSTANCE Log
Select == INSTANCE Selection
Table == INSTANCE Routing
Tls == INSTANCE Certificates
Conf == INSTANCE Configuration
Heads == INSTANCE Headers
Records == INSTANCE ConnRecords
Kernel == INSTANCE KernelView

ASSUME KeyedAssumption == Keyed!TableAssumption

MCTimes == 0..MaxTime
KeySymmetry == Permutations(Keys)

MCWeights == {<<1, 1, 1>>, <<0, 1, 2>>, <<1, 3, 1>>, <<0, 0, 1>>}
MCPoints == <<<<1, 4, 6>>, <<3, 7, 5>>, <<2, 6, 8>>>>

MCLabels == {"a", "A", "b", "ab", "o", "", "*"}
MCLowercase == [l \in MCLabels |-> IF l = "A" THEN "a" ELSE l]
MCSize == [l \in MCLabels |-> IF l = "" THEN 0 ELSE IF l = "ab" THEN 2 ELSE 1]
MCRouteHosts == {<<"A", "o">>, <<"*", "o">>, <<"*", "a", "o">>, <<"*">>}
MCRoutePaths == {<<"">>, <<"a">>, <<"a", "">>, <<"a", "b">>}
MCAskedHosts == {<<"a", "o">>, <<"b", "o">>, <<"b", "A", "o">>, <<"o">>, <<"", "o">>}
MCAskedPaths == {<<"">>, <<"a">>, <<"a", "">>, <<"a", "b">>, <<"ab">>, <<"a", "", "b">>}

MCCertSpec(names, default) == [sni |-> names, default |-> default]
MCConfigs ==
  {<<MCCertSpec(<<<<"A", "o">>, <<"o">>>>, FALSE), MCCertSpec(<<<<"*", "o">>>>, FALSE)>>,
   <<MCCertSpec(<<<<"*", "o">>>>, FALSE), MCCertSpec(<<<<"a", "o">>>>, TRUE)>>,
   <<MCCertSpec(<<<<"o">>>>, TRUE), MCCertSpec(<<>>, TRUE)>>}
MCSnis == {<<"a", "o">>, <<"b">>}
MCAuthorities ==
  {[host |-> <<"A", "o">>, port |-> 1], [host |-> <<"a", "o">>, port |-> 2],
   [host |-> <<"b", "o">>, port |-> 0]}

MCHost(len, labels) == [len |-> len, labels |-> labels, brackets |-> FALSE, ip |-> FALSE]
MCLabel == [len |-> 3, plain |-> TRUE, hyphen_at_end |-> FALSE]
MCName == MCHost(3, {MCLabel})
MCUpstream(host, port, w) == [host |-> host, port |-> port, weight |-> w]
MCGood == <<MCUpstream(MCName, 1, 1000), MCUpstream([MCHost(2, {}) EXCEPT !.ip = TRUE], 1, 0)>>
MCUpstreams ==
  {MCGood, <<>>,
   <<MCUpstream(MCHost(0, {}), 1, 1)>>, <<MCUpstream(MCName, 0, 1)>>,
   <<MCUpstream([MCName EXCEPT !.brackets = TRUE], 1, 1)>>,
   <<MCUpstream(MCHost(254, {MCLabel}), 1, 1)>>,
   <<MCUpstream(MCHost(3, {MCLabel, [MCLabel EXCEPT !.len = 0]}), 1, 1)>>,
   <<MCUpstream(MCName, 1, 1001)>>}
MCMicro == 4
MCMinInterval == 100000 * MCMicro
MCCheck == [timeout |-> MCMicro, interval |-> 1500 * 1000 * MCMicro, rooted |-> TRUE,
            expected |-> 200, drain |-> 503]
MCChecks ==
  {NoCheck, MCCheck, [MCCheck EXCEPT !.timeout = 0],
   [MCCheck EXCEPT !.interval = MCMinInterval - 1],
   [MCCheck EXCEPT !.timeout = 3000000 * MCMicro, !.interval = MCMinInterval, !.drain = NoStatus],
   [MCCheck EXCEPT !.expected = 99], [MCCheck EXCEPT !.drain = 600]}
MCPool(id, upstreams, c) == [id |-> id, upstreams |-> upstreams, check |-> c]
MCPoolLists ==
  {<<MCPool("p", u, NoCheck)>> : u \in MCUpstreams}
    \cup {<<MCPool("q", MCGood, c)>> : c \in MCChecks}
    \cup {<<MCPool("p", MCGood, NoCheck), MCPool(id, MCGood, NoCheck)>> : id \in {"p", "q"}}
MCListenerLists ==
  {<<>>, <<[id |-> "l", at |-> 1, https |-> TRUE]>>,
   <<[id |-> "l", at |-> 1, https |-> FALSE], [id |-> "m", at |-> 1, https |-> FALSE]>>,
   <<[id |-> "l", at |-> 1, https |-> FALSE], [id |-> "l", at |-> 2, https |-> FALSE]>>}
MCRoute(id, pool, host) == [id |-> id, listener |-> "l", pool |-> pool, host |-> host]
MCRouteLists ==
  {<<MCRoute("r", "p", "*")>>, <<MCRoute("r", "q", "*"), MCRoute("s", NoPool, "*")>>,
   <<MCRoute("r", "q", "")>>, <<[MCRoute("r", "p", "*") EXCEPT !.listener = "m"]>>}
MCCert(sni, default, end) == [sni |-> sni, default |-> default, not_after |-> end]
MCCertLists ==
  {<<>>, <<MCCert({"a"}, TRUE, 1), MCCert({"a", "b"}, FALSE, 2)>>, <<MCCert({"b"}, FALSE, 3)>>,
   <<MCCert({"a"}, TRUE, 1), MCCert({}, TRUE, 2)>>}
MCDynamic(ls, ps, rs, cs) == [listeners |-> ls, pools |-> ps, routes |-> rs, certs |-> cs]
MCDynamicConfigs ==
  LET ls == <<[id |-> "l", at |-> 1, https |-> TRUE]>>
      both == <<MCPool("p", MCGood, NoCheck), MCPool("q", MCGood, NoCheck)>>
      cs == <<MCCert({"b"}, FALSE, 3)>>
  IN  {MCDynamic(ls, p, r, cs) : p \in MCPoolLists, r \in MCRouteLists}
        \cup {MCDynamic(l, both, <<>>, c) : l \in MCListenerLists, c \in MCCertLists}
MCTimeouts == [t \in {"tls_handshake", "request_header", "upstream_connect",
                      "upstream_first_byte", "request_total", "client_idle",
                      "drain_deadline"} |-> MCMicro]
MCLimits == [l \in {"max_connections", "max_connections_listener",
                    "max_h2_concurrent_streams", "max_upstream_connections"} |-> 1]
MCNode == [max_header_bytes |-> 8192, check |-> MCCheck, limits |-> MCLimits,
           timeouts |-> MCTimeouts, cert_file |-> FALSE, key_file |-> FALSE]
MCNodeConfigs ==
  {MCNode, [MCNode EXCEPT !.max_header_bytes = 8191], [MCNode EXCEPT !.cert_file = TRUE],
   [MCNode EXCEPT !.limits.max_h2_concurrent_streams = 0],
   [MCNode EXCEPT !.timeouts.client_idle = 0], [MCNode EXCEPT !.check.rooted = FALSE]}

MCHeadOf(connection, te, upgrade, peers, id, custom) ==
  [n \in {"connection", "keep-alive", "te", "upgrade", "x-forwarded-for", "x-forwarded-host",
          "host", "x-request-id", "custom", "strict-transport-security"} |->
     CASE n = "connection" -> connection [] n = "te" -> te [] n = "upgrade" -> upgrade
       [] n = "x-forwarded-for" -> peers [] n = "x-request-id" -> id
       [] n = "custom" -> custom [] n = "host" -> <<"routed">> [] OTHER -> <<>>]
MCConnections ==
  {<<>>, <<Opaque, {"custom"}>>, <<{"upgrade"}>>, <<{"x-forwarded-for", "x-request-id"}>>,
   <<{"te"}, {"x-forwarded-host"}>>, <<{"connection", "host"}>>}
MCIds == {<<>>, <<[id |-> 0, usable |-> TRUE]>>, <<[id |-> 9, usable |-> FALSE]>>}
MCClientHeads ==
  {MCHeadOf(c, te, u, p, id, v) :
     c \in MCConnections, te \in {<<>>, <<"trailers">>, <<"trailers", "trailers">>, <<"other">>},
     u \in {<<>>, <<{"h2c"}>>, <<{"h2c"}, {"other"}>>}, p \in {<<>>, <<<<7>>, <<8>>>>},
     id \in MCIds, v \in {<<>>, <<"v">>}}
MCPlainHead == MCHeadOf(<<>>, <<>>, <<>>, <<>>, <<>>, <<>>)
MCBackendHeads ==
  {MCHeadOf(c, <<>>, <<>>, <<>>, id, v) :
     c \in MCConnections, id \in {<<>>, <<[id |-> 5, usable |-> TRUE]>>}, v \in {<<"v">>}}

-----------------------------------------------------------------------------
limit == vars
bucket == <<level, grants>>
keyed == <<levels, swept_at, untracked, ideal, latest>>
verdicts == <<check, bh, outcomes>>
dns == <<now, since, entry, call, got, known>>
log == <<has_file, queue, dropped, refused, written, path, present, moved_at, open,
         misplaced, checked_at, clock, logged>>
selection == <<policy, weight, health, counter, inflight, choice, picks, released>>
certificates == <<store, conn, misses, exported, no_cert, handshakes, served>>
configuration == <<startup, routing, expiry, cache, cached, asked>>
headers == <<stage, hop, head, sent, replied, ids>>
connections == <<configured, records, active, accepted, closed, bytes, settled>>
kernel == <<sockets, listener, tcp_closes, table, missed, ring, lost, reader>>

(* A part that has several initial states keeps to one while another runs. *)
PartsInit ==
  /\ part \in {"limit", "bucket", "keyed", "verdicts", "dns", "log", "selection",
               "routes", "certificates", "configuration", "headers", "connections",
               "kernel"}
  /\ Init /\ Bucket!Init /\ Keyed!Init /\ Dns!Init /\ Table!Init /\ Conf!Init
  /\ Verdicts!Init /\ (part # "verdicts" => check = [healthy |-> 1, unhealthy |-> 1])
  /\ Logging!Init /\ (part # "log" => has_file)
  /\ Select!Init
  /\ part # "selection" => policy = "RoundRobin" /\ weight = <<1, 1, 1>> /\ health = {1}
  /\ Tls!Init /\ (part # "certificates" => store[1].sni = <<<<"*", "o">>>>)
  /\ Heads!Init /\ (part # "headers" => sent = MCPlainHead)
  /\ Records!Init /\ (part # "connections" => configured = [name |-> "a", tls |-> TRUE])
  /\ Kernel!Init /\ listener = "a"

Rest ==
  /\ IF part = "limit" THEN TRUE ELSE UNCHANGED limit
  /\ IF part = "bucket" THEN TRUE ELSE UNCHANGED bucket
  /\ IF part = "keyed" THEN TRUE ELSE UNCHANGED keyed
  /\ IF part = "verdicts" THEN TRUE ELSE UNCHANGED verdicts
  /\ IF part = "dns" THEN TRUE ELSE UNCHANGED dns
  /\ IF part = "log" THEN TRUE ELSE UNCHANGED log
  /\ IF part = "selection" THEN TRUE ELSE UNCHANGED selection
  /\ IF part = "routes" THEN TRUE ELSE UNCHANGED routes
  /\ IF part = "certificates" THEN TRUE ELSE UNCHANGED certificates
  /\ IF part = "configuration" THEN TRUE ELSE UNCHANGED configuration
  /\ IF part = "headers" THEN TRUE ELSE UNCHANGED headers
  /\ IF part = "connections" THEN TRUE ELSE UNCHANGED connections
  /\ IF part = "kernel" THEN TRUE ELSE UNCHANGED kernel

PartsNext ==
  /\ \/ part = "limit" /\ Next
     \/ part = "bucket" /\ Bucket!Next
     \/ part = "keyed" /\ Keyed!Next /\ untracked' <= MaxUntracked
     \/ part = "verdicts" /\ Verdicts!Next
     \/ part = "dns" /\ Dns!Next
     \/ part = "log" /\ Logging!Next
     \/ part = "selection" /\ Select!Next
     \/ part = "routes" /\ Table!Next
     \/ part = "certificates" /\ Tls!Next
     \/ part = "configuration" /\ Conf!Next
     \/ part = "headers" /\ Heads!Next
     \/ part = "connections" /\ Records!Next
     \/ part = "kernel" /\ Kernel!Next
  /\ Rest
  /\ UNCHANGED part

PartsSpec ==
  PartsInit /\ [][PartsNext]_<<part, limit, bucket, keyed, verdicts, dns, log,
                               selection, routes, certificates, configuration, headers,
                               connections, kernel>>

-----------------------------------------------------------------------------
(* What each part promises, the properties of its module together.         *)

(* TokenBucket: no stretch of time is granted more than the burst and what *)
(* it earns, and a refusal means a second's worth was just granted.        *)
BucketPromises ==
  part = "bucket" => Bucket!TypeOK /\ Bucket!EveryWindow /\ Bucket!RefusedOnlyAtTheRate

(* KeyedBuckets: a key forgotten is one whose bucket is full again, the    *)
(* table keeps its size, and a call goes uncounted only if no key was idle *)
(* a sweep interval before.                                                *)
KeyedPromises ==
  /\ [](part = "keyed" => Keyed!TypeOK /\ Keyed!RemembersWhatMatters /\ Keyed!WithinCapacity)
  /\ Keyed!UncountedOnlyWhenFull

(* BackendHealth: the counters decide what looking back over every outcome *)
(* decides.                                                                *)
StatusIsTheLastDecision ==
  part = "verdicts" => Verdicts!TypeOK /\ Verdicts!StatusIsTheLastDecision

(* PoolSpec::max_requests_per_second as documented: "The most requests the *)
(* pool admits a second, measured over any one second".                    *)
AtMostTheRateInAnySecond == Bucket!AtMostTheRateInAnySecond

(* DnsCache: an answer whose lookup did not fail was true less than the    *)
(* time to live before the call, and once a name has been answered no later*)
(* call is an error.                                                       *)
DnsPromises == part = "dns" => Dns!TypeOK /\ Dns!AnswersAreFresh /\ Dns!OnceKnownAnswered

(* Log: a line that was for a destination is queued, written or counted as *)
(* lost, and none goes into a file that was moved away a check before.     *)
LogPromises ==
  /\ [](part = "log" => Logging!TypeOK /\ Logging!LostLinesAreCounted)
  /\ Logging!MovedFileIsLeft

(* Selection: racing callers take even turns, or overload a backend by one *)
(* each; a backend is drawn as often as it weighs; only the keys of one    *)
(* that goes move.                                                         *)
SelectionPromises ==
  part = "selection" =>
    /\ Select!TypeOK
    /\ Select!EvenRotation
    /\ Select!RacersOverloadByOne
    /\ Select!SharesAreTheWeights
    /\ Select!AffinityIsKept

(* Routing: a request gets the most specific route that matches it.        *)
RoutedMostSpecifically == part = "routes" => Table!RoutedMostSpecifically

(* Certificates: a host is served under the certificate that was accepted, *)
(* a request is routed by the name it is forwarded with, and each handshake*)
(* without a certificate is counted once.                                  *)
CertificatePromises ==
  part = "certificates" =>
    /\ Tls!TypeOK
    /\ Tls!ServedUnderItsCertificate
    /\ Tls!RoutedAsForwarded
    /\ Tls!MissesCountedOnce

(* Configuration: what was validated does not fail to start, the cache     *)
(* reads back as what it was written from, a routed request finds the pool *)
(* its route names, and the certificates exported are those being served.  *)
ConfigurationPromises ==
  part = "configuration" =>
    /\ Conf!StartsAsValidated
    /\ Conf!CacheReadsBack
    /\ Conf!PoolIsFound
    /\ Conf!ExpiriesAreTheServed

(* Headers: only end-to-end headers cross a node; a backend can trace a    *)
(* request back hop by hop, knows it by one id, and is told of trailers.   *)
HeadPromises ==
  part = "headers" =>
    /\ Heads!OnlyEndToEnd
    /\ Heads!TracedBack
    /\ Heads!OneId
    /\ Heads!TrailersAreAnnounced

(* ConnRecords: a listener's metrics say what its records say, each TLS    *)
(* handshake is counted once as what it came to, and a client that speaks  *)
(* TLS is told of the close.                                               *)
RecordPromises ==
  part = "connections" =>
    /\ Records!RecordsAddUp
    /\ Records!HandshakesAddUp
    /\ Records!GoodbyeIsSaid

(* KernelView: a connection that closed is reported once or counted lost,  *)
(* under whom it was, and the reader does not sleep on records.            *)
KernelPromises ==
  part = "kernel" =>
    /\ Kernel!ClosedAreAccounted
    /\ Kernel!OnlyClientsAreReported
    /\ Kernel!NothingIsStranded
=============================================================================
