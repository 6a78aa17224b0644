---------------------------- MODULE Configuration ----------------------------
(***************************************************************************)
(* What the node accepts as configuration and what it makes of it          *)
(* (gfe/config validator.rs and duration.rs, proxy reload/applier.rs, and  *)
(* the start of Frontend, State and Edge).                                 *)
(*                                                                         *)
(* A config is a record of lists.  Names and addresses are values, a host  *)
(* is the facts its check reads, and a duration counts quarters of a       *)
(* microsecond, the smallest share http_options takes of one.              *)
(***************************************************************************)
EXTENDS Integers, Sequences

CONSTANTS
  DynamicConfigs,   \* what an operator may deploy,
  NodeConfigs,      \* and start the node with
  NoConfig, NoCheck, NoPool, NoStatus

VARIABLES
  startup,   \* how far the last start of the process got
  routing,   \* the config being served
  expiry,    \* gfe_cert_expiry_timestamp, by name
  cache,     \* the last-known-good file
  cached,    \* the config it was written from
  asked      \* a request that has been routed: its pool, and the pools it loaded

vars == <<startup, routing, expiry, cache, cached, asked>>

Micro == 4
Second == 1000000 * Micro
MaxUpstreamWeight == 1000
MinHeaderBytes == 8192
MinInterval == 100000 * Micro
HttpStatus == 100..599

Entries(list) == {list[i] : i \in DOMAIN list}
Distinct(list) == \A i, j \in DOMAIN list : list[i] = list[j] => i = j

-----------------------------------------------------------------------------
(* validator.rs.                                                           *)
IsHostname(host) ==
  /\ host.len <= 253
  /\ \A label \in host.labels : label.len \in 1..63 /\ label.plain /\ ~label.hyphen_at_end

ValidUpstream(u) ==
  /\ u.host.len > 0 /\ u.port > 0
  /\ ~u.host.brackets
  /\ ~u.host.ip => IsHostname(u.host)
  /\ u.weight <= MaxUpstreamWeight

ValidHealthCheck(check) ==
  /\ check.timeout > 0
  /\ check.interval >= MinInterval
  /\ check.rooted
  /\ check.expected \in HttpStatus
  /\ check.drain \in HttpStatus \cup {NoStatus}

ValidPool(p) ==
  /\ p.upstreams # <<>>
  /\ \A u \in Entries(p.upstreams) : ValidUpstream(u)
  /\ p.check # NoCheck => ValidHealthCheck(p.check)

ValidRoute(r, c) ==
  /\ \E l \in Entries(c.listeners) : l.id = r.listener
  /\ r.pool # NoPool => \E p \in Entries(c.pools) : p.id = r.pool
  /\ r.host # ""

Validate(c) ==
  LET Ids(list) == [i \in DOMAIN list |-> list[i].id]
      At(list) == [i \in DOMAIN list |-> list[i].at]
  IN  /\ c.listeners # <<>>
      /\ Distinct(Ids(c.listeners)) /\ Distinct(At(c.listeners))
      /\ Distinct(Ids(c.pools)) /\ \A p \in Entries(c.pools) : ValidPool(p)
      /\ Distinct(Ids(c.routes)) /\ \A r \in Entries(c.routes) : ValidRoute(r, c)
      /\ \A i, j \in DOMAIN c.certs : c.certs[i].default /\ c.certs[j].default => i = j
      /\ (\E l \in Entries(c.listeners) : l.https) => c.certs # <<>>

Positive(settings) == \A name \in DOMAIN settings : settings[name] > 0

ValidNode(n) ==
  /\ n.max_header_bytes >= MinHeaderBytes
  /\ ValidHealthCheck(n.check)
  /\ Positive(n.limits) /\ Positive(n.timeouts)
  /\ n.cert_file = n.key_file

-----------------------------------------------------------------------------
SerializeInMillis(d) ==
  LET millis == d \div (1000 * Micro) IN
  IF millis % 1000 = 0 THEN [count |-> millis \div 1000, unit |-> "s"]
  ELSE [count |-> millis, unit |-> "ms"]

(* duration.rs, both ways; a duration below a microsecond is truncated.    *)
Serialize(d) ==
  LET micros == d \div Micro IN
  IF micros % 1000000 = 0 THEN [count |-> micros \div 1000000, unit |-> "s"]
  ELSE IF micros % 1000 = 0 THEN [count |-> micros \div 1000, unit |-> "ms"]
  ELSE [count |-> micros, unit |-> "us"]

ParseDuration(text) ==
  text.count * (CASE text.unit = "us" -> Micro
                  [] text.unit = "ms" -> 1000 * Micro
                  [] text.unit = "s" -> Second)

(* The durations of a health check, as a file has them and read back.      *)
Written(check) ==
  IF check = NoCheck THEN NoCheck
  ELSE [check EXCEPT !.timeout = Serialize(@), !.interval = Serialize(@)]

Read(check) ==
  IF check = NoCheck THEN NoCheck
  ELSE [check EXCEPT !.timeout = ParseDuration(@), !.interval = ParseDuration(@)]

WriteOut(c) ==
  [c EXCEPT !.pools = [i \in DOMAIN c.pools |-> [c.pools[i] EXCEPT !.check = Written(@)]]]

ReadIn(file) ==
  [file EXCEPT !.pools =
     [i \in DOMAIN file.pools |-> [file.pools[i] EXCEPT !.check = Read(@)]]]

-----------------------------------------------------------------------------
HttpOptionsInMicros(n) ==
  [header_timeout |-> n.timeouts.request_header,
   idle_timeout |-> n.timeouts.client_idle,
   keep_alive_timeout |-> n.timeouts.client_idle \div 4,
   drain_idle_grace |-> Micro * (n.timeouts.drain_deadline \div (2 * Micro)),
   max_concurrent_streams |-> n.limits.max_h2_concurrent_streams]

(* What the node's settings become: http_options for client connections,   *)
(* and the connector to the backends, whose files may not be readable.     *)
HttpOptions(n) ==
  [header_timeout |-> n.timeouts.request_header,
   idle_timeout |-> n.timeouts.client_idle,
   keep_alive_timeout |-> n.timeouts.client_idle \div 4,
   drain_idle_grace |-> n.timeouts.drain_deadline \div 2,
   max_concurrent_streams |-> n.limits.max_h2_concurrent_streams]

OptionsValid(n) ==
  /\ Positive(HttpOptions(n))
  /\ n.max_header_bytes >= MinHeaderBytes

Connector(n, readable) ==
  IF n.cert_file # n.key_file THEN "incomplete" ELSE IF readable THEN "ok" ELSE "no_files"

-----------------------------------------------------------------------------
(* The names a store's certificates are exported under, and when the       *)
(* certificate each is exported for ends: that of the last entry.          *)
NamesOf(entry) == entry.sni \cup (IF entry.default THEN {"<default>"} ELSE {})
Names(certs) == UNION {NamesOf(entry) : entry \in Entries(certs)}
Expiry(certs, name) ==
  LET of == {i \in DOMAIN certs : name \in NamesOf(certs[i])}
  IN  certs[CHOOSE i \in of : \A j \in of : j <= i].not_after

(* prepare: whether a config can be installed, its certificates and its    *)
(* pools being built or not.                                               *)
Prepares(c, built) == Validate(c) /\ built

StoreNow == IF routing = NoConfig THEN <<>> ELSE routing.certs

ExportedAfterTheSwap(certs) ==
  [name \in DOMAIN expiry \cup Names(certs) |->
     IF name \in Names(certs) THEN Expiry(certs, name) ELSE expiry[name]]

(* install, for the gauges: the names of the store now that the new one    *)
(* has not are removed.                                                    *)
Exported(certs) ==
  LET kept == DOMAIN expiry \ (Names(StoreNow) \ Names(certs))
  IN  [name \in kept \cup Names(certs) |->
         IF name \in Names(certs) THEN Expiry(certs, name) ELSE expiry[name]]

(* apply: the config is installed; the cache may fail to be written.       *)
Install(c, written) ==
  /\ routing' = c
  /\ expiry' = Exported(c.certs)
  /\ cached' = IF written THEN c ELSE cached
  /\ cache' = IF written THEN WriteOut(c) ELSE cache

Init ==
  /\ startup = "stopped"
  /\ routing = NoConfig /\ expiry = <<>> /\ asked = NoConfig
  /\ cache = NoConfig /\ cached = NoConfig

Stop(how) == startup' = how /\ UNCHANGED <<routing, expiry, cache, cached, asked>>

(* Frontend::start, up to the controller applying the first config: the    *)
(* deployed one, or else the cached one.                                   *)
Start(n, deployed, readable, built, written) ==
  /\ startup # "serving"
  /\ LET fallback == cache # NoConfig /\ Prepares(ReadIn(cache), built)
         connector == Connector(n, readable)
     IN  IF ~ValidNode(n) THEN Stop("invalid")
         ELSE IF connector # "ok" THEN Stop(connector)
         ELSE IF ~OptionsValid(n) THEN Stop("unservable")
         ELSE IF ~Prepares(deployed, built) /\ ~fallback THEN Stop("no_config")
         ELSE /\ startup' = "serving" /\ UNCHANGED asked
              /\ IF Prepares(deployed, built) THEN Install(deployed, written)
                 ELSE Install(ReadIn(cache), FALSE)

Reload(deployed, built, written) ==
  /\ startup = "serving"
  /\ Prepares(deployed, built)
  /\ Install(deployed, written)
  /\ UNCHANGED <<startup, asked>>

(* A request loads the routing once and matches a route that forwards.     *)
Route(r) ==
  /\ startup = "serving" /\ asked = NoConfig
  /\ r \in Entries(routing.routes) /\ r.pool # NoPool
  /\ asked' = [pool |-> r.pool, pools |-> routing.pools]
  /\ UNCHANGED <<startup, routing, expiry, cache, cached>>

PoolsLookedInNow(request) == routing.pools
PoolsLookedIn(request) == request.pools

Found(request) == \E p \in Entries(PoolsLookedIn(request)) : p.id = request.pool

(* Then its pool is looked up, and it is forwarded or refused.             *)
Forward ==
  /\ asked # NoConfig
  /\ asked' = NoConfig
  /\ UNCHANGED <<startup, routing, expiry, cache, cached>>

Crash ==
  /\ startup = "serving"
  /\ startup' = "stopped"
  /\ routing' = NoConfig /\ expiry' = <<>> /\ asked' = NoConfig
  /\ UNCHANGED <<cache, cached>>

Next ==
  \/ \E n \in NodeConfigs, c \in DynamicConfigs, readable, built, written \in BOOLEAN :
       Start(n, c, readable, built, written)
  \/ \E c \in DynamicConfigs, built, written \in BOOLEAN : Reload(c, built, written)
  \/ routing # NoConfig /\ \E r \in Entries(routing.routes) : Route(r)
  \/ Forward
  \/ Crash

-----------------------------------------------------------------------------
(* A request is never refused for a pool that is not there: every config   *)
(* served resolves its routes, and a request looks its pool up in the      *)
(* pools it loaded with its route, whatever reloads happen in between      *)
(* (validate_dynamic_config, route).                                       *)
PoolIsFound == asked # NoConfig => Found(asked)

(* The cache reads back as the config it was written from, and as one the  *)
(* node would accept again, whatever units its durations are written in    *)
(* (duration.rs, reload/cache.rs).                                         *)
CacheReadsBack ==
  cache # NoConfig => ReadIn(cache) = cached /\ Validate(ReadIn(cache))

(* No start gets past the validation of the node config only to fail on    *)
(* what it checked: neither on half a client identity nor on a timeout     *)
(* that rounds to zero when http_options takes its share of it (connector, *)
(* Edge::new).                                                             *)
StartsAsValidated == startup \notin {"incomplete", "unservable"}

(* What is exported of the certificates is what the config being served    *)
(* says, after any sequence of reloads and restarts: no name that is gone, *)
(* none missing (install).                                                 *)
ExpiriesAreTheServed ==
  /\ DOMAIN expiry = Names(StoreNow)
  /\ \A name \in DOMAIN expiry : expiry[name] = Expiry(StoreNow, name)

=============================================================================
