------------------------------- MODULE Reload --------------------------------
(***************************************************************************)
(* Keeping a node in step with its dynamic config and its certificate      *)
(* files (gfe/proxy/src/reload: controller.rs, applier.rs, watcher.rs,     *)
(* cache.rs; lib/tls/src/cert_files.rs), through crashes and restarts.     *)
(*                                                                         *)
(* Three tasks reload, one at a time under the `tracked` lock: the start,  *)
(* the watcher's and the certificate poller's.  The disk changes between   *)
(* any two steps of theirs.  A config names at most one certificate, whose *)
(* certificate and key files are rotated one after the other; the two load *)
(* if they are of the same rotation.                                       *)
(***************************************************************************)
EXTENDS Naturals

CONSTANTS
  Good,           \* configs that validate
  Invalid,        \* configs that parse but do not validate
  Unreadable,     \* a config file that is missing or does not parse
  Secure,         \* the configs that name the certificate
  None,
  MaxRotation,    \* how often the certificate is rotated
  BindsMayFail    \* whether a listener's socket may not be had

ASSUME ReloadAssumption ==
  /\ Secure \subseteq Good \cup Invalid
  /\ Unreadable \notin Good \cup Invalid /\ None \notin Good \cup Invalid \cup {Unreadable}
  /\ None \notin Nat
  /\ Good \cap Invalid = {}
  /\ MaxRotation \in Nat
  /\ BindsMayFail \in BOOLEAN

Files == {"cert", "key"}

VARIABLES
  \* on disk, where a crash leaves it
  deployed,        \* the dynamic config file
  files,           \* the rotation each certificate file is of
  cache,           \* the last-known-good cache
  \* the node
  node,            \* "down", "starting", "applied", "up" or "leaving"
  event,           \* a change of the config file not yet acted on
  watcher,         \* "idle" or "wanting" the lock
  job,             \* what the holder of the lock is doing
  following,       \* Tracked::following
  seen,            \* Tracked::cert_files
  initial,         \* the config apply_initial returned
  \* what the node serves
  certs,           \* the certificates, by the config and the rotation they are of
  routing,         \* the config the routes and pools are of
  listeners,       \* the config the running listeners are of
  checks,          \* the config the health checks are of
  \* what it reports
  reload_failed, from_cache,
  uncached,        \* history: what is served could not be written to the cache
  refused          \* history: the last reload could not have a socket

disk == <<deployed, files, cache>>
serving == <<certs, routing, listeners, checks>>
gauges == <<reload_failed, from_cache>>
history == <<uncached, refused>>
vars == <<disk, node, event, watcher, job, following, seen, initial, serving, gauges, history>>

Configs == Good \cup Invalid
Rotations == 0..MaxRotation
Phases == {"load", "stamp cert", "stamp key", "read cert", "read key", "bind",
           "swap certs", "swap routing", "commit", "reconcile", "cache"}

Free == [by |-> "nobody", phase |-> "free", config |-> None, read |-> [f \in Files |-> None]]
Jobs ==
  [by : {"start", "start from cache", "watcher", "poller"}, phase : Phases,
   config : Configs \cup {None}, read : [Files -> Rotations \cup {None}]]

LockFree == job = Free

(* The state of the node: only configs that validate are ever served,      *)
(* cached or checked.                                                      *)
TypeOK ==
  /\ deployed \in Configs \cup {Unreadable} /\ cache \in Good \cup {None}
  /\ files \in [Files -> Rotations]
  /\ node \in {"down", "starting", "applied", "up", "leaving"}
  /\ event \in BOOLEAN /\ watcher \in {"idle", "wanting"}
  /\ job \in Jobs \cup {Free}
  /\ following \in BOOLEAN
  /\ seen \in [Files -> Rotations \cup {None}]
  /\ initial \in Good \cup {None}
  /\ certs \in [of : Good \cup {None}, rotation : Rotations \cup {None}]
  /\ {routing, listeners, checks} \subseteq Good \cup {None}
  /\ reload_failed \in BOOLEAN /\ from_cache \in BOOLEAN
  /\ uncached \in BOOLEAN /\ refused \in BOOLEAN

NoCerts == [of |-> None, rotation |-> None]
NoFiles == [f \in Files |-> None]

Down ==
  /\ node = "down" /\ event = FALSE /\ watcher = "idle" /\ job = Free
  /\ following = FALSE /\ seen = NoFiles /\ initial = None
  /\ certs = NoCerts /\ routing = None /\ listeners = None /\ checks = None
  /\ reload_failed = FALSE /\ from_cache = FALSE

Init ==
  /\ deployed \in Good /\ files = [f \in Files |-> 0] /\ cache = None
  /\ Down
  /\ uncached = FALSE /\ refused = FALSE

-----------------------------------------------------------------------------
(* A watcher set up once the first config is applied.                      *)
DeployUnwatchedAtStart(c) ==
  /\ deployed' = c
  /\ event' = IF node \in {"down", "starting"} THEN event ELSE TRUE
  /\ UNCHANGED <<files, cache, node, watcher, job, following, seen, initial, serving, gauges, history>>

(* The operator deploys a config, over the old one in one rename, and the  *)
(* watcher is told.  Events it has not acted on are one: "a full channel   *)
(* means a reload is already pending".                                     *)
Deploy(c) ==
  /\ deployed' = c
  /\ event' = (node # "down")
  /\ UNCHANGED <<files, cache, node, watcher, job, following, seen, initial, serving, gauges, history>>

(* A rotation replaces the certificate, then its key.                      *)
Rotate(f) ==
  /\ files[f] < MaxRotation
  /\ IF f = "cert" THEN files["cert"] = files["key"] ELSE files["key"] < files["cert"]
  /\ files' = [files EXCEPT ![f] = @ + 1]
  /\ UNCHANGED <<deployed, cache, node, event, watcher, job, following, seen, initial,
                 serving, gauges, history>>

(* The process dies, or has drained and exits; what it held is gone.       *)
GoDown ==
  /\ node' = "down" /\ event' = FALSE /\ watcher' = "idle" /\ job' = Free
  /\ following' = FALSE /\ seen' = NoFiles /\ initial' = None
  /\ certs' = NoCerts /\ routing' = None /\ listeners' = None /\ checks' = None
  /\ reload_failed' = FALSE /\ from_cache' = FALSE
  /\ uncached' = FALSE /\ refused' = FALSE
  /\ UNCHANGED disk

Crash == node # "down" /\ GoDown

-----------------------------------------------------------------------------
(* Controller::start watches the config file before it reads it.           *)
Start ==
  /\ node = "down"
  /\ node' = "starting"
  /\ UNCHANGED <<disk, event, watcher, job, following, seen, initial, serving, gauges, history>>

Begin(by) == job' = [Free EXCEPT !.by = by, !.phase = "load"]

ApplyInitial ==
  /\ node = "starting" /\ LockFree
  /\ Begin("start")
  /\ UNCHANGED <<disk, node, event, watcher, following, seen, initial, serving, gauges, history>>

(* The file has been quiet for the debounce window, and the task that      *)
(* waits for it is not in a reload of its own.                             *)
WatcherFires ==
  /\ event /\ watcher = "idle" /\ job.by # "watcher"
  /\ event' = FALSE
  /\ watcher' = "wanting"
  /\ UNCHANGED <<disk, node, job, following, seen, initial, serving, gauges, history>>

(* Reloader::reload without the check of `following`.                      *)
WatcherReloadsAnyway ==
  /\ watcher = "wanting" /\ LockFree
  /\ watcher' = "idle"
  /\ Begin("watcher")
  /\ UNCHANGED <<disk, node, event, following, seen, initial, serving, gauges, history>>

(* A reload given up when another is under way.                            *)
WatcherReloadsIfFree ==
  /\ watcher = "wanting"
  /\ watcher' = "idle"
  /\ IF LockFree /\ following THEN Begin("watcher") ELSE UNCHANGED job
  /\ UNCHANGED <<disk, node, event, following, seen, initial, serving, gauges, history>>

(* Reloader::reload.                                                       *)
WatcherReloads ==
  /\ watcher = "wanting" /\ LockFree
  /\ watcher' = "idle"
  /\ IF following THEN Begin("watcher") ELSE UNCHANGED job
  /\ UNCHANGED <<disk, node, event, following, seen, initial, serving, gauges, history>>

ChangedOnDisk == \E f \in Files : seen[f] # None /\ seen[f] # files[f]

Refreshed == [f \in Files |-> IF seen[f] = None THEN None ELSE files[f]]

(* Reloader::reload_if_certificates_changed, at a tick of the poller.      *)
PollerReloads ==
  /\ node = "up" /\ LockFree
  /\ following /\ ChangedOnDisk
  /\ seen' = Refreshed
  /\ Begin("poller")
  /\ UNCHANGED <<disk, node, event, watcher, following, initial, serving, gauges, history>>

-----------------------------------------------------------------------------
(* A reload reports a config that cannot be used, and keeps the one        *)
(* running.                                                                *)
KeepRunning ==
  /\ job.by \in {"watcher", "poller"}
  /\ job' = Free
  /\ reload_failed' = TRUE
  /\ refused' = (job.phase = "bind")
  /\ UNCHANGED <<disk, node, event, watcher, following, seen, initial, serving, from_cache, uncached>>

(* A start turns to the cache and, without one it can use, gives up.       *)
StartFromCache ==
  /\ job.by \in {"start", "start from cache"}
  /\ IF job.by = "start" /\ cache # None
     THEN /\ Begin("start from cache")
          /\ UNCHANGED <<disk, node, event, watcher, following, seen, initial, serving, gauges, history>>
     ELSE GoDown

Fail == KeepRunning \/ StartFromCache

To(phase) == job' = [job EXCEPT !.phase = phase]

JobOnly == UNCHANGED <<disk, node, event, watcher, following, initial, serving, gauges, history>>

(* load_dynamic_config, of the deployed file or of the cache.              *)
Load ==
  /\ job.phase = "load"
  /\ LET c == IF job.by = "start from cache" THEN cache ELSE deployed
     IN  \/ /\ c = Unreadable
            /\ Fail
         \/ /\ c # Unreadable
            /\ job' = [job EXCEPT !.config = c, !.phase = "stamp cert"]
            /\ UNCHANGED seen
            /\ JobOnly

(* A snapshot that leaves the key files out.                               *)
StampCertOnly(f) ==
  /\ job.phase = IF f = "cert" THEN "stamp cert" ELSE "stamp key"
  /\ seen' = [seen EXCEPT ![f] = IF job.config \in Secure /\ f = "cert" THEN files[f] ELSE None]
  /\ To(IF f = "cert" THEN "stamp key" ELSE "read cert")
  /\ JobOnly

(* CertFiles::snapshot looks at the files of the config before they are    *)
(* read, one after the other.                                              *)
Stamp(f) ==
  /\ job.phase = IF f = "cert" THEN "stamp cert" ELSE "stamp key"
  /\ seen' = [seen EXCEPT ![f] = IF job.config \in Secure THEN files[f] ELSE None]
  /\ To(IF f = "cert" THEN "stamp key" ELSE "read cert")
  /\ JobOnly

(* A config applied without being validated.                               *)
ReadCertUnvalidated ==
  /\ job.phase = "read cert"
  /\ job' = [job EXCEPT !.phase = "read key",
                        !.read["cert"] = IF job.config \in Secure THEN files["cert"] ELSE None]
  /\ UNCHANGED seen
  /\ JobOnly

(* prepare: the config is validated, then its certificate is loaded.       *)
ReadCert ==
  /\ job.phase = "read cert"
  /\ \/ /\ job.config \in Invalid
        /\ Fail
     \/ /\ job.config \in Good
        /\ job' = [job EXCEPT !.phase = "read key",
                              !.read["cert"] = IF job.config \in Secure THEN files["cert"] ELSE None]
        /\ UNCHANGED seen
        /\ JobOnly

(* A key that does not match its certificate is an error.                  *)
ReadKey ==
  /\ job.phase = "read key"
  /\ LET key == IF job.config \in Secure THEN files["key"] ELSE None
     IN  \/ /\ key # job.read["cert"]
            /\ Fail
         \/ /\ key = job.read["cert"]
            /\ job' = [job EXCEPT !.phase = "bind", !.read["key"] = key]
            /\ UNCHANGED seen
            /\ JobOnly

(* A snapshot taken once the certificate is loaded.                        *)
BindStampingLate ==
  /\ job.phase = "bind"
  /\ \/ /\ To("swap certs")
        /\ seen' = IF job.config \in Secure THEN files ELSE seen
        /\ JobOnly
     \/ /\ BindsMayFail
        /\ Fail

(* Listeners::stage binds what the config adds.                            *)
Bind ==
  /\ job.phase = "bind"
  /\ \/ /\ To("swap certs")
        /\ UNCHANGED seen
        /\ JobOnly
     \/ /\ BindsMayFail
        /\ Fail

(* install, then Listeners::commit.                                        *)
SwapCerts ==
  /\ job.phase = "swap certs"
  /\ certs' = [of |-> job.config, rotation |-> job.read["cert"]]
  /\ To("swap routing")
  /\ UNCHANGED <<disk, node, event, watcher, following, seen, initial, routing, listeners,
                 checks, gauges, history>>

SwapRouting ==
  /\ job.phase = "swap routing"
  /\ routing' = job.config
  /\ To("commit")
  /\ UNCHANGED <<disk, node, event, watcher, following, seen, initial, certs, listeners,
                 checks, gauges, history>>

(* A start has its health checks follow once it holds the lock no more.    *)
Committed ==
  /\ listeners' = job.config
  /\ IF job.by = "start from cache"
     THEN /\ job' = Free
          /\ following' = TRUE /\ initial' = job.config
          /\ node' = "applied"
          /\ reload_failed' = TRUE /\ from_cache' = TRUE
     ELSE /\ To(IF job.by = "start" THEN "cache" ELSE "reconcile")
          /\ UNCHANGED <<following, initial, node, gauges>>
  /\ UNCHANGED <<disk, event, watcher, seen, certs, routing, checks, history>>

(* A commit that finds out only then that a socket cannot be had.          *)
CommitThatBinds == job.phase = "commit" /\ (Committed \/ (BindsMayFail /\ Fail))

Commit == job.phase = "commit" /\ Committed

Reconcile ==
  /\ job.phase = "reconcile"
  /\ checks' = job.config
  /\ To("cache")
  /\ UNCHANGED <<disk, node, event, watcher, following, seen, initial, certs, routing,
                 listeners, gauges, history>>

(* The gauges are set and the lock is released.                            *)
Applied ==
  /\ job' = Free
  /\ reload_failed' = FALSE /\ from_cache' = FALSE /\ refused' = FALSE
  /\ IF job.by = "start"
     THEN following' = TRUE /\ initial' = job.config /\ node' = "applied"
     ELSE UNCHANGED <<following, initial, node>>
  /\ UNCHANGED <<deployed, files, event, watcher, seen, serving>>

(* A cache only a starting node writes.                                    *)
WriteCacheAtStart ==
  /\ job.phase = "cache"
  /\ cache' = IF job.by = "start" THEN job.config ELSE cache
  /\ UNCHANGED uncached
  /\ Applied

(* The cache is replaced by a rename, or a warning logged; a node without  *)
(* one never writes it.                                                    *)
WriteCache ==
  /\ job.phase = "cache"
  /\ \/ cache' = job.config /\ uncached' = FALSE
     \/ UNCHANGED cache /\ uncached' = TRUE
  /\ Applied

(* The end of Controller::start: the health checks of the first config,    *)
(* then the poller.                                                        *)
StartReconciles ==
  /\ node = "applied"
  /\ node' = "up"
  /\ checks' = initial
  /\ UNCHANGED <<disk, event, watcher, job, following, seen, initial, certs, routing,
                 listeners, gauges, history>>

(* Controller::shutdown, once a reload under way is done.  The watcher is  *)
(* dropped on a thread of its own, so changes may be noticed yet.          *)
Shutdown ==
  /\ node = "up" /\ LockFree
  /\ node' = "leaving"
  /\ following' = FALSE
  /\ checks' = None
  /\ UNCHANGED <<disk, event, watcher, job, seen, initial, certs, routing, listeners, gauges, history>>

-----------------------------------------------------------------------------
Environment ==
  \/ \E c \in Configs \cup {Unreadable} : Deploy(c)
  \/ \E f \in Files : Rotate(f)
  \/ Crash \/ Start \/ Shutdown

HoldingTheLock ==
  \/ Load \/ (\E f \in Files : Stamp(f)) \/ ReadCert \/ ReadKey \/ Bind
  \/ SwapCerts \/ SwapRouting \/ Commit \/ Reconcile \/ WriteCache

Next ==
  \/ Environment
  \/ ApplyInitial \/ WatcherFires \/ WatcherReloads \/ PollerReloads
  \/ HoldingTheLock
  \/ StartReconciles

Spec == Init /\ [][Next]_vars

(* The runtime runs its tasks, and the poller ticks.  The lock is held for *)
(* moments, ten seconds apart by the poller, so whoever waits for it gets  *)
(* it if it is free again and again.                                       *)
Fairness ==
  /\ WF_vars(HoldingTheLock)
  /\ WF_vars(ApplyInitial) /\ WF_vars(StartReconciles)
  /\ WF_vars(WatcherFires)
  /\ SF_vars(WatcherReloads) /\ SF_vars(PollerReloads)

FairSpec == Spec /\ Fairness

-----------------------------------------------------------------------------
(* All or nothing: whenever no reload is under way, the certificates, the  *)
(* routes and pools, and the listeners are of the same config, whatever    *)
(* failed and whenever.                                                    *)
ServedIsOneConfig == LockFree => certs.of = routing /\ listeners = routing

(* A node that reports no failure and has no change to look at serves the  *)
(* config that is deployed.                                                *)
UpToDateUnlessReported ==
  LockFree /\ following /\ ~reload_failed /\ ~event /\ watcher = "idle" => routing = deployed

(* "A file replaced in between is seen as changed by the next poll": if    *)
(* the poller would find nothing new, the certificate served is the one on *)
(* disk.                                                                   *)
RotationIsNoticed ==
  LockFree /\ following /\ ~reload_failed /\ routing \in Secure /\ ~ChangedOnDisk
    => \A f \in Files : certs.rotation = files[f]

(* Neither a deployment nor a rotation is missed by both of its watchers.  *)
NoChangeIsMissed == TypeOK /\ UpToDateUnlessReported /\ RotationIsNoticed

(* Between reloads the cache holds what is served, unless it could not be  *)
(* written, so a node that restarts while its config is broken "keeps      *)
(* serving what it served before".                                         *)
CacheIsWhatIsServed == LockFree /\ routing # None /\ ~uncached => cache = routing

(* shutdown: "no more reloads (one under way finishes first), no more      *)
(* health checks".                                                         *)
NothingAppliedOnceLeaving ==
  [][node = "leaving" /\ node' = "leaving" => UNCHANGED serving]_vars

(* The health checks follow the config: once the node is up and no reload  *)
(* is under way, they are those of the pools it serves from.               *)
ChecksFollowTheConfig == LockFree /\ node = "up" => checks = routing

(* A config that stays deployed is served in the end, or reported as       *)
(* rejected, by a node that stays up.                                      *)
ServedOrReported ==
  \A c \in Good :
    <>[](deployed = c /\ following) => <>[](routing = c \/ reload_failed)

Settled(c, r) == deployed = c /\ files = [f \in Files |-> r] /\ following

ServesAll(c, r) == routing = c /\ (c \in Secure => certs.rotation = r) /\ ~reload_failed

(* A good config and a whole rotation that stay on disk are served in the  *)
(* end, if the last reload could have its sockets and the node does not    *)
(* run from its cache: no half-way rotation or broken config leaves a      *)
(* running node behind.                                                    *)
RunningNodeConverges ==
  \A c \in Good, r \in Rotations :
    <>[](Settled(c, r) /\ ~from_cache) => <>[](ServesAll(c, r) \/ refused)

(* The same of every node.  "A restart behaves like a rejected reload", of *)
(* which the code says that "the next change of a file triggers the next   *)
(* attempt".                                                               *)
RestartedNodeConverges ==
  \A c \in Good, r \in Rotations : <>[]Settled(c, r) => <>[]ServesAll(c, r)

=============================================================================
