----------------------------- MODULE ReloadProofs ----------------------------
(***************************************************************************)
(* For any configs and any number of rotations: a node serves one config   *)
(* at a time, caches what it serves, applies nothing once it leaves, and   *)
(* misses no change of the config or of its certificate, wherever its      *)
(* reloads fail and whenever it crashes.                                   *)
(***************************************************************************)
EXTENDS Reload, TLAPS

(* What the holder of the lock knows of its config, by the phase it is in. *)
(* The cache is nobody else's to write, so a start from it finds it again. *)
JobOK ==
  job # Free =>
    /\ job.phase # "load" => job.config \in Configs
    /\ job.phase \in {"read key", "bind", "swap certs", "swap routing", "commit",
                      "reconcile", "cache"} => job.config \in Good
    /\ job.by = "start from cache" =>
         cache # None /\ (job.phase # "load" => job.config = cache)

(* Where each phase has left what is served: the certificates are swapped  *)
(* first, then the routes, then the listeners.                             *)
Whole ==
  /\ job.phase \notin {"swap routing", "commit"} => certs.of = routing
  /\ job.phase # "commit" => listeners = routing
  /\ job.phase \in {"swap routing", "commit"} => certs.of = job.config
  /\ job.phase \in {"commit", "reconcile", "cache"} => routing = job.config

(* The cache lags behind only from the swap of the routes to its write.    *)
Cached ==
  job.phase \notin {"commit", "reconcile", "cache"} /\ routing # None /\ ~uncached
    => cache = routing

(* A leaving node has no reload under way, and begins none.                *)
Left == node = "leaving" => job = Free /\ ~following

IInv == TypeOK /\ JobOK /\ Whole /\ Cached /\ Left

(* What changes on disk, or outside the lock, disturbs none of it.         *)
LEMMA DeployKeeps ==
  ASSUME IInv, NEW c \in Configs \cup {Unreadable}, Deploy(c)
  PROVE  IInv'
<1>1. event' \in BOOLEAN
  BY DEF Deploy
<1>2. TypeOK'
  BY <1>1 DEF IInv, TypeOK, Deploy, serving, gauges, history
<1>3. JobOK' /\ Whole' /\ Cached' /\ Left'
  BY Zenon DEF IInv, JobOK, Whole, Cached, Left, Deploy, serving, gauges, history
<1> QED
  BY <1>2, <1>3 DEF IInv

LEMMA RotateKeeps ==
  ASSUME IInv, NEW f \in Files, Rotate(f)
  PROVE  IInv'
<1>1. files' \in [Files -> Rotations]
  BY ReloadAssumption DEF IInv, TypeOK, Rotate, Rotations
<1>2. TypeOK'
  BY <1>1 DEF IInv, TypeOK, Rotate, serving, gauges, history
<1>3. JobOK' /\ Whole' /\ Cached' /\ Left'
  BY Zenon DEF IInv, JobOK, Whole, Cached, Left, Rotate, serving, gauges, history
<1> QED
  BY <1>2, <1>3 DEF IInv

LEMMA GoDownKeeps ==
  ASSUME IInv, GoDown
  PROVE  IInv'
<1>1. TypeOK'
  BY Zenon DEF IInv, TypeOK, GoDown, NoCerts, NoFiles, disk
<1>2. JobOK' /\ Whole' /\ Cached' /\ Left'
  BY Zenon DEF IInv, JobOK, Whole, Cached, Left, GoDown, Free, NoCerts, disk
<1> QED
  BY <1>1, <1>2 DEF IInv

LEMMA StartKeeps ==
  ASSUME IInv, Start \/ WatcherFires
  PROVE  IInv'
<1>1. CASE Start
  <2>1. node' = "starting" /\ UNCHANGED <<deployed, files, cache, event, watcher, job, following, seen, initial,
           certs, routing, listeners, checks, reload_failed, from_cache, uncached, refused>>
    BY <1>1 DEF Start, disk, serving, gauges, history
  <2>2. TypeOK'
    BY <2>1 DEF IInv, TypeOK
  <2>3. JobOK' /\ Whole' /\ Cached'
    BY <2>1, Zenon DEF IInv, JobOK, Whole, Cached
  <2>4. Left'
    BY <2>1 DEF IInv, Left
  <2> QED
    BY <2>2, <2>3, <2>4 DEF IInv
<1>2. CASE WatcherFires
  <2>1. event' \in BOOLEAN /\ watcher' \in {"idle", "wanting"}
    BY <1>2, Zenon DEF WatcherFires
  <2>2. UNCHANGED <<deployed, files, cache, node, job, following, seen, initial,
           certs, routing, listeners, checks, reload_failed, from_cache, uncached, refused>>
    BY <1>2 DEF WatcherFires, disk, serving, gauges, history
  <2>3. TypeOK'
    BY <2>1, <2>2 DEF IInv, TypeOK
  <2>4. JobOK' /\ Whole' /\ Cached'
    BY <2>2, Zenon DEF IInv, JobOK, Whole, Cached
  <2>5. Left'
    BY <2>2 DEF IInv, Left
  <2> QED
    BY <2>3, <2>4, <2>5 DEF IInv
<1> QED
  BY <1>1, <1>2

(* A job begun has loaded nothing.                                         *)
LEMMA Begun ==
  ASSUME NEW by \in {"start", "start from cache", "watcher", "poller"}, Begin(by)
  PROVE  /\ job' \in Jobs
         /\ job'.phase = "load" /\ job'.by = by
BY Zenon DEF Begin, Free, Jobs, Phases

LEMMA BeginKeeps ==
  ASSUME IInv, ApplyInitial \/ WatcherReloads \/ PollerReloads
  PROVE  IInv'
<1>1. seen' \in [Files -> Rotations \cup {None}]
  BY DEF IInv, TypeOK, ApplyInitial, WatcherReloads, PollerReloads, Refreshed
<1>2. \/ UNCHANGED job
      \/ /\ job' \in Jobs /\ job'.phase = "load"
         /\ job'.by \in {"start", "watcher", "poller"}
         /\ node = "starting" \/ following
  BY Begun, Zenon DEF ApplyInitial, WatcherReloads, PollerReloads
<1>3. job.phase = "free"
  BY DEF ApplyInitial, WatcherReloads, PollerReloads, LockFree, Free
<1>4. TypeOK'
  BY <1>1, <1>2 DEF IInv, TypeOK, ApplyInitial, WatcherReloads, PollerReloads, disk, serving,
                    gauges, history
<1>5. UNCHANGED <<disk, node, following, serving, history>>
  BY DEF ApplyInitial, WatcherReloads, PollerReloads
<1>6. JobOK' /\ Whole' /\ Cached' /\ Left'
  BY <1>2, <1>3, <1>5, Zenon DEF IInv, JobOK, Whole, Cached, Left, disk, serving, history
<1> QED
  BY <1>4, <1>6 DEF IInv

(* The type of what a step of a reload may leave behind.                   *)
LEMMA TypeKept ==
  ASSUME TypeOK, job' \in Jobs \cup {Free},
         UNCHANGED <<deployed, files, cache, node, event, watcher, following, initial,
                     certs, routing, listeners, checks, from_cache, uncached>>,
         seen' \in [Files -> Rotations \cup {None}],
         reload_failed' \in BOOLEAN, refused' \in BOOLEAN
  PROVE  TypeOK'
BY DEF TypeOK

LEMMA FreePhase == Free.phase = "free"
BY DEF Free

LEMMA FailKeeps ==
  ASSUME IInv, Fail, job.phase \in {"load", "read cert", "read key", "bind"}
  PROVE  IInv'
<1>1. CASE KeepRunning
  <2>1. refused' \in BOOLEAN /\ reload_failed' \in BOOLEAN
    BY <1>1, Zenon DEF KeepRunning
  <2>2. seen' \in [Files -> Rotations \cup {None}]
    BY <1>1, Zenon DEF KeepRunning, IInv, TypeOK
  <2>3. /\ job' = Free
        /\ UNCHANGED <<deployed, files, cache, node, event, watcher, following, seen, initial,
                       certs, routing, listeners, checks, from_cache, uncached>>
    BY <1>1, Zenon DEF KeepRunning, disk, serving
  <2>4. TypeOK'
    BY <2>1, <2>3, <2>2, TypeKept, Zenon DEF IInv
  <2>5. JobOK' /\ Whole' /\ Cached' /\ Left'
    BY <2>3, FreePhase, Zenon DEF IInv, JobOK, Whole, Cached, Left
  <2> QED
    BY <2>4, <2>5, Zenon DEF IInv
<1>2. ASSUME StartFromCache, job.by = "start" /\ cache # None
      PROVE  IInv'
  <2>1. job' \in Jobs /\ job'.phase = "load" /\ job'.by = "start from cache"
    BY <1>2, Begun, Zenon DEF StartFromCache
  <2>2. UNCHANGED <<deployed, files, cache, node, event, watcher, following, seen, initial,
                    certs, routing, listeners, checks, reload_failed, from_cache, uncached, refused>>
    BY <1>2, Zenon DEF StartFromCache, disk, serving, gauges, history
  <2>3. /\ reload_failed' \in BOOLEAN /\ refused' \in BOOLEAN
        /\ seen' \in [Files -> Rotations \cup {None}]
    BY <2>2, Zenon DEF IInv, TypeOK
  <2>4. TypeOK'
    BY <2>1, <2>2, <2>3, TypeKept, Zenon DEF IInv
  <2>5. job # Free
    BY FreePhase, Zenon
  <2>6. JobOK' /\ Whole' /\ Cached' /\ Left'
    BY <1>2, <2>1, <2>2, <2>5, Zenon DEF IInv, JobOK, Whole, Cached, Left
  <2> QED
    BY <2>4, <2>6, Zenon DEF IInv
<1>3. ASSUME StartFromCache, ~(job.by = "start" /\ cache # None)
      PROVE  IInv'
  BY <1>3, GoDownKeeps, Zenon DEF StartFromCache
<1> QED
  BY <1>1, <1>2, <1>3, Zenon DEF Fail

(* A step towards the swaps moves the job only, and what it has looked at.  *)
LEMMA JobStepKeeps ==
  ASSUME IInv, JobOnly, seen' \in [Files -> Rotations \cup {None}],
         job.phase \in {"load", "stamp cert", "stamp key", "read cert", "read key", "bind"},
         job' \in Jobs, job'.by = job.by,
         job'.phase \in {"stamp cert", "stamp key", "read cert", "read key", "bind", "swap certs"},
         job'.config \in Configs,
         job'.phase \in {"read key", "bind", "swap certs"} => job'.config \in Good,
         job.by = "start from cache" => job'.config = cache
  PROVE  IInv'
<1>1. UNCHANGED <<deployed, files, cache, node, event, watcher, following, initial,
                  certs, routing, listeners, checks, reload_failed, from_cache, uncached, refused>>
  BY Zenon DEF JobOnly, disk, serving, gauges, history
<1>2. reload_failed' \in BOOLEAN /\ refused' \in BOOLEAN
  BY <1>1, Zenon DEF IInv, TypeOK
<1>3. TypeOK'
  BY <1>1, <1>2, TypeKept, Zenon DEF IInv
<1>4. job # Free
  BY FreePhase, Zenon
<1>5. JobOK' /\ Whole' /\ Cached' /\ Left'
  BY <1>1, <1>4, Zenon DEF IInv, JobOK, Whole, Cached, Left
<1> QED
  BY <1>3, <1>5, Zenon DEF IInv

(* The holder of the lock, and what the invariant says of it.              *)
LEMMA Holder ==
  ASSUME IInv, job.phase # "free"
  PROVE  job \in Jobs /\ job # Free
BY FreePhase DEF IInv, TypeOK

LEMMA LoadKeeps ==
  ASSUME IInv, Load
  PROVE  IInv'
<1>1. job \in Jobs /\ job # Free /\ job.phase = "load"
  BY Holder, Zenon DEF Load
<1> DEFINE c == IF job.by = "start from cache" THEN cache ELSE deployed
<1>2. CASE c = Unreadable
  BY <1>1, <1>2, FailKeeps, Zenon DEF Load
<1>3. CASE c # Unreadable
  <2>1. /\ job' = [job EXCEPT !.config = c, !.phase = "stamp cert"]
        /\ UNCHANGED seen
        /\ JobOnly
    BY <1>3, Zenon DEF Load
  <2>2. c \in Configs /\ (job.by = "start from cache" => c = cache)
    BY <1>1, <1>3, Zenon DEF IInv, TypeOK, JobOK, Configs
  <2>3. /\ job' \in Jobs /\ job'.by = job.by
        /\ job'.phase = "stamp cert" /\ job'.config = c
    BY <1>1, <2>1, <2>2, Zenon DEF Jobs, Phases
  <2>4. seen' \in [Files -> Rotations \cup {None}]
    BY <2>1 DEF IInv, TypeOK
  <2> QED
    BY <1>1, <2>1, <2>2, <2>3, <2>4, JobStepKeeps, Zenon
<1> QED
  BY <1>2, <1>3, Zenon

LEMMA StampKeeps ==
  ASSUME IInv, NEW f \in Files, Stamp(f)
  PROVE  IInv'
<1>1. job \in Jobs /\ job # Free /\ job.phase \in {"stamp cert", "stamp key"}
  BY Holder, Zenon DEF Stamp
<1>2. seen' \in [Files -> Rotations \cup {None}]
  BY Zenon DEF Stamp, IInv, TypeOK
<1>3. /\ job' \in Jobs /\ job'.by = job.by /\ job'.config = job.config
      /\ job'.phase \in {"stamp key", "read cert"}
  BY <1>1, Zenon DEF Stamp, To, Jobs, Phases
<1>4. job.config \in Configs /\ (job.by = "start from cache" => job.config = cache)
  BY <1>1, Zenon DEF IInv, JobOK
<1> QED
  BY <1>1, <1>2, <1>3, <1>4, JobStepKeeps, Zenon DEF Stamp

LEMMA ReadCertKeeps ==
  ASSUME IInv, ReadCert
  PROVE  IInv'
<1>1. job \in Jobs /\ job # Free /\ job.phase = "read cert"
  BY Holder, Zenon DEF ReadCert
<1>2. CASE job.config \in Invalid /\ Fail
  BY <1>1, <1>2, FailKeeps, Zenon
<1>3. ASSUME job.config \in Good, JobOnly, UNCHANGED seen,
             job' = [job EXCEPT !.phase = "read key",
                       !.read["cert"] = IF job.config \in Secure THEN files["cert"] ELSE None]
      PROVE  IInv'
  <2>1. files["cert"] \in Rotations
    BY DEF IInv, TypeOK, Files
  <2>2. /\ job' \in Jobs /\ job'.by = job.by /\ job'.config = job.config
        /\ job'.phase = "read key"
    BY <1>1, <1>3, <2>1, Zenon DEF Jobs, Phases, Files
  <2>3. job.config \in Configs /\ (job.by = "start from cache" => job.config = cache)
    BY <1>1, Zenon DEF IInv, JobOK
  <2>4. seen' \in [Files -> Rotations \cup {None}]
    BY <1>3 DEF IInv, TypeOK
  <2> QED
    BY <1>1, <1>3, <2>2, <2>3, <2>4, JobStepKeeps, Zenon
<1> QED
  BY <1>2, <1>3, Zenon DEF ReadCert

LEMMA ReadKeyKeeps ==
  ASSUME IInv, ReadKey
  PROVE  IInv'
<1>1. job \in Jobs /\ job # Free /\ job.phase = "read key"
  BY Holder, Zenon DEF ReadKey
<1> DEFINE key == IF job.config \in Secure THEN files["key"] ELSE None
<1>2. CASE key # job.read["cert"]
  BY <1>1, <1>2, FailKeeps, Zenon DEF ReadKey
<1>3. CASE key = job.read["cert"]
  <2>1. /\ job' = [job EXCEPT !.phase = "bind", !.read["key"] = key]
        /\ UNCHANGED seen
        /\ JobOnly
    BY <1>3, Zenon DEF ReadKey
  <2>2. key \in Rotations \cup {None}
    BY DEF IInv, TypeOK, Files
  <2>3. /\ job' \in Jobs /\ job'.by = job.by /\ job'.config = job.config
        /\ job'.phase = "bind"
    BY <1>1, <2>1, <2>2, Zenon DEF Jobs, Phases, Files
  <2>4. /\ job.config \in Configs /\ job.config \in Good
        /\ job.by = "start from cache" => job.config = cache
    BY <1>1, Zenon DEF IInv, JobOK
  <2>5. seen' \in [Files -> Rotations \cup {None}]
    BY <2>1 DEF IInv, TypeOK
  <2> QED
    BY <1>1, <2>1, <2>3, <2>4, <2>5, JobStepKeeps, Zenon
<1> QED
  BY <1>2, <1>3

LEMMA BindKeeps ==
  ASSUME IInv, Bind
  PROVE  IInv'
<1>1. job \in Jobs /\ job # Free /\ job.phase = "bind"
  BY Holder, Zenon DEF Bind
<1>2. CASE Fail
  BY <1>1, <1>2, FailKeeps
<1>3. ASSUME To("swap certs"), UNCHANGED seen, JobOnly
      PROVE  IInv'
  <2>1. /\ job' \in Jobs /\ job'.by = job.by /\ job'.config = job.config
        /\ job'.phase = "swap certs"
    BY <1>1, <1>3, Zenon DEF To, Jobs, Phases
  <2>2. /\ job.config \in Configs /\ job.config \in Good
        /\ job.by = "start from cache" => job.config = cache
    BY <1>1, Zenon DEF IInv, JobOK
  <2>3. seen' \in [Files -> Rotations \cup {None}]
    BY <1>3, Zenon DEF IInv, TypeOK
  <2> QED
    BY <1>1, <1>3, <2>1, <2>2, <2>3, JobStepKeeps, Zenon
<1> QED
  BY <1>2, <1>3, Zenon DEF Bind

(* The phases from the swaps on hold a config that validated.              *)
LEMMA Swapping ==
  ASSUME IInv,
         job.phase \in {"swap certs", "swap routing", "commit", "reconcile", "cache"}
  PROVE  /\ job \in Jobs /\ job # Free
         /\ job.config \in Good /\ job.config \in Configs
         /\ job.by = "start from cache" => cache # None /\ job.config = cache
         /\ node # "leaving"
BY Holder, Zenon DEF IInv, JobOK, Left

LEMMA Moved ==
  ASSUME job \in Jobs, NEW phase \in Phases, To(phase)
  PROVE  /\ job' \in Jobs /\ job'.phase = phase
         /\ job'.by = job.by /\ job'.config = job.config /\ job'.read = job.read
BY Zenon DEF To, Jobs

(* The type of what a swap may leave behind.                               *)
LEMMA TypeSwapped ==
  ASSUME TypeOK, job' \in Jobs \cup {Free},
         UNCHANGED <<deployed, files, cache, node, event, watcher, following, seen, initial,
                     reload_failed, from_cache, uncached, refused>>,
         certs' \in [of : Good \cup {None}, rotation : Rotations \cup {None}],
         routing' \in Good \cup {None}, listeners' \in Good \cup {None},
         checks' \in Good \cup {None}
  PROVE  TypeOK'
BY DEF TypeOK

LEMMA SwapCertsKeeps ==
  ASSUME IInv, SwapCerts
  PROVE  IInv'
<1>1. /\ job \in Jobs /\ job # Free /\ job.phase = "swap certs"
      /\ job.config \in Good /\ job.config \in Configs
      /\ job.by = "start from cache" => cache # None /\ job.config = cache
      /\ node # "leaving"
  BY Swapping, Zenon DEF SwapCerts
<1>2. /\ job' \in Jobs /\ job'.phase = "swap routing"
      /\ job'.by = job.by /\ job'.config = job.config
  BY <1>1, Moved, Zenon DEF SwapCerts, Phases
<1>3. certs' \in [of : Good \cup {None}, rotation : Rotations \cup {None}] /\ certs'.of = job.config
  BY <1>1, Zenon DEF SwapCerts, Jobs, Files
<1>4. UNCHANGED <<deployed, files, cache, node, event, watcher, following, seen, initial,
                  routing, listeners, checks, reload_failed, from_cache, uncached, refused>>
  BY Zenon DEF SwapCerts, disk, gauges, history
<1>5. /\ routing' \in Good \cup {None} /\ listeners' \in Good \cup {None}
      /\ checks' \in Good \cup {None}
  BY <1>4 DEF IInv, TypeOK
<1>6. TypeOK'
  BY <1>2, <1>3, <1>4, <1>5, TypeSwapped, Zenon DEF IInv
<1>7. JobOK' /\ Whole' /\ Cached' /\ Left'
  BY <1>1, <1>2, <1>3, <1>4, Zenon DEF IInv, JobOK, Whole, Cached, Left
<1> QED
  BY <1>6, <1>7 DEF IInv

LEMMA SwapRoutingKeeps ==
  ASSUME IInv, SwapRouting
  PROVE  IInv'
<1>1. /\ job \in Jobs /\ job # Free /\ job.phase = "swap routing"
      /\ job.config \in Good /\ job.config \in Configs
      /\ job.by = "start from cache" => cache # None /\ job.config = cache
      /\ node # "leaving"
  BY Swapping, Zenon DEF SwapRouting
<1>2. /\ job' \in Jobs /\ job'.phase = "commit"
      /\ job'.by = job.by /\ job'.config = job.config
  BY <1>1, Moved, Zenon DEF SwapRouting, Phases
<1>3. routing' = job.config
  BY Zenon DEF SwapRouting
<1>4. UNCHANGED <<deployed, files, cache, node, event, watcher, following, seen, initial,
                  certs, listeners, checks, reload_failed, from_cache, uncached, refused>>
  BY Zenon DEF SwapRouting, disk, gauges, history
<1>5. /\ certs' \in [of : Good \cup {None}, rotation : Rotations \cup {None}]
      /\ routing' \in Good \cup {None} /\ listeners' \in Good \cup {None}
      /\ checks' \in Good \cup {None}
  BY <1>1, <1>3, <1>4, Zenon DEF IInv, TypeOK
<1>6. TypeOK'
  BY <1>2, <1>4, <1>5, TypeSwapped DEF IInv
<1>7. JobOK' /\ Whole' /\ Cached' /\ Left'
  BY <1>1, <1>2, <1>3, <1>4, Zenon DEF IInv, JobOK, Whole, Cached, Left
<1> QED
  BY <1>6, <1>7 DEF IInv

LEMMA ReconcileKeeps ==
  ASSUME IInv, Reconcile
  PROVE  IInv'
<1>1. /\ job \in Jobs /\ job # Free /\ job.phase = "reconcile"
      /\ job.config \in Good /\ job.config \in Configs
      /\ job.by = "start from cache" => cache # None /\ job.config = cache
      /\ node # "leaving"
  BY Swapping, Zenon DEF Reconcile
<1>2. /\ job' \in Jobs /\ job'.phase = "cache"
      /\ job'.by = job.by /\ job'.config = job.config
  BY <1>1, Moved, Zenon DEF Reconcile, Phases
<1>3. checks' = job.config
  BY DEF Reconcile
<1>4. UNCHANGED <<deployed, files, cache, node, event, watcher, following, seen, initial,
                  certs, routing, listeners, reload_failed, from_cache, uncached, refused>>
  BY DEF Reconcile, disk, gauges, history
<1>5. /\ certs' \in [of : Good \cup {None}, rotation : Rotations \cup {None}]
      /\ routing' \in Good \cup {None} /\ listeners' \in Good \cup {None}
      /\ checks' \in Good \cup {None}
  BY <1>1, <1>3, <1>4, Zenon DEF IInv, TypeOK
<1>6. TypeOK'
  BY <1>2, <1>4, <1>5, TypeSwapped DEF IInv
<1>7. JobOK' /\ Whole' /\ Cached' /\ Left'
  BY <1>1, <1>2, <1>4, Zenon DEF IInv, JobOK, Whole, Cached, Left
<1> QED
  BY <1>6, <1>7 DEF IInv

(* The type of what the end of a reload, a start or a shutdown may leave   *)
(* behind.                                                                 *)
LEMMA TypeReleased ==
  ASSUME TypeOK, job' \in Jobs \cup {Free},
         UNCHANGED <<deployed, files, event, watcher, seen, certs, routing>>,
         cache' \in Good \cup {None},
         node' \in {"down", "starting", "applied", "up", "leaving"},
         following' \in BOOLEAN, initial' \in Good \cup {None},
         listeners' \in Good \cup {None}, checks' \in Good \cup {None},
         reload_failed' \in BOOLEAN, from_cache' \in BOOLEAN,
         uncached' \in BOOLEAN, refused' \in BOOLEAN
  PROVE  TypeOK'
BY DEF TypeOK

LEMMA CommitKeeps ==
  ASSUME IInv, Commit
  PROVE  IInv'
<1>1. /\ job \in Jobs /\ job # Free /\ job.phase = "commit"
      /\ job.config \in Good /\ job.config \in Configs
      /\ job.by = "start from cache" => cache # None /\ job.config = cache
      /\ node # "leaving"
  BY Swapping, Zenon DEF Commit
<1>2. /\ UNCHANGED <<deployed, files, cache, event, watcher, seen, certs, routing, checks,
                     uncached, refused>>
      /\ listeners' = job.config
  BY Zenon DEF Commit, Committed, disk, history
<1>3. CASE job.by = "start from cache"
  <2>1. job' = Free /\ node' = "applied" /\ initial' = job.config
    BY <1>3, Zenon DEF Commit, Committed
  <2>2. following' \in BOOLEAN /\ reload_failed' \in BOOLEAN /\ from_cache' \in BOOLEAN
    BY <1>3, Zenon DEF Commit, Committed
  <2>3. /\ cache' \in Good \cup {None} /\ checks' \in Good \cup {None}
        /\ uncached' \in BOOLEAN /\ refused' \in BOOLEAN
    BY <1>2 DEF IInv, TypeOK
  <2>4. TypeOK'
    BY <1>1, <1>2, <2>1, <2>2, <2>3, TypeReleased, Zenon DEF IInv
  <2>5. JobOK' /\ Whole' /\ Cached' /\ Left'
    BY <1>1, <1>2, <1>3, <2>1, FreePhase, Zenon DEF IInv, JobOK, Whole, Cached, Left
  <2> QED
    BY <2>4, <2>5 DEF IInv
<1>4. CASE job.by # "start from cache"
  <2>1. /\ job' \in Jobs /\ job'.phase \in {"cache", "reconcile"}
        /\ job'.by = job.by /\ job'.config = job.config
    BY <1>1, <1>4, Moved, Zenon DEF Commit, Committed, Phases
  <2>2. UNCHANGED <<following, initial, node, reload_failed, from_cache>>
    BY <1>4, Zenon DEF Commit, Committed, gauges
  <2>3. /\ certs' \in [of : Good \cup {None}, rotation : Rotations \cup {None}]
        /\ routing' \in Good \cup {None} /\ listeners' \in Good \cup {None}
        /\ checks' \in Good \cup {None}
    BY <1>1, <1>2, Zenon DEF IInv, TypeOK
  <2>4. TypeOK'
    BY <1>2, <2>1, <2>2, <2>3, TypeSwapped DEF IInv
  <2>5. JobOK' /\ Whole' /\ Cached' /\ Left'
    BY <1>1, <1>2, <1>4, <2>1, <2>2, Zenon DEF IInv, JobOK, Whole, Cached, Left
  <2> QED
    BY <2>4, <2>5 DEF IInv
<1> QED
  BY <1>3, <1>4, Zenon

LEMMA WriteCacheKeeps ==
  ASSUME IInv, WriteCache
  PROVE  IInv'
<1>1. /\ job \in Jobs /\ job # Free /\ job.phase = "cache"
      /\ job.config \in Good /\ job.config \in Configs /\ node # "leaving"
  BY Swapping, Zenon DEF WriteCache
<1>2. /\ UNCHANGED <<deployed, files, event, watcher, seen, certs, routing, listeners, checks>>
      /\ job' = Free
  BY DEF WriteCache, Applied, serving
<1>3. cache' = job.config \/ uncached'
  BY DEF WriteCache
<1>4. /\ uncached' \in BOOLEAN /\ reload_failed' \in BOOLEAN
      /\ from_cache' \in BOOLEAN /\ refused' \in BOOLEAN
  BY Zenon DEF WriteCache, Applied
<1>5. cache' \in Good \cup {None}
  BY <1>1 DEF WriteCache, IInv, TypeOK
<1>6. node' = "applied" \/ UNCHANGED node
  BY DEF WriteCache, Applied
<1>7. following' \in BOOLEAN
  BY Zenon DEF WriteCache, Applied, IInv, TypeOK
<1>8. initial' \in Good \cup {None}
  BY <1>1 DEF WriteCache, Applied, IInv, TypeOK
<1>9. TypeOK'
  <2>1. node' \in {"down", "starting", "applied", "up", "leaving"}
    BY <1>6 DEF IInv, TypeOK
  <2>2. listeners' \in Good \cup {None} /\ checks' \in Good \cup {None}
    BY <1>2 DEF IInv, TypeOK
  <2> QED
    BY <1>2, <1>4, <1>5, <1>7, <1>8, <2>1, <2>2, TypeReleased DEF IInv
<1>10. JobOK' /\ Whole' /\ Cached' /\ Left'
  BY <1>1, <1>2, <1>3, <1>6, FreePhase, Zenon DEF IInv, JobOK, Whole, Cached, Left
<1> QED
  BY <1>9, <1>10 DEF IInv

(* The end of a start and a shutdown change the health checks, and what    *)
(* the node will still do.                                                 *)
LEMMA ControllerKeeps ==
  ASSUME IInv, StartReconciles \/ Shutdown
  PROVE  IInv'
<1>1. UNCHANGED <<deployed, files, cache, event, watcher, job, seen, initial, certs, routing,
                  listeners, reload_failed, from_cache, uncached, refused>>
  BY DEF StartReconciles, Shutdown, disk, gauges, history
<1>2. node' \in {"up", "leaving"} /\ checks' \in Good \cup {None}
  BY DEF StartReconciles, Shutdown, IInv, TypeOK
<1>3. following' \in BOOLEAN
  BY Zenon DEF StartReconciles, Shutdown, IInv, TypeOK
<1>4. node' = "leaving" => job = Free /\ ~following'
  BY DEF StartReconciles, Shutdown, LockFree
<1>5. TypeOK'
  <2>1. /\ cache' \in Good \cup {None} /\ initial' \in Good \cup {None}
        /\ listeners' \in Good \cup {None} /\ job' \in Jobs \cup {Free}
    BY <1>1 DEF IInv, TypeOK
  <2>2. /\ reload_failed' \in BOOLEAN /\ from_cache' \in BOOLEAN
        /\ uncached' \in BOOLEAN /\ refused' \in BOOLEAN
    BY <1>1 DEF IInv, TypeOK
  <2> QED
    BY <1>1, <1>2, <1>3, <2>1, <2>2, TypeReleased DEF IInv
<1>6. JobOK' /\ Whole' /\ Cached' /\ Left'
  BY <1>1, <1>4, Zenon DEF IInv, JobOK, Whole, Cached, Left
<1> QED
  BY <1>5, <1>6 DEF IInv

LEMMA StutterKeeps ==
  ASSUME IInv, UNCHANGED vars
  PROVE  IInv'
<1>1. UNCHANGED <<deployed, files, cache, node, event, watcher, job, following, seen, initial,
                  certs, routing, listeners, checks, reload_failed, from_cache, uncached, refused>>
  BY DEF vars, disk, serving, gauges, history
<1>2. TypeOK'
  BY <1>1 DEF IInv, TypeOK
<1>3. JobOK' /\ Whole' /\ Cached' /\ Left'
  BY <1>1, Zenon DEF IInv, JobOK, Whole, Cached, Left
<1> QED
  BY <1>2, <1>3 DEF IInv

LEMMA InitIInv == Init => IInv
<1> SUFFICES ASSUME Init PROVE IInv
  OBVIOUS
<1>1. TypeOK
  <2>1. 0 \in Rotations
    BY ReloadAssumption DEF Rotations
  <2>2. /\ event \in BOOLEAN /\ following \in BOOLEAN
        /\ reload_failed \in BOOLEAN /\ from_cache \in BOOLEAN
        /\ uncached \in BOOLEAN /\ refused \in BOOLEAN
    BY Zenon DEF Init, Down
  <2>3. /\ files \in [Files -> Rotations] /\ seen \in [Files -> Rotations \cup {None}]
        /\ certs \in [of : Good \cup {None}, rotation : Rotations \cup {None}]
    BY <2>1 DEF Init, Down, NoFiles, NoCerts
  <2>4. /\ deployed \in Configs \cup {Unreadable} /\ cache = None /\ node = "down"
        /\ watcher = "idle" /\ job = Free /\ initial = None
        /\ routing = None /\ listeners = None /\ checks = None
    BY DEF Init, Down, Configs
  <2> QED
    BY <2>2, <2>3, <2>4 DEF TypeOK
<1>2. JobOK /\ Whole /\ Cached /\ Left
  BY FreePhase DEF Init, Down, JobOK, Whole, Cached, Left, NoCerts
<1> QED
  BY <1>1, <1>2 DEF IInv

LEMMA NextIInv == IInv /\ [Next]_vars => IInv'
<1> SUFFICES ASSUME IInv, [Next]_vars PROVE IInv'
  OBVIOUS
<1>1. CASE Environment
  BY <1>1, DeployKeeps, RotateKeeps, GoDownKeeps, StartKeeps, ControllerKeeps
     DEF Environment, Crash
<1>2. CASE ApplyInitial \/ WatcherReloads \/ PollerReloads
  BY <1>2, BeginKeeps
<1>3. CASE WatcherFires
  BY <1>3, StartKeeps
<1>4. CASE HoldingTheLock
  BY <1>4, LoadKeeps, StampKeeps, ReadCertKeeps, ReadKeyKeeps, BindKeeps, SwapCertsKeeps,
     SwapRoutingKeeps, CommitKeeps, ReconcileKeeps, WriteCacheKeeps DEF HoldingTheLock
<1>5. CASE StartReconciles
  BY <1>5, ControllerKeeps
<1>6. CASE UNCHANGED vars
  BY <1>6, StutterKeeps
<1> QED
  BY <1>1, <1>2, <1>3, <1>4, <1>5, <1>6 DEF Next

LEMMA ReloadInvariant == Spec => []IInv
BY InitIInv, NextIInv, PTL DEF Spec

(* A node serves one config at a time: install and Listeners::commit swap  *)
(* certificates, routes and listeners together, whatever failed before     *)
(* them and whenever the process dies.                                     *)
THEOREM OneConfigIsServed == Spec => [](TypeOK /\ ServedIsOneConfig)
<1>1. IInv => TypeOK /\ ServedIsOneConfig
  BY FreePhase, Zenon DEF IInv, Whole, ServedIsOneConfig, LockFree
<1> QED
  BY <1>1, ReloadInvariant, PTL

(* The cache a restart falls back on holds the config that is served,      *)
(* unless the write of it failed (ConfigCache::store's warning).           *)
THEOREM CacheFollows == Spec => []CacheIsWhatIsServed
<1>1. IInv => CacheIsWhatIsServed
  BY FreePhase DEF IInv, Cached, CacheIsWhatIsServed, LockFree
<1> QED
  BY <1>1, ReloadInvariant, PTL

(* Controller::shutdown lets a reload under way finish, and none begins    *)
(* after it: what a leaving node serves changes no more.                   *)
THEOREM NothingAppliedAfterShutdown == Spec => NothingAppliedOnceLeaving
<1>1. ASSUME IInv, [Next]_vars, node = "leaving", node' = "leaving"
      PROVE  UNCHANGED serving
  <2>1. job.phase = "free" /\ ~following
    BY <1>1, FreePhase DEF IInv, Left
  <2>2. ~HoldingTheLock
    BY <2>1 DEF HoldingTheLock, Load, Stamp, ReadCert, ReadKey, Bind, SwapCerts, SwapRouting,
                Commit, Reconcile, WriteCache
  <2>3. ~StartReconciles /\ ~Shutdown /\ ~GoDown /\ ~Start
    BY <1>1 DEF StartReconciles, Shutdown, GoDown, Start
  <2>4. CASE Environment
    BY <2>3, <2>4 DEF Environment, Deploy, Rotate, Crash
  <2>5. CASE ApplyInitial \/ WatcherFires \/ WatcherReloads \/ PollerReloads
    BY <2>5 DEF ApplyInitial, WatcherFires, WatcherReloads, PollerReloads
  <2>6. CASE UNCHANGED vars
    BY <2>6 DEF vars
  <2> QED
    BY <1>1, <2>2, <2>3, <2>4, <2>5, <2>6 DEF Next
<1>2. IInv /\ [Next]_vars => [node = "leaving" /\ node' = "leaving" => UNCHANGED serving]_vars
  BY <1>1
<1> QED
  BY <1>2, ReloadInvariant, PTL DEF Spec, NothingAppliedOnceLeaving

-----------------------------------------------------------------------------
(* No change is missed.  A reload that has read the config file holds what *)
(* is deployed, or there is an event, or a watcher that waits for the lock.*)
Following ==
  /\ node = "down" => ~following /\ job = Free
  /\ /\ job # Free /\ job.phase # "load" /\ job.by # "start from cache"
     /\ ~event /\ watcher = "idle"
     => job.config = deployed
  /\ job.phase \in {"reconcile", "cache"} => job.by # "start from cache"
  /\ UpToDateUnlessReported

(* A rotation read between a look at the file and now.                     *)
Between(f, r) == r \in Nat /\ seen[f] # None /\ seen[f] <= r /\ r <= files[f]

Stamped == {"stamp key", "read cert", "read key", "bind", "swap certs", "swap routing", "commit",
            "reconcile", "cache"}
ReadOne == Stamped \ {"stamp key", "read cert"}
ReadBoth == ReadOne \ {"read key"}

(* What was read was there at some time since it was looked at: a file that *)
(* is still as it was looked at is as it was read.                          *)
Noticing ==
  /\ \A f \in Files : seen[f] # None => seen[f] <= files[f]
  /\ job.config \in Secure =>
       /\ job.phase \in Stamped => seen["cert"] # None
       /\ job.phase \in Stamped \ {"stamp key"} => seen["key"] # None
       /\ job.phase \in ReadOne => Between("cert", job.read["cert"])
       /\ job.phase \in ReadBoth =>
            job.read["key"] = job.read["cert"] /\ Between("key", job.read["key"])
  /\ job.phase \in {"swap routing", "commit", "reconcile", "cache"} =>
       certs.rotation = job.read["cert"]
  /\ LockFree /\ following /\ ~reload_failed /\ routing \in Secure =>
       \A f \in Files : Between(f, certs.rotation)

ChangesOK == IInv /\ Following /\ Noticing

(* A step of the holder of the lock that keeps it, with its config.        *)
LEMMA HolderFollows ==
  ASSUME Following, job # Free, job' # Free,
         UNCHANGED <<node, following, event, watcher, deployed>>,
         job'.by = job.by,
         \/ job.phase # "load" /\ job'.config = job.config
         \/ job'.config = deployed
         \/ job.by = "start from cache",
         job'.phase \in {"reconcile", "cache"} => job.by # "start from cache"
  PROVE  Following'
<1>1. node' # "down"
  BY Zenon DEF Following
<1>2. UpToDateUnlessReported'
  BY Zenon DEF UpToDateUnlessReported, LockFree, Free
<1>3. ~event' /\ watcher' = "idle" /\ job'.by # "start from cache" => job'.config = deployed'
  BY Zenon DEF Following
<1>4. QED
  BY <1>1, <1>2, <1>3, Zenon DEF Following

LEMMA EnvironmentFollows ==
  ASSUME Following, Environment
  PROVE  Following'
<1>1. ASSUME NEW c, Deploy(c)
      PROVE  Following'
  <2>1. /\ UNCHANGED <<node, job, following, watcher>> /\ event' = (node # "down")
    BY <1>1 DEF Deploy
  <2>2. CASE node = "down"
    BY <2>1, <2>2, Zenon DEF Following, UpToDateUnlessReported
  <2>3. CASE node # "down"
    BY <2>1, <2>3, Zenon DEF Following, UpToDateUnlessReported
  <2>4. QED
    BY <2>2, <2>3
<1>2. ASSUME NEW f, Rotate(f)
      PROVE  Following'
  BY <1>2, Zenon DEF Rotate, Following, UpToDateUnlessReported, LockFree, serving, gauges
<1>3. CASE Crash
  BY <1>3, FreePhase, Zenon DEF Crash, GoDown, Following, UpToDateUnlessReported
<1>4. CASE Start
  BY <1>4, Zenon DEF Start, Following, UpToDateUnlessReported, LockFree, disk, serving, gauges
<1>5. CASE Shutdown
  BY <1>5, Zenon DEF Shutdown, Following, UpToDateUnlessReported, disk
<1>6. QED
  BY <1>1, <1>2, <1>3, <1>4, <1>5 DEF Environment

LEMMA BeginFollows ==
  ASSUME Following, ApplyInitial \/ WatcherFires \/ WatcherReloads \/ PollerReloads \/ StartReconciles
  PROVE  Following'
<1>1. ASSUME NEW by \in {"start", "watcher", "poller"}, Begin(by), node # "down",
             UNCHANGED <<node, following>>
      PROVE  Following'
  <2>1. job'.phase = "load" /\ job' # Free
    BY <1>1, FreePhase, Zenon DEF Begin, Free
  <2>2. QED
    BY <1>1, <2>1, Zenon DEF Following, UpToDateUnlessReported, LockFree, Free
<1>2. CASE ApplyInitial
  BY <1>1, <1>2 DEF ApplyInitial
<1>3. CASE WatcherFires
  BY <1>3, Zenon DEF WatcherFires, Following, UpToDateUnlessReported
<1>4. CASE WatcherReloads
  <2>1. CASE following
    BY <1>1, <1>4, <2>1, Zenon DEF WatcherReloads, Following
  <2>2. CASE ~following
    BY <1>4, <2>2, Zenon DEF WatcherReloads, Following, UpToDateUnlessReported, LockFree
  <2>3. QED
    BY <2>1, <2>2
<1>5. CASE PollerReloads
  BY <1>1, <1>5 DEF PollerReloads
<1>6. CASE StartReconciles
  BY <1>6, Zenon DEF StartReconciles, Following, UpToDateUnlessReported, LockFree, disk, gauges
<1>7. QED
  BY <1>2, <1>3, <1>4, <1>5, <1>6

LEMMA FailFollows ==
  ASSUME Following, job # Free, Fail
  PROVE  Following'
<1>1. node # "down"
  BY Zenon DEF Following
<1>2. CASE KeepRunning
  <2>1. job' = Free /\ reload_failed' /\ UNCHANGED node
    BY <1>2 DEF KeepRunning
  <2>2. QED
    BY <1>1, <2>1, FreePhase, Zenon DEF Following, UpToDateUnlessReported
<1>3. CASE StartFromCache
  <2>1. CASE job.by = "start" /\ cache # None
    <3>1. Begin("start from cache") /\ UNCHANGED node
      BY <1>3, <2>1, Zenon DEF StartFromCache
    <3>2. job'.phase = "load" /\ job' # Free
      BY <3>1, Zenon DEF Begin, Free
    <3>3. QED
      BY <1>1, <3>1, <3>2, Zenon DEF Following, UpToDateUnlessReported, LockFree, Free
  <2>2. CASE ~(job.by = "start" /\ cache # None)
    BY <1>3, <2>2, FreePhase, Zenon DEF StartFromCache, GoDown, Following, UpToDateUnlessReported
  <2>3. QED
    BY <2>1, <2>2
<1>4. QED
  BY <1>2, <1>3 DEF Fail

LEMMA HoldingFollows ==
  ASSUME IInv, Following, HoldingTheLock
  PROVE  Following'
<1>1. job \in Jobs /\ job # Free
  BY Holder, Zenon DEF HoldingTheLock, Load, Stamp, ReadCert, ReadKey, Bind, SwapCerts, SwapRouting, Commit,
                Reconcile, WriteCache
<1>2. CASE Fail
  BY <1>1, <1>2, FailFollows
<1>3. ASSUME NEW phase \in Phases, job'.phase = phase, job'.by = job.by, job'.config = job.config,
             job.phase # "load", UNCHANGED <<node, following, event, watcher, deployed>>,
             phase \in {"reconcile", "cache"} => job.by # "start from cache"
      PROVE  Following'
  <2>1. job' # Free
    BY <1>3, FreePhase, Zenon DEF Phases
  <2>2. QED
    BY <1>1, <1>3, <2>1, HolderFollows, Zenon
<1>4. CASE Load /\ ~Fail
  <2> DEFINE c == IF job.by = "start from cache" THEN cache ELSE deployed
  <2>1. /\ job' = [job EXCEPT !.config = c, !.phase = "stamp cert"]
        /\ UNCHANGED <<node, following, event, watcher, deployed>>
    BY <1>4, Zenon DEF Load, JobOnly, disk
  <2>2. job'.by = job.by /\ job'.config = c /\ job'.phase = "stamp cert"
    BY <1>1, <2>1, Zenon DEF Jobs
  <2>3. job' # Free
    BY <2>2, FreePhase, Zenon
  <2>4. QED
    BY <1>1, <2>1, <2>2, <2>3, HolderFollows, Zenon
<1>5. ASSUME NEW f \in Files, Stamp(f)
      PROVE  Following'
  <2>1. PICK phase \in {"stamp key", "read cert"} : To(phase)
    BY <1>5, Zenon DEF Stamp
  <2>2. job'.phase = phase /\ job'.by = job.by /\ job'.config = job.config
    BY <1>1, <2>1, Moved, Zenon DEF Phases
  <2>3. QED
    BY <1>3, <1>5, <2>1, <2>2, Zenon DEF Stamp, JobOnly, disk, Phases
<1>6. CASE ReadCert /\ ~Fail
  <2>1. /\ job' = [job EXCEPT !.phase = "read key",
                              !.read["cert"] = IF job.config \in Secure THEN files["cert"] ELSE None]
        /\ UNCHANGED <<node, following, event, watcher, deployed>>
    BY <1>6, Zenon DEF ReadCert, JobOnly, disk
  <2>2. job'.phase = "read key" /\ job'.by = job.by /\ job'.config = job.config
    BY <1>1, <2>1, Zenon DEF Jobs
  <2>3. QED
    BY <1>3, <1>6, <2>1, <2>2, Zenon DEF Phases, ReadCert
<1>7. CASE ReadKey /\ ~Fail
  <2> DEFINE key == IF job.config \in Secure THEN files["key"] ELSE None
  <2>1. /\ job' = [job EXCEPT !.phase = "bind", !.read["key"] = key]
        /\ UNCHANGED <<node, following, event, watcher, deployed>>
    BY <1>7, Zenon DEF ReadKey, JobOnly, disk
  <2>2. job'.phase = "bind" /\ job'.by = job.by /\ job'.config = job.config
    BY <1>1, <2>1, Zenon DEF Jobs
  <2>3. QED
    BY <1>3, <1>7, <2>1, <2>2, Zenon DEF Phases, ReadKey
<1>8. CASE Bind /\ ~Fail
  <2>1. To("swap certs") /\ UNCHANGED <<node, following, event, watcher, deployed>>
    BY <1>8, Zenon DEF Bind, JobOnly, disk
  <2>2. job'.phase = "swap certs" /\ job'.by = job.by /\ job'.config = job.config
    BY <1>1, <2>1, Moved, Zenon DEF Phases
  <2>3. QED
    BY <1>3, <1>8, <2>1, <2>2, Zenon DEF Phases, Bind
<1>9. CASE SwapCerts \/ SwapRouting
  <2>1. PICK phase \in {"swap routing", "commit"} : To(phase)
    BY <1>9, Zenon DEF SwapCerts, SwapRouting
  <2>2. job'.phase = phase /\ job'.by = job.by /\ job'.config = job.config
    BY <1>1, <2>1, Moved, Zenon DEF Phases
  <2>3. QED
    BY <1>3, <1>9, <2>1, <2>2, Zenon DEF Phases, SwapCerts, SwapRouting, disk
<1>10. CASE Reconcile
  <2>1. To("cache") /\ UNCHANGED <<node, following, event, watcher, deployed>>
    BY <1>10 DEF Reconcile, disk
  <2>2. job'.phase = "cache" /\ job'.by = job.by /\ job'.config = job.config
    BY <1>1, <2>1, Moved, Zenon DEF Phases
  <2>3. job.by # "start from cache"
    BY <1>10, Zenon DEF Reconcile, Following
  <2>4. QED
    BY <1>3, <1>10, <2>1, <2>2, <2>3, Zenon DEF Phases, Reconcile
<1>11. CASE Commit
  <2>1. CASE job.by = "start from cache"
    <3>1. job' = Free /\ node' = "applied" /\ reload_failed'
      BY <1>11, <2>1, Zenon DEF Commit, Committed
    <3>2. QED
      BY <3>1, FreePhase, Zenon DEF Following, UpToDateUnlessReported
  <2>2. CASE job.by # "start from cache"
    <3>1. /\ \E phase \in {"cache", "reconcile"} : To(phase)
          /\ UNCHANGED <<node, following, event, watcher, deployed>>
      BY <1>11, <2>2, Zenon DEF Commit, Committed, disk
    <3>2. job'.phase \in {"cache", "reconcile"} /\ job'.by = job.by /\ job'.config = job.config
      BY <1>1, <3>1, Moved, Zenon DEF Phases
    <3>3. QED
      BY <1>3, <1>11, <2>2, <3>1, <3>2, Zenon DEF Phases, Commit
  <2>3. QED
    BY <2>1, <2>2, Zenon
<1>12. CASE WriteCache
  <2>1. job' = Free /\ UNCHANGED <<event, watcher, deployed, routing>> /\ job.phase = "cache"
    BY <1>12 DEF WriteCache, Applied, serving
  <2>2. node' # "down"
    BY <1>1, <1>12, Zenon DEF WriteCache, Applied, Following
  <2>3. routing = job.config /\ job.by # "start from cache"
    BY <2>1, Zenon DEF IInv, Whole, Following
  <2>4. ~event' /\ watcher' = "idle" => routing' = deployed'
    BY <1>1, <2>1, <2>3, Zenon DEF Following
  <2>5. QED
    BY <2>1, <2>2, <2>4, FreePhase, Zenon DEF Following, UpToDateUnlessReported
<1>13. QED
  BY <1>2, <1>4, <1>5, <1>6, <1>7, <1>8, <1>9, <1>10, <1>11, <1>12 DEF HoldingTheLock

LEMMA RotationsAreNumbers ==
  ASSUME TypeOK
  PROVE  /\ \A f \in Files : files[f] \in Nat /\ (seen[f] # None => seen[f] \in Nat)
         /\ "cert" \in Files /\ "key" \in Files
  BY ReloadAssumption DEF TypeOK, Rotations, Files

LEMMA FreeNotices ==
  ASSUME job = Free
  PROVE  job.config \notin Secure /\ job.phase \notin {"swap routing", "commit", "reconcile", "cache"}
  BY ReloadAssumption DEF Free

(* What does not touch the certificate files or what is known of them.     *)
LEMMA OthersNotice ==
  ASSUME Noticing, UNCHANGED <<files, seen, job, certs, routing>>,
         following' => following, reload_failed' = reload_failed
  PROVE  Noticing'
  BY Zenon DEF Noticing, Between, LockFree

(* The lock is taken, or is given back with a failure reported or nothing  *)
(* to follow; none is the certificate's.                                   *)
LEMMA UnsettledNotices ==
  ASSUME \A f \in Files : seen'[f] # None => seen'[f] <= files'[f],
         job' = Free \/ job'.phase \in {"load", "stamp cert"},
         job' = Free => reload_failed' \/ ~following'
  PROVE  Noticing'
<1>1. job'.phase \in {"free", "load", "stamp cert"} /\ (job'.phase = "free" => job' = Free \/ ~LockFree')
  BY FreePhase, Zenon
<1>2. job'.phase \notin Stamped /\ job'.phase \notin ReadOne /\ job'.phase \notin ReadBoth
  BY <1>1, Zenon DEF Stamped, ReadOne, ReadBoth
<1>3. QED
  BY <1>1, <1>2, Zenon DEF Noticing, LockFree

LEMMA EnvironmentNotices ==
  ASSUME TypeOK, Noticing, Environment
  PROVE  Noticing'
<1>1. ASSUME NEW c, Deploy(c)
      PROVE  Noticing'
  BY <1>1, OthersNotice DEF Deploy, serving, gauges
<1>2. ASSUME NEW f \in Files, Rotate(f)
      PROVE  Noticing'
  <2>1. /\ UNCHANGED <<seen, job, certs, routing, following, reload_failed>>
        /\ \A g \in Files : files'[g] \in Nat /\ files[g] <= files'[g]
    BY <1>2, RotationsAreNumbers DEF Rotate, serving, gauges, TypeOK
  <2>2. ASSUME NEW g \in Files, seen[g] # None, seen[g] <= files[g]
        PROVE  seen[g] <= files'[g]
    BY <2>1, <2>2, RotationsAreNumbers
  <2>3. ASSUME NEW g \in Files, NEW r, seen[g] # None, seen[g] <= r, r <= files[g], r \in Nat
        PROVE  seen'[g] # None /\ seen'[g] <= r /\ r <= files'[g]
    BY <2>1, <2>3, RotationsAreNumbers
  <2>4. \A g \in Files : /\ Between(g, job.read["cert"]) => Between(g, job.read["cert"])'
                         /\ Between(g, job.read["key"]) => Between(g, job.read["key"])'
                         /\ Between(g, certs.rotation) => Between(g, certs.rotation)'
    BY <2>1, <2>3 DEF Between
  <2>5. \A g \in Files : seen'[g] # None => seen'[g] <= files'[g]
    BY <2>1, <2>2, Zenon DEF Noticing
  <2>6. QED
    BY <2>1, <2>4, <2>5, RotationsAreNumbers, Zenon DEF Noticing, LockFree
<1>3. CASE Crash
  <2>1. job' = Free /\ ~following' /\ seen' = NoFiles
    BY <1>3 DEF Crash, GoDown
  <2>2. QED
    BY <2>1, UnsettledNotices DEF NoFiles
<1>4. CASE Start \/ Shutdown
  BY <1>4, OthersNotice DEF Start, Shutdown, disk, serving, gauges
<1>5. QED
  BY <1>1, <1>2, <1>3, <1>4 DEF Environment

LEMMA BeginNotices ==
  ASSUME TypeOK, Noticing,
         ApplyInitial \/ WatcherFires \/ WatcherReloads \/ PollerReloads \/ StartReconciles
  PROVE  Noticing'
<1>1. ASSUME NEW by \in {"start", "watcher", "poller"}, Begin(by), UNCHANGED files,
             seen' = seen \/ seen' = Refreshed
      PROVE  Noticing'
  <2>1. job'.phase = "load" /\ job' # Free
    BY <1>1, FreePhase, Zenon DEF Begin, Free
  <2>2. ASSUME NEW f \in Files, seen'[f] # None
        PROVE  seen'[f] <= files'[f]
    <3>1. CASE seen' = seen
      BY <1>1, <2>2, <3>1, Zenon DEF Noticing
    <3>2. CASE seen' = Refreshed
      BY <1>1, <2>2, <3>2, RotationsAreNumbers DEF Refreshed
    <3>3. QED
      BY <1>1, <3>1, <3>2
  <2>3. QED
    BY <2>1, <2>2, UnsettledNotices
<1>2. CASE ApplyInitial \/ PollerReloads
  BY <1>1, <1>2 DEF ApplyInitial, PollerReloads, disk
<1>3. CASE WatcherReloads
  <2>1. CASE following
    BY <1>1, <1>3, <2>1 DEF WatcherReloads, disk
  <2>2. CASE ~following
    BY <1>3, <2>2, OthersNotice DEF WatcherReloads, disk, serving, gauges
  <2>3. QED
    BY <2>1, <2>2
<1>4. CASE WatcherFires \/ StartReconciles
  BY <1>4, OthersNotice DEF WatcherFires, StartReconciles, disk, serving, gauges
<1>5. QED
  BY <1>2, <1>3, <1>4

LEMMA FailNotices ==
  ASSUME Noticing, Fail
  PROVE  Noticing'
<1>1. CASE KeepRunning
  <2>1. job' = Free /\ reload_failed' /\ UNCHANGED <<seen, files>>
    BY <1>1 DEF KeepRunning, disk
  <2>2. QED
    BY <2>1, UnsettledNotices, Zenon DEF Noticing
<1>2. CASE StartFromCache
  <2>1. CASE job.by = "start" /\ cache # None
    <3>1. Begin("start from cache") /\ UNCHANGED <<seen, files>>
      BY <1>2, <2>1, Zenon DEF StartFromCache, disk
    <3>2. job'.phase = "load" /\ job' # Free
      BY <3>1, FreePhase, Zenon DEF Begin, Free
    <3>3. QED
      BY <3>1, <3>2, UnsettledNotices, Zenon DEF Noticing
  <2>2. CASE ~(job.by = "start" /\ cache # None)
    <3>1. job' = Free /\ ~following' /\ seen' = NoFiles
      BY <1>2, <2>2, Zenon DEF StartFromCache, GoDown
    <3>2. QED
      BY <3>1, UnsettledNotices DEF NoFiles
  <2>3. QED
    BY <2>1, <2>2
<1>3. QED
  BY <1>1, <1>2 DEF Fail

(* A step of the holder that has read both files, and keeps the lock.      *)
LEMMA HolderNotices ==
  ASSUME Noticing, job.phase \in ReadBoth, job'.phase \in ReadBoth,
         job'.config = job.config, job'.read = job.read, UNCHANGED <<seen, files>>,
         job'.phase # "swap certs" => certs'.rotation = job.read["cert"]
  PROVE  Noticing'
<1>1. job.phase \in Stamped /\ job.phase # "stamp key" /\ job.phase \in ReadOne
  BY Zenon DEF ReadBoth, ReadOne
<1>2. job'.phase # "free"
  BY Zenon DEF ReadBoth, ReadOne, Stamped
<1>3. ~LockFree'
  BY <1>2, FreePhase, Zenon DEF LockFree
<1>4. \A f : /\ Between(f, job.read["cert"]) => Between(f, job.read["cert"])'
             /\ Between(f, job.read["key"]) => Between(f, job.read["key"])'
  BY Zenon DEF Between
<1>5. QED
  BY <1>1, <1>3, <1>4, Zenon DEF Noticing

LEMMA StampNotices ==
  ASSUME IInv, Noticing, NEW f \in Files, Stamp(f)
  PROVE  Noticing'
<1>1. job \in Jobs /\ job # Free
  BY Holder, Zenon DEF Stamp
<1>2. /\ UNCHANGED files
      /\ seen' = [seen EXCEPT ![f] = IF job.config \in Secure THEN files[f] ELSE None]
      /\ job.phase = IF f = "cert" THEN "stamp cert" ELSE "stamp key"
  BY Zenon DEF Stamp, JobOnly, disk
<1>3. /\ job'.config = job.config
      /\ job'.phase = IF f = "cert" THEN "stamp key" ELSE "read cert"
  BY <1>1, Moved, Zenon DEF Stamp, Phases
<1>4. /\ \A g \in Files : files[g] \in Nat /\ (seen[g] # None => seen[g] \in Nat)
      /\ "cert" \in Files /\ "key" \in Files /\ None \notin Nat /\ seen \in [Files -> Rotations \cup {None}]
  BY RotationsAreNumbers, ReloadAssumption DEF IInv, TypeOK
<1>5. ASSUME NEW g \in Files, seen'[g] # None
      PROVE  seen'[g] <= files'[g]
  <2>1. CASE g = f
    <3>1. seen'[g] = files[g] /\ files'[g] = files[g] /\ files[g] \in Nat
      BY <1>2, <1>4, <1>5, <2>1, Zenon
    <3>2. QED
      BY <3>1
  <2>2. CASE g # f
    <3>1. seen'[g] = seen[g]
      BY <1>2, <1>4, <2>2, Zenon
    <3>2. QED
      BY <1>2, <1>5, <3>1, Zenon DEF Noticing
  <2>3. QED
    BY <2>1, <2>2
<1>6. job.config \in Secure => seen'[f] # None
  BY <1>2, <1>4, Zenon
<1>7. f # "cert" => seen'["cert"] = seen["cert"] /\ f = "key"
  BY <1>2, <1>4, Zenon DEF Files
<1>8. job'.phase \notin ReadOne /\ job'.phase \notin ReadBoth /\ job'.phase # "free"
  BY <1>3, Zenon DEF ReadOne, ReadBoth
<1>9. ~LockFree' /\ job'.phase \notin {"swap routing", "commit", "reconcile", "cache"}
  BY <1>3, <1>8, FreePhase, Zenon DEF LockFree
<1>10. job'.config \in Secure => seen'["cert"] # None
  BY <1>2, <1>3, <1>6, <1>7, Zenon DEF Noticing, Stamped
<1>11. job'.config \in Secure /\ job'.phase # "stamp key" => seen'["key"] # None
  BY <1>3, <1>6, <1>7, Zenon
<1>12. QED
  BY <1>5, <1>8, <1>9, <1>10, <1>11, Zenon DEF Noticing


LEMMA ReadNotices ==
  ASSUME IInv, Noticing, ReadCert \/ ReadKey, ~Fail
  PROVE  Noticing'
<1>1. job \in Jobs /\ job # Free
  BY Holder, Zenon DEF ReadCert, ReadKey
<1>2. UNCHANGED <<seen, files>>
  BY Zenon DEF ReadCert, ReadKey, JobOnly, disk
<1>3. /\ \A g \in Files : files[g] \in Nat /\ (seen[g] # None => seen[g] \in Nat)
      /\ "cert" \in Files /\ "key" \in Files
  BY RotationsAreNumbers DEF IInv
<1>4. job.read \in [Files -> Rotations \cup {None}]
  BY <1>1, Zenon DEF Jobs
<1>5. CASE ReadCert
  <2>1. job' = [job EXCEPT !.phase = "read key",
                           !.read["cert"] = IF job.config \in Secure THEN files["cert"] ELSE None]
    BY <1>5, Zenon DEF ReadCert
  <2>2. /\ job'.phase = "read key" /\ job'.config = job.config
        /\ job'.read["cert"] = IF job.config \in Secure THEN files["cert"] ELSE None
    BY <1>1, <1>3, <1>4, <2>1, Zenon DEF Jobs
  <2>3. job.phase \in Stamped /\ job.phase # "stamp key"
    BY <1>5, Zenon DEF ReadCert, Stamped
  <2>4. job.config \in Secure => seen["cert"] # None /\ seen["key"] # None
    BY <2>3, Zenon DEF Noticing
  <2>5. ASSUME job.config \in Secure
        PROVE  Between("cert", job.read["cert"])'
    <3>1. seen["cert"] # None /\ seen["cert"] <= files["cert"] /\ files["cert"] \in Nat
      BY <1>3, <2>4, <2>5, Zenon DEF Noticing
    <3>2. files["cert"] <= files["cert"]
      BY <3>1
    <3>3. job'.read["cert"] = files["cert"]
      BY <2>2, <2>5, Zenon
    <3>4. QED
      BY <1>2, <3>1, <3>2, <3>3 DEF Between
  <2>6. job'.phase \notin ReadBoth /\ ~LockFree'
    BY <2>2, FreePhase, Zenon DEF ReadBoth, LockFree
  <2>7. QED
    BY <1>2, <2>2, <2>4, <2>5, <2>6, Zenon DEF Noticing
<1>6. CASE ReadKey
  <2> DEFINE key == IF job.config \in Secure THEN files["key"] ELSE None
  <2>1. job' = [job EXCEPT !.phase = "bind", !.read["key"] = key] /\ key = job.read["cert"]
    BY <1>6, Zenon DEF ReadKey
  <2>2. /\ job'.phase = "bind" /\ job'.config = job.config
        /\ job'.read["cert"] = job.read["cert"] /\ job'.read["key"] = key
    BY <1>1, <1>3, <1>4, <2>1, Zenon DEF Jobs
  <2>3. job.phase \in Stamped /\ job.phase # "stamp key" /\ job.phase \in ReadOne
    BY <1>6, Zenon DEF ReadKey, ReadOne, Stamped
  <2>4. job.config \in Secure => /\ seen["cert"] # None /\ seen["key"] # None
                                 /\ Between("cert", job.read["cert"])
    BY <2>3, Zenon DEF Noticing
  <2>5. job.config \in Secure => Between("cert", job.read["cert"])'
    BY <1>2, <2>2, <2>4 DEF Between
  <2>6. ASSUME job.config \in Secure
        PROVE  Between("key", job.read["key"])'
    <3>1. seen["key"] # None /\ seen["key"] <= files["key"] /\ files["key"] \in Nat
      BY <1>3, <2>4, <2>6, Zenon DEF Noticing
    <3>2. files["key"] <= files["key"]
      BY <3>1
    <3>3. job'.read["key"] = files["key"]
      BY <2>2, <2>6
    <3>4. QED
      BY <1>2, <3>1, <3>2, <3>3 DEF Between
  <2>7. ~LockFree' /\ job'.phase \notin {"swap routing", "commit", "reconcile", "cache"}
    BY <2>2, FreePhase DEF LockFree
  <2>8. QED
    BY <1>2, <2>1, <2>2, <2>4, <2>5, <2>6, <2>7, Zenon DEF Noticing
<1>7. QED
  BY <1>5, <1>6

LEMMA HoldingNotices ==
  ASSUME IInv, Following, Noticing, HoldingTheLock
  PROVE  Noticing'
<1>1. job \in Jobs /\ job # Free
  BY Holder, Zenon DEF HoldingTheLock, Load, Stamp, ReadCert, ReadKey, Bind, SwapCerts, SwapRouting, Commit,
                Reconcile, WriteCache
<1>2. CASE Fail
  BY <1>2, FailNotices
<1>3. CASE Load /\ ~Fail
  <2>1. /\ job' = [job EXCEPT !.config = IF job.by = "start from cache" THEN cache ELSE deployed,
                              !.phase = "stamp cert"]
        /\ UNCHANGED <<seen, files>>
    BY <1>3, Zenon DEF Load, JobOnly, disk
  <2>2. job'.phase = "stamp cert" /\ job' # Free
    BY <1>1, <2>1, FreePhase, Zenon DEF Jobs
  <2>3. QED
    BY <2>1, <2>2, UnsettledNotices, Zenon DEF Noticing
<1>4. CASE \E f \in Files : Stamp(f)
  BY <1>4, StampNotices
<1>5. CASE (ReadCert \/ ReadKey) /\ ~Fail
  BY <1>5, ReadNotices
<1>6. ASSUME NEW phase \in ReadBoth, To(phase), job.phase \in ReadBoth, UNCHANGED <<seen, files>>,
             phase # "swap certs" => certs'.rotation = job.read["cert"]
      PROVE  Noticing'
  <2>1. phase \in Phases
    BY <1>6, Zenon DEF ReadBoth, ReadOne, Stamped, Phases
  <2>2. job'.phase = phase /\ job'.config = job.config /\ job'.read = job.read
    BY <1>1, <1>6, <2>1, Moved, Zenon
  <2>3. QED
    BY <1>6, <2>2, HolderNotices, Zenon
<1>7. CASE Bind /\ ~Fail
  BY <1>6, <1>7, Zenon DEF Bind, JobOnly, disk, ReadBoth, ReadOne, Stamped
<1>8. CASE SwapCerts
  <2>1. certs'.rotation = job.read["cert"]
    BY <1>8, Zenon DEF SwapCerts
  <2>2. QED
    BY <1>6, <1>8, <2>1, Zenon DEF SwapCerts, disk, ReadBoth, ReadOne, Stamped
<1>9. CASE SwapRouting \/ Reconcile
  <2>1. certs'.rotation = job.read["cert"]
    BY <1>9, Zenon DEF SwapRouting, Reconcile, Noticing
  <2>2. QED
    BY <1>6, <1>9, <2>1, Zenon DEF SwapRouting, Reconcile, disk, ReadBoth, ReadOne, Stamped
<1>10. CASE Commit
  <2>1. CASE job.by = "start from cache"
    <3>1. job' = Free /\ reload_failed' /\ UNCHANGED <<seen, files>>
      BY <1>10, <2>1, Zenon DEF Commit, Committed, disk
    <3>2. QED
      BY <3>1, UnsettledNotices, Zenon DEF Noticing
  <2>2. CASE job.by # "start from cache"
    <3>1. PICK phase \in {"cache", "reconcile"} : To(phase)
      BY <1>10, <2>2, Zenon DEF Commit, Committed
    <3>2. certs'.rotation = job.read["cert"] /\ UNCHANGED <<seen, files>>
      BY <1>10, Zenon DEF Commit, Committed, disk, Noticing
    <3>3. QED
      BY <1>6, <1>10, <3>1, <3>2, Zenon DEF Commit, ReadBoth, ReadOne, Stamped
  <2>3. QED
    BY <2>1, <2>2, Zenon
<1>11. CASE WriteCache
  <2>1. job' = Free /\ UNCHANGED <<seen, files, certs, routing>> /\ job.phase = "cache"
    BY <1>11 DEF WriteCache, Applied, serving
  <2>2. routing = job.config /\ certs.rotation = job.read["cert"]
    BY <2>1 DEF IInv, Whole, Noticing
  <2>3. job.phase \in ReadOne /\ job.phase \in ReadBoth
    BY <2>1 DEF ReadBoth, ReadOne, Stamped
  <2>4. routing \in Secure => Between("cert", certs.rotation) /\ Between("key", certs.rotation)
    BY <2>2, <2>3, Zenon DEF Noticing
  <2>5. routing \in Secure => \A f \in Files : Between(f, certs.rotation)
    BY <2>4 DEF Files
  <2>6. routing' \in Secure => \A f \in Files : Between(f, certs.rotation)'
    BY <2>1, <2>5 DEF Between
  <2>7. \A f \in Files : seen'[f] # None => seen'[f] <= files'[f]
    BY <2>1 DEF Noticing
  <2>8. job'.config \notin Secure /\ job'.phase \notin {"swap routing", "commit", "reconcile", "cache"}
    BY <2>1, ReloadAssumption DEF Free
  <2>9. QED
    BY <2>6, <2>7, <2>8, Zenon DEF Noticing
<1>12. QED
  BY <1>2, <1>3, <1>4, <1>5, <1>7, <1>8, <1>9, <1>10, <1>11 DEF HoldingTheLock

LEMMA ChangesInit == Init => ChangesOK
<1> SUFFICES ASSUME Init PROVE ChangesOK
  OBVIOUS
<1>1. /\ node = "down" /\ job = Free /\ ~following /\ routing = None /\ seen = NoFiles
  BY DEF Init, Down
<1>2. Following
  BY <1>1, FreePhase DEF Following, UpToDateUnlessReported
<1>3. Noticing
  BY <1>1, FreeNotices, Zenon DEF Noticing, NoFiles
<1>4. QED
  BY <1>2, <1>3, InitIInv DEF ChangesOK

LEMMA ChangesStep == ChangesOK /\ [Next]_vars => ChangesOK'
<1> SUFFICES ASSUME ChangesOK, [Next]_vars PROVE ChangesOK'
  OBVIOUS
<1>1. IInv /\ TypeOK /\ Following /\ Noticing
  BY DEF ChangesOK, IInv
<1>2. CASE UNCHANGED vars
  <2>1. UNCHANGED <<deployed, files, node, event, watcher, job, following, seen, certs, routing,
                    reload_failed>>
    BY <1>2 DEF vars, disk, serving, gauges
  <2>2. Following'
    BY <1>1, <2>1, Zenon DEF Following, UpToDateUnlessReported, LockFree
  <2>3. QED
    BY <1>1, <2>1, <2>2, OthersNotice, NextIInv DEF ChangesOK
<1>3. CASE Next
  <2>1. Following'
    BY <1>1, <1>3, EnvironmentFollows, BeginFollows, HoldingFollows DEF Next
  <2>2. Noticing'
    BY <1>1, <1>3, EnvironmentNotices, BeginNotices, HoldingNotices DEF Next
  <2>3. QED
    BY <1>1, <2>1, <2>2, NextIInv DEF ChangesOK
<1>4. QED
  BY <1>2, <1>3

(* No change of the config or of its certificate goes unnoticed: whenever  *)
(* Reloader::reload or the poller has let go of the lock, a running node   *)
(* serves what is deployed, or has an event to act on, or has reported     *)
(* that it could not; and while CertFiles::changed_on_disk finds the files *)
(* as they were looked at, the certificate served is the one on disk.      *)
THEOREM NoChangeIsEverMissed == Spec => []NoChangeIsMissed
<1>1. ASSUME ChangesOK
      PROVE  NoChangeIsMissed
  <2>1. TypeOK /\ UpToDateUnlessReported
    BY <1>1, Zenon DEF ChangesOK, IInv, Following
  <2>2. ASSUME LockFree, following, ~reload_failed, routing \in Secure, ~ChangedOnDisk, NEW f \in Files
        PROVE  certs.rotation = files[f]
    <3>1. Between(f, certs.rotation)
      BY <1>1, <2>2, Zenon DEF ChangesOK, Noticing
    <3>2. seen[f] = files[f]
      BY <2>2, <3>1 DEF Between, ChangedOnDisk
    <3>3. certs.rotation \in Nat /\ files[f] \in Nat /\ files[f] <= certs.rotation /\ certs.rotation <= files[f]
      BY <2>1, <3>1, <3>2, RotationsAreNumbers DEF Between
    <3>4. QED
      BY <3>3
  <2>3. QED
    BY <2>1, <2>2 DEF NoChangeIsMissed, RotationIsNoticed
<1>2. QED
  BY <1>1, ChangesInit, ChangesStep, PTL DEF Spec
=============================================================================
