---------------------------- MODULE HealthChecking ---------------------------
(***************************************************************************)
(* The health of the backends, from a config applied to a probe committed: *)
(* the probe loops (checker.rs), the map they write (health_map.rs), the   *)
(* handles the serving pools read, the gauges of the observer              *)
(* (reload/health.rs), and a reload's steps that touch them (applier.rs).  *)
(*                                                                         *)
(* Two kinds of actor.  The reload, serialized by the `tracked` lock,      *)
(* takes the steps prepare, swap, retain and reconcile.  A probe loop is a *)
(* task: `abort` ends one that is waiting (in its sleep or its probe), but *)
(* one that is running goes on to its next await, and nobody waits for it. *)
(* A handle that neither the map nor a loop nor a pool holds is freed; an  *)
(* unused one is as new, Unknown.                                          *)
(***************************************************************************)
EXTENDS BackendHealth, Sequences, FiniteSets, Functions

CONSTANTS
  Backends,     \* (host, port) pairs
  Pools,        \* pool ids
  Configs,      \* the pools of the configs deployed: sequences of CheckedPool
  NoPools,      \* the config of a node that has applied none
  Handles,      \* identities of Arc<HealthHandle>
  Loops,        \* identities of probe loop tasks
  None

CheckedPools == [id : Pools, check : Thresholds, backends : SUBSET Backends]

ASSUME ConfigsAssumption ==
  /\ NoPools = <<>>
  /\ Configs \subseteq Seq(CheckedPools)
  /\ NoPools \in Configs

VARIABLES
  stage,     \* where the reload is
  config,    \* the pools being served from
  pending,   \* the config being applied
  held,      \* the handle the serving pools read for each of their backends
  built,     \* the same, of the pools prepared but not swapped in
  health,    \* HealthMap: the handle of each backend known
  status,    \* what each handle says
  tasks,     \* the probe loop running for each backend checked
  loops,     \* every loop that has not ended
  gauges,    \* backend_health_status and backend_draining, per pool and backend
  late       \* history: the backends one of whose loops was aborted while running

reload_vars == <<stage, config, pending, held, built>>
vars == <<reload_vars, health, status, tasks, loops, gauges, late>>

(* A map with the entries of another put in.                               *)
Put(map, entries) ==
  [k \in DOMAIN map \cup DOMAIN entries |->
     IF k \in DOMAIN entries THEN entries[k] ELSE map[k]]

Members(c) == UNION {c[i].backends : i \in DOMAIN c}

(* Some of the indices of a sequence, in their order.                      *)
InOrder(indices) ==
  CHOOSE s \in [1..Cardinality(indices) -> indices] :
    \A j, k \in DOMAIN s : j < k => s[j] < s[k]

(* `desired` in reconcile: the check of the first pool a backend is in,    *)
(* and the pools it is in.                                                 *)
Desired(c, b) ==
  LET in == InOrder({i \in DOMAIN c : b \in c[i].backends})
  IN  [check |-> c[in[1]].check, pools |-> [k \in DOMAIN in |-> c[in[k]].id]]

Stages == {"idle", "prepared", "swapped", "retained", "starting", "stopped"}
Points == {"waiting", "setting", "storing", "reporting"}
Gauge == [healthy : BOOLEAN, draining : BOOLEAN]

LoopRecords ==
  [backend : Backends, check : Thresholds, pools : Seq(Pools), bh : BackendHealths,
   at : Points, aborted : BOOLEAN, handle : Handles \cup {None}, unreported : Seq(Pools)]

ASSUME NoLoopAssumption == None \notin LoopRecords

Live == {l \in Loops : loops[l] # None}

(* The state of the reload, the map, the loops and the gauges; the pools   *)
(* hold one handle per backend, and the counters of the loops fit.         *)
TypeOK ==
  /\ stage \in Stages
  /\ config \in Configs /\ pending \in Configs
  /\ held \in [Members(config) -> Handles]
  /\ built \in [DOMAIN built -> Handles]
  /\ health \in [DOMAIN health -> Handles] /\ DOMAIN health \subseteq Backends
  /\ status \in [Handles -> Statuses]
  /\ tasks \in [DOMAIN tasks -> Live] /\ DOMAIN tasks \subseteq Backends
  /\ loops \in [Loops -> LoopRecords \cup {None}]
  /\ gauges \in [DOMAIN gauges -> Gauge] /\ DOMAIN gauges \subseteq Pools \X Backends
  /\ late \subseteq Backends

Init ==
  /\ stage = "idle"
  /\ config = NoPools /\ pending = NoPools
  /\ held = << >> /\ built = << >>
  /\ health = << >>
  /\ status = [h \in Handles |-> "Unknown"]
  /\ tasks = << >>
  /\ loops = [l \in Loops |-> None]
  /\ gauges = << >>
  /\ late = {}

-----------------------------------------------------------------------------
(* Handles nobody holds: a new Arc is none of those in use.                *)
Unused ==
  Handles \ (Range(health) \cup Range(held) \cup Range(built)
             \cup {loops[l].handle : l \in Live})

(* PoolSet::build takes a handle for each backend of the config from the   *)
(* map, which enters those it does not know as unknown.                    *)
Prepare(c) ==
  /\ stage = "idle"
  /\ \E h \in [Members(c) -> Handles] :
       /\ \A b \in Members(c) :
            IF b \in DOMAIN health THEN h[b] = health[b] ELSE h[b] \in Unused
       /\ \A a, b \in Members(c) : h[a] = h[b] => a = b
       /\ built' = h
       /\ health' = Put(health, h)
  /\ pending' = c
  /\ stage' = "prepared"
  /\ UNCHANGED <<config, held, status, tasks, loops, gauges, late>>

(* A listener of the config cannot be bound: nothing is swapped in.        *)
Reject ==
  /\ stage = "prepared"
  /\ stage' = "idle"
  /\ pending' = NoPools
  /\ built' = << >>
  /\ UNCHANGED <<config, held, health, status, tasks, loops, gauges, late>>

(* install: the pools are swapped in, then the map forgets the backends    *)
(* that are in none of them.                                               *)
Swap ==
  /\ stage = "prepared"
  /\ stage' = "swapped"
  /\ config' = pending
  /\ held' = built
  /\ built' = << >>
  /\ pending' = NoPools
  /\ UNCHANGED <<health, status, tasks, loops, gauges, late>>

(* The status of the handles the map and the loops are left with.          *)
Freed(mapped) ==
  [h \in Handles |->
     IF h \in mapped \cup {loops[l].handle : l \in Live} THEN status[h] ELSE "Unknown"]

(* A retain that forgets every backend, for the checks to enter again.     *)
RetainNone ==
  /\ stage = "swapped"
  /\ stage' = "retained"
  /\ health' = << >>
  /\ status' = Freed(Range(health'))
  /\ UNCHANGED <<config, pending, held, built, tasks, loops, gauges, late>>

Retain ==
  /\ stage = "swapped"
  /\ stage' = "retained"
  /\ health' = Restrict(health, DOMAIN health \cap Members(config))
  /\ status' = Freed(Range(health'))
  /\ UNCHANGED <<config, pending, held, built, tasks, loops, gauges, late>>

Waiting(l) == loops[l].at = "waiting"

(* JoinHandle::abort.                                                      *)
Abort(ls) ==
  /\ loops' = [l \in Loops |->
                  IF l \notin ls THEN loops[l]
                  ELSE IF Waiting(l) THEN None
                  ELSE [loops[l] EXCEPT !.aborted = TRUE]]
  /\ late' = late \cup {loops[l].backend : l \in {k \in ls : ~Waiting(k)}}

Unchanged(b) ==
  LET l == loops[tasks[b]]
  IN  b \in Members(config) /\ Desired(config, b) = [check |-> l.check, pools |-> l.pools]

(* The pools the backend has left, of those its loop reports under.        *)
PoolsLeft(b) ==
  Range(loops[tasks[b]].pools)
    \ (IF b \in Members(config) THEN Range(Desired(config, b).pools) ELSE {})

(* A reconcile that tells the observer nothing.                            *)
StopProbesSilently ==
  /\ stage = "retained"
  /\ stage' = "starting"
  /\ LET changed == {b \in DOMAIN tasks : ~Unchanged(b)}
     IN  /\ Abort({tasks[b] : b \in changed})
         /\ tasks' = Restrict(tasks, DOMAIN tasks \ changed)
  /\ UNCHANGED <<config, pending, held, built, health, status, gauges>>

(* reconcile, first half: the loops of the backends that left, or whose    *)
(* check or pools changed, are aborted, and the observer is told.          *)
StopProbes ==
  /\ stage = "retained"
  /\ stage' = "starting"
  /\ LET changed == {b \in DOMAIN tasks : ~Unchanged(b)}
         left == UNION {PoolsLeft(b) \X {b} : b \in changed}
     IN  /\ Abort({tasks[b] : b \in changed})
         /\ tasks' = Restrict(tasks, DOMAIN tasks \ changed)
         /\ gauges' = Restrict(gauges, DOMAIN gauges \ left)
  /\ UNCHANGED <<config, pending, held, built, health, status>>

NewLoop(b) ==
  [backend |-> b, check |-> Desired(config, b).check, pools |-> Desired(config, b).pools,
   bh |-> Default, at |-> "waiting", aborted |-> FALSE, handle |-> None, unreported |-> <<>>]

(* reconcile, second half: a loop is spawned for each backend without one. *)
StartProbes ==
  /\ stage = "starting"
  /\ stage' = "idle"
  /\ LET new == Members(config) \ DOMAIN tasks
     IN  \E t \in [new -> Loops \ Live] :
           /\ \A a, b \in new : t[a] = t[b] => a = b
           /\ tasks' = Put(tasks, t)
           /\ loops' = [l \in Loops |->
                          IF l \in Range(t) THEN NewLoop(CHOOSE b \in new : t[b] = l)
                          ELSE loops[l]]
  /\ UNCHANGED <<config, pending, held, built, health, status, gauges, late>>

(* Controller::shutdown, which waits for a reload under way to finish.     *)
StopAll ==
  /\ stage = "idle"
  /\ stage' = "stopped"
  /\ Abort(Range(tasks))
  /\ tasks' = << >>
  /\ UNCHANGED <<config, pending, held, built, health, status, gauges>>

-----------------------------------------------------------------------------
(* A loop that reaches its next await: an aborted one ends there.          *)
Await(l, r) ==
  loops' = [loops EXCEPT ![l] =
              IF r.aborted THEN None ELSE [r EXCEPT !.at = "waiting", !.unreported = <<>>]]

(* A loop that takes its first verdict for no change.                      *)
ProbeFinishedQuietAtFirst(l, outcome) ==
  /\ loops[l].at = "waiting"
  /\ LET r == loops[l]
         bh == Record(r.bh, outcome, r.check)
     IN  IF bh.status # r.bh.status /\ r.bh.status # "Unknown"
         THEN loops' = [loops EXCEPT ![l] = [r EXCEPT !.bh = bh, !.at = "setting"]]
         ELSE Await(l, [r EXCEPT !.bh = bh])
  /\ UNCHANGED <<reload_vars, health, status, tasks, gauges, late>>

(* After its sleep, a probe comes back with an outcome; a change of status *)
(* is to be written and reported.                                          *)
ProbeFinished(l, outcome) ==
  /\ loops[l].at = "waiting"
  /\ LET r == loops[l]
         bh == Record(r.bh, outcome, r.check)
     IN  IF bh.status # r.bh.status
         THEN loops' = [loops EXCEPT ![l] = [r EXCEPT !.bh = bh, !.at = "setting"]]
         ELSE Await(l, [r EXCEPT !.bh = bh])
  /\ UNCHANGED <<reload_vars, health, status, tasks, gauges, late>>

(* HealthMap::set: first the backend's handle, entered if it is not known. *)
SetLooksUp(l) ==
  /\ loops[l].at = "setting"
  /\ LET b == loops[l].backend
     IN  \E h \in Handles :
           /\ IF b \in DOMAIN health THEN h = health[b] ELSE h \in Unused
           /\ loops' = [loops EXCEPT ![l].handle = h, ![l].at = "storing"]
           /\ health' = Put(health, [k \in {b} |-> h])
  /\ UNCHANGED <<reload_vars, status, tasks, gauges, late>>

(* Then its status is stored; a handle the map forgot meanwhile is freed.  *)
SetStores(l) ==
  /\ loops[l].at = "storing"
  /\ status' = [status EXCEPT ![loops[l].handle] =
                   IF loops[l].handle \in Range(health) THEN loops[l].bh.status ELSE "Unknown"]
  /\ loops' = [loops EXCEPT ![l].handle = None, ![l].at = "reporting",
                            ![l].unreported = loops[l].pools]
  /\ UNCHANGED <<reload_vars, health, tasks, gauges, late>>

(* A status as the two gauges show it.                                     *)
Said(s) == [healthy |-> s = "Healthy", draining |-> s = "Draining"]

(* status_changed, pool after pool.                                        *)
StatusChanged(l) ==
  /\ loops[l].at = "reporting"
  /\ loops[l].unreported # <<>>
  /\ LET r == loops[l]
     IN  /\ gauges' = Put(gauges, [k \in {<<Head(r.unreported), r.backend>>} |-> Said(r.bh.status)])
         /\ IF Len(r.unreported) = 1
            THEN Await(l, r)
            ELSE loops' = [loops EXCEPT ![l].unreported = Tail(@)]
  /\ UNCHANGED <<reload_vars, health, status, tasks, late>>

Reload ==
  \/ \E c \in Configs : Prepare(c)
  \/ Reject \/ Swap \/ Retain \/ StopProbes \/ StartProbes \/ StopAll

RunProbe(l) ==
  /\ l \in Live
  /\ \/ \E outcome \in Outcomes : ProbeFinished(l, outcome)
     \/ SetLooksUp(l) \/ SetStores(l) \/ StatusChanged(l)

Next == Reload \/ \E l \in Loops : RunProbe(l)

Spec == Init /\ [][Next]_vars

-----------------------------------------------------------------------------
(* The serving pools read what the checks write: the handle of each of     *)
(* their backends is the one the map hands out for it, at every step of a  *)
(* reload and whatever the loops of earlier configs still do.              *)
PoolsReadTheMap ==
  \A b \in DOMAIN held : b \in DOMAIN health /\ health[b] = held[b]

(* No two backends share a handle: the health of one is never taken for    *)
(* the health of another.                                                  *)
HandlesAreDistinct ==
  \A a, b \in DOMAIN health : health[a] = health[b] => a = b

(* The loop of b has said what it had to say.                              *)
HasDecided(b) ==
  Waiting(tasks[b]) /\ loops[tasks[b]].bh.status # "Unknown"

(* The status the serving pools see of b is the one its loop committed.    *)
Obeyed(b) == status[held[b]] = loops[tasks[b]].bh.status

(* "A restarted probe keeps the backend's current status until its own     *)
(* thresholds say otherwise": once they have, the pools follow them, for a *)
(* backend none of whose loops was aborted in mid-commit.                  *)
RunningLoopDecides ==
  \A b \in DOMAIN tasks \cap DOMAIN held : HasDecided(b) => Obeyed(b) \/ b \in late

(* The same of every backend.                                              *)
RestartedLoopDecides ==
  \A b \in DOMAIN tasks \cap DOMAIN held :
    HasDecided(b) /\ (\A l \in Live : loops[l].backend = b => l = tasks[b]) => Obeyed(b)

Serves(p, b) == \E i \in DOMAIN config : config[i].id = p /\ b \in config[i].backends

(* Between reloads, with b's loop waiting, its gauges under every pool     *)
(* that has one say what the serving pools see, and only its pools do, for *)
(* a backend none of whose loops was aborted in mid-commit.                *)
GaugesTellTheHealth ==
  stage = "idle" =>
    \A p \in Pools, b \in Backends : <<p, b>> \in DOMAIN gauges =>
      \/ b \in late
      \/ b \in DOMAIN tasks /\ ~Waiting(tasks[b])
      \/ Serves(p, b) /\ gauges[<<p, b>>] = Said(status[held[b]])

(* What the running loop decides is what pools act on and operators see.   *)
VerdictsAreSeen == TypeOK /\ RunningLoopDecides /\ GaugesTellTheHealth

-----------------------------------------------------------------------------
(* The runtime polls every task that can go on, and a probe ends within    *)
(* its timeout; a reload that was begun goes on to its end.                *)
Fairness ==
  /\ \A l \in Loops : WF_vars(RunProbe(l))
  /\ WF_vars(Reject \/ Swap \/ Retain \/ StopProbes \/ StartProbes)

FairSpec == Spec /\ Fairness

OnlyPasses(b) ==
  \A l \in Live : loops[l].backend = b =>
    ~ProbeFinished(l, "Fail") /\ ~ProbeFinished(l, "Drain")

(* A backend that is being served and whose probes pass from some time on  *)
(* is healthy from some time on, however many failures, restarts and       *)
(* aborted loops came before, unless one was aborted in mid-commit.        *)
PassingBackendsRecover ==
  \A b \in Backends :
    (/\ <>[](b \in DOMAIN held /\ stage = "idle")
     /\ <>[][OnlyPasses(b)]_vars)
    => <>[](b \in late \/ (b \in DOMAIN held => status[held[b]] = "Healthy"))

=============================================================================
