------------------------- MODULE HealthCheckingProofs ------------------------
(***************************************************************************)
(* For any backends, pools and configs, any number of loops still running  *)
(* after their abort, and any interleaving of them with the steps of a     *)
(* reload: the handles the serving pools read are those the map hands to   *)
(* the loops, no two backends share one, and between reloads the pools and *)
(* the gauges show what the loops last decided.                            *)
(*                                                                         *)
(* The first is not inductive alone: a reload carries handles from         *)
(* prepare to swap, during which the map must not have let go of them.     *)
(***************************************************************************)
EXTENDS HealthChecking, TLAPS

BuiltFromTheMap ==
  stage = "prepared" =>
    /\ DOMAIN built = Members(pending)
    /\ \A b \in DOMAIN built : b \in DOMAIN health /\ health[b] = built[b]

IInv ==
  /\ DOMAIN held = Members(config)
  /\ BuiltFromTheMap
  /\ PoolsReadTheMap
  /\ HandlesAreDistinct

(* A map that only gained entries serves whoever read it before.           *)
LEMMA GrowingMapKeeps ==
  ASSUME IInv, UNCHANGED <<stage, config, pending, held, built>>,
         \A b \in DOMAIN health : b \in DOMAIN health' /\ health'[b] = health[b],
         HandlesAreDistinct'
  PROVE  IInv'
BY DEF IInv, BuiltFromTheMap, PoolsReadTheMap

LEMMA PrepareKeeps ==
  ASSUME IInv, NEW c \in Configs, Prepare(c)
  PROVE  IInv'
PROOF
<1>1. PICK h \in [Members(c) -> Handles] :
        /\ \A b \in Members(c) :
             IF b \in DOMAIN health THEN h[b] = health[b] ELSE h[b] \in Unused
        /\ \A a, b \in Members(c) : h[a] = h[b] => a = b
        /\ built' = h
        /\ health' = Put(health, h)
  BY DEF Prepare
<1>2. /\ DOMAIN h = Members(c)
      /\ DOMAIN health' = Members(c) \cup DOMAIN health
      /\ \A b \in Members(c) : health'[b] = h[b]
      /\ \A b \in DOMAIN health \ Members(c) : health'[b] = health[b]
  BY <1>1 DEF Put
<1>3. \A b \in DOMAIN health : health'[b] = health[b]
  BY <1>1, <1>2
<1>4. \A b \in Members(c) \ DOMAIN health, a \in DOMAIN health : h[b] # health[a]
  BY <1>1 DEF Unused, Range
<1>5. HandlesAreDistinct'
  <2> SUFFICES ASSUME NEW a \in DOMAIN health', NEW b \in DOMAIN health',
                      health'[a] = health'[b]
               PROVE  a = b
    BY DEF HandlesAreDistinct
  <2>1. CASE a \in DOMAIN health /\ b \in DOMAIN health
    BY <1>3, <2>1 DEF IInv, HandlesAreDistinct
  <2>2. CASE a \notin DOMAIN health /\ b \notin DOMAIN health
    BY <1>1, <1>2, <2>2
  <2>3. CASE a \notin DOMAIN health /\ b \in DOMAIN health
    BY <1>2, <1>3, <1>4, <2>3
  <2>4. CASE a \in DOMAIN health /\ b \notin DOMAIN health
    BY <1>2, <1>3, <1>4, <2>4
  <2> QED BY <2>1, <2>2, <2>3, <2>4
<1>6. PoolsReadTheMap'
  BY <1>2, <1>3 DEF Prepare, IInv, PoolsReadTheMap
<1>7. BuiltFromTheMap'
  BY <1>1, <1>2 DEF Prepare, BuiltFromTheMap
<1>8. (DOMAIN held = Members(config))'
  BY DEF Prepare, IInv, Members
<1> QED BY <1>5, <1>6, <1>7, <1>8 DEF IInv

LEMMA RetainKeeps ==
  ASSUME IInv, Retain
  PROVE  IInv'
PROOF
<1>1. /\ DOMAIN health' = DOMAIN health \cap Members(config)
      /\ \A b \in DOMAIN health' : health'[b] = health[b]
  BY DEF Retain, Restrict
<1>2. /\ stage' = "retained" /\ config' = config /\ held' = held
  BY DEF Retain
<1>3. PoolsReadTheMap'
  BY <1>1, <1>2 DEF IInv, PoolsReadTheMap
<1>4. HandlesAreDistinct'
  BY <1>1 DEF IInv, HandlesAreDistinct
<1> QED BY <1>2, <1>3, <1>4 DEF IInv, BuiltFromTheMap, Members

LEMMA RunProbeKeeps ==
  ASSUME IInv, NEW l \in Loops, RunProbe(l)
  PROVE  IInv'
PROOF
<1>1. CASE SetLooksUp(l)
  <2> DEFINE b == loops[l].backend
  <2>1. PICK h \in Handles :
          /\ IF b \in DOMAIN health THEN h = health[b] ELSE h \in Unused
          /\ health' = Put(health, [k \in {b} |-> h])
    BY <1>1, Zenon DEF SetLooksUp
  <2>2. /\ DOMAIN health' = DOMAIN health \cup {b}
        /\ health'[b] = h
        /\ \A a \in DOMAIN health : health'[a] = health[a]
    BY <2>1 DEF Put
  <2>3. b \notin DOMAIN health => \A a \in DOMAIN health : health[a] # h
    BY <2>1 DEF Unused, Range
  <2>4. HandlesAreDistinct'
    BY <2>2, <2>3 DEF IInv, HandlesAreDistinct
  <2> QED BY <1>1, <2>2, <2>4, GrowingMapKeeps DEF SetLooksUp, reload_vars
<1>2. ASSUME UNCHANGED health, UNCHANGED reload_vars PROVE IInv'
  BY <1>2, GrowingMapKeeps DEF IInv, HandlesAreDistinct, reload_vars
<1>3. CASE \E outcome \in Outcomes : ProbeFinished(l, outcome)
  BY <1>2, <1>3 DEF ProbeFinished
<1>4. CASE SetStores(l)
  BY <1>2, <1>4 DEF SetStores
<1>5. CASE StatusChanged(l)
  BY <1>2, <1>5 DEF StatusChanged
<1> QED BY <1>1, <1>3, <1>4, <1>5 DEF RunProbe

LEMMA MapInit == Init => IInv
BY ConfigsAssumption
   DEF Init, IInv, BuiltFromTheMap, PoolsReadTheMap, HandlesAreDistinct, Members

LEMMA MapStep == IInv /\ [Next]_vars => IInv'
<1> SUFFICES ASSUME IInv, [Next]_vars PROVE IInv'
  OBVIOUS
<1>1. CASE \E c \in Configs : Prepare(c)
  BY <1>1, PrepareKeeps
<1>2. CASE Reject
  BY <1>2 DEF Reject, IInv, BuiltFromTheMap, PoolsReadTheMap, HandlesAreDistinct, Members
<1>3. CASE Swap
  BY <1>3 DEF Swap, IInv, BuiltFromTheMap, PoolsReadTheMap, HandlesAreDistinct, Members
<1>4. CASE Retain
  BY <1>4, RetainKeeps
<1>5. CASE StopProbes
  BY <1>5 DEF StopProbes, IInv, BuiltFromTheMap, PoolsReadTheMap, HandlesAreDistinct, Members
<1>6. CASE StartProbes
  BY <1>6 DEF StartProbes, IInv, BuiltFromTheMap, PoolsReadTheMap, HandlesAreDistinct, Members
<1>7. CASE StopAll
  BY <1>7 DEF StopAll, IInv, BuiltFromTheMap, PoolsReadTheMap, HandlesAreDistinct, Members
<1>8. CASE \E l \in Loops : RunProbe(l)
  BY <1>8, RunProbeKeeps
<1>9. CASE UNCHANGED vars
  BY <1>9 DEF vars, reload_vars, IInv, BuiltFromTheMap, PoolsReadTheMap,
              HandlesAreDistinct, Members
<1> QED BY <1>1, <1>2, <1>3, <1>4, <1>5, <1>6, <1>7, <1>8, <1>9 DEF Next, Reload

(* The serving pools read the health the checks write, through every       *)
(* interleaving of a reload (prepare, install, reconcile) with probe       *)
(* loops, aborted ones included; and no two backends share a handle.       *)
THEOREM PoolsAlwaysReadTheMap == Spec => [](PoolsReadTheMap /\ HandlesAreDistinct)
<1>1. IInv => PoolsReadTheMap /\ HandlesAreDistinct
  BY DEF IInv
<1> QED BY <1>1, MapInit, MapStep, PTL DEF Spec

-----------------------------------------------------------------------------
(* An aborted loop that still runs is known of; every other is the loop of *)
(* its backend.  A loop that runs on has come to a verdict.                *)
LoopsOK ==
  /\ \A l \in Live :
       /\ IF loops[l].aborted
          THEN loops[l].backend \in late /\ ~Waiting(l)
          ELSE loops[l].backend \in DOMAIN tasks /\ tasks[loops[l].backend] = l
       /\ ~Waiting(l) => loops[l].bh.status # "Unknown"
       /\ Range(loops[l].unreported) \subseteq Range(loops[l].pools)
  /\ \A b \in DOMAIN tasks : loops[tasks[b]].backend = b /\ ~loops[tasks[b]].aborted

(* Outside of a reload the loops are those the config asks for.            *)
ConfigOK ==
  /\ stage \in {"idle", "prepared", "starting"} => \A b \in DOMAIN tasks : Unchanged(b)
  /\ stage \in {"idle", "prepared", "swapped"} => DOMAIN tasks \subseteq DOMAIN health

(* A handle a loop is about to write is not another backend's.             *)
HandlesOK ==
  \A l \in Live : loops[l].at = "storing" =>
    /\ loops[l].handle \in Handles
    /\ \A b \in DOMAIN health : health[b] = loops[l].handle => b = loops[l].backend

(* The map says what a loop that has written decided.                      *)
MapSays(b) ==
  LET r == loops[tasks[b]]
  IN  /\ r.at = "storing" => r.handle = health[b]
      /\ r.at \in {"waiting", "reporting"} /\ r.bh.status # "Unknown"
           => status[health[b]] = r.bh.status

StatusOK == \A b \in (DOMAIN tasks \cap DOMAIN health) \ late : MapSays(b)

(* The gauge of p and b shows what the loop of b, which reports under p,   *)
(* has decided, or what the loop stopped just now had.                     *)
GaugeOK(p, b) ==
  IF b \in DOMAIN tasks
  THEN LET r == loops[tasks[b]]
       IN  /\ p \in Range(r.pools)
           /\ r.at = "waiting" /\ b \in DOMAIN health => gauges[<<p, b>>] = Said(status[health[b]])
           /\ r.at = "reporting" => p \in Range(r.unreported) \/ gauges[<<p, b>>] = Said(r.bh.status)
  ELSE /\ stage = "starting" /\ b \in Members(config) /\ p \in Range(Desired(config, b).pools)
       /\ gauges[<<p, b>>] = Said(status[health[b]])

GaugesOK ==
  stage # "stopped" =>
    \A p \in Pools, b \in Backends \ late : <<p, b>> \in DOMAIN gauges => GaugeOK(p, b)

VerdictsOK == TypeOK /\ IInv /\ LoopsOK /\ ConfigOK /\ HandlesOK /\ StatusOK /\ GaugesOK

(* What reconcile asks for of a backend comes from the pools it is in.     *)
(* (That the pools can be put in order, on which it rests, is proved at    *)
(* the end.)                                                               *)
DesiredFits ==
  \A c \in Configs : \A b \in Members(c) :
    /\ Desired(c, b).check \in Thresholds
    /\ Desired(c, b).pools \in Seq(Pools)
    /\ \A p \in Range(Desired(c, b).pools) : \E i \in DOMAIN c : c[i].id = p /\ b \in c[i].backends

LEMMA GaugeStays ==
  ASSUME UNCHANGED <<stage, config, health, status, tasks, loops, gauges>>, NEW p, NEW b
  PROVE  GaugeOK(p, b)' <=> GaugeOK(p, b)
<1>1. Desired(config, b)' = Desired(config, b) /\ Members(config)' = Members(config)
  BY DEF Desired, Members
<1>2. QED
  BY <1>1 DEF GaugeOK

LEMMA MembersAre ==
  ASSUME NEW c \in Configs
  PROVE  Members(c) \subseteq Backends
<1>1. c \in Seq(CheckedPools) /\ \A i \in DOMAIN c : c[i] \in CheckedPools
  BY ConfigsAssumption
<1>2. QED
  BY <1>1 DEF Members, CheckedPools

(* BackendHealth::record never comes back to knowing nothing.              *)
LEMMA RecordIs ==
  ASSUME NEW bh \in BackendHealths, NEW outcome \in Outcomes, NEW check \in Thresholds
  PROVE  /\ Record(bh, outcome, check) \in BackendHealths
         /\ \/ Record(bh, outcome, check).status = bh.status
            \/ Record(bh, outcome, check).status # "Unknown"
<1>1. \A n \in 0..CountMax : SaturatingInc(n) \in 0..CountMax
  BY CountMaxAssumption DEF SaturatingInc
<1>2. /\ bh.status \in Statuses /\ bh.consecutive_success \in 0..CountMax
      /\ bh.consecutive_failure \in 0..CountMax /\ 0 \in 0..CountMax
  BY CountMaxAssumption DEF BackendHealths
<1>3. CASE outcome = "Drain"
  BY <1>2, <1>3 DEF Record, BackendHealths, Statuses
<1>4. CASE outcome = "Pass"
  <2> DEFINE n == SaturatingInc(bh.consecutive_success)
             s == IF n >= check.healthy THEN "Healthy" ELSE bh.status
  <2>1. Record(bh, outcome, check) = [status |-> s, consecutive_success |-> n, consecutive_failure |-> 0]
    BY <1>4 DEF Record
  <2>2. n \in 0..CountMax /\ s \in Statuses /\ (s = bh.status \/ s # "Unknown")
    BY <1>1, <1>2 DEF Statuses
  <2> HIDE DEF n, s
  <2>3. QED
    BY <1>2, <2>1, <2>2 DEF BackendHealths
<1>5. CASE outcome = "Fail"
  <2> DEFINE n == SaturatingInc(bh.consecutive_failure)
             s == IF n >= check.unhealthy THEN "Unhealthy" ELSE bh.status
  <2>1. Record(bh, outcome, check) = [status |-> s, consecutive_success |-> 0, consecutive_failure |-> n]
    BY <1>5 DEF Record
  <2>2. n \in 0..CountMax /\ s \in Statuses /\ (s = bh.status \/ s # "Unknown")
    BY <1>1, <1>2 DEF Statuses
  <2> HIDE DEF n, s
  <2>3. QED
    BY <1>2, <2>1, <2>2 DEF BackendHealths
<1>6. QED
  BY <1>3, <1>4, <1>5 DEF Outcomes

(* The fields of a loop that has not ended.                                *)
LEMMA LoopIs ==
  ASSUME TypeOK, NEW l \in Live
  PROVE  /\ l \in Loops /\ loops[l] # None /\ loops[l] \in LoopRecords
         /\ loops[l].backend \in Backends /\ loops[l].check \in Thresholds
         /\ loops[l].pools \in Seq(Pools) /\ loops[l].bh \in BackendHealths
         /\ loops[l].at \in Points /\ loops[l].aborted \in BOOLEAN
         /\ loops[l].unreported \in Seq(Pools)
<1>1. l \in Loops /\ loops[l] # None /\ loops[l] \in LoopRecords
  BY DEF TypeOK, Live
<1>2. QED
  BY <1>1 DEF LoopRecords

(* The only loop of a backend none of whose loops was aborted late.        *)
LEMMA OnlyLoop ==
  ASSUME LoopsOK, NEW l \in Live, loops[l].backend \notin late
  PROVE  /\ loops[l].backend \in DOMAIN tasks /\ tasks[loops[l].backend] = l
         /\ ~loops[l].aborted
BY DEF LoopsOK

LEMMA TasksAre ==
  ASSUME TypeOK, LoopsOK, NEW b \in DOMAIN tasks
  PROVE  /\ tasks[b] \in Live /\ tasks[b] \in Loops /\ loops[tasks[b]].backend = b
         /\ ~loops[tasks[b]].aborted /\ b \in Backends
BY DEF TypeOK, LoopsOK, Live

(* A step of one loop, which ends only if it was aborted.                  *)
LEMMA LoopMoves ==
  ASSUME TypeOK, LoopsOK, ConfigOK, NEW l \in Live, NEW r, r = None \/ r \in LoopRecords,
         loops' = [loops EXCEPT ![l] = r], UNCHANGED <<stage, config, tasks, late>>,
         DOMAIN health \subseteq DOMAIN health',
         r = None => loops[l].aborted,
         r # None =>
           /\ r.backend = loops[l].backend /\ r.check = loops[l].check
           /\ r.pools = loops[l].pools /\ r.aborted = loops[l].aborted
           /\ r.at = "waiting" => ~r.aborted
           /\ r.at # "waiting" => r.bh.status # "Unknown"
           /\ Range(r.unreported) \subseteq Range(r.pools)
  PROVE  /\ LoopsOK' /\ ConfigOK'
         /\ loops' \in [Loops -> LoopRecords \cup {None}]
         /\ tasks' \in [DOMAIN tasks' -> Live']
         /\ loops'[l] = r /\ \A k \in Loops \ {l} : loops'[k] = loops[k]
<1>1. /\ loops \in [Loops -> LoopRecords \cup {None}] /\ l \in Loops
      /\ \A k \in Loops : loops'[k] = IF k = l THEN r ELSE loops[k]
  BY DEF TypeOK, Live
<1>2. loops' \in [Loops -> LoopRecords \cup {None}]
  BY <1>1
<1>3. ASSUME NEW k \in Live'
      PROVE  /\ k \in Live /\ loops'[k] # None
             /\ k = l => r # None /\ loops'[k] = r
             /\ k # l => loops'[k] = loops[k]
  BY <1>1, <1>3 DEF Live
<1>4. ASSUME NEW b \in DOMAIN tasks
      PROVE  /\ tasks[b] \in Live' /\ loops'[tasks[b]].backend = b /\ ~loops'[tasks[b]].aborted
             /\ loops'[tasks[b]].check = loops[tasks[b]].check
             /\ loops'[tasks[b]].pools = loops[tasks[b]].pools
  <2>1. tasks[b] \in Live /\ tasks[b] \in Loops /\ loops[tasks[b]].backend = b /\ ~loops[tasks[b]].aborted
    BY TasksAre
  <2>2. CASE tasks[b] = l
    <3>1. r # None
      BY <2>1, <2>2
    <3>2. QED
      BY <1>1, <2>1, <2>2, <3>1 DEF Live
  <2>3. CASE tasks[b] # l
    BY <1>1, <2>1, <2>3 DEF Live
  <2>4. QED
    BY <2>2, <2>3
<1>5. LoopsOK'
  <2>1. ASSUME NEW k \in Live'
        PROVE  /\ IF loops'[k].aborted
                  THEN loops'[k].backend \in late /\ loops'[k].at # "waiting"
                  ELSE loops'[k].backend \in DOMAIN tasks /\ tasks[loops'[k].backend] = k
               /\ loops'[k].at # "waiting" => loops'[k].bh.status # "Unknown"
               /\ Range(loops'[k].unreported) \subseteq Range(loops'[k].pools)
    <3>1. CASE k = l
      BY <1>3, <2>1, <3>1 DEF LoopsOK, Waiting
    <3>2. CASE k # l
      BY <1>3, <2>1, <3>2 DEF LoopsOK, Waiting
    <3>3. QED
      BY <3>1, <3>2
  <2>2. QED
    BY <1>4, <2>1 DEF LoopsOK, Waiting
<1>6. ConfigOK'
  <2>1. \A b \in DOMAIN tasks : Unchanged(b) => Unchanged(b)'
    BY <1>4 DEF Unchanged, Members, Desired
  <2>2. QED
    BY <2>1 DEF ConfigOK
<1>7. tasks' \in [DOMAIN tasks' -> Live']
  BY <1>4 DEF TypeOK
<1>8. QED
  BY <1>1, <1>2, <1>5, <1>6, <1>7


(* It leaves what is known and shown of other backends alone.              *)
LEMMA OthersKeep ==
  ASSUME TypeOK, IInv, LoopsOK, StatusOK, GaugesOK, NEW l \in Live,
         \A k \in Loops \ {l} : loops'[k] = loops[k], UNCHANGED <<stage, config, tasks, late>>,
         NEW b \in Backends \ late, b # loops[l].backend,
         b \in DOMAIN health' <=> b \in DOMAIN health,
         b \in DOMAIN health => health'[b] = health[b] /\ status'[health[b]] = status[health[b]],
         \A p \in Pools : <<p, b>> \in DOMAIN gauges' =>
           <<p, b>> \in DOMAIN gauges /\ gauges'[<<p, b>>] = gauges[<<p, b>>]
  PROVE  /\ b \in DOMAIN tasks \cap DOMAIN health' => MapSays(b)'
         /\ stage # "stopped" => \A p \in Pools : <<p, b>> \in DOMAIN gauges' => GaugeOK(p, b)'
<1>1. b \in DOMAIN tasks => loops'[tasks[b]] = loops[tasks[b]]
  BY TasksAre
<1>2. b \in DOMAIN tasks \cap DOMAIN health' => MapSays(b)'
  <2>1. b \in DOMAIN tasks \cap DOMAIN health => MapSays(b)
    BY DEF StatusOK
  <2>2. QED
    BY <1>1, <2>1 DEF MapSays
<1>3. ASSUME stage # "stopped", NEW p \in Pools, <<p, b>> \in DOMAIN gauges'
      PROVE  GaugeOK(p, b)'
  <2>1. GaugeOK(p, b) /\ gauges'[<<p, b>>] = gauges[<<p, b>>]
    BY <1>3 DEF GaugesOK
  <2>2. CASE b \in DOMAIN tasks
    BY <1>1, <2>1, <2>2 DEF GaugeOK
  <2>3. CASE b \notin DOMAIN tasks
    <3>1. b \in DOMAIN health
      BY <2>1, <2>3 DEF GaugeOK, IInv, PoolsReadTheMap
    <3>2. Members(config)' = Members(config) /\ Desired(config, b)' = Desired(config, b)
      OBVIOUS
    <3>3. QED
      BY <2>1, <2>3, <3>1, <3>2 DEF GaugeOK
  <2>4. QED
    BY <2>2, <2>3
<1>4. QED
  BY <1>2, <1>3

LEMMA LoopSays ==
  ASSUME TypeOK, IInv, LoopsOK, StatusOK, GaugesOK, NEW l \in Live,
         \A k \in Loops \ {l} : loops'[k] = loops[k], UNCHANGED <<stage, config, tasks, late>>,
         NEW B \in Backends, B = loops[l].backend,
         \A b \in Backends \ {B} :
           /\ b \in DOMAIN health' <=> b \in DOMAIN health
           /\ b \in DOMAIN health => health'[b] = health[b] /\ status'[health[b]] = status[health[b]]
           /\ \A p \in Pools : <<p, b>> \in DOMAIN gauges' =>
                <<p, b>> \in DOMAIN gauges /\ gauges'[<<p, b>>] = gauges[<<p, b>>],
         B \notin late =>
           /\ B \in DOMAIN health' => MapSays(B)'
           /\ stage # "stopped" => \A p \in Pools : <<p, B>> \in DOMAIN gauges' => GaugeOK(p, B)'
  PROVE  StatusOK' /\ GaugesOK'
<1>1. DOMAIN tasks \subseteq Backends
  BY DEF TypeOK
<1>2. ASSUME NEW b \in Backends \ late
      PROVE  /\ b \in DOMAIN tasks \cap DOMAIN health' => MapSays(b)'
             /\ stage # "stopped" => \A p \in Pools : <<p, b>> \in DOMAIN gauges' => GaugeOK(p, b)'
  <2>1. CASE b = B
    BY <2>1
  <2>2. CASE b # B
    BY <2>2, OthersKeep
  <2>3. QED
    BY <2>1, <2>2
<1>3. QED
  BY <1>1, <1>2 DEF StatusOK, GaugesOK

LEMMA ProbeFinishedSays ==
  ASSUME VerdictsOK, NEW l \in Live, NEW outcome \in Outcomes, ProbeFinished(l, outcome)
  PROVE  TypeOK' /\ LoopsOK' /\ ConfigOK' /\ HandlesOK' /\ StatusOK' /\ GaugesOK'
<1> USE DEF VerdictsOK
<1> DEFINE r == loops[l]
           bh == Record(r.bh, outcome, r.check)
<1>1. /\ UNCHANGED <<stage, config, pending, held, built, health, status, tasks, gauges, late>>
      /\ r.at = "waiting" /\ r \in LoopRecords
  BY LoopIs DEF ProbeFinished, reload_vars
<1>2. ~r.aborted
  BY <1>1 DEF LoopsOK, Waiting
<1>3. bh \in BackendHealths /\ (bh.status = r.bh.status \/ bh.status # "Unknown")
  BY LoopIs, RecordIs
<1> HIDE DEF bh
<1>4. PICK q \in LoopRecords :
        /\ loops' = [loops EXCEPT ![l] = q]
        /\ q.backend = r.backend /\ q.check = r.check /\ q.pools = r.pools /\ q.aborted = r.aborted
        /\ q.handle = r.handle /\ q.bh = bh
        /\ \/ q.at = "setting" /\ bh.status # "Unknown" /\ q.unreported = r.unreported
           \/ q.at = "waiting" /\ bh.status = r.bh.status /\ q.unreported = <<>>
  <2>1. CASE bh.status # r.bh.status
    <3> DEFINE q == [r EXCEPT !.bh = bh, !.at = "setting"]
    <3>1. loops' = [loops EXCEPT ![l] = q]
      BY <2>1 DEF ProbeFinished, bh
    <3>2. q \in LoopRecords
      BY <1>1, <1>3, Zenon DEF LoopRecords, Points
    <3>3. /\ q.backend = r.backend /\ q.check = r.check /\ q.pools = r.pools /\ q.aborted = r.aborted
          /\ q.handle = r.handle /\ q.bh = bh /\ q.at = "setting" /\ q.unreported = r.unreported
      BY <1>1 DEF LoopRecords
    <3>4. QED
      BY <1>3, <2>1, <3>1, <3>2, <3>3, Zenon
  <2>2. CASE bh.status = r.bh.status
    <3> DEFINE q == [r EXCEPT !.bh = bh, !.at = "waiting", !.unreported = <<>>]
    <3>1. loops' = [loops EXCEPT ![l] = q]
      BY <1>1, <1>2, <2>2 DEF ProbeFinished, Await, bh, LoopRecords
    <3>2. q \in LoopRecords
      <4>1. <<>> \in Seq(Pools) /\ "waiting" \in Points
        BY DEF Points
      <4>2. QED
        BY <1>1, <1>3, <4>1, Zenon DEF LoopRecords
    <3>3. /\ q.backend = r.backend /\ q.check = r.check /\ q.pools = r.pools /\ q.aborted = r.aborted
          /\ q.handle = r.handle /\ q.bh = bh /\ q.at = "waiting" /\ q.unreported = <<>>
      BY <1>1 DEF LoopRecords
    <3>4. QED
      BY <2>2, <3>1, <3>2, <3>3, Zenon
  <2>3. QED
    BY <2>1, <2>2
<1>5. q # None /\ Range(q.unreported) \subseteq Range(q.pools)
  <2>1. q # None
    BY NoLoopAssumption
  <2>2. Range(<<>>) = {}
    BY DEF Range
  <2>3. QED
    BY <1>4, <2>1, <2>2 DEF LoopsOK
<1>6. /\ LoopsOK' /\ ConfigOK' /\ loops' \in [Loops -> LoopRecords \cup {None}]
      /\ tasks' \in [DOMAIN tasks' -> Live']
      /\ loops'[l] = q /\ \A k \in Loops \ {l} : loops'[k] = loops[k]
  BY <1>1, <1>2, <1>4, <1>5, LoopMoves, Zenon
<1>7. TypeOK'
  BY <1>1, <1>6 DEF TypeOK, Members
<1>8. HandlesOK'
  <2>1. ASSUME NEW k \in Live', loops'[k].at = "storing"
        PROVE  k \in Live /\ loops'[k] = loops[k]
    <3>1. k \in Loops /\ k # l
      BY <1>4, <1>6, <2>1 DEF Live
    <3>2. QED
      BY <1>6, <2>1, <3>1 DEF Live
  <2>2. QED
    BY <1>1, <2>1 DEF HandlesOK
<1>9. PICK B \in Backends : B = r.backend
  BY LoopIs
<1>10. ASSUME B \notin late
       PROVE  /\ B \in DOMAIN health => MapSays(B)'
              /\ stage # "stopped" =>
                   \A p \in Pools : <<p, B>> \in DOMAIN gauges => GaugeOK(p, B)'
  <2>1. B \in DOMAIN tasks /\ tasks[B] = l
    BY <1>9, <1>10, OnlyLoop
  <2>2. B \in DOMAIN health => MapSays(B)
    BY <1>10, <2>1 DEF StatusOK
  <2>3. B \in DOMAIN health => MapSays(B)'
    BY <1>1, <1>4, <1>6, <2>1, <2>2 DEF MapSays
  <2>4. ASSUME stage # "stopped", NEW p \in Pools, <<p, B>> \in DOMAIN gauges
        PROVE  GaugeOK(p, B)'
    <3>1. GaugeOK(p, B)
      BY <1>10, <2>4 DEF GaugesOK
    <3>2. QED
      BY <1>1, <1>4, <1>6, <2>1, <3>1 DEF GaugeOK
  <2>5. QED
    BY <2>3, <2>4
<1>11. StatusOK' /\ GaugesOK'
  BY <1>1, <1>6, <1>9, <1>10, LoopSays
<1>12. QED
  BY <1>6, <1>7, <1>8, <1>11


LEMMA SetLooksUpSays ==
  ASSUME VerdictsOK, NEW l \in Live, SetLooksUp(l)
  PROVE  TypeOK' /\ LoopsOK' /\ ConfigOK' /\ HandlesOK' /\ StatusOK' /\ GaugesOK'
<1> USE DEF VerdictsOK
<1>1. PICK B \in Backends : B = loops[l].backend
  BY LoopIs
<1>2. PICK h \in Handles :
        /\ IF B \in DOMAIN health THEN h = health[B] ELSE h \in Unused
        /\ loops' = [loops EXCEPT ![l].handle = h, ![l].at = "storing"]
        /\ health' = Put(health, [k \in {B} |-> h])
  BY <1>1, Zenon DEF SetLooksUp
<1>3. /\ UNCHANGED <<stage, config, pending, held, built, status, tasks, gauges, late>>
      /\ loops[l].at = "setting" /\ loops[l] \in LoopRecords /\ l \in Loops
  BY LoopIs DEF SetLooksUp, reload_vars
<1>4. /\ DOMAIN health' = DOMAIN health \cup {B} /\ health'[B] = h
      /\ \A b \in DOMAIN health : health'[b] = health[b]
      /\ health' \in [DOMAIN health \cup {B} -> Handles]
  <2>1. health \in [DOMAIN health -> Handles]
    BY DEF TypeOK
  <2>2. QED
    BY <1>2, <2>1 DEF Put
<1> DEFINE q == [loops[l] EXCEPT !.handle = h, !.at = "storing"]
<1>5. /\ q \in LoopRecords /\ q.backend = loops[l].backend /\ q.check = loops[l].check
      /\ q.pools = loops[l].pools /\ q.aborted = loops[l].aborted /\ q.handle = h /\ q.bh = loops[l].bh
      /\ q.at = "storing" /\ q.unreported = loops[l].unreported
  BY <1>3, Zenon DEF LoopRecords, Points
<1>6. loops' = [loops EXCEPT ![l] = q]
  BY <1>2, <1>3, Zenon DEF TypeOK
<1> HIDE DEF q
<1>7. q # None /\ Range(q.unreported) \subseteq Range(q.pools) /\ q.bh.status # "Unknown"
  BY <1>3, <1>5, NoLoopAssumption DEF LoopsOK, Waiting
<1>8. /\ LoopsOK' /\ ConfigOK' /\ loops' \in [Loops -> LoopRecords \cup {None}]
      /\ tasks' \in [DOMAIN tasks' -> Live']
      /\ loops'[l] = q /\ \A k \in Loops \ {l} : loops'[k] = loops[k]
  BY <1>3, <1>4, <1>5, <1>6, <1>7, LoopMoves, Zenon
<1>9. TypeOK'
  <2>1. DOMAIN health' \subseteq Backends
    BY <1>4 DEF TypeOK
  <2>2. QED
    BY <1>3, <1>4, <1>8, <2>1 DEF TypeOK, Members
<1>10. HandlesOK'
  <2>1. B \notin DOMAIN health => \A k \in Live : loops[k].handle # h
    BY <1>2 DEF Unused
  <2>2. B \notin DOMAIN health => \A b \in DOMAIN health : health[b] # h
    BY <1>2 DEF Unused, Range
  <2>3. ASSUME NEW k \in Live', loops'[k].at = "storing"
        PROVE  /\ loops'[k].handle \in Handles
               /\ \A b \in DOMAIN health' : health'[b] = loops'[k].handle => b = loops'[k].backend
    <3>1. CASE k = l
      BY <1>1, <1>2, <1>4, <1>5, <1>8, <2>2, <3>1 DEF IInv, HandlesAreDistinct
    <3>2. CASE k # l
      <4>1. k \in Live /\ loops'[k] = loops[k]
        BY <1>8, <2>3, <3>2 DEF Live
      <4>2. /\ loops[k].handle \in Handles
            /\ \A b \in DOMAIN health : health[b] = loops[k].handle => b = loops[k].backend
        BY <2>3, <4>1 DEF HandlesOK
      <4>3. QED
        BY <1>2, <1>4, <2>1, <4>1, <4>2, Zenon
    <3>3. QED
      BY <3>1, <3>2
  <2>4. QED
    BY <2>3 DEF HandlesOK
<1>11. ASSUME B \notin late
       PROVE  /\ B \in DOMAIN health' => MapSays(B)'
              /\ stage # "stopped" =>
                   \A p \in Pools : <<p, B>> \in DOMAIN gauges' => GaugeOK(p, B)'
  <2>1. B \in DOMAIN tasks /\ tasks[B] = l
    BY <1>1, <1>11, OnlyLoop
  <2>2. MapSays(B)'
    BY <1>3, <1>4, <1>5, <1>8, <2>1 DEF MapSays
  <2>3. ASSUME stage # "stopped", NEW p \in Pools, <<p, B>> \in DOMAIN gauges'
        PROVE  GaugeOK(p, B)'
    <3>1. GaugeOK(p, B)
      BY <1>3, <1>11, <2>3 DEF GaugesOK
    <3>2. QED
      BY <1>3, <1>5, <1>8, <2>1, <3>1 DEF GaugeOK
  <2>4. QED
    BY <2>2, <2>3
<1>12. StatusOK' /\ GaugesOK'
  BY <1>1, <1>3, <1>4, <1>8, <1>11, LoopSays
<1>13. QED
  BY <1>8, <1>9, <1>10, <1>12

LEMMA SetStoresSays ==
  ASSUME VerdictsOK, NEW l \in Live, SetStores(l)
  PROVE  TypeOK' /\ LoopsOK' /\ ConfigOK' /\ HandlesOK' /\ StatusOK' /\ GaugesOK'
<1> USE DEF VerdictsOK
<1>1. PICK B \in Backends : B = loops[l].backend
  BY LoopIs
<1>2. /\ UNCHANGED <<stage, config, pending, held, built, health, tasks, gauges, late>>
      /\ loops[l].at = "storing" /\ loops[l] \in LoopRecords /\ l \in Loops
  BY LoopIs DEF SetStores, reload_vars
<1>3. PICK h \in Handles : h = loops[l].handle /\ \A b \in DOMAIN health : health[b] = h => b = B
  BY <1>1, <1>2 DEF HandlesOK
<1>4. PICK s \in Statuses : s = loops[l].bh.status
  BY LoopIs DEF BackendHealths
<1>5. status' = [status EXCEPT ![h] = IF h \in Range(health) THEN s ELSE "Unknown"]
  BY <1>3, <1>4 DEF SetStores
<1>6. /\ status' \in [Handles -> Statuses]
      /\ h \in Range(health) => status'[h] = s
      /\ \A g \in Handles \ {h} : status'[g] = status[g]
  BY <1>5 DEF TypeOK, Statuses
<1> DEFINE q == [loops[l] EXCEPT !.handle = None, !.at = "reporting", !.unreported = loops[l].pools]
<1>7. /\ q \in LoopRecords /\ q.backend = loops[l].backend /\ q.check = loops[l].check
      /\ q.pools = loops[l].pools /\ q.aborted = loops[l].aborted /\ q.bh = loops[l].bh
      /\ q.at = "reporting" /\ q.unreported = loops[l].pools
  BY <1>2, Zenon DEF LoopRecords, Points
<1>8. loops' = [loops EXCEPT ![l] = q]
  BY <1>2, Zenon DEF SetStores, TypeOK
<1> HIDE DEF q
<1>9. q # None /\ Range(q.unreported) \subseteq Range(q.pools) /\ q.bh.status # "Unknown"
  BY <1>2, <1>7, NoLoopAssumption DEF LoopsOK, Waiting
<1>10. /\ LoopsOK' /\ ConfigOK' /\ loops' \in [Loops -> LoopRecords \cup {None}]
       /\ tasks' \in [DOMAIN tasks' -> Live']
       /\ loops'[l] = q /\ \A k \in Loops \ {l} : loops'[k] = loops[k]
  BY <1>2, <1>7, <1>8, <1>9, LoopMoves, Zenon
<1>11. TypeOK'
  BY <1>2, <1>6, <1>10 DEF TypeOK, Members
<1>12. HandlesOK'
  <2>1. ASSUME NEW k \in Live', loops'[k].at = "storing"
        PROVE  k \in Live /\ loops'[k] = loops[k]
    <3>1. k \in Loops /\ k # l
      BY <1>7, <1>10, <2>1 DEF Live
    <3>2. QED
      BY <1>10, <2>1, <3>1 DEF Live
  <2>2. QED
    BY <1>2, <2>1 DEF HandlesOK
<1>13. ASSUME B \notin late
       PROVE  /\ B \in DOMAIN health' => MapSays(B)'
              /\ stage # "stopped" =>
                   \A p \in Pools : <<p, B>> \in DOMAIN gauges' => GaugeOK(p, B)'
  <2>1. B \in DOMAIN tasks /\ tasks[B] = l
    BY <1>1, <1>13, OnlyLoop
  <2>2. ASSUME B \in DOMAIN health
        PROVE  MapSays(B)'
    <3>1. MapSays(B)
      BY <1>13, <2>1, <2>2 DEF StatusOK
    <3>2. h = health[B] /\ h \in Range(health)
      BY <1>2, <1>3, <2>1, <2>2, <3>1 DEF MapSays, Range
    <3>3. status'[health'[B]] = q.bh.status
      BY <1>2, <1>4, <1>6, <1>7, <3>2
    <3>4. QED
      BY <1>2, <1>7, <1>10, <2>1, <3>3 DEF MapSays
  <2>3. ASSUME stage # "stopped", NEW p \in Pools, <<p, B>> \in DOMAIN gauges'
        PROVE  GaugeOK(p, B)'
    <3>1. GaugeOK(p, B)
      BY <1>2, <1>13, <2>3 DEF GaugesOK
    <3>2. QED
      BY <1>2, <1>7, <1>10, <2>1, <3>1 DEF GaugeOK
  <2>4. QED
    BY <1>2, <2>2, <2>3
<1>14. StatusOK' /\ GaugesOK'
  <2>1. ASSUME NEW b \in DOMAIN health, b # B
        PROVE  status'[health[b]] = status[health[b]]
    <3>1. health[b] \in Handles \ {h}
      BY <1>3, <2>1 DEF TypeOK
    <3>2. QED
      BY <1>6, <3>1
  <2>2. QED
    BY <1>1, <1>2, <1>10, <1>13, <2>1, LoopSays
<1>15. QED
  BY <1>10, <1>11, <1>12, <1>14


LEMMA SaidIs ==
  ASSUME NEW s
  PROVE  Said(s) \in Gauge
<1>1. (s = "Healthy") \in BOOLEAN /\ (s = "Draining") \in BOOLEAN
  OBVIOUS
<1>2. QED
  BY <1>1, Zenon DEF Said, Gauge

LEMMA StatusChangedSays ==
  ASSUME VerdictsOK, NEW l \in Live, StatusChanged(l)
  PROVE  TypeOK' /\ LoopsOK' /\ ConfigOK' /\ HandlesOK' /\ StatusOK' /\ GaugesOK'
<1> USE DEF VerdictsOK
<1>1. PICK B \in Backends : B = loops[l].backend
  BY LoopIs
<1>2. /\ UNCHANGED <<stage, config, pending, held, built, health, status, tasks, late>>
      /\ loops[l].at = "reporting" /\ loops[l] \in LoopRecords /\ l \in Loops
  BY LoopIs DEF StatusChanged, reload_vars
<1>3. PICK us \in Seq(Pools) : us = loops[l].unreported /\ us # <<>>
  BY LoopIs DEF StatusChanged
<1>4. PICK g \in Gauge : g = Said(loops[l].bh.status)
  BY SaidIs
<1>5. PICK first \in Pools : first = Head(us) /\ first \in Range(us)
  <2>1. Head(us) = us[1] /\ 1 \in DOMAIN us
    BY <1>3
  <2>2. QED
    BY <1>3, <2>1 DEF Range
<1>6. gauges' = Put(gauges, [k \in {<<first, B>>} |-> g])
  BY <1>1, <1>3, <1>4, <1>5 DEF StatusChanged
<1>7. /\ DOMAIN gauges' = DOMAIN gauges \cup {<<first, B>>} /\ gauges'[<<first, B>>] = g
      /\ \A x \in DOMAIN gauges \ {<<first, B>>} : gauges'[x] = gauges[x]
      /\ gauges' \in [DOMAIN gauges \cup {<<first, B>>} -> Gauge]
  <2>1. gauges \in [DOMAIN gauges -> Gauge]
    BY DEF TypeOK
  <2>2. QED
    BY <1>6, <2>1 DEF Put
<1>8. PICK q : /\ q = None \/ q \in LoopRecords
               /\ loops' = [loops EXCEPT ![l] = q]
               /\ q = None => loops[l].aborted
               /\ q # None =>
                    /\ q.backend = loops[l].backend /\ q.check = loops[l].check
                    /\ q.pools = loops[l].pools /\ q.aborted = loops[l].aborted /\ q.bh = loops[l].bh
                    /\ \/ q.at = "waiting" /\ ~q.aborted /\ q.unreported = <<>> /\ Len(us) = 1
                       \/ q.at = "reporting" /\ q.unreported = Tail(us)
  <2>1. CASE Len(us) = 1 /\ loops[l].aborted
    BY <1>3, <2>1, Zenon DEF StatusChanged, Await
  <2>2. CASE Len(us) = 1 /\ ~loops[l].aborted
    <3> DEFINE q == [loops[l] EXCEPT !.at = "waiting", !.unreported = <<>>]
    <3>1. loops' = [loops EXCEPT ![l] = q]
      BY <1>3, <2>2 DEF StatusChanged, Await
    <3>2. <<>> \in Seq(Pools) /\ "waiting" \in Points
      BY DEF Points
    <3>3. /\ q \in LoopRecords /\ q.backend = loops[l].backend /\ q.check = loops[l].check
          /\ q.pools = loops[l].pools /\ q.aborted = loops[l].aborted /\ q.bh = loops[l].bh
          /\ q.at = "waiting" /\ q.unreported = <<>>
      BY <1>2, <3>2, Zenon DEF LoopRecords
    <3>4. QED
      BY <2>2, <3>1, <3>3, NoLoopAssumption, Zenon
  <2>3. CASE Len(us) # 1
    <3> DEFINE q == [loops[l] EXCEPT !.unreported = Tail(us)]
    <3>1. loops' = [loops EXCEPT ![l] = q]
      BY <1>2, <1>3, <2>3 DEF StatusChanged, TypeOK
    <3>2. Tail(us) \in Seq(Pools)
      BY <1>3
    <3>3. /\ q \in LoopRecords /\ q.backend = loops[l].backend /\ q.check = loops[l].check
          /\ q.pools = loops[l].pools /\ q.aborted = loops[l].aborted /\ q.bh = loops[l].bh
          /\ q.at = "reporting" /\ q.unreported = Tail(us)
      BY <1>2, <3>2, Zenon DEF LoopRecords
    <3>4. QED
      BY <3>1, <3>3, NoLoopAssumption, Zenon
  <2>4. QED
    BY <2>1, <2>2, <2>3
<1>9. /\ Range(<<>>) = {} /\ Range(Tail(us)) \subseteq Range(us)
      /\ \A p \in Range(us) : p = first \/ (p \in Range(Tail(us)) /\ Len(us) # 1)
  <2>1. Range(<<>>) = {}
    BY DEF Range
  <2>2. /\ Len(us) \in Nat \ {0} /\ DOMAIN us = 1..Len(us) /\ first = us[1]
        /\ DOMAIN Tail(us) = 1..(Len(us) - 1) /\ \A i \in 1..(Len(us) - 1) : Tail(us)[i] = us[i + 1]
    BY <1>3, <1>5
  <2>3. ASSUME NEW i \in DOMAIN Tail(us)
        PROVE  Tail(us)[i] \in Range(us)
    <3>1. Tail(us)[i] = us[i + 1] /\ i + 1 \in DOMAIN us
      BY <2>2
    <3>2. QED
      BY <3>1 DEF Range
  <2>4. ASSUME NEW i \in DOMAIN us, i # 1
        PROVE  us[i] \in Range(Tail(us)) /\ Len(us) # 1
    <3>1. i - 1 \in DOMAIN Tail(us) /\ Tail(us)[i - 1] = us[i] /\ Len(us) # 1
      BY <2>2, <2>4
    <3>2. QED
      BY <3>1 DEF Range
  <2>5. Range(Tail(us)) \subseteq Range(us)
    BY <2>3 DEF Range
  <2>6. ASSUME NEW p \in Range(us)
        PROVE  p = first \/ (p \in Range(Tail(us)) /\ Len(us) # 1)
    <3>1. PICK i \in DOMAIN us : p = us[i]
      BY <2>6 DEF Range
    <3>2. QED
      BY <2>2, <2>4, <3>1
  <2>7. QED
    BY <2>1, <2>5, <2>6
<1>10. Range(us) \subseteq Range(loops[l].pools) /\ loops[l].bh.status # "Unknown"
  BY <1>2, <1>3 DEF LoopsOK, Waiting
<1>11. /\ LoopsOK' /\ ConfigOK' /\ loops' \in [Loops -> LoopRecords \cup {None}]
       /\ tasks' \in [DOMAIN tasks' -> Live']
       /\ loops'[l] = q /\ \A k \in Loops \ {l} : loops'[k] = loops[k]
  BY <1>2, <1>8, <1>9, <1>10, LoopMoves, Zenon
<1>12. TypeOK'
  <2>1. DOMAIN gauges' \subseteq Pools \X Backends
    BY <1>7 DEF TypeOK
  <2>2. QED
    BY <1>2, <1>7, <1>11, <2>1 DEF TypeOK, Members
<1>13. HandlesOK'
  <2>1. ASSUME NEW k \in Live', loops'[k].at = "storing"
        PROVE  k \in Live /\ loops'[k] = loops[k]
    <3>1. k \in Loops /\ k # l
      BY <1>8, <1>11, <2>1 DEF Live
    <3>2. QED
      BY <1>11, <2>1, <3>1 DEF Live
  <2>2. QED
    BY <1>2, <2>1 DEF HandlesOK
<1>14. ASSUME B \notin late
       PROVE  /\ B \in DOMAIN health' => MapSays(B)'
              /\ stage # "stopped" =>
                   \A p \in Pools : <<p, B>> \in DOMAIN gauges' => GaugeOK(p, B)'
  <2>1. B \in DOMAIN tasks /\ tasks[B] = l /\ q # None
    BY <1>1, <1>8, <1>14, OnlyLoop
  <2>2. ASSUME B \in DOMAIN health
        PROVE  MapSays(B)' /\ Said(status[health[B]]) = g
    <3>1. MapSays(B)
      BY <1>14, <2>1, <2>2 DEF StatusOK
    <3>2. status[health[B]] = loops[l].bh.status
      BY <1>2, <1>10, <2>1, <3>1 DEF MapSays
    <3>3. QED
      BY <1>2, <1>4, <1>8, <1>11, <2>1, <3>2 DEF MapSays
  <2>3. ASSUME stage # "stopped", NEW p \in Pools, <<p, B>> \in DOMAIN gauges'
        PROVE  GaugeOK(p, B)'
    <3>1. CASE p = first
      <4>1. p \in Range(q.pools) /\ gauges'[<<p, B>>] = g /\ g = Said(q.bh.status)
        BY <1>4, <1>5, <1>7, <1>8, <1>10, <2>1, <3>1
      <4>2. QED
        BY <1>2, <1>11, <2>1, <2>2, <4>1 DEF GaugeOK
    <3>2. CASE p # first
      <4>1. <<p, B>> \in DOMAIN gauges /\ gauges'[<<p, B>>] = gauges[<<p, B>>]
        BY <1>7, <2>3, <3>2
      <4>2. GaugeOK(p, B)
        BY <1>14, <2>3, <4>1 DEF GaugesOK
      <4>3. p \in Range(q.pools) /\ (p \in Range(us) \/ gauges'[<<p, B>>] = g)
        BY <1>2, <1>3, <1>4, <1>8, <2>1, <4>1, <4>2 DEF GaugeOK
      <4>4. (p \in Range(Tail(us)) /\ Len(us) # 1) \/ gauges'[<<p, B>>] = g
        BY <1>9, <3>2, <4>3
      <4>5. /\ q.at = "waiting" => gauges'[<<p, B>>] = g
            /\ q.at = "reporting" => p \in Range(q.unreported) \/ gauges'[<<p, B>>] = Said(q.bh.status)
        BY <1>4, <1>8, <2>1, <4>4, Zenon
      <4>6. QED
        BY <1>2, <1>11, <2>1, <2>2, <4>3, <4>5 DEF GaugeOK
    <3>3. QED
      BY <3>1, <3>2
  <2>4. QED
    BY <1>2, <2>2, <2>3
<1>15. StatusOK' /\ GaugesOK'
  <2>1. ASSUME NEW b \in Backends \ {B}, NEW p \in Pools, <<p, b>> \in DOMAIN gauges'
        PROVE  <<p, b>> \in DOMAIN gauges /\ gauges'[<<p, b>>] = gauges[<<p, b>>]
    BY <1>7, <2>1
  <2>2. QED
    BY <1>1, <1>2, <1>11, <1>14, <2>1, LoopSays
<1>16. QED
  BY <1>11, <1>12, <1>13, <1>15

LEMMA ProbesSay ==
  ASSUME VerdictsOK, NEW l \in Loops, RunProbe(l)
  PROVE  VerdictsOK'
<1>1. IInv'
  BY RunProbeKeeps DEF VerdictsOK
<1>2. TypeOK' /\ LoopsOK' /\ ConfigOK' /\ HandlesOK' /\ StatusOK' /\ GaugesOK'
  BY ProbeFinishedSays, SetLooksUpSays, SetStoresSays, StatusChangedSays DEF RunProbe
<1>3. QED
  BY <1>1, <1>2 DEF VerdictsOK


(* A step of a reload that changes the map and starts or stops no loop.    *)
LEMMA MapMoves ==
  ASSUME VerdictsOK, UNCHANGED <<tasks, loops, gauges, late>>,
         {stage, stage'} \cap {"starting", "stopped"} = {},
         \A b \in DOMAIN tasks \cap DOMAIN health' : b \in DOMAIN health,
         \A b \in DOMAIN health \cap DOMAIN health' :
           health'[b] = health[b] /\ status'[health[b]] = status[health[b]],
         \A b \in DOMAIN health' \ DOMAIN health, l \in Live : loops[l].handle # health'[b]
  PROVE  LoopsOK' /\ HandlesOK' /\ StatusOK' /\ GaugesOK'
<1> USE DEF VerdictsOK
<1>1. Live' = Live
  BY DEF Live
<1>2. LoopsOK'
  BY <1>1 DEF LoopsOK, Waiting
<1>3. HandlesOK'
  <2>1. ASSUME NEW l \in Live, loops[l].at = "storing", NEW b \in DOMAIN health', health'[b] = loops[l].handle
        PROVE  b = loops[l].backend
    <3>1. b \in DOMAIN health /\ health'[b] = health[b]
      BY <2>1
    <3>2. QED
      BY <2>1, <3>1, Zenon DEF HandlesOK
  <2>2. QED
    BY <1>1, <2>1 DEF HandlesOK
<1>4. StatusOK'
  <2>1. ASSUME NEW b \in (DOMAIN tasks \cap DOMAIN health') \ late
        PROVE  MapSays(b)'
    <3>1. MapSays(b) /\ health'[b] = health[b] /\ status'[health[b]] = status[health[b]]
      BY <2>1 DEF StatusOK
    <3>2. QED
      BY <3>1 DEF MapSays
  <2>2. QED
    BY <2>1 DEF StatusOK
<1>5. GaugesOK'
  <2>1. ASSUME NEW p \in Pools, NEW b \in Backends \ late, <<p, b>> \in DOMAIN gauges
        PROVE  GaugeOK(p, b)'
    <3>1. GaugeOK(p, b)
      BY <2>1, Zenon DEF GaugesOK
    <3>2. b \in DOMAIN tasks
      BY <3>1, Zenon DEF GaugeOK
    <3>3. QED
      BY <3>1, <3>2 DEF GaugeOK
  <2>2. QED
    BY <2>1 DEF GaugesOK
<1>6. QED
  BY <1>2, <1>3, <1>4, <1>5

LEMMA UnchangedKept ==
  ASSUME UNCHANGED <<config, tasks, loops>>, NEW b
  PROVE  Unchanged(b)' = Unchanged(b)
BY DEF Unchanged, Members, Desired

LEMMA PrepareSays ==
  ASSUME VerdictsOK, NEW c \in Configs, Prepare(c)
  PROVE  TypeOK' /\ LoopsOK' /\ ConfigOK' /\ HandlesOK' /\ StatusOK' /\ GaugesOK'
<1> USE DEF VerdictsOK
<1>1. PICK h \in [Members(c) -> Handles] :
        /\ \A b \in Members(c) : IF b \in DOMAIN health THEN h[b] = health[b] ELSE h[b] \in Unused
        /\ built' = h
        /\ health' = Put(health, h)
  BY DEF Prepare
<1>2. /\ UNCHANGED <<config, held, status, tasks, loops, gauges, late>>
      /\ pending' = c /\ stage = "idle" /\ stage' = "prepared"
  BY DEF Prepare
<1>3. /\ DOMAIN health' = DOMAIN health \cup Members(c)
      /\ \A b \in Members(c) : health'[b] = h[b]
      /\ \A b \in DOMAIN health : health'[b] = health[b]
      /\ health' \in [DOMAIN health \cup Members(c) -> Handles]
  <2>1. health \in [DOMAIN health -> Handles]
    BY DEF TypeOK
  <2>2. QED
    BY <1>1, <2>1 DEF Put
<1>4. DOMAIN tasks \subseteq DOMAIN health
  BY <1>2 DEF ConfigOK
<1>5. LoopsOK' /\ HandlesOK' /\ StatusOK' /\ GaugesOK'
  <2>1. ASSUME NEW b \in DOMAIN health' \ DOMAIN health, NEW l \in Live
        PROVE  loops[l].handle # health'[b]
    BY <1>1, <1>3, <2>1 DEF Unused
  <2>2. QED
    BY <1>2, <1>3, <1>4, <2>1, MapMoves
<1>6. ConfigOK'
  BY <1>2, <1>3, <1>4, UnchangedKept DEF ConfigOK
<1>7. TypeOK'
  <2>1. DOMAIN health' \subseteq Backends
    BY <1>3, MembersAre DEF TypeOK
  <2>2. built' \in [DOMAIN built' -> Handles]
    BY <1>1
  <2>3. held' \in [Members(config)' -> Handles] /\ tasks' \in [DOMAIN tasks' -> Live']
    BY <1>2 DEF TypeOK, Members, Live
  <2>4. QED
    BY <1>2, <1>3, <2>1, <2>2, <2>3 DEF TypeOK, Stages
<1>8. QED
  BY <1>5, <1>6, <1>7

LEMMA RejectSays ==
  ASSUME VerdictsOK, Reject
  PROVE  TypeOK' /\ LoopsOK' /\ ConfigOK' /\ HandlesOK' /\ StatusOK' /\ GaugesOK'
<1> USE DEF VerdictsOK
<1>1. /\ UNCHANGED <<config, held, health, status, tasks, loops, gauges, late>>
      /\ pending' = NoPools /\ built' = << >> /\ stage = "prepared" /\ stage' = "idle"
  BY DEF Reject
<1>2. LoopsOK' /\ HandlesOK' /\ StatusOK' /\ GaugesOK'
  BY <1>1, MapMoves
<1>3. ConfigOK'
  BY <1>1, UnchangedKept DEF ConfigOK
<1>4. TypeOK'
  <2>1. built' \in [DOMAIN built' -> Handles] /\ pending' \in Configs
    BY <1>1, ConfigsAssumption
  <2>2. held' \in [Members(config)' -> Handles] /\ tasks' \in [DOMAIN tasks' -> Live']
    BY <1>1 DEF TypeOK, Members, Live
  <2>3. QED
    BY <1>1, <2>1, <2>2 DEF TypeOK, Stages
<1>5. QED
  BY <1>2, <1>3, <1>4

LEMMA SwapSays ==
  ASSUME VerdictsOK, Swap
  PROVE  TypeOK' /\ LoopsOK' /\ ConfigOK' /\ HandlesOK' /\ StatusOK' /\ GaugesOK'
<1> USE DEF VerdictsOK
<1>1. /\ UNCHANGED <<health, status, tasks, loops, gauges, late>>
      /\ config' = pending /\ held' = built /\ pending' = NoPools /\ built' = << >>
      /\ stage = "prepared" /\ stage' = "swapped"
  BY DEF Swap
<1>2. LoopsOK' /\ HandlesOK' /\ StatusOK' /\ GaugesOK'
  BY <1>1, MapMoves
<1>3. ConfigOK'
  BY <1>1 DEF ConfigOK
<1>4. TypeOK'
  <2>1. built' \in [DOMAIN built' -> Handles] /\ pending' \in Configs
    BY <1>1, ConfigsAssumption
  <2>2. held' \in [Members(config)' -> Handles]
    <3>1. DOMAIN built = Members(pending) /\ built \in [DOMAIN built -> Handles]
      BY <1>1 DEF IInv, BuiltFromTheMap, TypeOK
    <3>2. QED
      BY <1>1, <3>1 DEF Members
  <2>3. tasks' \in [DOMAIN tasks' -> Live']
    BY <1>1 DEF TypeOK, Live
  <2>4. QED
    BY <1>1, <2>1, <2>2, <2>3 DEF TypeOK, Stages
<1>5. QED
  BY <1>2, <1>3, <1>4

LEMMA RetainSays ==
  ASSUME VerdictsOK, Retain
  PROVE  TypeOK' /\ LoopsOK' /\ ConfigOK' /\ HandlesOK' /\ StatusOK' /\ GaugesOK'
<1> USE DEF VerdictsOK
<1>1. /\ UNCHANGED <<config, pending, held, built, tasks, loops, gauges, late>>
      /\ stage = "swapped" /\ stage' = "retained" /\ status' = Freed(Range(health'))
  BY DEF Retain
<1>2. /\ DOMAIN health' = DOMAIN health \cap Members(config)
      /\ \A b \in DOMAIN health' : health'[b] = health[b]
      /\ health' \in [DOMAIN health' -> Handles]
  <2>1. health \in [DOMAIN health -> Handles]
    BY DEF TypeOK
  <2>2. QED
    BY <2>1 DEF Retain, Restrict
<1>3. /\ status' \in [Handles -> Statuses]
      /\ \A b \in DOMAIN health' : status'[health[b]] = status[health[b]]
  <2>1. status \in [Handles -> Statuses] /\ "Unknown" \in Statuses
    BY DEF TypeOK, Statuses
  <2>2. ASSUME NEW b \in DOMAIN health'
        PROVE  health[b] \in Handles /\ health[b] \in Range(health')
    BY <1>2, <2>2 DEF Range
  <2>3. QED
    BY <1>1, <2>1, <2>2 DEF Freed
<1>4. LoopsOK' /\ HandlesOK' /\ StatusOK' /\ GaugesOK'
  BY <1>1, <1>2, <1>3, MapMoves
<1>5. ConfigOK'
  BY <1>1 DEF ConfigOK
<1>6. TypeOK'
  <2>1. held' \in [Members(config)' -> Handles] /\ tasks' \in [DOMAIN tasks' -> Live']
    BY <1>1 DEF TypeOK, Members, Live
  <2>2. QED
    BY <1>1, <1>2, <1>3, <2>1 DEF TypeOK, Stages
<1>7. QED
  BY <1>4, <1>5, <1>6


(* JoinHandle::abort of the loops of some backends, which are let go of.   *)
LEMMA AbortsSay ==
  ASSUME VerdictsOK, NEW gone \in SUBSET DOMAIN tasks, Abort({tasks[b] : b \in gone}),
         UNCHANGED <<health, status>>,
         DOMAIN tasks' = DOMAIN tasks \ gone, \A b \in DOMAIN tasks' : tasks'[b] = tasks[b],
         tasks' \in [DOMAIN tasks' -> Loops]
  PROVE  /\ LoopsOK' /\ HandlesOK' /\ StatusOK' /\ late \subseteq late' /\ late' \subseteq Backends
         /\ loops' \in [Loops -> LoopRecords \cup {None}] /\ tasks' \in [DOMAIN tasks' -> Live']
         /\ \A b \in DOMAIN tasks' : loops'[tasks'[b]] = loops[tasks[b]]
         /\ \A b \in gone \ late' : Waiting(tasks[b])
<1> USE DEF VerdictsOK
<1> DEFINE A == {tasks[b] : b \in gone}
<1>1. loops \in [Loops -> LoopRecords \cup {None}]
  BY DEF TypeOK
<1>2. ASSUME NEW b \in DOMAIN tasks
      PROVE  /\ tasks[b] \in Live /\ tasks[b] \in Loops /\ loops[tasks[b]] \in LoopRecords
             /\ loops[tasks[b]].backend = b /\ ~loops[tasks[b]].aborted /\ b \in Backends
             /\ b \notin gone => tasks[b] \notin A
  BY TasksAre, LoopIs
<1>3. ASSUME NEW l \in A
      PROVE  l \in Live /\ l \in Loops /\ loops[l] \in LoopRecords /\ loops[l].backend \in gone
  BY <1>2, <1>3
<1>4. \A l \in Loops : loops'[l] = IF l \notin A THEN loops[l]
                                   ELSE IF Waiting(l) THEN None
                                   ELSE [loops[l] EXCEPT !.aborted = TRUE]
  BY DEF Abort
<1>5. late' = late \cup {loops[l].backend : l \in {k \in A : ~Waiting(k)}}
  BY DEF Abort
<1>6. ASSUME NEW l \in A, ~Waiting(l)
      PROVE  /\ loops'[l] \in LoopRecords /\ loops'[l].aborted /\ loops'[l].backend = loops[l].backend
             /\ loops'[l].at = loops[l].at /\ loops'[l].bh = loops[l].bh
             /\ loops'[l].pools = loops[l].pools /\ loops'[l].unreported = loops[l].unreported
             /\ loops'[l].handle = loops[l].handle /\ loops[l].backend \in late'
  <2>1. l \in Loops /\ loops[l] \in LoopRecords
    BY <1>3
  <2>2. loops'[l] = [loops[l] EXCEPT !.aborted = TRUE]
    BY <1>4, <1>6, <2>1
  <2>3. /\ loops'[l] \in LoopRecords /\ loops'[l].aborted /\ loops'[l].backend = loops[l].backend
        /\ loops'[l].at = loops[l].at /\ loops'[l].bh = loops[l].bh
        /\ loops'[l].pools = loops[l].pools /\ loops'[l].unreported = loops[l].unreported
        /\ loops'[l].handle = loops[l].handle
    BY <2>1, <2>2, Zenon DEF LoopRecords
  <2>4. loops[l].backend \in late'
    BY <1>5, <1>6
  <2>5. QED
    BY <2>3, <2>4
<1> HIDE DEF A
<1>7. loops' \in [Loops -> LoopRecords \cup {None}]
  <2>1. \A l \in Loops : loops'[l] \in LoopRecords \cup {None}
    BY <1>1, <1>4, <1>6, Zenon
  <2>2. DOMAIN loops' = Loops /\ loops' = [l \in Loops |-> loops'[l]]
    BY DEF Abort
  <2>3. QED
    BY <2>1, <2>2
<1>8. ASSUME NEW l \in Live'
      PROVE  /\ l \in Live /\ l \in Loops
             /\ \/ l \notin A /\ loops'[l] = loops[l]
                \/ l \in A /\ ~Waiting(l)
  <2>1. l \in Loops /\ loops'[l] # None
    BY <1>8 DEF Live
  <2>2. CASE l \in A
    BY <1>3, <1>4, <2>1, <2>2, Zenon
  <2>3. CASE l \notin A
    BY <1>4, <2>1, <2>3, Zenon DEF Live
  <2>4. QED
    BY <2>1, <2>2, <2>3
<1>9. late \subseteq late' /\ late' \subseteq Backends
  <2>1. \A l \in A : loops[l].backend \in Backends
    BY <1>2, <1>3
  <2>2. QED
    BY <1>5, <2>1 DEF TypeOK
<1>10. ASSUME NEW b \in DOMAIN tasks'
       PROVE  /\ tasks'[b] = tasks[b] /\ tasks[b] \in Live' /\ loops'[tasks[b]] = loops[tasks[b]]
              /\ b \in DOMAIN tasks
  BY <1>2, <1>4, <1>10, Zenon DEF Live
<1>11. tasks' \in [DOMAIN tasks' -> Live']
  BY <1>10
<1>12. LoopsOK'
  <2>1. ASSUME NEW l \in Live'
        PROVE  /\ IF loops'[l].aborted
                  THEN loops'[l].backend \in late' /\ loops'[l].at # "waiting"
                  ELSE loops'[l].backend \in DOMAIN tasks' /\ tasks'[loops'[l].backend] = l
               /\ loops'[l].at # "waiting" => loops'[l].bh.status # "Unknown"
               /\ Range(loops'[l].unreported) \subseteq Range(loops'[l].pools)
    <3>1. CASE l \in A /\ ~Waiting(l)
      BY <1>6, <1>8, <3>1 DEF LoopsOK, Waiting
    <3>2. CASE l \notin A /\ loops'[l] = loops[l]
      <4>1. CASE loops[l].aborted
        BY <1>8, <1>9, <3>2, <4>1 DEF LoopsOK, Waiting
      <4>2. CASE ~loops[l].aborted
        <5>1. loops[l].backend \in DOMAIN tasks /\ tasks[loops[l].backend] = l
          BY <1>8, <4>2 DEF LoopsOK
        <5>2. loops[l].backend \notin gone
          BY <3>2, <5>1 DEF A
        <5>3. QED
          BY <1>8, <3>2, <4>2, <5>1, <5>2 DEF LoopsOK, Waiting
      <4>3. QED
        BY <4>1, <4>2
    <3>3. QED
      BY <1>8, <3>1, <3>2
  <2>2. \A b \in DOMAIN tasks' : loops'[tasks'[b]].backend = b /\ ~loops'[tasks'[b]].aborted
    BY <1>2, <1>10
  <2>3. QED
    BY <2>1, <2>2 DEF LoopsOK, Waiting
<1>13. HandlesOK'
  <2>1. ASSUME NEW l \in Live'
        PROVE  /\ l \in Live /\ loops'[l].at = loops[l].at /\ loops'[l].handle = loops[l].handle
               /\ loops'[l].backend = loops[l].backend
    BY <1>6, <1>8
  <2>2. QED
    BY <2>1 DEF HandlesOK
<1>14. StatusOK'
  <2>1. ASSUME NEW b \in (DOMAIN tasks' \cap DOMAIN health) \ late'
        PROVE  MapSays(b)'
    <3>1. MapSays(b)
      BY <1>9, <1>10, <2>1 DEF StatusOK
    <3>2. QED
      BY <1>10, <2>1, <3>1 DEF MapSays
  <2>2. QED
    BY <2>1 DEF StatusOK
<1>15. ASSUME NEW b \in gone \ late'
       PROVE  Waiting(tasks[b])
  <2>1. tasks[b] \in A /\ loops[tasks[b]].backend = b
    BY <1>2 DEF A
  <2>2. QED
    BY <1>6, <1>15, <2>1
<1>16. QED
  BY <1>7, <1>9, <1>10, <1>11, <1>12, <1>13, <1>14, <1>15

LEMMA StopProbesSays ==
  ASSUME VerdictsOK, StopProbes
  PROVE  TypeOK' /\ LoopsOK' /\ ConfigOK' /\ HandlesOK' /\ StatusOK' /\ GaugesOK'
<1> USE DEF VerdictsOK
<1> DEFINE changed == {b \in DOMAIN tasks : ~Unchanged(b)}
           left == UNION {PoolsLeft(b) \X {b} : b \in changed}
<1>1. /\ UNCHANGED <<config, pending, held, built, health, status>>
      /\ stage = "retained" /\ stage' = "starting"
      /\ Abort({tasks[b] : b \in changed})
      /\ tasks' = Restrict(tasks, DOMAIN tasks \ changed)
      /\ gauges' = Restrict(gauges, DOMAIN gauges \ left)
  BY DEF StopProbes
<1>2. /\ DOMAIN tasks' = DOMAIN tasks \ changed /\ \A b \in DOMAIN tasks' : tasks'[b] = tasks[b]
      /\ tasks' \in [DOMAIN tasks' -> Loops]
  <2>1. \A b \in DOMAIN tasks : tasks[b] \in Loops
    BY TasksAre
  <2>2. QED
    BY <1>1, <2>1 DEF Restrict
<1>3. /\ DOMAIN gauges' = DOMAIN gauges \ left /\ \A x \in DOMAIN gauges' : gauges'[x] = gauges[x]
      /\ gauges' \in [DOMAIN gauges' -> Gauge]
  <2>1. \A x \in DOMAIN gauges : gauges[x] \in Gauge
    BY DEF TypeOK
  <2>2. QED
    BY <1>1, <2>1 DEF Restrict
<1>4. \A b \in changed : \A p \in PoolsLeft(b) : <<p, b>> \in left
  OBVIOUS
<1>5. changed \in SUBSET DOMAIN tasks /\ \A b \in DOMAIN tasks \ changed : Unchanged(b)
  OBVIOUS
<1> HIDE DEF changed, left
<1>6. /\ LoopsOK' /\ HandlesOK' /\ StatusOK' /\ late \subseteq late' /\ late' \subseteq Backends
      /\ loops' \in [Loops -> LoopRecords \cup {None}] /\ tasks' \in [DOMAIN tasks' -> Live']
      /\ \A b \in DOMAIN tasks' : loops'[tasks'[b]] = loops[tasks[b]]
      /\ \A b \in changed \ late' : Waiting(tasks[b])
  BY <1>1, <1>2, <1>5, AbortsSay, Zenon
<1>7. ConfigOK'
  <2>1. ASSUME NEW b \in DOMAIN tasks'
        PROVE  Unchanged(b)'
    <3>1. Unchanged(b) /\ loops'[tasks'[b]] = loops[tasks[b]]
      BY <1>2, <1>5, <1>6, <2>1
    <3>2. QED
      BY <1>1, <3>1 DEF Unchanged, Members, Desired
  <2>2. QED
    BY <1>1, <2>1 DEF ConfigOK
<1>8. GaugesOK'
  <2>1. ASSUME NEW p \in Pools, NEW b \in Backends \ late', <<p, b>> \in DOMAIN gauges'
        PROVE  GaugeOK(p, b)'
    <3>1. GaugeOK(p, b) /\ gauges'[<<p, b>>] = gauges[<<p, b>>] /\ <<p, b>> \notin left
      BY <1>1, <1>3, <1>6, <2>1, Zenon DEF GaugesOK
    <3>2. b \in DOMAIN tasks
      BY <1>1, <3>1 DEF GaugeOK
    <3>3. CASE b \notin changed
      BY <1>1, <1>2, <1>6, <3>1, <3>2, <3>3, Zenon DEF GaugeOK
    <3>4. CASE b \in changed
      <4>1. b \notin DOMAIN tasks' /\ loops[tasks[b]].at = "waiting"
        BY <1>2, <1>6, <2>1, <3>4 DEF Waiting
      <4>2. p \in Range(loops[tasks[b]].pools) /\ p \notin PoolsLeft(b)
        BY <1>4, <3>1, <3>2, <3>4 DEF GaugeOK
      <4>3. b \in Members(config) /\ p \in Range(Desired(config, b).pools)
        BY <4>2 DEF PoolsLeft
      <4>4. b \in DOMAIN health
        BY <4>3 DEF IInv, PoolsReadTheMap
      <4>5. gauges[<<p, b>>] = Said(status[health[b]])
        BY <3>1, <3>2, <4>1, <4>4 DEF GaugeOK
      <4>6. Members(config)' = Members(config) /\ Desired(config, b)' = Desired(config, b)
        BY <1>1 DEF Members, Desired
      <4>7. QED
        BY <1>1, <3>1, <4>1, <4>3, <4>5, <4>6 DEF GaugeOK
    <3>5. QED
      BY <3>3, <3>4
  <2>2. QED
    BY <2>1 DEF GaugesOK
<1>9. TypeOK'
  <2>1. held' \in [Members(config)' -> Handles]
    BY <1>1 DEF TypeOK, Members
  <2>2. DOMAIN gauges' \subseteq Pools \X Backends /\ DOMAIN tasks' \subseteq Backends
    BY <1>2, <1>3 DEF TypeOK
  <2>3. QED
    BY <1>1, <1>3, <1>6, <2>1, <2>2, Zenon DEF TypeOK, Stages
<1>10. QED
  BY <1>6, <1>7, <1>8, <1>9

LEMMA StopAllSays ==
  ASSUME VerdictsOK, StopAll
  PROVE  TypeOK' /\ LoopsOK' /\ ConfigOK' /\ HandlesOK' /\ StatusOK' /\ GaugesOK'
<1> USE DEF VerdictsOK
<1>1. /\ UNCHANGED <<config, pending, held, built, health, status, gauges>>
      /\ stage' = "stopped" /\ Abort({tasks[b] : b \in DOMAIN tasks}) /\ tasks' = << >>
  BY DEF StopAll, Range
<1>2. DOMAIN tasks' = {} /\ tasks' \in [DOMAIN tasks' -> Loops]
  BY <1>1
<1>3. DOMAIN tasks' = DOMAIN tasks \ DOMAIN tasks /\ DOMAIN tasks \in SUBSET DOMAIN tasks
      /\ \A b \in DOMAIN tasks' : tasks'[b] = tasks[b]
  BY <1>2
<1>4. /\ LoopsOK' /\ HandlesOK' /\ StatusOK' /\ late' \subseteq Backends
      /\ loops' \in [Loops -> LoopRecords \cup {None}] /\ tasks' \in [DOMAIN tasks' -> Live']
  BY <1>1, <1>2, <1>3, AbortsSay
<1>5. ConfigOK' /\ GaugesOK'
  BY <1>1 DEF ConfigOK, GaugesOK
<1>6. TypeOK'
  <2>1. held' \in [Members(config)' -> Handles]
    BY <1>1 DEF TypeOK, Members
  <2>2. QED
    BY <1>1, <1>2, <1>4, <2>1 DEF TypeOK, Stages
<1>7. QED
  BY <1>4, <1>5, <1>6


LEMMA NewLoopIs ==
  ASSUME DesiredFits, VerdictsOK, NEW b \in Members(config)
  PROVE  /\ NewLoop(b) \in LoopRecords /\ NewLoop(b) # None
         /\ NewLoop(b).backend = b /\ NewLoop(b).at = "waiting" /\ ~NewLoop(b).aborted
         /\ NewLoop(b).bh.status = "Unknown" /\ NewLoop(b).unreported = <<>>
         /\ NewLoop(b).pools = Desired(config, b).pools
         /\ Desired(config, b) = [check |-> NewLoop(b).check, pools |-> NewLoop(b).pools]
<1>1. config \in Configs /\ b \in Backends
  BY MembersAre DEF VerdictsOK, TypeOK
<1>2. Desired(config, b).check \in Thresholds /\ Desired(config, b).pools \in Seq(Pools)
  BY <1>1 DEF DesiredFits
<1>3. Default \in BackendHealths /\ Default.status = "Unknown"
  BY CountMaxAssumption DEF Default, BackendHealths, Statuses
<1>4. <<>> \in Seq(Pools) /\ "waiting" \in Points
  BY DEF Points
<1>5. NewLoop(b) \in LoopRecords
  BY <1>1, <1>2, <1>3, <1>4 DEF NewLoop, LoopRecords
<1>6. /\ NewLoop(b).backend = b /\ NewLoop(b).at = "waiting" /\ ~NewLoop(b).aborted
      /\ NewLoop(b).bh = Default /\ NewLoop(b).unreported = <<>>
      /\ NewLoop(b).pools = Desired(config, b).pools /\ NewLoop(b).check = Desired(config, b).check
  BY DEF NewLoop
<1>7. Desired(config, b) = [check |-> Desired(config, b).check, pools |-> Desired(config, b).pools]
  BY DEF Desired
<1>8. QED
  BY <1>3, <1>5, <1>6, <1>7, NoLoopAssumption

LEMMA StartProbesSays ==
  ASSUME DesiredFits, VerdictsOK, StartProbes
  PROVE  TypeOK' /\ LoopsOK' /\ ConfigOK' /\ HandlesOK' /\ StatusOK' /\ GaugesOK'
<1> USE DEF VerdictsOK
<1> DEFINE new == Members(config) \ DOMAIN tasks
<1>1. PICK t \in [new -> Loops \ Live] :
        /\ \A a, b \in new : t[a] = t[b] => a = b
        /\ tasks' = Put(tasks, t)
        /\ loops' = [l \in Loops |-> IF l \in Range(t) THEN NewLoop(CHOOSE b \in new : t[b] = l)
                                     ELSE loops[l]]
  BY DEF StartProbes
<1>2. /\ UNCHANGED <<config, pending, held, built, health, status, gauges, late>>
      /\ stage = "starting" /\ stage' = "idle"
  BY DEF StartProbes
<1>3. ASSUME NEW b \in new
      PROVE  b \in Members(config) /\ b \notin DOMAIN tasks
  BY <1>3
<1>4. \A b \in Members(config) : b \in new \/ b \in DOMAIN tasks
  OBVIOUS
<1> HIDE DEF new
<1>5. ASSUME NEW b \in new
      PROVE  /\ t[b] \in Loops /\ t[b] \notin Live /\ t[b] \in Range(t) /\ loops'[t[b]] = NewLoop(b)
  <2>1. t[b] \in Loops /\ t[b] \notin Live /\ t[b] \in Range(t)
    BY <1>1, <1>5 DEF Range
  <2>2. (CHOOSE a \in new : t[a] = t[b]) = b
    BY <1>1, <1>5
  <2>3. QED
    BY <1>1, <2>1, <2>2
<1>6. \A l \in Range(t) : \E b \in new : l = t[b]
  BY <1>1 DEF Range
<1>7. ASSUME NEW l \in Live
      PROVE  l \in Loops /\ loops'[l] = loops[l] /\ l \in Live'
  <2>1. l \in Loops /\ loops[l] # None /\ l \notin Range(t)
    BY <1>5, <1>6 DEF Live
  <2>2. QED
    BY <1>1, <2>1 DEF Live
<1>8. ASSUME NEW l \in Live'
      PROVE  l \in Live \/ \E b \in new : l = t[b]
  BY <1>1, <1>6, <1>8 DEF Live
<1>9. /\ DOMAIN tasks' = DOMAIN tasks \cup new
      /\ \A b \in new : tasks'[b] = t[b]
      /\ \A b \in DOMAIN tasks : tasks'[b] = tasks[b]
      /\ tasks' = [b \in DOMAIN tasks \cup new |-> tasks'[b]]
  BY <1>1, <1>3 DEF Put
<1>10. ASSUME NEW b \in DOMAIN tasks
       PROVE  /\ tasks'[b] = tasks[b] /\ tasks[b] \in Live /\ loops'[tasks'[b]] = loops[tasks[b]]
              /\ tasks'[b] \in Live' /\ b \in Backends
  BY <1>7, <1>9, TasksAre
<1>11. ASSUME NEW b \in new
       PROVE  /\ tasks'[b] = t[b] /\ loops'[tasks'[b]] = NewLoop(b) /\ tasks'[b] \in Live'
              /\ b \in Backends
  BY <1>3, <1>5, <1>9, NewLoopIs, MembersAre DEF Live, TypeOK
<1>12. loops' \in [Loops -> LoopRecords \cup {None}] /\ tasks' \in [DOMAIN tasks' -> Live']
  <2>1. ASSUME NEW l \in Loops
        PROVE  loops'[l] \in LoopRecords \cup {None}
    <3>1. CASE l \in Range(t)
      BY <1>3, <1>5, <1>6, <3>1, NewLoopIs
    <3>2. CASE l \notin Range(t)
      BY <1>1, <3>2 DEF TypeOK
    <3>3. QED
      BY <3>1, <3>2
  <2>2. loops' = [l \in Loops |-> loops'[l]]
    BY <1>1
  <2>3. loops' \in [Loops -> LoopRecords \cup {None}]
    BY <2>1, <2>2
  <2>4. QED
    BY <1>9, <1>10, <1>11, <2>3
<1>13. LoopsOK'
  <2>1. Range(<<>>) = {}
    BY DEF Range
  <2>2. ASSUME NEW l \in Live'
        PROVE  /\ IF loops'[l].aborted
                  THEN loops'[l].backend \in late' /\ loops'[l].at # "waiting"
                  ELSE loops'[l].backend \in DOMAIN tasks' /\ tasks'[loops'[l].backend] = l
               /\ loops'[l].at # "waiting" => loops'[l].bh.status # "Unknown"
               /\ Range(loops'[l].unreported) \subseteq Range(loops'[l].pools)
    <3>1. CASE l \in Live
      <4>1. /\ IF loops[l].aborted
               THEN loops[l].backend \in late /\ loops[l].at # "waiting"
               ELSE loops[l].backend \in DOMAIN tasks /\ tasks[loops[l].backend] = l
            /\ loops[l].at # "waiting" => loops[l].bh.status # "Unknown"
            /\ Range(loops[l].unreported) \subseteq Range(loops[l].pools)
        BY <3>1 DEF LoopsOK, Waiting
      <4>2. QED
        BY <1>2, <1>7, <1>9, <3>1, <4>1
    <3>2. ASSUME NEW b \in new, l = t[b]
          PROVE  /\ ~loops'[l].aborted /\ loops'[l].at = "waiting" /\ Range(loops'[l].unreported) = {}
                 /\ loops'[l].backend \in DOMAIN tasks' /\ tasks'[loops'[l].backend] = l
      BY <1>3, <1>9, <1>11, <2>1, <3>2, NewLoopIs
    <3>3. QED
      BY <1>8, <2>2, <3>1, <3>2
  <2>3. \A b \in DOMAIN tasks' : loops'[tasks'[b]].backend = b /\ ~loops'[tasks'[b]].aborted
    BY <1>3, <1>9, <1>10, <1>11, NewLoopIs, TasksAre
  <2>4. QED
    BY <2>2, <2>3 DEF LoopsOK, Waiting
<1>14. Members(config)' = Members(config) /\ \A b : Desired(config, b)' = Desired(config, b)
  BY <1>2 DEF Members, Desired
<1>15. ConfigOK'
  <2>1. ASSUME NEW b \in DOMAIN tasks
        PROVE  Unchanged(b)' /\ b \in Members(config)
    <3>1. Unchanged(b)
      BY <1>2 DEF ConfigOK
    <3>2. QED
      BY <1>2, <1>10, <1>14, <3>1 DEF Unchanged
  <2>2. ASSUME NEW b \in new
        PROVE  Unchanged(b)'
    BY <1>2, <1>3, <1>11, <1>14, NewLoopIs DEF Unchanged
  <2>3. Members(config) \subseteq DOMAIN health
    BY DEF IInv, PoolsReadTheMap
  <2>4. DOMAIN tasks' \subseteq DOMAIN health'
    BY <1>2, <1>3, <1>9, <2>1, <2>3
  <2>5. QED
    BY <1>9, <2>1, <2>2, <2>4 DEF ConfigOK
<1>16. HandlesOK'
  <2>1. ASSUME NEW l \in Live', loops'[l].at = "storing"
        PROVE  l \in Live /\ loops'[l] = loops[l]
    <3>1. \A b \in new : l # t[b]
      BY <1>3, <1>5, <2>1, NewLoopIs
    <3>2. QED
      BY <1>7, <1>8, <2>1, <3>1
  <2>2. QED
    BY <1>2, <2>1 DEF HandlesOK
<1>17. StatusOK'
  <2>1. ASSUME NEW b \in (DOMAIN tasks' \cap DOMAIN health) \ late
        PROVE  MapSays(b)'
    <3>1. CASE b \in DOMAIN tasks
      <4>1. MapSays(b)
        BY <2>1, <3>1 DEF StatusOK
      <4>2. QED
        BY <1>2, <1>10, <3>1, <4>1 DEF MapSays
    <3>2. CASE b \in new
      BY <1>3, <1>11, <3>2, NewLoopIs DEF MapSays
    <3>3. QED
      BY <1>9, <2>1, <3>1, <3>2
  <2>2. QED
    BY <1>2, <2>1 DEF StatusOK
<1>18. GaugesOK'
  <2>1. ASSUME NEW p \in Pools, NEW b \in Backends \ late, <<p, b>> \in DOMAIN gauges
        PROVE  GaugeOK(p, b)'
    <3>1. GaugeOK(p, b)
      BY <1>2, <2>1 DEF GaugesOK
    <3>2. CASE b \in DOMAIN tasks
      BY <1>2, <1>9, <1>10, <3>1, <3>2 DEF GaugeOK
    <3>3. CASE b \notin DOMAIN tasks
      <4>1. /\ b \in Members(config) /\ p \in Range(Desired(config, b).pools)
            /\ gauges[<<p, b>>] = Said(status[health[b]])
        BY <3>1, <3>3 DEF GaugeOK
      <4>2. b \in new
        BY <1>4, <3>3, <4>1
      <4>3. QED
        BY <1>2, <1>9, <1>11, <4>1, <4>2, NewLoopIs DEF GaugeOK
    <3>4. QED
      BY <3>2, <3>3
  <2>2. QED
    BY <1>2, <2>1 DEF GaugesOK
<1>19. TypeOK'
  <2>1. held' \in [Members(config)' -> Handles] /\ DOMAIN tasks' \subseteq Backends
    BY <1>2, <1>9, <1>10, <1>11, <1>14 DEF TypeOK
  <2>2. QED
    BY <1>2, <1>12, <2>1 DEF TypeOK, Stages
<1>20. QED
  BY <1>13, <1>15, <1>16, <1>17, <1>18, <1>19


LEMMA VerdictsInit == Init => VerdictsOK
<1> SUFFICES ASSUME Init PROVE VerdictsOK
  OBVIOUS
<1>1. /\ stage = "idle" /\ config = <<>> /\ pending = <<>> /\ held = <<>> /\ built = <<>>
      /\ health = <<>> /\ tasks = <<>> /\ gauges = <<>> /\ late = {}
      /\ status = [h \in Handles |-> "Unknown"] /\ loops = [l \in Loops |-> None]
  BY ConfigsAssumption DEF Init
<1>2. Members(config) = {} /\ Live = {}
  BY <1>1 DEF Members, Live
<1>3. TypeOK
  <2>1. held \in [Members(config) -> Handles]
    BY <1>1, <1>2
  <2>2. status \in [Handles -> Statuses] /\ loops \in [Loops -> LoopRecords \cup {None}]
    BY <1>1 DEF Statuses
  <2>3. /\ built \in [DOMAIN built -> Handles] /\ health \in [DOMAIN health -> Handles]
        /\ tasks \in [DOMAIN tasks -> Live] /\ gauges \in [DOMAIN gauges -> Gauge]
        /\ DOMAIN health = {} /\ DOMAIN tasks = {} /\ DOMAIN gauges = {}
    BY <1>1
  <2>4. QED
    BY <1>1, <2>1, <2>2, <2>3, ConfigsAssumption DEF TypeOK, Stages
<1>4. DOMAIN tasks = {} /\ DOMAIN gauges = {}
  BY <1>1
<1>5. LoopsOK /\ ConfigOK /\ HandlesOK /\ StatusOK /\ GaugesOK
  BY <1>2, <1>4 DEF LoopsOK, ConfigOK, HandlesOK, StatusOK, GaugesOK
<1>6. QED
  BY <1>3, <1>5, MapInit DEF VerdictsOK

LEMMA VerdictsStep ==
  ASSUME DesiredFits, VerdictsOK, [Next]_vars
  PROVE  VerdictsOK'
<1>1. IInv'
  BY MapStep DEF VerdictsOK
<1>2. CASE Reload
  <2> SUFFICES TypeOK' /\ LoopsOK' /\ ConfigOK' /\ HandlesOK' /\ StatusOK' /\ GaugesOK'
    BY <1>1 DEF VerdictsOK
  <2>1. CASE \E c \in Configs : Prepare(c)
    BY <2>1, PrepareSays, Zenon
  <2>2. CASE Reject \/ Swap
    BY <2>2, RejectSays, SwapSays, Zenon
  <2>3. CASE Retain \/ StopAll
    BY <2>3, RetainSays, StopAllSays, Zenon
  <2>4. CASE StopProbes \/ StartProbes
    BY <2>4, StopProbesSays, StartProbesSays, Zenon
  <2>5. QED
    BY <1>2, <2>1, <2>2, <2>3, <2>4, Zenon DEF Reload
<1>3. CASE \E l \in Loops : RunProbe(l)
  BY <1>3, ProbesSay
<1>4. CASE UNCHANGED vars
  <2>1. UNCHANGED <<stage, config, pending, held, built, health, status, tasks, loops, gauges, late>>
    BY <1>4 DEF vars, reload_vars
  <2>2. Live' = Live /\ Members(config)' = Members(config)
    BY <2>1 DEF Live, Members
  <2>3. TypeOK'
    BY <2>1, <2>2 DEF VerdictsOK, TypeOK
  <2>4. LoopsOK' /\ HandlesOK'
    BY <2>1, <2>2 DEF VerdictsOK, LoopsOK, HandlesOK, Waiting
  <2>5. ConfigOK'
    BY <2>1, UnchangedKept DEF VerdictsOK, ConfigOK
  <2>6. StatusOK'
    BY <2>1 DEF VerdictsOK, StatusOK, MapSays
  <2>7. \A p, b : GaugeOK(p, b)' <=> GaugeOK(p, b)
    BY <2>1, GaugeStays, Zenon
  <2>8. GaugesOK'
    BY <2>1, <2>7, Zenon DEF VerdictsOK, GaugesOK
  <2>9. QED
    BY <1>1, <2>3, <2>4, <2>5, <2>6, <2>8, Zenon DEF VerdictsOK
<1>5. QED
  BY <1>2, <1>3, <1>4 DEF Next

LEMMA VerdictsSeen ==
  ASSUME DesiredFits, VerdictsOK
  PROVE  VerdictsAreSeen
<1>1. TypeOK /\ \A b \in DOMAIN held : b \in DOMAIN health /\ health[b] = held[b]
  BY DEF VerdictsOK, IInv, PoolsReadTheMap
<1>2. RunningLoopDecides
  <2>1. ASSUME NEW b \in DOMAIN tasks \cap DOMAIN held, HasDecided(b), b \notin late
        PROVE  Obeyed(b)
    <3>1. MapSays(b)
      BY <1>1, <2>1 DEF VerdictsOK, StatusOK
    <3>2. QED
      BY <1>1, <2>1, <3>1 DEF MapSays, HasDecided, Obeyed, Waiting
  <2>2. QED
    BY <2>1 DEF RunningLoopDecides
<1>3. ASSUME stage = "idle", NEW p \in Pools, NEW b \in Backends, <<p, b>> \in DOMAIN gauges, b \notin late,
             b \in DOMAIN tasks => Waiting(tasks[b])
      PROVE  Serves(p, b) /\ gauges[<<p, b>>] = Said(status[held[b]])
  <2>1. GaugeOK(p, b)
    BY <1>3 DEF VerdictsOK, GaugesOK
  <2>2. b \in DOMAIN tasks
    BY <1>3, <2>1 DEF GaugeOK
  <2>3. Unchanged(b)
    BY <1>3, <2>2 DEF VerdictsOK, ConfigOK
  <2>4. b \in Members(config) /\ p \in Range(Desired(config, b).pools)
    BY <2>1, <2>2, <2>3 DEF GaugeOK, Unchanged
  <2>5. Serves(p, b)
    BY <1>1, <2>4, Zenon DEF DesiredFits, Serves, TypeOK
  <2>6. b \in DOMAIN held
    BY <2>4 DEF VerdictsOK, IInv
  <2>7. QED
    BY <1>1, <1>3, <2>1, <2>2, <2>5, <2>6 DEF GaugeOK, Waiting
<1>4. GaugesTellTheHealth
  BY <1>3 DEF GaugesTellTheHealth
<1>5. QED
  BY <1>1, <1>2, <1>4 DEF VerdictsAreSeen

-----------------------------------------------------------------------------
(* The pools of a backend in the order of the config.                      *)
INSTANCE FiniteSetTheorems
INSTANCE WellFoundedInduction

LEMMA Least ==
  ASSUME NEW T \in SUBSET Nat, T # {}
  PROVE  \E n \in T : \A m \in T : n <= m
<1>1. PICK n \in T : \A m \in T : <<m, n>> \notin OpToRel(<, Nat)
  BY NatLessThanWellFounded, WFMin, Zenon
<1>2. \A m \in T : ~(m < n)
  BY <1>1, Zenon DEF OpToRel
<1>3. QED
  BY <1>2

Ascending(S, s) ==
  s \in [1..Cardinality(S) -> S] /\ \A j, k \in 1..Cardinality(S) : j < k => s[j] < s[k]

(* Any finite set of numbers can be put in order: the smallest one that     *)
(* could not would be able to, its least number before the others.         *)
LEMMA OrderExists ==
  ASSUME NEW S \in SUBSET Nat, IsFiniteSet(S)
  PROVE  \E s : Ascending(S, s)
<1> DEFINE Bad == {n \in Nat : \E X \in SUBSET Nat : /\ IsFiniteSet(X) /\ Cardinality(X) = n
                                                     /\ \A s : ~Ascending(X, s)}
<1>1. SUFFICES Bad = {}
  BY <1>1, FS_CardinalityType
<1>2. SUFFICES ASSUME Bad # {} PROVE FALSE
  OBVIOUS
<1>3. PICK n \in Bad : \A m \in Bad : n <= m
  BY <1>2, Least, Zenon
<1>4. PICK X \in SUBSET Nat : IsFiniteSet(X) /\ Cardinality(X) = n /\ \A s : ~Ascending(X, s)
  BY <1>3
<1>5. n \in Nat /\ n # 0
  <2>1. CASE X = {}
    <3>1. Cardinality(X) = 0
      BY <2>1, FS_EmptySet
    <3>2. Ascending(X, [j \in 1..0 |-> j])
      BY <3>1 DEF Ascending
    <3>3. QED
      BY <1>4, <3>2
  <2>2. CASE X # {}
    <3>1. Cardinality(X) # 0
      BY <1>4, <2>2, FS_EmptySet
    <3>2. QED
      BY <1>3, <1>4, <3>1
  <2>3. QED
    BY <2>1, <2>2
<1>6. PICK x \in X : \A y \in X : x <= y
  BY <1>4, <1>5, Least, FS_EmptySet
<1>7. IsFiniteSet(X \ {x}) /\ Cardinality(X \ {x}) = n - 1
  BY <1>4, <1>6, FS_RemoveElement
<1>8. n - 1 \notin Bad /\ n - 1 \in Nat
  BY <1>3, <1>5
<1>9. PICK s : Ascending(X \ {x}, s)
  BY <1>4, <1>7, <1>8
<1> DEFINE r == [k \in 1..n |-> IF k = 1 THEN x ELSE s[k - 1]]
<1>10. ASSUME NEW k \in 1..n, k # 1
       PROVE  r[k] = s[k - 1] /\ k - 1 \in 1..(n - 1) /\ s[k - 1] \in X /\ x < s[k - 1]
  <2>1. k - 1 \in 1..(n - 1) /\ r[k] = s[k - 1]
    BY <1>5, <1>10
  <2>2. s[k - 1] \in X \ {x}
    BY <1>7, <1>9, <2>1, Zenon DEF Ascending
  <2>3. x \in Nat /\ s[k - 1] \in Nat /\ x <= s[k - 1] /\ x # s[k - 1]
    BY <1>4, <1>6, <2>2, Zenon
  <2>4. x < s[k - 1]
    BY <2>3
  <2>5. QED
    BY <2>1, <2>2, <2>4
<1>11. r[1] = x /\ r \in [1..n -> X]
  BY <1>5, <1>6, <1>10
<1>12. ASSUME NEW j \in 1..n, NEW k \in 1..n, j < k
       PROVE  r[j] < r[k]
  <2>1. k # 1
    BY <1>5, <1>12
  <2>2. CASE j = 1
    BY <1>10, <1>11, <2>1, <2>2
  <2>3. CASE j # 1
    <3>1. j - 1 < k - 1
      BY <1>12
    <3>2. s[j - 1] < s[k - 1]
      BY <1>7, <1>9, <1>10, <2>1, <2>3, <3>1, Zenon DEF Ascending
    <3>3. QED
      BY <1>10, <2>1, <2>3, <3>2
  <2>4. QED
    BY <2>2, <2>3
<1>13. Ascending(X, r)
  BY <1>4, <1>11, <1>12 DEF Ascending
<1>14. QED
  BY <1>4, <1>13

LEMMA OrderIs ==
  ASSUME NEW S \in SUBSET Nat, IsFiniteSet(S)
  PROVE  InOrder(S) \in [1..Cardinality(S) -> S]
<1>1. PICK s : Ascending(S, s)
  BY OrderExists
<1>2. s \in [1..Cardinality(S) -> S] /\ \A j, k \in DOMAIN s : j < k => s[j] < s[k]
  BY <1>1 DEF Ascending
<1>3. QED
  BY <1>2, Zenon DEF InOrder

LEMMA DesiredIs ==
  ASSUME NEW c \in Configs, NEW b \in Members(c)
  PROVE  /\ Desired(c, b).check \in Thresholds
         /\ Desired(c, b).pools \in Seq(Pools)
         /\ \A p \in Range(Desired(c, b).pools) : \E i \in DOMAIN c : c[i].id = p /\ b \in c[i].backends
<1> DEFINE S == {i \in DOMAIN c : b \in c[i].backends}
           in == InOrder(S)
           n == Cardinality(S)
<1>1. c \in Seq(CheckedPools) /\ \A i \in DOMAIN c : c[i] \in CheckedPools
  BY ConfigsAssumption
<1>2. Len(c) \in Nat /\ DOMAIN c = 1..Len(c)
  BY <1>1
<1>3. S \in SUBSET Nat /\ IsFiniteSet(S)
  <2>1. IsFiniteSet(1..Len(c))
    BY <1>2, FS_Interval
  <2>2. QED
    BY <1>2, <2>1, FS_Subset
<1>4. S # {}
  BY DEF Members
<1>5. n \in Nat /\ n >= 1
  BY <1>3, <1>4, FS_EmptySet, FS_CardinalityType
<1>6. in \in [1..n -> S] /\ DOMAIN in = 1..n
  BY <1>3, OrderIs, Zenon
<1>7. Desired(c, b) = [check |-> c[in[1]].check, pools |-> [k \in 1..n |-> c[in[k]].id]]
  BY <1>6, Zenon DEF Desired
<1>8. \A k \in 1..n : in[k] \in DOMAIN c /\ b \in c[in[k]].backends /\ c[in[k]].id \in Pools
  BY <1>1, <1>6 DEF CheckedPools
<1> HIDE DEF S, in, n
<1>9. Desired(c, b).check \in Thresholds
  <2>1. in[1] \in DOMAIN c
    BY <1>5, <1>8
  <2>2. c[in[1]] \in CheckedPools
    BY <1>1, <2>1, Zenon
  <2>3. c[in[1]].check \in Thresholds
    BY <2>2 DEF CheckedPools
  <2>4. QED
    BY <1>7, <2>3
<1>10. [k \in 1..n |-> c[in[k]].id] \in Seq(Pools)
  BY <1>5, <1>8, SMTT(30)
<1>11. Desired(c, b).pools = [k \in 1..n |-> c[in[k]].id]
  BY <1>7
<1>12. ASSUME NEW p \in Range(Desired(c, b).pools)
       PROVE  \E i \in DOMAIN c : c[i].id = p /\ b \in c[i].backends
  <2>1. PICK k \in 1..n : c[in[k]].id = p
    BY <1>11, <1>12 DEF Range
  <2>2. QED
    BY <1>8, <2>1, Zenon
<1>13. QED
  BY <1>9, <1>10, <1>11, <1>12, Zenon

(* Once run_probe has committed a verdict and waits for its next probe,    *)
(* the serving pools see that verdict, and between reloads the observer's  *)
(* gauges show it under exactly the pools the backend is in; for every     *)
(* backend none of whose loops was aborted in mid-commit.                  *)
THEOREM VerdictsAreAlwaysSeen == Spec => []VerdictsAreSeen
<1>1. DesiredFits
  BY DesiredIs, Zenon DEF DesiredFits
<1>2. VerdictsOK => VerdictsAreSeen
  BY <1>1, VerdictsSeen
<1>3. VerdictsOK /\ [Next]_vars => VerdictsOK'
  BY <1>1, VerdictsStep
<1>4. QED
  BY <1>2, <1>3, VerdictsInit, PTL DEF Spec
=============================================================================
