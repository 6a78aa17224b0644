------------------------------ MODULE Selection ------------------------------
(***************************************************************************)
(* A pool under concurrent calls of select (lib/load-balancing/src/pool.rs *)
(* 263-293), for every policy, mix of weights and set of healthy backends  *)
(* that can be built.  A caller chooses a backend, and under least_request *)
(* counts itself busy on it in a step of its own: others choose between.   *)
(* Health does not change here; Request reads it anew on every attempt.    *)
(***************************************************************************)
EXTENDS Integers, Sequences, FiniteSets

CONSTANTS
  Selectors,      \* the callers of select
  Weights,        \* the mixes of weights
  Points,         \* Points[b][i]: the ring's i-th point of backend b
  HashKeys,       \* the affinity keys
  Replicas,       \* RING_REPLICAS
  RingLimit,      \* MAX_RING_POINTS
  CounterWidth,   \* the counter wraps there
  MaxPicks        \* bound: the choices made

VARIABLES
  policy, weight, health,   \* of the pool
  counter,                  \* the pool's round-robin counter
  inflight,                 \* the requests each backend is busy with
  choice,                   \* the backend each caller has chosen, or 0
  picks,                    \* history: how often each was chosen
  released                  \* history: whether a request has finished

vars == <<policy, weight, health, counter, inflight, choice, picks, released>>

LB == INSTANCE LoadBalancing
        WITH Weight <- weight, Policy <- policy, Hash <- Points,
             RingReplicas <- Replicas, MaxRingPoints <- RingLimit

ring == IF policy = "RingHash" THEN LB!BuildRing ELSE <<>>

Total == LET Sum[n \in 0..Len(weight)] == IF n = 0 THEN 0 ELSE Sum[n - 1] + picks[n]
         IN Sum[Len(weight)]

(* The counter stays within its width, and a choice is a backend.          *)
TypeOK ==
  /\ counter \in 0..(CounterWidth - 1)
  /\ health \subseteq LB!Backends
  /\ choice \in [Selectors -> LB!Backends \cup {0}]
  /\ \A b \in LB!Backends : inflight[b] \in 0..picks[b]

(* Pool::new, of a pool that builds.                                       *)
Init ==
  /\ policy \in {"RoundRobin", "LeastRequest", "RingHash"}
  /\ weight \in Weights
  /\ health \in SUBSET LB!Backends \ {{}}
  /\ LB!Builds
  /\ counter = 0
  /\ inflight = [b \in LB!Backends |-> 0]
  /\ choice = [c \in Selectors |-> 0]
  /\ picks = [b \in LB!Backends |-> 0]
  /\ released = FALSE

-----------------------------------------------------------------------------
(* The counter is taken by one fetch_add.                                  *)
Choose(c, key) ==
  /\ choice[c] = 0 /\ Total < MaxPicks
  /\ \E b \in LB!Chosen(ring, health, inflight, counter, key) :
       /\ picks' = [picks EXCEPT ![b] = @ + 1]
       /\ choice' = [choice EXCEPT ![c] = IF policy = "LeastRequest" THEN b ELSE 0]
  /\ counter' = IF LB!Rotates(ring, health, key)
                THEN (counter + 1) % CounterWidth ELSE counter
  /\ UNCHANGED <<policy, weight, health, inflight, released>>

(* The guard of least_request.                                             *)
Count(c) ==
  /\ choice[c] # 0
  /\ inflight' = [inflight EXCEPT ![choice[c]] = @ + 1]
  /\ choice' = [choice EXCEPT ![c] = 0]
  /\ UNCHANGED <<policy, weight, health, counter, picks, released>>

(* InflightGuard dropped: a request finishes.                              *)
Release(b) ==
  /\ inflight[b] > 0
  /\ inflight' = [inflight EXCEPT ![b] = @ - 1]
  /\ released' = TRUE
  /\ UNCHANGED <<policy, weight, health, counter, choice, picks>>

Next ==
  \/ \E c \in Selectors : (\E key \in HashKeys : Choose(c, key)) \/ Count(c)
  \/ \E b \in LB!Backends : Release(b)

Spec == Init /\ [][Next]_vars

-----------------------------------------------------------------------------
(* round_robin, uniform weights: however the callers interleave, no        *)
(* healthy backend is chosen more than once oftener than another, but for  *)
(* once each time the counter wraps.                                       *)
EvenRotation ==
  policy = "RoundRobin" /\ LB!UniformWeights =>
    \A a, b \in health : picks[a] - picks[b] <= 1 + (Total \div CounterWidth)

(* least_request: while requests only arrive, callers that choose at the   *)
(* same time overload a backend, for its weight, by at most one request    *)
(* each.                                                                   *)
RacersOverloadByOne ==
  policy = "LeastRequest" /\ ~ released =>
    \A a, b \in health :
      LET w(i) == IF weight[i] = 0 THEN 1 ELSE weight[i]
      IN inflight[b] > 0 =>
           inflight[b] * w(a)
             <= (inflight[a] + 1) * w(b) + (Cardinality(Selectors) - 1) * w(a)

(* ring_pick: when a backend goes, only the keys that were its own move;   *)
(* when it comes back, only those return to it.                            *)
AffinityIsKept ==
  policy = "RingHash" =>
    \A key \in HashKeys, gone \in health :
      LET before == LB!RingWalk(ring, key, health)
          after == LB!RingWalk(ring, key, health \ {gone})
      IN before # <<>> /\ Head(before) # gone => after # <<>> /\ Head(after) = Head(before)

(* weighted_pick: of the draws below the total, each backend is chosen for *)
(* as many as its weight.                                                  *)
SharesAreTheWeights ==
  LET healthy == LB!HealthyIndices(health)
      draws == 0..(LB!TotalWeight(health) - 1)
  IN \A b \in health :
       Cardinality({d \in draws : LB!WeightedPick(healthy, d) = b}) = weight[b]

=============================================================================
