---------------------------- MODULE LoadBalancing -----------------------------
(***************************************************************************)
(* How a pool chooses among its backends (lib/load-balancing/src/pool.rs   *)
(* and policy.rs), as operators on what the choice is made from: health,   *)
(* the set of the selectable backends, load, how many requests each is     *)
(* busy with, and count, what the pool's counter was when it was taken.    *)
(* Backends are the positions 1..n of the pool's list.                     *)
(***************************************************************************)
EXTENDS Integers, Sequences, FiniteSets

LOCAL Sets == INSTANCE FiniteSetsExt

CONSTANTS
  Weight,         \* the weight of each backend, a sequence
  Policy,         \* "RoundRobin", "LeastRequest" or "RingHash"
  Hash,           \* Hash[b][i]: the ring's i-th point of b (hash64)
  RingReplicas,   \* RING_REPLICAS
  MaxRingPoints   \* MAX_RING_POINTS

Backends == DOMAIN Weight

(* The elements of a set in an order that is total on it.                  *)
Sorted(set, Before(_, _)) ==
  [i \in 1..Cardinality(set) |->
     CHOOSE x \in set : Cardinality({y \in set : Before(y, x)}) = i - 1]

TotalWeight(indices) == Sets!MapThenSumSet(LAMBDA b : Weight[b], indices)

UniformWeights == \A b \in Backends : Weight[b] = Weight[1]

(* healthy_indices: in the order of the list.                              *)
HealthyIndices(health) == Sorted(health, <)

(* The backend of the turn, or the next one that is healthy.               *)
RotateSkipping(healthy, count) ==
  LET turn == (count % Len(Weight)) + 1
      later == {b \in Sets!Range(healthy) : b >= turn}
  IN Sets!Min(IF later = {} THEN Sets!Range(healthy) ELSE later)

Rotate(healthy, count) == healthy[(count % Len(healthy)) + 1]

(* A draw that falls on the boundary given to the one before it.           *)
WeightedPickInclusive(candidates, draw) ==
  LET SoFar(i) == TotalWeight({candidates[k] : k \in 1..i})
      reaching == {i \in DOMAIN candidates : draw <= SoFar(i)}
  IN candidates[IF reaching = {} THEN Len(candidates) ELSE Sets!Min(reaching)]

(* The first candidate at which the weights so far exceed the draw, else   *)
(* the last one.                                                           *)
WeightedPick(candidates, draw) ==
  LET SoFar(i) == TotalWeight({candidates[k] : k \in 1..i})
      exceeding == {i \in DOMAIN candidates : draw < SoFar(i)}
  IN candidates[IF exceeding = {} THEN Len(candidates) ELSE Sets!Min(exceeding)]

(* Whether round_robin takes the counter: it does unless it draws.         *)
TakesCounter(healthy) == UniformWeights \/ TotalWeight(Sets!Range(healthy)) = 0

(* What round_robin may choose: the draw is any below the total.           *)
RoundRobin(healthy, count) ==
  IF TakesCounter(healthy)
  THEN {Rotate(healthy, count)}
  ELSE {WeightedPick(healthy, draw) :
          draw \in 0..(TotalWeight(Sets!Range(healthy)) - 1)}

(* The request about to be added left out of the comparison.               *)
LeastRequestSoFar(healthy, load) ==
  LET w(b) == Sets!Max({Weight[b], 1})
      LessBusy(a, b) == load[a] * w(b) < load[b] * w(a)
      least == {i \in DOMAIN healthy :
                  \A k \in DOMAIN healthy : ~ LessBusy(healthy[k], healthy[i])}
  IN healthy[Sets!Min(least)]

(* (load + 1) / max(weight, 1), least, the first of equals: a and b are    *)
(* compared without dividing.                                              *)
LeastRequest(healthy, load) ==
  LET w(b) == Sets!Max({Weight[b], 1})
      LessBusy(a, b) == (load[a] + 1) * w(b) < (load[b] + 1) * w(a)
      least == {i \in DOMAIN healthy :
                  \A k \in DOMAIN healthy : ~ LessBusy(healthy[k], healthy[i])}
  IN healthy[Sets!Min(least)]

(* RingReplicas points for each unit of weight, in the order of the points *)
(* (the sort is stable).                                                   *)
BuildRing ==
  LET points == UNION {{<<Hash[b][i], b, i>> : i \in 1..(RingReplicas * Weight[b])} :
                         b \in Backends}
      Before(x, y) == \/ x[1] < y[1]
                      \/ x[1] = y[1] /\ x[2] < y[2]
                      \/ x[1] = y[1] /\ x[2] = y[2] /\ x[3] < y[3]
  IN Sorted(points, Before)

(* Pool::new refuses a ring that would hold too many points.               *)
Builds == Policy = "RingHash"
            => RingReplicas * TotalWeight(Backends) <= MaxRingPoints

(* A place on a ring of the healthy backends alone, by the key's remainder.*)
RingWalkByRemainder(ring, key, health) ==
  LET left == SelectSeq(ring, LAMBDA point : point[2] \in health)
  IN IF left = <<>> THEN <<>> ELSE <<left[(key % Len(left)) + 1][2]>>

(* The healthy backends met walking the ring once around from the key, in  *)
(* order: ring_pick takes the first, if there is one.                      *)
RingWalk(ring, key, health) ==
  LET start == Cardinality({i \in DOMAIN ring : ring[i][1] < key})
      At(off) == ring[((start + off) % Len(ring)) + 1][2]
  IN IF ring = <<>> THEN <<>>
     ELSE SelectSeq([off \in 1..Len(ring) |-> At(off - 1)],
                    LAMBDA b : b \in health)

(* Whether select takes the counter.                                       *)
Rotates(ring, health, key) ==
  /\ \/ Policy = "RoundRobin"
     \/ Policy = "RingHash" /\ RingWalk(ring, key, health) = <<>>
  /\ TakesCounter(HealthyIndices(health))

(* What select may choose for the affinity key.                            *)
Chosen(ring, health, load, count, key) ==
  LET healthy == HealthyIndices(health)
      walk == RingWalk(ring, key, health)
  IN CASE healthy = <<>> -> {}
       [] healthy # <<>> /\ Policy = "RoundRobin" -> RoundRobin(healthy, count)
       [] healthy # <<>> /\ Policy = "LeastRequest" ->
            {LeastRequest(healthy, load)}
       [] healthy # <<>> /\ Policy = "RingHash" ->
            IF walk = <<>> THEN RoundRobin(healthy, count) ELSE {Head(walk)}
=============================================================================
