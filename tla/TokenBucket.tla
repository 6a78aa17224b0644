----------------------------- MODULE TokenBucket -----------------------------
(***************************************************************************)
(* A cap on how often something happens (`TokenBucket` of                  *)
(* lib/rate-limiting/src/token_bucket.rs), as a pool holds one for its     *)
(* max_requests_per_second, with a burst of a second's worth.              *)
(*                                                                         *)
(* The bucket keeps no clock.  Callers read theirs and then take the lock, *)
(* so a call may present a `now` earlier than one already seen: any order  *)
(* of times is a behaviour of this specification.                          *)
(***************************************************************************)
EXTENDS Level, Sequences, FiniteSets

VARIABLES
  level,     \* the bucket's Level, behind its mutex
  grants     \* history: the bucket's time at each permit granted, in order

vars == <<level, grants>>

(* The bucket holds no less than nothing and no more than its burst:       *)
(* `take` never takes what is not there.                                   *)
TypeOK == level \in Levels /\ grants \in Seq(Nat)

Init ==
  /\ level = FullLevel
  /\ grants = <<>>

(* A `take` that also charges the caller it refuses.                       *)
TryAcquireChargingRefusals(now) ==
  /\ level' = [Take(level, now) EXCEPT !.units = IF CanTake(level, now) THEN @ ELSE 0]
  /\ grants' = IF CanTake(level, now) THEN Append(grants, level'.refilled_at) ELSE grants

(* TokenBucket::try_acquire, under the level's lock.                       *)
TryAcquire(now) ==
  /\ level' = Take(level, now)
  /\ grants' = IF CanTake(level, now) THEN Append(grants, level'.refilled_at) ELSE grants

Next == \E now \in Times : TryAcquire(now)

Spec == Init /\ [][Next]_vars

-----------------------------------------------------------------------------
(* Over any stretch of time, from the i-th permit granted to the j-th, no  *)
(* more is granted than the burst and what that time is worth, whatever    *)
(* the order in which the callers' clocks reach the bucket.                *)
EveryWindow ==
  \A i, j \in 1..Len(grants) : i <= j =>
    (j - i + 1) * TicksPerSecond <= Full + PerSecond * (grants[j] - grants[i])

(* The permits granted in the second up to the bucket's time t.            *)
WithinSecondBefore(t) == {i \in 1..Len(grants) : grants[i] + TicksPerSecond > t}

(* A caller is refused only if a second's worth was granted within the     *)
(* last second (a burst, if that is less): what spec.md says of a request  *)
(* answered 429, "their pool had admitted max_requests_per_second requests *)
(* within the last second".                                                *)
RefusedOnlyAtTheRate ==
  \A now \in Times :
    ~CanTake(level, now) =>
      Cardinality(WithinSecondBefore(Refill(level, now).refilled_at))
        >= AtMost(Burst, PerSecond)

(* PoolSpec::max_requests_per_second as documented: "The most requests the *)
(* pool admits a second, measured over any one second".                    *)
AtMostTheRateInAnySecond ==
  \A j \in 1..Len(grants) :
    Cardinality({i \in 1..j : grants[i] + TicksPerSecond > grants[j]}) <= PerSecond

=============================================================================
