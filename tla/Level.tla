-------------------------------- MODULE Level --------------------------------
(***************************************************************************)
(* What a token bucket holds, and as of when: the arithmetic of `Level` in *)
(* lib/rate-limiting/src/token_bucket.rs, shared by the single bucket and  *)
(* by the table of buckets.                                                *)
(*                                                                         *)
(* Time counts in ticks (the code's nanoseconds).  A tick earns PerSecond  *)
(* units and a permit costs TicksPerSecond units, as a second earns        *)
(* PerSecond permits (UNITS_PER_PERMIT: a billion of each).  The code's    *)
(* u128 sum that does not fit a u64 is above a full level, so replacing it *)
(* by a full level is the minimum taken here.                              *)
(***************************************************************************)
EXTENDS Integers

CONSTANTS
  PerSecond,        \* permits earned per second
  Burst,            \* the most permits held
  TicksPerSecond,   \* UNITS_PER_PERMIT, and the ticks of a second
  Never,            \* `refilled_at: None`
  Times             \* the times a caller may present

ASSUME RateAssumption ==
  /\ PerSecond \in Nat \ {0}
  /\ Burst \in Nat \ {0}
  /\ TicksPerSecond \in Nat \ {0}
ASSUME NeverAssumption == Never \notin Nat
ASSUME TimesAssumption == Times \subseteq Nat

Full == Burst * TicksPerSecond

Levels == [units : 0..Full, refilled_at : Nat \cup {Never}]

AtMost(a, b) == IF a <= b THEN a ELSE b

FullLevel == [units |-> Full, refilled_at |-> Never]

(* `now.saturating_duration_since`, zero for a level never asked.          *)
Elapsed(level, now) ==
  IF level.refilled_at = Never \/ now < level.refilled_at
  THEN 0
  ELSE now - level.refilled_at

(* A refill whose clock follows every caller, as `Some(now)` would.        *)
RefillMovingBack(level, now) ==
  [units       |-> AtMost(level.units + PerSecond * Elapsed(level, now), Full),
   refilled_at |-> now]

(* Time moves only forward; what it earns is capped.                       *)
Refill(level, now) ==
  [units       |-> AtMost(level.units + PerSecond * Elapsed(level, now), Full),
   refilled_at |-> IF level.refilled_at = Never \/ now > level.refilled_at
                   THEN now
                   ELSE level.refilled_at]

(* `take`: whether it gives a permit, and the level it leaves.             *)
CanTake(level, now) == Refill(level, now).units >= TicksPerSecond

Take(level, now) ==
  LET refilled == Refill(level, now)
  IN  [refilled EXCEPT !.units = IF @ >= TicksPerSecond THEN @ - TicksPerSecond ELSE @]

(* Every permit this level could hold is there, as of its last refill.     *)
IsFull(level) == level.units = Full

=============================================================================
