---------------------------- MODULE KeyedBuckets -----------------------------
(***************************************************************************)
(* A token bucket per key, for as many keys as the table is sized for      *)
(* (lib/rate-limiting/src/keyed_buckets.rs).  The listeners use one, keyed *)
(* by peer address, for connections_per_peer.                              *)
(*                                                                         *)
(* `ideal` is history: the buckets of a table with room for every key, as  *)
(* the same counted calls would leave them.  Calls present their times in  *)
(* order; callers whose clocks overtake each other on the way to the lock  *)
(* are the business of TokenBucket.                                        *)
(***************************************************************************)
EXTENDS Level, FiniteSets, Functions

CONSTANTS
  Keys,
  Capacity,        \* the most keys remembered at once
  SweepInterval    \* SWEEP_INTERVAL, in ticks

TableAssumption == Capacity \in Nat \ {0} /\ SweepInterval \in Nat

VARIABLES
  levels,      \* the keys remembered, and the level of each
  swept_at,    \* when keys to forget were last looked for
  untracked,   \* how many calls were let through without being counted
  ideal,       \* history: each key's bucket, had nothing been forgotten
  latest       \* history: the time of the last call

vars == <<levels, swept_at, untracked, ideal, latest>>

Tracked == DOMAIN levels

(* Every bucket of the table holds between nothing and its burst.          *)
TypeOK ==
  /\ Tracked \subseteq Keys
  /\ levels \in [Tracked -> Levels]
  /\ swept_at \in Nat \cup {Never}
  /\ untracked \in Nat
  /\ ideal \in [Keys -> Levels]
  /\ latest \in Nat

Init ==
  /\ levels = [k \in {} |-> FullLevel]
  /\ swept_at = Never
  /\ untracked = 0
  /\ ideal = [k \in Keys |-> FullLevel]
  /\ latest = 0

-----------------------------------------------------------------------------
LookedRecently(now) == swept_at # Never /\ now - swept_at < SweepInterval

Refilled(now) == [k \in Tracked |-> Refill(levels[k], now)]

(* A sweep that forgets a key as soon as it can take a permit again.       *)
ForgetIdleTooEarly(now) ==
  IF LookedRecently(now)
  THEN levels
  ELSE Restrict(Refilled(now), {k \in Tracked : Refilled(now)[k].units < TicksPerSecond})

(* A sweep that is not repeated.                                           *)
ForgetIdleOnce(now) ==
  IF swept_at # Never
  THEN levels
  ELSE Restrict(Refilled(now), {k \in Tracked : ~IsFull(Refilled(now)[k])})

(* What forget_idle leaves of the levels.                                  *)
ForgetIdle(now) ==
  IF LookedRecently(now)
  THEN levels
  ELSE Restrict(Refilled(now), {k \in Tracked : ~IsFull(Refilled(now)[k])})

TakeTracked(key, now) ==
  /\ key \in Tracked
  /\ levels' = [levels EXCEPT ![key] = Take(@, now)]
  /\ ideal' = [ideal EXCEPT ![key] = Take(@, now)]
  /\ UNCHANGED <<swept_at, untracked>>

(* A newcomer that is given a place the table does not have.               *)
TakeNewAnyway(key, now) ==
  /\ key \notin Tracked
  /\ levels' = [k \in Tracked \cup {key} |->
                  IF k = key THEN Take(FullLevel, now) ELSE levels[k]]
  /\ ideal' = [ideal EXCEPT ![key] = Take(@, now)]
  /\ UNCHANGED <<swept_at, untracked>>

(* A key the table does not remember: a full table looks for keys to       *)
(* forget, and without room for the key the call is let through uncounted. *)
TakeNew(key, now) ==
  LET full == Cardinality(Tracked) >= Capacity
      kept == IF full THEN ForgetIdle(now) ELSE levels
  IN  /\ key \notin Tracked
      /\ swept_at' = IF full /\ ~LookedRecently(now) THEN now ELSE swept_at
      /\ \/ /\ Cardinality(DOMAIN kept) >= Capacity
            /\ levels' = kept
            /\ untracked' = untracked + 1
            /\ UNCHANGED ideal
         \/ /\ Cardinality(DOMAIN kept) < Capacity
            /\ levels' = [k \in DOMAIN kept \cup {key} |->
                            IF k = key THEN Take(FullLevel, now) ELSE kept[k]]
            /\ ideal' = [ideal EXCEPT ![key] = Take(@, now)]
            /\ UNCHANGED untracked

TryAcquire(key, now) ==
  /\ now >= latest
  /\ latest' = now
  /\ TakeTracked(key, now) \/ TakeNew(key, now)

Next == \E key \in Keys, now \in Times : TryAcquire(key, now)

Spec == Init /\ [][Next]_vars

-----------------------------------------------------------------------------
(* "The table remembers a key for as long as remembering it makes a        *)
(* difference": from now on every key, remembered or forgotten, finds in   *)
(* the table what a bucket of its own would hold for it.                   *)
RemembersWhatMatters ==
  \A k \in Keys, now \in Times :
    now >= latest =>
      Refill(IF k \in Tracked THEN levels[k] ELSE FullLevel, now).units
        = Refill(ideal[k], now).units

(* No more keys are remembered than the table was sized for.               *)
WithinCapacity == Cardinality(Tracked) <= Capacity

(* A call is let through uncounted only if no key of the table was idle    *)
(* (full again) a SWEEP_INTERVAL before: sweeping rarely never keeps the   *)
(* place of an idle key from a newcomer for longer than that.              *)
UncountedOnlyWhenFull ==
  [][ untracked' > untracked =>
        \A k \in Tracked' : ~IsFull(Refill(levels'[k], latest' - SweepInterval)) ]_vars

=============================================================================
