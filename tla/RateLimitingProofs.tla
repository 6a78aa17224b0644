------------------------- MODULE RateLimitingProofs -------------------------
(***************************************************************************)
(* The two limits of lib/rate-limiting.  For any cap and any finite set of *)
(* callers, ConcurrencyLimit never grants more than its cap; for every     *)
(* rate, burst and set of times, and for callers whose clocks reach the    *)
(* bucket in any order, TokenBucket grants over no stretch of time more    *)
(* than its burst and what the stretch is worth.                           *)
(***************************************************************************)
EXTENDS ConcurrencyLimit, Level, Sequences, FiniteSetTheorems, TLAPS

VARIABLES level, grants
Bucket == INSTANCE TokenBucket

-----------------------------------------------------------------------------
(* The cap alone is not inductive: an attempt is granted on the strength of *)
(* the counter, so the counter must be known to cover the holders.          *)
IInv == TypeOK /\ CountIsExact /\ NeverOverAdmitted

(* The sets of callers counted and holding are finite, and the holders are  *)
(* among the counted.                                                       *)
LEMMA CountsAreFinite ==
  ASSUME TypeOK
  PROVE  /\ IsFiniteSet(Counted) /\ Cardinality(Counted) \in Nat
         /\ IsFiniteSet(Holders) /\ Cardinality(Holders) \in Nat
         /\ Cardinality(Holders) <= Cardinality(Counted)
<1>1. Counted \in SUBSET Callers /\ Holders \in SUBSET Counted
  BY DEF Counted, Holders
<1>2. IsFiniteSet(Counted)
  BY <1>1, CallersAssumption, FS_Subset
<1>3. IsFiniteSet(Holders) /\ Cardinality(Holders) <= Cardinality(Counted)
  BY <1>1, <1>2, FS_Subset
<1> QED
  BY <1>2, <1>3, FS_CardinalityType

(* An attempt counts one more, whatever it is answered; it adds a holder    *)
(* only if it found fewer than Max counted.                                 *)
LEMMA TryAcquireKeeps ==
  ASSUME IInv, NEW c \in Callers, TryAcquire(c)
  PROVE  IInv'
<1> USE DEF IInv
<1>1. TypeOK'
  BY DEF TypeOK, TryAcquire, PermitStates
<1>2. c \notin Counted /\ c \notin Holders /\ Counted' = Counted \cup {c}
  BY DEF TypeOK, TryAcquire, Counted, Holders
<1>3. Cardinality(Counted') = Cardinality(Counted) + 1
  BY <1>2, CountsAreFinite, FS_AddElement, Zenon
<1>4. CountIsExact'
  BY <1>3 DEF CountIsExact, TryAcquire
<1>5. NeverOverAdmitted'
  <2> SUFFICES ASSUME Max # NoMax
               PROVE  Cardinality(Holders') <= Max
    BY DEF NeverOverAdmitted
  <2>1. CASE Reached
    <3>1. Holders' = Holders
      BY <2>1 DEF TypeOK, TryAcquire, Holders
    <3> QED
      BY <3>1 DEF NeverOverAdmitted
  <2>2. CASE ~Reached
    <3>1. Holders' = Holders \cup {c}
      BY <2>2 DEF TypeOK, TryAcquire, Holders
    <3>2. Cardinality(Holders') = Cardinality(Holders) + 1
      BY <3>1, <1>2, CountsAreFinite, FS_AddElement, Zenon
    <3>3. Cardinality(Counted) < Max
      BY <2>2, MaxAssumption, CountsAreFinite DEF Reached, CountIsExact, TypeOK
    <3> QED
      BY <3>2, <3>3, MaxAssumption, CountsAreFinite
  <2> QED
    BY <2>1, <2>2
<1> QED
  BY <1>1, <1>4, <1>5

(* A permit dropped, held or refused, is counted out once.                  *)
LEMMA DropPermitKeeps ==
  ASSUME IInv, NEW c \in Callers, DropPermit(c)
  PROVE  IInv'
<1> USE DEF IInv
<1>1. c \in Counted /\ Counted' = Counted \ {c}
  BY DEF TypeOK, DropPermit, Counted
<1>2. /\ Cardinality(Counted') = Cardinality(Counted) - 1
      /\ Cardinality(Counted') \in Nat
  BY <1>1, CountsAreFinite, FS_RemoveElement, FS_CardinalityType
<1>3. CountIsExact'
  BY <1>2 DEF CountIsExact, DropPermit
<1>4. TypeOK'
  BY <1>2, <1>3 DEF TypeOK, DropPermit, PermitStates, CountIsExact
<1>5. Holders' \in SUBSET Holders
  BY DEF TypeOK, DropPermit, Holders
<1>6. Cardinality(Holders') <= Cardinality(Holders) /\ Cardinality(Holders') \in Nat
  BY <1>5, CountsAreFinite, FS_Subset, FS_CardinalityType
<1>7. NeverOverAdmitted'
  BY <1>6, MaxAssumption, CountsAreFinite DEF NeverOverAdmitted
<1> QED
  BY <1>3, <1>4, <1>7

(* Whatever the cap and the callers, the counter is exact and no more than  *)
(* Max permits are held in any state `try_acquire` and `Permit::drop` reach.*)
THEOREM LimitIsNeverExceeded == Spec => [](TypeOK /\ NeverOverAdmitted /\ CountIsExact)
<1>1. Init => IInv
  <2> SUFFICES ASSUME Init PROVE IInv
    OBVIOUS
  <2>1. Counted = {} /\ Holders = {}
    BY DEF Init, Counted, Holders
  <2> QED
    BY <2>1, FS_EmptySet, MaxAssumption
       DEF Init, IInv, TypeOK, PermitStates, CountIsExact, NeverOverAdmitted
<1>2. IInv /\ [Next]_vars => IInv'
  <2> SUFFICES ASSUME IInv, [Next]_vars PROVE IInv'
    OBVIOUS
  <2>1. ASSUME NEW c \in Callers, TryAcquire(c) PROVE IInv'
    BY <2>1, TryAcquireKeeps
  <2>2. ASSUME NEW c \in Callers, DropPermit(c) PROVE IInv'
    BY <2>2, DropPermitKeeps
  <2>3. CASE UNCHANGED vars
    BY <2>3 DEF vars, IInv, TypeOK, CountIsExact, NeverOverAdmitted, Counted, Holders
  <2> QED
    BY <2>1, <2>2, <2>3 DEF Next
<1>3. IInv => TypeOK /\ NeverOverAdmitted /\ CountIsExact
  BY DEF IInv
<1> QED
  BY <1>1, <1>2, <1>3, PTL DEF Spec

-----------------------------------------------------------------------------
(* Multiplication, for a prover that knows it for constants only.          *)
LEMMA Products ==
  /\ Bucket!Full \in Nat
  /\ \A n \in Nat : PerSecond * n \in Nat
  /\ \A m, n \in Int : PerSecond * (m + n) = PerSecond * m + PerSecond * n
  /\ \A n \in Int : (n + 1) * TicksPerSecond = n * TicksPerSecond + TicksPerSecond
  /\ \A n \in Int : n * TicksPerSecond \in Int
  /\ \A n \in Int : PerSecond * n \in Int
  /\ PerSecond * 0 = 0
  /\ 1 * TicksPerSecond = TicksPerSecond
  /\ Bucket!Full >= TicksPerSecond
<1>1. PerSecond \in Nat /\ Burst \in Nat /\ TicksPerSecond \in Nat /\ Burst >= 1
  BY RateAssumption
<1>2. Burst * TicksPerSecond >= TicksPerSecond
  BY <1>1, RateAssumption, SMT
<1>3. \A n \in Nat : PerSecond * n \in Nat
  BY <1>1, SMT
<1>4. \A m, n \in Int : PerSecond * (m + n) = PerSecond * m + PerSecond * n
  BY <1>1, SMT
<1>5. \A n \in Int : (n + 1) * TicksPerSecond = n * TicksPerSecond + TicksPerSecond
  BY <1>1, SMT
<1>6. \A n \in Int : n * TicksPerSecond \in Int /\ PerSecond * n \in Int
  BY <1>1, SMT
<1> QED
  BY <1>1, <1>2, <1>3, <1>4, <1>5, <1>6, SMT DEF Bucket!Full

(* What a refill leaves: a level that is no fuller than a full one, whose  *)
(* time has not gone back, and that earned at most what the time is worth. *)
LEMMA RefillEarns ==
  ASSUME NEW l \in Bucket!Levels, NEW now \in Nat
  PROVE  /\ Bucket!Refill(l, now) \in Bucket!Levels
         /\ Bucket!Refill(l, now).refilled_at \in Nat
         /\ l.refilled_at # Never =>
              /\ Bucket!Refill(l, now).refilled_at >= l.refilled_at
              /\ Bucket!Refill(l, now).units
                   <= l.units + PerSecond * (Bucket!Refill(l, now).refilled_at - l.refilled_at)
<1> DEFINE e == Bucket!Elapsed(l, now)
<1>1. l.units \in 0..Bucket!Full /\ l.refilled_at \in Nat \cup {Never}
  BY DEF Bucket!Levels
<1>2. e \in Nat
  BY <1>1, NeverAssumption DEF Bucket!Elapsed
<1>3. PerSecond * e \in Nat /\ Bucket!Full \in Nat
  BY <1>2, Products
<1>4. Bucket!AtMost(l.units + PerSecond * e, Bucket!Full) \in 0..Bucket!Full
  BY <1>1, <1>3 DEF Bucket!AtMost
<1>5. Bucket!Refill(l, now) \in Bucket!Levels /\ Bucket!Refill(l, now).refilled_at \in Nat
  BY <1>1, <1>4, NeverAssumption DEF Bucket!Refill, Bucket!Levels
<1>6. ASSUME l.refilled_at # Never
      PROVE  /\ Bucket!Refill(l, now).refilled_at >= l.refilled_at
             /\ e = Bucket!Refill(l, now).refilled_at - l.refilled_at
  BY <1>1, <1>6, NeverAssumption DEF Bucket!Refill, Bucket!Elapsed
<1>7. Bucket!Refill(l, now).units <= l.units + PerSecond * e
  <2>1. Bucket!Refill(l, now).units = Bucket!AtMost(l.units + PerSecond * e, Bucket!Full)
    BY DEF Bucket!Refill
  <2> QED BY <1>1, <1>3, <2>1 DEF Bucket!AtMost
<1> QED
  BY <1>5, <1>6, <1>7

-----------------------------------------------------------------------------
(* What is left of the burst and of the time since the i-th grant, were    *)
(* nothing more granted: the permits from the i-th on and the units still  *)
(* held are together worth at most that.                                   *)
Owed(i) == (Len(grants) - i + 1) * TicksPerSecond + level.units

BucketInv ==
  /\ Bucket!TypeOK
  /\ Len(grants) > 0 => level.refilled_at # Never
  /\ \A i \in 1..Len(grants) :
       /\ grants[i] <= level.refilled_at
       /\ Owed(i) <= Bucket!Full + PerSecond * (level.refilled_at - grants[i])
  /\ Bucket!EveryWindow

LEMMA BucketKeeps ==
  ASSUME BucketInv, NEW now \in Times, Bucket!TryAcquire(now)
  PROVE  BucketInv'
<1> DEFINE r == Bucket!Refill(level, now)
           n == Len(grants)
<1>1. now \in Nat
  BY TimesAssumption
<1>2. level \in Bucket!Levels /\ grants \in Seq(Nat) /\ n \in Nat
  BY DEF BucketInv, Bucket!TypeOK
<1>3. /\ r \in Bucket!Levels /\ r.refilled_at \in Nat /\ r.units \in 0..Bucket!Full
      /\ n > 0 => /\ level.refilled_at \in Nat
                  /\ r.refilled_at >= level.refilled_at
                  /\ r.units <= level.units + PerSecond * (r.refilled_at - level.refilled_at)
  <2>1. r \in Bucket!Levels /\ r.refilled_at \in Nat
    BY <1>1, <1>2, RefillEarns
  <2>2. level.refilled_at # Never =>
          /\ r.refilled_at >= level.refilled_at
          /\ r.units <= level.units + PerSecond * (r.refilled_at - level.refilled_at)
    BY <1>1, <1>2, RefillEarns, Zenon
  <2>3. level.refilled_at \in Nat \cup {Never} /\ r.units \in 0..Bucket!Full
    BY <2>1, <1>2 DEF Bucket!Levels
  <2> QED BY <2>1, <2>2, <2>3 DEF BucketInv
<1>4. \A i \in 1..n : /\ grants[i] \in Nat
                      /\ grants[i] <= r.refilled_at
                      /\ (n - i + 1) * TicksPerSecond + r.units
                           <= Bucket!Full + PerSecond * (r.refilled_at - grants[i])
  <2> SUFFICES ASSUME NEW i \in 1..n
               PROVE  /\ grants[i] \in Nat
                      /\ grants[i] <= r.refilled_at
                      /\ (n - i + 1) * TicksPerSecond + r.units
                           <= Bucket!Full + PerSecond * (r.refilled_at - grants[i])
    OBVIOUS
  <2>1. grants[i] \in Nat /\ n > 0
    BY <1>2
  <2>2. /\ grants[i] <= level.refilled_at
        /\ (n - i + 1) * TicksPerSecond + level.units
             <= Bucket!Full + PerSecond * (level.refilled_at - grants[i])
    BY DEF BucketInv, Owed
  <2>3. PerSecond * (r.refilled_at - grants[i])
          = PerSecond * (r.refilled_at - level.refilled_at)
            + PerSecond * (level.refilled_at - grants[i])
    <3>1. r.refilled_at - level.refilled_at \in Int /\ level.refilled_at - grants[i] \in Int
      BY <1>3, <2>1
    <3>2. r.refilled_at - grants[i]
            = (r.refilled_at - level.refilled_at) + (level.refilled_at - grants[i])
      BY <1>3, <2>1
    <3> QED BY <3>1, <3>2, Products
  <2>4. /\ (n - i + 1) * TicksPerSecond \in Int
        /\ PerSecond * (r.refilled_at - level.refilled_at) \in Int
        /\ PerSecond * (level.refilled_at - grants[i]) \in Int
        /\ level.units \in Int /\ Bucket!Full \in Int
    <3> HIDE DEF r, n
    <3>1. n - i + 1 \in Int /\ r.refilled_at - level.refilled_at \in Int
            /\ level.refilled_at - grants[i] \in Int
      BY <1>2, <1>3, <2>1
    <3>2. level.units \in Int
      BY <1>2, Products DEF Bucket!Levels
    <3> QED BY <3>1, <3>2, Products
  <2>5. grants[i] <= r.refilled_at
    BY <1>3, <2>1, <2>2
  <2>6. (n - i + 1) * TicksPerSecond + r.units
          <= Bucket!Full + PerSecond * (r.refilled_at - grants[i])
    <3> HIDE DEF r, n
    <3> QED BY <1>3, <2>1, <2>2, <2>3, <2>4
  <2> QED BY <2>1, <2>5, <2>6
<1>5. CASE ~Bucket!CanTake(level, now)
  <2>1. level' = r /\ grants' = grants
    BY <1>3, <1>5 DEF Bucket!TryAcquire, Bucket!Take, Bucket!CanTake, Bucket!Levels
  <2>2. Bucket!TypeOK'
    BY <1>2, <1>3, <2>1 DEF Bucket!TypeOK
  <2>3. (Len(grants) > 0 => level.refilled_at # Never)'
    BY <1>3, <2>1, NeverAssumption
  <2>4. (\A i \in 1..Len(grants) :
          /\ grants[i] <= level.refilled_at
          /\ Owed(i) <= Bucket!Full + PerSecond * (level.refilled_at - grants[i]))'
    BY <1>4, <2>1 DEF Owed
  <2>5. Bucket!EveryWindow'
    BY <2>1 DEF BucketInv, Bucket!EveryWindow
  <2> QED BY <2>2, <2>3, <2>4, <2>5 DEF BucketInv
<1>6. CASE Bucket!CanTake(level, now)
  <2>1. /\ level' = [r EXCEPT !.units = r.units - TicksPerSecond]
        /\ grants' = Append(grants, r.refilled_at)
        /\ r.units >= TicksPerSecond
    BY <1>3, <1>6 DEF Bucket!TryAcquire, Bucket!Take, Bucket!CanTake, Bucket!Levels
  <2>2. /\ level'.units = r.units - TicksPerSecond
        /\ level'.refilled_at = r.refilled_at
        /\ level' \in Bucket!Levels
    <3>1. r.units - TicksPerSecond \in 0..Bucket!Full
      <4>1. Bucket!Full \in Nat
        BY Products
      <4>2. TicksPerSecond \in Nat /\ r.units \in 0..Bucket!Full /\ r.units >= TicksPerSecond
        BY <1>3, <2>1, RateAssumption
      <4> HIDE DEF r
      <4> QED BY <4>1, <4>2
    <3> HIDE DEF r
    <3> QED BY <1>3, <2>1, <3>1 DEF Bucket!Levels
  <2>3. /\ grants' \in Seq(Nat) /\ Len(grants') = n + 1
        /\ \A i \in 1..n : grants'[i] = grants[i]
        /\ grants'[n + 1] = r.refilled_at
    BY <1>2, <1>3, <2>1
  <2>4. Bucket!TypeOK'
    BY <2>2, <2>3 DEF Bucket!TypeOK
  <2>5. level'.refilled_at # Never
    BY <1>3, <2>2, NeverAssumption
  <2>6. ASSUME NEW i \in 1..(n + 1)
        PROVE  /\ grants'[i] <= r.refilled_at
               /\ (n + 1 - i + 1) * TicksPerSecond
                    <= Bucket!Full + PerSecond * (r.refilled_at - grants'[i])
               /\ (n + 1 - i + 1) * TicksPerSecond + level'.units
                    <= Bucket!Full + PerSecond * (r.refilled_at - grants'[i])
    <3>1. CASE i = n + 1
      <4>1. n + 1 - i + 1 = 1 /\ r.refilled_at - grants'[i] = 0
        BY <1>2, <1>3, <2>3, <3>1
      <4>2. grants'[i] <= r.refilled_at
        BY <1>3, <2>3, <3>1
      <4>3. 1 * TicksPerSecond = TicksPerSecond /\ PerSecond * 0 = 0 /\ Bucket!Full >= TicksPerSecond
            /\ Bucket!Full \in Nat /\ TicksPerSecond \in Nat
        BY Products, RateAssumption
      <4>4. level'.units = r.units - TicksPerSecond /\ r.units \in 0..Bucket!Full
        BY <1>3, <2>2
      <4> HIDE DEF r, n
      <4> QED BY <4>1, <4>2, <4>3, <4>4
    <3>2. CASE i \in 1..n
      <4>1. grants'[i] = grants[i]
        BY <2>3, <3>2
      <4>2. (n + 1 - i + 1) * TicksPerSecond = (n - i + 1) * TicksPerSecond + TicksPerSecond
        <5>1. n + 1 - i + 1 = (n - i + 1) + 1 /\ n - i + 1 \in Int
          BY <1>2, <3>2
        <5> QED BY <5>1, Products
      <4>3. (n - i + 1) * TicksPerSecond \in Int /\ TicksPerSecond \in Nat
            /\ PerSecond * (r.refilled_at - grants[i]) \in Int /\ Bucket!Full \in Nat
        <5>1. n - i + 1 \in Int /\ r.refilled_at - grants[i] \in Int
          BY <1>2, <1>3, <1>4, <3>2
        <5> QED BY <5>1, Products, RateAssumption
      <4>4. level'.units = r.units - TicksPerSecond /\ r.units \in Int /\ r.units >= TicksPerSecond
        BY <1>3, <2>1, <2>2, <4>3
      <4>5. /\ grants[i] <= r.refilled_at
            /\ (n - i + 1) * TicksPerSecond + r.units
                 <= Bucket!Full + PerSecond * (r.refilled_at - grants[i])
        BY <1>4, <3>2
      <4> DEFINE a == (n - i + 1) * TicksPerSecond
                 b == PerSecond * (r.refilled_at - grants[i])
      <4>6. /\ a + TicksPerSecond <= Bucket!Full + b
            /\ a + TicksPerSecond + (r.units - TicksPerSecond) <= Bucket!Full + b
        <5>1. a \in Int /\ b \in Int /\ a + r.units <= Bucket!Full + b
          BY <4>3, <4>5
        <5> HIDE DEF a, b, r
        <5> QED BY <4>3, <4>4, <5>1
      <4> QED BY <4>1, <4>2, <4>4, <4>5, <4>6
    <3> QED BY <1>2, <3>1, <3>2
  <2>7. (\A i \in 1..Len(grants) :
          /\ grants[i] <= level.refilled_at
          /\ Owed(i) <= Bucket!Full + PerSecond * (level.refilled_at - grants[i]))'
    BY <2>2, <2>3, <2>6 DEF Owed
  <2>8. Bucket!EveryWindow'
    <3> SUFFICES ASSUME NEW i \in 1..(n + 1), NEW j \in 1..(n + 1), i <= j
                 PROVE  (j - i + 1) * TicksPerSecond
                          <= Bucket!Full + PerSecond * (grants'[j] - grants'[i])
      BY <2>3 DEF Bucket!EveryWindow
    <3>1. CASE j = n + 1
      BY <2>3, <2>6, <3>1
    <3>2. CASE j \in 1..n
      <4>1. i \in 1..n
        BY <1>2, <3>2
      <4>2. (j - i + 1) * TicksPerSecond <= Bucket!Full + PerSecond * (grants[j] - grants[i])
        BY <3>2, <4>1 DEF BucketInv, Bucket!EveryWindow
      <4> QED BY <2>3, <3>2, <4>1, <4>2
    <3> QED BY <1>2, <3>1, <3>2
  <2> QED BY <2>3, <2>4, <2>5, <2>7, <2>8 DEF BucketInv
<1> QED BY <1>5, <1>6

(* Over any stretch of time TokenBucket::try_acquire grants no more than   *)
(* the burst and what the time is worth, for every rate and burst.         *)
THEOREM NoWindowIsOverspent == Bucket!Spec => [](Bucket!TypeOK /\ Bucket!EveryWindow)
<1>1. Bucket!Init => BucketInv
  BY Products DEF Bucket!Init, BucketInv, Bucket!TypeOK, Bucket!FullLevel, Bucket!Levels, Bucket!EveryWindow
<1>2. BucketInv /\ [Bucket!Next]_(Bucket!vars) => BucketInv'
  <2> SUFFICES ASSUME BucketInv, [Bucket!Next]_(Bucket!vars) PROVE BucketInv'
    OBVIOUS
  <2>1. CASE Bucket!Next
    BY <2>1, BucketKeeps DEF Bucket!Next
  <2>2. CASE UNCHANGED Bucket!vars
    BY <2>2 DEF BucketInv, Bucket!TypeOK, Bucket!EveryWindow, Owed, Bucket!vars
  <2> QED BY <2>1, <2>2
<1>3. BucketInv => Bucket!TypeOK /\ Bucket!EveryWindow
  BY DEF BucketInv
<1> QED BY <1>1, <1>2, <1>3, PTL DEF Bucket!Spec
=============================================================================
