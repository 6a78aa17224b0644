---------------------------- MODULE DnsCacheProofs ----------------------------
(***************************************************************************)
(* For any number of callers, any positive Ttl and any history of the      *)
(* name: an answer is no older than the cache trusts one to be.            *)
(***************************************************************************)
EXTENDS DnsCache, TLAPS

-----------------------------------------------------------------------------
(* An address asked for at t: the name had it then, or came to have it     *)
(* later.                                                                  *)
TrueAt(n, t) == n \in 1..Len(since) /\ (n < Len(since) => t <= since[n + 1])

(* AnswersAreFresh is of the last answer only.  It is kept because the     *)
(* stamp of the entry is a time its address was still true at, whoever     *)
(* wrote it last, which takes that lookups know when they began.           *)
FreshOK ==
  /\ now \in Int /\ since \in Seq(Int)
  /\ entry # Unknown =>
       /\ entry.looked_up \in Int /\ entry.looked_up <= now
       /\ TrueAt(entry.address, entry.looked_up)
  /\ call = [c \in Lookups |-> call[c]]
  /\ \A c \in Lookups : call[c].at = "looking" => call[c].now \in Int /\ call[c].now <= now
  /\ got.began \in Int /\ got.began <= now
  /\ got.address # Unknown /\ ~ got.failed =>
       /\ got.address \in 1..Len(since)
       /\ got.address < Len(since) => got.began - Ttl < since[got.address + 1]

LEMMA BeginKeeps ==
  ASSUME Ttl \in Nat \ {0}, FreshOK, NEW c \in Lookups, Begin(c)
  PROVE  FreshOK'
<1>1. UNCHANGED <<now, since, entry>>
  BY DEF Begin
<1>2. CASE Fresh(entry)
  <2>1. /\ got' = [address |-> entry.address, began |-> now, failed |-> FALSE, known |-> known]
        /\ UNCHANGED call
    BY <1>2 DEF Begin, Return
  <2>2. /\ entry.looked_up \in Int /\ now - entry.looked_up < Ttl
        /\ TrueAt(entry.address, entry.looked_up)
    BY <1>2 DEF Fresh, FreshOK
  <2>3. now - Ttl < entry.looked_up
    BY <2>2 DEF FreshOK
  <2>4. entry.address < Len(since) => now - Ttl < since[entry.address + 1]
    <3>1. since \in Seq(Int) /\ now \in Int /\ Ttl \in Int
      BY DEF FreshOK
    <3>2. ASSUME NEW n \in 1..Len(since), n < Len(since) PROVE since[n + 1] \in Int
      BY <3>1, <3>2
    <3>3. ASSUME NEW n \in 1..Len(since), n < Len(since), entry.looked_up <= since[n + 1]
          PROVE  now - Ttl < since[n + 1]
      BY <2>2, <2>3, <3>1, <3>2, <3>3
    <3>4. QED
      BY <2>2, <3>3 DEF TrueAt
  <2>5. got'.address = entry.address /\ got'.began = now
    BY <2>1
  <2>6. QED
    BY <1>1, <2>1, <2>2, <2>4, <2>5 DEF FreshOK, TrueAt
<1>3. CASE ~ Fresh(entry)
  <2>1. /\ call' = [call EXCEPT ![c] = [at |-> "looking", now |-> now,
                                        cached |-> entry, known |-> known]]
        /\ UNCHANGED got
    BY <1>3 DEF Begin
  <2>2. /\ call' = [d \in Lookups |-> call'[d]]
        /\ \A d \in Lookups : call'[d].at = "looking" => call'[d].now \in Int /\ call'[d].now <= now
    BY <2>1 DEF FreshOK
  <2>3. QED
    BY <1>1, <2>1, <2>2 DEF FreshOK, TrueAt
<1>4. QED
  BY <1>2, <1>3

LEMMA CallEnds ==
  ASSUME FreshOK, NEW c \in Lookups, call' = [call EXCEPT ![c] = Idle], UNCHANGED now
  PROVE  /\ call' = [d \in Lookups |-> call'[d]]
         /\ \A d \in Lookups : call'[d].at = "looking" => call'[d].now \in Int /\ call'[d].now <= now'
  BY DEF FreshOK, Idle

LEMMA LookedUpKeeps ==
  ASSUME Ttl \in Nat \ {0}, FreshOK, NEW c \in Lookups, NEW n \in DOMAIN since, LookedUp(c, n)
  PROVE  FreshOK'
<1> DEFINE began == call[c].now
<1>1. /\ UNCHANGED <<now, since>> /\ call' = [call EXCEPT ![c] = Idle]
      /\ call[c].at = "looking" /\ (n < Len(since) => began <= since[n + 1])
      /\ entry' = [address |-> n, looked_up |-> began]
      /\ got' = [address |-> n, began |-> began, failed |-> FALSE, known |-> call[c].known]
  BY DEF LookedUp, Answered, Return
<1>2. n \in 1..Len(since) /\ began \in Int /\ began <= now
  BY <1>1 DEF FreshOK
<1>3. n < Len(since) => since[n + 1] \in Int
  BY <1>2 DEF FreshOK
<1>4. n < Len(since) => began - Ttl < since[n + 1]
  BY <1>1, <1>2, <1>3
<1>5. /\ got'.address = n /\ got'.began = began
      /\ entry'.address = n /\ entry'.looked_up = began
  BY <1>1
<1>6. TrueAt(n, began)
  BY <1>1, <1>2 DEF TrueAt
<1>7. QED
  BY <1>1, <1>2, <1>4, <1>5, <1>6, CallEnds DEF FreshOK, TrueAt

LEMMA LookupFailsKeeps ==
  ASSUME FreshOK, NEW c \in Lookups, LookupFails(c)
  PROVE  FreshOK'
<1>1. /\ UNCHANGED <<now, since, entry>> /\ call' = [call EXCEPT ![c] = Idle]
      /\ call[c].at = "looking" /\ got'.failed /\ got'.began = call[c].now
  BY DEF LookupFails, FallBack, Return
<1>2. QED
  BY <1>1, CallEnds DEF FreshOK, TrueAt

LEMMA MovesKeeps ==
  ASSUME Ttl \in Nat \ {0}, FreshOK, Moves
  PROVE  FreshOK'
<1>1. since' = Append(since, now) /\ UNCHANGED <<now, entry, call, got>> /\ since \in Seq(Int)
  BY DEF Moves, FreshOK
<1>2. /\ since' \in Seq(Int) /\ Len(since') = Len(since) + 1
      /\ \A i \in 1..Len(since) : since'[i] = since[i]
      /\ since'[Len(since) + 1] = now /\ Len(since) \in Nat /\ now \in Int
  BY <1>1 DEF FreshOK
<1>3. ASSUME NEW n, NEW t \in Int, t <= now, TrueAt(n, t) PROVE TrueAt(n, t)'
  <2>1. n \in 1..Len(since) /\ (n < Len(since) => t <= since[n + 1])
    BY <1>3 DEF TrueAt
  <2>2. CASE n = Len(since)
    BY <1>2, <1>3, <2>1, <2>2 DEF TrueAt
  <2>3. CASE n # Len(since)
    <3>1. n < Len(since) /\ n + 1 \in 1..Len(since)
      BY <1>2, <2>1, <2>3
    <3>2. since'[n + 1] = since[n + 1]
      BY <1>2, <3>1
    <3>3. QED
      BY <1>2, <2>1, <3>1, <3>2 DEF TrueAt
  <2>4. QED
    BY <2>2, <2>3
<1>4. entry # Unknown => TrueAt(entry.address, entry.looked_up)'
  BY <1>1, <1>3 DEF FreshOK
<1>5. got.address # Unknown /\ ~ got.failed =>
        /\ got.address \in 1..Len(since')
        /\ got.address < Len(since') => got.began - Ttl < since'[got.address + 1]
  <2> DEFINE n == got.address
  <2> SUFFICES ASSUME n # Unknown, ~ got.failed
               PROVE  /\ n \in 1..Len(since')
                      /\ n < Len(since') => got.began - Ttl < since'[n + 1]
    OBVIOUS
  <2>1. /\ n \in 1..Len(since) /\ (n < Len(since) => got.began - Ttl < since[n + 1])
        /\ got.began \in Int /\ got.began <= now
    BY DEF FreshOK
  <2>2. got.began - Ttl < now
    BY <1>2, <2>1
  <2> HIDE DEF n
  <2>3. CASE n = Len(since)
    BY <1>2, <2>1, <2>2, <2>3
  <2>4. CASE n # Len(since)
    <3>1. n < Len(since) /\ n + 1 \in 1..Len(since) /\ n \in 1..Len(since')
      BY <1>2, <2>1, <2>4
    <3>2. since'[n + 1] = since[n + 1]
      BY <1>2, <3>1
    <3>3. QED
      BY <2>1, <3>1, <3>2
  <2>5. QED
    BY <2>3, <2>4
<1>6. QED
  BY <1>1, <1>2, <1>4, <1>5 DEF FreshOK, TrueAt

(* However concurrent lookups overtake each other, an answer that did not  *)
(* come of a failed lookup was true less than Ttl before it was asked for, *)
(* or since (Cache::lookup).                                               *)
THEOREM AnswersAlwaysFresh ==
  ASSUME Ttl \in Nat \ {0}
  PROVE  Spec => []AnswersAreFresh
<1>1. Init => FreshOK
  BY DEF Init, FreshOK, Idle, TrueAt
<1>2. FreshOK => AnswersAreFresh
  BY DEF FreshOK, AnswersAreFresh
<1>3. FreshOK /\ [Next]_vars => FreshOK'
  <2> SUFFICES ASSUME FreshOK, [Next]_vars PROVE FreshOK'
    OBVIOUS
  <2>1. CASE UNCHANGED vars
    BY <2>1 DEF vars, FreshOK, TrueAt
  <2>2. CASE Tick
    BY <2>2 DEF Tick, FreshOK, TrueAt
  <2>3. CASE Moves
    BY <2>3, MovesKeeps
  <2>4. ASSUME NEW c \in Lookups,
               Begin(c) \/ LookupFails(c) \/ \E n \in DOMAIN since : LookedUp(c, n)
        PROVE  FreshOK'
    BY <2>4, BeginKeeps, LookupFailsKeeps, LookedUpKeeps
  <2>5. QED
    BY <2>1, <2>2, <2>3, <2>4 DEF Next
<1>4. QED
  BY <1>1, <1>2, <1>3, PTL DEF Spec
=============================================================================
