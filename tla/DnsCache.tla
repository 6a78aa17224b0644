------------------------------ MODULE DnsCache -------------------------------
(***************************************************************************)
(* Looked-up addresses, trusted for a while (lib/dns/src/cache.rs), for    *)
(* one host and port: the entries of different keys do not meet.  Callers  *)
(* run concurrently, and no lock is held across a lookup, so lookups end   *)
(* in any order.  An address is the version of the name it was true of:    *)
(* version n is what the name resolved to from since[n] on.                *)
(***************************************************************************)
EXTENDS Integers, Sequences

CONSTANTS
  Lookups,    \* the callers
  Ttl,        \* how long an answer is trusted
  LastTime,   \* bound: the clock stops there
  MaxAddresses,   \* bound: how many addresses the name comes to have
  Unknown     \* no entry, no answer

VARIABLES
  now,
  since,    \* since[n]: when the name came to have its n-th address
  entry,    \* the cache's Entry, or Unknown
  call,     \* what each caller holds across its lookup
  got,      \* history: what the last call to end returned
  known     \* history: whether a call has ended with an address

vars == <<now, since, entry, call, got, known>>

Entry == [address : DOMAIN since, looked_up : 0..LastTime]

Idle == [at |-> "idle", now |-> 0, cached |-> Unknown, known |-> FALSE]

(* No answer from the future, no entry without its stamp.                  *)
TypeOK ==
  /\ now \in 0..LastTime
  /\ since \in Seq(0..now) /\ since # <<>>
  /\ known \in BOOLEAN
  /\ entry \in Entry \cup {Unknown}
  /\ \A c \in Lookups :
       /\ call[c].at \in {"idle", "looking"}
       /\ call[c].now <= now
       /\ call[c].cached \in Entry \cup {Unknown}

Init ==
  /\ now = 0
  /\ since = <<0>>
  /\ entry = Unknown
  /\ call = [c \in Lookups |-> Idle]
  /\ got = [address |-> Unknown, began |-> 0, failed |-> FALSE, known |-> FALSE]
  /\ known = FALSE

-----------------------------------------------------------------------------
Fresh(e) == e # Unknown /\ now - e.looked_up < Ttl

Return(address, began, failed, knew) ==
  /\ got' = [address |-> address, began |-> began, failed |-> failed, known |-> knew]
  /\ known' = (known \/ address # Unknown)

(* The call up to its await: a fresh entry answers it at once.             *)
Begin(c) ==
  /\ call[c].at = "idle"
  /\ IF Fresh(entry)
     THEN Return(entry.address, now, FALSE, known) /\ UNCHANGED call
     ELSE /\ call' = [call EXCEPT ![c] = [at |-> "looking", now |-> now,
                                          cached |-> entry, known |-> known]]
          /\ UNCHANGED <<got, known>>
  /\ UNCHANGED <<now, since, entry>>

(* The lookup answers with an address the name had at some time since it   *)
(* began.                                                                  *)
Answered(c, n, looked_up) ==
  /\ call[c].at = "looking"
  /\ n < Len(since) => call[c].now <= since[n + 1]
  /\ entry' = [address |-> n, looked_up |-> looked_up]
  /\ Return(n, call[c].now, FALSE, call[c].known)
  /\ call' = [call EXCEPT ![c] = Idle]
  /\ UNCHANGED <<now, since>>

(* An answer stamped when it came, not when it was asked for.              *)
LookedUpWhenAnswered(c, n) == Answered(c, n, now)

(* The answer replaces the entry, whatever that has become meanwhile, and  *)
(* is stamped with when it was asked for.                                  *)
LookedUp(c, n) == Answered(c, n, call[c].now)

(* The answer is what the cache held when the call began, however old, and *)
(* an error if that is nothing.                                            *)
FallBack(c) ==
  /\ call[c].at = "looking"
  /\ Return(IF call[c].cached = Unknown THEN Unknown ELSE call[c].cached.address,
         call[c].now, TRUE, call[c].known)
  /\ call' = [call EXCEPT ![c] = Idle]
  /\ UNCHANGED <<now, since>>

(* A lookup that forgets what it could not renew.                          *)
LookupFailsForgetting(c) == FallBack(c) /\ entry' = Unknown

(* The lookup fails, or finds no address.                                  *)
LookupFails(c) == FallBack(c) /\ UNCHANGED entry

Moves ==
  /\ Len(since) < MaxAddresses
  /\ since' = Append(since, now)
  /\ UNCHANGED <<now, entry, call, got, known>>

Tick ==
  /\ now < LastTime
  /\ now' = now + 1
  /\ UNCHANGED <<since, entry, call, got, known>>

Next ==
  \/ \E c \in Lookups :
       \/ Begin(c)
       \/ \E n \in DOMAIN since : LookedUp(c, n)
       \/ LookupFails(c)
  \/ Moves
  \/ Tick

Spec == Init /\ [][Next]_vars

-----------------------------------------------------------------------------
(* A call whose own lookup did not fail returns an address that the name   *)
(* had less than Ttl before the call began, or since, however the lookups  *)
(* of several callers overtake each other on their way into the cache.     *)
AnswersAreFresh ==
  got.address # Unknown /\ ~ got.failed /\ got.address < Len(since)
    => got.began - Ttl < since[got.address + 1]

(* Once the cache has answered, no call that begins later is an error: a   *)
(* failed lookup falls back on an answer, and none is ever forgotten.      *)
OnceKnownAnswered == got.known => got.address # Unknown

=============================================================================
