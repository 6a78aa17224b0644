---------------------------- MODULE RequestProofs -----------------------------
(***************************************************************************)
(* For any requests, backends, policy and cap: what requests hold of their *)
(* pool is held as ConcurrencyLimit allows and counted as it is held, a    *)
(* request that may not be repeated reaches at most one backend, and,      *)
(* beside what RequestTimingProofs shows, the handler keeps its promises.  *)
(***************************************************************************)
EXTENDS RequestTimingProofs

-----------------------------------------------------------------------------
(* What the refinement needs to know: a backend is busy with a request     *)
(* only from its first attempt to its end, and from the attempt on there   *)
(* is one, so that the place in the pool outlives forward with it.         *)
HoldsOK ==
  /\ at \in [Requests -> Phases]
  /\ chosen \in [Requests -> Backends \cup {None}]
  /\ busy \in [Requests -> Backends \cup {None}]
  /\ in_flight \in Int
  /\ \A r \in Requests :
       /\ at[r] \in {"idle", "admitting", "full", "counted", "done"} => busy[r] = None
       /\ at[r] \in {"waiting", "overdue"} => busy[r] # None
       /\ at[r] = "chosen" => chosen[r] # None

Permits == [r \in Requests |-> PermitOf(r)]

(* A step of one request: where it is, what it has chosen and what it is   *)
(* busy with change, for no other.                                         *)
Moves(r, place, choice, backend) ==
  /\ at' = [at EXCEPT ![r] = place]
  /\ chosen' = [chosen EXCEPT ![r] = choice]
  /\ busy' = [busy EXCEPT ![r] = backend]

(* The permit of a request, from what changes of it.                       *)
PermitAt(place, backend) ==
  IF place = "full" THEN "refused"
  ELSE IF \/ place \in {"counted", "selecting", "chosen", "waiting", "overdue"}
          \/ place = "answering" /\ backend # None
       THEN "held" ELSE "none"

LEMMA PermitOfRequest ==
  ASSUME HoldsOK, NEW r \in Requests
  PROVE  PermitOf(r) = PermitAt(at[r], busy[r])
<1>1. at[r] \in Phases
  BY DEF HoldsOK
<1>2. QED
  BY <1>1 DEF PermitOf, PermitAt, Forwarding, Phases

(* Such a step keeps what holds of the others and changes one permit.      *)
LEMMA OneRequestMoves ==
  ASSUME HoldsOK, in_flight' \in Int, NEW r \in Requests, NEW place \in Phases,
         NEW choice \in Backends \cup {None}, NEW backend \in Backends \cup {None},
         Moves(r, place, choice, backend),
         place \in {"idle", "admitting", "full", "counted", "done"} => backend = None,
         place \in {"waiting", "overdue"} => backend # None,
         place = "chosen" => choice # None
  PROVE  HoldsOK' /\ Permits' = [Permits EXCEPT ![r] = PermitAt(place, backend)]
<1>1. HoldsOK'
  BY DEF HoldsOK, Moves
<1>2. \A q \in Requests : PermitOf(q)' = PermitAt(at'[q], busy'[q])
  <2>1. TAKE q \in Requests
  <2>2. at'[q] \in Phases
    BY <1>1 DEF HoldsOK
  <2>3. QED
    BY <2>2 DEF PermitOf, PermitAt, Forwarding, Phases
<1>3. \A q \in Requests : PermitOf(q) = PermitAt(at[q], busy[q])
  BY PermitOfRequest
<1>4. \A q \in Requests :
        /\ q = r => at'[q] = place /\ busy'[q] = backend
        /\ q # r => at'[q] = at[q] /\ busy'[q] = busy[q]
  BY DEF HoldsOK, Moves
<1>5. QED
  BY <1>1, <1>2, <1>3, <1>4, Zenon DEF Permits

(* A request that moves and keeps its permit, or gives it back.            *)
MayMove(place, choice, backend) ==
  /\ place \in Phases
  /\ choice \in Backends \cup {None} /\ backend \in Backends \cup {None}
  /\ place \in {"idle", "admitting", "full", "counted", "done"} => backend = None
  /\ place \in {"waiting", "overdue"} => backend # None
  /\ place = "chosen" => choice # None

LEMMA KeepsThePermit ==
  ASSUME HoldsOK, NEW r \in Requests, NEW place, NEW choice, NEW backend,
         MayMove(place, choice, backend), Moves(r, place, choice, backend),
         PermitAt(place, backend) = PermitAt(at[r], busy[r]), in_flight' = in_flight
  PROVE  HoldsOK' /\ UNCHANGED <<in_flight, Permits>>
<1>1. HoldsOK' /\ Permits' = [Permits EXCEPT ![r] = PermitAt(place, backend)]
  <2>1. in_flight' \in Int
    BY DEF HoldsOK
  <2>2. QED
    BY <2>1, OneRequestMoves DEF MayMove
<1>2. Permits[r] = PermitAt(place, backend)
  BY PermitOfRequest DEF Permits
<1>3. QED
  BY <1>1, <1>2, Zenon DEF Permits

LEMMA GivesItBack ==
  ASSUME HoldsOK, NEW r \in Requests, NEW place, NEW choice, NEW backend,
         MayMove(place, choice, backend), Moves(r, place, choice, backend),
         PermitAt(at[r], busy[r]) # "none", PermitAt(place, backend) = "none",
         in_flight' = in_flight - 1
  PROVE  HoldsOK' /\ Places!DropPermit(r)
<1>1. HoldsOK' /\ Permits' = [Permits EXCEPT ![r] = PermitAt(place, backend)]
  <2>1. in_flight' \in Int
    BY DEF HoldsOK
  <2>2. QED
    BY <2>1, OneRequestMoves DEF MayMove
<1>2. Permits[r] # "none"
  BY PermitOfRequest DEF Permits
<1>3. QED
  BY <1>1, <1>2 DEF Permits, Places!DropPermit

(* What a request has of each, and that leaving it is moving it to that.   *)
LEMMA OfOneRequest ==
  ASSUME HoldsOK, NEW r \in Requests
  PROVE  /\ at[r] \in Phases
         /\ chosen[r] \in Backends \cup {None} /\ busy[r] \in Backends \cup {None}
         /\ at = [at EXCEPT ![r] = at[r]]
         /\ chosen = [chosen EXCEPT ![r] = chosen[r]]
         /\ busy = [busy EXCEPT ![r] = busy[r]]
         /\ at[r] \in {"idle", "admitting", "full", "counted", "done"} => busy[r] = None
         /\ at[r] \in {"waiting", "overdue"} => busy[r] # None
         /\ at[r] = "chosen" => chosen[r] # None
  BY DEF HoldsOK

(* The steps of a request before it is forwarded.                          *)
LEMMA HandleStutters ==
  ASSUME HoldsOK, NEW r \in Requests, NEW k, Handle(r, k)
  PROVE  HoldsOK' /\ UNCHANGED <<in_flight, Permits>>
<1>1. PICK place \in {"admitting", "answering"} : at' = [at EXCEPT ![r] = place]
  BY DEF Handle, Respond
<1>2. Moves(r, place, chosen[r], None) /\ in_flight' = in_flight /\ busy[r] = None /\ at[r] = "idle"
  BY <1>1, OfOneRequest DEF Handle, Moves, pool
<1>3. MayMove(place, chosen[r], None)
  BY OfOneRequest DEF MayMove, Phases
<1>4. PermitAt(place, None) = PermitAt(at[r], busy[r])
  BY <1>2 DEF PermitAt
<1>5. QED
  BY <1>2, <1>3, <1>4, KeepsThePermit

LEMMA AdmitTakesAPlace ==
  ASSUME HoldsOK, NEW r \in Requests, Admit(r)
  PROVE  HoldsOK' /\ Places!TryAcquire(r)
<1> DEFINE place == IF in_flight >= MaxInFlight THEN "full" ELSE "counted"
<1>1. /\ Moves(r, place, chosen[r], None) /\ in_flight' = in_flight + 1
      /\ busy[r] = None /\ at[r] = "admitting"
  BY OfOneRequest DEF Admit, Moves
<1>2. HoldsOK' /\ Permits' = [Permits EXCEPT ![r] = PermitAt(place, None)]
  <2>1. in_flight' \in Int
    BY <1>1 DEF HoldsOK
  <2>2. MayMove(place, chosen[r], None)
    BY OfOneRequest DEF MayMove, Phases
  <2>3. ASSUME NEW p, MayMove(p, chosen[r], None), Moves(r, p, chosen[r], None)
        PROVE  HoldsOK' /\ Permits' = [Permits EXCEPT ![r] = PermitAt(p, None)]
    BY <2>1, <2>3, OneRequestMoves DEF MayMove
  <2> HIDE DEF place
  <2>4. QED
    BY <1>1, <2>2, <2>3
<1>3. Permits[r] = "none"
  BY <1>1, PermitOfRequest DEF Permits, PermitAt
<1>4. PermitAt(place, None) = IF Places!Reached THEN "refused" ELSE "held"
  BY MaxInFlightAssumption, NoneAssumption DEF PermitAt, Places!Reached
<1>5. QED
  BY <1>1, <1>2, <1>3, <1>4, Zenon DEF Permits, Places!TryAcquire

LEMMA RefusalsGiveItBack ==
  ASSUME HoldsOK, NEW r \in Requests, TurnAway(r) \/ OverRate(r)
  PROVE  HoldsOK' /\ Places!DropPermit(r)
<1>1. /\ Moves(r, "answering", chosen[r], None) /\ in_flight' = in_flight - 1
      /\ busy[r] = None /\ at[r] \in {"full", "counted"}
  BY OfOneRequest DEF TurnAway, OverRate, Respond, Moves
<1>2. MayMove("answering", chosen[r], None)
  BY OfOneRequest DEF MayMove, Phases
<1>3. PermitAt(at[r], busy[r]) # "none" /\ PermitAt("answering", None) = "none"
  BY <1>1 DEF PermitAt
<1>4. QED
  BY <1>1, <1>2, <1>3, GivesItBack

(* The steps of forward that keep everything the request holds.            *)
LEMMA Untouched ==
  ASSUME HoldsOK, UNCHANGED <<at, chosen, busy, in_flight>>
  PROVE  HoldsOK' /\ UNCHANGED <<in_flight, Permits>>
<1>1. HoldsOK'
  BY DEF HoldsOK
<1>2. \A r \in Requests : PermitOf(r)' = PermitOf(r)
  BY DEF PermitOf, Forwarding
<1>3. QED
  BY <1>1, <1>2 DEF Permits

LEMMA ForwardKeepsIt ==
  ASSUME HoldsOK, NEW r \in Requests,
         Admitted(r) \/ Select(r) \/ Attempt(r) \/ Reply(r)
  PROVE  HoldsOK' /\ UNCHANGED <<in_flight, Permits>>
<1>1. CASE Admitted(r)
  <2>1. /\ Moves(r, "selecting", chosen[r], busy[r]) /\ in_flight' = in_flight
        /\ at[r] = "counted"
    BY <1>1, OfOneRequest DEF Admitted, Moves, pool
  <2>2. MayMove("selecting", chosen[r], busy[r])
    BY OfOneRequest DEF MayMove, Phases
  <2>3. PermitAt("selecting", busy[r]) = PermitAt(at[r], busy[r])
    BY <2>1 DEF PermitAt
  <2>4. QED
    BY <2>1, <2>2, <2>3, KeepsThePermit
<1>2. CASE Select(r)
  <2>1. PICK b \in Backends : chosen' = [chosen EXCEPT ![r] = b]
    BY <1>2, Zenon DEF Select
  <2>2. Moves(r, "chosen", b, busy[r]) /\ in_flight' = in_flight /\ at[r] = "selecting"
    BY <1>2, <2>1, OfOneRequest, Zenon DEF Select, Moves
  <2>3. MayMove("chosen", b, busy[r])
    BY OfOneRequest, NoneAssumption DEF MayMove, Phases
  <2>4. PermitAt("chosen", busy[r]) = PermitAt(at[r], busy[r])
    BY <2>2 DEF PermitAt
  <2>5. QED
    BY <2>2, <2>3, <2>4, KeepsThePermit
<1>3. CASE Attempt(r)
  <2>1. Moves(r, "waiting", None, chosen[r]) /\ in_flight' = in_flight /\ at[r] = "chosen"
    BY <1>3 DEF Attempt, Moves
  <2>2. MayMove("waiting", None, chosen[r])
    BY <2>1, OfOneRequest DEF MayMove, Phases
  <2>3. PermitAt("waiting", chosen[r]) = PermitAt(at[r], busy[r])
    BY <2>1 DEF PermitAt
  <2>4. QED
    BY <2>1, <2>2, <2>3, KeepsThePermit
<1>4. CASE Reply(r)
  <2>1. /\ Moves(r, "answering", chosen[r], busy[r]) /\ in_flight' = in_flight
        /\ at[r] = "waiting"
    BY <1>4, OfOneRequest DEF Reply, Respond, Moves, pool
  <2>2. MayMove("answering", chosen[r], busy[r])
    BY OfOneRequest DEF MayMove, Phases
  <2>3. PermitAt("answering", busy[r]) = PermitAt(at[r], busy[r])
    BY <2>1, OfOneRequest DEF PermitAt
  <2>4. QED
    BY <2>1, <2>2, <2>3, KeepsThePermit
<1>5. QED
  BY <1>1, <1>2, <1>3, <1>4

LEMMA WakeKeepsIt ==
  ASSUME HoldsOK, NEW r \in Requests, Wake(r)
  PROVE  HoldsOK' /\ UNCHANGED <<in_flight, Permits>>
<1>1. PICK place \in {"waiting", "overdue"} : at' = [at EXCEPT ![r] = place]
  <2>1. at[r] = "waiting" /\ (at' = [at EXCEPT ![r] = "overdue"] \/ at' = at)
    BY DEF Wake
  <2>2. QED
    BY <2>1, OfOneRequest
<1>2. Moves(r, place, chosen[r], busy[r]) /\ in_flight' = in_flight /\ at[r] = "waiting"
  BY <1>1, OfOneRequest DEF Wake, Moves, pool
<1>3. MayMove(place, chosen[r], busy[r])
  BY <1>2, OfOneRequest DEF MayMove, Phases
<1>4. PermitAt(place, busy[r]) = PermitAt(at[r], busy[r])
  BY <1>2 DEF PermitAt
<1>5. QED
  BY <1>2, <1>3, <1>4, KeepsThePermit

(* The ends: refused by forward, or reported.                              *)
LEMMA GiveUpGivesItBack ==
  ASSUME HoldsOK, NEW r \in Requests, NEW why, Forwarding(r), GiveUp(r, why),
         UNCHANGED chosen
  PROVE  HoldsOK' /\ Places!DropPermit(r)
<1>1. Moves(r, "answering", chosen[r], None) /\ in_flight' = in_flight - 1
  BY OfOneRequest DEF GiveUp, DropBusy, Respond, Moves
<1>2. MayMove("answering", chosen[r], None)
  BY OfOneRequest DEF MayMove, Phases
<1>3. PermitAt(at[r], busy[r]) # "none" /\ PermitAt("answering", None) = "none"
  BY DEF PermitAt, Forwarding
<1>4. QED
  BY <1>1, <1>2, <1>3, GivesItBack

LEMMA ReportGivesItBack ==
  ASSUME HoldsOK, NEW r \in Requests, Report(r, 1),
         at[r] = "waiting" \/ (at[r] = "answering" /\ busy[r] # None)
  PROVE  HoldsOK' /\ Places!DropPermit(r)
<1>1. Moves(r, "done", chosen[r], None) /\ in_flight' = in_flight - 1
  BY OfOneRequest DEF Report, DropBusy, Moves
<1>2. MayMove("done", chosen[r], None)
  BY OfOneRequest DEF MayMove, Phases
<1>3. PermitAt(at[r], busy[r]) # "none" /\ PermitAt("done", None) = "none"
  BY DEF PermitAt
<1>4. QED
  BY <1>1, <1>2, <1>3, GivesItBack

LEMMA FinishIsTheLimits ==
  ASSUME HoldsOK, NEW r \in Requests, Finish(r)
  PROVE  HoldsOK' /\ [Places!Next]_(<<in_flight, Permits>>)
<1>1. CASE busy[r] # None
  <2>1. Report(r, 1) /\ at[r] = "answering"
    BY <1>1 DEF Finish, Relayed
  <2>2. QED
    BY <1>1, <2>1, ReportGivesItBack DEF Places!Next
<1>2. CASE busy[r] = None
  <2>1. Report(r, 0) /\ at[r] = "answering"
    BY <1>2 DEF Finish, Relayed
  <2>2. Moves(r, "done", chosen[r], None) /\ in_flight' = in_flight
    BY <2>1, OfOneRequest DEF Report, DropBusy, Moves, HoldsOK
  <2>3. MayMove("done", chosen[r], None)
    BY OfOneRequest DEF MayMove, Phases
  <2>4. PermitAt("done", None) = PermitAt(at[r], busy[r])
    BY <1>2, <2>1 DEF PermitAt
  <2>5. QED
    BY <2>2, <2>3, <2>4, KeepsThePermit
<1>3. QED
  BY <1>1, <1>2

LEMMA SendFailsIsTheLimits ==
  ASSUME HoldsOK, NEW r \in Requests, SendFails(r)
  PROVE  HoldsOK' /\ [Places!Next]_(<<in_flight, Permits>>)
<1>1. CASE Report(r, 1)
  BY <1>1, ReportGivesItBack DEF SendFails, Places!Next
<1>2. CASE UNCHANGED chosen /\ \E why : GiveUp(r, why)
  <2>1. Forwarding(r)
    BY DEF SendFails, Forwarding
  <2>2. QED
    BY <1>2, <2>1, GiveUpGivesItBack DEF Places!Next
<1>3. CASE at' = [at EXCEPT ![r] = "selecting"] /\ UNCHANGED <<chosen, busy, in_flight>>
  <2>1. Moves(r, "selecting", chosen[r], busy[r]) /\ in_flight' = in_flight
        /\ at[r] = "waiting"
    BY <1>3, OfOneRequest DEF SendFails, Moves
  <2>2. MayMove("selecting", chosen[r], busy[r])
    BY OfOneRequest DEF MayMove, Phases
  <2>3. PermitAt("selecting", busy[r]) = PermitAt(at[r], busy[r])
    BY <2>1 DEF PermitAt
  <2>4. QED
    BY <2>1, <2>2, <2>3, KeepsThePermit
<1>4. QED
  BY <1>1, <1>2, <1>3 DEF SendFails

(* Every step is a step of the limit, or leaves it alone.                  *)
LEMMA StepsAreTheLimits ==
  ASSUME HoldsOK, [Next]_vars
  PROVE  HoldsOK' /\ [Places!Next]_(<<in_flight, Permits>>)
<1>1. CASE UNCHANGED vars
  BY <1>1, Untouched DEF vars, handler, pool
<1>2. CASE Tick
  BY <1>2, Untouched DEF Tick, handler, pool
<1>3. ASSUME NEW r \in Requests, \E k \in Kinds[r] : Handle(r, k)
      PROVE  HoldsOK' /\ [Places!Next]_(<<in_flight, Permits>>)
  BY <1>3, HandleStutters
<1>4. ASSUME NEW r \in Requests, Reach(r) \/ Poll(r) \/ Write(r)
      PROVE  HoldsOK' /\ [Places!Next]_(<<in_flight, Permits>>)
  <2>1. UNCHANGED <<at, chosen, busy, in_flight>>
    BY <1>4 DEF Reach, Poll, Write, handler, pool
  <2>2. QED
    BY <2>1, Untouched
<1>5. ASSUME NEW r \in Requests, Step(r)
      PROVE  HoldsOK' /\ [Places!Next]_(<<in_flight, Permits>>)
  <2>1. CASE Admit(r)
    BY <2>1, AdmitTakesAPlace DEF Places!Next
  <2>2. CASE TurnAway(r) \/ OverRate(r)
    BY <2>2, RefusalsGiveItBack DEF Places!Next
  <2>3. CASE Admitted(r) \/ Select(r) \/ Attempt(r)
    BY <2>3, ForwardKeepsIt
  <2>4. CASE Wake(r)
    BY <2>4, WakeKeepsIt
  <2>5. CASE NoneHealthy(r) \/ Blame(r)
    <3>1. Forwarding(r) /\ UNCHANGED chosen /\ \E why : GiveUp(r, why)
      BY <2>5 DEF NoneHealthy, Blame, Forwarding
    <3>2. QED
      BY <3>1, GiveUpGivesItBack DEF Places!Next
  <2>6. QED
    BY <1>5, <2>1, <2>2, <2>3, <2>4, <2>5 DEF Step
<1>6. ASSUME NEW r \in Requests, Reply(r) \/ SendFails(r) \/ Leave(r) \/ Finish(r)
      PROVE  HoldsOK' /\ [Places!Next]_(<<in_flight, Permits>>)
  <2>1. CASE Reply(r)
    BY <2>1, ForwardKeepsIt
  <2>2. CASE Leave(r)
    BY <2>2, ReportGivesItBack DEF Leave, Places!Next
  <2>3. QED
    BY <1>6, <2>1, <2>2, SendFailsIsTheLimits, FinishIsTheLimits
<1>7. QED
  BY <1>1, <1>2, <1>3, <1>4, <1>5, <1>6 DEF Next

(* Whatever happens to a request, its place in the pool is taken, kept     *)
(* over all attempts and given back as a concurrency limit's permit is     *)
(* (Pool::admit, forward, RequestRecord): so the pool is never over its    *)
(* cap, as is proved of every ConcurrencyLimit.                            *)
THEOREM PoolImplementsLimit == Spec => PoolIsALimit
<1>1. Init => HoldsOK
  BY DEF Init, HoldsOK, Phases
<1>2. Init => Places!Init
  <2>1. ASSUME Init PROVE Permits = [r \in Requests |-> "none"]
    <3>1. HoldsOK /\ at = [r \in Requests |-> "idle"]
      BY <1>1, <2>1 DEF Init
    <3>2. \A r \in Requests : PermitOf(r) = "none"
      BY <3>1, PermitOfRequest DEF PermitAt
    <3>3. QED
      BY <3>2 DEF Permits
  <2>2. QED
    BY <2>1 DEF Init, Permits, Places!Init
<1>3. HoldsOK /\ [Next]_vars => HoldsOK' /\ [Places!Next]_(<<in_flight, Permits>>)
  BY StepsAreTheLimits
<1>4. QED
  BY <1>1, <1>2, <1>3, PTL DEF Spec, PoolIsALimit, Places!Spec, Places!vars, Permits

-----------------------------------------------------------------------------
(* NeverSentTwice is not inductive: what makes it so is that a request is  *)
(* performed no more often than it was attempted, less often until the     *)
(* attempt is through, and is on its way to another attempt only if it may *)
(* be repeated.                                                            *)
Repeatable(k) == IsReplayable(k.idempotent, k.frames > 0)

Fits(place, n, done, through, k) ==
  /\ n \in 0..MaxAttempts /\ done \in 0..n
  /\ place \in {"idle", "admitting", "full", "counted", "answering", "done"} => n = 0
  /\ place = "waiting" /\ ~ through => done < n
  /\ place \in {"selecting", "chosen"} => n < MaxAttempts
  /\ n = MaxAttempts \/ (place \in {"selecting", "chosen"} /\ n > 0) => Repeatable(k)

AttemptsOK ==
  /\ at \in [Requests -> Phases]
  /\ attempts \in [Requests -> Nat] /\ performed \in [Requests -> Nat]
  /\ reached \in [Requests -> BOOLEAN]
  /\ kind = [r \in Requests |-> kind[r]]
  /\ \A r \in Requests : Fits(at[r], attempts[r], performed[r], reached[r], kind[r])

Turns(r, place, n, done, through, k) ==
  /\ at' = [at EXCEPT ![r] = place]
  /\ attempts' = [attempts EXCEPT ![r] = n]
  /\ performed' = [performed EXCEPT ![r] = done]
  /\ reached' = [reached EXCEPT ![r] = through]
  /\ kind' = [kind EXCEPT ![r] = k]

LEMMA OneRequestTurns ==
  ASSUME AttemptsOK, NEW r \in Requests, NEW place \in Phases, NEW n, NEW done,
         NEW through \in BOOLEAN, NEW k, Turns(r, place, n, done, through, k),
         Fits(place, n, done, through, k)
  PROVE  AttemptsOK'
<1>1. n \in Nat /\ done \in Nat
  BY DEF Fits, MaxAttempts
<1>2. /\ at' \in [Requests -> Phases]
      /\ attempts' \in [Requests -> Nat] /\ performed' \in [Requests -> Nat]
      /\ kind' = [q \in Requests |-> kind'[q]]
  BY <1>1 DEF AttemptsOK, Turns
<1>3. reached' \in [Requests -> BOOLEAN]
  BY Zenon DEF AttemptsOK, Turns
<1>4. ASSUME NEW q \in Requests
      PROVE  Fits(at'[q], attempts'[q], performed'[q], reached'[q], kind'[q])
  <2>1. CASE q = r
    <3>1. at'[q] = place /\ attempts'[q] = n /\ performed'[q] = done /\ kind'[q] = k
      BY <2>1 DEF AttemptsOK, Turns
    <3>2. reached'[q] = through
      BY <2>1 DEF AttemptsOK, Turns
    <3>3. QED
      BY <3>1, <3>2
  <2>2. CASE q # r
    <3>1. /\ at'[q] = at[q] /\ attempts'[q] = attempts[q] /\ performed'[q] = performed[q]
          /\ kind'[q] = kind[q]
      BY <2>2 DEF AttemptsOK, Turns
    <3>2. reached'[q] = reached[q]
      BY <2>2 DEF AttemptsOK, Turns
    <3>3. QED
      BY <3>1, <3>2 DEF AttemptsOK
  <2>3. QED
    BY <2>1, <2>2
<1>5. QED
  BY <1>2, <1>3, <1>4 DEF AttemptsOK

(* What leaving each of them alone is.                                     *)
LEMMA NoTurn ==
  ASSUME AttemptsOK, NEW r \in Requests
  PROVE  /\ at[r] \in Phases /\ reached[r] \in BOOLEAN
         /\ Fits(at[r], attempts[r], performed[r], reached[r], kind[r])
         /\ at = [at EXCEPT ![r] = at[r]]
         /\ attempts = [attempts EXCEPT ![r] = attempts[r]]
         /\ performed = [performed EXCEPT ![r] = performed[r]]
         /\ reached = [reached EXCEPT ![r] = reached[r]]
         /\ kind = [kind EXCEPT ![r] = kind[r]]
<1>1. /\ at[r] \in Phases
      /\ Fits(at[r], attempts[r], performed[r], reached[r], kind[r])
      /\ at = [at EXCEPT ![r] = at[r]]
      /\ attempts = [attempts EXCEPT ![r] = attempts[r]]
      /\ performed = [performed EXCEPT ![r] = performed[r]]
      /\ kind = [kind EXCEPT ![r] = kind[r]]
  BY DEF AttemptsOK
<1>2. reached[r] \in BOOLEAN /\ reached = [reached EXCEPT ![r] = reached[r]]
  BY DEF AttemptsOK
<1>3. QED
  BY <1>1, <1>2

(* A request answered or reported has no attempts any more.                *)
LEMMA AnsweredFits ==
  ASSUME AttemptsOK, NEW r \in Requests, NEW place \in {"answering", "done"}, NEW k,
         Turns(r, place, 0, 0, FALSE, k)
  PROVE  AttemptsOK'
<1>1. Fits(place, 0, 0, FALSE, k)
  BY DEF Fits, MaxAttempts
<1>2. place \in Phases /\ FALSE \in BOOLEAN
  BY DEF Phases
<1>3. QED
  BY <1>1, <1>2, OneRequestTurns, Zenon

LEMMA RespondKeepsAttempts ==
  ASSUME AttemptsOK, NEW r \in Requests, NEW a, Respond(r, a), UNCHANGED kind
  PROVE  AttemptsOK'
<1>1. Turns(r, "answering", 0, 0, FALSE, kind[r])
  BY NoTurn DEF Respond, Turns
<1>2. QED
  BY <1>1, AnsweredFits, Zenon

LEMMA ReportKeepsAttempts ==
  ASSUME AttemptsOK, NEW r \in Requests, NEW places, Report(r, places)
  PROVE  AttemptsOK'
<1>1. Turns(r, "done", 0, 0, FALSE, None)
  BY DEF Report, Turns
<1>2. QED
  BY <1>1, AnsweredFits, Zenon

(* A request that moves on without an attempt being made or getting        *)
(* through.                                                                *)
LEMMA MovesOn ==
  ASSUME AttemptsOK, NEW r \in Requests, NEW place \in Phases,
         at' = [at EXCEPT ![r] = place],
         UNCHANGED <<attempts, performed, reached, kind>>,
         Fits(place, attempts[r], performed[r], reached[r], kind[r])
  PROVE  AttemptsOK'
<1>1. Turns(r, place, attempts[r], performed[r], reached[r], kind[r])
  BY NoTurn DEF Turns
<1>2. QED
  BY <1>1, NoTurn, OneRequestTurns

LEMMA HandleKeepsAttempts ==
  ASSUME AttemptsOK, NEW r \in Requests, NEW k, Handle(r, k)
  PROVE  AttemptsOK'
<1>1. CASE \E a : Respond(r, a)
  <2>1. Turns(r, "answering", 0, 0, FALSE, k)
    BY <1>1 DEF Handle, Respond, Turns
  <2>2. QED
    BY <2>1, AnsweredFits, Zenon
<1>2. CASE at' = [at EXCEPT ![r] = "admitting"] /\ UNCHANGED <<attempts, history>>
  <2>1. Turns(r, "admitting", attempts[r], performed[r], reached[r], k)
    BY <1>2, NoTurn DEF Handle, Turns, history
  <2>2. Fits("admitting", attempts[r], performed[r], reached[r], k)
    <3>1. at[r] = "idle"
      BY DEF Handle
    <3>2. attempts[r] = 0 /\ performed[r] \in 0..0
      BY <3>1, NoTurn DEF Fits
    <3>3. QED
      BY <3>2 DEF Fits, MaxAttempts
  <2>3. "admitting" \in Phases
    BY DEF Phases
  <2>4. QED
    BY <2>1, <2>2, <2>3, NoTurn, OneRequestTurns
<1>3. QED
  BY <1>1, <1>2 DEF Handle

LEMMA AdmissionKeepsAttempts ==
  ASSUME AttemptsOK, NEW r \in Requests, Admit(r) \/ Admitted(r) \/ Select(r) \/ Wake(r)
  PROVE  AttemptsOK'
<1>1. CASE UNCHANGED <<at, attempts, performed, reached, kind>>
  BY <1>1, SMTT(30) DEF AttemptsOK
<1>2. CASE ~ UNCHANGED at
  <2>1. PICK place \in {"full", "counted", "selecting", "chosen", "overdue"} :
          /\ at' = [at EXCEPT ![r] = place]
          /\ place \in {"full", "counted"} => at[r] = "admitting"
          /\ place = "selecting" => at[r] = "counted"
          /\ place = "chosen" => at[r] = "selecting"
          /\ place = "overdue" => at[r] = "waiting"
    BY <1>2, ZenonT(30) DEF Admit, Admitted, Select, Wake
  <2>2. UNCHANGED <<attempts, performed, reached, kind>>
    BY Zenon DEF Admit, Admitted, Select, Wake, history
  <2>3. Fits(place, attempts[r], performed[r], reached[r], kind[r])
    BY <2>1, NoTurn, SMTT(30) DEF Fits, MaxAttempts
  <2>4. QED
    BY <2>1, <2>2, <2>3, MovesOn, ZenonT(30) DEF Phases
<1>3. QED
  BY <1>1, <1>2 DEF Admit, Admitted, Select, Wake, history

LEMMA AttemptKeepsAttempts ==
  ASSUME AttemptsOK, NEW r \in Requests, Attempt(r)
  PROVE  AttemptsOK'
<1>1. Turns(r, "waiting", attempts[r] + 1, performed[r], FALSE, kind[r])
  BY NoTurn DEF Attempt, Turns
<1>2. Fits("waiting", attempts[r] + 1, performed[r], FALSE, kind[r])
  BY NoTurn DEF Attempt, Fits, MaxAttempts
<1>3. "waiting" \in Phases /\ FALSE \in BOOLEAN
  BY DEF Phases
<1>4. QED
  BY <1>1, <1>2, <1>3, OneRequestTurns, Zenon

LEMMA ReachKeepsAttempts ==
  ASSUME AttemptsOK, NEW r \in Requests, Reach(r)
  PROVE  AttemptsOK'
<1>1. Turns(r, at[r], attempts[r], performed[r] + 1, TRUE, kind[r])
  BY NoTurn DEF Reach, Turns, handler
<1>2. Fits(at[r], attempts[r], performed[r] + 1, TRUE, kind[r])
  BY NoTurn, SMTT(30) DEF Reach, Fits, MaxAttempts
<1>3. QED
  BY <1>1, <1>2, NoTurn, OneRequestTurns, Zenon

LEMMA SendFailsKeepsAttempts ==
  ASSUME AttemptsOK, NEW r \in Requests, SendFails(r)
  PROVE  AttemptsOK'
<1>1. CASE Report(r, 1)
  BY <1>1, ReportKeepsAttempts
<1>2. CASE UNCHANGED kind /\ \E why : GiveUp(r, why)
  BY <1>2, RespondKeepsAttempts, SMTT(30) DEF GiveUp
<1>3. CASE /\ at' = [at EXCEPT ![r] = "selecting"]
           /\ UNCHANGED <<attempts, performed, reached, kind>>
           /\ \E failure : MayRetry(Replayable(r), attempts[r], failure)
  <2>1. Repeatable(kind[r]) /\ attempts[r] < MaxAttempts
    BY <1>3 DEF MayRetry, Replayable, Repeatable
  <2>2. Fits("selecting", attempts[r], performed[r], reached[r], kind[r])
    BY <2>1, NoTurn DEF Fits
  <2>3. QED
    BY <1>3, <2>2, MovesOn, Zenon DEF Phases
<1>4. QED
  BY <1>1, <1>2, <1>3, Zenon DEF SendFails, history

LEMMA AttemptsAreKept == AttemptsOK /\ [Next]_vars => AttemptsOK'
<1> SUFFICES ASSUME AttemptsOK, [Next]_vars PROVE AttemptsOK'
  OBVIOUS
<1>1. CASE UNCHANGED <<at, attempts, performed, reached, kind>>
  BY <1>1 DEF AttemptsOK
<1>2. CASE UNCHANGED vars \/ Tick \/ \E r \in Requests : Poll(r) \/ Write(r)
  BY <1>1, <1>2 DEF vars, handler, history, Tick, Poll, Write
<1>3. ASSUME NEW r \in Requests, \E k \in Kinds[r] : Handle(r, k) PROVE AttemptsOK'
  BY <1>3, HandleKeepsAttempts
<1>4. ASSUME NEW r \in Requests, Step(r) PROVE AttemptsOK'
  <2>1. CASE Admit(r) \/ Admitted(r) \/ Select(r) \/ Wake(r)
    BY <2>1, AdmissionKeepsAttempts
  <2>2. CASE Attempt(r)
    BY <2>2, AttemptKeepsAttempts
  <2>3. CASE TurnAway(r) \/ OverRate(r) \/ NoneHealthy(r) \/ Blame(r)
    <3>1. UNCHANGED kind /\ \E a : Respond(r, a)
      BY <2>3 DEF TurnAway, OverRate, NoneHealthy, Blame, GiveUp
    <3>2. QED
      BY <3>1, RespondKeepsAttempts
  <2>4. QED
    BY <1>4, <2>1, <2>2, <2>3 DEF Step
<1>5. ASSUME NEW r \in Requests, Reach(r) \/ Reply(r) \/ SendFails(r) \/ Leave(r) \/ Finish(r)
      PROVE  AttemptsOK'
  <2>1. CASE Reply(r)
    BY <2>1, RespondKeepsAttempts DEF Reply
  <2>2. CASE Leave(r) \/ Finish(r)
    BY <2>2, ReportKeepsAttempts DEF Leave, Finish
  <2>3. QED
    BY <1>5, <2>1, <2>2, ReachKeepsAttempts, SendFailsKeepsAttempts
<1>6. QED
  BY <1>2, <1>3, <1>4, <1>5 DEF Next

LEMMA AttemptsInit == Init => AttemptsOK
<1>1. ASSUME Init PROVE reached \in [Requests -> BOOLEAN]
  BY <1>1 DEF Init
<1>2. Init => /\ at \in [Requests -> Phases]
              /\ attempts \in [Requests -> Nat] /\ performed \in [Requests -> Nat]
              /\ kind = [r \in Requests |-> kind[r]]
  BY DEF Init, Phases
<1>3. Init => \A r \in Requests :
                Fits(at[r], attempts[r], performed[r], reached[r], kind[r])
  BY DEF Init, Fits, MaxAttempts
<1>4. QED
  BY <1>1, <1>2, <1>3 DEF AttemptsOK

(* A request that is not both idempotent and without a body reaches at     *)
(* most one backend, and no request more than MaxAttempts, whatever fails  *)
(* and whenever: for any backends, policy, bodies and failures the client  *)
(* may report (forward, may_retry).                                        *)
THEOREM SentTwiceOnlyIfRepeatable == Spec => []NeverSentTwice
<1>1. AttemptsOK => NeverSentTwice
  <2> SUFFICES ASSUME AttemptsOK, NEW r \in Requests, performed[r] > 1
               PROVE  Replayable(r) /\ performed[r] <= MaxAttempts
    BY DEF NeverSentTwice
  <2>1. QED
    BY NoTurn DEF Fits, MaxAttempts, Replayable, Repeatable
<1>2. QED
  BY <1>1, AttemptsInit, AttemptsAreKept, PTL DEF Spec

-----------------------------------------------------------------------------
(* The counters.  PlacesAreHeld is inductive beside HoldsOK and the types  *)
(* of the counters: a step of a request changes each counter by what it    *)
(* changes of the request.                                                 *)
One(cond) == IF cond THEN 1 ELSE 0
Live(place) == place \notin {"idle", "done"}

CountsOK ==
  /\ HoldsOK /\ PlacesAreHeld
  /\ load \in [Backends -> Int] /\ upstream_in_flight \in [Backends -> Int]
  /\ requests_in_flight \in Int

(* How the size of a set of requests goes up and down: proved at the end   *)
(* of the module.                                                          *)
SizesOK ==
  /\ Cardinality({}) = 0
  /\ \A S \in SUBSET Requests : Cardinality(S) \in Nat
  /\ \A x \in Requests, S \in SUBSET Requests, T \in SUBSET Requests :
       (\A y \in Requests : y # x => (y \in S <=> y \in T)) =>
         Cardinality(T) = Cardinality(S) + One(x \in T) - One(x \in S)

(* What a step of a request must do to the counters.                       *)
Recounts(r, place, backend) ==
  /\ in_flight' = in_flight + One(PermitAt(place, backend) # "none")
                            - One(PermitAt(at[r], busy[r]) # "none")
  /\ requests_in_flight' = requests_in_flight + One(Live(place)) - One(Live(at[r]))
  /\ load' \in [Backends -> Int] /\ upstream_in_flight' \in [Backends -> Int]
  /\ \A b \in Backends :
       /\ upstream_in_flight'[b] = upstream_in_flight[b] + One(backend = b) - One(busy[r] = b)
       /\ Policy = "LeastRequest" => load'[b] = load[b] + One(backend = b) - One(busy[r] = b)

LEMMA CountedIsPermitted ==
  ASSUME HoldsOK, NEW r \in Requests
  PROVE  Counted(r) <=> PermitAt(at[r], busy[r]) # "none"
<1>1. at[r] \in Phases
  BY DEF HoldsOK
<1>2. QED
  BY <1>1 DEF HoldsOK, Counted, Forwarding, PermitAt, Phases

LEMMA CountedIsPermittedNext ==
  ASSUME HoldsOK', NEW r \in Requests
  PROVE  Counted(r)' <=> PermitAt(at'[r], busy'[r]) # "none"
<1>1. at'[r] \in Phases
  BY DEF HoldsOK
<1>2. QED
  BY <1>1 DEF HoldsOK, Counted, Forwarding, PermitAt, Phases

LEMMA RecountsKeepCounts ==
  ASSUME SizesOK, CountsOK, NEW r \in Requests, NEW place, NEW choice, NEW backend,
         MayMove(place, choice, backend), Moves(r, place, choice, backend),
         Recounts(r, place, backend)
  PROVE  CountsOK'
<1>1. HoldsOK
  BY DEF CountsOK
<1>2. in_flight' \in Int /\ requests_in_flight' \in Int
  BY <1>1 DEF CountsOK, HoldsOK, Recounts, One
<1>3. HoldsOK'
  BY <1>1, <1>2, OneRequestMoves DEF MayMove
<1>4. \A q \in Requests :
        /\ q = r => at'[q] = place /\ busy'[q] = backend
        /\ q # r => at'[q] = at[q] /\ busy'[q] = busy[q]
  BY <1>1, SMTT(30) DEF HoldsOK, Moves
<1>5. in_flight' = Cardinality({q \in Requests : Counted(q)'})
  <2> DEFINE S == {q \in Requests : Counted(q)}
             T == {q \in Requests : Counted(q)'}
  <2>1. \A q \in Requests : q # r => (q \in S <=> q \in T)
    BY <1>4 DEF Counted, Forwarding
  <2>2. Cardinality(T) = Cardinality(S) + One(r \in T) - One(r \in S)
    <3> HIDE DEF S, T
    <3>1. S \in SUBSET Requests /\ T \in SUBSET Requests
      BY DEF S, T
    <3>2. QED
      BY <2>1, <3>1 DEF SizesOK
  <2>3. /\ r \in S <=> PermitAt(at[r], busy[r]) # "none"
        /\ r \in T <=> PermitAt(place, backend) # "none"
    BY <1>1, <1>3, <1>4, CountedIsPermitted, CountedIsPermittedNext, SMTT(30)
  <2>4. in_flight = Cardinality(S)
    BY DEF CountsOK, PlacesAreHeld
  <2>5. /\ One(r \in S) = One(PermitAt(at[r], busy[r]) # "none")
        /\ One(r \in T) = One(PermitAt(place, backend) # "none")
    BY <2>3, SMTT(30) DEF One
  <2>6. QED
    BY <2>2, <2>4, <2>5, ZenonT(30) DEF Recounts
<1>6. requests_in_flight' = Cardinality({q \in Requests : at'[q] \notin {"idle", "done"}})
  <2> DEFINE S == {q \in Requests : at[q] \notin {"idle", "done"}}
             T == {q \in Requests : at'[q] \notin {"idle", "done"}}
  <2>1. \A q \in Requests : q # r => (q \in S <=> q \in T)
    BY <1>4
  <2>2. Cardinality(T) = Cardinality(S) + One(r \in T) - One(r \in S)
    <3> HIDE DEF S, T
    <3>1. S \in SUBSET Requests /\ T \in SUBSET Requests
      BY DEF S, T
    <3>2. QED
      BY <2>1, <3>1 DEF SizesOK
  <2>3. One(r \in S) = One(Live(at[r])) /\ One(r \in T) = One(Live(place))
    BY <1>4 DEF One, Live
  <2>4. QED
    BY <2>2, <2>3, Zenon DEF CountsOK, PlacesAreHeld, Recounts
<1>7. ASSUME NEW b \in Backends
      PROVE  /\ upstream_in_flight'[b] = Cardinality({q \in Requests : busy'[q] = b})
             /\ Policy = "LeastRequest" => load'[b] = upstream_in_flight'[b]
  <2> DEFINE S == {q \in Requests : busy[q] = b}
             T == {q \in Requests : busy'[q] = b}
  <2>1. \A q \in Requests : q # r => (q \in S <=> q \in T)
    BY <1>4
  <2>2. Cardinality(T) = Cardinality(S) + One(r \in T) - One(r \in S)
    <3> HIDE DEF S, T
    <3>1. S \in SUBSET Requests /\ T \in SUBSET Requests
      BY DEF S, T
    <3>2. QED
      BY <2>1, <3>1 DEF SizesOK
  <2>3. One(r \in S) = One(busy[r] = b) /\ One(r \in T) = One(backend = b)
    BY <1>4 DEF One
  <2>4. upstream_in_flight[b] = Cardinality(S)
        /\ (Policy = "LeastRequest" => load[b] = upstream_in_flight[b])
    BY SMTT(30) DEF CountsOK, PlacesAreHeld
  <2>5. /\ upstream_in_flight'[b] =
             upstream_in_flight[b] + One(backend = b) - One(busy[r] = b)
        /\ Policy = "LeastRequest" =>
             load'[b] = load[b] + One(backend = b) - One(busy[r] = b)
    BY Zenon DEF Recounts
  <2> HIDE DEF S, T
  <2>6. upstream_in_flight'[b] = Cardinality(T)
    BY <2>2, <2>3, <2>4, <2>5, Zenon
  <2>7. ASSUME Policy = "LeastRequest" PROVE load'[b] = upstream_in_flight'[b]
    BY <2>4, <2>5, <2>7, ZenonT(30)
  <2>8. QED
    BY <2>6, <2>7 DEF T
<1>8. PlacesAreHeld'
  BY <1>5, <1>6, <1>7 DEF PlacesAreHeld
<1>9. QED
  BY <1>2, <1>3, <1>8 DEF CountsOK, Recounts

(* One backend more, one less.                                             *)
LEMMA WithoutOne ==
  ASSUME NEW counts \in [Backends -> Int], NEW x \in Backends \cup {None}
  PROVE  /\ Without(counts, x) \in [Backends -> Int]
         /\ \A b \in Backends : Without(counts, x)[b] = counts[b] - One(x = b)
  BY NoneAssumption DEF Without, One

LEMMA BusyDropped ==
  ASSUME SizesOK, CountsOK, NEW r \in Requests, DropBusy(r)
  PROVE  /\ load' \in [Backends -> Int] /\ upstream_in_flight' \in [Backends -> Int]
         /\ \A b \in Backends :
              /\ upstream_in_flight'[b] =
                   upstream_in_flight[b] + One(None = b) - One(busy[r] = b)
              /\ Policy = "LeastRequest" =>
                   load'[b] = load[b] + One(None = b) - One(busy[r] = b)
<1>1. busy[r] \in Backends \cup {None} /\ GuardOf(busy[r]) \in Backends \cup {None}
  BY DEF CountsOK, HoldsOK, GuardOf
<1>2. load \in [Backends -> Int] /\ upstream_in_flight \in [Backends -> Int]
  BY DEF CountsOK
<1>3. /\ upstream_in_flight' \in [Backends -> Int]
      /\ \A b \in Backends : upstream_in_flight'[b] = upstream_in_flight[b] - One(busy[r] = b)
  BY <1>1, <1>2, WithoutOne DEF DropBusy
<1>4. /\ load' \in [Backends -> Int]
      /\ \A b \in Backends : load'[b] = load[b] - One(GuardOf(busy[r]) = b)
  BY <1>1, <1>2, WithoutOne DEF DropBusy
<1>5. \A b \in Backends : One(None = b) = 0
  BY NoneAssumption DEF One
<1>6. Policy = "LeastRequest" => GuardOf(busy[r]) = busy[r]
  BY DEF GuardOf
<1>7. \A b \in Backends : load[b] \in Int /\ upstream_in_flight[b] \in Int /\ One(busy[r] = b) \in Int
  BY <1>2 DEF One
<1>8. QED
  BY <1>3, <1>4, <1>5, <1>6, <1>7

(* Steps that keep what the request holds.                                 *)
LEMMA KeepsBusy ==
  ASSUME SizesOK, CountsOK, NEW r \in Requests, UNCHANGED <<load, upstream_in_flight>>
  PROVE  /\ load' \in [Backends -> Int] /\ upstream_in_flight' \in [Backends -> Int]
         /\ \A b \in Backends :
              /\ upstream_in_flight'[b] =
                   upstream_in_flight[b] + One(busy[r] = b) - One(busy[r] = b)
              /\ Policy = "LeastRequest" =>
                   load'[b] = load[b] + One(busy[r] = b) - One(busy[r] = b)
  BY DEF CountsOK, One

LEMMA CountsUntouched ==
  ASSUME SizesOK, CountsOK, UNCHANGED <<at, chosen, busy, pool, metrics>>
  PROVE  CountsOK'
<1>1. HoldsOK'
  BY Untouched DEF CountsOK, pool
<1>2. PlacesAreHeld'
  BY DEF CountsOK, PlacesAreHeld, Counted, Forwarding, pool, metrics
<1>3. QED
  BY <1>1, <1>2 DEF CountsOK, pool, metrics

LEMMA QuietCounts ==
  ASSUME SizesOK, CountsOK, NEW r \in Requests, NEW place, NEW choice,
         MayMove(place, choice, busy[r]), Moves(r, place, choice, busy[r]),
         PermitAt(place, busy[r]) = PermitAt(at[r], busy[r]), Live(place) <=> Live(at[r]),
         UNCHANGED <<load, upstream_in_flight, in_flight, requests_in_flight>>
  PROVE  CountsOK'
<1>1. in_flight' = in_flight + One(PermitAt(place, busy[r]) # "none")
                             - One(PermitAt(at[r], busy[r]) # "none")
  BY DEF CountsOK, HoldsOK, One
<1>2. requests_in_flight' = requests_in_flight + One(Live(place)) - One(Live(at[r]))
  BY SMTT(30) DEF CountsOK, One
<1>3. Recounts(r, place, busy[r])
  BY <1>1, <1>2, KeepsBusy, SMTT(30) DEF Recounts
<1>4. QED
  BY <1>3, RecountsKeepCounts

LEMMA HandleCounts ==
  ASSUME SizesOK, CountsOK, NEW r \in Requests, NEW k, Handle(r, k)
  PROVE  CountsOK'
<1>1. HoldsOK
  BY DEF CountsOK
<1>2. PICK place \in {"admitting", "answering"} : at' = [at EXCEPT ![r] = place]
  BY DEF Handle, Respond
<1>3. Moves(r, place, chosen[r], busy[r]) /\ busy[r] = None /\ at[r] = "idle"
  BY <1>1, <1>2, OfOneRequest DEF Handle, Moves
<1>4. MayMove(place, chosen[r], busy[r])
  BY <1>1, <1>3, OfOneRequest DEF MayMove, Phases
<1>5. in_flight' = in_flight + One(PermitAt(place, busy[r]) # "none")
                             - One(PermitAt(at[r], busy[r]) # "none")
  BY <1>1, <1>3 DEF HoldsOK, Handle, pool, One, PermitAt
<1>6. requests_in_flight' = requests_in_flight + One(Live(place)) - One(Live(at[r]))
  BY <1>3, SMTT(30) DEF CountsOK, Handle, One, Live
<1>7. Recounts(r, place, busy[r])
  BY <1>5, <1>6, KeepsBusy, Zenon DEF Recounts, Handle, pool
<1>8. QED
  BY <1>3, <1>4, <1>7, RecountsKeepCounts

LEMMA AdmissionCounts ==
  ASSUME SizesOK, CountsOK, NEW r \in Requests, Admit(r) \/ TurnAway(r) \/ OverRate(r)
  PROVE  CountsOK'
<1>1. HoldsOK
  BY DEF CountsOK
<1>2. PICK place \in {"full", "counted", "answering"} :
        /\ at' = [at EXCEPT ![r] = place]
        /\ \/ place # "answering" /\ at[r] = "admitting" /\ in_flight' = in_flight + 1
           \/ place = "answering" /\ at[r] \in {"full", "counted"} /\ in_flight' = in_flight - 1
  BY SMTT(30) DEF Admit, TurnAway, OverRate, Respond
<1>3. UNCHANGED <<chosen, busy, load, metrics>>
  BY Zenon DEF Admit, TurnAway, OverRate
<1>4. Moves(r, place, chosen[r], busy[r]) /\ busy[r] = None
  BY <1>1, <1>2, <1>3, OfOneRequest DEF Moves
<1>5. MayMove(place, chosen[r], busy[r])
  BY <1>1, <1>4, OfOneRequest DEF MayMove, Phases
<1>6. in_flight' = in_flight + One(PermitAt(place, busy[r]) # "none")
                             - One(PermitAt(at[r], busy[r]) # "none")
  BY <1>1, <1>2, <1>4 DEF HoldsOK, One, PermitAt
<1>7. requests_in_flight' = requests_in_flight + One(Live(place)) - One(Live(at[r]))
  BY <1>2, <1>3, SMTT(30) DEF CountsOK, One, Live, metrics
<1>8. Recounts(r, place, busy[r])
  BY <1>3, <1>6, <1>7, KeepsBusy DEF Recounts, metrics
<1>9. QED
  BY <1>4, <1>5, <1>8, RecountsKeepCounts

LEMMA GiveUpCounts ==
  ASSUME SizesOK, CountsOK, NEW r \in Requests, NEW why, Forwarding(r), GiveUp(r, why),
         UNCHANGED <<chosen, requests_in_flight>>
  PROVE  CountsOK'
<1>1. HoldsOK
  BY DEF CountsOK
<1>2. Moves(r, "answering", chosen[r], None) /\ MayMove("answering", chosen[r], None)
  BY <1>1, OfOneRequest DEF GiveUp, DropBusy, Respond, Moves, MayMove, Phases
<1>3. in_flight' = in_flight + One(PermitAt("answering", None) # "none")
                             - One(PermitAt(at[r], busy[r]) # "none")
  BY <1>1 DEF HoldsOK, GiveUp, Forwarding, One, PermitAt
<1>4. requests_in_flight' = requests_in_flight + One(Live("answering")) - One(Live(at[r]))
  BY SMTT(30) DEF CountsOK, Forwarding, One, Live
<1>5. Recounts(r, "answering", None)
  BY <1>3, <1>4, BusyDropped, SMTT(30) DEF Recounts, GiveUp
<1>6. QED
  BY <1>2, <1>5, RecountsKeepCounts

LEMMA ReportCounts ==
  ASSUME SizesOK, CountsOK, NEW r \in Requests, NEW places, Report(r, places),
         at[r] \in {"waiting", "answering"},
         places = One(PermitAt(at[r], busy[r]) # "none")
  PROVE  CountsOK'
<1>1. HoldsOK
  BY DEF CountsOK
<1>2. Moves(r, "done", chosen[r], None) /\ MayMove("done", chosen[r], None)
  BY <1>1, OfOneRequest, SMTT(30) DEF Report, DropBusy, Moves, MayMove, Phases
<1>3. in_flight' = in_flight + One(PermitAt("done", None) # "none")
                             - One(PermitAt(at[r], busy[r]) # "none")
  <2>1. One(PermitAt("done", None) # "none") = 0
    BY DEF One, PermitAt
  <2>2. One(PermitAt(at[r], busy[r]) # "none") \in Int
    BY DEF One
  <2>3. in_flight' = in_flight - One(PermitAt(at[r], busy[r]) # "none") /\ in_flight \in Int
    BY <1>1 DEF HoldsOK, Report
  <2>4. QED
    BY <2>1, <2>2, <2>3
<1>4. requests_in_flight' = requests_in_flight + One(Live("done")) - One(Live(at[r]))
  BY SMTT(30) DEF CountsOK, Report, One, Live
<1>5. Recounts(r, "done", None)
  BY <1>3, <1>4, BusyDropped, ZenonT(30) DEF Recounts, Report
<1>6. QED
  BY <1>2, <1>5, RecountsKeepCounts, SMTT(30)

LEMMA AttemptCounts ==
  ASSUME SizesOK, CountsOK, NEW r \in Requests, Attempt(r)
  PROVE  CountsOK'
<1> DEFINE More(counts, x) == IF x = None THEN counts ELSE [counts EXCEPT ![x] = @ + 1]
<1>1. HoldsOK
  BY DEF CountsOK
<1>2. /\ Moves(r, "waiting", None, chosen[r]) /\ at[r] = "chosen"
      /\ chosen[r] \in Backends /\ busy[r] \in Backends \cup {None}
  BY <1>1, OfOneRequest DEF Attempt, Moves
<1>3. MayMove("waiting", None, chosen[r])
  BY <1>2, NoneAssumption DEF MayMove, Phases
<1>4. ASSUME NEW counts \in [Backends -> Int], NEW x \in Backends \cup {None}
      PROVE  /\ More(counts, x) \in [Backends -> Int]
             /\ \A b \in Backends : More(counts, x)[b] = counts[b] + One(x = b)
  BY NoneAssumption DEF One
<1>5. GuardOf(chosen[r]) \in Backends \cup {None} /\ GuardOf(busy[r]) \in Backends \cup {None}
  BY <1>2, SMTT(30) DEF GuardOf
<1>6. /\ load' = Without(More(load, GuardOf(chosen[r])), GuardOf(busy[r]))
      /\ upstream_in_flight' = Without(More(upstream_in_flight, chosen[r]), busy[r])
  BY SMTT(30) DEF Attempt
<1>7. /\ upstream_in_flight' \in [Backends -> Int]
      /\ \A b \in Backends : upstream_in_flight'[b] =
           upstream_in_flight[b] + One(chosen[r] = b) - One(busy[r] = b)
  <2> HIDE DEF More
  <2>1. More(upstream_in_flight, chosen[r]) \in [Backends -> Int]
    BY <1>2, <1>4 DEF CountsOK
  <2>2. \A b \in Backends : More(upstream_in_flight, chosen[r])[b] =
                              upstream_in_flight[b] + One(chosen[r] = b)
    BY <1>2, <1>4, SMTT(30) DEF CountsOK
  <2>3. /\ upstream_in_flight' \in [Backends -> Int]
        /\ \A b \in Backends : upstream_in_flight'[b] =
             More(upstream_in_flight, chosen[r])[b] - One(busy[r] = b)
    BY <1>2, <1>6, <2>1, WithoutOne
  <2>4. \A b \in Backends : /\ upstream_in_flight[b] \in Int
                            /\ One(chosen[r] = b) \in Int /\ One(busy[r] = b) \in Int
    BY DEF CountsOK, One
  <2>5. ASSUME NEW b \in Backends
        PROVE  upstream_in_flight'[b] = upstream_in_flight[b] + One(chosen[r] = b) - One(busy[r] = b)
    BY <2>2, <2>3, <2>4, SMTT(30)
  <2>6. QED
    BY <2>3, <2>5, ZenonT(30)
<1>8. /\ load' \in [Backends -> Int]
      /\ \A b \in Backends : load'[b] =
           load[b] + One(GuardOf(chosen[r]) = b) - One(GuardOf(busy[r]) = b)
  <2> HIDE DEF More
  <2>1. More(load, GuardOf(chosen[r])) \in [Backends -> Int]
    BY <1>5, <1>4 DEF CountsOK
  <2>2. \A b \in Backends : More(load, GuardOf(chosen[r]))[b] =
                              load[b] + One(GuardOf(chosen[r]) = b)
    BY <1>5, <1>4, SMTT(30) DEF CountsOK
  <2>3. /\ load' \in [Backends -> Int]
        /\ \A b \in Backends : load'[b] =
             More(load, GuardOf(chosen[r]))[b] - One(GuardOf(busy[r]) = b)
    BY <1>5, <1>6, <2>1, WithoutOne
  <2>4. \A b \in Backends : /\ load[b] \in Int /\ One(GuardOf(chosen[r]) = b) \in Int
                            /\ One(GuardOf(busy[r]) = b) \in Int
    BY DEF CountsOK, One
  <2>5. ASSUME NEW b \in Backends
        PROVE  load'[b] = load[b] + One(GuardOf(chosen[r]) = b) - One(GuardOf(busy[r]) = b)
    BY <2>2, <2>3, <2>4, SMTT(30)
  <2>6. QED
    BY <2>3, <2>5, Zenon
<1>9. Policy = "LeastRequest" => GuardOf(chosen[r]) = chosen[r] /\ GuardOf(busy[r]) = busy[r]
  BY DEF GuardOf
<1>10. in_flight' = in_flight + One(PermitAt("waiting", chosen[r]) # "none")
                              - One(PermitAt(at[r], busy[r]) # "none")
  BY <1>1, <1>2, SMTT(30) DEF HoldsOK, Attempt, One, PermitAt
<1>11. requests_in_flight' = requests_in_flight + One(Live("waiting")) - One(Live(at[r]))
  <2>1. requests_in_flight \in Int /\ requests_in_flight' = requests_in_flight
    BY Zenon DEF CountsOK, Attempt
  <2>2. One(Live("waiting")) = 1 /\ One(Live(at[r])) = 1
    BY <1>2 DEF One, Live
  <2>3. QED
    BY <2>1, <2>2
<1>12. Recounts(r, "waiting", chosen[r])
  BY <1>7, <1>8, <1>9, <1>10, <1>11, ZenonT(30) DEF Recounts
<1>13. QED
  BY <1>2, <1>3, <1>12, RecountsKeepCounts, Zenon

LEMMA QuietStepsCount ==
  ASSUME SizesOK, CountsOK, NEW r \in Requests, NEW place \in Phases, NEW choice \in Backends \cup {None},
         at' = [at EXCEPT ![r] = place], chosen' = [chosen EXCEPT ![r] = choice],
         UNCHANGED <<busy, load, upstream_in_flight, in_flight, requests_in_flight>>,
         \/ place = "selecting" /\ at[r] \in {"counted", "waiting"}
         \/ place = "chosen" /\ choice # None /\ at[r] = "selecting"
         \/ place \in {"waiting", "overdue", "answering"} /\ at[r] = "waiting"
  PROVE  CountsOK'
<1>1. HoldsOK
  BY DEF CountsOK
<1>2. Moves(r, place, choice, busy[r])
  BY <1>1, OfOneRequest DEF Moves
<1>3. MayMove(place, choice, busy[r])
  BY <1>1, OfOneRequest DEF MayMove
<1>4. PermitAt(place, busy[r]) = PermitAt(at[r], busy[r])
  BY <1>1, OfOneRequest DEF PermitAt
<1>5. Live(place) <=> Live(at[r])
  BY DEF Live
<1>6. QED
  BY <1>2, <1>3, <1>4, <1>5, QuietCounts, Zenon

LEMMA ForwardCounts ==
  ASSUME SizesOK, CountsOK, NEW r \in Requests,
         Admitted(r) \/ Select(r) \/ Wake(r) \/ Reply(r)
  PROVE  CountsOK'
<1>1. /\ chosen[r] \in Backends \cup {None} /\ chosen = [chosen EXCEPT ![r] = chosen[r]]
      /\ at = [at EXCEPT ![r] = at[r]]
  BY OfOneRequest, SMTT(30) DEF CountsOK
<1>2. UNCHANGED <<busy, load, upstream_in_flight, in_flight, requests_in_flight>>
  BY Zenon DEF Admitted, Select, Wake, Reply, pool, metrics
<1>3. CASE Admitted(r)
  BY <1>1, <1>2, <1>3, QuietStepsCount, Zenon DEF Admitted, Phases
<1>4. CASE Select(r)
  <2>1. PICK b \in Backends : chosen' = [chosen EXCEPT ![r] = b]
    BY <1>4, Zenon DEF Select
  <2>2. b # None /\ at[r] = "selecting" /\ at' = [at EXCEPT ![r] = "chosen"]
    BY <1>4, NoneAssumption DEF Select
  <2>3. QED
    BY <1>2, <2>1, <2>2, QuietStepsCount, Zenon DEF Phases
<1>5. CASE Wake(r)
  <2>1. at[r] = "waiting" /\ chosen' = chosen /\ (at' = [at EXCEPT ![r] = "overdue"] \/ at' = at)
    BY <1>5 DEF Wake
  <2>2. PICK place \in {"waiting", "overdue"} : at' = [at EXCEPT ![r] = place]
    BY <1>1, <2>1
  <2>3. QED
    BY <1>1, <1>2, <2>1, <2>2, QuietStepsCount, Zenon DEF Phases
<1>6. CASE Reply(r)
  <2>1. at[r] = "waiting" /\ chosen' = chosen /\ at' = [at EXCEPT ![r] = "answering"]
    BY <1>6, SMTT(30) DEF Reply, Respond
  <2>2. QED
    BY <1>1, <1>2, <2>1, QuietStepsCount, ZenonT(30) DEF Phases
<1>7. QED
  BY <1>3, <1>4, <1>5, <1>6

LEMMA EndsCount ==
  ASSUME SizesOK, CountsOK, NEW r \in Requests, SendFails(r) \/ Leave(r) \/ Finish(r)
  PROVE  CountsOK'
<1>1. CASE at[r] = "waiting" /\ Report(r, 1)
  <2>1. One(PermitAt(at[r], busy[r]) # "none") = 1
    BY <1>1, SMTT(30) DEF One, PermitAt
  <2>2. QED
    BY <1>1, <2>1, ReportCounts, Zenon
<1>2. CASE Finish(r)
  <2>1. at[r] = "answering" /\ Report(r, IF Relayed(r) THEN 1 ELSE 0)
    BY <1>2, SMTT(30) DEF Finish
  <2>2. One(PermitAt(at[r], busy[r]) # "none") = IF Relayed(r) THEN 1 ELSE 0
    BY <2>1 DEF One, PermitAt, Relayed
  <2>3. QED
    BY <2>1, <2>2, ReportCounts
<1>3. CASE SendFails(r) /\ \E why : GiveUp(r, why) /\ UNCHANGED <<chosen, requests_in_flight>>
  <2>1. Forwarding(r)
    BY <1>3, Zenon DEF SendFails, Forwarding
  <2>2. QED
    BY <1>3, <2>1, GiveUpCounts, SMTT(30)
<1>4. CASE /\ at[r] = "waiting" /\ at' = [at EXCEPT ![r] = "selecting"]
           /\ UNCHANGED <<chosen, busy, load, upstream_in_flight, in_flight, requests_in_flight>>
  <2>1. chosen[r] \in Backends \cup {None} /\ chosen = [chosen EXCEPT ![r] = chosen[r]]
    BY OfOneRequest, SMTT(30) DEF CountsOK
  <2>2. QED
    BY <1>4, <2>1, QuietStepsCount, Zenon DEF Phases
<1>5. QED
  BY <1>1, <1>2, <1>3, <1>4, ZenonT(30) DEF SendFails, Leave

LEMMA CountsAreKept ==
  ASSUME SizesOK, CountsOK, [Next]_vars
  PROVE  CountsOK'
<1>1. CASE UNCHANGED vars \/ Tick \/ \E r \in Requests : Reach(r) \/ Poll(r) \/ Write(r)
  <2>1. UNCHANGED <<at, chosen, busy, pool, metrics>>
    BY <1>1 DEF vars, handler, Tick, Reach, Poll, Write
  <2>2. QED
    BY <2>1, CountsUntouched
<1>2. ASSUME NEW r \in Requests, \E k \in Kinds[r] : Handle(r, k) PROVE CountsOK'
  BY <1>2, HandleCounts
<1>3. ASSUME NEW r \in Requests, Step(r) PROVE CountsOK'
  <2>1. CASE NoneHealthy(r) \/ Blame(r)
    <3>1. /\ Forwarding(r) /\ UNCHANGED <<chosen, requests_in_flight>>
          /\ \E why : GiveUp(r, why)
      BY <2>1 DEF NoneHealthy, Blame, Forwarding
    <3>2. QED
      BY <3>1, GiveUpCounts
  <2>2. QED
    BY <1>3, <2>1, AdmissionCounts, ForwardCounts, AttemptCounts DEF Step
<1>4. ASSUME NEW r \in Requests, Reply(r) \/ SendFails(r) \/ Leave(r) \/ Finish(r)
      PROVE  CountsOK'
  BY <1>4, ForwardCounts, EndsCount, SMTT(30)
<1>5. QED
  BY <1>1, <1>2, <1>3, <1>4 DEF Next

LEMMA CountsInit ==
  ASSUME SizesOK, Init
  PROVE  CountsOK
<1>1. HoldsOK
  BY DEF Init, HoldsOK, Phases
<1>2. /\ {r \in Requests : Counted(r)} = {}
      /\ {r \in Requests : at[r] \notin {"idle", "done"}} = {}
      /\ \A b \in Backends : {r \in Requests : busy[r] = b} = {}
  BY NoneAssumption DEF Init, Counted, Forwarding
<1>3. Cardinality({}) = 0
  BY DEF SizesOK
<1>4. PlacesAreHeld
  BY <1>2, <1>3 DEF Init, PlacesAreHeld
<1>5. QED
  BY <1>1, <1>4 DEF CountsOK, Init

LEMMA PromisesKept ==
  ASSUME SizesOK, SendsOK, AnswersOK, SelectsOK, AttemptsOK, CountsOK
  PROVE  HandlerPromises
<1>1. WaitBounded
  <2> SUFFICES ASSUME NEW r \in Requests, Timed(r)
               PROVE  /\ sent[r].elapsed <= sent[r].last + FirstByte
                      /\ sent[r].completed # NotCompleted /\ FirstByte <= RequestTotal =>
                           sent[r].elapsed <= sent[r].completed + RequestTotal
    BY DEF WaitBounded
  <2>1. Timely(sent[r])
    BY OfOneSending DEF Timed, Known, OnTheWay, Sending
  <2>2. QED
    BY <2>1 DEF Timely
<1>2. ASSUME NEW r \in Requests
      PROVE  /\ kind[r] = None \/ kind[r] \in Kinds[r]
             /\ sent[r] = None \/ sent[r] \in Sent
             /\ answer[r] = None \/ answer[r].error \in Refusals \cup {None}
             /\ attempts[r] \in 0..MaxAttempts /\ performed[r] \in 0..MaxAttempts
  <2>1. (kind[r] = None \/ kind[r] \in Kinds[r]) /\ (sent[r] = None \/ sent[r] \in Sent)
    BY OfOneSending DEF Known, Sending
  <2>2. answer[r] = None \/ answer[r].error \in Refusals \cup {None}
    BY DEF AnswersOK, Tells
  <2>3. attempts[r] \in 0..MaxAttempts /\ performed[r] \in 0..MaxAttempts
    BY NoTurn DEF Fits, MaxAttempts
  <2>4. QED
    BY <2>1, <2>2, <2>3
<1>3. /\ attempts \in [Requests -> 0..MaxAttempts]
      /\ performed \in [Requests -> 0..MaxAttempts]
  BY <1>2 DEF AttemptsOK
<1>4. ASSUME NEW S \in SUBSET Requests PROVE Cardinality(S) \in Nat
  BY DEF SizesOK
<1>5. in_flight \in Nat /\ requests_in_flight \in Nat
  <2>1. /\ {r \in Requests : Counted(r)} \in SUBSET Requests
        /\ {r \in Requests : at[r] \notin {"idle", "done"}} \in SUBSET Requests
    OBVIOUS
  <2>2. QED
    BY <1>4, <2>1 DEF CountsOK, PlacesAreHeld
<1>6. ASSUME NEW b \in Backends
      PROVE  /\ upstream_in_flight[b] \in Nat
             /\ Policy = "LeastRequest" => load[b] \in Nat
  <2>1. {r \in Requests : busy[r] = b} \in SUBSET Requests
    OBVIOUS
  <2>2. QED
    BY <1>4, <2>1 DEF CountsOK, PlacesAreHeld
<1>7. upstream_in_flight \in [Backends -> Nat]
  BY <1>6 DEF CountsOK
<1>8. load \in [Backends -> Nat]
  BY <1>6 DEF CountsOK, SelectsOK
<1>9. TypeOK
  BY <1>2, <1>3, <1>5, <1>7, <1>8
     DEF TypeOK, CountsOK, HoldsOK, AnswersOK, Terminations, SelectsOK
<1>10. QED
  BY <1>1, <1>9 DEF HandlerPromises

-----------------------------------------------------------------------------
INSTANCE FiniteSetTheorems

(* One element's membership decides the size of a set.                     *)
LEMMA OneElement ==
  ASSUME NEW x \in Requests, NEW S \in SUBSET Requests, NEW T \in SUBSET Requests,
         \A y \in Requests : y # x => (y \in S <=> y \in T)
  PROVE  Cardinality(T) = Cardinality(S) + One(x \in T) - One(x \in S)
<1>1. IsFiniteSet(S) /\ IsFiniteSet(T)
  BY RequestsAssumption, FS_Subset
<1>2. Cardinality(S) \in Nat /\ Cardinality(T) \in Nat
  BY <1>1, FS_CardinalityType
<1>3. CASE x \in S /\ x \notin T
  <2>1. T = S \ {x}
    BY <1>3
  <2>2. Cardinality(T) = Cardinality(S) - 1
    BY <1>1, <1>3, <2>1, FS_RemoveElement
  <2>3. QED
    BY <1>2, <1>3, <2>2 DEF One
<1>4. CASE x \notin S /\ x \in T
  <2>1. T = S \cup {x}
    BY <1>4
  <2>2. Cardinality(T) = Cardinality(S) + 1
    BY <1>1, <1>4, <2>1, FS_AddElement
  <2>3. QED
    BY <1>2, <1>4, <2>2 DEF One
<1>5. CASE x \in S <=> x \in T
  <2>1. T = S
    BY <1>5
  <2>2. QED
    BY <1>2, <2>1 DEF One
<1>6. QED
  BY <1>3, <1>4, <1>5

LEMMA SizesHold == SizesOK
<1>1. Cardinality({}) = 0
  BY FS_EmptySet
<1>2. \A S \in SUBSET Requests : Cardinality(S) \in Nat
  BY RequestsAssumption, FS_Subset, FS_CardinalityType
<1>3. QED
  BY <1>1, <1>2, OneElement DEF SizesOK

(* Whatever way requests end and however they interleave, what the pool    *)
(* and its backends count in flight, and the gauges show, is what there is *)
(* (RequestRecord, UpstreamLeg, BackendBusy, Pool::admit and their drops). *)
THEOREM PlacesAreAlwaysHeld == Spec => []PlacesAreHeld
<1>1. CountsOK => PlacesAreHeld
  BY DEF CountsOK
<1>2. (Init => CountsOK) /\ (CountsOK /\ [Next]_vars => CountsOK')
  BY SizesHold, CountsInit, CountsAreKept
<1>3. QED
  BY <1>1, <1>2, PTL DEF Spec

(* No request waits on a silent backend for longer than the timeouts say,  *)
(* counted from what was last sent and over all its attempts together, and *)
(* what the handler keeps stays what it may be: for any timeouts, bodies,  *)
(* backends, policy and failures (overdue, response_deadline, forward).    *)
THEOREM PromisesAreAlwaysKept == Spec => []HandlerPromises
<1>1. SendsOK /\ AnswersOK /\ SelectsOK /\ AttemptsOK /\ CountsOK => HandlerPromises
  BY SizesHold, PromisesKept
<1>2. (Init => CountsOK) /\ (CountsOK /\ [Next]_vars => CountsOK')
  BY SizesHold, CountsInit, CountsAreKept
<1>3. QED
  BY <1>1, <1>2, SendsInit, SendsAreKept, AttemptsInit, AttemptsAreKept, PTL DEF Spec
=============================================================================
