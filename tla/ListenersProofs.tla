--------------------------- MODULE ListenersProofs ---------------------------
(***************************************************************************)
(* The accept loops and connections of Listeners use the count of open     *)
(* connections as ConcurrencyLimit allows, for any number of addresses,    *)
(* connections and loops and any cap.  Nor does a reload, an abort or a    *)
(* drain in between break the caps, leave a commit without the sockets it  *)
(* staged, or let the drain end with a connection open that it waits for.  *)
(***************************************************************************)
EXTENDS Listeners, FiniteSetTheorems, TLAPS

(* What the refinement needs of the types.                                 *)
ConnsOK == conns \in [Conns -> ConnRecords]

(* The permits of the limit, as the connections have them.                 *)
Permits == [c \in Conns |-> PermitOf(conns[c].at)]

(* A connection that is moved has a record again, and only its permit      *)
(* changes.                                                                *)
LEMMA OneConnMoves ==
  ASSUME ConnsOK, NEW c \in Conns, NEW r \in ConnRecords, conns' = [conns EXCEPT ![c] = r]
  PROVE  ConnsOK' /\ Permits' = [Permits EXCEPT ![c] = PermitOf(r.at)]
  BY Zenon DEF ConnsOK, ConnRecords, Permits

LEMMA PermitsByPlace ==
  /\ PermitOf("away") = "none" /\ PermitOf("accepted") = "none" /\ PermitOf("closed") = "none"
  /\ PermitOf("counted") = "held" /\ PermitOf("over here") = "held" /\ PermitOf("serving") = "held"
  /\ PermitOf("over") = "refused"
  BY DEF PermitOf

LEMMA AwayIsARecord == Away \in ConnRecords /\ Away.at = "away"
  BY DEF Away, ConnRecords, Places

(* The same of one that stays with its loop.                               *)
LEMMA OneConnMovesOn ==
  ASSUME ConnsOK, NEW c \in Conns, NEW place \in Places, conns' = [conns EXCEPT ![c].at = place]
  PROVE  ConnsOK' /\ Permits' = [Permits EXCEPT ![c] = PermitOf(place)]
<1>1. [conns[c] EXCEPT !.at = place] \in ConnRecords /\ [conns[c] EXCEPT !.at = place].at = place
  BY DEF ConnsOK, ConnRecords
<1>2. conns' = [conns EXCEPT ![c] = [conns[c] EXCEPT !.at = place]]
  OBVIOUS
<1>3. QED
  BY <1>1, <1>2, OneConnMoves, Zenon

(* Every step is one of the limit's, or leaves the count and the permits   *)
(* alone.                                                                  *)
LEMMA StepsAreTheLimits ==
  ASSUME ConnsOK, [Next]_vars
  PROVE  ConnsOK' /\ [Total!Next]_<<in_use, Permits>>
<1>1. CASE UNCHANGED <<in_use, conns>>
  BY <1>1 DEF ConnsOK, Permits
<1>2. ASSUME NEW l \in Loops, NEW c \in Conns, Accept(l, c)
      PROVE  ConnsOK' /\ UNCHANGED <<in_use, Permits>>
  <2>1. [at |-> "accepted", loop |-> l] \in ConnRecords
    BY DEF ConnRecords, Places
  <2>2. ConnsOK' /\ Permits' = [Permits EXCEPT ![c] = PermitOf("accepted")]
    BY <1>2, <2>1, OneConnMoves, Zenon DEF Accept
  <2>3. Permits[c] = PermitOf("accepted")
    BY <1>2, Zenon DEF Accept, Permits, PermitOf
  <2>4. QED
    BY <1>2, <2>2, <2>3 DEF Accept, Permits, counts
<1>3. ASSUME NEW l \in Loops, NEW c \in Conns, OverPeerRate(l, c)
      PROVE  ConnsOK' /\ UNCHANGED <<in_use, Permits>>
  <2>1. ConnsOK' /\ Permits' = [Permits EXCEPT ![c] = PermitOf("away")]
    BY <1>3, OneConnMoves, AwayIsARecord, Zenon DEF OverPeerRate
  <2>2. Permits[c] = PermitOf("away")
    <3>1. conns[c].at = "accepted"
      BY <1>3 DEF OverPeerRate
    <3>2. QED
      BY <3>1, PermitsByPlace, Zenon DEF Permits
  <2>3. QED
    BY <1>3, <2>1, <2>2 DEF OverPeerRate, Permits, counts
<1>4. ASSUME NEW l \in Loops, NEW c \in Conns, AcquireTotal(l, c)
      PROVE  ConnsOK' /\ Total!TryAcquire(c)
  <2> DEFINE place == IF in_use >= MaxConnections THEN "over" ELSE "counted"
  <2>1. place \in Places /\ conns' = [conns EXCEPT ![c].at = place]
    BY <1>4 DEF AcquireTotal, Places
  <2>2. ConnsOK' /\ Permits' = [Permits EXCEPT ![c] = PermitOf(place)]
    BY <2>1, OneConnMovesOn, Zenon
  <2>3. Permits[c] = "none"
    <3>1. conns[c].at = "accepted"
      BY <1>4 DEF AcquireTotal
    <3>2. QED
      BY <3>1, PermitsByPlace, Zenon DEF Permits
  <2>4. PermitOf(place) = IF Total!Reached THEN "refused" ELSE "held"
    BY LimitsAssumption DEF PermitOf, Total!Reached
  <2>5. QED
    BY <1>4, <2>2, <2>3, <2>4, Zenon DEF AcquireTotal, Permits, Total!TryAcquire
<1>5. ASSUME NEW l \in Loops, NEW c \in Conns, AcquireHere(l, c)
      PROVE  ConnsOK' /\ UNCHANGED <<in_use, Permits>>
  <2>1. Permits[c] = "held"
    <3>1. conns[c] = [at |-> "counted", loop |-> l]
      BY <1>5, Zenon DEF AcquireHere
    <3>2. conns[c].at = "counted"
      BY <3>1
    <3>3. QED
      BY <3>2, PermitsByPlace, Zenon DEF Permits
  <2>2. PICK place \in {"over here", "serving"} : conns' = [conns EXCEPT ![c].at = place]
    BY <1>5, Zenon DEF AcquireHere
  <2>3. ConnsOK' /\ Permits' = [Permits EXCEPT ![c] = PermitOf(place)]
    BY <2>2, OneConnMovesOn, Zenon DEF Places
  <2>4. PermitOf(place) = "held"
    BY <2>2, PermitsByPlace, Zenon
  <2>5. QED
    BY <1>5, <2>1, <2>3, <2>4, Zenon DEF AcquireHere, Permits
<1>6. ASSUME NEW l \in Loops, NEW c \in Conns, Refuse(l, c)
      PROVE  ConnsOK' /\ Total!DropPermit(c)
  <2>1. ConnsOK' /\ Permits' = [Permits EXCEPT ![c] = PermitOf("away")]
    BY <1>6, OneConnMoves, AwayIsARecord, Zenon DEF Refuse
  <2>2. Permits[c] # "none" /\ PermitOf("away") = "none"
    BY <1>6, Zenon DEF Refuse, Permits, PermitOf
  <2>3. QED
    BY <1>6, <2>1, <2>2, Zenon DEF Refuse, Permits, Total!DropPermit
<1>7. ASSUME NEW c \in Conns, Close(c)
      PROVE  ConnsOK' /\ Total!DropPermit(c)
  <2>1. ConnsOK' /\ Permits' = [Permits EXCEPT ![c] = PermitOf("closed")]
    BY <1>7, OneConnMovesOn, Zenon DEF Close, Places
  <2>2. Permits[c] # "none" /\ PermitOf("closed") = "none"
    BY <1>7, Zenon DEF Close, Permits, PermitOf
  <2>3. QED
    BY <1>7, <2>1, <2>2, Zenon DEF Close, Permits, Total!DropPermit
<1>8. ASSUME NEW c \in Conns, NotifyWaiters(c)
      PROVE  ConnsOK' /\ UNCHANGED <<in_use, Permits>>
  <2>1. ConnsOK' /\ Permits' = [Permits EXCEPT ![c] = PermitOf("away")]
    BY <1>8, OneConnMoves, AwayIsARecord, Zenon DEF NotifyWaiters
  <2>2. Permits[c] = PermitOf("away")
    BY <1>8, Zenon DEF NotifyWaiters, Permits, PermitOf
  <2>3. QED
    BY <1>8, <2>1, <2>2 DEF NotifyWaiters, Permits
<1>9. \/ UNCHANGED <<in_use, conns>>
      \/ \E c \in Conns : Close(c) \/ NotifyWaiters(c)
      \/ \E l \in Loops, c \in Conns :
           \/ Accept(l, c) \/ OverPeerRate(l, c)
           \/ AcquireTotal(l, c) \/ AcquireHere(l, c) \/ Refuse(l, c)
  <2>1. UNCHANGED vars => UNCHANGED <<in_use, conns>>
    BY DEF vars, counts
  <2>2. Reload \/ Trigger => UNCHANGED <<in_use, conns>>
    BY DEF Reload, Stage, StageFails, Commit, Trigger, counts
  <2>3. ServeUntilDrained => UNCHANGED <<in_use, conns>>
    BY DEF ServeUntilDrained, TakeLoops, LoopsJoined, Register, Look, Wake, Deadline, Cut,
       GraceEnds, counts
  <2>4. \A l \in Loops : AcceptFails(l) \/ PauseEnds(l) \/ LoopLeaves(l)
          => UNCHANGED <<in_use, conns>>
    BY DEF AcceptFails, PauseEnds, LoopLeaves, counts
  <2>5. QED
    BY <2>1, <2>2, <2>3, <2>4 DEF Next, RunListener, Connection
<1>10. QED
  BY <1>1, <1>2, <1>3, <1>4, <1>5, <1>6, <1>7, <1>8, <1>9 DEF Total!Next

(* The count of open connections is kept as a ConcurrencyLimit keeps its   *)
(* own, by accept loops that are aborted while they run included: with     *)
(* LimitIsNeverExceeded, no more than max_connections are ever admitted.   *)
THEOREM TotalRefinesConcurrencyLimit == Spec => TotalIsALimit
<1>1. Init => ConnsOK /\ Total!Init
  BY AwayIsARecord DEF Init, ConnsOK, Total!Init, PermitOf, Away
<1>2. ConnsOK /\ [Next]_vars => ConnsOK' /\ [Total!Next]_(Total!vars)
  BY StepsAreTheLimits DEF Total!vars, Permits
<1>3. QED
  BY <1>1, <1>2, PTL DEF Spec, TotalIsALimit, Total!Spec

-----------------------------------------------------------------------------
(* The invariant behind the others: what the reload, the loops, the counts *)
(* and the drain keep of each other.  A reload is over before a drain      *)
(* starts, so that the running set is not taken from under a staged one.   *)
SocketsOK ==
  /\ staged # None => ~ drain
  /\ CommitFindsItsSockets
  /\ drainer # "serving" => drain

(* A loop has one connection in hand while it admits, and none while it    *)
(* waits.                                                                  *)
InHand == {"accepted", "counted", "over", "over here"}

LoopsOK ==
  /\ AcceptedAreNotDropped
  /\ \A c \in Conns : conns[c].at # "away" => conns[c].loop \in Loops
  /\ \A c, d \in Conns :
       conns[c].at \in InHand /\ conns[d].at \in InHand /\ conns[c].loop = conns[d].loop => c = d

(* Both counts are exact.                                                  *)
Taking == {"counted", "over", "over here", "serving"}
Holding == {"serving", "closed"}

CountsOK ==
  /\ in_use = Cardinality({c \in Conns : conns[c].at \in Taking})
  /\ ListenerCapHolds

(* Unless a running loop was aborted, the drain waits for every loop there *)
(* is, and looks at the count when there is none left to change it upward. *)
Joined == CASE drainer = "serving" -> Range(running)
            [] drainer = "joining" -> joining
            [] OTHER -> {}

DrainOK ==
  /\ ~ late => Live \subseteq Joined
  /\ drainer \in {"looking", "waiting"} => waiter # "none"
  /\ NoCloseIsMissed
  /\ drainer = "done" /\ ~ late /\ drained.stuck = 0 => in_use = 0

ListenersOK == TypeOK /\ SocketsOK /\ LoopsOK /\ CountsOK /\ DrainOK

(* What the loops and the connections leave alone.                         *)
LEMMA ServingLeavesAlone ==
  ASSUME NEW l \in Loops, RunListener(l)
  PROVE  UNCHANGED <<sockets, drain, draining, late>>
  BY Zenon DEF RunListener, AcceptFails, PauseEnds, LoopLeaves, Accept, OverPeerRate, AcquireTotal,
     AcquireHere, Refuse

LEMMA ClosingLeavesAlone ==
  ASSUME NEW c \in Conns, Connection(c)
  PROVE  UNCHANGED <<sockets, loops, drain, cut, drainer, joining, drained, late>>
  BY DEF Connection, Close, NotifyWaiters, draining

LEMMA SocketsAreKept ==
  ASSUME SocketsOK, [Next]_vars
  PROVE  SocketsOK'
<1> USE DEF SocketsOK, CommitFindsItsSockets
<1>1. CASE UNCHANGED <<running, staged, drain, drainer>>
  BY <1>1
<1>2. CASE UNCHANGED vars
  BY <1>1, <1>2 DEF vars, sockets, draining
<1>3. ASSUME NEW desired \in SUBSET Addrs, Stage(desired) \/ StageFails(desired)
      PROVE  SocketsOK'
  BY <1>3 DEF Stage, StageFails, Missing, draining
<1>4. CASE Commit
  BY <1>4 DEF Commit, draining
<1>5. CASE Trigger
  BY <1>5 DEF Trigger, sockets, draining
<1>6. CASE ServeUntilDrained
  <2>1. CASE TakeLoops
    BY <2>1 DEF TakeLoops
  <2>2. CASE ~ TakeLoops
    BY <1>6, <2>2 DEF ServeUntilDrained, LoopsJoined, Register, Look, Wake, Deadline, Cut,
       GraceEnds, sockets
  <2>3. QED
    BY <2>1, <2>2
<1>7. ASSUME NEW l \in Loops, RunListener(l) PROVE SocketsOK'
  BY <1>1, <1>7, ServingLeavesAlone DEF sockets, draining
<1>8. ASSUME NEW c \in Conns, Connection(c) PROVE SocketsOK'
  BY <1>1, <1>8, ClosingLeavesAlone DEF sockets
<1>9. QED
  BY <1>2, <1>3, <1>4, <1>5, <1>6, <1>7, <1>8 DEF Next, Reload

(* A commit finds a socket for every address it is to listen on, whatever  *)
(* reloads, failed binds and drains came before it (stage, commit,         *)
(* Frontend::drain): what it would warn about does not happen.             *)
THEOREM CommitsFindTheirSockets == Spec => []CommitFindsItsSockets
<1>1. Init => SocketsOK
  BY DEF Init, SocketsOK, CommitFindsItsSockets
<1>2. SocketsOK => CommitFindsItsSockets
  BY DEF SocketsOK
<1>3. SocketsOK /\ [Next]_vars => SocketsOK'
  BY SocketsAreKept
<1>4. QED
  BY <1>1, <1>2, <1>3, PTL DEF Spec

-----------------------------------------------------------------------------
(* The loops and the connections they have in hand.                        *)
LoopTypesOK == loops \in [Loops -> LoopRecords \cup {None}] /\ ConnsOK

(* A loop that is in the middle of admitting goes on with what it has in   *)
(* hand, whatever loops an abort ends.                                     *)
LEMMA AbortSparesAdmitting ==
  ASSUME LoopTypesOK, NEW ls, NEW l \in Live, loops[l].at = "admitting"
  PROVE  Aborted(ls)[l] \in LoopRecords /\ Aborted(ls)[l].at = "admitting"
<1>1. l \in Loops /\ loops[l] \in LoopRecords
  BY DEF Live, LoopTypesOK
<1>2. [loops[l] EXCEPT !.aborted = TRUE] \in LoopRecords
      /\ [loops[l] EXCEPT !.aborted = TRUE].at = "admitting"
  BY <1>1, Zenon DEF LoopRecords
<1>3. QED
  BY <1>1, <1>2 DEF Aborted

(* Steps that leave what is in hand, and every loop that is admitting,     *)
(* where they are.                                                         *)
LEMMA HandsOff ==
  ASSUME LoopTypesOK, LoopsOK, UNCHANGED conns,
         \A l \in Live : loops[l].at = "admitting" =>
           loops'[l] # None /\ loops'[l].at = "admitting"
  PROVE  LoopsOK'
  BY Zenon DEF LoopsOK, AcceptedAreNotDropped, Live

LEMMA CommitKeepsLoops ==
  ASSUME LoopTypesOK, LoopsOK, Commit
  PROVE  LoopsOK'
<1> DEFINE kept    == DOMAIN running \cap staged.desired
           removed == {running[a] : a \in DOMAIN running \ kept}
           new     == (staged.desired \ kept) \cap staged.bound
<1>1. PICK spawned \in [new -> Unused] :
        loops' = [l \in Loops |->
                    IF l \in Range(spawned) THEN NewLoop(CHOOSE a \in new : spawned[a] = l)
                    ELSE Aborted(removed)[l]]
  BY Zenon DEF Commit
<1>2. \A l \in Range(spawned) : l \notin Live
  BY DEF Range, Unused, Live
<1> HIDE DEF removed
<1>3. \A l \in Live : loops[l].at = "admitting" =>
        loops'[l] \in LoopRecords /\ loops'[l].at = "admitting"
  <2> TAKE l \in Live
  <2> HAVE loops[l].at = "admitting"
  <2>1. l \in Loops /\ loops'[l] = Aborted(removed)[l]
    BY <1>1, <1>2 DEF Live
  <2>2. QED
    BY <2>1, AbortSparesAdmitting
<1>4. UNCHANGED conns
  BY DEF Commit
<1>5. QED
  BY <1>3, <1>4, HandsOff, NoLoopAssumption

(* A loop that has nothing in hand: it is not admitting.                   *)
LEMMA EmptyHands ==
  ASSUME LoopsOK, NEW l \in Loops, loops[l].at # "admitting", NEW c \in Conns,
         conns[c].at \in InHand
  PROVE  conns[c].loop # l
  BY Zenon DEF LoopsOK, AcceptedAreNotDropped, InHand

LEMMA WaitingKeepsLoops ==
  ASSUME LoopTypesOK, LoopsOK, NEW l \in Loops, AcceptFails(l) \/ PauseEnds(l) \/ LoopLeaves(l)
  PROVE  LoopsOK'
<1>1. loops[l].at # "admitting" /\ UNCHANGED conns
  BY DEF AcceptFails, PauseEnds, LoopLeaves
<1>2. \A k \in Loops : k # l => loops'[k] = loops[k]
  BY DEF LoopTypesOK, AcceptFails, PauseEnds, LoopLeaves, MoveTo
<1>3. QED
  BY <1>1, <1>2, HandsOff DEF Live

(* A connection gets to a place of which its loop knows: it is the one the *)
(* loop has in hand, or in nobody's.                                       *)
LEMMA OneInHand ==
  ASSUME LoopTypesOK, LoopsOK, NEW l \in Loops, NEW c \in Conns, NEW r \in ConnRecords,
         conns' = [conns EXCEPT ![c] = r], r.at # "away" => r.loop = l,
         \A k \in Loops : k # l => loops'[k] = loops[k],
         \A d \in Conns : conns[d].at \in InHand /\ conns[d].loop = l => d = c,
         r.at \in InHand => loops'[l] # None /\ loops'[l].at = "admitting"
  PROVE  LoopsOK'
<1>1. \A d \in Conns : conns'[d] = IF d = c THEN r ELSE conns[d]
  BY DEF LoopTypesOK, ConnsOK
<1>2. \A d \in Conns : conns'[d].at # "away" => conns'[d].loop \in Loops
  BY <1>1 DEF LoopsOK
<1>3. ASSUME NEW d \in Conns, NEW e \in Conns, conns'[d].at \in InHand,
             conns'[e].at \in InHand, conns'[d].loop = conns'[e].loop
      PROVE  d = e
  <2>1. \A x \in Conns : x # c => conns'[x] = conns[x]
    BY <1>1
  <2>2. conns'[c].at \in InHand => conns'[c].loop = l
    BY <1>1, Zenon DEF InHand
  <2>3. CASE d = c \/ e = c
    BY <1>3, <2>1, <2>2, <2>3
  <2>4. CASE d # c /\ e # c
    BY <1>3, <2>1, <2>4 DEF LoopsOK
  <2>5. QED
    BY <2>3, <2>4
<1>4. ASSUME NEW d \in Conns, conns'[d].at \in InHand
      PROVE  conns'[d].loop \in Loops /\ loops'[conns'[d].loop] # None
             /\ loops'[conns'[d].loop].at = "admitting"
  <2>1. CASE d = c
    BY <1>1, <1>4, <2>1, Zenon DEF InHand
  <2>2. CASE d # c
    <3>1. conns'[d] = conns[d] /\ conns[d].loop # l
      BY <1>1, <1>4, <2>2
    <3>2. conns[d].loop \in Loops /\ loops[conns[d].loop] # None
          /\ loops[conns[d].loop].at = "admitting"
      BY <1>4, <3>1, Zenon DEF LoopsOK, AcceptedAreNotDropped, InHand, Live
    <3>3. QED
      BY <3>1, <3>2
  <2>3. QED
    BY <2>1, <2>2
<1>5. QED
  BY <1>2, <1>3, <1>4, Zenon DEF LoopsOK, AcceptedAreNotDropped, InHand, Live

LEMMA AdmittingKeepsLoops ==
  ASSUME LoopTypesOK, LoopsOK, NEW l \in Loops, NEW c \in Conns, l \in Live,
         Accept(l, c) \/ OverPeerRate(l, c) \/ AcquireTotal(l, c) \/ AcquireHere(l, c)
           \/ Refuse(l, c)
  PROVE  LoopsOK'
<1>1. loops[l] \in LoopRecords /\ conns[c] \in ConnRecords
  BY DEF Live, LoopTypesOK, ConnsOK
<1>2. \A k \in Loops : k # l => loops'[k] = loops[k]
  BY Zenon DEF LoopTypesOK, Accept, OverPeerRate, AcquireTotal, AcquireHere, Refuse, MoveTo, Continue
<1>3. CASE Accept(l, c)
  <2> DEFINE r == [at |-> "accepted", loop |-> l]
  <2>1. r \in ConnRecords /\ conns' = [conns EXCEPT ![c] = r]
    BY <1>3 DEF Accept, ConnRecords, Places
  <2>2. \A d \in Conns : conns[d].at \in InHand => conns[d].loop # l
    BY <1>3, EmptyHands DEF Accept
  <2>3. loops'[l] \in LoopRecords /\ loops'[l].at = "admitting"
    BY <1>1, <1>3 DEF Accept, MoveTo, LoopTypesOK, LoopRecords
  <2>4. QED
    BY <1>2, <2>1, <2>2, <2>3, OneInHand, NoLoopAssumption, Zenon
<1>4. CASE ~ Accept(l, c)
  <2>1. conns[c].at \in InHand /\ conns[c].loop = l
    <3>1. \/ conns[c] = [at |-> "accepted", loop |-> l]
          \/ conns[c] = [at |-> "counted", loop |-> l]
          \/ conns[c] \in [at : {"over", "over here"}, loop : {l}]
      BY <1>4, Zenon DEF OverPeerRate, AcquireTotal, AcquireHere, Refuse
    <3>2. CASE conns[c] = [at |-> "accepted", loop |-> l]
      BY <3>2 DEF InHand
    <3>3. CASE conns[c] = [at |-> "counted", loop |-> l]
      BY <3>3 DEF InHand
    <3>4. CASE conns[c] \in [at : {"over", "over here"}, loop : {l}]
      BY <3>4, Zenon DEF InHand
    <3>5. QED
      BY <3>1, <3>2, <3>3, <3>4, Zenon
  <2>2. \A d \in Conns : conns[d].at \in InHand /\ conns[d].loop = l => d = c
    BY <2>1 DEF LoopsOK
  <2>3. l \in Live /\ loops[l].at = "admitting"
    BY <2>1, Zenon DEF LoopsOK, AcceptedAreNotDropped, InHand
  <2>4. CASE conns' = [conns EXCEPT ![c] = Away]
    BY <1>2, <2>2, <2>4, OneInHand, AwayIsARecord, Zenon DEF InHand
  <2>5. ASSUME NEW place \in {"over", "counted", "over here", "serving"},
               conns' = [conns EXCEPT ![c].at = place],
               place # "serving" => UNCHANGED loops
        PROVE  LoopsOK'
    <3> DEFINE r == [conns[c] EXCEPT !.at = place]
    <3>1. r \in ConnRecords /\ r.at = place /\ r.loop = l /\ conns' = [conns EXCEPT ![c] = r]
      BY <1>1, <2>1, <2>5, Zenon DEF ConnRecords, Places
    <3>2. r.at \in InHand => loops'[l] # None /\ loops'[l].at = "admitting"
      BY <2>3, <2>5, <3>1, Zenon DEF InHand, Live
    <3> HIDE DEF r
    <3>3. QED
      BY <1>2, <2>2, <3>1, <3>2, OneInHand, Zenon
  <2>6. QED
    BY <1>4, <2>4, <2>5, Zenon DEF OverPeerRate, AcquireTotal, AcquireHere, Refuse
<1>5. QED
  BY <1>3, <1>4

LEMMA ClosingKeepsLoops ==
  ASSUME LoopTypesOK, LoopsOK, NEW c \in Conns, Connection(c)
  PROVE  LoopsOK'
<1>1. PICK r \in ConnRecords :
        /\ conns' = [conns EXCEPT ![c] = r] /\ r.at \notin InHand
        /\ r.at # "away" => r.loop \in Loops
  <2>1. CASE Close(c)
    <3>1. [conns[c] EXCEPT !.at = "closed"] \in ConnRecords
      BY Zenon DEF LoopTypesOK, ConnsOK, ConnRecords, Places
    <3>2. conns[c].loop \in Loops
      BY <2>1 DEF Close, LoopsOK
    <3>3. /\ conns' = [conns EXCEPT ![c] = [conns[c] EXCEPT !.at = "closed"]]
          /\ [conns[c] EXCEPT !.at = "closed"].at = "closed"
          /\ [conns[c] EXCEPT !.at = "closed"].loop = conns[c].loop
      BY <2>1 DEF Close, LoopTypesOK, ConnsOK, ConnRecords
    <3>4. QED
      BY <3>1, <3>2, <3>3, Zenon DEF InHand
  <2>2. CASE NotifyWaiters(c)
    BY <2>2, AwayIsARecord, Zenon DEF NotifyWaiters, InHand
  <2>3. QED
    BY <2>1, <2>2 DEF Connection
<1>2. \A d \in Conns : conns'[d] = IF d = c THEN r ELSE conns[d]
  BY <1>1 DEF LoopTypesOK, ConnsOK
<1>3. UNCHANGED loops
  BY ClosingLeavesAlone
<1>4. \A d \in Conns : conns'[d].at # "away" => conns'[d].loop \in Loops
  BY <1>1, <1>2 DEF LoopsOK
<1>5. \A d \in Conns : conns'[d].at \in InHand => conns'[d] = conns[d]
  BY <1>1, <1>2
<1>6. QED
  BY <1>3, <1>4, <1>5, Zenon DEF LoopsOK, AcceptedAreNotDropped, InHand, Live

LEMMA LoopsAreKept ==
  ASSUME LoopTypesOK, LoopsOK, [Next]_vars
  PROVE  LoopsOK'
<1>1. CASE UNCHANGED <<loops, conns>>
  BY <1>1, HandsOff DEF Live
<1>2. ASSUME NEW l \in Loops, RunListener(l) PROVE LoopsOK'
  BY <1>2, WaitingKeepsLoops, AdmittingKeepsLoops DEF RunListener
<1>3. ASSUME NEW c \in Conns, Connection(c) PROVE LoopsOK'
  BY <1>3, ClosingKeepsLoops
<1>4. CASE Commit
  BY <1>4, CommitKeepsLoops
<1>5. CASE UNCHANGED vars \/ Trigger \/ ServeUntilDrained
           \/ \E desired \in SUBSET Addrs : Stage(desired) \/ StageFails(desired)
  <2>1. UNCHANGED <<loops, conns>>
    BY <1>5 DEF vars, Trigger, Stage, StageFails, ServeUntilDrained, TakeLoops, LoopsJoined,
       Register, Look, Wake, Deadline, Cut, GraceEnds
  <2>2. QED
    BY <1>1, <2>1
<1>6. QED
  BY <1>2, <1>3, <1>4, <1>5 DEF Next, Reload

-----------------------------------------------------------------------------
(* The counts.  A connection that moves changes each by what changes of    *)
(* it.                                                                     *)
One(cond) == IF cond THEN 1 ELSE 0

LEMMA OneMember ==
  ASSUME NEW c \in Conns, NEW S \in SUBSET Conns, NEW T \in SUBSET Conns,
         \A d \in Conns : d # c => (d \in S <=> d \in T)
  PROVE  /\ Cardinality(S) \in Nat /\ Cardinality(T) \in Nat
         /\ Cardinality(T) = Cardinality(S) + One(c \in T) - One(c \in S)
<1>1. IsFiniteSet(S) /\ IsFiniteSet(T)
  BY LimitsAssumption, FS_Subset
<1>2. Cardinality(S) \in Nat /\ Cardinality(T) \in Nat
  BY <1>1, FS_CardinalityType
<1>3. CASE c \in S /\ c \notin T
  <2>1. T = S \ {c}
    BY <1>3
  <2>2. Cardinality(T) = Cardinality(S) - 1
    BY <1>1, <1>3, <2>1, FS_RemoveElement
  <2>3. QED
    BY <1>2, <1>3, <2>2 DEF One
<1>4. CASE c \notin S /\ c \in T
  <2>1. T = S \cup {c}
    BY <1>4
  <2>2. Cardinality(T) = Cardinality(S) + 1
    BY <1>1, <1>4, <2>1, FS_AddElement
  <2>3. QED
    BY <1>2, <1>4, <2>2 DEF One
<1>5. CASE c \in S <=> c \in T
  <2>1. T = S
    BY <1>5
  <2>2. QED
    BY <1>2, <2>1 DEF One
<1>6. QED
  BY <1>3, <1>4, <1>5

(* What a listener's own limit counts.                                     *)
HeldOf(l) == {c \in Of(l) : conns[c].at \in Holding}

(* The counts before and after a step of one connection.                   *)
Recounts(c, r) ==
  /\ conns' = [conns EXCEPT ![c] = r]
  /\ in_use' = in_use + One(r.at \in Taking) - One(conns[c].at \in Taking)
  /\ here' \in [Loops -> Int]
  /\ \A l \in Loops :
       here'[l] = here[l] + One(r.at \in Holding /\ r.loop = l)
                          - One(conns[c].at \in Holding /\ conns[c].loop = l)

LEMMA RecountsKeepCounts ==
  ASSUME ConnsOK, CountsOK, NEW c \in Conns, NEW r \in ConnRecords, Recounts(c, r),
         \A l \in Loops : here'[l] <= MaxConnectionsPerListener
  PROVE  CountsOK' /\ in_use' \in Nat /\ here' \in [Loops -> Nat]
<1>1. \A d \in Conns : conns'[d] = IF d = c THEN r ELSE conns[d]
  BY DEF ConnsOK, Recounts
<1>2. in_use' = Cardinality({d \in Conns : conns'[d].at \in Taking}) /\ in_use' \in Nat
  <2> DEFINE S == {d \in Conns : conns[d].at \in Taking}
             T == {d \in Conns : conns'[d].at \in Taking}
  <2>1. \A d \in Conns : d # c => (d \in S <=> d \in T)
    BY <1>1
  <2>2. One(c \in S) = One(conns[c].at \in Taking) /\ One(c \in T) = One(r.at \in Taking)
    BY <1>1 DEF One
  <2>3. in_use = Cardinality(S)
    BY DEF CountsOK
  <2>4. S \in SUBSET Conns /\ T \in SUBSET Conns
    OBVIOUS
  <2> HIDE DEF S, T
  <2>5. Cardinality(T) \in Nat /\ Cardinality(T) = Cardinality(S) + One(c \in T) - One(c \in S)
    BY <2>1, <2>4, OneMember
  <2>6. in_use' = Cardinality(T) /\ in_use' \in Nat
    BY <2>2, <2>3, <2>5 DEF Recounts
  <2>7. QED
    BY <2>6 DEF T
<1>3. ASSUME NEW l \in Loops
      PROVE  here'[l] = Cardinality(HeldOf(l)') /\ here'[l] \in Nat
  <2> DEFINE S == HeldOf(l)
             T == HeldOf(l)'
  <2>1. \A d \in Conns : d # c => (d \in S <=> d \in T)
    BY <1>1 DEF HeldOf, Of
  <2>2. /\ One(c \in S) = One(conns[c].at \in Holding /\ conns[c].loop = l)
        /\ One(c \in T) = One(r.at \in Holding /\ r.loop = l)
    BY <1>1 DEF One, HeldOf, Of
  <2>3. here[l] = Cardinality(S)
    BY DEF CountsOK, ListenerCapHolds, HeldOf, Holding
  <2>4. S \in SUBSET Conns /\ T \in SUBSET Conns
    BY DEF HeldOf, Of
  <2> HIDE DEF S, T
  <2>5. Cardinality(T) \in Nat /\ Cardinality(T) = Cardinality(S) + One(c \in T) - One(c \in S)
    BY <2>1, <2>4, OneMember
  <2>6. here'[l] = Cardinality(T) /\ here'[l] \in Nat
    BY <2>2, <2>3, <2>5 DEF Recounts
  <2>7. QED
    BY <2>6 DEF T
<1>4. ListenerCapHolds'
  BY <1>3 DEF ListenerCapHolds, HeldOf, Holding
<1>5. here' \in [Loops -> Nat]
  BY <1>3 DEF Recounts
<1>6. QED
  BY <1>2, <1>4, <1>5 DEF CountsOK

CountTypesOK == in_use \in Nat /\ here \in [Loops -> Nat]

(* A step that changes neither what a connection holds nor the counts.     *)
LEMMA QuietCounts ==
  ASSUME CountTypesOK, CountsOK, NEW c \in Conns, NEW r, conns' = [conns EXCEPT ![c] = r],
         UNCHANGED <<in_use, here>>, r.at \in Taking <=> conns[c].at \in Taking,
         r.at \notin Holding, conns[c].at \notin Holding
  PROVE  Recounts(c, r) /\ \A l \in Loops : here'[l] <= MaxConnectionsPerListener
<1>1. One(r.at \in Taking) = One(conns[c].at \in Taking)
      /\ One(r.at \in Taking) \in Int
  BY DEF One
<1>2. in_use' = in_use + One(r.at \in Taking) - One(conns[c].at \in Taking)
  BY <1>1 DEF CountTypesOK
<1>3. \A l \in Loops : /\ One(r.at \in Holding /\ r.loop = l) = 0
                       /\ One(conns[c].at \in Holding /\ conns[c].loop = l) = 0
  BY DEF One
<1>4. \A l \in Loops : here'[l] = here[l] + One(r.at \in Holding /\ r.loop = l)
                               - One(conns[c].at \in Holding /\ conns[c].loop = l)
  BY <1>3 DEF CountTypesOK
<1>5. here' \in [Loops -> Int] /\ \A l \in Loops : here'[l] <= MaxConnectionsPerListener
  <2>1. here' \in [Loops -> Int]
    BY DEF CountTypesOK
  <2>2. \A l \in Loops : here[l] <= MaxConnectionsPerListener
    BY Zenon DEF CountsOK, ListenerCapHolds
  <2>3. QED
    BY <2>1, <2>2
<1>6. QED
  BY <1>2, <1>4, <1>5 DEF Recounts

(* A place under the total taken or given back, the listener's left alone. *)
LEMMA TotalCounts ==
  ASSUME CountTypesOK, CountsOK, NEW c \in Conns, NEW r, conns' = [conns EXCEPT ![c] = r],
         UNCHANGED here,
         \/ /\ in_use' = in_use + 1 /\ r.at \in Taking /\ conns[c].at \notin Taking
            /\ r.at \notin Holding /\ conns[c].at \notin Holding
         \/ /\ in_use' = in_use - 1 /\ r.at \notin Taking /\ conns[c].at \in Taking
            /\ r.loop = conns[c].loop /\ r.at \in Holding /\ conns[c].at \in Holding
         \/ /\ in_use' = in_use - 1 /\ r.at \notin Taking /\ conns[c].at \in Taking
            /\ r.at \notin Holding /\ conns[c].at \notin Holding
  PROVE  Recounts(c, r) /\ \A l \in Loops : here'[l] <= MaxConnectionsPerListener
<1>1. in_use' = in_use + One(r.at \in Taking) - One(conns[c].at \in Taking)
  BY DEF One, CountTypesOK
<1>2. \A l \in Loops : /\ One(r.at \in Holding /\ r.loop = l) =
                            One(conns[c].at \in Holding /\ conns[c].loop = l)
                       /\ One(r.at \in Holding /\ r.loop = l) \in Int
  BY DEF One
<1>3. \A l \in Loops : here'[l] = here[l] + One(r.at \in Holding /\ r.loop = l)
                               - One(conns[c].at \in Holding /\ conns[c].loop = l)
  BY <1>2 DEF CountTypesOK
<1>4. here' \in [Loops -> Int] /\ \A l \in Loops : here'[l] <= MaxConnectionsPerListener
  <2>1. here' \in [Loops -> Int]
    BY DEF CountTypesOK
  <2>2. \A l \in Loops : here[l] <= MaxConnectionsPerListener
    BY Zenon DEF CountsOK, ListenerCapHolds
  <2>3. QED
    BY <2>1, <2>2
<1>5. QED
  BY <1>1, <1>3, <1>4 DEF Recounts

(* A place under the listener's taken or given back.                       *)
LEMMA HereCounts ==
  ASSUME CountTypesOK, CountsOK, NEW c \in Conns, NEW l \in Loops, NEW r,
         conns' = [conns EXCEPT ![c] = r], UNCHANGED in_use,
         r.at \in Taking <=> conns[c].at \in Taking, conns[c].loop = l,
         \/ /\ r.at \in Holding /\ r.loop = l /\ conns[c].at \notin Holding
            /\ here[l] < MaxConnectionsPerListener /\ here' = [here EXCEPT ![l] = @ + 1]
         \/ /\ r.at \notin Holding /\ conns[c].at \in Holding
            /\ here' = [here EXCEPT ![l] = @ - 1]
  PROVE  Recounts(c, r) /\ \A k \in Loops : here'[k] <= MaxConnectionsPerListener
<1>1. One(r.at \in Taking) = One(conns[c].at \in Taking)
      /\ One(r.at \in Taking) \in Int
  BY DEF One
<1>2. in_use' = in_use + One(r.at \in Taking) - One(conns[c].at \in Taking)
  BY <1>1 DEF CountTypesOK
<1>3. here' \in [Loops -> Int]
  BY DEF CountTypesOK
<1>4. \A k \in Loops : here[k] \in Nat /\ here[k] <= MaxConnectionsPerListener
  BY Zenon DEF CountTypesOK, CountsOK, ListenerCapHolds
<1>5. ASSUME NEW k \in Loops
      PROVE  /\ here'[k] = here[k] + One(r.at \in Holding /\ r.loop = k)
                                   - One(conns[c].at \in Holding /\ conns[c].loop = k)
             /\ here'[k] <= MaxConnectionsPerListener
  <2>1. CASE k = l
    BY <1>4, <2>1, LimitsAssumption DEF One, CountTypesOK
  <2>2. CASE k # l
    <3>1. here'[k] = here[k]
      BY <2>2 DEF CountTypesOK
    <3>2. One(r.at \in Holding /\ r.loop = k) = 0
          /\ One(conns[c].at \in Holding /\ conns[c].loop = k) = 0
      BY <2>2 DEF One
    <3>3. QED
      BY <1>4, <3>1, <3>2
  <2>3. QED
    BY <2>1, <2>2
<1>6. QED
  BY <1>2, <1>3, <1>5 DEF Recounts

(* Every step of the loops and of the connections counts what it changes.  *)
LEMMA AdmittingCounts ==
  ASSUME ConnsOK, CountTypesOK, CountsOK, NEW l \in Loops, NEW c \in Conns,
         Accept(l, c) \/ OverPeerRate(l, c) \/ AcquireTotal(l, c) \/ AcquireHere(l, c)
           \/ Refuse(l, c)
  PROVE  \E r \in ConnRecords : Recounts(c, r)
           /\ \A k \in Loops : here'[k] <= MaxConnectionsPerListener
<1>1. conns[c] \in ConnRecords
  BY DEF ConnsOK
<1>2. ASSUME NEW place \in Places
      PROVE  /\ [conns[c] EXCEPT !.at = place] \in ConnRecords
             /\ [conns[c] EXCEPT !.at = place].at = place
             /\ [conns[c] EXCEPT !.at = place].loop = conns[c].loop
  BY <1>1 DEF ConnRecords
<1>3. CASE Accept(l, c)
  <2>1. [at |-> "accepted", loop |-> l] \in ConnRecords
    BY DEF ConnRecords, Places
  <2>2. /\ conns' = [conns EXCEPT ![c] = [at |-> "accepted", loop |-> l]]
        /\ conns[c].at = "away" /\ UNCHANGED <<in_use, here>>
    BY <1>3 DEF Accept, counts
  <2>3. QED
    BY <2>1, <2>2, QuietCounts, Zenon DEF Taking, Holding
<1>4. CASE OverPeerRate(l, c)
  <2>1. conns[c].at = "accepted"
    BY <1>4 DEF OverPeerRate
  <2>2. conns' = [conns EXCEPT ![c] = Away] /\ UNCHANGED <<in_use, here>>
    BY <1>4 DEF OverPeerRate, counts
  <2>3. QED
    BY <2>1, <2>2, AwayIsARecord, QuietCounts, Zenon DEF Taking, Holding
<1>5. CASE AcquireTotal(l, c)
  <2>1. conns[c].at = "accepted"
    BY <1>5 DEF AcquireTotal
  <2>2. PICK place \in {"over", "counted"} : conns' = [conns EXCEPT ![c].at = place]
    BY <1>5, Zenon DEF AcquireTotal
  <2>3. in_use' = in_use + 1 /\ UNCHANGED here
    BY <1>5 DEF AcquireTotal
  <2>4. place \in Places /\ conns' = [conns EXCEPT ![c] = [conns[c] EXCEPT !.at = place]]
    BY <2>2, Zenon DEF Places
  <2>5. QED
    BY <1>2, <2>1, <2>3, <2>4, TotalCounts, Zenon DEF Taking, Holding
<1>6. CASE AcquireHere(l, c)
  <2>1. conns[c].at = "counted" /\ conns[c].loop = l
    <3>1. conns[c] = [at |-> "counted", loop |-> l]
      BY <1>6, Zenon DEF AcquireHere
    <3>2. QED
      BY <3>1
  <2>2. CASE conns' = [conns EXCEPT ![c].at = "over here"] /\ UNCHANGED <<in_use, here>>
    <3>1. "over here" \in Places
          /\ conns' = [conns EXCEPT ![c] = [conns[c] EXCEPT !.at = "over here"]]
      BY <2>2, Zenon DEF Places
    <3>2. QED
      BY <1>2, <2>1, <2>2, <3>1, QuietCounts, Zenon DEF Taking, Holding
  <2>3. CASE /\ conns' = [conns EXCEPT ![c].at = "serving"] /\ UNCHANGED in_use
             /\ ~ (here[l] >= MaxConnectionsPerListener) /\ here' = [here EXCEPT ![l] = @ + 1]
    <3>1. "serving" \in Places
          /\ conns' = [conns EXCEPT ![c] = [conns[c] EXCEPT !.at = "serving"]]
      BY <2>3 DEF Places
    <3>2. here[l] < MaxConnectionsPerListener
      BY <2>3, LimitsAssumption DEF CountTypesOK
    <3>3. QED
      BY <1>2, <2>1, <2>3, <3>1, <3>2, HereCounts, Zenon DEF Taking, Holding
  <2>4. QED
    BY <1>6, <2>2, <2>3, Zenon DEF AcquireHere
<1>7. CASE Refuse(l, c)
  <2>1. conns[c].at \in {"over", "over here"}
    BY <1>7, Zenon DEF Refuse
  <2>2. conns' = [conns EXCEPT ![c] = Away] /\ in_use' = in_use - 1 /\ UNCHANGED here
    BY <1>7, Zenon DEF Refuse
  <2>3. QED
    BY <2>1, <2>2, AwayIsARecord, TotalCounts, Zenon DEF Taking, Holding
<1>8. QED
  BY <1>3, <1>4, <1>5, <1>6, <1>7

LEMMA ClosingCounts ==
  ASSUME ConnsOK, CountTypesOK, CountsOK, LoopsOK, NEW c \in Conns, Connection(c)
  PROVE  \E r \in ConnRecords : Recounts(c, r)
           /\ \A k \in Loops : here'[k] <= MaxConnectionsPerListener
<1>1. conns[c] \in ConnRecords
  BY DEF ConnsOK
<1>2. CASE Close(c)
  <2>1. /\ [conns[c] EXCEPT !.at = "closed"] \in ConnRecords
        /\ [conns[c] EXCEPT !.at = "closed"].at = "closed"
        /\ [conns[c] EXCEPT !.at = "closed"].loop = conns[c].loop
    BY <1>1, Zenon DEF ConnRecords, Places
  <2>2. /\ conns' = [conns EXCEPT ![c] = [conns[c] EXCEPT !.at = "closed"]]
        /\ conns[c].at = "serving" /\ in_use' = in_use - 1 /\ UNCHANGED here
    BY <1>2 DEF Close
  <2>3. QED
    BY <2>1, <2>2, TotalCounts, Zenon DEF Taking, Holding
<1>3. CASE NotifyWaiters(c)
  <2>1. /\ conns' = [conns EXCEPT ![c] = Away] /\ conns[c].at = "closed" /\ UNCHANGED in_use
        /\ here' = [here EXCEPT ![conns[c].loop] = @ - 1]
    BY <1>3 DEF NotifyWaiters
  <2>2. conns[c].loop \in Loops
    BY <2>1 DEF LoopsOK
  <2>3. QED
    BY <2>1, <2>2, AwayIsARecord, HereCounts, Zenon DEF Taking, Holding
<1>4. QED
  BY <1>2, <1>3 DEF Connection

LEMMA CountsAreKept ==
  ASSUME ConnsOK, CountTypesOK, CountsOK, LoopsOK, [Next]_vars
  PROVE  CountsOK' /\ CountTypesOK'
<1>1. CASE UNCHANGED <<conns, in_use, here>>
  BY <1>1 DEF CountsOK, CountTypesOK, ListenerCapHolds, Of
<1>2. ASSUME NEW c \in Conns, NEW r \in ConnRecords, Recounts(c, r),
             \A k \in Loops : here'[k] <= MaxConnectionsPerListener
      PROVE  CountsOK' /\ CountTypesOK'
  BY <1>2, RecountsKeepCounts DEF CountTypesOK
<1>3. ASSUME NEW l \in Loops, RunListener(l) PROVE CountsOK' /\ CountTypesOK'
  <2>1. CASE AcceptFails(l) \/ PauseEnds(l) \/ LoopLeaves(l)
    BY <1>1, <2>1 DEF AcceptFails, PauseEnds, LoopLeaves, counts
  <2>2. QED
    BY <1>2, <1>3, <2>1, AdmittingCounts DEF RunListener
<1>4. ASSUME NEW c \in Conns, Connection(c) PROVE CountsOK' /\ CountTypesOK'
  BY <1>2, <1>4, ClosingCounts
<1>5. CASE UNCHANGED vars \/ Trigger \/ ServeUntilDrained \/ Reload
  <2>1. UNCHANGED <<conns, in_use, here>>
    BY <1>5 DEF vars, Trigger, Reload, Stage, StageFails, Commit, ServeUntilDrained, TakeLoops,
       LoopsJoined, Register, Look, Wake, Deadline, Cut, GraceEnds, counts
  <2>2. QED
    BY <1>1, <2>1
<1>6. QED
  BY <1>3, <1>4, <1>5 DEF Next

-----------------------------------------------------------------------------
(* The types, part by part.                                                *)
SocketTypesOK ==
  /\ running \in [DOMAIN running -> Loops] /\ DOMAIN running \subseteq Addrs
  /\ adopted \subseteq Addrs
  /\ staged \in [desired : SUBSET Addrs, bound : SUBSET Addrs] \cup {None}

FlagsOK == drain \in BOOLEAN /\ cut \in BOOLEAN /\ late \in BOOLEAN

DrainTypesOK ==
  /\ drainer \in {"serving", "joining", "registering", "looking", "waiting", "cutting", "done"}
  /\ joining \subseteq Loops /\ waiter \in {"none", "registered", "woken"}
  /\ drained \in [cut : Nat, stuck : Nat]

LEMMA TypesByParts ==
  TypeOK <=> SocketTypesOK /\ LoopTypesOK /\ CountTypesOK /\ FlagsOK /\ DrainTypesOK
  BY Zenon DEF TypeOK, SocketTypesOK, LoopTypesOK, ConnsOK, CountTypesOK, FlagsOK, DrainTypesOK

LEMMA TypesByPartsNext ==
  TypeOK' <=> SocketTypesOK' /\ LoopTypesOK' /\ CountTypesOK' /\ FlagsOK' /\ DrainTypesOK'
  BY Zenon DEF TypeOK, SocketTypesOK, LoopTypesOK, ConnsOK, CountTypesOK, FlagsOK, DrainTypesOK

LEMMA NewLoopsAndAborted ==
  ASSUME LoopTypesOK, NEW l \in Loops
  PROVE  /\ \A a \in Addrs : NewLoop(a) \in LoopRecords
         /\ \A ls : Aborted(ls)[l] \in LoopRecords \cup {None}
<1>1. \A a \in Addrs : NewLoop(a) \in LoopRecords
  BY DEF NewLoop, LoopRecords
<1>2. loops[l] \in LoopRecords => [loops[l] EXCEPT !.aborted = TRUE] \in LoopRecords
  BY Zenon DEF LoopRecords
<1>3. ASSUME NEW ls PROVE Aborted(ls)[l] \in LoopRecords \cup {None}
  <2>1. Aborted(ls)[l] = IF l \notin ls \cap Live THEN loops[l]
                         ELSE IF loops[l].at = "admitting" THEN [loops[l] EXCEPT !.aborted = TRUE]
                         ELSE None
    BY DEF Aborted
  <2>2. loops[l] \in LoopRecords \cup {None} /\ (l \in Live => loops[l] # None)
    BY DEF LoopTypesOK, Live
  <2>3. QED
    BY <1>2, <2>1, <2>2
<1>4. QED
  BY <1>1, <1>3

LEMMA CommitKeepsTypes ==
  ASSUME SocketTypesOK, LoopTypesOK, Commit
  PROVE  SocketTypesOK' /\ LoopTypesOK'
<1> DEFINE kept    == DOMAIN running \cap staged.desired
           removed == {running[a] : a \in DOMAIN running \ kept}
           new     == (staged.desired \ kept) \cap staged.bound
<1>1. PICK spawned \in [new -> Unused] :
        /\ running' = [a \in kept \cup new |-> IF a \in new THEN spawned[a] ELSE running[a]]
        /\ loops' = [l \in Loops |->
                       IF l \in Range(spawned) THEN NewLoop(CHOOSE a \in new : spawned[a] = l)
                       ELSE Aborted(removed)[l]]
  BY Zenon DEF Commit
<1>2. new \subseteq Addrs /\ kept \subseteq Addrs
  BY DEF SocketTypesOK, Commit
<1>3. SocketTypesOK'
  <2>1. adopted' = {} /\ staged' = None
    BY DEF Commit
  <2> HIDE DEF kept, new
  <2>2. DOMAIN running' = kept \cup new /\ running' \in [kept \cup new -> Loops]
    <3>1. \A a \in new : spawned[a] \in Loops
      BY <1>1 DEF Unused
    <3>2. \A a \in kept : running[a] \in Loops
      BY DEF SocketTypesOK, kept
    <3>3. QED
      BY <1>1, <3>1, <3>2
  <2>3. QED
    BY <1>2, <2>1, <2>2 DEF SocketTypesOK
<1>4. ASSUME NEW l \in Loops PROVE loops'[l] \in LoopRecords \cup {None}
  <2> HIDE DEF kept, new, removed
  <2>1. l \in Range(spawned) => (CHOOSE a \in new : spawned[a] = l) \in new
    BY <1>1 DEF Range
  <2>2. QED
    BY <1>1, <1>2, <2>1, NewLoopsAndAborted
<1>5. loops' \in [Loops -> LoopRecords \cup {None}]
  BY <1>1, <1>4, Zenon
<1>6. QED
  BY <1>3, <1>5, Zenon DEF LoopTypesOK, ConnsOK, Commit

LEMMA RunListenerKeepsTypes ==
  ASSUME LoopTypesOK, NEW l \in Loops, RunListener(l)
  PROVE  loops' \in [Loops -> LoopRecords \cup {None}]
<1>1. loops[l] \in LoopRecords
  BY DEF LoopTypesOK, RunListener, Live
<1>2. \A place \in {"accepting", "pausing", "admitting"} :
        [loops[l] EXCEPT !.at = place] \in LoopRecords
  BY <1>1 DEF LoopRecords
<1>3. CASE UNCHANGED loops
  BY <1>3 DEF LoopTypesOK
<1>4. ASSUME NEW place \in {"accepting", "pausing", "admitting"}, MoveTo(l, place)
      PROVE  loops' \in [Loops -> LoopRecords \cup {None}]
  BY <1>2, <1>4 DEF LoopTypesOK, MoveTo
<1>5. CASE Continue(l)
  BY <1>2, <1>5 DEF LoopTypesOK, Continue
<1>6. CASE LoopLeaves(l)
  BY <1>6 DEF LoopTypesOK, LoopLeaves
<1>7. \/ UNCHANGED loops \/ Continue(l) \/ LoopLeaves(l)
      \/ MoveTo(l, "accepting") \/ MoveTo(l, "pausing") \/ MoveTo(l, "admitting")
  BY Zenon DEF RunListener, AcceptFails, PauseEnds, Accept, OverPeerRate, AcquireTotal,
     AcquireHere, Refuse
<1>8. QED
  BY <1>3, <1>4, <1>5, <1>6, <1>7

LEMMA TypesAreKept ==
  ASSUME TypeOK, ConnsOK', CountTypesOK', [Next]_vars
  PROVE  TypeOK'
<1> USE TypesByParts
<1>1. FlagsOK'
  <2>1. CASE UNCHANGED <<drain, cut, late>>
    BY <2>1 DEF FlagsOK
  <2>2. CASE Commit
    BY <2>2, Zenon DEF FlagsOK, Commit, draining
  <2>3. CASE Trigger
    BY <2>3 DEF FlagsOK, Trigger, draining
  <2>4. CASE Cut
    BY <2>4 DEF FlagsOK, Cut
  <2>5. CASE UNCHANGED vars \/ \E desired \in SUBSET Addrs : Stage(desired) \/ StageFails(desired)
    BY <2>1, <2>5 DEF vars, Stage, StageFails, draining
  <2>6. CASE TakeLoops \/ LoopsJoined \/ Register \/ Look \/ Wake \/ Deadline \/ GraceEnds
    BY <2>1, <2>6 DEF TakeLoops, LoopsJoined, Register, Look, Wake, Deadline, GraceEnds
  <2>7. CASE (\E l \in Loops : RunListener(l)) \/ (\E c \in Conns : Connection(c))
    BY <2>1, <2>7, ServingLeavesAlone, ClosingLeavesAlone DEF draining
  <2>8. QED
    BY <2>2, <2>3, <2>4, <2>5, <2>6, <2>7 DEF Next, Reload, ServeUntilDrained
<1>2. SocketTypesOK' /\ LoopTypesOK'
  <2>1. CASE UNCHANGED <<running, adopted, staged, loops>>
    BY <2>1 DEF SocketTypesOK, LoopTypesOK
  <2>2. CASE Commit
    BY <2>2, CommitKeepsTypes
  <2>3. ASSUME NEW desired \in SUBSET Addrs, Stage(desired) \/ StageFails(desired)
        PROVE  SocketTypesOK' /\ LoopTypesOK'
    BY <2>3 DEF SocketTypesOK, LoopTypesOK, Stage, StageFails, Missing
  <2>4. CASE TakeLoops
    BY <2>4 DEF SocketTypesOK, LoopTypesOK, TakeLoops
  <2>5. ASSUME NEW l \in Loops, RunListener(l) PROVE SocketTypesOK' /\ LoopTypesOK'
    BY <2>5, ServingLeavesAlone, RunListenerKeepsTypes DEF SocketTypesOK, LoopTypesOK, sockets
  <2>6. CASE UNCHANGED vars \/ Trigger \/ (\E c \in Conns : Connection(c))
             \/ LoopsJoined \/ Register \/ Look \/ Wake \/ Deadline \/ Cut \/ GraceEnds
    <3>1. UNCHANGED <<running, adopted, staged, loops>>
      BY <2>6, ClosingLeavesAlone DEF vars, Trigger, LoopsJoined, Register, Look, Wake, Deadline,
         Cut, GraceEnds, sockets
    <3>2. QED
      BY <2>1, <3>1
  <2>7. QED
    BY <2>2, <2>3, <2>4, <2>5, <2>6 DEF Next, Reload, ServeUntilDrained
<1>3. DrainTypesOK'
  <2>1. CASE UNCHANGED draining
    BY <2>1 DEF DrainTypesOK, draining
  <2>2. CASE TakeLoops
    BY <2>2 DEF DrainTypesOK, TakeLoops, SocketTypesOK, Range
  <2>3. CASE LoopsJoined \/ Register \/ Look \/ Wake \/ Cut
    BY <2>3 DEF DrainTypesOK, LoopsJoined, Register, Look, Wake, Cut
  <2>4. CASE Deadline \/ GraceEnds
    BY <2>4 DEF DrainTypesOK, CountTypesOK, Deadline, GraceEnds
  <2>5. ASSUME NEW c \in Conns, Connection(c) PROVE DrainTypesOK'
    BY <2>5 DEF DrainTypesOK, Connection, Close, NotifyWaiters, draining
  <2>6. CASE UNCHANGED vars \/ Trigger \/ Reload \/ \E l \in Loops : RunListener(l)
    BY <2>1, <2>6, ServingLeavesAlone DEF vars, Trigger, Reload, Stage, StageFails, Commit
  <2>7. QED
    BY <2>2, <2>3, <2>4, <2>5, <2>6 DEF Next, ServeUntilDrained
<1>4. QED
  BY <1>1, <1>2, <1>3, TypesByPartsNext

-----------------------------------------------------------------------------
(* The drain.  A commit leaves no loop behind that is not running, unless  *)
(* it aborts one in the middle of admitting.                               *)
LEMMA CommitKeepsJoined ==
  ASSUME TypeOK, ~ late => Live \subseteq Range(running), Commit, ~ late'
  PROVE  Live' \subseteq Range(running')
<1> DEFINE kept    == DOMAIN running \cap staged.desired
           removed == {running[a] : a \in DOMAIN running \ kept}
           new     == (staged.desired \ kept) \cap staged.bound
<1>1. PICK spawned \in [new -> Unused] :
        /\ running' = [a \in kept \cup new |-> IF a \in new THEN spawned[a] ELSE running[a]]
        /\ loops' = [l \in Loops |->
                       IF l \in Range(spawned) THEN NewLoop(CHOOSE a \in new : spawned[a] = l)
                       ELSE Aborted(removed)[l]]
        /\ late' = (late \/ \E l \in removed \cap Live : loops[l].at = "admitting")
  BY Zenon DEF Commit
<1>2. ~ late /\ \A l \in removed \cap Live : loops[l].at # "admitting"
  BY <1>1, Zenon
<1>3. ASSUME NEW l \in Loops, loops'[l] # None PROVE l \in Range(running')
  <2>1. CASE l \in Range(spawned)
    <3>1. PICK a \in new : spawned[a] = l
      BY <1>1, <2>1 DEF Range
    <3>2. a \in DOMAIN running' /\ running'[a] = l
      BY <1>1, <3>1
    <3>3. QED
      BY <3>2 DEF Range
  <2>2. CASE l \notin Range(spawned)
    <3>1. Aborted(removed)[l] # None
      BY <1>1, <1>3, <2>2
    <3> HIDE DEF removed
    <3>2. l \notin removed \cap Live /\ loops[l] # None
      BY <1>2, <3>1 DEF Aborted
    <3>3. l \in Range(running) /\ l \notin removed
      BY <1>2, <3>2 DEF Live
    <3>4. PICK a \in DOMAIN running : running[a] = l
      BY <3>3 DEF Range
    <3>5. a \in kept
      BY <3>3, <3>4 DEF removed
    <3>6. a \in DOMAIN running' /\ running'[a] = l
      BY <1>1, <3>4, <3>5
    <3>7. QED
      BY <3>6 DEF Range
  <2>3. QED
    BY <2>1, <2>2
<1>4. QED
  BY <1>3 DEF Live

LEMMA RunListenerKeepsLive ==
  ASSUME TypeOK, NEW l \in Loops, RunListener(l)
  PROVE  l \in Live /\ Live' \subseteq Live
<1>1. \A k \in Loops : k # l => loops'[k] = loops[k]
  BY Zenon DEF TypeOK, RunListener, AcceptFails, PauseEnds, LoopLeaves, Accept, OverPeerRate,
     AcquireTotal, AcquireHere, Refuse, MoveTo, Continue
<1>2. QED
  BY <1>1 DEF RunListener, Live

(* When the count is zero nothing is open.                                 *)
LEMMA NoneOpen ==
  ASSUME CountsOK, in_use = 0, NEW c \in Conns
  PROVE  conns[c].at \notin Taking
<1> DEFINE S == {d \in Conns : conns[d].at \in Taking}
<1>1. IsFiniteSet(S)
  BY LimitsAssumption, FS_Subset
<1>2. Cardinality(S) = 0
  BY DEF CountsOK
<1>3. S = {}
  BY <1>1, <1>2, FS_EmptySet
<1>4. QED
  BY <1>3

LEMMA DrainIsKept ==
  ASSUME TypeOK, SocketsOK, CountsOK, DrainOK, [Next]_vars
  PROVE  DrainOK'
<1>1. CASE UNCHANGED <<running, loops, conns, in_use, draining, late>>
  BY <1>1 DEF DrainOK, NoCloseIsMissed, Live, At, Joined, draining
<1>2. CASE UNCHANGED vars \/ Trigger
           \/ \E desired \in SUBSET Addrs : Stage(desired) \/ StageFails(desired)
  BY <1>1, <1>2 DEF vars, Trigger, Stage, StageFails, sockets, counts
<1>3. CASE Commit
  <2>1. drainer = "serving" /\ UNCHANGED drainer
    BY <1>3, Zenon DEF SocketsOK, Commit, draining
  <2>2. ~ late' => Live' \subseteq Range(running')
    BY <1>3, <2>1, CommitKeepsJoined DEF DrainOK, Joined
  <2>3. QED
    BY <2>1, <2>2 DEF DrainOK, Joined, NoCloseIsMissed
<1>4. ASSUME NEW l \in Loops, RunListener(l) PROVE DrainOK'
  <2>1. l \in Live /\ Live' \subseteq Live
    BY <1>4, RunListenerKeepsLive
  <2>2. UNCHANGED <<running, draining, late>>
    BY <1>4, ServingLeavesAlone DEF sockets
  <2>3. ~ late => drainer \in {"serving", "joining"}
    BY <2>1 DEF DrainOK, Joined
  <2>4. QED
    BY <2>1, <2>2, <2>3 DEF DrainOK, Joined, NoCloseIsMissed, draining
<1>5. ASSUME NEW c \in Conns, Close(c) PROVE DrainOK'
  <2>1. conns'[c].at = "closed"
    BY <1>5 DEF Close, TypeOK, ConnRecords
  <2>2. At("closed")' # {}
    BY <2>1 DEF At
  <2>3. in_use # 0
    BY <1>5, NoneOpen, Zenon DEF Close, Taking
  <2>4. UNCHANGED <<running, loops, draining, late>>
    BY <1>5 DEF Close, sockets
  <2>5. QED
    BY <2>2, <2>3, <2>4 DEF DrainOK, Joined, NoCloseIsMissed, Live, draining
<1>6. ASSUME NEW c \in Conns, NotifyWaiters(c) PROVE DrainOK'
  <2>1. UNCHANGED <<running, loops, drainer, joining, drained, late, in_use>>
    BY <1>6 DEF NotifyWaiters, sockets
  <2>2. drainer \in {"looking", "waiting"} => waiter' = "woken"
    BY <1>6 DEF NotifyWaiters, DrainOK, TypeOK
  <2>3. QED
    BY <2>1, <2>2 DEF DrainOK, Joined, NoCloseIsMissed, Live
<1>7. CASE TakeLoops \/ LoopsJoined \/ Register \/ Wake \/ Cut
  <2>1. UNCHANGED <<loops, late>> /\ drainer' \in {"joining", "registering", "looking"}
    BY <1>7 DEF TakeLoops, LoopsJoined, Register, Wake, Cut
  <2>2. drainer' = "looking" => waiter' # "none"
    BY <1>7 DEF TakeLoops, LoopsJoined, Register, Wake, Cut
  <2>3. ~ late => Live \subseteq Joined'
    BY <1>7 DEF DrainOK, Joined, TakeLoops, LoopsJoined, Register, Wake, Cut
  <2>4. QED
    BY <2>1, <2>2, <2>3 DEF DrainOK, NoCloseIsMissed, Live
<1>8. CASE Look \/ Deadline \/ GraceEnds
  <2>1. UNCHANGED <<loops, late, waiter, in_use>>
        /\ drainer \in {"looking", "waiting"} /\ drainer' \in {"waiting", "cutting", "done"}
    BY <1>8 DEF Look, Deadline, GraceEnds, counts
  <2>2. ~ late => Live \subseteq Joined'
    BY <2>1 DEF DrainOK, Joined
  <2>3. drainer' = "waiting" => in_use # 0
    BY <1>8 DEF Look, Deadline, GraceEnds
  <2>4. drainer' = "done" /\ drained'.stuck = 0 => in_use = 0
    BY <1>8 DEF Look, Deadline, GraceEnds, TypeOK
  <2>5. QED
    BY <2>1, <2>2, <2>3, <2>4 DEF DrainOK, NoCloseIsMissed, Live
<1>9. QED
  BY <1>2, <1>3, <1>4, <1>5, <1>6, <1>7, <1>8
     DEF Next, Reload, Connection, ServeUntilDrained

-----------------------------------------------------------------------------
LEMMA ListenersInit == Init => ListenersOK
<1> SUFFICES ASSUME Init PROVE ListenersOK
  OBVIOUS
<1>1. \A c \in Conns : conns[c] = Away /\ conns[c] \in ConnRecords
                       /\ conns[c].at = "away" /\ conns[c].loop = None
  BY AwayIsARecord DEF Init, Away
<1>2. TypeOK
  <2>1. SocketTypesOK /\ DrainTypesOK
    BY DEF Init, SocketTypesOK, DrainTypesOK
  <2>2. ConnsOK
    <3>1. conns \in [Conns -> ConnRecords]
      BY <1>1 DEF Init
    <3>2. QED
      BY <3>1 DEF ConnsOK
  <2>3. LoopTypesOK /\ CountTypesOK
    BY <2>2 DEF Init, LoopTypesOK, CountTypesOK
  <2>4. FlagsOK
    BY Zenon DEF Init, FlagsOK
  <2>5. QED
    BY <2>1, <2>3, <2>4, TypesByParts
<1>3. SocketsOK
  BY DEF Init, SocketsOK, CommitFindsItsSockets
<1>4. LoopsOK
  BY <1>1, Zenon DEF LoopsOK, AcceptedAreNotDropped, InHand
<1>5. CountsOK
  <2>1. {c \in Conns : conns[c].at \in Taking} = {}
        /\ \A l \in Loops : {c \in Of(l) : conns[c].at \in {"serving", "closed"}} = {}
    BY <1>1, Zenon DEF Taking, Of
  <2>2. Cardinality({}) = 0
    BY FS_EmptySet
  <2>3. in_use = 0 /\ \A l \in Loops : here[l] = 0
    BY DEF Init
  <2>4. QED
    <3>1. in_use = Cardinality({c \in Conns : conns[c].at \in Taking})
      BY <2>1, <2>2, <2>3, Zenon
    <3>2. \A l \in Loops :
            here[l] = Cardinality({c \in Of(l) : conns[c].at \in {"serving", "closed"}})
      BY <2>1, <2>2, <2>3, Zenon
    <3>3. \A l \in Loops : here[l] <= MaxConnectionsPerListener
      BY <2>3, LimitsAssumption
    <3>4. QED
      BY <3>1, <3>2, <3>3, Zenon DEF CountsOK, ListenerCapHolds
<1>6. DrainOK
  BY DEF Init, DrainOK, NoCloseIsMissed, Live, Joined
<1>7. QED
  BY <1>2, <1>3, <1>4, <1>5, <1>6 DEF ListenersOK

LEMMA ListenersStep == ListenersOK /\ [Next]_vars => ListenersOK'
<1> SUFFICES ASSUME ListenersOK, [Next]_vars PROVE ListenersOK'
  OBVIOUS
<1>1. TypeOK /\ SocketsOK /\ LoopsOK /\ CountsOK /\ DrainOK
  BY DEF ListenersOK
<1>2. LoopTypesOK /\ CountTypesOK /\ ConnsOK
  BY <1>1, TypesByParts DEF LoopTypesOK
<1>3. ConnsOK'
  BY <1>2, StepsAreTheLimits
<1>4. CountsOK' /\ CountTypesOK'
  BY <1>1, <1>2, CountsAreKept
<1>5. TypeOK' /\ SocketsOK' /\ LoopsOK' /\ DrainOK'
  BY <1>1, <1>2, <1>3, <1>4, TypesAreKept, SocketsAreKept, LoopsAreKept, DrainIsKept
<1>6. QED
  BY <1>4, <1>5 DEF ListenersOK

(* Every connection accepted is counted once and in the hands of a loop    *)
(* that goes on, and no listener is over its cap, for any number of loops, *)
(* connections and reloads, loops aborted while they run included          *)
(* (accept.rs, listeners.rs: admit, Slot, commit).                         *)
THEOREM AdmissionIsAlwaysKept == Spec => []AdmissionIsKept
<1>1. ListenersOK => AdmissionIsKept
  BY DEF ListenersOK, LoopsOK, CountsOK, AdmissionIsKept
<1>2. QED
  BY <1>1, ListenersInit, ListenersStep, PTL DEF Spec

(* A drain misses no close and calls nothing drained that is not           *)
(* (all_closed registers before it looks; serve_until_drained has joined   *)
(* the loops by then), unless a loop was aborted while it was running.     *)
THEOREM DrainSeesEveryClose == Spec => []DrainSeesAll
<1>1. ListenersOK => DrainSeesAll
  <2> SUFFICES ASSUME ListenersOK PROVE DrainSeesAll
    OBVIOUS
  <2>1. NoCloseIsMissed
    BY DEF ListenersOK, DrainOK
  <2>2. ASSUME drainer = "done", ~ late, drained.stuck = 0
        PROVE  At("serving") = {} /\ Live = {}
    <3>1. in_use = 0 /\ Live = {}
      BY <2>2 DEF ListenersOK, DrainOK, Joined
    <3>2. \A c \in Conns : conns[c].at \notin Taking
      BY <3>1, NoneOpen DEF ListenersOK
    <3>3. QED
      BY <3>1, <3>2, Zenon DEF At, Taking
  <2>3. QED
    BY <2>1, <2>2 DEF DrainSeesAll, DrainedMeansClosed
<1>2. QED
  BY <1>1, ListenersInit, ListenersStep, PTL DEF Spec
=============================================================================
