------------------------------ MODULE Listeners -------------------------------
(***************************************************************************)
(* The listening sockets of a node (lib/listen/src/listeners.rs), their    *)
(* accept loops and the caps on connections (accept.rs), and the drain     *)
(* that ends them (drain.rs, gfe/proxy/src/frontend.rs).                   *)
(*                                                                         *)
(* The actors: a reload, which stages and commits a set of addresses; an   *)
(* accept loop per socket, on its own thread; a task per connection; and   *)
(* serve_until_drained.  They share the atomic count of open connections   *)
(* and the Notify a closing connection wakes the drain with.  As in        *)
(* HealthChecking, `abort` ends a loop that is waiting, and leaves one     *)
(* that is running to go on to its next await.                             *)
(*                                                                         *)
(* What is attached to a listener, and what serves its connections, is the *)
(* caller's.  The per-peer rate (KeyedBuckets) may refuse any connection.  *)
(***************************************************************************)
EXTENDS Integers, FiniteSets, Functions

CONSTANTS
  Addrs,
  Conns,                      \* connections, each accepted any number of times
  Loops,                      \* identities of accept loop tasks
  MaxConnections,             \* Limits::max_connections
  MaxConnectionsPerListener,  \* Limits::max_connections_per_listener
  None

ASSUME LimitsAssumption ==
  /\ IsFiniteSet(Conns)
  /\ MaxConnections \in Nat /\ MaxConnectionsPerListener \in Nat
  /\ None \notin Loops \cup Nat

VARIABLES
  running,    \* the accept loop of each address listened on
  adopted,    \* the addresses of the sockets handed over and not yet used
  staged,     \* a Staged: the addresses desired and the sockets bound, or None
  loops,      \* the accept loops that have not ended
  conns,      \* where each connection is, and the loop that accepted it
  in_use,     \* the count of OpenConnections
  here,       \* the count of each loop's own limit
  drain,      \* the drain signal
  cut,        \* the signal to drop what is open
  drainer,    \* where serve_until_drained is
  joining,    \* the loops it waits for
  waiter,     \* its Notified: "none", "registered" or "woken"
  drained,    \* what it returns
  late        \* history: a loop was aborted while it was running

sockets == <<running, adopted, staged>>
counts == <<in_use, here>>
draining == <<cut, drainer, joining, waiter, drained>>
vars == <<sockets, loops, conns, counts, drain, draining, late>>

LoopRecords == [addr : Addrs, at : {"accepting", "pausing", "admitting"}, aborted : BOOLEAN]

ASSUME NoLoopAssumption == None \notin LoopRecords

(* "accepted": not counted yet.  "counted": with a place under the total.  *)
(* "over", "over here": refused, its place not given back yet.  "closed":  *)
(* its place under the total given back, the other not yet.                *)
Places == {"away", "accepted", "counted", "over", "over here", "serving", "closed"}
ConnRecords == [at : Places, loop : Loops \cup {None}]

Live == {l \in Loops : loops[l] # None}
At(place) == {c \in Conns : conns[c].at = place}
Of(l) == {c \in Conns : conns[c].loop = l}

(* The sockets, loops, connections and counts of a node.  No count is ever *)
(* negative, where the code's would wrap around.                           *)
TypeOK ==
  /\ running \in [DOMAIN running -> Loops] /\ DOMAIN running \subseteq Addrs
  /\ adopted \subseteq Addrs
  /\ staged \in [desired : SUBSET Addrs, bound : SUBSET Addrs] \cup {None}
  /\ loops \in [Loops -> LoopRecords \cup {None}]
  /\ conns \in [Conns -> ConnRecords]
  /\ in_use \in Nat /\ here \in [Loops -> Nat]
  /\ drain \in BOOLEAN /\ cut \in BOOLEAN /\ late \in BOOLEAN
  /\ drainer \in {"serving", "joining", "registering", "looking", "waiting", "cutting", "done"}
  /\ joining \subseteq Loops /\ waiter \in {"none", "registered", "woken"}
  /\ drained \in [cut : Nat, stuck : Nat]

Away == [at |-> "away", loop |-> None]

(* A successor has adopted the sockets of its predecessor before its first *)
(* config is staged.                                                       *)
Init ==
  /\ running = << >> /\ adopted \in SUBSET Addrs /\ staged = None
  /\ loops = [l \in Loops |-> None]
  /\ conns = [c \in Conns |-> Away]
  /\ in_use = 0 /\ here = [l \in Loops |-> 0]
  /\ drain = FALSE /\ cut = FALSE
  /\ drainer = "serving" /\ joining = {} /\ waiter = "none"
  /\ drained = [cut |-> 0, stuck |-> 0]
  /\ late = FALSE

-----------------------------------------------------------------------------
Missing(desired) == desired \ DOMAIN running

(* A reload gets the sockets it lacks, adopted or newly bound.             *)
Stage(desired) ==
  /\ ~drain /\ staged = None
  /\ staged' = [desired |-> desired, bound |-> Missing(desired)]
  /\ adopted' = adopted \ Missing(desired)
  /\ UNCHANGED <<running, loops, conns, counts, drain, draining, late>>

(* A socket cannot be had: those taken before it are closed.               *)
StageFails(desired) ==
  /\ ~drain /\ staged = None
  /\ \E taken \in SUBSET Missing(desired) : adopted' = adopted \ taken
  /\ UNCHANGED <<running, staged, loops, conns, counts, drain, draining, late>>

(* Loops whose identity is not in use, not by a connection either.         *)
Unused == {l \in Loops : loops[l] = None /\ Of(l) = {}}

(* An abort that ends a loop wherever it is.                               *)
AbortedAtOnce(ls) == [l \in Loops |-> IF l \in ls THEN None ELSE loops[l]]

(* What JoinHandle::abort makes of the loops.                              *)
Aborted(ls) ==
  [l \in Loops |->
     IF l \notin ls \cap Live THEN loops[l]
     ELSE IF loops[l].at = "admitting" THEN [loops[l] EXCEPT !.aborted = TRUE]
     ELSE None]

NewLoop(a) == [addr |-> a, at |-> "accepting", aborted |-> FALSE]

(* The staged set becomes the running one; an address without a socket is  *)
(* warned about and skipped.                                               *)
Commit ==
  /\ staged # None
  /\ LET kept    == DOMAIN running \cap staged.desired
         removed == {running[a] : a \in DOMAIN running \ kept}
         new     == (staged.desired \ kept) \cap staged.bound
     IN  \E spawned \in [new -> Unused] :
           /\ \A a, b \in new : spawned[a] = spawned[b] => a = b
           /\ running' = [a \in kept \cup new |-> IF a \in new THEN spawned[a] ELSE running[a]]
           /\ loops' = [l \in Loops |->
                          IF l \in Range(spawned) THEN NewLoop(CHOOSE a \in new : spawned[a] = l)
                          ELSE Aborted(removed)[l]]
           /\ late' = (late \/ \E l \in removed \cap Live : loops[l].at = "admitting")
  /\ adopted' = {}
  /\ staged' = None
  /\ UNCHANGED <<conns, counts, drain, draining>>

-----------------------------------------------------------------------------
MoveTo(l, point) == loops' = [loops EXCEPT ![l].at = point]

(* The loop goes back to its accept, where an aborted one ends.            *)
Continue(l) ==
  loops' = [loops EXCEPT ![l] = IF @.aborted THEN None ELSE [@ EXCEPT !.at = "accepting"]]

(* `select!` takes either branch that is ready, a drain or a connection.   *)
Accept(l, c) ==
  /\ loops[l].at = "accepting" /\ conns[c].at = "away"
  /\ MoveTo(l, "admitting")
  /\ conns' = [conns EXCEPT ![c] = [at |-> "accepted", loop |-> l]]
  /\ UNCHANGED <<sockets, counts, drain, draining, late>>

AcceptFails(l) ==
  /\ loops[l].at = "accepting"
  /\ MoveTo(l, "pausing")
  /\ UNCHANGED <<sockets, conns, counts, drain, draining, late>>

(* pause_unless_drained runs out.                                          *)
PauseEnds(l) ==
  /\ loops[l].at = "pausing"
  /\ MoveTo(l, "accepting")
  /\ UNCHANGED <<sockets, conns, counts, drain, draining, late>>

(* The loop sees the drain, in its accept or in its pause.                 *)
LoopLeaves(l) ==
  /\ drain /\ l \in Live /\ loops[l].at \in {"accepting", "pausing"}
  /\ loops' = [loops EXCEPT ![l] = None]
  /\ UNCHANGED <<sockets, conns, counts, drain, draining, late>>

(* The peer is over its rate: refused before it is counted.                *)
OverPeerRate(l, c) ==
  /\ conns[c] = [at |-> "accepted", loop |-> l]
  /\ conns' = [conns EXCEPT ![c] = Away]
  /\ Continue(l)
  /\ UNCHANGED <<sockets, counts, drain, draining, late>>

(* A cap on what is served, whatever is being admitted.                    *)
AcquireTotalOfServed(l, c) ==
  /\ conns[c] = [at |-> "accepted", loop |-> l]
  /\ in_use' = in_use + 1
  /\ conns' = [conns EXCEPT ![c].at =
                  IF Cardinality(At("serving")) >= MaxConnections THEN "over" ELSE "counted"]
  /\ UNCHANGED <<sockets, loops, here, drain, draining, late>>

(* admit: a place under the cap on all connections ...                     *)
AcquireTotal(l, c) ==
  /\ conns[c] = [at |-> "accepted", loop |-> l]
  /\ in_use' = in_use + 1
  /\ conns' = [conns EXCEPT ![c].at = IF in_use >= MaxConnections THEN "over" ELSE "counted"]
  /\ UNCHANGED <<sockets, loops, here, drain, draining, late>>

(* The off-by-one a comparison with `>` would be.                          *)
AcquireHereOneLate(l, c) ==
  /\ conns[c] = [at |-> "counted", loop |-> l]
  /\ IF here[l] > MaxConnectionsPerListener
     THEN /\ conns' = [conns EXCEPT ![c].at = "over here"]
          /\ UNCHANGED <<loops, here>>
     ELSE /\ conns' = [conns EXCEPT ![c].at = "serving"]
          /\ here' = [here EXCEPT ![l] = @ + 1]
          /\ Continue(l)
  /\ UNCHANGED <<sockets, in_use, drain, draining, late>>

(* ... then one under the listener's own, which only its loop takes; a     *)
(* connection with both is served in a task of its own.                    *)
AcquireHere(l, c) ==
  /\ conns[c] = [at |-> "counted", loop |-> l]
  /\ IF here[l] >= MaxConnectionsPerListener
     THEN /\ conns' = [conns EXCEPT ![c].at = "over here"]
          /\ UNCHANGED <<loops, here>>
     ELSE /\ conns' = [conns EXCEPT ![c].at = "serving"]
          /\ here' = [here EXCEPT ![l] = @ + 1]
          /\ Continue(l)
  /\ UNCHANGED <<sockets, in_use, drain, draining, late>>

(* The refused connection's permit is dropped.  Nobody is woken.           *)
Refuse(l, c) ==
  /\ conns[c] \in [at : {"over", "over here"}, loop : {l}]
  /\ in_use' = in_use - 1
  /\ conns' = [conns EXCEPT ![c] = Away]
  /\ Continue(l)
  /\ UNCHANGED <<sockets, here, drain, draining, late>>

-----------------------------------------------------------------------------
(* A connection that gives both of its places back to the same limit.      *)
CloseTwice(c) ==
  /\ conns[c].at = "serving"
  /\ conns' = [conns EXCEPT ![c].at = "closed"]
  /\ in_use' = in_use - 2
  /\ UNCHANGED <<sockets, loops, here, drain, draining, late>>

(* A connection is over, by itself or cut: Slot::drop gives its place      *)
(* under the total back ...                                                *)
Close(c) ==
  /\ conns[c].at = "serving"
  /\ conns' = [conns EXCEPT ![c].at = "closed"]
  /\ in_use' = in_use - 1
  /\ UNCHANGED <<sockets, loops, here, drain, draining, late>>

(* ... then the one under its listener's, which nobody reads together with *)
(* the Notify it then wakes whoever has registered with.                   *)
NotifyWaiters(c) ==
  /\ conns[c].at = "closed"
  /\ conns' = [conns EXCEPT ![c] = Away]
  /\ here' = [here EXCEPT ![conns[c].loop] = @ - 1]
  /\ waiter' = IF waiter = "registered" THEN "woken" ELSE waiter
  /\ UNCHANGED <<sockets, loops, in_use, drain, cut, drainer, joining, drained, late>>

-----------------------------------------------------------------------------
(* A drain triggered while a reload may be under way.                      *)
TriggerAtOnce ==
  /\ ~drain
  /\ drain' = TRUE
  /\ UNCHANGED <<sockets, loops, conns, counts, draining, late>>

(* Frontend::drain: no reload is under way, and none follows, once         *)
(* Controller::shutdown has returned.                                      *)
Trigger ==
  /\ ~drain /\ staged = None
  /\ drain' = TRUE
  /\ UNCHANGED <<sockets, loops, conns, counts, draining, late>>

(* serve_until_drained: the sockets are let go ...                         *)
TakeLoops ==
  /\ drain /\ drainer = "serving"
  /\ joining' = Range(running)
  /\ running' = << >>
  /\ drainer' = "joining"
  /\ UNCHANGED <<adopted, staged, loops, conns, counts, drain, cut, waiter, drained, late>>

(* ... without waiting for their loops.                                    *)
LoopsNotJoined ==
  /\ drainer = "joining"
  /\ drainer' = "registering" /\ joining' = {}
  /\ UNCHANGED <<sockets, loops, conns, counts, drain, cut, waiter, drained, late>>

(* ... their loops waited for ...                                          *)
LoopsJoined ==
  /\ drainer = "joining" /\ joining \cap Live = {}
  /\ drainer' = "registering" /\ joining' = {}
  /\ UNCHANGED <<sockets, loops, conns, counts, drain, cut, waiter, drained, late>>

(* An all_closed that is not registered until it waits.                    *)
RegisterNothing ==
  /\ drainer = "registering"
  /\ waiter' = "none"
  /\ drainer' = "looking"
  /\ UNCHANGED <<sockets, loops, conns, counts, drain, cut, joining, drained, late>>

(* ... and, in all_closed, the connections: registered before looking.     *)
Register ==
  /\ drainer = "registering"
  /\ waiter' = "registered"
  /\ drainer' = "looking"
  /\ UNCHANGED <<sockets, loops, conns, counts, drain, cut, joining, drained, late>>

Look ==
  /\ drainer = "looking"
  /\ drainer' = IF in_use = 0 THEN "done" ELSE "waiting"
  /\ UNCHANGED <<sockets, loops, conns, counts, drain, cut, joining, waiter, drained, late>>

Wake ==
  /\ drainer = "waiting" /\ waiter = "woken"
  /\ drainer' = "registering"
  /\ UNCHANGED <<sockets, loops, conns, counts, drain, cut, joining, waiter, drained, late>>

(* The deadline passes: what is open is counted, then cut.                 *)
Deadline ==
  /\ drainer = "waiting" /\ ~cut
  /\ drained' = [drained EXCEPT !.cut = in_use]
  /\ drainer' = "cutting"
  /\ UNCHANGED <<sockets, loops, conns, counts, drain, cut, joining, waiter, late>>

Cut ==
  /\ drainer = "cutting"
  /\ cut' = TRUE
  /\ drainer' = "registering"
  /\ UNCHANGED <<sockets, loops, conns, counts, drain, joining, waiter, drained, late>>

(* A wait for the cut connections without the bound of CUT_GRACE.          *)
GraceNeverEnds == FALSE /\ UNCHANGED vars

(* CUT_GRACE passes.                                                       *)
GraceEnds ==
  /\ drainer = "waiting" /\ cut
  /\ drained' = [drained EXCEPT !.stuck = in_use]
  /\ drainer' = "done"
  /\ UNCHANGED <<sockets, loops, conns, counts, drain, cut, joining, waiter, late>>

-----------------------------------------------------------------------------
Reload == (\E desired \in SUBSET Addrs : Stage(desired) \/ StageFails(desired)) \/ Commit

RunListener(l) ==
  /\ l \in Live
  /\ \/ AcceptFails(l) \/ PauseEnds(l) \/ LoopLeaves(l)
     \/ \E c \in Conns :
          \/ Accept(l, c) \/ OverPeerRate(l, c)
          \/ AcquireTotal(l, c) \/ AcquireHere(l, c) \/ Refuse(l, c)

Connection(c) == Close(c) \/ NotifyWaiters(c)

ServeUntilDrained ==
  \/ TakeLoops \/ LoopsJoined \/ Register \/ Look \/ Wake \/ Deadline \/ Cut \/ GraceEnds

Next ==
  \/ Reload \/ Trigger \/ ServeUntilDrained
  \/ \E l \in Loops : RunListener(l)
  \/ \E c \in Conns : Connection(c)

Spec == Init /\ [][Next]_vars

(* The runtime runs the tasks that can go on, and timers go off.  A loop   *)
(* that sees the drain again and again leaves, since `select!` picks among *)
(* its branches at random.  Connections may stay open, or be stuck.        *)
Fairness ==
  /\ WF_vars(ServeUntilDrained)
  /\ \A l \in Loops : WF_vars(RunListener(l)) /\ SF_vars(LoopLeaves(l))

FairSpec == Spec /\ Fairness

-----------------------------------------------------------------------------
(* The count of OpenConnections is a ConcurrencyLimit, each connection a   *)
(* caller: its refusals at the listener's cap drop a permit that was held. *)
PermitOf(place) ==
  CASE place \in {"counted", "over here", "serving"} -> "held"
    [] place = "over" -> "refused"
    [] OTHER -> "none"

Total == INSTANCE ConcurrencyLimit
  WITH Callers <- Conns, Max <- MaxConnections, NoMax <- None,
       permit <- [c \in Conns |-> PermitOf(conns[c].at)]

(* What the accept loops and the connections do to the count is what       *)
(* ConcurrencyLimit allows, and so never admits more than max_connections. *)
TotalIsALimit == Total!Spec

(* No listener serves more than its own cap, and its count is exact,       *)
(* however its connections come and go and even once it is removed.        *)
ListenerCapHolds ==
  \A l \in Loops :
    /\ here[l] = Cardinality({c \in Of(l) : conns[c].at \in {"serving", "closed"}})
    /\ here[l] <= MaxConnectionsPerListener

(* "Aborting its task closes the socket without dropping an accepted       *)
(* connection": every connection accepted and not served yet is in the     *)
(* hands of a loop that goes on.                                           *)
AcceptedAreNotDropped ==
  \A c \in Conns :
    conns[c].at \in {"accepted", "counted", "over", "over here"} =>
      conns[c].loop \in Live /\ loops[conns[c].loop].at = "admitting"

(* What a listener accepts it keeps, or refuses for its cap only.          *)
AdmissionIsKept == TypeOK /\ ListenerCapHolds /\ AcceptedAreNotDropped

(* "Committed without a socket: stage and commit raced" is never logged:   *)
(* a commit finds a socket for every address it is to listen on.           *)
CommitFindsItsSockets ==
  staged # None => staged.desired \subseteq DOMAIN running \cup staged.bound

(* "Registered before looking, so a close in between is not missed": the   *)
(* drain never waits for a last connection that is gone, unless a loop was *)
(* aborted while it was running.                                           *)
NoCloseIsMissed ==
  drainer = "waiting" /\ in_use = 0 /\ ~late => waiter = "woken" \/ At("closed") # {}

(* A drain that cut nothing left nothing open and nothing listening, with  *)
(* the same exception.                                                     *)
DrainedMeansClosed ==
  drainer = "done" /\ ~late /\ drained.stuck = 0 => At("serving") = {} /\ Live = {}

(* A drain learns of every close and says it is done when all is closed.   *)
DrainSeesAll == NoCloseIsMissed /\ DrainedMeansClosed

(* A drain ends, whatever the connections do.                              *)
DrainEnds == drain ~> drainer = "done"

=============================================================================
