------------------------------- MODULE Upgrade --------------------------------
(***************************************************************************)
(* The life of a node (gfe/node/src/main.rs) and the replacement of one    *)
(* node process by the next without closing a listening socket             *)
(* (upgrade.rs, handover.rs, lib/listen/src/handover.rs).                  *)
(*                                                                         *)
(* The actors are the processes.  Each has its main task; one that         *)
(* replaces itself also has a thread that starts the successor and waits   *)
(* for it (start_successor), which main abandons when it is told to stop.  *)
(* The two processes share the listening sockets, the ops socket, the      *)
(* cgroup the kernel view reports on, and the file of the last-known-good  *)
(* config.  Between them is a socket pair: the sockets go one way, a       *)
(* receipt and a confirmation the other.  What has been written to it can  *)
(* be read after it is shut down; nothing can be written any more.         *)
(*                                                                         *)
(* What a reload does inside a process is the Reload module; here it       *)
(* changes the addresses listened on and rewrites the cached config.       *)
(***************************************************************************)
EXTENDS Integers, FiniteSets

CONSTANTS
  Procs,        \* process ids, 1..n
  Config,       \* the addresses each version of the dynamic config listens on
  MaxEvents,    \* the upgrades, stops and config changes there are
  None

ASSUME ProcsAssumption == 1 \in Procs /\ Procs \subseteq Nat \ {0} /\ None \notin Procs
ASSUME MaxEventsAssumption == MaxEvents \in Nat

VARIABLES
  proc,       \* where the main task of each process is
  parent,     \* the process it was started to replace, or None
  inherited,  \* the sockets it took over and has not used
  bound,      \* the addresses it listens on
  ops,        \* its ops endpoints: "off", "on", or "handed" over
  reports,    \* the processes that report the kernel's view
  stop,       \* whether a stop was signalled and not yet seen
  thread,     \* where start_successor is
  child,      \* the process it has started
  due,        \* whether its deadline has passed
  abandoned,  \* whether main has abandoned it
  chan,       \* the exchange with each successor
  systemd,    \* the main process systemd knows, and what it was last told
  deployed,   \* the version of the config file
  events,     \* the upgrades, stops and config changes to come
  tmp, cache, \* the contents of the staged and of the cached config
  fd,         \* the file each process has open to write the cache
  asked,      \* history: the processes that were told to stop
  unheard     \* history: the successors given up on before their receipt was read

process == <<proc, parent, inherited, bound, ops, reports, stop>>
exchange == <<thread, child, due, abandoned, chan>>
files == <<tmp, cache, fd>>
vars == <<process, exchange, files, systemd, deployed, events, asked, unheard>>

Versions == DOMAIN Config
Addrs == UNION {Config[v] : v \in Versions}
Core == {a \in Addrs : \A v \in Versions : a \in Config[v]}

Phases == {"none", "detached", "booting", "committed", "started", "serving", "upgrading",
           "replaced", "leaving", "draining", "gone"}
Contents == Versions \cup {"empty", "half"}

(* The exchange: the addresses to hand over, those sent, whether the       *)
(* sending half is closed, what the successor answered, and whether the    *)
(* node has shut it down.                                                  *)
Exchanges == [handed : SUBSET Addrs, sent : SUBSET Addrs, eof : BOOLEAN,
              receipt : BOOLEAN, ready : BOOLEAN, shut : BOOLEAN]

(* Where the thread has the deadline running.                              *)
Waiting == {"sending", "receipt", "confirmation"}
Busy(p) == thread[p] \in Waiting \cup {"launching", "killing"}

(* Every process is somewhere in its life, and holds what it may hold; a   *)
(* deadline is that of an upgrade under way, or of one handed over.        *)
TypeOK ==
  /\ proc \in [Procs -> Phases] /\ parent \in [Procs -> Procs \cup {None}]
  /\ inherited \in [Procs -> SUBSET Addrs] /\ bound \in [Procs -> SUBSET Addrs]
  /\ ops \in [Procs -> {"off", "on", "handed"}] /\ reports \subseteq Procs
  /\ stop \subseteq Procs /\ abandoned \subseteq Procs
  /\ due \subseteq {p \in Procs : thread[p] # "idle"}
  /\ thread \in [Procs -> Waiting \cup {"idle", "launching", "killing", "ok", "failed"}]
  /\ child \in [Procs -> Procs \cup {None}] /\ chan \in [Procs -> Exchanges]
  /\ systemd \in [main : Procs, state : {"starting", "ready", "reloading"}]
  /\ deployed \in Versions /\ events \in 0..MaxEvents
  /\ tmp \in Contents \cup {None} /\ cache \in Contents \cup {None}
  /\ fd \in [Procs -> [on : {"closed", "due", "tmp", "written", "cache", "orphan"}, version : Versions]]
  /\ asked \subseteq Procs /\ unheard \subseteq Procs

Live(p) == proc[p] \notin {"none", "gone"}

(* Listening, and taking connections off the queue.                        *)
Accepting(p) ==
  proc[p] \in {"committed", "started", "serving", "upgrading", "replaced", "leaving"}

(* A thread that has not ended holds the duplicates it is to hand over.    *)
Duplicates(p) == IF Busy(p) THEN chan[child[p]].handed ELSE {}

Holds(p) == IF Live(p) THEN bound[p] \cup inherited[p] \cup Duplicates(p) ELSE {}

(* bind: SO_REUSEADDR does not share an address that is being listened on. *)
Bindable(p, a) ==
  a \in inherited[p] \cup bound[p] \/ \A q \in Procs : a \notin Holds(q)

(* The ends of a process: its descriptors close.                           *)
Ended(p) ==
  /\ proc' = [proc EXCEPT ![p] = "gone"]
  /\ inherited' = [inherited EXCEPT ![p] = {}] /\ bound' = [bound EXCEPT ![p] = {}]
  /\ ops' = [ops EXCEPT ![p] = "off"] /\ reports' = reports \ {p}
  /\ stop' = stop \ {p}

Go(p, phase) == proc' = [proc EXCEPT ![p] = phase]

-----------------------------------------------------------------------------
(* main and run: from the start to the loop that waits for signals.        *)

Init ==
  /\ proc = [p \in Procs |-> IF p = 1 THEN "booting" ELSE "none"]
  /\ parent = [p \in Procs |-> None]
  /\ inherited = [p \in Procs |-> {}] /\ bound = [p \in Procs |-> {}]
  /\ \E listening \in {"on", "off"} :
       ops = [p \in Procs |-> IF p = 1 THEN listening ELSE "off"]
  /\ reports = {} /\ stop = {} /\ due = {} /\ abandoned = {} /\ asked = {}
  /\ thread = [p \in Procs |-> "idle"] /\ child = [p \in Procs |-> None]
  /\ chan = [p \in Procs |-> [handed |-> {}, sent |-> {}, eof |-> FALSE,
                              receipt |-> FALSE, ready |-> FALSE, shut |-> FALSE]]
  /\ systemd = [main |-> 1, state |-> "starting"]
  /\ deployed \in Versions /\ events = MaxEvents
  /\ tmp = None /\ cache = None
  /\ fd = [p \in Procs |-> [on |-> "closed", version |-> deployed]]
  /\ unheard = {}

(* Mutant: what was sent by the time the exchange broke off is used.       *)
ReceiveWhatThereIs(q) ==
  /\ proc[q] = "detached"
  /\ chan[q].eof \/ chan[q].shut
  /\ Go(q, "booting")
  /\ inherited' = [inherited EXCEPT ![q] = chan[q].sent]
  /\ chan' = [chan EXCEPT ![q].receipt = TRUE]
  /\ UNCHANGED <<parent, bound, ops, reports, stop, thread, child, due, abandoned,
                 files, systemd, deployed, events, asked, unheard>>

(* take_over: read to the end of what is sent, pair it up, and send the    *)
(* receipt.  A stop before the signal handlers are installed kills.        *)
Receive(q) ==
  /\ proc[q] = "detached"
  /\ chan[q].eof \/ chan[q].shut
  /\ IF chan[q].shut
       THEN Ended(q) /\ UNCHANGED chan
       ELSE /\ Go(q, "booting")
            /\ inherited' = [inherited EXCEPT ![q] = chan[q].sent]
            /\ chan' = [chan EXCEPT ![q].receipt = TRUE]
            /\ UNCHANGED <<bound, ops, reports, stop>>
  /\ UNCHANGED <<parent, thread, child, due, abandoned, files, systemd, deployed, events, asked, unheard>>

(* Frontend::start: the deployed config is applied, with the inherited     *)
(* sockets in place of binding their addresses.  The sockets it has no     *)
(* listener for are closed, and the cache is to be written.                *)
StartFrontend(p) ==
  LET wanted == Config[deployed] IN
  /\ proc[p] = "booting"
  /\ \A a \in wanted : Bindable(p, a)
  /\ Go(p, "committed")
  /\ bound' = [bound EXCEPT ![p] = wanted]
  /\ inherited' = [inherited EXCEPT ![p] = {}]
  /\ fd' = [fd EXCEPT ![p] = [on |-> "due", version |-> deployed]]
  /\ UNCHANGED <<parent, ops, reports, stop, exchange, tmp, cache, systemd, deployed, events, asked, unheard>>

(* It fails fast: an address that cannot be bound, or any other reason a   *)
(* process has not to start.  A fresh node that fails serves nobody.       *)
StartFails(p) ==
  /\ proc[p] \in {"detached", "booting"} /\ parent[p] # None
  /\ Ended(p)
  /\ UNCHANGED <<parent, exchange, files, systemd, deployed, events, asked, unheard>>

(* The front end is started.  Only then does a successor serve the ops     *)
(* endpoints, on the socket it was handed or, if there was none, on one it *)
(* could bind.                                                             *)
Started(p) ==
  /\ proc[p] = "committed" /\ fd[p].on = "closed"
  /\ Go(p, "started")
  /\ IF parent[p] = None
       THEN UNCHANGED ops
       ELSE \E listening \in {"on", "off"} :
              /\ ops[parent[p]] = "on" => listening = "on"
              /\ ops' = [ops EXCEPT ![p] = listening]
  /\ reports' = reports \cup {p}
  /\ UNCHANGED <<parent, inherited, bound, stop, exchange, files, systemd, deployed, events, asked, unheard>>

(* A node that replaces none tells systemd; a successor tells its          *)
(* predecessor, and exits without a drain if that is no longer listening.  *)
Ready(p) ==
  /\ proc[p] = "started" /\ parent[p] = None
  /\ Go(p, "serving") /\ systemd' = [systemd EXCEPT !.state = "ready"]
  /\ UNCHANGED <<parent, inherited, bound, ops, reports, stop, exchange, files, deployed, events, asked, unheard>>

Release(q) ==
  /\ proc[q] = "started" /\ parent[q] # None
  /\ IF chan[q].shut
       THEN Ended(q) /\ UNCHANGED chan
       ELSE /\ Go(q, "serving") /\ chan' = [chan EXCEPT ![q].ready = TRUE]
            /\ UNCHANGED <<inherited, bound, ops, reports, stop>>
  /\ UNCHANGED <<parent, thread, child, due, abandoned, files, systemd, deployed, events, asked, unheard>>

-----------------------------------------------------------------------------
(* The loop of run, and what it does on a signal.                          *)

(* SIGTERM or SIGINT.  Before the handlers are installed it kills; later   *)
(* it is seen when the loop asks for the next signal.                      *)
Stop(p) ==
  /\ Live(p) /\ p \notin asked /\ events > 0 /\ events' = events - 1
  /\ asked' = asked \cup {p}
  /\ IF proc[p] = "detached"
       THEN Ended(p)
       ELSE stop' = stop \cup {p} /\ UNCHANGED <<proc, inherited, bound, ops, reports>>
  /\ UNCHANGED <<parent, exchange, files, systemd, deployed, unheard>>

StopSeen(p) ==
  /\ proc[p] = "serving" /\ p \in stop
  /\ Go(p, "leaving") /\ stop' = stop \ {p}
  /\ UNCHANGED <<parent, inherited, bound, ops, reports, exchange, files, systemd, deployed, events, asked, unheard>>

(* SIGUSR2, which the unit file sends to the main process: the sockets are *)
(* duplicated and a thread is started to hand them over.  Another request  *)
(* meanwhile is ignored.                                                   *)
UpgradeRequested(p) ==
  /\ proc[p] = "serving" /\ systemd.main = p /\ events > 0 /\ events' = events - 1
  /\ \E q \in Procs :
       /\ proc[q] = "none" /\ parent[q] = None /\ \A r \in 1..(q - 1) : proc[r] # "none"
       /\ parent' = [parent EXCEPT ![q] = p] /\ child' = [child EXCEPT ![p] = q]
       /\ chan' = [chan EXCEPT ![q].handed = bound[p]]
  /\ Go(p, "upgrading") /\ thread' = [thread EXCEPT ![p] = "launching"]
  /\ systemd' = [systemd EXCEPT !.state = IF systemd.main = p THEN "reloading" ELSE @]
  /\ UNCHANGED <<inherited, bound, ops, reports, stop, due, abandoned, files, deployed, asked, unheard>>

(* Mutant: systemd is only told that the service is ready.                 *)
HandedOverQuietly(p) ==
  /\ proc[p] = "upgrading" /\ thread[p] = "ok"
  /\ Go(p, "replaced") /\ chan' = [chan EXCEPT ![child[p]].shut = TRUE]
  /\ abandoned' = abandoned \cup {p}
  /\ systemd' = [systemd EXCEPT !.state = "ready"]
  /\ UNCHANGED <<parent, inherited, bound, ops, reports, stop, thread, child, due,
                 files, deployed, events, asked, unheard>>

(* hand_over returned: the exchange is shut down with it.                  *)
HandedOver(p) ==
  /\ proc[p] = "upgrading" /\ thread[p] = "ok"
  /\ Go(p, "replaced") /\ chan' = [chan EXCEPT ![child[p]].shut = TRUE]
  /\ abandoned' = abandoned \cup {p}
  /\ systemd' = IF systemd.main = p THEN [main |-> child[p], state |-> "ready"] ELSE systemd
  /\ UNCHANGED <<parent, inherited, bound, ops, reports, stop, thread, child, due,
                 files, deployed, events, asked, unheard>>
(* Mutant: the deadline of one upgrade is left to the next.                *)
UpgradeFailedKeepingDue(p) ==
  /\ proc[p] = "upgrading" /\ thread[p] = "failed"
  /\ Go(p, "serving") /\ chan' = [chan EXCEPT ![child[p]].shut = TRUE]
  /\ thread' = [thread EXCEPT ![p] = "idle"]
  /\ systemd' = [systemd EXCEPT !.state = IF systemd.main = p THEN "ready" ELSE @]
  /\ UNCHANGED <<parent, inherited, bound, ops, reports, stop, child, due, abandoned,
                 files, deployed, events, asked, unheard>>

UpgradeFailed(p) ==
  /\ proc[p] = "upgrading" /\ thread[p] = "failed"
  /\ Go(p, "serving") /\ chan' = [chan EXCEPT ![child[p]].shut = TRUE]
  /\ thread' = [thread EXCEPT ![p] = "idle"] /\ due' = due \ {p}
  /\ systemd' = [systemd EXCEPT !.state = IF systemd.main = p THEN "ready" ELSE @]
  /\ UNCHANGED <<parent, inherited, bound, ops, reports, stop, child, abandoned,
                 files, deployed, events, asked, unheard>>

(* A stop is not kept waiting: the future is dropped, with it the upgrade. *)
(* select! takes either branch when both are ready.                        *)
AbandonUpgrade(p) ==
  /\ proc[p] = "upgrading" /\ p \in stop
  /\ Go(p, "leaving") /\ stop' = stop \ {p}
  /\ abandoned' = abandoned \cup {p} /\ chan' = [chan EXCEPT ![child[p]].shut = TRUE]
  /\ UNCHANGED <<parent, inherited, bound, ops, reports, thread, child, due,
                 files, systemd, deployed, events, asked, unheard>>

(* Mutant: the replaced node goes on answering probes while it drains.     *)
StopOpsLater(p) ==
  /\ proc[p] = "replaced"
  /\ Go(p, "leaving") /\ reports' = reports \ {p}
  /\ UNCHANGED <<parent, inherited, bound, ops, stop, exchange, files, systemd, deployed, events, asked, unheard>>

(* The ops endpoints and the kernel's view are the successor's from now    *)
(* on; what is asked on a connection that was kept is answered "ready".    *)
StopOps(p) ==
  /\ proc[p] = "replaced"
  /\ Go(p, "leaving")
  /\ ops' = [ops EXCEPT ![p] = IF @ = "on" THEN "handed" ELSE @]
  /\ reports' = reports \ {p}
  /\ UNCHANGED <<parent, inherited, bound, stop, exchange, files, systemd, deployed, events, asked, unheard>>

(* Frontend::drain: no more reloads, not ready, no longer accepting.       *)
Drain(p) ==
  /\ proc[p] = "leaving"
  /\ Go(p, "draining") /\ bound' = [bound EXCEPT ![p] = {}]
  /\ UNCHANGED <<parent, inherited, ops, reports, stop, exchange, files, systemd, deployed, events, asked, unheard>>

(* The connections have closed or are cut; the runtime waits for the       *)
(* thread before the process ends.                                         *)
Exit(p) ==
  /\ proc[p] = "draining" /\ ~Busy(p) /\ fd[p].on = "closed"
  /\ Ended(p)
  /\ UNCHANGED <<parent, exchange, files, systemd, deployed, events, asked, unheard>>

-----------------------------------------------------------------------------
(* start_successor, on its own thread.                                     *)

At(p, phase) == thread' = [thread EXCEPT ![p] = phase]
Untouched == <<parent, inherited, bound, ops, reports, stop, child, abandoned,
               files, systemd, deployed, events, asked>>

(* The program is run; what it starts is detached from this node, and the  *)
(* deadline counts from then.  It is run even for an abandoned upgrade.    *)
Launch(p) ==
  /\ thread[p] = "launching"
  /\ \/ Go(child[p], "detached") /\ At(p, "sending")
     \/ Go(child[p], "gone") /\ At(p, "failed")
  /\ UNCHANGED <<due, chan, unheard>> /\ UNCHANGED Untouched

(* handover::send: some sockets with each message, then the end.           *)
Send(p) ==
  LET q == child[p] IN
  /\ thread[p] = "sending"
  /\ \/ /\ chan[q].shut \/ proc[q] = "gone"
        /\ At(p, "failed") /\ UNCHANGED chan
     \/ /\ ~chan[q].shut /\ chan[q].sent # chan[q].handed
        /\ \E a \in chan[q].handed \ chan[q].sent :
             chan' = [chan EXCEPT ![q].sent = @ \cup {a}]
        /\ UNCHANGED thread
     \/ /\ ~chan[q].shut /\ chan[q].sent = chan[q].handed
        /\ chan' = [chan EXCEPT ![q].eof = TRUE] /\ At(p, "receipt")
  /\ UNCHANGED <<proc, due, unheard>> /\ UNCHANGED Untouched
(* Mutant: the wait for the confirmation has no deadline.                  *)
DeadlineOfReceipt(p) ==
  /\ thread[p] \in Waiting \ {"confirmation"} /\ p \notin due
  /\ due' = due \cup {p}
  /\ UNCHANGED <<proc, thread, chan, unheard>> /\ UNCHANGED Untouched

Deadline(p) ==
  /\ thread[p] \in Waiting /\ p \notin due
  /\ due' = due \cup {p}
  /\ UNCHANGED <<proc, thread, chan, unheard>> /\ UNCHANGED Untouched

(* read_line: the deadline is looked at first; the end of the stream is    *)
(* read only once what was written before it has been.                     *)
Silent(p, answered) ==
  ~answered /\ (chan[child[p]].shut \/ proc[child[p]] = "gone")

(* A successor that has not said which process it is cannot be killed.     *)
AwaitReceipt(p) ==
  LET q == child[p] IN
  /\ thread[p] = "receipt"
  /\ \/ p \in due /\ At(p, "failed") /\ unheard' = unheard \cup {q}
     \/ p \notin due /\ chan[q].receipt /\ At(p, "confirmation") /\ UNCHANGED unheard
     \/ p \notin due /\ Silent(p, chan[q].receipt) /\ At(p, "failed") /\ UNCHANGED unheard
  /\ UNCHANGED <<proc, due, chan>> /\ UNCHANGED Untouched
(* Mutant: a successor that is too late is left alone.                     *)
AwaitConfirmationGently(p) ==
  LET q == child[p] IN
  /\ thread[p] = "confirmation"
  /\ \/ p \in due /\ At(p, "failed")
     \/ p \notin due /\ chan[q].ready /\ At(p, "ok")
     \/ p \notin due /\ Silent(p, chan[q].ready) /\ At(p, "failed")
  /\ UNCHANGED <<proc, due, chan, unheard>> /\ UNCHANGED Untouched

AwaitConfirmation(p) ==
  LET q == child[p] IN
  /\ thread[p] = "confirmation"
  /\ \/ p \in due /\ At(p, "killing")
     \/ p \notin due /\ chan[q].ready /\ At(p, "ok")
     \/ /\ p \notin due /\ Silent(p, chan[q].ready)
        /\ At(p, IF p \in abandoned THEN "killing" ELSE "failed")
  /\ UNCHANGED <<proc, due, chan, unheard>> /\ UNCHANGED Untouched
(* Mutant: killing is tried until it finds the process.                    *)
KillUntilFound(p) ==
  /\ thread[p] = "killing" /\ Live(child[p])
  /\ Ended(child[p])
  /\ fd' = [fd EXCEPT ![child[p]].on = "closed"]
  /\ At(p, "failed")
  /\ UNCHANGED <<parent, child, due, abandoned, chan, tmp, cache, systemd, deployed, events, asked, unheard>>

Kill(p) ==
  /\ thread[p] = "killing"
  /\ IF Live(child[p]) THEN Ended(child[p]) ELSE UNCHANGED <<proc, inherited, bound, ops, reports, stop>>
  /\ fd' = [fd EXCEPT ![child[p]].on = "closed"]
  /\ At(p, "failed")
  /\ UNCHANGED <<parent, child, due, abandoned, chan, tmp, cache, systemd, deployed, events, asked, unheard>>

-----------------------------------------------------------------------------
(* The deployed config, and the cache both processes write.                *)

ChangeConfig ==
  /\ events > 0 /\ events' = events - 1
  /\ deployed' \in Versions \ {deployed}
  /\ UNCHANGED <<process, exchange, files, systemd, asked, unheard>>

(* Mutant: every listener is closed, and the ones that can be are bound.   *)
ApplyConfigClosingFirst(p) ==
  /\ proc[p] \in {"started", "serving", "upgrading", "replaced", "leaving"}
  /\ fd[p].on = "closed" /\ fd[p].version # deployed
  /\ bound' = [bound EXCEPT ![p] =
       {a \in Config[deployed] : \A q \in Procs : a \notin inherited[q] \cup Duplicates(q)}]
  /\ fd' = [fd EXCEPT ![p] = [on |-> "due", version |-> deployed]]
  /\ UNCHANGED <<proc, parent, inherited, ops, reports, stop, exchange, tmp, cache,
                 systemd, deployed, events, asked, unheard>>

(* A reload of a process that serves, an upgrade under way or not.  It is  *)
(* refused when an address cannot be bound.                                *)
ApplyConfig(p) ==
  LET wanted == Config[deployed] IN
  /\ proc[p] \in {"started", "serving", "upgrading", "replaced", "leaving"}
  /\ fd[p].on = "closed" /\ fd[p].version # deployed
  /\ \A a \in wanted : Bindable(p, a)
  /\ bound' = [bound EXCEPT ![p] = wanted]
  /\ fd' = [fd EXCEPT ![p] = [on |-> "due", version |-> deployed]]
  /\ UNCHANGED <<proc, parent, inherited, ops, reports, stop, exchange, tmp, cache,
                 systemd, deployed, events, asked, unheard>>

(* cache::write: the staged file is created or truncated, written, and     *)
(* renamed.  A descriptor follows its file through the rename.  Both       *)
(* processes name the staged file alike.                                   *)
WriteCache(p) ==
  LET config == fd[p].version
      Over(content) == IF content = "empty" THEN {config} ELSE {config, "half"}
      On(where) == fd' = [fd EXCEPT ![p].on = where]
  IN
  /\ \/ fd[p].on = "due" /\ tmp' = "empty" /\ On("tmp") /\ UNCHANGED cache
     \/ /\ fd[p].on = "tmp" /\ tmp' \in Over(tmp) /\ On("written") /\ UNCHANGED cache
     \/ /\ fd[p].on = "cache" /\ cache' \in Over(cache) /\ On("written") /\ UNCHANGED tmp
     \/ /\ fd[p].on = "written" /\ tmp # None
        /\ cache' = tmp /\ tmp' = None
        /\ fd' = [q \in Procs |-> [fd[q] EXCEPT !.on =
                     CASE q = p -> "closed"
                       [] q # p /\ @ = "tmp" -> "cache"
                       [] q # p /\ @ = "cache" -> "orphan"
                       [] OTHER -> @]]
     \/ fd[p].on = "orphan" /\ On("written") /\ UNCHANGED <<tmp, cache>>
     \/ fd[p].on = "written" /\ tmp = None /\ On("closed") /\ UNCHANGED <<tmp, cache>>
  /\ UNCHANGED <<process, exchange, systemd, deployed, events, asked, unheard>>

-----------------------------------------------------------------------------
Main(p) ==
  \/ Receive(p) \/ StartFrontend(p) \/ Started(p) \/ Ready(p) \/ Release(p)
  \/ StopSeen(p) \/ HandedOver(p) \/ UpgradeFailed(p) \/ AbandonUpgrade(p)
  \/ StopOps(p) \/ Drain(p) \/ Exit(p)

Thread(p) ==
  Launch(p) \/ Send(p) \/ Deadline(p) \/ AwaitReceipt(p) \/ AwaitConfirmation(p) \/ Kill(p)

Next ==
  \/ \E p \in Procs :
       \/ Main(p) \/ Thread(p)
       \/ StartFails(p) \/ Stop(p) \/ UpgradeRequested(p)
       \/ ApplyConfig(p) \/ WriteCache(p)
  \/ ChangeConfig

Spec == Init /\ [][Next]_vars

(* A process runs what it can run; the deadline passes.  Nothing is said   *)
(* of what a successor does before it serves, nor of signals and configs.  *)
FairSpec ==
  /\ Spec
  /\ \A p \in Procs : WF_vars(Thread(p)) /\ WF_vars(WriteCache(p))
  /\ \A p \in Procs :
       WF_vars(HandedOver(p) \/ UpgradeFailed(p) \/ StopSeen(p) \/ AbandonUpgrade(p)
               \/ StopOps(p) \/ Drain(p) \/ Exit(p))

-----------------------------------------------------------------------------
(* No stop was asked of anybody, and the first node has served.            *)
Undisturbed == asked = {} /\ systemd.state # "starting"

(* An address that every config listens on is being accepted on by some    *)
(* process at every moment of every upgrade, whatever becomes of it.       *)
KeptServed == Undisturbed => \A a \in Core : \E p \in Procs : Accepting(p) /\ a \in bound[p]

(* A probe of the ops socket, whichever of the processes that share it     *)
(* answers, is told "ready" (Ops::is_ready) throughout an upgrade.         *)
ProbedReady ==
  Undisturbed => \A p \in Procs : ops[p] = "on" => Accepting(p)

(* To clients and to probes the service is there throughout an upgrade.    *)
ServedThroughout == TypeOK /\ KeptServed /\ ProbedReady

(* The process systemd takes for the service does not exit unless it was   *)
(* stopped: a node leaves only after it has named its successor, and a     *)
(* successor that is named serves.                                         *)
MainLives == asked = {} => Accepting(systemd.main) \/ systemd.state = "starting"

(* A successor starts on all of the sockets or on none: one whose handover *)
(* broke off finds out when it sends the receipt.                          *)
NeverHalfHanded ==
  \A q \in Procs :
    parent[q] # None /\ Live(q) /\ proc[q] # "detached" => chan[q].sent = chan[q].handed

(* When no upgrade is under way one process accepts, answers probes and    *)
(* reports the kernel's view, unless a successor was given up on before it *)
(* was known which process it is.                                          *)
OneIsLeft ==
  \A p, q \in Procs :
    p # q /\ Accepting(p) /\ Accepting(q) =>
      \/ {p, q} \cap unheard # {}
      \/ \E r \in {p, q} : proc[r] \in {"upgrading", "replaced", "leaving"}

(* An upgrade ends, with a successor that serves or without, though the    *)
(* successor may hang at any point.                                        *)
UpgradeEnds == \A p \in Procs : proc[p] = "upgrading" ~> proc[p] # "upgrading"

(* A node that leaves exits: the thread that waits for a successor does    *)
(* not hold it back.                                                       *)
LeavingExits == \A p \in Procs : proc[p] = "leaving" ~> proc[p] = "gone"

(* Neither an upgrade nor a node that leaves waits for a successor for ever.*)
UpgradesEnd == UpgradeEnds /\ LeavingExits

(* The doc of cache::write: a reader sees the old cache or the new one.    *)
CacheIsWhole == cache \in Versions \cup {None}
=============================================================================
