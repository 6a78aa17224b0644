---------------------------- MODULE UpgradeProofs -----------------------------
(***************************************************************************)
(* For any number of processes, configs and events: a successor that gets  *)
(* past its handover has every socket it was to be handed; the service is  *)
(* there throughout an upgrade, for clients, for probes and for systemd;   *)
(* and when no upgrade is under way one process is left.  The invariant is *)
(* UpgradeOK, of the exchanges (HandoverOK), of who is whose successor     *)
(* (FamilyOK, LineOK), of the main process (MainOK) and of what a process  *)
(* that accepts listens on (BoundOK).                                      *)
(***************************************************************************)
EXTENDS Upgrade, TLAPS

-----------------------------------------------------------------------------
(* What a process is past once it has taken over.                          *)
Past == Phases \ {"none", "detached", "gone"}
Threads == Waiting \cup {"idle", "launching", "killing", "ok", "failed"}

Shaped(x) ==
  x = [handed |-> x.handed, sent |-> x.sent, eof |-> x.eof,
       receipt |-> x.receipt, ready |-> x.ready, shut |-> x.shut]

(* NeverHalfHanded speaks of a successor only; what makes it inductive is  *)
(* said of the exchange.  The end is sent after all there is, by the one   *)
(* thread the exchange is of, which sends no more, and the sockets to hand *)
(* over were fixed before the successor was started.                       *)
HandoverOK ==
  /\ proc \in [Procs -> Phases] /\ thread \in [Procs -> Threads]
  /\ parent \in [Procs -> Procs \cup {None}] /\ child \in [Procs -> Procs \cup {None}]
  /\ chan = [q \in Procs |-> chan[q]]
  /\ \A q \in Procs :
       /\ Shaped(chan[q])
       /\ chan[q].eof => chan[q].sent = chan[q].handed
       /\ parent[q] = None => ~chan[q].eof
       /\ parent[q] # None /\ proc[q] \in Past => chan[q].eof
  /\ \A p \in Procs :
       /\ child[p] # None => parent[child[p]] = p
       /\ thread[p] \in {"launching", "sending"} => child[p] # None /\ ~chan[child[p]].eof

(* What is sent and handed of each exchange stays.                         *)
SameExchanges ==
  /\ chan' = [q \in Procs |-> chan'[q]]
  /\ \A q \in Procs :
       /\ Shaped(chan'[q]) /\ (chan'[q].eof <=> chan[q].eof)
       /\ chan'[q].sent = chan[q].sent /\ chan'[q].handed = chan[q].handed

(* Nobody gets past its handover but by the end of what is sent.           *)
LateStart ==
  /\ proc' \in [Procs -> Phases]
  /\ \A q \in Procs : proc'[q] \in Past => proc[q] \in Past \/ chan[q].eof \/ parent[q] = None

(* No thread begins to send.                                               *)
NoNewSender ==
  /\ thread' \in [Procs -> Threads]
  /\ \A p \in Procs : thread'[p] \in {"launching", "sending"} =>
                        thread[p] \in {"launching", "sending"}

LEMMA Handed ==
  ASSUME HandoverOK, SameExchanges, LateStart, NoNewSender, UNCHANGED <<parent, child>>
  PROVE  HandoverOK'
<1>1. ASSUME NEW q \in Procs
      PROVE  /\ Shaped(chan'[q])
             /\ chan'[q].eof => chan'[q].sent = chan'[q].handed
             /\ parent'[q] = None => ~chan'[q].eof
             /\ parent'[q] # None /\ proc'[q] \in Past => chan'[q].eof
  BY DEF HandoverOK, SameExchanges, LateStart
<1>2. ASSUME NEW p \in Procs
      PROVE  /\ child'[p] # None => parent'[child'[p]] = p
             /\ thread'[p] \in {"launching", "sending"} =>
                  child'[p] # None /\ ~chan'[child'[p]].eof
  <2>1. child[p] \in Procs \cup {None}
    BY DEF HandoverOK
  <2>2. QED
    BY <2>1, Zenon DEF HandoverOK, SameExchanges, NoNewSender
<1>3. QED
  BY <1>1, <1>2 DEF HandoverOK, SameExchanges, LateStart, NoNewSender

LEMMA SameChan ==
  ASSUME HandoverOK, UNCHANGED chan
  PROVE  SameExchanges
  BY DEF HandoverOK, SameExchanges

(* An answer, or the end of the exchange, changes nothing of what is sent. *)
LEMMA ShapeKept ==
  ASSUME NEW x, Shaped(x), NEW y,
         \/ y = [x EXCEPT !.receipt = TRUE]
         \/ y = [x EXCEPT !.ready = TRUE]
         \/ y = [x EXCEPT !.shut = TRUE]
  PROVE  Shaped(y) /\ y.eof = x.eof /\ y.sent = x.sent /\ y.handed = x.handed
<1> DEFINE R(h, s, e, r, d, u) ==
      [handed |-> h, sent |-> s, eof |-> e, receipt |-> r, ready |-> d, shut |-> u]
<1>1. PICK h, s, e, r, d, u : x = R(h, s, e, r, d, u)
  BY DEF Shaped
<1>2. PICK r2, d2, u2 : y = R(h, s, e, r2, d2, u2)
  BY <1>1
<1>3. QED
  BY <1>1, <1>2 DEF Shaped

LEMMA EndShaped ==
  ASSUME NEW x, Shaped(x), NEW y, y = [x EXCEPT !.eof = TRUE]
  PROVE  Shaped(y) /\ y.sent = x.sent /\ y.handed = x.handed
<1> DEFINE R(h, s, e, r, d, u) ==
      [handed |-> h, sent |-> s, eof |-> e, receipt |-> r, ready |-> d, shut |-> u]
<1>1. PICK h, s, e, r, d, u : x = R(h, s, e, r, d, u)
  BY DEF Shaped
<1>2. y = R(h, s, TRUE, r, d, u)
  BY <1>1, Zenon
<1>3. QED
  BY <1>1, <1>2, Zenon DEF Shaped

LEMMA AnswerKeeps ==
  ASSUME HandoverOK, NEW q,
         \/ chan' = [chan EXCEPT ![q].receipt = TRUE]
         \/ chan' = [chan EXCEPT ![q].ready = TRUE]
         \/ chan' = [chan EXCEPT ![q].shut = TRUE]
  PROVE  SameExchanges
<1>1. chan = [r \in Procs |-> chan[r]] /\ \A r \in Procs : Shaped(chan[r])
  BY DEF HandoverOK
<1>2. chan' = [r \in Procs |-> chan'[r]]
  BY <1>1
<1>3. ASSUME NEW r \in Procs
      PROVE  /\ Shaped(chan'[r]) /\ chan'[r].eof = chan[r].eof
             /\ chan'[r].sent = chan[r].sent /\ chan'[r].handed = chan[r].handed
  <2>1. CASE r # q
    <3>1. chan'[r] = chan[r]
      BY <1>1, <2>1
    <3>2. QED
      BY <1>1, <3>1
  <2>2. CASE r = q
    <3>1. \/ chan'[r] = [chan[r] EXCEPT !.receipt = TRUE]
          \/ chan'[r] = [chan[r] EXCEPT !.ready = TRUE]
          \/ chan'[r] = [chan[r] EXCEPT !.shut = TRUE]
      BY <1>1, <2>2, Zenon
    <3>2. QED
      BY <1>1, <3>1, ShapeKept
  <2>3. QED
    BY <2>1, <2>2
<1>4. QED
  BY <1>2, <1>3 DEF SameExchanges

(* A process that moves on among the phases past its handover, or ends.    *)
LEMMA MovesOn ==
  ASSUME HandoverOK, NEW p, NEW phase \in Phases, proc' = [proc EXCEPT ![p] = phase],
         phase \in Past => proc[p] \in Past \/ chan[p].eof \/ parent[p] = None
  PROVE  LateStart
  BY Zenon DEF HandoverOK, LateStart

LEMMA StaysPut ==
  ASSUME HandoverOK, UNCHANGED proc
  PROVE  LateStart
  BY DEF HandoverOK, LateStart

LEMMA ThreadGoesOn ==
  ASSUME HandoverOK, NEW p, NEW phase \in Threads, thread' = [thread EXCEPT ![p] = phase],
         phase \in {"launching", "sending"} => thread[p] \in {"launching", "sending"}
  PROVE  NoNewSender
  BY Zenon DEF HandoverOK, NoNewSender

LEMMA ThreadStays ==
  ASSUME HandoverOK, UNCHANGED thread
  PROVE  NoNewSender
  BY DEF HandoverOK, NoNewSender

-----------------------------------------------------------------------------
(* The steps of main that leave the exchange with a successor alone.       *)
LEMMA MainStepsKeep ==
  ASSUME HandoverOK, NEW p \in Procs,
         \/ StartFrontend(p) \/ Started(p) \/ Ready(p) \/ StopSeen(p) \/ StopOps(p)
         \/ Drain(p) \/ Exit(p) \/ StartFails(p) \/ Stop(p)
  PROVE  HandoverOK'
<1>1. UNCHANGED <<parent, thread, child, chan>>
  BY DEF StartFrontend, Started, Ready, StopSeen, StopOps, Drain, Exit, StartFails, Stop, exchange
<1>2. LateStart
  <2>1. CASE UNCHANGED proc
    BY <2>1, StaysPut
  <2>2. CASE proc' = [proc EXCEPT ![p] = "gone"]
    BY <2>2, MovesOn, Zenon DEF Phases, Past
  <2>3. CASE \E phase \in Past : proc[p] \in Past /\ proc' = [proc EXCEPT ![p] = phase]
    BY <2>3, MovesOn, Zenon DEF Past
  <2>4. QED
    BY <2>1, <2>2, <2>3
       DEF StartFrontend, Started, Ready, StopSeen, StopOps, Drain, Exit, StartFails, Stop,
           Ended, Go, Past, Phases
<1>3. QED
  BY <1>1, <1>2, SameChan, ThreadStays, Handed

(* Those that answer the predecessor, or end the exchange.                 *)
LEMMA ReceiveKeeps ==
  ASSUME HandoverOK, NEW q \in Procs, Receive(q) \/ Release(q)
  PROVE  HandoverOK'
<1>1. UNCHANGED <<parent, thread, child>>
  BY DEF Receive, Release
<1>2. SameExchanges
  BY SameChan, AnswerKeeps DEF Receive, Release
<1>3. LateStart
  <2>1. CASE proc' = [proc EXCEPT ![q] = "gone"]
    BY <2>1, MovesOn, Zenon DEF Phases, Past
  <2>2. CASE proc' = [proc EXCEPT ![q] = "booting"] /\ chan[q].eof
    BY <2>2, MovesOn, Zenon DEF Phases, Past
  <2>3. CASE proc' = [proc EXCEPT ![q] = "serving"] /\ proc[q] = "started"
    BY <2>3, MovesOn, Zenon DEF Phases, Past
  <2>4. QED
    BY <2>1, <2>2, <2>3 DEF Receive, Release, Ended, Go
<1>4. QED
  BY <1>1, <1>2, <1>3, ThreadStays, Handed

LEMMA EndOfUpgradeKeeps ==
  ASSUME HandoverOK, NEW p \in Procs, HandedOver(p) \/ UpgradeFailed(p) \/ AbandonUpgrade(p)
  PROVE  HandoverOK'
<1>1. UNCHANGED <<parent, child>> /\ chan' = [chan EXCEPT ![child[p]].shut = TRUE]
  BY DEF HandedOver, UpgradeFailed, AbandonUpgrade
<1>2. LateStart
  <2>1. proc[p] = "upgrading" /\ \E phase \in {"replaced", "serving", "leaving"} :
          proc' = [proc EXCEPT ![p] = phase]
    BY DEF HandedOver, UpgradeFailed, AbandonUpgrade, Go
  <2>2. QED
    BY <2>1, MovesOn, Zenon DEF Past, Phases
<1>3. NoNewSender
  <2>1. UNCHANGED thread \/ thread' = [thread EXCEPT ![p] = "idle"]
    BY DEF HandedOver, UpgradeFailed, AbandonUpgrade
  <2>2. QED
    BY <2>1, ThreadStays, ThreadGoesOn DEF Threads
<1>4. QED
  BY <1>1, <1>2, <1>3, AnswerKeeps, Handed, Zenon

(* Those of the thread, but for sending.                                   *)
LEMMA ThreadStepsKeep ==
  ASSUME HandoverOK, NEW p \in Procs,
         Launch(p) \/ Deadline(p) \/ AwaitReceipt(p) \/ AwaitConfirmation(p) \/ Kill(p)
  PROVE  HandoverOK'
<1>1. UNCHANGED <<parent, child, chan>>
  BY DEF Launch, Deadline, AwaitReceipt, AwaitConfirmation, Kill, Untouched
<1>2. LateStart
  <2>1. UNCHANGED proc \/ \E phase \in {"detached", "gone"} :
                            proc' = [proc EXCEPT ![child[p]] = phase]
    BY DEF Launch, Deadline, AwaitReceipt, AwaitConfirmation, Kill, Go, Ended
  <2>2. QED
    BY <2>1, StaysPut, MovesOn DEF Past, Phases
<1>3. NoNewSender
  <2>1. \/ UNCHANGED thread
        \/ \E phase \in {"failed", "confirmation", "killing", "ok"} :
             thread' = [thread EXCEPT ![p] = phase]
        \/ thread[p] = "launching" /\ thread' = [thread EXCEPT ![p] = "sending"]
    BY DEF Launch, Deadline, AwaitReceipt, AwaitConfirmation, Kill, At
  <2>2. QED
    BY <2>1, ThreadStays, ThreadGoesOn DEF Threads, Waiting
<1>4. QED
  BY <1>1, <1>2, <1>3, SameChan, Handed

(* Send: the end follows everything, and nothing follows the end.          *)
LEMMA SendKeeps ==
  ASSUME HandoverOK, NEW p \in Procs, Send(p)
  PROVE  HandoverOK'
<1> DEFINE q == child[p]
<1>1. /\ UNCHANGED <<proc, parent, child>> /\ thread[p] = "sending"
      /\ q \in Procs /\ parent[q] = p /\ ~chan[q].eof
  BY DEF Send, Untouched, HandoverOK
<1>2. \A r \in Procs : child[r] = q => r = p
  BY <1>1, ProcsAssumption, Zenon DEF HandoverOK
<1>3. CASE At(p, "failed") /\ UNCHANGED chan
  <2>1. NoNewSender
    BY <1>3, ThreadGoesOn, Zenon DEF At, Threads
  <2>2. QED
    BY <1>1, <1>3, <2>1, StaysPut, SameChan, Handed
<1>4. ASSUME NEW a, chan' = [chan EXCEPT ![q].sent = @ \cup {a}], UNCHANGED thread
      PROVE  HandoverOK'
  <2>1. /\ chan' = [r \in Procs |-> chan'[r]]
        /\ \A r \in Procs : r # q => chan'[r] = chan[r]
        /\ chan'[q] = [chan[q] EXCEPT !.sent = @ \cup {a}]
    BY <1>1, <1>4, Zenon DEF HandoverOK
  <2>2. Shaped(chan'[q]) /\ chan'[q].eof = chan[q].eof
    BY <1>1, <2>1, Zenon DEF HandoverOK, Shaped
  <2>3. ASSUME NEW r \in Procs
        PROVE  /\ Shaped(chan'[r])
               /\ chan'[r].eof => chan'[r].sent = chan'[r].handed
               /\ parent[r] = None => ~chan'[r].eof
               /\ parent[r] # None /\ proc[r] \in Past => chan'[r].eof
    <3>1. CASE r = q
      <4>1. ~chan'[q].eof /\ ~(proc[q] \in Past /\ parent[q] # None)
        BY <1>1, <2>2 DEF HandoverOK
      <4>2. QED
        BY <2>2, <3>1, <4>1
    <3>2. CASE r # q
      BY <2>1, <3>2 DEF HandoverOK
    <3>3. QED
      BY <3>1, <3>2
  <2>4. ASSUME NEW r \in Procs
        PROVE  /\ child[r] # None => parent[child[r]] = r
               /\ thread[r] \in {"launching", "sending"} =>
                    child[r] # None /\ ~chan'[child[r]].eof
    <3>1. child[r] \in Procs \cup {None}
      BY DEF HandoverOK
    <3>2. \A t \in Procs : ~chan[t].eof => ~chan'[t].eof
      BY <1>1, <2>1, <2>2, Zenon
    <3>3. QED
      BY <3>1, <3>2, Zenon DEF HandoverOK
  <2>5. QED
    BY <1>1, <1>4, <2>1, <2>3, <2>4, Zenon DEF HandoverOK
<1>5. CASE /\ chan[q].sent = chan[q].handed /\ chan' = [chan EXCEPT ![q].eof = TRUE]
           /\ At(p, "receipt")
  <2>1. /\ chan' = [r \in Procs |-> chan'[r]]
        /\ \A r \in Procs : r # q => chan'[r] = chan[r]
        /\ chan'[q] = [chan[q] EXCEPT !.eof = TRUE]
    BY <1>1, <1>5, Zenon DEF HandoverOK
  <2>2. Shaped(chan'[q]) /\ chan'[q].sent = chan'[q].handed
    BY <1>1, <1>5, <2>1, EndShaped DEF HandoverOK
  <2>3. /\ thread' \in [Procs -> Threads] /\ thread'[p] = "receipt"
        /\ \A r \in Procs : r # p => thread'[r] = thread[r]
    BY <1>5 DEF HandoverOK, At, Threads, Waiting
  <2>4. ASSUME NEW r \in Procs
        PROVE  /\ Shaped(chan'[r])
               /\ chan'[r].eof => chan'[r].sent = chan'[r].handed
               /\ parent[r] = None => ~chan'[r].eof
               /\ parent[r] # None /\ proc[r] \in Past => chan'[r].eof
    <3>1. CASE r = q
      <4>1. chan'[q].eof
        BY <1>1, <2>1 DEF HandoverOK, Shaped
      <4>2. QED
        BY <1>1, <2>2, <3>1, <4>1, ProcsAssumption
    <3>2. CASE r # q
      BY <2>1, <3>2 DEF HandoverOK
    <3>3. QED
      BY <3>1, <3>2
  <2>5. ASSUME NEW r \in Procs
        PROVE  /\ child[r] # None => parent[child[r]] = r
               /\ thread'[r] \in {"launching", "sending"} =>
                    child[r] # None /\ ~chan'[child[r]].eof
    <3>1. child[r] \in Procs \cup {None}
      BY DEF HandoverOK
    <3>2. QED
      BY <1>2, <2>1, <2>3, <3>1, Zenon DEF HandoverOK
  <2>6. QED
    BY <1>1, <2>1, <2>3, <2>4, <2>5 DEF HandoverOK
<1>6. QED
  BY <1>3, <1>4, <1>5, Zenon DEF Send

(* A new exchange, of a process that was none yet.                         *)
LEMMA RequestKeeps ==
  ASSUME HandoverOK, NEW p \in Procs, UpgradeRequested(p)
  PROVE  HandoverOK'
<1>1. PICK q \in Procs :
        /\ proc[q] = "none" /\ parent[q] = None
        /\ parent' = [parent EXCEPT ![q] = p] /\ child' = [child EXCEPT ![p] = q]
        /\ chan' = [chan EXCEPT ![q].handed = bound[p]]
  BY Zenon DEF UpgradeRequested
<1>2. /\ proc' = [proc EXCEPT ![p] = "upgrading"] /\ proc[p] = "serving"
      /\ thread' = [thread EXCEPT ![p] = "launching"]
  BY DEF UpgradeRequested, Go
<1>3. /\ chan' = [r \in Procs |-> chan'[r]]
      /\ \A r \in Procs : r # q => chan'[r] = chan[r]
      /\ chan'[q] = [chan[q] EXCEPT !.handed = bound[p]]
  BY <1>1 DEF HandoverOK
<1>4. Shaped(chan'[q]) /\ chan'[q].eof = chan[q].eof
  BY <1>1, <1>3 DEF HandoverOK, Shaped
<1>5. ~chan'[q].eof
  BY <1>1, <1>4 DEF HandoverOK
<1>6. /\ proc' \in [Procs -> Phases] /\ thread' \in [Procs -> Threads]
      /\ parent' \in [Procs -> Procs \cup {None}] /\ child' \in [Procs -> Procs \cup {None}]
  BY <1>1, <1>2 DEF HandoverOK, Phases, Threads
<1>7. p # q /\ p # None
  BY <1>1, <1>2, ProcsAssumption
<1>8. ASSUME NEW r \in Procs
      PROVE  /\ Shaped(chan'[r])
             /\ chan'[r].eof => chan'[r].sent = chan'[r].handed
             /\ parent'[r] = None => ~chan'[r].eof
             /\ parent'[r] # None /\ proc'[r] \in Past => chan'[r].eof
  <2>1. CASE r = q
    <3>1. proc'[q] = "none"
      BY <1>1, <1>2, <1>7 DEF HandoverOK
    <3>2. proc'[q] \notin Past
      BY <3>1 DEF Past
    <3>3. QED
      BY <1>4, <1>5, <2>1, <3>2
  <2>2. CASE r # q
    <3>1. chan'[r] = chan[r] /\ parent'[r] = parent[r]
          /\ (proc'[r] \in Past => proc[r] \in Past)
      BY <1>1, <1>2, <1>3, <2>2 DEF HandoverOK, Past, Phases
    <3>2. QED
      BY <3>1 DEF HandoverOK
  <2>3. QED
    BY <2>1, <2>2
<1>9. ASSUME NEW r \in Procs
      PROVE  /\ child'[r] # None => parent'[child'[r]] = r
             /\ thread'[r] \in {"launching", "sending"} =>
                  child'[r] # None /\ ~chan'[child'[r]].eof
  <2>1. CASE r = p
    <3>1. child'[p] = q /\ parent'[q] = p /\ q # None
      BY <1>1, ProcsAssumption DEF HandoverOK
    <3>2. QED
      BY <1>5, <2>1, <3>1
  <2>2. CASE r # p
    <3>1. child'[r] = child[r] /\ thread'[r] = thread[r] /\ child[r] \in Procs \cup {None}
      BY <1>1, <1>2, <2>2 DEF HandoverOK
    <3>2. child[r] # None => parent[child[r]] = r
      BY Zenon DEF HandoverOK
    <3>3. child[r] # q
      BY <1>1, <3>2, ProcsAssumption
    <3>4. child[r] # None => parent'[child[r]] = r /\ chan'[child[r]] = chan[child[r]]
      BY <1>1, <1>3, <3>1, <3>2, <3>3 DEF HandoverOK
    <3>5. thread[r] \in {"launching", "sending"} => child[r] # None /\ ~chan[child[r]].eof
      BY DEF HandoverOK
    <3>6. QED
      BY <3>1, <3>4, <3>5
  <2>3. QED
    BY <2>1, <2>2
<1>10. QED
  BY <1>3, <1>6, <1>8, <1>9 DEF HandoverOK

LEMMA HandoverInit == Init => HandoverOK
<1> SUFFICES ASSUME Init PROVE HandoverOK
  OBVIOUS
<1>1. /\ proc \in [Procs -> Phases] /\ thread \in [Procs -> Threads]
      /\ parent \in [Procs -> Procs \cup {None}] /\ child \in [Procs -> Procs \cup {None}]
  BY DEF Init, Phases, Threads
<1>2. chan = [q \in Procs |-> chan[q]] /\ \A q \in Procs : Shaped(chan[q])
  BY DEF Init, Shaped
<1>3. \A q \in Procs : ~chan[q].eof /\ parent[q] = None /\ child[q] = None /\ thread[q] = "idle"
  BY DEF Init
<1>4. QED
  BY <1>1, <1>2, <1>3 DEF HandoverOK

LEMMA HandoverIsKept == HandoverOK /\ [Next]_vars => HandoverOK'
<1> SUFFICES ASSUME HandoverOK, [Next]_vars PROVE HandoverOK'
  OBVIOUS
<1>1. ASSUME UNCHANGED <<process, exchange>> PROVE HandoverOK'
  BY <1>1, SameChan, StaysPut, ThreadStays, Handed DEF process, exchange
<1>2. CASE UNCHANGED vars \/ ChangeConfig \/ \E p \in Procs : WriteCache(p)
  BY <1>1, <1>2 DEF vars, ChangeConfig, WriteCache
<1>3. ASSUME NEW p \in Procs, ApplyConfig(p) PROVE HandoverOK'
  <2>1. UNCHANGED <<proc, parent, thread, child, chan>>
    BY <1>3 DEF ApplyConfig, exchange
  <2>2. QED
    BY <2>1, SameChan, StaysPut, ThreadStays, Handed
<1>4. ASSUME NEW p \in Procs,
             Main(p) \/ Thread(p) \/ StartFails(p) \/ Stop(p) \/ UpgradeRequested(p)
      PROVE  HandoverOK'
  BY <1>4, MainStepsKeep, ReceiveKeeps, EndOfUpgradeKeeps, ThreadStepsKeep, SendKeeps,
     RequestKeeps DEF Main, Thread
<1>5. QED
  BY <1>2, <1>3, <1>4 DEF Next

(* A successor starts to serve on all of the sockets its predecessor held  *)
(* or not at all, wherever the handover breaks off and whoever is told to  *)
(* stop meanwhile (handover::send, take_over).                             *)
THEOREM HandedWhole == Spec => []NeverHalfHanded
<1>1. HandoverOK => NeverHalfHanded
  <2> SUFFICES ASSUME HandoverOK, NEW q \in Procs,
                      parent[q] # None, Live(q), proc[q] # "detached"
               PROVE  chan[q].sent = chan[q].handed
    BY DEF NeverHalfHanded
  <2>1. proc[q] \in Past
    BY DEF HandoverOK, Past, Live
  <2>2. QED
    BY <2>1 DEF HandoverOK
<1>2. QED
  BY <1>1, HandoverInit, HandoverIsKept, PTL DEF Spec

-----------------------------------------------------------------------------
(* The family of processes.  The main process is the only one that has a   *)
(* thread at work, and the thread is at work only while the process is     *)
(* upgrading or, abandoned, on its way out.                                *)
AtWork == Waiting \cup {"launching", "killing"}

FamilyOK ==
  /\ proc[1] \notin {"none", "detached"} /\ proc[systemd.main] # "none"
  /\ \A q \in Procs :
       /\ parent[q] # q
       /\ parent[q] = None => (q = 1 \/ proc[q] = "none") /\ ~chan[q].shut
  /\ \A p \in Procs :
       /\ thread[p] \in AtWork =>
            p = systemd.main /\ proc[p] \in {"upgrading", "leaving", "draining"}
       /\ proc[p] = "upgrading" =>
            p = systemd.main /\ thread[p] # "idle" /\ ~chan[child[p]].shut
       /\ thread[p] # "idle" => child[p] # None
       /\ thread[p] = "launching" => proc[child[p]] = "none"
       /\ thread[p] \in Waiting \cup {"killing", "ok"} => proc[child[p]] # "none"

(* A process that is starting or serving is the main one, or the one that  *)
(* is to replace it, or was given up on before its receipt was read.       *)
Fresh == {"detached", "booting", "committed", "started", "serving"}

LineOK ==
  /\ \A q \in Procs :
       proc[q] \in Fresh /\ q \notin unheard =>
         q = systemd.main \/ (child[systemd.main] = q /\ proc[systemd.main] \notin Fresh)
  /\ \A p \in Procs :
       proc[p] = "upgrading" /\ thread[p] = "failed" =>
         proc[child[p]] = "gone" \/ child[p] \in unheard

(* As long as nobody was told to stop, the main process serves, and so     *)
(* does the successor that has said that it is ready.                      *)
MainOK ==
  /\ stop \subseteq asked
  /\ proc[1] \in {"booting", "committed", "started"} => systemd = [main |-> 1, state |-> "starting"]
  /\ \A q \in Procs : chan[q].ready => chan[q].eof
  /\ \A p \in Procs : proc[p] = "upgrading" /\ thread[p] = "ok" => chan[child[p]].ready
  /\ asked = {} =>
       /\ systemd.state # "starting" => proc[systemd.main] \in {"serving", "upgrading"}
       /\ \A p \in Procs :
            /\ /\ proc[p] = "upgrading" /\ thread[p] \in {"receipt", "confirmation", "ok"}
               /\ chan[child[p]].ready
               => proc[child[p]] = "serving"
            /\ ops[p] = "on" => \/ proc[p] \in {"started", "serving", "upgrading", "replaced"}
                                \/ p = 1 /\ proc[p] \in {"booting", "committed"}

BoundOK == \A p \in Procs : Accepting(p) => Core \subseteq bound[p]

UpgradeOK == TypeOK /\ HandoverOK /\ FamilyOK /\ LineOK /\ MainOK /\ BoundOK

-----------------------------------------------------------------------------
LEMMA OneParent ==
  ASSUME HandoverOK, NEW p \in Procs, NEW r \in Procs, child[p] = child[r], child[p] # None
  PROVE  p = r
  BY Zenon DEF HandoverOK

(* What a write to an exchange does to its flags.                          *)
SameFlags(q) ==
  chan'[q].shut = chan[q].shut /\ chan'[q].ready = chan[q].ready /\ chan'[q].eof = chan[q].eof

LEMMA ShutRecord ==
  ASSUME NEW x, Shaped(x), NEW y, y = [x EXCEPT !.shut = TRUE]
  PROVE  y.ready = x.ready /\ y.eof = x.eof
<1> DEFINE R(h, s, e, r, d, u) ==
      [handed |-> h, sent |-> s, eof |-> e, receipt |-> r, ready |-> d, shut |-> u]
<1>1. PICK h, s, e, r, d, u : x = R(h, s, e, r, d, u)
  BY DEF Shaped
<1>2. y = R(h, s, e, r, d, TRUE)
  BY <1>1, Zenon
<1>3. QED
  BY <1>1, <1>2

LEMMA ReadyRecord ==
  ASSUME NEW x, Shaped(x), NEW y, y = [x EXCEPT !.ready = TRUE]
  PROVE  y.shut = x.shut /\ y.eof = x.eof /\ y.ready
<1> DEFINE R(h, s, e, r, d, u) ==
      [handed |-> h, sent |-> s, eof |-> e, receipt |-> r, ready |-> d, shut |-> u]
<1>1. PICK h, s, e, r, d, u : x = R(h, s, e, r, d, u)
  BY DEF Shaped
<1>2. y = R(h, s, e, r, TRUE, u)
  BY <1>1, Zenon
<1>3. QED
  BY <1>1, <1>2

LEMMA EofRecord ==
  ASSUME NEW x, Shaped(x), NEW y, y = [x EXCEPT !.eof = TRUE]
  PROVE  y.shut = x.shut /\ y.ready = x.ready /\ y.eof
<1> DEFINE R(h, s, e, r, d, u) ==
      [handed |-> h, sent |-> s, eof |-> e, receipt |-> r, ready |-> d, shut |-> u]
<1>1. PICK h, s, e, r, d, u : x = R(h, s, e, r, d, u)
  BY DEF Shaped
<1>2. y = R(h, s, TRUE, r, d, u)
  BY <1>1, Zenon
<1>3. QED
  BY <1>1, <1>2

LEMMA OtherRecord ==
  ASSUME NEW x, Shaped(x), NEW v, NEW y,
         \/ y = [x EXCEPT !.receipt = TRUE]
         \/ y = [x EXCEPT !.handed = v]
         \/ y = [x EXCEPT !.sent = @ \cup v]
         \/ y = x
  PROVE  y.shut = x.shut /\ y.ready = x.ready /\ y.eof = x.eof
<1> DEFINE R(h, s, e, r, d, u) ==
      [handed |-> h, sent |-> s, eof |-> e, receipt |-> r, ready |-> d, shut |-> u]
<1>1. PICK h, s, e, r, d, u : x = R(h, s, e, r, d, u)
  BY DEF Shaped
<1>2. PICK h2, s2, r2 : y = R(h2, s2, e, r2, d, u)
  BY <1>1
<1>3. QED
  BY <1>1, <1>2

LEMMA ShutFlags ==
  ASSUME HandoverOK, NEW r, chan' = [chan EXCEPT ![r].shut = TRUE], NEW q \in Procs
  PROVE  (q # r => SameFlags(q)) /\ chan'[q].ready = chan[q].ready /\ chan'[q].eof = chan[q].eof
<1>1. Shaped(chan[q]) /\ chan = [t \in Procs |-> chan[t]]
  BY DEF HandoverOK
<1>2. CASE q # r
  <2>1. chan'[q] = chan[q]
    BY <1>1, <1>2
  <2>2. QED
    BY <1>2, <2>1 DEF SameFlags
<1>3. CASE q = r
  <2>1. chan'[q] = [chan[q] EXCEPT !.shut = TRUE]
    BY <1>1, <1>3
  <2>2. chan'[q].ready = chan[q].ready /\ chan'[q].eof = chan[q].eof
    BY <1>1, <2>1, ShutRecord
  <2>3. QED
    BY <1>3, <2>2
<1>4. QED
  BY <1>2, <1>3

LEMMA ReadyFlags ==
  ASSUME HandoverOK, NEW r, chan' = [chan EXCEPT ![r].ready = TRUE], NEW q \in Procs
  PROVE  /\ q # r => SameFlags(q)
         /\ chan'[q].shut = chan[q].shut /\ chan'[q].eof = chan[q].eof
         /\ q = r => chan'[q].ready
<1>1. Shaped(chan[q]) /\ chan = [t \in Procs |-> chan[t]]
  BY DEF HandoverOK
<1>2. CASE q # r
  <2>1. chan'[q] = chan[q]
    BY <1>1, <1>2
  <2>2. QED
    BY <1>2, <2>1 DEF SameFlags
<1>3. CASE q = r
  <2>1. chan'[q] = [chan[q] EXCEPT !.ready = TRUE]
    BY <1>1, <1>3
  <2>2. chan'[q].shut = chan[q].shut /\ chan'[q].eof = chan[q].eof /\ chan'[q].ready
    BY <1>1, <2>1, ReadyRecord
  <2>3. QED
    BY <1>3, <2>2
<1>4. QED
  BY <1>2, <1>3

LEMMA EofFlags ==
  ASSUME HandoverOK, NEW r, chan' = [chan EXCEPT ![r].eof = TRUE], NEW q \in Procs
  PROVE  /\ chan'[q].shut = chan[q].shut /\ chan'[q].ready = chan[q].ready
         /\ chan[q].eof => chan'[q].eof
<1>1. Shaped(chan[q]) /\ chan = [t \in Procs |-> chan[t]]
  BY DEF HandoverOK
<1>2. CASE q # r
  <2>1. chan'[q] = chan[q]
    BY <1>1, <1>2
  <2>2. QED
    BY <1>2, <2>1 DEF SameFlags
<1>3. CASE q = r
  <2>1. chan'[q] = [chan[q] EXCEPT !.eof = TRUE]
    BY <1>1, <1>3
  <2>2. chan'[q].shut = chan[q].shut /\ chan'[q].ready = chan[q].ready /\ chan'[q].eof
    BY <1>1, <2>1, EofRecord
  <2>3. QED
    BY <1>3, <2>2
<1>4. QED
  BY <1>2, <1>3

LEMMA OtherFlags ==
  ASSUME HandoverOK, NEW r, NEW q \in Procs, NEW v,
         \/ chan' = [chan EXCEPT ![r].receipt = TRUE]
         \/ chan' = [chan EXCEPT ![r].handed = v]
         \/ chan' = [chan EXCEPT ![r].sent = @ \cup v]
         \/ chan' = chan
  PROVE  SameFlags(q)
<1>1. Shaped(chan[q]) /\ chan = [t \in Procs |-> chan[t]]
  BY DEF HandoverOK
<1>2. \/ chan'[q] = [chan[q] EXCEPT !.receipt = TRUE]
      \/ chan'[q] = [chan[q] EXCEPT !.handed = v]
      \/ chan'[q] = [chan[q] EXCEPT !.sent = @ \cup v]
      \/ chan'[q] = chan[q]
  BY <1>1, Zenon
<1>3. QED
  BY <1>1, <1>2, OtherRecord DEF SameFlags

(* A step of one process that leaves its thread and the family alone.  It  *)
(* does not begin or end an upgrade, nor come back from one.               *)
StepsOn(p, phase) ==
  /\ UNCHANGED <<parent, child, thread, unheard>> /\ systemd'.main = systemd.main
  /\ proc' = [proc EXCEPT ![p] = phase] /\ phase \in Phases
  /\ proc[p] \notin {"none", "upgrading", "gone"} /\ phase \notin {"none", "detached", "upgrading"}
  /\ phase \in Fresh => proc[p] \in Fresh
  /\ thread[p] \in AtWork => phase \in {"leaving", "draining"}
  /\ \A q \in Procs : chan'[q].shut = chan[q].shut

LEMMA StepsOnKeeps ==
  ASSUME HandoverOK, FamilyOK, LineOK, systemd.main \in Procs,
         NEW p \in Procs, NEW phase, StepsOn(p, phase)
  PROVE  FamilyOK' /\ LineOK'
<1>1. /\ proc'[p] = phase /\ \A q \in Procs : q # p => proc'[q] = proc[q]
      /\ proc' \in [Procs -> Phases]
  BY DEF StepsOn, HandoverOK
<1>2. \A q \in Procs : /\ proc'[q] = "none" <=> proc[q] = "none"
                       /\ proc'[q] = "upgrading" <=> proc[q] = "upgrading"
                       /\ proc[q] = "gone" => proc'[q] = "gone"
                       /\ proc'[q] = "detached" => proc[q] = "detached"
                       /\ proc'[q] \in Fresh => proc[q] \in Fresh
  BY <1>1 DEF StepsOn
<1>3. \A q \in Procs : child[q] \in Procs \cup {None}
  BY DEF HandoverOK
<1>4. FamilyOK'
  <2>1. proc'[1] \notin {"none", "detached"} /\ proc'[systemd'.main] # "none"
    BY <1>2, ProcsAssumption DEF FamilyOK, StepsOn
  <2>2. ASSUME NEW q \in Procs
        PROVE  /\ parent'[q] # q
               /\ parent'[q] = None => (q = 1 \/ proc'[q] = "none") /\ ~chan'[q].shut
    <3>1. parent'[q] = parent[q] /\ chan'[q].shut = chan[q].shut
      BY DEF StepsOn
    <3>2. QED
      BY <1>2, <3>1 DEF FamilyOK
  <2>3. ASSUME NEW q \in Procs
        PROVE  /\ thread'[q] \in AtWork =>
                    q = systemd'.main /\ proc'[q] \in {"upgrading", "leaving", "draining"}
               /\ proc'[q] = "upgrading" =>
                    q = systemd'.main /\ thread'[q] # "idle" /\ ~chan'[child'[q]].shut
               /\ thread'[q] # "idle" => child'[q] # None
               /\ thread'[q] = "launching" => proc'[child'[q]] = "none"
               /\ thread'[q] \in Waiting \cup {"killing", "ok"} => proc'[child'[q]] # "none"
    <3>1. thread'[q] = thread[q] /\ child'[q] = child[q] /\ systemd'.main = systemd.main
      BY DEF StepsOn
    <3>2. thread[q] \in AtWork => proc'[q] \in {"upgrading", "leaving", "draining"}
      BY <1>1 DEF StepsOn, FamilyOK
    <3>3. thread[q] # "idle" => child[q] \in Procs
      BY <1>3 DEF FamilyOK
    <3>4. proc'[q] = "upgrading" => ~chan'[child[q]].shut
      BY <1>2, <3>3 DEF StepsOn, FamilyOK
    <3>5. thread[q] \in Waiting \cup {"killing", "ok"} => thread[q] # "idle"
      BY DEF Waiting
    <3>6. QED
      BY <1>2, <3>1, <3>2, <3>3, <3>4, <3>5 DEF FamilyOK
  <2>4. QED
    BY <2>1, <2>2, <2>3 DEF FamilyOK
<1>5. LineOK'
  <2>1. ASSUME NEW q \in Procs, proc'[q] \in Fresh, q \notin unheard'
        PROVE  q = systemd'.main \/ (child'[systemd'.main] = q /\ proc'[systemd'.main] \notin Fresh)
    BY <1>2, <2>1 DEF LineOK, StepsOn
  <2>2. ASSUME NEW q \in Procs, proc'[q] = "upgrading", thread'[q] = "failed"
        PROVE  proc'[child'[q]] = "gone" \/ child'[q] \in unheard'
    <3>1. thread[q] = "failed" /\ child'[q] = child[q] /\ unheard' = unheard /\ child[q] \in Procs
      BY <1>3, <2>2 DEF StepsOn, FamilyOK
    <3>2. QED
      BY <1>2, <2>2, <3>1 DEF LineOK
  <2>3. QED
    BY <2>1, <2>2 DEF LineOK
<1>6. QED
  BY <1>4, <1>5

(* A step that is none of theirs.                                          *)
LEMMA OthersStepsKeep ==
  ASSUME HandoverOK, FamilyOK, LineOK, UNCHANGED <<proc, parent, child, thread, unheard, systemd>>,
         \A q \in Procs : chan'[q].shut = chan[q].shut
  PROVE  FamilyOK' /\ LineOK'
<1>1. ASSUME NEW p \in Procs, proc[p] = "upgrading"
      PROVE  ~chan'[child[p]].shut
  <2>1. child[p] # None /\ ~chan[child[p]].shut
    BY <1>1 DEF FamilyOK
  <2>2. child[p] \in Procs
    BY <2>1 DEF HandoverOK
  <2>3. QED
    BY <2>1, <2>2
<1>2. \A q \in Procs : parent[q] = None => ~chan'[q].shut
  BY DEF FamilyOK
<1>3. FamilyOK'
  BY <1>1, <1>2 DEF FamilyOK
<1>4. LineOK'
  BY DEF LineOK
<1>5. QED
  BY <1>3, <1>4

LEMMA ProcessSteps ==
  ASSUME TypeOK, HandoverOK, FamilyOK, NEW p \in Procs,
         \/ Receive(p) \/ StartFrontend(p) \/ Started(p) \/ Ready(p) \/ Release(p)
         \/ StopSeen(p) \/ StopOps(p) \/ Drain(p) \/ Exit(p) \/ StartFails(p)
  PROVE  \E phase \in Phases : StepsOn(p, phase)
<1>1. UNCHANGED <<parent, child, thread, unheard>>
  BY DEF Receive, StartFrontend, Started, Ready, Release, StopSeen, StopOps, Drain, Exit, StartFails,
         exchange
<1>2. systemd'.main = systemd.main
  <2>1. systemd \in [main : Procs, state : {"starting", "ready", "reloading"}]
    BY DEF TypeOK
  <2>2. systemd' = systemd \/ systemd' = [systemd EXCEPT !.state = "ready"]
    BY DEF Receive, StartFrontend, Started, Ready, Release, StopSeen, StopOps, Drain, Exit, StartFails
  <2>3. QED
    BY <2>1, <2>2
<1>3. \A q \in Procs : chan'[q].shut = chan[q].shut
  <2>1. \/ chan' = chan \/ chan' = [chan EXCEPT ![p].receipt = TRUE]
        \/ chan' = [chan EXCEPT ![p].ready = TRUE]
    BY DEF Receive, StartFrontend, Started, Ready, Release, StopSeen, StopOps, Drain, Exit, StartFails,
           exchange
  <2>2. QED
    BY <2>1, OtherFlags, ReadyFlags DEF SameFlags
<1>4. ASSUME NEW phase \in Phases, proc' = [proc EXCEPT ![p] = phase],
             proc[p] \notin {"none", "upgrading", "gone"},
             phase \notin {"none", "detached", "upgrading"},
             phase \in Fresh => proc[p] \in Fresh,
             \/ proc[p] \notin {"upgrading", "leaving", "draining"} \/ thread[p] \notin AtWork
             \/ phase = "draining"
      PROVE  \E x \in Phases : StepsOn(p, x)
  BY <1>1, <1>2, <1>3, <1>4, Zenon DEF StepsOn, FamilyOK
<1>5. CASE proc' = [proc EXCEPT ![p] = "gone"]
  <2>1. proc[p] \in {"detached", "started", "draining", "booting"}
        /\ (proc[p] = "draining" => thread[p] \notin AtWork)
    BY <1>5 DEF Receive, StartFrontend, Started, Ready, Release, StopSeen, StopOps, Drain, Exit,
                StartFails, Go, Phases, Busy, AtWork, HandoverOK
  <2>2. QED
    BY <1>4, <1>5, <2>1 DEF Phases, Fresh
<1>6. CASE \E x \in {"booting", "committed", "started", "serving"} :
             proc[p] \in Fresh /\ proc' = [proc EXCEPT ![p] = x]
  BY <1>4, <1>6, Zenon DEF Phases, Fresh
<1>7. CASE proc[p] \in {"serving", "replaced"} /\ proc' = [proc EXCEPT ![p] = "leaving"]
  BY <1>4, <1>7 DEF Phases, Fresh
<1>8. CASE proc[p] = "leaving" /\ proc' = [proc EXCEPT ![p] = "draining"]
  BY <1>4, <1>8 DEF Phases, Fresh
<1>9. QED
  BY <1>5, <1>6, <1>7, <1>8
     DEF Receive, StartFrontend, Started, Ready, Release, StopSeen, StopOps, Drain, Exit, StartFails,
         Go, Ended, Fresh

LEMMA StopSteps ==
  ASSUME HandoverOK, FamilyOK, LineOK, systemd.main \in Procs, NEW p \in Procs, Stop(p)
  PROVE  FamilyOK' /\ LineOK'
<1>1. UNCHANGED <<parent, child, thread, chan, unheard, systemd>>
  BY DEF Stop, exchange
<1>2. CASE proc[p] = "detached"
  <2>1. StepsOn(p, "gone")
    BY <1>1, <1>2 DEF Stop, Ended, StepsOn, FamilyOK, Phases, Fresh
  <2>2. QED
    BY <2>1, StepsOnKeeps
<1>3. CASE proc[p] # "detached"
  BY <1>1, <1>3, OthersStepsKeep DEF Stop
<1>4. QED
  BY <1>2, <1>3

(* The three ends of an upgrade.                                           *)
LEMMA EndsKeepLine ==
  ASSUME TypeOK, HandoverOK, FamilyOK, LineOK, NEW p \in Procs,
         HandedOver(p) \/ UpgradeFailed(p) \/ AbandonUpgrade(p)
  PROVE  FamilyOK' /\ LineOK'
<1> DEFINE q == child[p]
<1>1. /\ proc[p] = "upgrading" /\ UNCHANGED <<parent, child, unheard>>
      /\ chan' = [chan EXCEPT ![q].shut = TRUE]
      /\ proc \in [Procs -> Phases] /\ thread \in [Procs -> Threads]
  BY Zenon DEF HandedOver, UpgradeFailed, AbandonUpgrade, HandoverOK
<1>2. systemd.main = p /\ thread[p] # "idle" /\ q \in Procs /\ parent[q] = p /\ q # p
  <2>1. systemd.main = p /\ thread[p] # "idle" /\ q # None
    BY <1>1 DEF FamilyOK
  <2>2. q \in Procs /\ parent[q] = p
    BY <2>1, Zenon DEF HandoverOK
  <2>3. QED
    BY <2>1, <2>2 DEF FamilyOK
<1>3. \A r \in Procs : r # p => proc[r] # "upgrading" /\ thread[r] \notin AtWork
  BY <1>2 DEF FamilyOK
<1>4. \A r \in Procs : r # q => chan'[r].shut = chan[r].shut
  BY <1>1, ShutFlags DEF SameFlags
<1>5. PICK phase \in {"replaced", "serving", "leaving"} : proc' = [proc EXCEPT ![p] = phase]
  BY DEF HandedOver, UpgradeFailed, AbandonUpgrade, Go
<1>6. proc'[p] = phase /\ \A r \in Procs : r # p => proc'[r] = proc[r]
  BY <1>1, <1>5
<1>7. \/ thread' = thread \/ thread' = [thread EXCEPT ![p] = "idle"]
  BY DEF HandedOver, UpgradeFailed, AbandonUpgrade
<1>8. (\A r \in Procs : thread'[r] # "idle" => thread'[r] = thread[r])
  BY <1>1, <1>7
<1>9. systemd'.main = IF phase = "replaced" THEN q ELSE p
  <2>1. systemd \in [main : Procs, state : {"starting", "ready", "reloading"}]
    BY DEF TypeOK
  <2>2. proc'[p] = phase
    BY <1>6
  <2>3. CASE HandedOver(p)
    <3>1. phase = "replaced"
      BY <1>1, <2>2, <2>3 DEF HandedOver, Go
    <3>2. QED
      BY <1>2, <2>3, <3>1 DEF HandedOver
  <2>4. CASE UpgradeFailed(p)
    <3>1. phase = "serving"
      BY <1>1, <2>2, <2>4 DEF UpgradeFailed, Go
    <3>2. systemd' = [systemd EXCEPT !.state = "ready"]
      BY <1>2, <2>4 DEF UpgradeFailed
    <3>3. QED
      BY <1>2, <2>1, <3>1, <3>2
  <2>5. CASE AbandonUpgrade(p)
    <3>1. phase = "leaving" /\ systemd' = systemd
      BY <1>1, <2>2, <2>5 DEF AbandonUpgrade, Go
    <3>2. QED
      BY <1>2, <3>1
  <2>6. QED
    BY <2>3, <2>4, <2>5
<1>10. phase = "replaced" => thread[p] = "ok"
  BY <1>1, <1>6 DEF HandedOver, UpgradeFailed, AbandonUpgrade, Go
<1>11. phase = "serving" => thread[p] = "failed" /\ thread'[p] = "idle"
  BY <1>1, <1>6 DEF HandedOver, UpgradeFailed, AbandonUpgrade, Go
<1>12. \A r \in Procs : thread'[r] \in AtWork => r = p /\ thread[p] \in AtWork
  BY <1>3, <1>8 DEF AtWork, Waiting
<1>13. phase # "leaving" => thread'[p] \notin AtWork
  BY <1>10, <1>11, <1>12 DEF AtWork, Waiting
<1>14. FamilyOK'
  <2>1. proc'[1] \notin {"none", "detached"} /\ proc'[systemd'.main] # "none"
    <3>1. proc'[1] \notin {"none", "detached"}
      BY <1>6, ProcsAssumption DEF FamilyOK
    <3>2. thread[p] = "ok" => proc'[q] # "none"
      BY <1>2, <1>6 DEF FamilyOK
    <3>3. QED
      BY <1>6, <1>9, <1>10, <3>1, <3>2
  <2>2. ASSUME NEW r \in Procs
        PROVE  /\ parent'[r] # r
               /\ parent'[r] = None => (r = 1 \/ proc'[r] = "none") /\ ~chan'[r].shut
    <3>1. parent'[r] = parent[r] /\ (parent[r] = None => r # q)
      BY <1>1, <1>2, ProcsAssumption
    <3>2. parent[r] = None => r = 1 \/ proc'[r] = "none"
      BY <1>1, <1>6 DEF FamilyOK
    <3>3. QED
      BY <1>4, <3>1, <3>2 DEF FamilyOK
  <2>3. ASSUME NEW r \in Procs
        PROVE  /\ thread'[r] \in AtWork =>
                    r = systemd'.main /\ proc'[r] \in {"upgrading", "leaving", "draining"}
               /\ proc'[r] # "upgrading"
               /\ thread'[r] # "idle" => child'[r] # None
               /\ thread'[r] = "launching" => proc'[child'[r]] = "none"
               /\ thread'[r] \in Waiting \cup {"killing", "ok"} => proc'[child'[r]] # "none"
    <3>1. thread'[r] \in AtWork => r = p /\ phase = "leaving"
      BY <1>12, <1>13
    <3>2. proc'[r] # "upgrading"
      BY <1>3, <1>5, <1>6
    <3>3. thread'[r] # "idle" => thread[r] = thread'[r] /\ child'[r] = child[r] /\ child[r] \in Procs
      <4>1. child[r] \in Procs \cup {None}
        BY DEF HandoverOK
      <4>2. thread[r] # "idle" => child[r] # None
        BY DEF FamilyOK
      <4>3. QED
        BY <1>1, <1>8, <4>1, <4>2
    <3>4. \A t \in Procs : proc'[t] = "none" <=> proc[t] = "none"
      BY <1>1, <1>5, <1>6
    <3>5. thread'[r] \in Waiting \cup {"killing", "ok"} => thread'[r] # "idle"
      BY DEF Waiting
    <3>6. thread'[r] \in AtWork => r = systemd'.main /\ proc'[r] = "leaving"
      BY <1>6, <1>9, <3>1
    <3>7. /\ thread[r] = "launching" => proc[child[r]] = "none"
          /\ thread[r] \in Waiting \cup {"killing", "ok"} => proc[child[r]] # "none"
      BY DEF FamilyOK
    <3>8. child'[r] = child[r]
      BY <1>1
    <3>9. thread'[r] # "idle" => child'[r] # None
      BY <3>3, ProcsAssumption
    <3>10. /\ thread'[r] = "launching" => proc'[child'[r]] = "none"
           /\ thread'[r] \in Waiting \cup {"killing", "ok"} => proc'[child'[r]] # "none"
      BY <3>3, <3>4, <3>5, <3>7
    <3>11. QED
      BY <3>2, <3>6, <3>9, <3>10
  <2>4. QED
    BY <2>1, <2>2, <2>3 DEF FamilyOK
<1>15. LineOK'
  <2>1. ASSUME NEW r \in Procs, proc'[r] \in Fresh, r \notin unheard'
        PROVE  r = systemd'.main \/ (child'[systemd'.main] = r /\ proc'[systemd'.main] \notin Fresh)
    <3>1. CASE r = p
      BY <1>5, <1>6, <1>9, <2>1, <3>1 DEF Fresh
    <3>2. CASE r # p
      <4>1. r = q /\ r \notin unheard /\ proc[r] \in Fresh
        BY <1>1, <1>2, <1>6, <2>1, <3>2 DEF LineOK
      <4>2. phase # "serving"
        BY <1>1, <1>11, <4>1 DEF LineOK, Fresh
      <4>3. QED
        BY <1>1, <1>5, <1>6, <1>9, <4>1, <4>2 DEF Fresh
    <3>3. QED
      BY <3>1, <3>2
  <2>2. \A r \in Procs : proc'[r] # "upgrading"
    BY <1>3, <1>5, <1>6
  <2>3. QED
    BY <2>1, <2>2 DEF LineOK
<1>16. QED
  BY <1>14, <1>15

(* A step of the thread that waits: on to the next wait, or to its end.    *)
WaitsOn(p, t) ==
  /\ UNCHANGED <<proc, parent, child, systemd>>
  /\ thread' = [thread EXCEPT ![p] = t] /\ t \in {"receipt", "confirmation", "killing", "ok", "failed"}
  /\ thread[p] \in Waiting
  /\ unheard \subseteq unheard'
  /\ \A q \in Procs : chan'[q].shut = chan[q].shut
  /\ t = "failed" /\ proc[p] = "upgrading" => proc[child[p]] = "gone" \/ child[p] \in unheard'

LEMMA WaitsOnKeeps ==
  ASSUME HandoverOK, FamilyOK, LineOK, NEW p \in Procs, NEW t, WaitsOn(p, t)
  PROVE  FamilyOK' /\ LineOK'
<1>1. thread'[p] = t /\ \A r \in Procs : r # p => thread'[r] = thread[r]
  BY DEF WaitsOn, HandoverOK
<1>2. \A r \in Procs : child[r] \in Procs \cup {None} /\ (thread[r] # "idle" => child[r] # None)
  BY Zenon DEF HandoverOK, FamilyOK
<1>3. thread[p] # "idle" /\ thread[p] \in AtWork /\ proc[child[p]] # "none"
  BY DEF WaitsOn, Waiting, AtWork, FamilyOK
<1>4. ASSUME NEW r \in Procs
      PROVE  /\ thread'[r] \in AtWork =>
                  r = systemd.main /\ proc[r] \in {"upgrading", "leaving", "draining"}
             /\ proc[r] = "upgrading" =>
                  r = systemd.main /\ thread'[r] # "idle" /\ ~chan'[child[r]].shut
             /\ thread'[r] # "idle" => child[r] # None
             /\ thread'[r] = "launching" => proc[child[r]] = "none"
             /\ thread'[r] \in Waiting \cup {"killing", "ok"} => proc[child[r]] # "none"
  <2>1. proc[r] = "upgrading" => ~chan'[child[r]].shut
    BY <1>2 DEF WaitsOn, FamilyOK
  <2>2. CASE r = p
    <3>1. t # "launching" /\ t # "idle"
      BY DEF WaitsOn
    <3>2. QED
      BY <1>1, <1>2, <1>3, <2>1, <2>2, <3>1 DEF FamilyOK
  <2>3. CASE r # p
    BY <1>1, <2>1, <2>3 DEF FamilyOK
  <2>4. QED
    BY <2>2, <2>3
<1>5. FamilyOK'
  BY <1>4 DEF FamilyOK, WaitsOn
<1>6. LineOK'
  <2>1. ASSUME NEW q \in Procs, proc'[q] \in Fresh, q \notin unheard'
        PROVE  q = systemd'.main \/ (child'[systemd'.main] = q /\ proc'[systemd'.main] \notin Fresh)
    BY <2>1 DEF LineOK, WaitsOn
  <2>2. ASSUME NEW q \in Procs, proc'[q] = "upgrading", thread'[q] = "failed"
        PROVE  proc'[child'[q]] = "gone" \/ child'[q] \in unheard'
    <3>1. CASE q = p
      BY <1>1, <2>2, <3>1 DEF WaitsOn
    <3>2. CASE q # p
      BY <1>1, <2>2, <3>2 DEF WaitsOn, LineOK
    <3>3. QED
      BY <3>1, <3>2
  <2>3. QED
    BY <2>1, <2>2 DEF LineOK
<1>7. QED
  BY <1>5, <1>6

LEMMA WaitingKeepsLine ==
  ASSUME HandoverOK, FamilyOK, LineOK, NEW p \in Procs,
         Send(p) \/ Deadline(p) \/ AwaitReceipt(p) \/ AwaitConfirmation(p)
  PROVE  FamilyOK' /\ LineOK'
<1> DEFINE q == child[p]
<1>1. /\ UNCHANGED <<proc, parent, child, systemd>> /\ thread[p] \in Waiting
      /\ unheard \subseteq unheard'
  BY DEF Send, Deadline, AwaitReceipt, AwaitConfirmation, Untouched, Waiting
<1>2. q \in Procs
  <2>1. q # None
    BY <1>1 DEF FamilyOK, Waiting
  <2>2. QED
    BY <2>1 DEF HandoverOK
<1>3. \A r \in Procs : chan'[r].shut = chan[r].shut
  <2>1. CASE chan' = chan
    BY <2>1
  <2>2. CASE chan' = [chan EXCEPT ![q].eof = TRUE]
    BY <1>2, <2>2, EofFlags
  <2>3. ASSUME NEW a, chan' = [chan EXCEPT ![q].sent = @ \cup {a}]
        PROVE  \A r \in Procs : chan'[r].shut = chan[r].shut
    <3>1. PICK v : v = {a}
      BY Zenon
    <3>2. chan' = [chan EXCEPT ![q].sent = @ \cup v]
      BY <2>3, <3>1
    <3>3. QED
      BY <1>2, <3>2, OtherFlags DEF SameFlags
  <2>4. QED
    BY <2>1, <2>2, <2>3, Zenon DEF Send, Deadline, AwaitReceipt, AwaitConfirmation
<1>4. proc[p] = "upgrading" => ~chan[q].shut
  BY DEF FamilyOK
<1>5. CASE UNCHANGED <<thread, unheard>>
  BY <1>1, <1>3, <1>5, OthersStepsKeep
<1>6. ASSUME NEW t \in {"receipt", "confirmation", "killing", "ok", "failed"},
             thread' = [thread EXCEPT ![p] = t],
             t = "failed" => chan[q].shut \/ proc[q] = "gone" \/ q \in unheard'
      PROVE  FamilyOK' /\ LineOK'
  <2>1. WaitsOn(p, t)
    BY <1>1, <1>3, <1>4, <1>6 DEF WaitsOn
  <2>2. QED
    BY <2>1, WaitsOnKeeps
<1>7. CASE Send(p)
  BY <1>5, <1>6, <1>7 DEF Send, At
<1>8. CASE Deadline(p)
  BY <1>5, <1>8 DEF Deadline
<1>9. CASE AwaitReceipt(p)
  BY <1>6, <1>9 DEF AwaitReceipt, At, Silent
<1>10. CASE AwaitConfirmation(p)
  BY <1>6, <1>10 DEF AwaitConfirmation, At, Silent
<1>11. QED
  BY <1>7, <1>8, <1>9, <1>10

(* A successor is started, or killed.                                      *)
LEMMA LaunchKeepsLine ==
  ASSUME HandoverOK, FamilyOK, LineOK, systemd.main \in Procs, NEW p \in Procs, Launch(p) \/ Kill(p)
  PROVE  FamilyOK' /\ LineOK'
<1> DEFINE q == child[p]
<1>1. /\ UNCHANGED <<parent, child, chan, systemd, unheard>> /\ thread[p] \in {"launching", "killing"}
      /\ thread[p] = "launching" => proc[q] = "none"
      /\ thread[p] = "killing" => proc[q] # "none"
  BY DEF Launch, Kill, Untouched, FamilyOK
<1>2. systemd.main = p /\ proc[p] \in {"upgrading", "leaving", "draining"} /\ q # None
  BY <1>1 DEF FamilyOK, AtWork
<1>3. q \in Procs /\ q # p /\ parent[q] = p
  <2>1. q \in Procs /\ parent[q] = p
    BY <1>2, Zenon DEF HandoverOK
  <2>2. QED
    BY <2>1 DEF FamilyOK
<1>4. PICK t \in {"sending", "failed"} : thread' = [thread EXCEPT ![p] = t]
  BY DEF Launch, Kill, At
<1>5. /\ thread' = [thread EXCEPT ![p] = t] => thread'[p] = t
      /\ \A r \in Procs : r # p => thread'[r] = thread[r]
  BY <1>4 DEF HandoverOK
<1>6. /\ proc' \in [Procs -> Phases] /\ \A r \in Procs : r # q => proc'[r] = proc[r]
      /\ proc'[q] = IF t = "sending" THEN "detached" ELSE "gone"
  <2>1. CASE Launch(p)
    BY <1>3, <1>4, <1>5, <2>1 DEF Launch, Go, At, HandoverOK, Phases
  <2>2. CASE Kill(p)
    <3>1. t = "failed"
      BY <1>4, <1>5, <2>2 DEF Kill, At, HandoverOK
    <3>2. CASE Live(q)
      BY <1>3, <2>2, <3>1, <3>2 DEF Kill, Ended, HandoverOK, Phases
    <3>3. CASE ~Live(q)
      <4>1. proc[q] = "gone" /\ proc' = proc
        BY <1>1, <2>2, <3>3 DEF Kill, Live
      <4>2. QED
        BY <3>1, <4>1 DEF HandoverOK
    <3>4. QED
      BY <3>2, <3>3
  <2>3. QED
    BY <2>1, <2>2
<1>7. proc'[q] # "none" /\ proc'[q] # "upgrading" /\ (t = "failed" => proc'[q] = "gone")
  BY <1>4, <1>6
<1>8. thread'[p] = t
  BY <1>4, <1>5
<1>9. \A r \in Procs : child[r] = q => r = p
  BY <1>3, OneParent, ProcsAssumption, Zenon DEF HandoverOK
<1>10. FamilyOK'
  <2>1. proc'[1] \notin {"none", "detached"} /\ proc'[systemd'.main] # "none"
    <3>1. CASE q = 1
      <4>1. thread[p] = "killing"
        BY <1>1, <3>1 DEF FamilyOK
      <4>2. t = "failed"
        BY <1>5, <1>8, <4>1 DEF Launch, Kill, At, HandoverOK
      <4>3. QED
        BY <1>1, <1>2, <1>3, <1>6, <1>7, <3>1, <4>2
    <3>2. CASE q # 1
      BY <1>1, <1>2, <1>3, <1>6, <3>2, ProcsAssumption DEF FamilyOK
    <3>3. QED
      BY <3>1, <3>2
  <2>2. ASSUME NEW r \in Procs
        PROVE  /\ parent'[r] # r
               /\ parent'[r] = None => (r = 1 \/ proc'[r] = "none") /\ ~chan'[r].shut
    BY <1>1, <1>3, <1>6, ProcsAssumption DEF FamilyOK
  <2>3. ASSUME NEW r \in Procs
        PROVE  /\ thread'[r] \in AtWork =>
                    r = systemd'.main /\ proc'[r] \in {"upgrading", "leaving", "draining"}
               /\ proc'[r] = "upgrading" =>
                    r = systemd'.main /\ thread'[r] # "idle" /\ ~chan'[child'[r]].shut
               /\ thread'[r] # "idle" => child'[r] # None
               /\ thread'[r] = "launching" => proc'[child'[r]] = "none"
               /\ thread'[r] \in Waiting \cup {"killing", "ok"} => proc'[child'[r]] # "none"
    <3>1. CASE r = p
      <4>1. proc'[p] = proc[p] /\ child'[p] = q
        BY <1>1, <1>3, <1>6
      <4>2. t # "idle" /\ t # "launching"
        BY <1>4
      <4>3. proc[p] = "upgrading" => ~chan'[q].shut
        BY <1>1 DEF FamilyOK
      <4>4. QED
        BY <1>1, <1>2, <1>7, <1>8, <3>1, <4>1, <4>2, <4>3
    <3>2. CASE r # p
      <4>1. thread'[r] = thread[r] /\ child'[r] = child[r] /\ thread[r] \notin AtWork
        BY <1>1, <1>2, <1>5, <3>2 DEF FamilyOK
      <4>2. proc'[r] # "upgrading"
        BY <1>2, <1>6, <1>7, <3>2 DEF FamilyOK
      <4>3. thread[r] \in Waiting \cup {"killing", "ok"} => child[r] \in Procs
        <5>1. thread[r] \in Waiting \cup {"killing", "ok"} => child[r] # None
          BY DEF FamilyOK, Waiting
        <5>2. QED
          BY <5>1 DEF HandoverOK
      <4>4. thread[r] \in Waiting \cup {"killing", "ok"} => proc'[child[r]] # "none"
        BY <1>6, <1>7, <4>3 DEF FamilyOK
      <4>5. thread[r] # "launching" /\ (thread[r] # "idle" => child[r] # None)
        BY <4>1 DEF FamilyOK, AtWork
      <4>6. QED
        BY <4>1, <4>2, <4>4, <4>5
    <3>3. QED
      BY <3>1, <3>2
  <2>4. QED
    BY <2>1, <2>2, <2>3 DEF FamilyOK
<1>11. LineOK'
  <2>1. ASSUME NEW r \in Procs, proc'[r] \in Fresh, r \notin unheard'
        PROVE  r = systemd'.main \/ (child'[systemd'.main] = r /\ proc'[systemd'.main] \notin Fresh)
    <3>1. proc'[p] = proc[p] /\ proc[p] \notin Fresh
      BY <1>2, <1>3, <1>6 DEF Fresh
    <3>2. CASE r = q
      BY <1>1, <1>2, <3>1, <3>2
    <3>3. CASE r # q
      <4>1. proc[r] \in Fresh /\ r \notin unheard
        BY <1>1, <1>6, <2>1, <3>3
      <4>2. QED
        BY <1>1, <1>2, <3>1, <4>1 DEF LineOK
    <3>4. QED
      BY <3>2, <3>3
  <2>2. ASSUME NEW r \in Procs, proc'[r] = "upgrading", thread'[r] = "failed"
        PROVE  proc'[child'[r]] = "gone" \/ child'[r] \in unheard'
    <3>1. r # q /\ proc[r] = "upgrading"
      BY <1>6, <1>7, <2>2
    <3>2. r = p
      BY <1>2, <3>1 DEF FamilyOK
    <3>3. QED
      BY <1>1, <1>7, <1>8, <2>2, <3>2
  <2>3. QED
    BY <2>1, <2>2 DEF LineOK
<1>12. QED
  BY <1>10, <1>11

(* A process that is to be started joins the family.                       *)
LEMMA RequestKeepsLine ==
  ASSUME TypeOK, HandoverOK, FamilyOK, LineOK, NEW p \in Procs, UpgradeRequested(p)
  PROVE  FamilyOK' /\ LineOK'
<1>1. PICK q \in Procs :
        /\ proc[q] = "none" /\ parent[q] = None
        /\ parent' = [parent EXCEPT ![q] = p] /\ child' = [child EXCEPT ![p] = q]
        /\ chan' = [chan EXCEPT ![q].handed = bound[p]]
  BY Zenon DEF UpgradeRequested
<1>2. /\ proc' = [proc EXCEPT ![p] = "upgrading"] /\ proc[p] = "serving" /\ systemd.main = p
      /\ thread' = [thread EXCEPT ![p] = "launching"] /\ unheard' = unheard
  BY DEF UpgradeRequested, Go
<1>3. systemd'.main = p
  <2>1. systemd' = [systemd EXCEPT !.state = "reloading"]
    BY <1>2 DEF UpgradeRequested
  <2>2. QED
    BY <1>2, <2>1 DEF TypeOK
<1>4. p # q /\ p # None /\ q # None
  BY <1>1, <1>2, ProcsAssumption
<1>5. /\ proc'[p] = "upgrading" /\ \A r \in Procs : r # p => proc'[r] = proc[r]
      /\ thread'[p] = "launching" /\ \A r \in Procs : r # p => thread'[r] = thread[r]
      /\ child'[p] = q /\ \A r \in Procs : r # p => child'[r] = child[r]
      /\ parent'[q] = p /\ \A r \in Procs : r # q => parent'[r] = parent[r]
  BY <1>1, <1>2 DEF HandoverOK
<1>6. \A r \in Procs : chan'[r].shut = chan[r].shut
  BY <1>1, OtherFlags DEF SameFlags
<1>7. proc'[q] = "none" /\ ~chan[q].shut
  BY <1>1, <1>4, <1>5 DEF FamilyOK
<1>8. \A r \in Procs : r # p => thread[r] \notin AtWork /\ proc[r] # "upgrading"
  BY <1>2 DEF FamilyOK
<1>9. FamilyOK'
  <2>1. proc'[1] \notin {"none", "detached"} /\ proc'[systemd'.main] # "none"
    BY <1>3, <1>5, ProcsAssumption DEF FamilyOK
  <2>2. ASSUME NEW r \in Procs
        PROVE  /\ parent'[r] # r
               /\ parent'[r] = None => (r = 1 \/ proc'[r] = "none") /\ ~chan'[r].shut
    <3>1. CASE r = q
      BY <1>4, <1>5, <3>1
    <3>2. CASE r # q
      BY <1>2, <1>5, <1>6, <3>2 DEF FamilyOK
    <3>3. QED
      BY <3>1, <3>2
  <2>3. ASSUME NEW r \in Procs
        PROVE  /\ thread'[r] \in AtWork =>
                    r = systemd'.main /\ proc'[r] \in {"upgrading", "leaving", "draining"}
               /\ proc'[r] = "upgrading" =>
                    r = systemd'.main /\ thread'[r] # "idle" /\ ~chan'[child'[r]].shut
               /\ thread'[r] # "idle" => child'[r] # None
               /\ thread'[r] = "launching" => proc'[child'[r]] = "none"
               /\ thread'[r] \in Waiting \cup {"killing", "ok"} => proc'[child'[r]] # "none"
    <3>1. CASE r = p
      <4>1. ~chan'[q].shut
        BY <1>6, <1>7
      <4>2. "launching" \notin Waiting \cup {"killing", "ok"}
        BY DEF Waiting
      <4>3. QED
        BY <1>3, <1>4, <1>5, <1>7, <3>1, <4>1, <4>2
    <3>2. CASE r # p
      <4>1. thread'[r] = thread[r] /\ child'[r] = child[r] /\ proc'[r] = proc[r]
            /\ thread[r] \notin AtWork /\ proc[r] # "upgrading"
        BY <1>5, <1>8, <3>2
      <4>2. thread[r] # "idle" => child[r] # None
        BY DEF FamilyOK
      <4>3. thread[r] \in Waiting \cup {"killing", "ok"} => thread[r] # "idle"
        BY DEF Waiting
      <4>4. child[r] # None => child[r] \in Procs
        BY DEF HandoverOK
      <4>5. thread[r] \in Waiting \cup {"killing", "ok"} => proc[child[r]] # "none"
        BY DEF FamilyOK
      <4>6. \A t \in Procs : proc[t] # "none" => proc'[t] # "none"
        BY <1>5
      <4>7. thread[r] # "launching"
        BY <4>1 DEF AtWork
      <4>8. QED
        BY <4>1, <4>2, <4>3, <4>4, <4>5, <4>6, <4>7
    <3>3. QED
      BY <3>1, <3>2
  <2>4. QED
    BY <2>1, <2>2, <2>3 DEF FamilyOK
<1>10. LineOK'
  <2>1. ASSUME NEW r \in Procs, proc'[r] \in Fresh, r \notin unheard'
        PROVE  FALSE
    <3>1. r # p
      BY <1>5, <2>1 DEF Fresh
    <3>2. proc[r] \in Fresh /\ r \notin unheard
      BY <1>2, <1>5, <2>1, <3>1
    <3>3. proc[p] \in Fresh
      BY <1>2 DEF Fresh
    <3>4. QED
      BY <1>2, <3>1, <3>2, <3>3 DEF LineOK
  <2>2. ASSUME NEW r \in Procs, proc'[r] = "upgrading", thread'[r] = "failed"
        PROVE  FALSE
    BY <1>5, <1>8, <2>2
  <2>3. QED
    BY <2>1, <2>2 DEF LineOK
<1>11. QED
  BY <1>9, <1>10

-----------------------------------------------------------------------------
(* The main process.                                                       *)
Starts == {"booting", "committed", "started"}
Probed(p) == \/ proc[p] \in {"started", "serving", "upgrading", "replaced"}
             \/ p = 1 /\ proc[p] \in {"booting", "committed"}

(* A step of a process that does not serve.                                *)
Quietly(p, phase) ==
  /\ proc' = [proc EXCEPT ![p] = phase] /\ UNCHANGED <<thread, child, systemd, asked>>
  /\ proc[p] \notin {"serving", "upgrading"} /\ phase # "upgrading"
  /\ stop' \subseteq stop
  /\ \A q \in Procs : q # p => SameFlags(q) /\ ops'[q] = ops[q]
  /\ chan'[p].eof = chan[p].eof
  /\ chan[p].ready => chan'[p].ready
  /\ chan'[p].ready => chan[p].ready \/ (phase = "serving" /\ chan[p].eof)
  /\ p = 1 /\ phase \in Starts => proc[1] \in Starts
  /\ ops'[p] = "on" /\ asked = {} => Probed(p)'

LEMMA QuietlyKeeps ==
  ASSUME TypeOK, HandoverOK, FamilyOK, MainOK, NEW p \in Procs, NEW phase, Quietly(p, phase)
  PROVE  MainOK'
<1>1. /\ proc'[p] = phase /\ \A q \in Procs : q # p => proc'[q] = proc[q]
      /\ systemd.main \in Procs
  BY DEF Quietly, HandoverOK, TypeOK
<1>2. /\ stop' \subseteq asked'
      /\ proc'[1] \in Starts => systemd' = [main |-> 1, state |-> "starting"]
  BY <1>1, ProcsAssumption DEF Quietly, MainOK, Starts
<1>3. ASSUME NEW q \in Procs, chan'[q].ready
      PROVE  chan'[q].eof
  <2>1. CASE q = p
    BY <1>3, <2>1 DEF Quietly, MainOK
  <2>2. CASE q # p
    BY <1>3, <2>2 DEF Quietly, MainOK, SameFlags
  <2>3. QED
    BY <2>1, <2>2
<1>4. ASSUME NEW r \in Procs, proc'[r] = "upgrading"
      PROVE  /\ proc[r] = "upgrading" /\ child[r] \in Procs /\ child'[r] = child[r]
             /\ thread'[r] = thread[r]
             /\ chan[child[r]].ready => chan'[child[r]].ready
             /\ chan'[child[r]].ready /\ (chan[child[r]].ready => proc[child[r]] = "serving")
                  => proc'[child[r]] = "serving"
  <2>1. proc[r] = "upgrading" /\ child'[r] = child[r] /\ thread'[r] = thread[r]
    BY <1>1, <1>4 DEF Quietly
  <2>2. child[r] # None
    BY <2>1 DEF FamilyOK
  <2>3. child[r] \in Procs
    BY <2>2 DEF HandoverOK
  <2>4. CASE child[r] = p
    BY <1>1, <2>1, <2>3, <2>4 DEF Quietly
  <2>5. CASE child[r] # p
    BY <1>1, <2>1, <2>3, <2>5 DEF Quietly, SameFlags
  <2>6. QED
    BY <2>4, <2>5
<1>5. ASSUME NEW r \in Procs, proc'[r] = "upgrading", thread'[r] = "ok"
      PROVE  chan'[child'[r]].ready
  BY <1>4, <1>5 DEF MainOK
<1>6. ASSUME asked' = {}
      PROVE  /\ systemd'.state # "starting" => proc'[systemd'.main] \in {"serving", "upgrading"}
             /\ \A r \in Procs :
                  /\ /\ proc'[r] = "upgrading" /\ thread'[r] \in {"receipt", "confirmation", "ok"}
                     /\ chan'[child'[r]].ready
                     => proc'[child'[r]] = "serving"
                  /\ ops'[r] = "on" => Probed(r)'
  <2>1. systemd'.state # "starting" => proc'[systemd'.main] \in {"serving", "upgrading"}
    BY <1>1, <1>6 DEF Quietly, MainOK
  <2>2. ASSUME NEW r \in Procs, proc'[r] = "upgrading",
               thread'[r] \in {"receipt", "confirmation", "ok"}, chan'[child'[r]].ready
        PROVE  proc'[child'[r]] = "serving"
    <3>1. chan[child[r]].ready => proc[child[r]] = "serving"
      BY <1>4, <1>6, <2>2 DEF MainOK, Quietly
    <3>2. QED
      BY <1>4, <2>2, <3>1
  <2>3. ASSUME NEW r \in Procs, ops'[r] = "on"
        PROVE  Probed(r)'
    <3>1. CASE r = p
      BY <1>6, <2>3, <3>1, Zenon DEF Quietly
    <3>2. CASE r # p
      <4>1. ops[r] = "on" /\ proc'[r] = proc[r] /\ asked = {}
        BY <1>1, <1>6, <2>3, <3>2 DEF Quietly
      <4>2. QED
        BY <4>1 DEF MainOK, Probed
    <3>3. QED
      BY <3>1, <3>2
  <2>4. QED
    BY <2>1, <2>2, <2>3
<1>7. QED
  BY <1>2, <1>3, <1>5, <1>6 DEF MainOK, Starts, Probed

LEMMA QuietSteps ==
  ASSUME TypeOK, HandoverOK, FamilyOK, MainOK, NEW p \in Procs,
         \/ Receive(p) \/ StartFrontend(p) \/ Started(p) \/ Release(p)
         \/ StopOps(p) \/ Drain(p) \/ Exit(p) \/ StartFails(p)
  PROVE  MainOK'
<1>1. /\ UNCHANGED <<thread, child, systemd, asked>> /\ stop' \subseteq stop
      /\ proc[p] \in {"detached", "booting", "committed", "started", "replaced", "leaving", "draining"}
  BY DEF Receive, StartFrontend, Started, Release, StopOps, Drain, Exit, StartFails, exchange, Ended
<1>2. \A q \in Procs : q # p => ops'[q] = ops[q]
  <2>1. ops \in [Procs -> {"off", "on", "handed"}]
    BY DEF TypeOK
  <2>2. \/ ops' = ops \/ \E x : ops' = [ops EXCEPT ![p] = x]
    BY DEF Receive, StartFrontend, Started, Release, StopOps, Drain, Exit, StartFails, Ended
  <2>3. QED
    BY <2>1, <2>2
<1>3. ops'[p] = "on" => ops[p] = "on" \/ proc' = [proc EXCEPT ![p] = "started"]
  <2>1. ops \in [Procs -> {"off", "on", "handed"}]
    BY DEF TypeOK
  <2>2. \/ ops' = ops \/ ops' = [ops EXCEPT ![p] = "off"] \/ StopOps(p)
        \/ proc' = [proc EXCEPT ![p] = "started"]
    BY DEF Receive, StartFrontend, Started, Release, Drain, Exit, StartFails, Ended, Go
  <2>3. QED
    BY <2>1, <2>2 DEF StopOps
<1>4. ops[p] = "on" /\ asked = {} => Probed(p)
  BY DEF MainOK, Probed
<1>5. ASSUME NEW phase \in Phases, proc' = [proc EXCEPT ![p] = phase], phase # "upgrading",
             chan' = chan \/ chan' = [chan EXCEPT ![p].receipt = TRUE]
                \/ (chan' = [chan EXCEPT ![p].ready = TRUE] /\ phase = "serving" /\ chan[p].eof),
             p = 1 /\ phase \in Starts => proc[1] \in Starts,
             ops'[p] = "on" /\ asked = {} => Probed(p)'
      PROVE  MainOK'
  <2>1. \A q \in Procs : q # p => SameFlags(q)
    BY <1>5, OtherFlags, ReadyFlags
  <2>2. /\ chan'[p].eof = chan[p].eof
        /\ chan[p].ready => chan'[p].ready
        /\ chan'[p].ready => chan[p].ready \/ (phase = "serving" /\ chan[p].eof)
    <3>1. CASE chan' = chan \/ chan' = [chan EXCEPT ![p].receipt = TRUE]
      BY <3>1, OtherFlags DEF SameFlags
    <3>2. CASE chan' = [chan EXCEPT ![p].ready = TRUE] /\ phase = "serving" /\ chan[p].eof
      BY <3>2, ReadyFlags, Zenon
    <3>3. QED
      BY <1>5, <3>1, <3>2
  <2>3. Quietly(p, phase)
    BY <1>1, <1>2, <1>5, <2>1, <2>2 DEF Quietly
  <2>4. QED
    BY <2>3, QuietlyKeeps
<1>6. CASE proc' = [proc EXCEPT ![p] = "gone"] /\ ops' = [ops EXCEPT ![p] = "off"] /\ chan' = chan
  <2>1. ops'[p] # "on"
    BY <1>6 DEF TypeOK
  <2>2. QED
    BY <1>5, <1>6, <2>1 DEF Phases, Starts
<1>7. CASE Receive(p) /\ ~chan[p].shut
  <2>1. p # 1 /\ ~Probed(p) /\ ops' = ops /\ proc' = [proc EXCEPT ![p] = "booting"]
        /\ chan' = [chan EXCEPT ![p].receipt = TRUE]
    BY <1>7 DEF Receive, FamilyOK, Probed, Go
  <2>2. QED
    BY <1>4, <1>5, <2>1 DEF Phases
<1>8. CASE StartFrontend(p)
  <2>1. proc' = [proc EXCEPT ![p] = "committed"] /\ proc[p] = "booting" /\ chan' = chan /\ ops' = ops
    BY <1>8, Zenon DEF StartFrontend, Go, exchange
  <2>2. proc'[p] = "committed"
    BY <2>1 DEF HandoverOK
  <2>3. QED
    BY <1>4, <1>5, <2>1, <2>2 DEF Phases, Starts, Probed
<1>9. CASE Started(p)
  <2>1. proc' = [proc EXCEPT ![p] = "started"] /\ proc[p] = "committed" /\ chan' = chan
    BY <1>9, Zenon DEF Started, Go, exchange
  <2>2. proc'[p] = "started"
    BY <2>1 DEF HandoverOK
  <2>3. QED
    BY <1>5, <2>1, <2>2 DEF Phases, Starts, Probed
<1>10. CASE Release(p) /\ ~chan[p].shut
  <2>1. /\ proc' = [proc EXCEPT ![p] = "serving"] /\ proc[p] = "started" /\ parent[p] # None
        /\ chan' = [chan EXCEPT ![p].ready = TRUE]
    BY <1>10 DEF Release, Go
  <2>2. proc'[p] = "serving" /\ chan[p].eof
    BY <2>1 DEF HandoverOK, Past, Phases
  <2>3. QED
    BY <1>5, <2>1, <2>2 DEF Phases, Starts, Probed
<1>11. CASE StopOps(p)
  <2>1. proc' = [proc EXCEPT ![p] = "leaving"] /\ chan' = chan
    BY <1>11 DEF StopOps, Go, exchange
  <2>2. ops'[p] # "on"
    BY <1>11 DEF StopOps, TypeOK
  <2>3. QED
    BY <1>5, <2>1, <2>2 DEF Phases, Starts
<1>12. CASE Drain(p)
  <2>1. proc' = [proc EXCEPT ![p] = "draining"] /\ proc[p] = "leaving" /\ chan' = chan /\ ops' = ops
    BY <1>12 DEF Drain, Go, exchange
  <2>2. QED
    BY <1>4, <1>5, <2>1 DEF Phases, Starts, Probed
<1>13. QED
  BY <1>6, <1>7, <1>8, <1>9, <1>10, <1>11, <1>12
     DEF Receive, Release, Exit, StartFails, Ended, exchange

(* A step of one who has been told to stop, or is told to now.             *)
LEMMA AskedKeeps ==
  ASSUME HandoverOK, FamilyOK, MainOK, asked' # {}, stop' \subseteq asked',
         UNCHANGED <<thread, child, systemd>>,
         \A q \in Procs : chan'[q].ready = chan[q].ready /\ chan'[q].eof = chan[q].eof,
         NEW p \in Procs, NEW phase, proc' = [proc EXCEPT ![p] = phase] \/ proc' = proc,
         phase \in {"leaving", "gone"}
  PROVE  MainOK'
<1>1. /\ \A q \in Procs : proc'[q] = "upgrading" => proc[q] = "upgrading"
      /\ proc'[1] \in Starts => proc[1] \in Starts
  BY ProcsAssumption DEF HandoverOK, Starts
<1>2. ASSUME NEW r \in Procs, proc'[r] = "upgrading", thread'[r] = "ok"
      PROVE  chan'[child'[r]].ready
  <2>1. proc[r] = "upgrading" /\ thread[r] = "ok" /\ child'[r] = child[r]
    BY <1>1, <1>2
  <2>2. child[r] # None
    BY <2>1 DEF FamilyOK
  <2>3. child[r] \in Procs
    BY <2>2 DEF HandoverOK
  <2>4. QED
    BY <2>1, <2>3 DEF MainOK
<1>3. QED
  BY <1>1, <1>2 DEF MainOK, Starts

LEMMA StopsKeepMain ==
  ASSUME TypeOK, HandoverOK, FamilyOK, MainOK, NEW p \in Procs,
         StopSeen(p) \/ Stop(p) \/ AbandonUpgrade(p)
  PROVE  MainOK'
<1>1. UNCHANGED <<thread, child, systemd>>
  BY DEF StopSeen, Stop, AbandonUpgrade, exchange
<1>2. \A q \in Procs : chan'[q].ready = chan[q].ready /\ chan'[q].eof = chan[q].eof
  <2>1. chan' = chan \/ chan' = [chan EXCEPT ![child[p]].shut = TRUE]
    BY DEF StopSeen, Stop, AbandonUpgrade, exchange
  <2>2. QED
    BY <2>1, ShutFlags
<1>3. asked' # {} /\ stop' \subseteq asked'
  <2>1. stop \subseteq asked
    BY DEF MainOK
  <2>2. CASE StopSeen(p) \/ AbandonUpgrade(p)
    <3>1. p \in stop /\ stop' = stop \ {p} /\ asked' = asked
      BY <2>2 DEF StopSeen, AbandonUpgrade
    <3>2. QED
      BY <2>1, <3>1
  <2>3. CASE Stop(p)
    <3>1. asked' = asked \cup {p} /\ (stop' = stop \cup {p} \/ stop' = stop \ {p})
      BY <2>3 DEF Stop, Ended
    <3>2. QED
      BY <2>1, <3>1
  <2>4. QED
    BY <2>2, <2>3
<1>4. \E phase \in {"leaving", "gone"} : proc' = [proc EXCEPT ![p] = phase] \/ proc' = proc
  BY DEF StopSeen, Stop, AbandonUpgrade, Go, Ended
<1>5. QED
  BY <1>1, <1>2, <1>3, <1>4, AskedKeeps

(* A step to a state in which at most the main process is upgrading, with  *)
(* no successor that is being waited for.                                  *)
LEMMA SettledKeeps ==
  ASSUME MainOK, UNCHANGED asked, stop' \subseteq stop,
         proc'[1] \in Starts => systemd' = [main |-> 1, state |-> "starting"],
         \A q \in Procs : chan'[q].ready = chan[q].ready /\ (chan[q].eof => chan'[q].eof),
         \A r \in Procs : proc'[r] = "upgrading" =>
                            thread'[r] \notin {"receipt", "confirmation", "ok"},
         asked = {} =>
           /\ systemd'.state # "starting" => proc'[systemd'.main] \in {"serving", "upgrading"}
           /\ \A r \in Procs : ops'[r] = "on" => Probed(r)'
  PROVE  MainOK'
  BY DEF MainOK, Starts, Probed

LEMMA ReadyKeepsMain ==
  ASSUME TypeOK, HandoverOK, FamilyOK, MainOK, NEW p \in Procs, Ready(p)
  PROVE  MainOK'
<1>1. /\ proc[p] = "started" /\ parent[p] = None /\ proc' = [proc EXCEPT ![p] = "serving"]
      /\ UNCHANGED <<ops, stop, asked, chan, thread, child>>
      /\ systemd' = [systemd EXCEPT !.state = "ready"]
  BY DEF Ready, Go, exchange
<1>2. p = 1
  BY <1>1 DEF FamilyOK
<1>3. systemd = [main |-> 1, state |-> "starting"]
  BY <1>1, <1>2 DEF MainOK
<1>4. systemd' = [main |-> 1, state |-> "ready"]
  BY <1>1, <1>3
<1>5. proc'[1] = "serving" /\ \A q \in Procs : q # 1 => proc'[q] = proc[q]
  BY <1>1, <1>2 DEF HandoverOK
<1>6. \A r \in Procs : proc'[r] # "upgrading"
  BY <1>1, <1>2, <1>3, <1>5 DEF FamilyOK
<1>7. ASSUME asked = {}, NEW r \in Procs, ops'[r] = "on"
      PROVE  Probed(r)'
  <2>1. ops[r] = "on" /\ Probed(r)
    BY <1>1, <1>7 DEF MainOK, Probed
  <2>2. QED
    BY <1>5, <2>1 DEF Probed
<1>8. QED
  BY <1>1, <1>4, <1>5, <1>6, <1>7, SettledKeeps DEF Starts

LEMMA EndsKeepMain ==
  ASSUME TypeOK, HandoverOK, FamilyOK, MainOK, NEW p \in Procs, HandedOver(p) \/ UpgradeFailed(p)
  PROVE  MainOK'
<1> DEFINE q == child[p]
<1>1. /\ proc[p] = "upgrading" /\ UNCHANGED <<ops, stop, asked, child>>
      /\ chan' = [chan EXCEPT ![q].shut = TRUE]
  BY DEF HandedOver, UpgradeFailed
<1>2. systemd.main = p /\ q # None
  BY <1>1 DEF FamilyOK
<1>3. q \in Procs /\ parent[q] = p
  BY <1>2, Zenon DEF HandoverOK
<1>4. q # p
  BY <1>3 DEF FamilyOK
<1>5. \A r \in Procs : chan'[r].ready = chan[r].ready /\ chan'[r].eof = chan[r].eof
  BY <1>1, ShutFlags
<1>6. proc'[p] \in {"replaced", "serving"} /\ \A r \in Procs : r # p => proc'[r] = proc[r]
  BY DEF HandedOver, UpgradeFailed, Go, HandoverOK
<1>7. proc'[1] \notin Starts
  <2>1. proc[1] \notin Starts
    BY <1>1, <1>2 DEF MainOK, Starts
  <2>2. QED
    BY <1>6, <2>1, ProcsAssumption DEF Starts
<1>8. \A r \in Procs : proc'[r] # "upgrading"
  BY <1>2, <1>6 DEF FamilyOK
<1>9. asked = {} => proc'[systemd'.main] \in {"serving", "upgrading"}
  <2>1. CASE HandedOver(p)
    <3>1. systemd'.main = q /\ thread[p] = "ok"
      BY <1>2, <2>1 DEF HandedOver
    <3>2. chan[q].ready
      BY <1>1, <3>1 DEF MainOK
    <3>3. asked = {} => proc[q] = "serving"
      BY <1>1, <3>1, <3>2 DEF MainOK
    <3>4. QED
      BY <1>3, <1>4, <1>6, <3>1, <3>3
  <2>2. CASE UpgradeFailed(p)
    <3>1. systemd'.main = p
      BY <1>2, <2>2 DEF UpgradeFailed, TypeOK
    <3>2. proc'[p] = "serving"
      BY <2>2 DEF UpgradeFailed, Go, HandoverOK
    <3>3. QED
      BY <3>1, <3>2
  <2>3. QED
    BY <2>1, <2>2
<1>10. ASSUME asked = {}, NEW r \in Procs, ops'[r] = "on"
       PROVE  Probed(r)'
  <2>1. ops[r] = "on" /\ Probed(r)
    BY <1>1, <1>10 DEF MainOK, Probed
  <2>2. QED
    BY <1>6, <2>1 DEF Probed
<1>11. QED
  BY <1>1, <1>5, <1>7, <1>8, <1>9, <1>10, SettledKeeps

LEMMA LaunchKeepsMain ==
  ASSUME TypeOK, HandoverOK, FamilyOK, MainOK, NEW p \in Procs, Launch(p) \/ Kill(p)
  PROVE  MainOK'
<1> DEFINE q == child[p]
<1>1. /\ UNCHANGED <<child, chan, systemd, asked>> /\ stop' \subseteq stop
      /\ thread[p] \in {"launching", "killing"}
      /\ thread[p] = "launching" => proc[q] = "none"
  BY DEF Launch, Kill, Untouched, FamilyOK, Ended
<1>2. systemd.main = p /\ q # None
  BY <1>1 DEF FamilyOK, AtWork
<1>3. q \in Procs /\ parent[q] = p
  BY <1>2, Zenon DEF HandoverOK
<1>4. q # p
  BY <1>3 DEF FamilyOK
<1>5. \A r \in Procs : r # q => proc'[r] = proc[r] /\ ops'[r] = ops[r]
  BY <1>3 DEF Launch, Kill, Go, Ended, Untouched, HandoverOK, TypeOK
<1>6. thread'[p] \in {"sending", "failed"} /\ \A r \in Procs : r # p => thread'[r] = thread[r]
  BY DEF Launch, Kill, At, HandoverOK
<1>7. proc'[q] = proc[q] \/ proc'[q] \in {"detached", "gone"}
  BY <1>3 DEF Launch, Kill, Go, Ended, HandoverOK
<1>8. proc'[1] \in Starts => proc[1] \in Starts
  BY <1>5, <1>7, ProcsAssumption DEF Starts
<1>9. ASSUME NEW r \in Procs, proc'[r] = "upgrading"
      PROVE  thread'[r] \notin {"receipt", "confirmation", "ok"}
  <2>1. proc[r] = "upgrading"
    BY <1>5, <1>7, <1>9
  <2>2. r = p
    BY <1>2, <2>1 DEF FamilyOK
  <2>3. QED
    BY <1>6, <2>2
<1>10. ASSUME asked = {}, NEW r \in Procs, ops'[r] = "on"
       PROVE  Probed(r)'
  <2>1. CASE r # q
    <3>1. ops[r] = "on" /\ Probed(r)
      BY <1>5, <1>10, <2>1 DEF MainOK, Probed
    <3>2. QED
      BY <1>5, <2>1, <3>1 DEF Probed
  <2>2. CASE r = q /\ Launch(p)
    <3>1. ops' = ops /\ proc[q] = "none"
      BY <1>1, <2>2 DEF Launch, Untouched
    <3>2. Probed(q)
      BY <1>10, <2>2, <3>1 DEF MainOK, Probed
    <3>3. QED
      BY <3>1, <3>2 DEF Probed, FamilyOK
  <2>3. CASE r = q /\ Kill(p)
    <3>1. CASE Live(q)
      <4>1. ops' = [ops EXCEPT ![q] = "off"]
        BY <2>3, <3>1 DEF Kill, Ended
      <4>2. QED
        BY <1>3, <1>10, <2>3, <4>1 DEF TypeOK
    <3>2. CASE ~Live(q)
      <4>1. ops' = ops /\ proc' = proc
        BY <2>3, <3>2 DEF Kill
      <4>2. QED
        BY <1>10, <4>1 DEF MainOK, Probed
    <3>3. QED
      BY <3>1, <3>2
  <2>4. QED
    BY <2>1, <2>2, <2>3
<1>11. asked = {} /\ systemd'.state # "starting" => proc'[systemd'.main] \in {"serving", "upgrading"}
  BY <1>1, <1>2, <1>4, <1>5 DEF MainOK
<1>12. proc'[1] \in Starts => systemd' = [main |-> 1, state |-> "starting"]
  BY <1>1, <1>8 DEF MainOK, Starts
<1>13. QED
  BY <1>1, <1>9, <1>10, <1>11, <1>12, SettledKeeps, Zenon

LEMMA WaitingKeepsMain ==
  ASSUME TypeOK, HandoverOK, FamilyOK, MainOK, NEW p \in Procs,
         Send(p) \/ Deadline(p) \/ AwaitReceipt(p) \/ AwaitConfirmation(p)
  PROVE  MainOK'
<1> DEFINE q == child[p]
<1>1. /\ UNCHANGED <<proc, child, systemd, ops, stop, asked>> /\ thread[p] \in Waiting
  BY DEF Send, Deadline, AwaitReceipt, AwaitConfirmation, Untouched, Waiting
<1>2. q # None /\ thread[p] \in AtWork
  BY <1>1 DEF FamilyOK, Waiting, AtWork
<1>3. q \in Procs
  BY <1>2 DEF HandoverOK
<1>4. \A r \in Procs : chan'[r].ready = chan[r].ready /\ (chan[r].eof => chan'[r].eof)
  <2>1. CASE chan' = chan
    BY <2>1
  <2>2. CASE chan' = [chan EXCEPT ![q].eof = TRUE]
    BY <1>3, <2>2, EofFlags
  <2>3. ASSUME NEW a, chan' = [chan EXCEPT ![q].sent = @ \cup {a}]
        PROVE  \A r \in Procs : chan'[r].ready = chan[r].ready /\ (chan[r].eof => chan'[r].eof)
    <3>1. PICK v : v = {a}
      BY Zenon
    <3>2. chan' = [chan EXCEPT ![q].sent = @ \cup v]
      BY <2>3, <3>1
    <3>3. QED
      BY <1>3, <3>2, OtherFlags DEF SameFlags
  <2>4. QED
    BY <2>1, <2>2, <2>3, Zenon DEF Send, Deadline, AwaitReceipt, AwaitConfirmation
<1>5. \A r \in Procs : r # p => thread'[r] = thread[r]
  BY DEF Send, Deadline, AwaitReceipt, AwaitConfirmation, At, HandoverOK
<1>6. thread'[p] = "ok" => chan[q].ready
  BY <1>1 DEF Send, Deadline, AwaitReceipt, AwaitConfirmation, At, HandoverOK, Waiting
<1>7. thread'[p] \in {"receipt", "confirmation", "ok"} =>
        thread[p] \in {"receipt", "confirmation"} \/ ~chan[q].ready
  <2>1. thread[p] = "sending" => ~chan[q].ready
    BY <1>3, Zenon DEF HandoverOK, MainOK
  <2>2. QED
    BY <1>1, <2>1 DEF Waiting
<1>8. ASSUME NEW r \in Procs, proc[r] = "upgrading"
      PROVE  /\ child[r] \in Procs /\ r = p
  <2>1. r = systemd.main /\ child[r] # None
    BY <1>8 DEF FamilyOK
  <2>2. child[r] \in Procs
    BY <2>1 DEF HandoverOK
  <2>3. QED
    BY <1>2, <2>1, <2>2 DEF FamilyOK
<1>9. ASSUME NEW r \in Procs, proc'[r] = "upgrading", thread'[r] = "ok"
      PROVE  chan'[child'[r]].ready
  BY <1>1, <1>3, <1>4, <1>6, <1>8, <1>9, Zenon
<1>10. ASSUME asked' = {}, NEW r \in Procs, proc'[r] = "upgrading",
              thread'[r] \in {"receipt", "confirmation", "ok"}, chan'[child'[r]].ready
       PROVE  proc'[child'[r]] = "serving"
  <2>1. r = p /\ proc[p] = "upgrading" /\ chan[q].ready /\ asked = {}
    BY <1>1, <1>3, <1>4, <1>8, <1>10
  <2>2. thread[p] \in {"receipt", "confirmation"}
    BY <1>7, <1>10, <2>1
  <2>3. proc[q] = "serving"
    BY <2>1, <2>2 DEF MainOK
  <2>4. QED
    BY <1>1, <2>1, <2>3
<1>11. \A r \in Procs : chan'[r].ready => chan'[r].eof
  BY <1>4, Zenon DEF MainOK
<1>12. QED
  BY <1>1, <1>9, <1>10, <1>11 DEF MainOK

LEMMA RequestKeepsMain ==
  ASSUME TypeOK, HandoverOK, FamilyOK, MainOK, NEW p \in Procs, UpgradeRequested(p)
  PROVE  MainOK'
<1>1. PICK q \in Procs : chan' = [chan EXCEPT ![q].handed = bound[p]]
  BY Zenon DEF UpgradeRequested
<1>2. /\ proc' = [proc EXCEPT ![p] = "upgrading"] /\ proc[p] = "serving" /\ systemd.main = p
      /\ thread' = [thread EXCEPT ![p] = "launching"] /\ UNCHANGED <<ops, stop, asked>>
  BY DEF UpgradeRequested, Go
<1>3. systemd'.main = p
  <2>1. systemd' = [systemd EXCEPT !.state = "reloading"]
    BY <1>2 DEF UpgradeRequested
  <2>2. QED
    BY <1>2, <2>1 DEF TypeOK
<1>4. /\ proc'[p] = "upgrading" /\ \A r \in Procs : r # p => proc'[r] = proc[r]
      /\ thread'[p] = "launching"
  BY <1>2 DEF HandoverOK
<1>5. \A r \in Procs : chan'[r].ready = chan[r].ready /\ (chan[r].eof => chan'[r].eof)
  BY <1>1, OtherFlags DEF SameFlags
<1>6. proc'[1] \notin Starts
  <2>1. proc[1] \notin Starts
    BY <1>2 DEF MainOK, Starts
  <2>2. QED
    BY <1>4, <2>1, ProcsAssumption DEF Starts
<1>7. \A r \in Procs : proc'[r] = "upgrading" => thread'[r] \notin {"receipt", "confirmation", "ok"}
  BY <1>2, <1>4 DEF FamilyOK
<1>8. ASSUME asked = {}, NEW r \in Procs, ops'[r] = "on"
      PROVE  Probed(r)'
  <2>1. ops[r] = "on" /\ Probed(r)
    BY <1>2, <1>8 DEF MainOK, Probed
  <2>2. QED
    BY <1>4, <2>1 DEF Probed
<1>9. proc'[systemd'.main] \in {"serving", "upgrading"}
  BY <1>3, <1>4
<1>10. QED
  BY <1>2, <1>5, <1>6, <1>7, <1>8, <1>9, SettledKeeps

-----------------------------------------------------------------------------
(* What a process that accepts listens on.                                 *)
LEMMA CoreIsConfigured ==
  ASSUME NEW v \in Versions
  PROVE  Core \subseteq Config[v] /\ Config[v] \subseteq Addrs
  BY DEF Core, Addrs, Versions

Accepts == {"committed", "started", "serving", "upgrading", "replaced", "leaving"}

LEMMA BoundIsKept ==
  ASSUME TypeOK, HandoverOK, BoundOK, [Next]_vars
  PROVE  BoundOK'
<1>1. ASSUME NEW p \in Procs, NEW phase, proc' = [proc EXCEPT ![p] = phase],
             phase \in Accepts => proc[p] \in Accepts, bound' = bound
      PROVE  BoundOK'
  BY <1>1 DEF BoundOK, Accepting, Accepts, HandoverOK
<1>2. ASSUME NEW p \in Procs, NEW phase, proc' = [proc EXCEPT ![p] = phase],
             phase \notin Accepts, NEW w, bound' = [bound EXCEPT ![p] = w]
      PROVE  BoundOK'
  <2>1. bound \in [Procs -> SUBSET Addrs] /\ proc \in [Procs -> Phases]
    BY DEF TypeOK
  <2>2. QED
    BY <1>2, <2>1 DEF BoundOK, Accepting, Accepts
<1>3. ASSUME NEW p \in Procs, bound' = [bound EXCEPT ![p] = Config[deployed]],
             \A r \in Procs : r # p => proc'[r] = proc[r]
      PROVE  BoundOK'
  <2>1. bound \in [Procs -> SUBSET Addrs] /\ deployed \in Versions
    BY DEF TypeOK
  <2>2. Core \subseteq Config[deployed]
    BY <2>1, CoreIsConfigured
  <2>3. QED
    BY <1>3, <2>1, <2>2 DEF BoundOK, Accepting
<1>4. CASE UNCHANGED <<proc, bound>>
  BY <1>4 DEF BoundOK, Accepting
<1>5. ASSUME NEW p \in Procs, Main(p) \/ StartFails(p) \/ Stop(p) \/ UpgradeRequested(p)
      PROVE  BoundOK'
  <2>1. CASE Receive(p) \/ Release(p) \/ Exit(p) \/ StartFails(p) \/ Stop(p) \/ Drain(p)
    BY <1>1, <1>2, <1>4, <2>1, Zenon DEF Receive, Release, Exit, StartFails, Stop, Drain, Go, Ended, Accepts
  <2>2. CASE StartFrontend(p)
    BY <1>3, <2>2, Zenon DEF StartFrontend, Go, HandoverOK
  <2>3. CASE \/ Started(p) \/ Ready(p) \/ StopSeen(p) \/ HandedOver(p) \/ UpgradeFailed(p)
             \/ AbandonUpgrade(p) \/ StopOps(p) \/ UpgradeRequested(p)
    BY <1>1, <2>3 DEF Started, Ready, StopSeen, HandedOver, UpgradeFailed, AbandonUpgrade, StopOps,
                      UpgradeRequested, Go, Accepts
  <2>4. QED
    BY <1>5, <2>1, <2>2, <2>3 DEF Main
<1>6. ASSUME NEW p \in Procs, Thread(p)
      PROVE  BoundOK'
  <2>1. CASE Launch(p)
    <3>1. bound' = bound /\ \E phase \in {"detached", "gone"} : proc' = [proc EXCEPT ![child[p]] = phase]
      BY <2>1, Zenon DEF Launch, Go, Untouched
    <3>2. QED
      BY <3>1 DEF BoundOK, Accepting, HandoverOK
  <2>2. CASE Kill(p)
    <3>1. CASE Live(child[p])
      <4>1. bound' = [bound EXCEPT ![child[p]] = {}] /\ proc' = [proc EXCEPT ![child[p]] = "gone"]
        BY <2>2, <3>1 DEF Kill, Ended
      <4>2. bound \in [Procs -> SUBSET Addrs] /\ proc \in [Procs -> Phases]
        BY DEF TypeOK
      <4>3. QED
        BY <4>1, <4>2 DEF BoundOK, Accepting
    <3>2. CASE ~Live(child[p])
      BY <1>4, <2>2, <3>2 DEF Kill
    <3>3. QED
      BY <3>1, <3>2
  <2>3. CASE Send(p) \/ Deadline(p) \/ AwaitReceipt(p) \/ AwaitConfirmation(p)
    BY <1>4, <2>3 DEF Send, Deadline, AwaitReceipt, AwaitConfirmation, Untouched
  <2>4. QED
    BY <1>6, <2>1, <2>2, <2>3 DEF Thread
<1>7. ASSUME NEW p \in Procs, ApplyConfig(p) \/ WriteCache(p)
      PROVE  BoundOK'
  BY <1>3, <1>4, <1>7 DEF ApplyConfig, WriteCache, process
<1>8. CASE ChangeConfig \/ UNCHANGED vars
  BY <1>4, <1>8 DEF ChangeConfig, process, vars
<1>9. QED
  BY <1>5, <1>6, <1>7, <1>8 DEF Next

-----------------------------------------------------------------------------
(* Types, of the processes, of the exchanges and of the rest.              *)
ProcessTypes ==
  /\ inherited \in [Procs -> SUBSET Addrs] /\ bound \in [Procs -> SUBSET Addrs]
  /\ ops \in [Procs -> {"off", "on", "handed"}] /\ reports \subseteq Procs
  /\ stop \subseteq Procs

ExchangeTypes ==
  /\ abandoned \subseteq Procs /\ due \subseteq {p \in Procs : thread[p] # "idle"}
  /\ chan \in [Procs -> Exchanges]

OtherTypes ==
  /\ systemd \in [main : Procs, state : {"starting", "ready", "reloading"}]
  /\ deployed \in Versions /\ events \in 0..MaxEvents
  /\ tmp \in Contents \cup {None} /\ cache \in Contents \cup {None}
  /\ fd \in [Procs -> [on : {"closed", "due", "tmp", "written", "cache", "orphan"}, version : Versions]]
  /\ asked \subseteq Procs /\ unheard \subseteq Procs

LEMMA TypesOfParts ==
  TypeOK => ProcessTypes /\ ExchangeTypes /\ OtherTypes
  BY DEF TypeOK, ProcessTypes, ExchangeTypes, OtherTypes

LEMMA PartsOfTypes ==
  HandoverOK /\ ProcessTypes /\ ExchangeTypes /\ OtherTypes => TypeOK
  BY Zenon DEF TypeOK, ProcessTypes, ExchangeTypes, OtherTypes, HandoverOK, Threads

LEMMA PartsOfTypesNext ==
  ASSUME HandoverOK', ProcessTypes', ExchangeTypes', OtherTypes'
  PROVE  TypeOK'
  BY PartsOfTypes, PTL

LEMMA ProcessTypesKept ==
  ASSUME TypeOK, [Next]_vars
  PROVE  ProcessTypes'
<1>0. ProcessTypes /\ (\A q \in Procs : chan[q].sent \subseteq Addrs) /\ deployed \in Versions
  BY TypesOfParts DEF ExchangeTypes, OtherTypes, Exchanges
<1>1. CASE UNCHANGED <<inherited, bound, ops, reports, stop>>
  BY <1>0, <1>1 DEF ProcessTypes
<1>2. ASSUME NEW p, Ended(p)
      PROVE  ProcessTypes'
  BY <1>0, <1>2, Zenon DEF ProcessTypes, Ended
<1>3. ASSUME NEW p \in Procs, Main(p)
      PROVE  ProcessTypes'
  <2>1. CASE Receive(p)
    BY <1>0, <1>2, <2>1 DEF Receive, ProcessTypes
  <2>2. CASE StartFrontend(p)
    <3>1. Config[deployed] \subseteq Addrs
      BY <1>0, CoreIsConfigured
    <3>2. QED
      BY <1>0, <2>2, <3>1, Zenon DEF StartFrontend, ProcessTypes
  <2>3. CASE Started(p)
    BY <1>0, <2>3, Zenon DEF Started, ProcessTypes
  <2>4. CASE Release(p) \/ Ready(p)
    BY <1>1, <1>2, <2>4 DEF Release, Ready
  <2>5. CASE StopSeen(p) \/ AbandonUpgrade(p)
    BY <1>0, <2>5 DEF StopSeen, AbandonUpgrade, ProcessTypes
  <2>6. CASE HandedOver(p) \/ UpgradeFailed(p)
    BY <1>1, <2>6 DEF HandedOver, UpgradeFailed
  <2>7. CASE StopOps(p)
    BY <1>0, <2>7 DEF StopOps, ProcessTypes
  <2>8. CASE Drain(p)
    BY <1>0, <2>8 DEF Drain, ProcessTypes
  <2>9. CASE Exit(p)
    BY <1>2, <2>9 DEF Exit
  <2>10. QED
    BY <1>3, <2>1, <2>2, <2>3, <2>4, <2>5, <2>6, <2>7, <2>8, <2>9 DEF Main
<1>4. ASSUME NEW p \in Procs, Thread(p)
      PROVE  ProcessTypes'
  BY <1>1, <1>2, <1>4 DEF Thread, Launch, Send, Deadline, AwaitReceipt, AwaitConfirmation, Kill, Untouched
<1>5. ASSUME NEW p \in Procs, StartFails(p) \/ Stop(p) \/ UpgradeRequested(p)
      PROVE  ProcessTypes'
  <2>1. CASE StartFails(p) \/ UpgradeRequested(p)
    BY <1>1, <1>2, <2>1 DEF StartFails, UpgradeRequested
  <2>2. CASE Stop(p)
    BY <1>0, <1>2, <2>2 DEF Stop, ProcessTypes
  <2>3. QED
    BY <1>5, <2>1, <2>2
<1>6. ASSUME NEW p \in Procs, ApplyConfig(p)
      PROVE  ProcessTypes'
  <2>1. Config[deployed] \subseteq Addrs
    BY <1>0, CoreIsConfigured
  <2>2. QED
    BY <1>0, <1>6, <2>1, Zenon DEF ApplyConfig, ProcessTypes
<1>7. ASSUME NEW p \in Procs, WriteCache(p)
      PROVE  ProcessTypes'
  BY <1>1, <1>7 DEF WriteCache, process
<1>8. CASE ChangeConfig \/ UNCHANGED vars
  BY <1>1, <1>8 DEF ChangeConfig, process, vars
<1>9. QED
  BY <1>3, <1>4, <1>5, <1>6, <1>7, <1>8 DEF Next

LEMMA ExchangeOf ==
  ASSUME NEW x \in Exchanges, NEW y,
         \/ \E v \in SUBSET Addrs : y = [x EXCEPT !.handed = v] \/ y = [x EXCEPT !.sent = v]
         \/ y = [x EXCEPT !.eof = TRUE] \/ y = [x EXCEPT !.receipt = TRUE]
         \/ y = [x EXCEPT !.ready = TRUE] \/ y = [x EXCEPT !.shut = TRUE]
  PROVE  y \in Exchanges
  BY Zenon DEF Exchanges

LEMMA ChanTyped ==
  ASSUME ExchangeTypes, NEW q,
         \/ \E v \in SUBSET Addrs : chan' = [chan EXCEPT ![q].handed = v]
         \/ \E a \in Addrs : chan' = [chan EXCEPT ![q].sent = @ \cup {a}]
         \/ chan' = [chan EXCEPT ![q].eof = TRUE] \/ chan' = [chan EXCEPT ![q].receipt = TRUE]
         \/ chan' = [chan EXCEPT ![q].ready = TRUE] \/ chan' = [chan EXCEPT ![q].shut = TRUE]
         \/ chan' = chan
  PROVE  chan' \in [Procs -> Exchanges]
<1>1. chan \in [Procs -> Exchanges]
  BY DEF ExchangeTypes
<1>2. CASE q \notin Procs
  BY <1>1, <1>2
<1>3. CASE q \in Procs
  <2>1. PICK y : chan' = [chan EXCEPT ![q] = y] /\
          (\/ \E v \in SUBSET Addrs : y = [chan[q] EXCEPT !.handed = v]
           \/ \E a \in Addrs : y = [chan[q] EXCEPT !.sent = @ \cup {a}]
           \/ y = [chan[q] EXCEPT !.eof = TRUE] \/ y = [chan[q] EXCEPT !.receipt = TRUE]
           \/ y = [chan[q] EXCEPT !.ready = TRUE] \/ y = [chan[q] EXCEPT !.shut = TRUE]
           \/ y = chan[q])
    BY <1>1, <1>3
  <2>2. chan[q] \in Exchanges /\ chan[q].sent \subseteq Addrs
    BY <1>1, <1>3 DEF Exchanges
  <2>3. y \in Exchanges
    BY <2>1, <2>2, ExchangeOf, Zenon
  <2>4. QED
    BY <1>1, <1>3, <2>1, <2>3
<1>4. QED
  BY <1>2, <1>3

LEMMA ExchangeTypesKept ==
  ASSUME TypeOK, HandoverOK, [Next]_vars
  PROVE  ExchangeTypes'
<1>0. /\ ExchangeTypes /\ thread \in [Procs -> Threads]
      /\ \A q \in Procs : chan[q].handed \subseteq Addrs /\ bound[q] \subseteq Addrs
  BY TypesOfParts DEF ExchangeTypes, ProcessTypes, HandoverOK, Exchanges
<1>1. ASSUME chan' \in [Procs -> Exchanges], abandoned' \subseteq Procs, due' \subseteq due,
             \/ thread' = thread
             \/ \E p, t : thread' = [thread EXCEPT ![p] = t] /\ (t # "idle" \/ due' = due \ {p})
      PROVE  ExchangeTypes'
  BY <1>0, <1>1 DEF ExchangeTypes
<1>2. CASE UNCHANGED <<thread, chan, due, abandoned>>
  BY <1>0, <1>1, <1>2 DEF ExchangeTypes
<1>3. ASSUME NEW p \in Procs, Main(p)
      PROVE  ExchangeTypes'
  <2>1. chan' \in [Procs -> Exchanges]
    <3>1. \/ chan' = chan \/ chan' = [chan EXCEPT ![p].receipt = TRUE]
          \/ chan' = [chan EXCEPT ![p].ready = TRUE] \/ chan' = [chan EXCEPT ![child[p]].shut = TRUE]
      BY <1>3 DEF Main, Receive, StartFrontend, Started, Ready, Release, StopSeen, HandedOver,
                  UpgradeFailed, AbandonUpgrade, StopOps, Drain, Exit, exchange
    <3>2. QED
      BY <1>0, <3>1, ChanTyped
  <2>2. abandoned' \subseteq Procs
    <3>1. abandoned' = abandoned \/ abandoned' = abandoned \cup {p}
      BY <1>3 DEF Main, Receive, StartFrontend, Started, Ready, Release, StopSeen, HandedOver,
                  UpgradeFailed, AbandonUpgrade, StopOps, Drain, Exit, exchange
    <3>2. QED
      BY <1>0, <3>1 DEF ExchangeTypes
  <2>3. \/ thread' = thread /\ due' = due
        \/ thread' = [thread EXCEPT ![p] = "idle"] /\ due' = due \ {p}
    BY <1>3 DEF Main, Receive, StartFrontend, Started, Ready, Release, StopSeen, HandedOver,
                UpgradeFailed, AbandonUpgrade, StopOps, Drain, Exit, exchange
  <2>4. QED
    BY <1>1, <2>1, <2>2, <2>3
<1>4. ASSUME NEW p \in Procs, Thread(p)
      PROVE  ExchangeTypes'
  <2>1. CASE Deadline(p)
    <3>1. thread[p] # "idle" /\ due' = due \cup {p} /\ UNCHANGED <<thread, chan, abandoned>>
      BY <2>1 DEF Deadline, Waiting, Untouched
    <3>2. QED
      BY <1>0, <3>1 DEF ExchangeTypes
  <2>2. CASE Send(p)
    <3>1. abandoned' = abandoned /\ due' = due
      BY <2>2 DEF Send, Untouched
    <3>2. \/ chan' = chan \/ chan' = [chan EXCEPT ![child[p]].eof = TRUE]
          \/ \E a \in chan[child[p]].handed : chan' = [chan EXCEPT ![child[p]].sent = @ \cup {a}]
      BY <2>2 DEF Send
    <3>3. child[p] \in Procs
      BY <2>2 DEF Send, HandoverOK
    <3>4. chan' \in [Procs -> Exchanges]
      BY <1>0, <3>2, <3>3, ChanTyped, Zenon
    <3>5. thread' = thread \/ \E t \in {"failed", "receipt"} : thread' = [thread EXCEPT ![p] = t]
      BY <2>2 DEF Send, At
    <3>6. QED
      BY <1>0, <1>1, <3>1, <3>4, <3>5 DEF ExchangeTypes
  <2>3. CASE Launch(p) \/ AwaitReceipt(p) \/ AwaitConfirmation(p) \/ Kill(p)
    <3>1. abandoned' = abandoned /\ due' = due /\ chan' = chan
      BY <2>3 DEF Launch, AwaitReceipt, AwaitConfirmation, Kill, Untouched
    <3>2. \E t \in {"sending", "failed", "confirmation", "killing", "ok"} :
            thread' = [thread EXCEPT ![p] = t]
      BY <2>3 DEF Launch, AwaitReceipt, AwaitConfirmation, Kill, At
    <3>3. QED
      BY <1>0, <1>1, <3>1, <3>2 DEF ExchangeTypes
  <2>4. QED
    BY <1>4, <2>1, <2>2, <2>3 DEF Thread
<1>5. ASSUME NEW p \in Procs, UpgradeRequested(p)
      PROVE  ExchangeTypes'
  <2>1. chan' \in [Procs -> Exchanges]
    <3>1. PICK q \in Procs : chan' = [chan EXCEPT ![q].handed = bound[p]]
      BY <1>5, Zenon DEF UpgradeRequested
    <3>2. \E v \in SUBSET Addrs : chan' = [chan EXCEPT ![q].handed = v]
      BY <1>0, <3>1, Zenon
    <3>3. QED
      BY <1>0, <3>2, ChanTyped, Zenon
  <2>2. thread' = [thread EXCEPT ![p] = "launching"] /\ abandoned' = abandoned /\ due' = due
    BY <1>5 DEF UpgradeRequested
  <2>3. QED
    BY <1>0, <1>1, <2>1, <2>2 DEF ExchangeTypes
<1>6. ASSUME NEW p \in Procs, StartFails(p) \/ Stop(p) \/ ApplyConfig(p) \/ WriteCache(p)
      PROVE  ExchangeTypes'
  BY <1>2, <1>6 DEF StartFails, Stop, ApplyConfig, WriteCache, exchange
<1>7. CASE ChangeConfig \/ UNCHANGED vars
  BY <1>2, <1>7 DEF ChangeConfig, vars, exchange
<1>8. QED
  BY <1>3, <1>4, <1>5, <1>6, <1>7 DEF Next

FdOn == {"closed", "due", "tmp", "written", "cache", "orphan"}

LEMMA FdTyped ==
  ASSUME OtherTypes, NEW p,
         \/ \E x \in FdOn : fd' = [fd EXCEPT ![p].on = x]
         \/ fd' = [fd EXCEPT ![p] = [on |-> "due", version |-> deployed]]
         \/ fd' = fd
  PROVE  fd' \in [Procs -> [on : FdOn, version : Versions]]
  BY DEF OtherTypes, FdOn

LEMMA OtherTypesKept ==
  ASSUME TypeOK, HandoverOK, FamilyOK, [Next]_vars
  PROVE  OtherTypes'
<1>0. OtherTypes
  BY TypesOfParts
<1>1. ASSUME UNCHANGED <<tmp, cache, fd>>,
             deployed' \in Versions,
             events' = events \/ (events > 0 /\ events' = events - 1),
             systemd' \in [main : Procs, state : {"starting", "ready", "reloading"}],
             asked' \subseteq Procs, unheard' \subseteq Procs
      PROVE  OtherTypes'
  <2>1. events' \in 0..MaxEvents
    BY <1>0, <1>1, MaxEventsAssumption DEF OtherTypes
  <2>2. QED
    BY <1>0, <1>1, <2>1 DEF OtherTypes
<1>2. ASSUME NEW p \in Procs, Main(p), ~StartFrontend(p)
      PROVE  OtherTypes'
  <2>1. UNCHANGED <<tmp, cache, fd, deployed, events, asked, unheard>>
    BY <1>2 DEF Main, Receive, Started, Ready, Release, StopSeen, HandedOver,
                UpgradeFailed, AbandonUpgrade, StopOps, Drain, Exit, files
  <2>2. \/ systemd' = systemd \/ HandedOver(p)
        \/ \E x \in {"ready", "reloading"} : systemd' = [systemd EXCEPT !.state = x]
    <3>1. CASE UpgradeFailed(p)
      <4>1. systemd' = [systemd EXCEPT !.state = IF systemd.main = p THEN "ready" ELSE @]
        BY <3>1 DEF UpgradeFailed
      <4>2. systemd.main = p
        BY <3>1 DEF UpgradeFailed, FamilyOK
      <4>3. QED
        BY <4>1, <4>2
    <3>2. QED
      BY <1>2, <3>1 DEF Main, Receive, Started, Ready, Release, StopSeen, AbandonUpgrade, StopOps, Drain, Exit
  <2>3. systemd' \in [main : Procs, state : {"starting", "ready", "reloading"}]
    <3>1. CASE HandedOver(p)
      <4>1. child[p] # None
        BY <3>1 DEF HandedOver, FamilyOK
      <4>2. child[p] \in Procs
        BY <4>1 DEF HandoverOK
      <4>3. QED
        BY <1>0, <3>1, <4>2 DEF HandedOver, OtherTypes
    <3>2. QED
      BY <1>0, <2>2, <3>1 DEF OtherTypes
  <2>4. QED
    BY <1>0, <1>1, <2>1, <2>3 DEF OtherTypes
<1>3. ASSUME NEW p \in Procs, StartFrontend(p) \/ ApplyConfig(p) \/ Kill(p)
      PROVE  OtherTypes'
  <2>1. UNCHANGED <<tmp, cache, deployed, events, asked, unheard, systemd>>
    BY <1>3 DEF StartFrontend, ApplyConfig, Kill
  <2>2. \/ fd' = [fd EXCEPT ![p] = [on |-> "due", version |-> deployed]]
        \/ fd' = [fd EXCEPT ![child[p]].on = "closed"]
    BY <1>3 DEF StartFrontend, ApplyConfig, Kill
  <2>3. fd' \in [Procs -> [on : FdOn, version : Versions]]
    BY <1>0, <2>2, FdTyped DEF FdOn
  <2>4. QED
    BY <1>0, <2>1, <2>3 DEF OtherTypes, FdOn
<1>4. ASSUME NEW p \in Procs, Launch(p) \/ Send(p) \/ Deadline(p) \/ AwaitReceipt(p) \/ AwaitConfirmation(p)
      PROVE  OtherTypes'
  <2>1. UNCHANGED <<tmp, cache, fd, deployed, events, asked, systemd>>
    BY <1>4 DEF Launch, Send, Deadline, AwaitReceipt, AwaitConfirmation, Untouched, files
  <2>2. unheard' \subseteq Procs
    <3>1. CASE AwaitReceipt(p)
      <4>1. child[p] # None /\ (unheard' = unheard \/ unheard' = unheard \cup {child[p]})
        BY <3>1 DEF AwaitReceipt, FamilyOK
      <4>2. child[p] \in Procs
        BY <4>1 DEF HandoverOK
      <4>3. QED
        BY <1>0, <4>1, <4>2 DEF OtherTypes
    <3>2. CASE unheard' = unheard
      BY <1>0, <3>2 DEF OtherTypes
    <3>3. QED
      BY <1>4, <3>1, <3>2 DEF Launch, Send, Deadline, AwaitConfirmation
  <2>3. QED
    BY <1>0, <1>1, <2>1, <2>2 DEF OtherTypes
<1>5. ASSUME NEW p \in Procs, StartFails(p) \/ Stop(p)
      PROVE  OtherTypes'
  <2>1. UNCHANGED <<tmp, cache, fd, deployed, systemd, unheard>>
    BY <1>5, Zenon DEF StartFails, Stop, files
  <2>2. /\ events' = events \/ (events > 0 /\ events' = events - 1)
        /\ asked' = asked \/ asked' = asked \cup {p}
    BY <1>5 DEF StartFails, Stop
  <2>3. QED
    BY <1>0, <1>1, <2>1, <2>2 DEF OtherTypes
<1>6. ASSUME NEW p \in Procs, UpgradeRequested(p)
      PROVE  OtherTypes'
  <2>1. /\ UNCHANGED <<tmp, cache, fd, deployed, asked, unheard>>
        /\ events > 0 /\ events' = events - 1
        /\ systemd' = [systemd EXCEPT !.state = "reloading"]
    BY <1>6 DEF UpgradeRequested, files
  <2>2. systemd' \in [main : Procs, state : {"starting", "ready", "reloading"}]
    BY <1>0, <2>1 DEF OtherTypes
  <2>3. QED
    BY <1>0, <1>1, <2>1, <2>2 DEF OtherTypes
<1>7. ASSUME NEW p \in Procs, WriteCache(p)
      PROVE  OtherTypes'
  <2>1. UNCHANGED <<deployed, events, asked, unheard, systemd>>
    BY <1>7 DEF WriteCache
  <2>2. fd[p].version \in Contents /\ "empty" \in Contents /\ "half" \in Contents
    BY <1>0 DEF OtherTypes, Contents
  <2>3. tmp' \in Contents \cup {None} /\ cache' \in Contents \cup {None}
    <3>1. /\ tmp' = tmp \/ tmp' \in {fd[p].version, "half", "empty", None}
          /\ cache' = cache \/ cache' \in {fd[p].version, "half", tmp}
      BY <1>7 DEF WriteCache
    <3>2. tmp \in Contents \cup {None} /\ cache \in Contents \cup {None}
      BY <1>0 DEF OtherTypes
    <3>3. QED
      BY <2>2, <3>1, <3>2
  <2>4. fd' \in [Procs -> [on : FdOn, version : Versions]]
    <3>1. CASE \E x \in FdOn : fd' = [fd EXCEPT ![p].on = x]
      BY <1>0, <3>1, FdTyped, Zenon
    <3>2. CASE fd' = [q \in Procs |-> [fd[q] EXCEPT !.on =
                        CASE q = p -> "closed"
                          [] q # p /\ @ = "tmp" -> "cache"
                          [] q # p /\ @ = "cache" -> "orphan"
                          [] OTHER -> @]]
      <4>1. ASSUME NEW q \in Procs
            PROVE  fd'[q] \in [on : FdOn, version : Versions]
        <5>1. PICK x : x = CASE q = p -> "closed"
                             [] q # p /\ fd[q].on = "tmp" -> "cache"
                             [] q # p /\ fd[q].on = "cache" -> "orphan"
                             [] OTHER -> fd[q].on
          OBVIOUS
        <5>2. fd[q] \in [on : FdOn, version : Versions]
          BY <1>0 DEF OtherTypes, FdOn
        <5>3. x \in FdOn
          BY <5>1, <5>2 DEF FdOn
        <5>4. fd'[q] = [fd[q] EXCEPT !.on = x]
          BY <3>2, <5>1
        <5>5. QED
          BY <5>2, <5>3, <5>4
      <4>2. QED
        BY <3>2, <4>1
    <3>3. QED
      BY <1>7, <3>1, <3>2 DEF WriteCache, FdOn
  <2>5. QED
    BY <1>0, <2>1, <2>3, <2>4 DEF OtherTypes, FdOn
<1>8. CASE ChangeConfig
  BY <1>0, <1>1, <1>8 DEF ChangeConfig, OtherTypes, files
<1>9. CASE UNCHANGED vars
  BY <1>0, <1>1, <1>9 DEF vars, OtherTypes, files
<1>10. QED
  BY <1>2, <1>3, <1>4, <1>5, <1>6, <1>7, <1>8, <1>9 DEF Next, Thread, Main

-----------------------------------------------------------------------------
LEMMA UpgradeInit == Init => UpgradeOK
<1> SUFFICES ASSUME Init PROVE UpgradeOK
  OBVIOUS
<1>1. HandoverOK
  BY HandoverInit
<1>2. ProcessTypes
  BY DEF Init, ProcessTypes
<1>3. ExchangeTypes
  BY Zenon DEF Init, ExchangeTypes, Exchanges
<1>4. OtherTypes
  <2>1. systemd \in [main : Procs, state : {"starting", "ready", "reloading"}]
    BY ProcsAssumption DEF Init
  <2>2. events \in 0..MaxEvents
    BY MaxEventsAssumption DEF Init
  <2>3. QED
    BY <2>1, <2>2 DEF Init, OtherTypes
<1>5. /\ systemd = [main |-> 1, state |-> "starting"] /\ 1 \in Procs /\ proc[1] = "booting"
      /\ \A p \in Procs : /\ thread[p] = "idle" /\ parent[p] = None /\ child[p] = None
                          /\ ~chan[p].shut /\ ~chan[p].ready /\ ~chan[p].eof
                          /\ p # 1 => proc[p] = "none" /\ ops[p] = "off"
  BY ProcsAssumption DEF Init
<1>6. FamilyOK
  BY <1>5, ProcsAssumption DEF FamilyOK, AtWork, Waiting
<1>7. LineOK
  BY <1>5 DEF LineOK, Fresh
<1>8. MainOK
  <2>1. stop \subseteq asked
    BY DEF Init
  <2>2. \A p \in Procs : proc[p] # "upgrading"
    BY <1>5
  <2>3. QED
    BY <1>5, <2>1, <2>2 DEF MainOK
<1>9. BoundOK
  BY <1>5 DEF BoundOK, Accepting
<1>10. QED
  BY <1>1, <1>2, <1>3, <1>4, <1>6, <1>7, <1>8, <1>9, PartsOfTypes DEF UpgradeOK

LEMMA LineIsKept ==
  ASSUME UpgradeOK, [Next]_vars
  PROVE  FamilyOK' /\ LineOK'
<1>0. TypeOK /\ HandoverOK /\ FamilyOK /\ LineOK /\ systemd.main \in Procs
  BY DEF UpgradeOK, TypeOK
<1>1. ASSUME NEW p \in Procs, Main(p) \/ StartFails(p)
      PROVE  FamilyOK' /\ LineOK'
  BY <1>0, <1>1, ProcessSteps, StepsOnKeeps, EndsKeepLine DEF Main
<1>2. ASSUME NEW p \in Procs, Thread(p)
      PROVE  FamilyOK' /\ LineOK'
  BY <1>0, <1>2, WaitingKeepsLine, LaunchKeepsLine DEF Thread
<1>3. ASSUME NEW p \in Procs, Stop(p) \/ UpgradeRequested(p)
      PROVE  FamilyOK' /\ LineOK'
  BY <1>0, <1>3, StopSteps, RequestKeepsLine
<1>4. ASSUME NEW p \in Procs, ApplyConfig(p) \/ WriteCache(p)
      PROVE  FamilyOK' /\ LineOK'
  BY <1>0, <1>4, OthersStepsKeep DEF ApplyConfig, WriteCache, process, exchange
<1>5. CASE ChangeConfig \/ UNCHANGED vars
  BY <1>0, <1>5, OthersStepsKeep DEF ChangeConfig, vars, process, exchange
<1>6. QED
  BY <1>1, <1>2, <1>3, <1>4, <1>5 DEF Next

LEMMA MainIsKept ==
  ASSUME UpgradeOK, [Next]_vars
  PROVE  MainOK'
<1>0. TypeOK /\ HandoverOK /\ FamilyOK /\ MainOK
  BY DEF UpgradeOK
<1>1. CASE UNCHANGED <<proc, thread, child, chan, systemd, stop, asked, ops>>
  BY <1>0, <1>1 DEF MainOK
<1>2. ASSUME NEW p \in Procs, Main(p) \/ StartFails(p) \/ Stop(p)
      PROVE  MainOK'
  BY <1>0, <1>2, QuietSteps, StopsKeepMain, ReadyKeepsMain, EndsKeepMain DEF Main
<1>3. ASSUME NEW p \in Procs, Thread(p) \/ UpgradeRequested(p)
      PROVE  MainOK'
  BY <1>0, <1>3, WaitingKeepsMain, LaunchKeepsMain, RequestKeepsMain DEF Thread
<1>4. ASSUME NEW p \in Procs, ApplyConfig(p) \/ WriteCache(p)
      PROVE  MainOK'
  BY <1>1, <1>4 DEF ApplyConfig, WriteCache, process, exchange
<1>5. CASE ChangeConfig \/ UNCHANGED vars
  BY <1>1, <1>5 DEF ChangeConfig, vars, process, exchange
<1>6. QED
  BY <1>2, <1>3, <1>4, <1>5 DEF Next

LEMMA UpgradeStep == UpgradeOK /\ [Next]_vars => UpgradeOK'
<1> SUFFICES ASSUME UpgradeOK, [Next]_vars PROVE UpgradeOK'
  OBVIOUS
<1>1. TypeOK /\ HandoverOK /\ FamilyOK /\ BoundOK
  BY DEF UpgradeOK
<1>2. HandoverOK' /\ ProcessTypes' /\ ExchangeTypes' /\ OtherTypes' /\ BoundOK'
  BY <1>1, HandoverIsKept, ProcessTypesKept, ExchangeTypesKept, OtherTypesKept, BoundIsKept
<1>3. TypeOK'
  BY <1>2, PartsOfTypesNext
<1>4. FamilyOK' /\ LineOK' /\ MainOK'
  BY LineIsKept, MainIsKept
<1>5. QED
  BY <1>2, <1>3, <1>4 DEF UpgradeOK

LEMMA UpgradeAlways == Spec => []UpgradeOK
  BY UpgradeInit, UpgradeStep, PTL DEF Spec

(* The main process of the unit serves until somebody is told to stop: a   *)
(* node leaves only after it has named a successor that serves             *)
(* (main.rs, the SIGUSR2 branch of the loop).                              *)
THEOREM MainAlwaysLives == Spec => []MainLives
<1>1. UpgradeOK => MainLives
  BY DEF UpgradeOK, MainOK, MainLives, Accepting
<1>2. QED
  BY <1>1, UpgradeAlways, PTL

(* To clients and to probes the service is there throughout: an address of *)
(* every config is accepted on, and who answers a probe is accepting, as   *)
(* long as nobody is told to stop (Handover::hand_over, Ops).              *)
THEOREM AlwaysServed == Spec => []ServedThroughout
<1>1. UpgradeOK => ServedThroughout
  <2> SUFFICES ASSUME UpgradeOK PROVE ServedThroughout
    OBVIOUS
  <2>1. TypeOK /\ MainOK /\ BoundOK
    BY DEF UpgradeOK
  <2>2. KeptServed
    <3> SUFFICES ASSUME Undisturbed, NEW a \in Core
                 PROVE  \E p \in Procs : Accepting(p) /\ a \in bound[p]
      BY DEF KeptServed
    <3>1. systemd.main \in Procs
      BY <2>1 DEF TypeOK
    <3>2. Accepting(systemd.main)
      BY <2>1 DEF MainOK, Undisturbed, Accepting
    <3>3. QED
      BY <2>1, <3>1, <3>2 DEF BoundOK
  <2>3. ProbedReady
    <3> SUFFICES ASSUME Undisturbed, NEW p \in Procs, ops[p] = "on"
                 PROVE  Accepting(p)
      BY DEF ProbedReady
    <3>1. systemd.state # "starting" /\ asked = {}
      BY DEF Undisturbed
    <3>2. proc[1] \notin {"booting", "committed", "started"}
      BY <2>1, <3>1 DEF MainOK
    <3>3. QED
      BY <2>1, <3>1, <3>2 DEF MainOK, Accepting
  <2>4. QED
    BY <2>1, <2>2, <2>3 DEF ServedThroughout
<1>2. QED
  BY <1>1, UpgradeAlways, PTL

(* When no upgrade is under way one process accepts, unless a successor    *)
(* was given up on before its receipt was read, whoever is told to stop    *)
(* and whenever (start_successor, and the kill of a successor too late).   *)
THEOREM OneIsAlwaysLeft == Spec => []OneIsLeft
<1>1. UpgradeOK => OneIsLeft
  <2> SUFFICES ASSUME UpgradeOK, NEW p \in Procs, NEW q \in Procs,
                      p # q, Accepting(p), Accepting(q), p \notin unheard, q \notin unheard,
                      proc[p] \notin {"upgrading", "replaced", "leaving"},
                      proc[q] \notin {"upgrading", "replaced", "leaving"}
               PROVE  FALSE
    BY DEF OneIsLeft
  <2>1. proc[p] \in Fresh /\ proc[q] \in Fresh
    BY DEF Accepting, Fresh
  <2>2. LineOK
    BY DEF UpgradeOK
  <2>3. QED
    BY <2>1, <2>2 DEF LineOK
<1>2. QED
  BY <1>1, UpgradeAlways, PTL
=============================================================================
