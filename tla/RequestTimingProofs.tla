------------------------ MODULE RequestTimingProofs -------------------------
(***************************************************************************)
(* For any requests, bodies, backends and timeouts: a request is given up  *)
(* on only once a timeout has passed since what was last sent, the blame   *)
(* is put on the side that was waited for, and what the handler keeps of a *)
(* request under way and of its answer stays what it may be.               *)
(***************************************************************************)
EXTENDS Request, TLAPS

-----------------------------------------------------------------------------
(* Neither WaitBounded nor BlamesFairly is inductive.  What is: a sleep    *)
(* ends no later than the timeouts allow, by what had been sent when it    *)
(* began and so by what has been sent since; and a body that is waited for *)
(* or has broken off is incomplete, and not both.  It holds from selecting *)
(* on, over all the attempts, and nothing of it is kept afterwards.        *)
Timely(s) ==
  /\ s.last <= s.elapsed
  /\ s.elapsed <= s.last + FirstByte /\ s.wake <= s.last + FirstByte
  /\ s.completed # NotCompleted /\ FirstByte <= RequestTotal =>
       /\ s.elapsed <= s.completed + RequestTotal
       /\ s.wake <= s.completed + RequestTotal

Blameless(s) ==
  /\ s.pending \/ s.failed => s.completed = NotCompleted
  /\ ~ (s.pending /\ s.failed)

Sending(s) == s \in Sent /\ Timely(s) /\ Blameless(s)

OnTheWay == {"selecting", "chosen", "waiting", "overdue"}

Known(r, place, k, s) ==
  /\ k = None \/ k \in Kinds[r]
  /\ place \notin {"idle", "done"} => k \in Kinds[r]
  /\ place \in OnTheWay => Sending(s)
  /\ place \notin OnTheWay => s = None

SendsOK ==
  /\ at \in [Requests -> Phases]
  /\ kind = [r \in Requests |-> kind[r]]
  /\ sent = [r \in Requests |-> sent[r]]
  /\ \A r \in Requests : Known(r, at[r], kind[r], sent[r])

Notes(r, place, k, s) ==
  /\ at' = [at EXCEPT ![r] = place]
  /\ kind' = [kind EXCEPT ![r] = k]
  /\ sent' = [sent EXCEPT ![r] = s]

Terminations == {"Complete", "ClientAbort", "UpstreamAbort"}

Tells(place, a) ==
  IF place = "answering" THEN "error" \in DOMAIN a /\ a.error \in Refusals \cup {None}
  ELSE a = None

AnswersOK ==
  /\ at \in [Requests -> Phases]
  /\ answer = [r \in Requests |-> answer[r]]
  /\ termination \in [Requests -> Terminations]
  /\ \A r \in Requests : Tells(at[r], answer[r])

SelectsOK ==
  /\ counter \in 0..CounterMax
  /\ Policy # "LeastRequest" => load \in [Backends -> Nat]

LEMMA BeginSends ==
  ASSUME NEW has_body \in BOOLEAN, NEW frames \in 0..MaxBody
  PROVE  Sending(Begin(has_body, frames))
<1> DEFINE s == Begin(has_body, frames)
<1>1. s \in Sent
  BY TimeoutsAssumption DEF Begin, Sent
<1>2. /\ s.elapsed = 0 /\ s.last = 0 /\ s.wake = 0
      /\ s.completed \in {0, NotCompleted}
  BY DEF Begin
<1>3. s.pending = FALSE /\ s.failed = FALSE
  BY Zenon DEF Begin
<1> HIDE DEF s
<1>4. Timely(s)
  BY <1>2, TimeoutsAssumption DEF Timely
<1>5. Blameless(s)
  BY <1>3, Zenon DEF Blameless
<1>6. QED
  BY <1>1, <1>4, <1>5 DEF Sending, s

LEMMA DeadlineBounds ==
  ASSUME NEW s \in Sent
  PROVE  /\ ResponseDeadline(s) \in Nat
         /\ ResponseDeadline(s) <= s.last + FirstByte
         /\ s.completed # NotCompleted => ResponseDeadline(s) <= s.completed + RequestTotal
         /\ \/ ResponseDeadline(s) = s.last + FirstByte
            \/ /\ s.completed # NotCompleted
               /\ ResponseDeadline(s) = s.completed + RequestTotal
<1>1. s.last \in Nat /\ s.completed \in Nat \cup {NotCompleted}
  BY DEF Sent
<1>2. QED
  BY <1>1, TimeoutsAssumption DEF ResponseDeadline, Earlier

(* The times and the flags of what is noted, field by field.               *)
LEMMA NotedSends ==
  ASSUME NEW s, Sending(s), NEW t \in Sent, Timely(t),
         t.completed = s.completed, t.pending = s.pending, t.failed = s.failed
  PROVE  Sending(t)
BY Zenon DEF Sending, Blameless

LEMMA SleepSends ==
  ASSUME NEW s, Sending(s)
  PROVE  Sending(Sleep(s))
<1> DEFINE t == Sleep(s)
<1>1. s \in Sent /\ Timely(s)
  BY DEF Sending
<1>2. /\ ResponseDeadline(s) \in Nat
      /\ ResponseDeadline(s) <= s.last + FirstByte
      /\ s.completed # NotCompleted => ResponseDeadline(s) <= s.completed + RequestTotal
  BY <1>1, DeadlineBounds
<1>3. /\ t \in Sent /\ t.wake = ResponseDeadline(s)
      /\ t.elapsed = s.elapsed /\ t.last = s.last /\ t.completed = s.completed
  BY <1>1, <1>2 DEF Sleep, Sent
<1>4. t.pending = s.pending /\ t.failed = s.failed
  BY <1>1 DEF Sleep, Sent
<1> HIDE DEF t
<1>5. Timely(t)
  BY <1>1, <1>2, <1>3 DEF Timely
<1>6. QED
  BY <1>3, <1>4, <1>5, NotedSends DEF t

LEMMA StartSends ==
  ASSUME NEW s, Sending(s)
  PROVE  Sending(AttemptStarted(s))
<1> DEFINE t == [s EXCEPT !.last = s.elapsed]
<1>1. s \in Sent /\ Timely(s)
  BY DEF Sending
<1>2. /\ s.elapsed \in Nat /\ s.last \in Nat /\ s.wake \in Nat
      /\ s.completed \in Nat \cup {NotCompleted}
  BY <1>1 DEF Sent
<1>3. /\ t \in Sent /\ t.wake = s.wake
      /\ t.elapsed = s.elapsed /\ t.last = s.elapsed /\ t.completed = s.completed
  BY <1>1 DEF Sent
<1>4. t.pending = s.pending /\ t.failed = s.failed
  BY <1>1 DEF Sent
<1> HIDE DEF t
<1>5. Timely(t)
  BY <1>1, <1>2, <1>3, TimeoutsAssumption DEF Timely
<1>6. Sending(t)
  BY <1>3, <1>4, <1>5, NotedSends
<1>7. QED
  BY <1>6, SleepSends DEF t, AttemptStarted

LEMMA TickSends ==
  ASSUME NEW s, Sending(s), s.elapsed < s.wake
  PROVE  Sending([s EXCEPT !.elapsed = @ + 1])
<1> DEFINE t == [s EXCEPT !.elapsed = @ + 1]
<1>1. s \in Sent /\ Timely(s)
  BY DEF Sending
<1>2. /\ s.elapsed \in Nat /\ s.last \in Nat /\ s.wake \in Nat
      /\ s.completed \in Nat \cup {NotCompleted}
  BY <1>1 DEF Sent
<1>3. /\ t \in Sent /\ t.wake = s.wake
      /\ t.elapsed = s.elapsed + 1 /\ t.last = s.last /\ t.completed = s.completed
  BY <1>1 DEF Sent
<1>4. t.pending = s.pending /\ t.failed = s.failed
  BY <1>1 DEF Sent
<1> HIDE DEF t
<1>5. Timely(t)
  BY <1>1, <1>2, <1>3, TimeoutsAssumption DEF Timely
<1>6. QED
  BY <1>3, <1>4, <1>5, NotedSends, Zenon DEF t

(* The body is polled: the four things it may note.                        *)
LEMMA PollSends ==
  ASSUME NEW s, Sending(s), NEW t \in Polls(s)
  PROVE  Sending(t)
<1>1. s \in Sent /\ Timely(s) /\ s.completed = NotCompleted
  BY Zenon DEF Sending, Polls
<1>2. ~ s.failed
  BY Zenon DEF Polls
<1>3. /\ s.elapsed \in Nat /\ s.last \in Nat /\ s.wake \in Nat /\ s.left \in 0..MaxBody
      /\ s.pending \in BOOLEAN /\ s.failed \in BOOLEAN
  BY <1>1 DEF Sent
<1>4. PICK ready : ready = BodyPolled(s, FALSE)
  BY Zenon
<1>5. PICK taken : taken = [ready EXCEPT !.left = @ - 1]
  BY Zenon
<1>6. \/ t = BodyPolled(s, TRUE) \/ t = BodyFailed(ready)
      \/ s.left > 0 /\ t = BodyProgressed(taken)
      \/ s.left = 1 /\ t = BodyEnded(taken)
      \/ s.left = 0 /\ t = BodyEnded(ready)
  BY <1>1, <1>2, <1>4, <1>5, Zenon DEF Polls
<1>7. /\ ready \in Sent /\ ready.elapsed = s.elapsed /\ ready.last = s.last
      /\ ready.wake = s.wake /\ ready.completed = s.completed /\ ready.left = s.left
  BY <1>1, <1>4, Zenon DEF BodyPolled, Sent
<1>8. ready.pending = FALSE
  BY <1>1, <1>4 DEF BodyPolled, Sent
<1>9. ready.failed = s.failed
  BY <1>1, <1>4 DEF BodyPolled, Sent
<1>10. ASSUME s.left > 0
       PROVE  /\ taken \in Sent /\ taken.elapsed = s.elapsed /\ taken.last = s.last
              /\ taken.wake = s.wake /\ taken.completed = s.completed
  <2>1. s.left - 1 \in 0..MaxBody
    BY <1>3, <1>10, TimeoutsAssumption
  <2>2. QED
    BY <1>5, <1>7, <2>1 DEF Sent
<1>11. taken.pending = ready.pending /\ taken.failed = ready.failed
  BY <1>5, <1>7 DEF Sent
<1>12. CASE t = BodyPolled(s, TRUE)
  <2>1. /\ t \in Sent /\ t.elapsed = s.elapsed /\ t.last = s.last /\ t.wake = s.wake
        /\ t.completed = s.completed
    BY <1>1, <1>12, Zenon DEF BodyPolled, Sent
  <2>2. t.failed = s.failed
    BY <1>1, <1>12 DEF BodyPolled, Sent
  <2>3. Timely(t)
    BY <1>1, <2>1 DEF Timely
  <2>4. Blameless(t)
    BY <1>1, <1>2, <2>1, <2>2, Zenon DEF Blameless
  <2>5. QED
    BY <2>1, <2>3, <2>4 DEF Sending
<1>13. CASE t = BodyFailed(ready)
  <2>1. /\ t \in Sent /\ t.elapsed = s.elapsed /\ t.last = s.last /\ t.wake = s.wake
        /\ t.completed = s.completed
    BY <1>7, <1>13, Zenon DEF BodyFailed, Sent
  <2>2. t.pending = ready.pending
    BY <1>7, <1>13 DEF BodyFailed, Sent
  <2>3. Timely(t)
    BY <1>1, <2>1 DEF Timely
  <2>4. Blameless(t)
    BY <1>1, <1>8, <2>1, <2>2, Zenon DEF Blameless
  <2>5. QED
    BY <2>1, <2>3, <2>4 DEF Sending
<1>14. CASE s.left > 0 /\ t = BodyProgressed(taken)
  <2>1. /\ t \in Sent /\ t.elapsed = s.elapsed /\ t.last = s.elapsed /\ t.wake = s.wake
        /\ t.completed = s.completed
    BY <1>3, <1>10, <1>14 DEF BodyProgressed, Sent
  <2>2. t.pending = taken.pending /\ t.failed = taken.failed
    BY <1>10, <1>14 DEF BodyProgressed, Sent
  <2>3. Timely(t)
    BY <1>1, <1>3, <2>1, TimeoutsAssumption DEF Timely
  <2>4. Blameless(t)
    BY <1>2, <1>8, <1>9, <1>11, <2>2, Zenon DEF Blameless
  <2>5. QED
    BY <2>1, <2>3, <2>4 DEF Sending
<1>15. ASSUME NEW x \in Sent, x.elapsed = s.elapsed, x.wake = s.wake,
              x.pending = ready.pending, x.failed = ready.failed, t = BodyEnded(x)
       PROVE  Sending(t)
  <2>1. /\ t \in Sent /\ t.elapsed = s.elapsed /\ t.last = s.elapsed /\ t.wake = s.wake
        /\ t.completed = s.elapsed
    BY <1>3, <1>15, Zenon DEF BodyEnded, Sent
  <2>2. t.pending = x.pending /\ t.failed = x.failed
    BY <1>15 DEF BodyEnded, Sent
  <2>3. Timely(t)
    BY <1>1, <1>3, <2>1, TimeoutsAssumption DEF Timely
  <2>4. Blameless(t)
    BY <1>2, <1>8, <1>9, <1>15, <2>2, Zenon DEF Blameless
  <2>5. QED
    BY <2>1, <2>3, <2>4 DEF Sending
<1>16. CASE s.left = 1 /\ t = BodyEnded(taken)
  <2>1. s.left > 0
    BY <1>16
  <2>2. QED
    BY <1>10, <1>11, <1>15, <1>16, <2>1, Zenon
<1>17. CASE s.left = 0 /\ t = BodyEnded(ready)
  BY <1>7, <1>15, <1>17, Zenon
<1>18. QED
  BY <1>6, <1>12, <1>13, <1>14, <1>16, <1>17, Zenon

-----------------------------------------------------------------------------
LEMMA OfOneSending ==
  ASSUME SendsOK, NEW r \in Requests
  PROVE  /\ at[r] \in Phases /\ Known(r, at[r], kind[r], sent[r])
         /\ at = [at EXCEPT ![r] = at[r]]
         /\ kind = [kind EXCEPT ![r] = kind[r]]
         /\ sent = [sent EXCEPT ![r] = sent[r]]
BY Zenon DEF SendsOK

LEMMA OneRequestNotes ==
  ASSUME SendsOK, NEW r \in Requests, NEW place \in Phases, NEW k, NEW s,
         Notes(r, place, k, s), Known(r, place, k, s)
  PROVE  SendsOK'
<1>1. /\ at' \in [Requests -> Phases]
      /\ kind' = [q \in Requests |-> kind'[q]]
      /\ sent' = [q \in Requests |-> sent'[q]]
  BY Zenon DEF SendsOK, Notes
<1>2. ASSUME NEW q \in Requests
      PROVE  Known(q, at'[q], kind'[q], sent'[q])
  <2>1. CASE q = r
    <3>1. at'[q] = place /\ kind'[q] = k /\ sent'[q] = s
      BY <2>1 DEF SendsOK, Notes
    <3>2. QED
      BY <2>1, <3>1
  <2>2. CASE q # r
    <3>1. at'[q] = at[q] /\ kind'[q] = kind[q] /\ sent'[q] = sent[q]
      BY <2>2 DEF SendsOK, Notes
    <3>2. QED
      BY <3>1 DEF SendsOK
  <2>3. QED
    BY <2>1, <2>2
<1>3. QED
  BY <1>1, <1>2 DEF SendsOK

(* A request goes on to where nothing is being sent, its kind known.       *)
LEMMA NotSending ==
  ASSUME SendsOK, NEW r \in Requests, NEW place \in Phases \ OnTheWay, NEW k \in Kinds[r],
         Notes(r, place, k, None)
  PROVE  SendsOK'
<1>1. Known(r, place, k, None)
  BY DEF Known
<1>2. QED
  BY <1>1, OneRequestNotes

(* ... or on, or to where what is sent is timed.                           *)
LEMMA SendsOn ==
  ASSUME SendsOK, NEW r \in Requests, NEW place \in OnTheWay, NEW s, Sending(s),
         at[r] \notin {"idle", "done"},
         at' = [at EXCEPT ![r] = place], UNCHANGED kind, sent' = [sent EXCEPT ![r] = s]
  PROVE  SendsOK'
<1>1. Notes(r, place, kind[r], s)
  BY OfOneSending DEF Notes
<1>2. place \in Phases /\ Known(r, place, kind[r], s)
  BY OfOneSending DEF Known, OnTheWay, Phases
<1>3. QED
  BY <1>1, <1>2, OneRequestNotes

LEMMA RespondEndsSending ==
  ASSUME SendsOK, NEW r \in Requests, at[r] \notin {"idle", "done"},
         at' = [at EXCEPT ![r] = "answering"], UNCHANGED kind,
         sent' = [sent EXCEPT ![r] = None]
  PROVE  SendsOK'
<1>1. Notes(r, "answering", kind[r], None)
  BY OfOneSending DEF Notes
<1>2. kind[r] \in Kinds[r] /\ "answering" \in Phases \ OnTheWay
  BY OfOneSending DEF Known, Phases, OnTheWay
<1>3. QED
  BY <1>1, <1>2, NotSending

LEMMA ReportEndsSending ==
  ASSUME SendsOK, NEW r \in Requests, NEW places, Report(r, places)
  PROVE  SendsOK'
<1>1. Notes(r, "done", None, None)
  BY DEF Report, Notes
<1>2. "done" \in Phases /\ Known(r, "done", None, None)
  BY DEF Known, Phases, OnTheWay
<1>3. QED
  BY <1>1, <1>2, OneRequestNotes

LEMMA HandleSends ==
  ASSUME SendsOK, NEW r \in Requests, NEW k \in Kinds[r], Handle(r, k)
  PROVE  SendsOK'
<1>1. PICK place \in {"admitting", "answering"} : at' = [at EXCEPT ![r] = place]
  BY DEF Handle, Respond
<1>2. at[r] = "idle" /\ UNCHANGED sent /\ kind' = [kind EXCEPT ![r] = k]
  BY DEF Handle
<1>3. sent[r] = None
  BY <1>2, OfOneSending DEF Known, OnTheWay
<1>4. Notes(r, place, k, None)
  BY <1>1, <1>2, <1>3, OfOneSending DEF Notes
<1>5. place \in Phases \ OnTheWay
  BY DEF Phases, OnTheWay
<1>6. QED
  BY <1>4, <1>5, NotSending

LEMMA AdmissionSends ==
  ASSUME SendsOK, NEW r \in Requests, Admit(r) \/ TurnAway(r) \/ OverRate(r)
  PROVE  SendsOK'
<1>1. PICK place \in {"full", "counted", "answering"} : at' = [at EXCEPT ![r] = place]
  BY DEF Admit, TurnAway, OverRate, Respond
<1>2. at[r] \in {"admitting", "full", "counted"} /\ UNCHANGED <<kind, sent>>
  BY DEF Admit, TurnAway, OverRate
<1>3. sent[r] = None /\ kind[r] \in Kinds[r]
  BY <1>2, OfOneSending DEF Known, OnTheWay
<1>4. Notes(r, place, kind[r], None)
  BY <1>1, <1>2, <1>3, OfOneSending DEF Notes
<1>5. place \in Phases \ OnTheWay
  BY DEF Phases, OnTheWay
<1>6. QED
  BY <1>3, <1>4, <1>5, NotSending

LEMMA AdmittedSends ==
  ASSUME SendsOK, NEW r \in Requests, Admitted(r)
  PROVE  SendsOK'
<1>1. /\ at[r] = "counted" /\ at' = [at EXCEPT ![r] = "selecting"] /\ UNCHANGED kind
      /\ sent' = [sent EXCEPT ![r] = Begin(~ Replayable(r), kind[r].frames)]
  BY DEF Admitted
<1>2. kind[r] \in Kinds[r]
  BY <1>1, OfOneSending DEF Known
<1>3. kind[r].frames \in 0..MaxBody
  BY <1>2, KindsAssumption
<1>4. (~ Replayable(r)) \in BOOLEAN
  OBVIOUS
<1>5. Sending(Begin(~ Replayable(r), kind[r].frames))
  BY <1>3, <1>4, BeginSends, Zenon
<1>6. "selecting" \in OnTheWay /\ at[r] \notin {"idle", "done"}
  BY <1>1 DEF OnTheWay
<1>7. QED
  BY <1>1, <1>5, <1>6, SendsOn, Zenon

LEMMA ForwardSends ==
  ASSUME SendsOK, NEW r \in Requests, Select(r) \/ Attempt(r) \/ Wake(r) \/ Poll(r)
  PROVE  SendsOK'
<1>1. at[r] \in OnTheWay /\ at[r] \notin {"idle", "done"} /\ UNCHANGED kind
  BY DEF Select, Attempt, Wake, Poll, OnTheWay, handler
<1>2. Sending(sent[r])
  BY <1>1, OfOneSending DEF Known
<1>3. CASE Select(r)
  <2>1. "chosen" \in OnTheWay /\ at' = [at EXCEPT ![r] = "chosen"] /\ sent' = sent
    BY <1>3 DEF Select, OnTheWay
  <2>2. sent' = [sent EXCEPT ![r] = sent[r]]
    BY <2>1, OfOneSending
  <2>3. QED
    BY <1>1, <1>2, <2>1, <2>2, SendsOn, Zenon
<1>4. CASE Attempt(r)
  <2>1. /\ "waiting" \in OnTheWay /\ at' = [at EXCEPT ![r] = "waiting"]
        /\ sent' = [sent EXCEPT ![r] = AttemptStarted(sent[r])]
    BY <1>4 DEF Attempt, OnTheWay
  <2>2. QED
    BY <1>1, <1>2, <2>1, StartSends, SendsOn, ZenonT(30)
<1>5. CASE Wake(r)
  <2>1. CASE at' = [at EXCEPT ![r] = "overdue"] /\ UNCHANGED sent
    <3>1. "overdue" \in OnTheWay /\ sent' = [sent EXCEPT ![r] = sent[r]]
      BY <2>1, OfOneSending DEF OnTheWay
    <3>2. QED
      BY <1>1, <1>2, <2>1, <3>1, SendsOn, Zenon
  <2>2. CASE sent' = [sent EXCEPT ![r] = Sleep(sent[r])] /\ UNCHANGED at
    <3>1. at' = [at EXCEPT ![r] = at[r]]
      BY <2>2, OfOneSending
    <3>2. QED
      BY <1>1, <1>2, <2>2, <3>1, SleepSends, SendsOn, Zenon
  <2>3. QED
    BY <1>5, <2>1, <2>2 DEF Wake
<1>6. CASE Poll(r)
  <2>1. PICK s \in Polls(sent[r]) : sent' = [sent EXCEPT ![r] = s]
    BY <1>6, Zenon DEF Poll
  <2>2. at' = [at EXCEPT ![r] = at[r]]
    BY <1>6, OfOneSending DEF Poll, handler
  <2>3. QED
    BY <1>1, <1>2, <2>1, <2>2, PollSends, SendsOn, Zenon
<1>7. QED
  BY <1>3, <1>4, <1>5, <1>6

LEMMA EndsSend ==
  ASSUME SendsOK, NEW r \in Requests,
         NoneHealthy(r) \/ Blame(r) \/ Reply(r) \/ SendFails(r) \/ Leave(r) \/ Finish(r)
  PROVE  SendsOK'
<1>1. CASE NoneHealthy(r) \/ Blame(r) \/ Reply(r)
  <2>1. /\ at[r] \notin {"idle", "done"} /\ UNCHANGED kind
        /\ at' = [at EXCEPT ![r] = "answering"] /\ sent' = [sent EXCEPT ![r] = None]
    BY <1>1 DEF NoneHealthy, Blame, Reply, GiveUp, Respond
  <2>2. QED
    BY <2>1, RespondEndsSending, ZenonT(30)
<1>2. CASE Leave(r) \/ Finish(r)
  BY <1>2, ReportEndsSending DEF Leave, Finish
<1>3. CASE SendFails(r)
  <2>1. at[r] = "waiting"
    BY <1>3 DEF SendFails
  <2>2. CASE Report(r, 1)
    BY <2>2, ReportEndsSending
  <2>3. CASE UNCHANGED kind /\ \E why : GiveUp(r, why)
    <3>1. at' = [at EXCEPT ![r] = "answering"] /\ sent' = [sent EXCEPT ![r] = None]
      BY <2>3 DEF GiveUp, Respond
    <3>2. QED
      BY <2>1, <2>3, <3>1, RespondEndsSending, Zenon
  <2>4. CASE UNCHANGED <<kind, sent>> /\ at' = [at EXCEPT ![r] = "selecting"]
    <3>1. Sending(sent[r]) /\ "selecting" \in OnTheWay
      BY <2>1, OfOneSending DEF Known, OnTheWay
    <3>2. sent' = [sent EXCEPT ![r] = sent[r]]
      BY <2>4, OfOneSending
    <3>3. QED
      BY <2>1, <2>4, <3>1, <3>2, SendsOn, Zenon
  <2>5. QED
    BY <1>3, <2>2, <2>3, <2>4, Zenon DEF SendFails
<1>4. QED
  BY <1>1, <1>2, <1>3

LEMMA TickTimes ==
  ASSUME SendsOK, Tick
  PROVE  SendsOK'
<1>1. UNCHANGED <<at, kind>>
  BY DEF Tick, handler
<1>2. sent' = [q \in Requests |-> sent'[q]]
  BY DEF Tick
<1>3. ASSUME NEW q \in Requests
      PROVE  Known(q, at'[q], kind'[q], sent'[q])
  <2>1. CASE Timed(q)
    <3>1. at[q] = "waiting" /\ sent[q].elapsed < sent[q].wake
      BY <2>1 DEF Tick, Timed
    <3>2. sent'[q] = [sent[q] EXCEPT !.elapsed = @ + 1]
      BY <2>1 DEF Tick
    <3>3. Sending(sent[q])
      BY <3>1, OfOneSending DEF Known, OnTheWay
    <3>4. Sending(sent'[q])
      BY <3>1, <3>2, <3>3, TickSends
    <3>5. QED
      BY <1>1, <3>1, <3>4, OfOneSending DEF Known, OnTheWay
  <2>2. CASE ~ Timed(q)
    <3>1. sent'[q] = sent[q]
      BY <2>2 DEF Tick
    <3>2. QED
      BY <1>1, <3>1 DEF SendsOK
  <2>3. QED
    BY <2>1, <2>2
<1>4. QED
  BY <1>1, <1>2, <1>3 DEF SendsOK

LEMMA SendsStep ==
  ASSUME SendsOK, [Next]_vars
  PROVE  SendsOK'
<1>1. CASE UNCHANGED <<at, kind, sent>>
  BY <1>1 DEF SendsOK
<1>2. CASE UNCHANGED vars
  BY <1>1, <1>2 DEF vars, handler
<1>3. CASE Tick
  BY <1>3, TickTimes
<1>4. ASSUME NEW r \in Requests, \E k \in Kinds[r] : Handle(r, k)
      PROVE  SendsOK'
  BY <1>4, HandleSends
<1>5. ASSUME NEW r \in Requests, Reach(r) \/ Write(r)
      PROVE  SendsOK'
  BY <1>1, <1>5 DEF Reach, Write, handler
<1>6. ASSUME NEW r \in Requests, Step(r)
      PROVE  SendsOK'
  BY <1>6, AdmissionSends, AdmittedSends, ForwardSends, EndsSend, Zenon DEF Step
<1>7. ASSUME NEW r \in Requests, Poll(r) \/ Reply(r) \/ SendFails(r) \/ Leave(r) \/ Finish(r)
      PROVE  SendsOK'
  BY <1>7, ForwardSends, EndsSend, Zenon
<1>8. QED
  BY <1>2, <1>3, <1>4, <1>5, <1>6, <1>7 DEF Next

LEMMA OneRequestTells ==
  ASSUME AnswersOK, NEW r \in Requests, NEW place \in Phases, NEW a,
         NEW t \in Terminations, Tells(place, a),
         at' = [at EXCEPT ![r] = place], answer' = [answer EXCEPT ![r] = a],
         termination' = [termination EXCEPT ![r] = t]
  PROVE  AnswersOK'
<1>1. /\ at' \in [Requests -> Phases]
      /\ answer' = [q \in Requests |-> answer'[q]]
      /\ termination' \in [Requests -> Terminations]
  BY DEF AnswersOK
<1>2. \A q \in Requests : Tells(at'[q], answer'[q])
  BY DEF AnswersOK
<1>3. QED
  BY <1>1, <1>2 DEF AnswersOK

(* Elsewhere nothing is told, before or after.                             *)
LEMMA TellsNothing ==
  ASSUME AnswersOK, NEW r \in Requests, NEW place \in Phases \ {"answering"},
         at[r] # "answering", at' = [at EXCEPT ![r] = place],
         UNCHANGED <<answer, termination>>
  PROVE  AnswersOK'
<1>1. Tells(place, answer[r])
  BY DEF AnswersOK, Tells
<1>2. /\ answer = [answer EXCEPT ![r] = answer[r]] /\ termination[r] \in Terminations
      /\ termination = [termination EXCEPT ![r] = termination[r]]
  BY DEF AnswersOK
<1>3. QED
  BY <1>1, <1>2, OneRequestTells, Zenon

LEMMA RespondTells ==
  ASSUME AnswersOK, NEW r \in Requests, NEW a, Tells("answering", a), Respond(r, a)
  PROVE  AnswersOK'
<1>1. PICK t \in Terminations : termination' = [termination EXCEPT ![r] = t]
  BY Zenon DEF AnswersOK, Respond, Terminations
<1>2. "answering" \in Phases
  BY DEF Phases
<1>3. QED
  BY <1>1, <1>2, OneRequestTells, Zenon DEF Respond

LEMMA ReportTells ==
  ASSUME AnswersOK, NEW r \in Requests, NEW places, Report(r, places)
  PROVE  AnswersOK'
<1>1. "done" \in Phases /\ "ClientAbort" \in Terminations /\ Tells("done", None)
  BY DEF Phases, Terminations, Tells
<1>2. QED
  BY <1>1, OneRequestTells, Zenon DEF Report

(* The answers there are say why, or that GFE has nothing to say.          *)
LEMMA RefusedTells ==
  ASSUME NEW r, NEW why \in Refusals, NEW grpc
  PROVE  Tells("answering", Refused(r, why, grpc)) /\ Refused(r, why, grpc).error = why
BY DEF Tells, Refused

LEMMA RelayedTells ==
  ASSUME NEW status, NEW frames
  PROVE  /\ Tells("answering", Own(status, frames))
         /\ Tells("answering", [status |-> status, code |-> NoCode, error |-> None,
                                left |-> frames])
BY DEF Tells, Own

LEMMA FailuresAreRefusals ==
  ASSUME NEW reported \in Reported
  PROVE  Classify(reported) \in FailureKinds
BY ReportedAssumption DEF Classify, FailureKinds

LEMMA GiveUpTells ==
  ASSUME AnswersOK, NEW r \in Requests, NEW why \in Refusals, GiveUp(r, why)
  PROVE  AnswersOK'
BY RefusedTells, RespondTells DEF GiveUp

LEMMA HandleTells ==
  ASSUME AnswersOK, NEW r \in Requests, NEW k, Handle(r, k)
  PROVE  AnswersOK'
<1>1. CASE at' = [at EXCEPT ![r] = "admitting"] /\ UNCHANGED <<answer, termination>>
  <2>1. at[r] # "answering" /\ "admitting" \in Phases \ {"answering"}
    BY DEF Handle, Phases
  <2>2. QED
    BY <1>1, <2>1, TellsNothing, Zenon
<1>2. ASSUME NEW why \in Early, Respond(r, Refused(r, why, k.grpc)) PROVE AnswersOK'
  <2>1. why \in Refusals
    BY EarlyAssumption DEF EarlyRefusals, Refusals
  <2>2. QED
    BY <1>2, <2>1, RefusedTells, RespondTells
<1>3. ASSUME NEW status, NEW frames, Respond(r, Own(status, frames)) PROVE AnswersOK'
  BY <1>3, RelayedTells, RespondTells, Zenon
<1>4. QED
  BY <1>1, <1>2, <1>3, ZenonT(40) DEF Handle

LEMMA StepTells ==
  ASSUME AnswersOK, NEW r \in Requests, Step(r)
  PROVE  AnswersOK'
<1>1. CASE Admit(r) \/ Admitted(r) \/ Select(r) \/ Attempt(r)
  <2>1. PICK place \in {"full", "counted", "selecting", "chosen", "waiting"} :
          at' = [at EXCEPT ![r] = place]
    BY <1>1 DEF Admit, Admitted, Select, Attempt
  <2>2. at[r] # "answering" /\ UNCHANGED <<answer, termination>>
    BY <1>1 DEF Admit, Admitted, Select, Attempt
  <2>3. place \in Phases \ {"answering"}
    BY DEF Phases
  <2>4. QED
    BY <2>1, <2>2, <2>3, TellsNothing, Zenon
<1>2. CASE Wake(r)
  <2>1. at[r] = "waiting" /\ UNCHANGED <<answer, termination>>
    BY <1>2 DEF Wake
  <2>2. CASE at' = [at EXCEPT ![r] = "overdue"]
    <3>1. "overdue" \in Phases \ {"answering"}
      BY DEF Phases
    <3>2. QED
      BY <2>1, <2>2, <3>1, TellsNothing, Zenon
  <2>3. CASE UNCHANGED at
    BY <2>1, <2>3 DEF AnswersOK
  <2>4. QED
    BY <1>2, <2>2, <2>3 DEF Wake
<1>3. CASE TurnAway(r) \/ OverRate(r)
  <2>1. PICK why \in {"PoolFull", "PoolRateLimited"} :
          Respond(r, Refused(r, why, kind[r].grpc))
    BY <1>3, Zenon DEF TurnAway, OverRate
  <2>2. why \in Refusals
    BY DEF Refusals
  <2>3. QED
    BY <2>1, <2>2, RefusedTells, RespondTells
<1>4. CASE NoneHealthy(r) \/ Blame(r)
  <2>1. PICK why \in {"NoHealthyUpstream", "RequestBodyTimeout", "Timeout"} : GiveUp(r, why)
    BY <1>4, Zenon DEF NoneHealthy, Blame
  <2>2. why \in Refusals
    BY DEF Refusals, FailureKinds
  <2>3. QED
    BY <2>1, <2>2, GiveUpTells
<1>5. QED
  BY <1>1, <1>2, <1>3, <1>4, Zenon DEF Step

LEMMA SendFailsTells ==
  ASSUME AnswersOK, NEW r \in Requests, SendFails(r)
  PROVE  AnswersOK'
<1>1. CASE Report(r, 1)
  BY <1>1, ReportTells
<1>2. ASSUME NEW reported \in Reported, GiveUp(r, Classify(reported)) PROVE AnswersOK'
  <2>1. Classify(reported) \in Refusals
    BY FailuresAreRefusals DEF Refusals
  <2>2. QED
    BY <1>2, <2>1, GiveUpTells
<1>3. CASE at' = [at EXCEPT ![r] = "selecting"] /\ UNCHANGED <<answer, termination>>
  <2>1. at[r] # "answering" /\ "selecting" \in Phases \ {"answering"}
    BY DEF SendFails, Phases
  <2>2. QED
    BY <1>3, <2>1, TellsNothing, Zenon
<1>4. QED
  BY <1>1, <1>2, <1>3, Zenon DEF SendFails

LEMMA WriteTells ==
  ASSUME AnswersOK, NEW r \in Requests, Write(r)
  PROVE  AnswersOK'
<1>1. at[r] = "answering" /\ UNCHANGED at
  BY DEF Write
<1>2. Tells("answering", answer[r])
  BY <1>1 DEF AnswersOK
<1>3. PICK a : Tells("answering", a) /\ answer' = [answer EXCEPT ![r] = a]
  <2>1. CASE UNCHANGED answer
    BY <1>2, <2>1 DEF AnswersOK
  <2>2. CASE answer' = [answer EXCEPT ![r].left = @ - 1]
    <3>1. PICK a : a = [answer[r] EXCEPT !.left = @ - 1]
      BY Zenon
    <3>2. Tells("answering", a)
      BY <1>2, <3>1 DEF Tells
    <3>3. QED
      BY <2>2, <3>1, <3>2, Zenon
  <2>3. QED
    BY <2>1, <2>2, Zenon DEF Write
<1>4. PICK t \in Terminations : termination' = [termination EXCEPT ![r] = t]
  BY DEF AnswersOK, Write, Terminations
<1>5. "answering" \in Phases /\ at' = [at EXCEPT ![r] = "answering"]
  BY <1>1 DEF AnswersOK, Phases
<1>6. QED
  BY <1>3, <1>4, <1>5, OneRequestTells, Zenon

LEMMA AnswersStep ==
  ASSUME AnswersOK, [Next]_vars
  PROVE  AnswersOK'
<1>1. CASE UNCHANGED vars \/ Tick \/ \E r \in Requests : Reach(r) \/ Poll(r)
  <2>1. UNCHANGED <<at, answer, termination>>
    BY <1>1 DEF vars, handler, Tick, Reach, Poll
  <2>2. QED
    BY <2>1 DEF AnswersOK
<1>2. ASSUME NEW r \in Requests, Reply(r) PROVE AnswersOK'
  BY <1>2, RelayedTells, RespondTells DEF Reply
<1>3. ASSUME NEW r \in Requests, Leave(r) \/ Finish(r) PROVE AnswersOK'
  BY <1>3, ReportTells DEF Leave, Finish
<1>4. QED
  BY <1>1, <1>2, <1>3, HandleTells, StepTells, SendFailsTells, WriteTells, Zenon DEF Next

(* A policy that does not count leaves the load alone.                     *)
LEMMA OnlyLeastRequestCounts ==
  ASSUME Policy # "LeastRequest", [Next]_vars
  PROVE  load' = load
<1>1. \A b : Without(load, GuardOf(b)) = load
  BY DEF Without, GuardOf
<1>2. CASE UNCHANGED pool
  BY <1>2 DEF pool
<1>3. ASSUME NEW r \in Requests, DropBusy(r) PROVE load' = load
  BY <1>1, <1>3 DEF DropBusy
<1>4. ASSUME NEW r \in Requests, Attempt(r) PROVE load' = load
  BY <1>4 DEF Attempt, Without, GuardOf
<1>5. ASSUME NEW r \in Requests, Step(r) PROVE load' = load
  BY <1>3, <1>4, <1>5, Zenon DEF Step, Admit, TurnAway, OverRate, Admitted, NoneHealthy, GiveUp,
     Select, Wake, Blame, pool
<1>6. ASSUME NEW r \in Requests, Reply(r) \/ SendFails(r) \/ Leave(r) \/ Finish(r)
      PROVE  load' = load
  BY <1>3, <1>6 DEF Reply, SendFails, Leave, Finish, Report, GiveUp, pool
<1>7. ASSUME NEW r \in Requests, Reach(r) \/ Poll(r) \/ Write(r) PROVE load' = load
  BY <1>7 DEF Reach, Poll, Write, pool
<1>8. ASSUME NEW r \in Requests, NEW k, Handle(r, k) PROVE load' = load
  BY <1>8 DEF Handle, pool
<1>9. QED
  BY <1>2, <1>5, <1>6, <1>7, <1>8 DEF Next, Tick, vars

LEMMA CounterCounts ==
  ASSUME counter \in 0..CounterMax, [Next]_vars
  PROVE  counter' \in 0..CounterMax
<1>1. (counter + 1) % (CounterMax + 1) \in 0..CounterMax
  BY CounterAssumption
<1>2. \/ counter' = counter
      \/ \E r \in Requests : Select(r) /\ counter' = (counter + 1) % (CounterMax + 1)
  <2>1. CASE UNCHANGED pool
    BY <2>1 DEF pool
  <2>2. ASSUME NEW r \in Requests, Select(r)
        PROVE  counter' \in {counter, (counter + 1) % (CounterMax + 1)}
    BY <2>2, Zenon DEF Select
  <2>3. ASSUME NEW r \in Requests, Step(r), ~ Select(r) PROVE counter' = counter
    BY <2>3 DEF Step, Admit, TurnAway, OverRate, Admitted, NoneHealthy, Attempt, Wake,
       Blame, pool
  <2>4. ASSUME NEW r \in Requests, Reply(r) \/ SendFails(r) \/ Leave(r) \/ Finish(r)
        PROVE  counter' = counter
    BY <2>4 DEF Reply, SendFails, Leave, Finish, Report, pool
  <2>5. ASSUME NEW r \in Requests, Reach(r) \/ Poll(r) \/ Write(r) PROVE counter' = counter
    BY <2>5 DEF Reach, Poll, Write, pool
  <2>6. ASSUME NEW r \in Requests, NEW k, Handle(r, k) PROVE counter' = counter
    BY <2>6 DEF Handle, pool
  <2>7. QED
    BY <2>1, <2>2, <2>3, <2>4, <2>5, <2>6, Zenon DEF Next, Tick, vars
<1>3. QED
  BY <1>1, <1>2

(* What moves one request leaves the others where they are.                *)
LEMMA OnlyItMoves ==
  ASSUME SendsOK, NEW r \in Requests, Next, at'[r] # at[r]
  PROVE  \/ \E k \in Kinds[r] : Handle(r, k)
         \/ Step(r) \/ Reply(r) \/ SendFails(r) \/ Leave(r) \/ Finish(r)
<1>1. ASSUME NEW q \in Requests, q # r, NEW place, at' = [at EXCEPT ![q] = place]
      PROVE  FALSE
  BY <1>1 DEF SendsOK
<1>2. ~ UNCHANGED at
  OBVIOUS
<1>3. ~ Tick
  BY <1>2 DEF Tick, handler
<1>4. PICK q \in Requests :
        \/ \E k \in Kinds[q] : Handle(q, k)
        \/ Step(q) \/ Reply(q) \/ SendFails(q) \/ Leave(q) \/ Finish(q)
  BY <1>2, <1>3 DEF Next, Reach, Poll, Write, handler
<1>5. \E place : at' = [at EXCEPT ![q] = place]
  <2>1. CASE \E k : Handle(q, k)
    BY <2>1 DEF Handle, Respond
  <2>2. CASE Step(q)
    BY <1>2, <2>2, ZenonT(30) DEF Step, Admit, TurnAway, OverRate, Admitted, NoneHealthy, Select,
       Attempt, Wake, Blame, GiveUp, Respond
  <2>3. CASE Reply(q) \/ SendFails(q) \/ Leave(q) \/ Finish(q)
    BY <2>3 DEF Reply, SendFails, Leave, Finish, Report, GiveUp, Respond
  <2>4. QED
    BY <1>4, <2>1, <2>2, <2>3
<1>6. q = r
  BY <1>1, <1>5
<1>7. QED
  BY <1>4, <1>6

LEMMA GivenUpLate ==
  ASSUME SendsOK, NEW r \in Requests, Next, at[r] = "waiting", at'[r] = "overdue"
  PROVE  \/ sent[r].elapsed >= sent[r].last + FirstByte
         \/ /\ sent[r].completed # NotCompleted
            /\ sent[r].elapsed >= sent[r].completed + RequestTotal
<1>1. /\ at' # [at EXCEPT ![r] = "answering"] /\ at' # [at EXCEPT ![r] = "done"]
      /\ at' # [at EXCEPT ![r] = "selecting"]
  BY DEF SendsOK
<1>2. Wake(r) /\ ~ UNCHANGED at
  <2>1. ~ (Reply(r) \/ SendFails(r) \/ Leave(r) \/ Finish(r))
    BY <1>1, Zenon DEF Reply, SendFails, Leave, Finish, Report, GiveUp, Respond
  <2>2. ~ \E k \in Kinds[r] : Handle(r, k)
    BY DEF Handle
  <2>3. Step(r)
    BY <2>1, <2>2, OnlyItMoves, Zenon
  <2>4. QED
    BY <2>3, Zenon DEF Step, Admit, TurnAway, OverRate, Admitted, NoneHealthy, Select, Attempt, Blame
<1>3. sent[r].elapsed >= ResponseDeadline(sent[r])
  BY <1>2 DEF Wake
<1>4. sent[r] \in Sent
  BY OfOneSending DEF Known, OnTheWay, Sending
<1>5. \/ ResponseDeadline(sent[r]) = sent[r].last + FirstByte
      \/ /\ sent[r].completed # NotCompleted
         /\ ResponseDeadline(sent[r]) = sent[r].completed + RequestTotal
  BY <1>4, DeadlineBounds
<1>6. QED
  BY <1>3, <1>5, Zenon

LEMMA BlamedFairly ==
  ASSUME SendsOK, AnswersOK, NEW r \in Requests, Next,
         at[r] \in {"waiting", "overdue"}, at'[r] = "answering"
  PROVE  /\ answer'[r].error = "RequestBodyTimeout" => sent[r].completed = NotCompleted
         /\ sent[r].failed => answer'[r].error \in {None, "Timeout"}
<1>1. at' # [at EXCEPT ![r] = "done"] /\ at' # [at EXCEPT ![r] = "overdue"] /\ ~ UNCHANGED at
  BY DEF SendsOK
<1>2. \A a : answer' = [answer EXCEPT ![r] = a] => answer'[r] = a
  BY DEF AnswersOK
<1>3. None # "RequestBodyTimeout"
  BY NoneAssumption DEF Refusals
<1>4. Reply(r) \/ SendFails(r) \/ Blame(r)
  <2>1. ~ (Leave(r) \/ Finish(r) \/ Wake(r))
    BY <1>1 DEF Leave, Finish, Report, Wake
  <2>2. ~ \E k \in Kinds[r] : Handle(r, k)
    BY DEF Handle
  <2>3. CASE Step(r)
    BY <2>1, <2>3, Zenon DEF Step, Admit, TurnAway, OverRate, Admitted, NoneHealthy, Select, Attempt
  <2>4. QED
    BY <1>1, <2>1, <2>2, <2>3, OnlyItMoves
<1>5. CASE Reply(r)
  <2>1. answer'[r].error = None
    <3>1. PICK frames : answer' = [answer EXCEPT ![r] =
            [status |-> 200, code |-> NoCode, error |-> None, left |-> frames]]
      BY <1>5, Zenon DEF Reply, Respond
    <3>2. answer'[r] = [status |-> 200, code |-> NoCode, error |-> None, left |-> frames]
      BY <1>2, <3>1, Zenon
    <3>3. QED
      BY <3>2
  <2>2. QED
    BY <1>3, <2>1, Zenon
<1>6. CASE SendFails(r)
  <2>1. ~ Report(r, 1) /\ at' # [at EXCEPT ![r] = "selecting"]
    BY <1>1 DEF Report, SendsOK
  <2>2. PICK reported \in Reported : ~ sent[r].failed /\ GiveUp(r, Classify(reported))
    BY <1>6, <2>1, Zenon DEF SendFails
  <2>3. answer'[r].error = Classify(reported)
    <3>1. answer' = [answer EXCEPT ![r] = Refused(r, Classify(reported), kind[r].grpc)]
      BY <2>2, Zenon DEF GiveUp, Respond
    <3>2. Classify(reported) \in Refusals
      BY FailuresAreRefusals DEF Refusals
    <3>3. answer'[r] = Refused(r, Classify(reported), kind[r].grpc)
      BY <1>2, <3>1, Zenon
    <3>4. QED
      BY <3>2, <3>3, RefusedTells
  <2>4. Classify(reported) # "RequestBodyTimeout"
    BY FailuresAreRefusals DEF FailureKinds
  <2>5. QED
    BY <2>2, <2>3, <2>4, Zenon
<1>7. CASE Blame(r)
  <2>1. Blameless(sent[r])
    BY OfOneSending DEF Known, OnTheWay, Sending
  <2>2. answer'[r].error = IF sent[r].pending THEN "RequestBodyTimeout" ELSE "Timeout"
    <3>1. PICK why \in Refusals : why = IF sent[r].pending THEN "RequestBodyTimeout" ELSE "Timeout"
      BY DEF Refusals, FailureKinds
    <3>2. answer' = [answer EXCEPT ![r] = Refused(r, why, kind[r].grpc)]
      BY <1>7, <3>1, Zenon DEF Blame, GiveUp, Respond
    <3>3. answer'[r] = Refused(r, why, kind[r].grpc)
      BY <1>2, <3>2, Zenon
    <3>4. QED
      BY <3>1, <3>3, RefusedTells
  <2>3. CASE sent[r].pending
    BY <2>1, <2>3, Zenon DEF Blameless
  <2>4. CASE ~ sent[r].pending
    <3>1. answer'[r].error = "Timeout"
      BY <2>2, <2>4, Zenon
    <3>2. "Timeout" # "RequestBodyTimeout"
      OBVIOUS
    <3>3. QED
      BY <3>1, <3>2, Zenon
  <2>5. QED
    BY <2>3, <2>4
<1>8. QED
  BY <1>4, <1>5, <1>6, <1>7

LEMMA SendsInit == Init => SendsOK /\ AnswersOK /\ SelectsOK
<1> SUFFICES ASSUME Init PROVE SendsOK /\ AnswersOK /\ SelectsOK
  OBVIOUS
<1>1. SendsOK
  BY DEF Init, SendsOK, Phases, Known, OnTheWay
<1>2. AnswersOK
  BY DEF Init, AnswersOK, Phases, Terminations, Tells
<1>3. SelectsOK
  BY CounterAssumption DEF Init, SelectsOK
<1>4. QED
  BY <1>1, <1>2, <1>3

LEMMA SendsAreKept ==
  SendsOK /\ AnswersOK /\ SelectsOK /\ [Next]_vars => SendsOK' /\ AnswersOK' /\ SelectsOK'
<1>1. SelectsOK /\ [Next]_vars => SelectsOK'
  BY OnlyLeastRequestCounts, CounterCounts DEF SelectsOK
<1>2. QED
  BY <1>1, SendsStep, AnswersStep

(* A backend is given up on only when it has been silent as long as the    *)
(* timeouts say, by what was sent meanwhile, and a client blamed only for  *)
(* a body it owes: for any timeouts, bodies, backends and interleaving     *)
(* (overdue, response_deadline, CountedBody::poll_frame, forward).         *)
THEOREM GivenUpFairly == Spec => GivesUpFairly
<1>1. SendsOK /\ AnswersOK /\ [Next]_vars =>
        [\A r \in Requests : at[r] = "waiting" /\ at'[r] = "overdue" =>
           \/ sent[r].elapsed >= sent[r].last + FirstByte
           \/ /\ sent[r].completed # NotCompleted
              /\ sent[r].elapsed >= sent[r].completed + RequestTotal]_vars
  BY GivenUpLate, Zenon
<1>2. SendsOK /\ AnswersOK /\ [Next]_vars =>
        [\A r \in Requests : at[r] \in {"waiting", "overdue"} /\ at'[r] = "answering" =>
           /\ answer'[r].error = "RequestBodyTimeout" => sent[r].completed = NotCompleted
           /\ sent[r].failed => answer'[r].error \in {None, "Timeout"}]_vars
  BY BlamedFairly, Zenon
<1>3. QED
  BY <1>1, <1>2, SendsInit, SendsAreKept, PTL
     DEF Spec, GivesUpFairly, NotGivenUpEarly, BlamesFairly
=============================================================================
