----------------------------- MODULE SendProgress -----------------------------
(***************************************************************************)
(* The sending side of one forwarded request                               *)
(* (proxy/src/handler/progress.rs): what the request body notes, from the  *)
(* task that drives the connection to the backend, and the task that waits *)
(* for the response reads.                                                 *)
(***************************************************************************)
EXTENDS Integers

CONSTANTS
  FirstByte,      \* timeouts.upstream_first_byte
  RequestTotal,   \* timeouts.request_total
  MaxBody,        \* the most frames a request body has
  NotCompleted    \* NOT_COMPLETED

ASSUME TimeoutsAssumption ==
  /\ FirstByte \in Nat /\ RequestTotal \in Nat /\ MaxBody \in Nat
  /\ NotCompleted \notin Nat

(* Times count from when forwarding started; left is what the client has   *)
(* still to send, wake when the waiting task's sleep ends.                 *)
Sent ==
  [elapsed : Nat, last : Nat, completed : Nat \cup {NotCompleted},
   pending : BOOLEAN, failed : BOOLEAN, left : 0..MaxBody, wake : Nat]

(* begin, and CountedBody::new, which is given a body that may be empty.   *)
Begin(has_body, frames) ==
  [elapsed |-> 0, last |-> 0,
   completed |-> IF has_body /\ frames > 0 THEN NotCompleted ELSE 0,
   pending |-> FALSE, failed |-> FALSE, left |-> frames, wake |-> 0]

BodyProgressed(s) == [s EXCEPT !.last = s.elapsed]

BodyEnded(s) == [s EXCEPT !.last = s.elapsed, !.completed = s.elapsed]

(* Set when the client has nothing to give, never reset.                   *)
BodyPolledOnce(s, pending) == [s EXCEPT !.pending = @ \/ pending]

BodyPolled(s, pending) == [s EXCEPT !.pending = pending]

BodyFailed(s) == [s EXCEPT !.failed = TRUE]

Earlier(a, b) == IF a <= b THEN a ELSE b

(* request_total counted from the last attempt.                            *)
ResponseDeadlineOfAttempt(s) ==
  s.last + (IF s.completed = NotCompleted THEN FirstByte
            ELSE Earlier(FirstByte, RequestTotal))

ResponseDeadline(s) ==
  IF s.completed = NotCompleted
  THEN s.last + FirstByte
  ELSE Earlier(s.last + FirstByte, s.completed + RequestTotal)

(* overdue goes to sleep until the deadline as it reads it.                *)
Sleep(s) == [s EXCEPT !.wake = ResponseDeadline(s)]

(* attempt_started, and overdue polled for the first time.                 *)
AttemptStarted(s) == Sleep([s EXCEPT !.last = s.elapsed])

(* What poll_frame of CountedBody may note: the client has nothing to give *)
(* yet, gives a frame (the end of the stream is told with the last one or  *)
(* after it), or breaks off.                                               *)
Polls(s) ==
  LET ready == BodyPolled(s, FALSE)
      taken == [ready EXCEPT !.left = @ - 1]
  IN IF s.completed # NotCompleted \/ s.failed THEN {}
     ELSE {BodyPolled(s, TRUE), BodyFailed(ready)}
          \cup (IF s.left > 0 THEN {BodyProgressed(taken)} ELSE {})
          \cup (IF s.left = 1 THEN {BodyEnded(taken)} ELSE {})
          \cup (IF s.left = 0 THEN {BodyEnded(ready)} ELSE {})
=============================================================================
