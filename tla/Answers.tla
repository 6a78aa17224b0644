------------------------------- MODULE Answers -------------------------------
(***************************************************************************)
(* What a request that is not relayed is answered with                     *)
(* (proxy/src/handler/respond.rs, failure.rs, retry.rs): why it is refused *)
(* decides the status, whether a gRPC client may try again, and whether    *)
(* the node itself does.  Refusal::Upstream(kind) is the kind.             *)
(***************************************************************************)
EXTENDS Integers

(* What the upstream client reports, as the handler tells it apart.        *)
FailureKinds == {"ConnectTimeout", "ConnectRefused", "ConnectError", "Tls",
                 "Reset", "ConnectionLimit", "Timeout", "Other"}

(* failure::of: a refused protocol is known as Other.                      *)
Classify(reported) == IF reported = "ProtocolRefused" THEN "Other" ELSE reported

IsRetryable(kind) == kind \notin {"ConnectionLimit", "Timeout"}

(* Why GFE answers itself.                                                 *)
Refusals ==
  FailureKinds \cup
  {"HostConflict", "HostMissing", "Misdirected", "NoRoute",
   "UnsupportedTarget", "UpgradeNotSupported", "PoolNotFound", "PoolFull",
   "PoolRateLimited", "NoHealthyUpstream", "RequestBodyTimeout"}

Status(refusal) ==
  CASE refusal \in {"HostConflict", "HostMissing", "UnsupportedTarget"} -> 400
    [] refusal = "Misdirected" -> 421
    [] refusal = "NoRoute" -> 404
    [] refusal = "UpgradeNotSupported" -> 501
    [] refusal = "PoolNotFound" -> 502
    [] refusal \in {"PoolFull", "NoHealthyUpstream", "ConnectionLimit"} -> 503
    [] refusal = "PoolRateLimited" -> 429
    [] refusal = "RequestBodyTimeout" -> 408
    [] refusal = "Timeout" -> 504
    [] refusal \in FailureKinds \ {"ConnectionLimit", "Timeout"} -> 502

(* The gRPC code of an HTTP status.                                        *)
ForHttpStatus(status) ==
  CASE status = 400 -> 13
    [] status = 401 -> 16
    [] status = 403 -> 7
    [] status = 404 -> 12
    [] status \in {429, 502, 503, 504} -> 14
    [] status \notin {400, 401, 403, 404, 429, 502, 503, 504} -> 2

NoCode == 99

(* The answer to a refused request: its status, its gRPC code and whether  *)
(* it has a body.                                                          *)
Refusal(refusal, grpc) ==
  IF grpc
  THEN [status |-> 200, code |-> ForHttpStatus(Status(refusal)), body |-> 0]
  ELSE [status |-> Status(refusal), code |-> NoCode, body |-> 1]

MaxAttempts == 2

(* is_replayable: an idempotent method and no body.                        *)
IsReplayable(idempotent, has_body) == idempotent /\ ~ has_body

(* One attempt too many.                                                   *)
MayRetryOnceMore(replayable, attempts, kind) ==
  replayable /\ IsRetryable(kind) /\ attempts <= MaxAttempts

(* Whatever the request is.                                                *)
MayRetryAnything(replayable, attempts, kind) ==
  IsRetryable(kind) /\ attempts < MaxAttempts

(* may_retry; no part of a response has been sent when it is asked.        *)
MayRetry(replayable, attempts, kind) ==
  replayable /\ IsRetryable(kind) /\ attempts < MaxAttempts
=============================================================================
