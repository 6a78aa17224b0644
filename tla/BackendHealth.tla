---------------------------- MODULE BackendHealth ----------------------------
(***************************************************************************)
(* The health of one backend as its probe loop decides it                  *)
(* (lib/health-checking/src/state_machine.rs): consecutive passes and      *)
(* failures against the thresholds of its check, a drain at once.          *)
(***************************************************************************)
EXTENDS Integers

CONSTANT CountMax   \* u32::MAX, where the counters stop

ASSUME CountMaxAssumption == CountMax \in Nat \ {0}

Statuses == {"Unknown", "Healthy", "Unhealthy", "Draining"}
Outcomes == {"Pass", "Fail", "Drain"}

(* The thresholds of a CheckSpec.  Nothing rejects a threshold of 0.       *)
Thresholds == [healthy : 0..CountMax, unhealthy : 0..CountMax]

BackendHealths ==
  [status : Statuses, consecutive_success : 0..CountMax, consecutive_failure : 0..CountMax]

Default == [status |-> "Unknown", consecutive_success |-> 0, consecutive_failure |-> 0]

PlainInc(n) == n + 1

SaturatingInc(n) == IF n = CountMax THEN n ELSE n + 1

(* A pass that leaves the count of failures as it is.                      *)
RecordKeepingCounts(bh, outcome, check) ==
  CASE outcome = "Drain" ->
         [status |-> "Draining", consecutive_success |-> 0, consecutive_failure |-> 0]
    [] outcome = "Pass" ->
         LET n == SaturatingInc(bh.consecutive_success)
         IN  [bh EXCEPT !.consecutive_success = n,
                        !.status = IF n >= check.healthy THEN "Healthy" ELSE @]
    [] outcome = "Fail" ->
         LET n == SaturatingInc(bh.consecutive_failure)
         IN  [status |-> IF n >= check.unhealthy THEN "Unhealthy" ELSE bh.status,
              consecutive_success |-> 0, consecutive_failure |-> n]

(* A lame duck that never comes back.                                      *)
RecordStayingDrained(bh, outcome, check) ==
  CASE outcome = "Drain" \/ bh.status = "Draining" ->
         [status |-> "Draining", consecutive_success |-> 0, consecutive_failure |-> 0]
    [] outcome = "Pass" /\ bh.status # "Draining" ->
         LET n == SaturatingInc(bh.consecutive_success)
         IN  [status |-> IF n >= check.healthy THEN "Healthy" ELSE bh.status,
              consecutive_success |-> n, consecutive_failure |-> 0]
    [] outcome = "Fail" /\ bh.status # "Draining" ->
         LET n == SaturatingInc(bh.consecutive_failure)
         IN  [status |-> IF n >= check.unhealthy THEN "Unhealthy" ELSE bh.status,
              consecutive_success |-> 0, consecutive_failure |-> n]

(* BackendHealth::record.  It returns the new status exactly when that     *)
(* differs from the old one.                                               *)
Record(bh, outcome, check) ==
  CASE outcome = "Drain" ->
         [status |-> "Draining", consecutive_success |-> 0, consecutive_failure |-> 0]
    [] outcome = "Pass" ->
         LET n == SaturatingInc(bh.consecutive_success)
         IN  [status |-> IF n >= check.healthy THEN "Healthy" ELSE bh.status,
              consecutive_success |-> n, consecutive_failure |-> 0]
    [] outcome = "Fail" ->
         LET n == SaturatingInc(bh.consecutive_failure)
         IN  [status |-> IF n >= check.unhealthy THEN "Unhealthy" ELSE bh.status,
              consecutive_success |-> 0, consecutive_failure |-> n]

=============================================================================
