--------------------------- MODULE HealthVerdicts ----------------------------
(***************************************************************************)
(* One probe loop's BackendHealth with the outcomes it was given: the two  *)
(* counters against a definition that looks back over all of them.         *)
(***************************************************************************)
EXTENDS BackendHealth, Sequences

CONSTANT MaxProbes   \* the outcomes of a behaviour

VARIABLES check, bh, outcomes

vars == <<check, bh, outcomes>>

Init ==
  /\ check \in Thresholds
  /\ bh = Default
  /\ outcomes = <<>>

Probe(outcome) ==
  /\ Len(outcomes) < MaxProbes
  /\ bh' = Record(bh, outcome, check)
  /\ outcomes' = Append(outcomes, outcome)
  /\ UNCHANGED check

(* A loop restarted with another check starts from nothing.                *)
Restart ==
  /\ Len(outcomes) = MaxProbes
  /\ check' \in Thresholds
  /\ bh' = Default
  /\ outcomes' = <<>>

Next == Restart \/ \E outcome \in Outcomes : Probe(outcome)

Spec == Init /\ [][Next]_vars

-----------------------------------------------------------------------------
(* record leaves the counters within their width.                          *)
TypeOK == bh \in BackendHealths

(* The last n outcomes up to the i-th are all o; the last one, if n is 0.  *)
Run(o, n, i) == i >= n /\ \A j \in (i - n + 1)..i \cup {i} : outcomes[j] = o

(* What the i-th probe decides, on its own and those right before it.      *)
Decides(status, i) ==
  CASE status = "Healthy"   -> Run("Pass", check.healthy, i)
    [] status = "Unhealthy" -> Run("Fail", check.unhealthy, i)
    [] status = "Draining"  -> Run("Drain", 1, i)
    [] status = "Unknown"   -> FALSE

(* The committed status is what the last probe to decide anything decided, *)
(* whatever the thresholds and however the counters got there (saturated   *)
(* ones included); unknown if none did.                                    *)
StatusIsTheLastDecision ==
  \/ /\ bh.status = "Unknown"
     /\ \A i \in 1..Len(outcomes), s \in Statuses : ~Decides(s, i)
  \/ \E i \in 1..Len(outcomes) :
       /\ Decides(bh.status, i)
       /\ \A j \in (i + 1)..Len(outcomes), s \in Statuses : ~Decides(s, j) \/ s = bh.status

=============================================================================
