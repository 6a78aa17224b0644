--------------------------- MODULE MCHealthChecking --------------------------
(* HealthChecking for TLC.  Configs that add, remove, share and re-check    *)
(* backends; loops enough for one aborted in mid-commit beside each running *)
(* one; handles enough for every holder.                                    *)
EXTENDS HealthChecking, TLC

CONSTANTS a, p, q

Quick == [healthy |-> 1, unhealthy |-> 1]
Slow == [healthy |-> 2, unhealthy |-> 2]
CheckedPool(id, check) == [id |-> id, check |-> check, backends |-> {a}]

MCNoPools == <<>>

(* The backend comes and goes, and changes its check and its pools.         *)
MCConfigs ==
  { <<>>, <<CheckedPool(p, Quick)>>, <<CheckedPool(q, Slow), CheckedPool(p, Quick)>> }

(* It only comes and goes.                                                  *)
OnePool == { <<>>, <<CheckedPool(p, Slow)>> }

Identities == Permutations(Handles) \cup Permutations(Loops)
=============================================================================
