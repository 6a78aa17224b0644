------------------------------ MODULE MCUpgrade -------------------------------
(* Upgrade for TLC: an address in every config, and one in the second only. *)
EXTENDS Upgrade

CONSTANTS a, b

MCConfig == [v1 |-> {a}, v2 |-> {a, b}]
=============================================================================
