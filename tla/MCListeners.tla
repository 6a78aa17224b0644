----------------------------- MODULE MCListeners -----------------------------
(* Listeners for TLC: a connection more than may be open, and a loop more    *)
(* than an address needs, so that a removed one meets the one that replaces  *)
(* it.                                                                       *)
EXTENDS Listeners
=============================================================================
