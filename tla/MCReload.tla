------------------------------- MODULE MCReload ------------------------------
(* Reload for TLC: two good configs, only the first with a certificate, and *)
(* one that parses but does not validate.                                   *)
EXTENDS Reload
=============================================================================
