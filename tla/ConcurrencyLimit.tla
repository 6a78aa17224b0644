-------------------------- MODULE ConcurrencyLimit --------------------------
(***************************************************************************)
(* A cap on how many of something are in use at once                       *)
(* (lib/rate-limiting/src/concurrency.rs): client connections, over all    *)
(* listeners and per listener, and connections to backends.                *)
(*                                                                         *)
(* Nothing is locked.  `try_acquire` adds one to the shared counter and    *)
(* compares the value it found with the cap; a refused attempt stays       *)
(* counted until its permit is dropped, which is a second atomic step that *)
(* other callers can get in front of.                                      *)
(***************************************************************************)
EXTENDS Integers, FiniteSets

CONSTANTS
  Callers,   \* whoever may hold one permit at a time
  Max,       \* the cap, or NoMax
  NoMax      \* `max: None`: count without limiting

ASSUME CallersAssumption == IsFiniteSet(Callers)
ASSUME MaxAssumption == Max \in Nat \cup {NoMax} /\ NoMax \notin Nat

VARIABLES
  in_use,    \* the atomic counter
  permit     \* permit[c]: what c has of the limit

vars == <<in_use, permit>>

(* "held" is an Ok(permit) not dropped yet, "refused" the permit of an     *)
(* attempt over the cap, which goes out of scope without being returned.   *)
PermitStates == {"none", "held", "refused"}

Holders == {c \in Callers : permit[c] = "held"}
Counted == {c \in Callers : permit[c] # "none"}

(* The counter of the limit never goes below zero, where the code's usize  *)
(* would wrap around.                                                      *)
TypeOK ==
  /\ in_use \in Nat
  /\ permit \in [Callers -> PermitStates]

Init ==
  /\ in_use = 0
  /\ permit = [c \in Callers |-> "none"]

(* The off-by-one a comparison with `>` would be.                          *)
ReachedOneLate == Max # NoMax /\ in_use > Max

(* The cap as `fetch_add` finds it: reached by the attempts counted before *)
(* this one.                                                               *)
Reached == Max # NoMax /\ in_use >= Max

(* Counting and comparing are one atomic step.                             *)
TryAcquire(c) ==
  /\ permit[c] = "none"
  /\ in_use' = in_use + 1
  /\ permit' = [permit EXCEPT ![c] = IF Reached THEN "refused" ELSE "held"]

(* A place given back by whoever had none.                                 *)
DropPermitUnheld(c) ==
  /\ in_use' = in_use - 1
  /\ permit' = [permit EXCEPT ![c] = "none"]

(* Permit::drop, of a permit in use or of one just refused.                *)
DropPermit(c) ==
  /\ permit[c] # "none"
  /\ in_use' = in_use - 1
  /\ permit' = [permit EXCEPT ![c] = "none"]

Next == \E c \in Callers : TryAcquire(c) \/ DropPermit(c)

Spec == Init /\ [][Next]_vars

-----------------------------------------------------------------------------
(* However the attempts and the drops interleave, never more than Max      *)
(* permits are held at once: the attempts being refused count, the cap is  *)
(* never exceeded by what was granted.                                     *)
NeverOverAdmitted == Max # NoMax => Cardinality(Holders) <= Max

(* The counter is exact: one for every permit held and one for every       *)
(* refusal not yet dropped, so nothing leaks and it is back at zero once   *)
(* everyone has let go.                                                    *)
CountIsExact == in_use = Cardinality(Counted)

=============================================================================
