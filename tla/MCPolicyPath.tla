---------------------------- MODULE MCPolicyPath ----------------------------
(* Values of PolicyPath's constants for TLC. *)
EXTENDS PolicyPath

Both(lo, hi) == [f \in Fields |-> IF f = "min_backends" THEN lo ELSE hi]

\* The first leaves a bound open; after the second it would cross the other.
TwoUpdates == {Both(3, Absent), Both(1, 1)}
FirstFile  == {[version |-> 1, fields |-> Both(1, 3)]}
OneAndTwo  == Both(1, 2)

(* "*Invalid* values are rejected in both cases", on a POST and where a      *)
(* missing field falls "back to defaults on startup": the bounds a service   *)
(* works by are ordered, also when it has completed them with a default.     *)
DefaultsKeepOrder == \A c \in Consumers : Ordered(held[c].fields)

(* "The merged policy (existing + updates) must satisfy every cross-field    *)
(* invariant (e.g. min_backends <= max_backends)": so does the policy on     *)
(* disk, also when two requests write it in place.                           *)
DiskKeepsOrder == Ordered(file.fields)

(* The services do not act on one another here: each is checked by itself. *)
OneAtATime == {{c} : c \in Consumers}
=============================================================================
