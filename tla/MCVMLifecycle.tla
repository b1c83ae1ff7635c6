--------------------------- MODULE MCVMLifecycle ---------------------------
(***************************************************************************)
(* Small instances of VMLifecycle.                                         *)
(***************************************************************************)
EXTENDS VMLifecycle, TLC

CONSTANTS v1, v2, v3, q1, q2, q3, s1, s2, a, b, c, n

\* UUIDs that differ.  Two VMs have one name, or one is named like the other's
\* UUID; a third one asks for the reserved name.
OwnUUIDs == [v \in VMs |-> CASE v = v1 -> a [] v = v2 -> b [] OTHER -> c]
OneName == [v \in VMs |-> IF v = v3 THEN ReservedName ELSE n]
MixedNames == [v \in VMs |-> IF v = v1 THEN n ELSE a]

Pings == [q \in Requests |-> "ping"]
\* q1 and q2 may be exchanged.
PingSymmetry == Permutations({q1, q2})
PingsAndCheck == [q \in Requests |-> IF q = q3 THEN "NotIsolated" ELSE "ping"]

Halts == [s \in Stoppers |-> "halt"]
HaltAndPanic == [s \in Stoppers |-> IF s = s1 THEN "halt" ELSE "panic"]
All == [s \in Stoppers |-> Nil]
AllAndAmbiguous == [s \in Stoppers |-> IF s = s1 THEN Nil ELSE a]
None == << >>
=============================================================================
