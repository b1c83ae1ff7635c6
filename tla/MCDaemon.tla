------------------------------ MODULE MCDaemon ------------------------------
(***************************************************************************)
(* Small instances of Daemon.                                              *)
(***************************************************************************)
EXTENDS Daemon

CONSTANTS v1, q1, s1, s2, a

OneUUID == [v \in VMs |-> a]
Pings == [q \in Requests |-> "ping"]
StopAndSignal == [s \in Stoppers |-> IF s = s1 THEN "stop" ELSE "signal"]
All == [s \in Stoppers |-> Nil]
None == << >>
=============================================================================
