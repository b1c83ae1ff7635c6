----------------------------- MODULE VMService -----------------------------
(***************************************************************************)
(* What corectld promises about the VMs it runs, whatever goroutines it    *)
(* takes: a VM is listed (corectl ps) once, from before its hypervisor     *)
(* starts until after it ended; the hypervisor runs once; a Run has one    *)
(* answer, "ok" only for a guest that called back and "error" only for one *)
(* that never will have.  VMLifecycle and Names implement it as long as no *)
(* Run overwrites the entry of another in Daemon.Active.                   *)
(***************************************************************************)
CONSTANT VMs

VARIABLES
  phase,       \* "absent", "listed" or "gone"
  hypervisor,  \* "none", "running" or "ended"
  booted,      \* the VMs whose guest called back
  answer       \* what Run returned: "none" yet, "refused", "ok" or "error"

vars == <<phase, hypervisor, booted, answer>>

Init ==
  /\ phase = [v \in VMs |-> "absent"]
  /\ hypervisor = [v \in VMs |-> "none"]
  /\ booted = {}
  /\ answer = [v \in VMs |-> "none"]

Refuse(v) ==
  /\ phase[v] = "absent"
  /\ answer[v] = "none"
  /\ answer' = [answer EXCEPT ![v] = "refused"]
  /\ UNCHANGED <<phase, hypervisor, booted>>

List(v) ==
  /\ phase[v] = "absent"
  /\ answer[v] = "none"
  /\ phase' = [phase EXCEPT ![v] = "listed"]
  /\ UNCHANGED <<hypervisor, booted, answer>>

Launch(v) ==
  /\ phase[v] = "listed"
  /\ hypervisor[v] = "none"
  /\ hypervisor' = [hypervisor EXCEPT ![v] = "running"]
  /\ UNCHANGED <<phase, booted, answer>>

End(v) ==
  /\ hypervisor[v] = "running"
  /\ hypervisor' = [hypervisor EXCEPT ![v] = "ended"]
  /\ UNCHANGED <<phase, booted, answer>>

Unlist(v) ==
  /\ phase[v] = "listed"
  /\ hypervisor[v] # "running"
  /\ phase' = [phase EXCEPT ![v] = "gone"]
  /\ UNCHANGED <<hypervisor, booted, answer>>

Boot(v) ==
  /\ hypervisor[v] # "none"
  /\ answer[v] = "none"
  /\ v \notin booted
  /\ booted' = booted \cup {v}
  /\ UNCHANGED <<phase, hypervisor, answer>>

Answer(v) ==
  /\ phase[v] # "absent"
  /\ answer[v] = "none"
  /\ answer' = [answer EXCEPT ![v] = IF v \in booted THEN "ok" ELSE "error"]
  /\ UNCHANGED <<phase, hypervisor, booted>>

Next ==
  \E v \in VMs : \/ Refuse(v) \/ List(v) \/ Launch(v) \/ End(v)
                 \/ Unlist(v) \/ Boot(v) \/ Answer(v)

Spec == Init /\ [][Next]_vars

=============================================================================
