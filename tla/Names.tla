-------------------------------- MODULE Names --------------------------------
(***************************************************************************)
(* The names of the guests while corectld serves: who writes the records   *)
(* of module Records, and when.  A guest's record is added by the handler  *)
(* of its request for /ignition, which runs without Daemon.Mutex, and      *)
(* removed by deregister, which runs with it.                              *)
(*                                                                         *)
(* Of a VM's life (module VMLifecycle has all of it) only what moves its   *)
(* records is kept: the registration, the boot that gives the guest an     *)
(* address, the call that tells the daemon this address, and the end.      *)
(***************************************************************************)
EXTENDS Records

CONSTANTS
  VMs,        \* the calls of Run
  Handlers,   \* the goroutines that answer /ignition
  UUIDs,
  NameOf, UUIDOf,
  Offers      \* the addresses that DHCP may give to a UUID

ASSUME NamesConstants ==
  /\ NameOf \in [VMs -> Names]
  /\ UUIDOf \in [VMs -> UUIDs]
  /\ Offers \in [UUIDs -> SUBSET (Addresses \ {HostAddress})]
  /\ Callers = VMs \cup Handlers
  /\ VMs \cap Handlers = {}
  /\ Nil \notin VMs

VARIABLES
  active,    \* Daemon.Active
  mutex,     \* Daemon.Mutex: the VM whose goroutine holds it, or Nil
  pc,        \* where each VM and each handler stands
  ip,        \* the address that the guest was given
  publicIP,  \* VMInfo.PublicIP
  asks,      \* of each handler, the UUID in the URL, the caller, and the VM
  overtaken  \* history: the VMs of which a request was given up, or carried
             \* out for a handler after their deregistration had begun

daemonVars == <<active, mutex, pc, ip, publicIP, asks>>
vars == <<recordVars, daemonVars, overtaken>>

Guests == Addresses \ {HostAddress}

VMState == {"new", "refused", "looked", "registered", "up", "exited", "deregister", "gone"}
HandlerState == {"idle", "accepted", "fetched", "adding"}
NoAsk == [uuid |-> Nil, from |-> Nil, vm |-> Nil]

\* The mutex is held by the VM that is being deregistered, which alone asks etcd.
MutexOK ==
  \A v \in VMs : /\ mutex = v <=> pc[v] = "deregister"
                 /\ Pending(v) => pc[v] = "deregister"

\* What a handler knows of its request at each step.
AsksOK ==
  \A h \in Handlers : /\ pc[h] # "idle" => asks[h].uuid \in UUIDs
                      /\ asks[h].vm # Nil <=> pc[h] \in {"fetched", "adding"}
                      /\ Pending(h) => pc[h] = "adding"

TypeOK ==
  /\ RecordsTypeOK
  /\ active \in [UUIDs -> VMs \cup {Nil}]
  /\ mutex \in VMs \cup {Nil}
  /\ pc \in [Callers -> VMState \cup HandlerState]
  /\ ip \in [VMs -> Guests \cup {Nil}]
  /\ publicIP \in [VMs -> Guests \cup {Nil}]
  /\ asks \in [Handlers -> [uuid : UUIDs \cup {Nil}, vm : VMs \cup {Nil},
                            from : Guests \cup {Nil}]]
  /\ overtaken \subseteq VMs
  /\ MutexOK
  /\ AsksOK

Init ==
  /\ store = HostStore
  /\ todo = [c \in Callers |-> <<>>]
  /\ late = {}
  /\ active = [u \in UUIDs |-> Nil]
  /\ mutex = Nil
  /\ pc = [c \in Callers |-> IF c \in VMs THEN "new" ELSE "idle"]
  /\ ip = [v \in VMs |-> Nil]
  /\ publicIP = [v \in VMs |-> Nil]
  /\ asks = [h \in Handlers |-> NoAsk]
  /\ overtaken = {}

Goto(c, from, to) == pc[c] = from /\ pc' = [pc EXCEPT ![c] = to]

Registered == {v \in VMs : active[UUIDOf[v]] = v}

-----------------------------------------------------------------------------
(***************************************************************************)
(* A VM                                                                    *)
(***************************************************************************)

\* A mutant: the daemon's own name is not reserved.
ClashOfVMs(v) ==
  \/ active[UUIDOf[v]] # Nil
  \/ \E w \in Registered : NameOf[w] = NameOf[v]

\* lookup, or the name of the daemon.
Clash(v) ==
  \/ NameOf[v] = Reserved
  \/ active[UUIDOf[v]] # Nil
  \/ \E w \in Registered : NameOf[w] = NameOf[v]

Lookup(v) ==
  /\ mutex = Nil
  /\ IF Clash(v) THEN Goto(v, "new", "refused") ELSE Goto(v, "new", "looked")
  /\ UNCHANGED <<recordVars, active, mutex, ip, publicIP, asks, overtaken>>

\* The map is written after lookup released the mutex.
Register(v) ==
  /\ Goto(v, "looked", "registered")
  /\ active' = [active EXCEPT ![UUIDOf[v]] = v]
  /\ UNCHANGED <<recordVars, mutex, ip, publicIP, asks, overtaken>>

\* The DHCP server of the host binds an address to a MAC address, hence to a
\* UUID, for longer than a VM takes to leave the registry.
Leased(v) == {ip[w] : w \in {w \in VMs : /\ UUIDOf[w] # UUIDOf[v]
                                         /\ pc[w] \in {"up", "exited", "deregister"}}}

Boot(v) ==
  /\ mutex = Nil
  /\ Goto(v, "registered", "up")
  /\ \E a \in Offers[UUIDOf[v]] \ Leased(v) : ip' = [ip EXCEPT ![v] = a]
  /\ UNCHANGED <<recordVars, active, mutex, publicIP, asks, overtaken>>

\* The guest pings, and the goroutine of Run stores its address.
CallBack(v) ==
  /\ pc[v] = "up"
  /\ mutex = Nil
  /\ v \in Registered
  /\ publicIP' = [publicIP EXCEPT ![v] = ip[v]]
  /\ UNCHANGED <<recordVars, active, mutex, pc, ip, asks, overtaken>>

Exit(v) ==
  /\ Goto(v, "up", "exited")
  /\ UNCHANGED <<recordVars, active, mutex, ip, publicIP, asks, overtaken>>

\* A mutant: the VM leaves the registry before its records do.
DeregisterFirst(v) ==
  /\ mutex = Nil
  /\ Goto(v, "exited", "deregister")
  /\ mutex' = v
  /\ active' = [active EXCEPT ![UUIDOf[v]] = Nil]
  /\ todo' = [todo EXCEPT ![v] = rmRecord(NameOf[v], publicIP[v])]
  /\ UNCHANGED <<store, late, ip, publicIP, asks, overtaken>>

\* The goroutine that waited for the hypervisor locks the mutex and calls
\* deregister, which removes the records first and ignores their errors.
Deregister(v) ==
  /\ mutex = Nil
  /\ Goto(v, "exited", "deregister")
  /\ mutex' = v
  /\ todo' = [todo EXCEPT ![v] = rmRecord(NameOf[v], publicIP[v])]
  /\ UNCHANGED <<store, late, active, ip, publicIP, asks, overtaken>>

Deregistered(v) ==
  /\ ~Pending(v)
  /\ Goto(v, "deregister", "gone")
  /\ active' = [active EXCEPT ![UUIDOf[v]] = Nil]
  /\ mutex' = Nil
  /\ UNCHANGED <<recordVars, ip, publicIP, asks, overtaken>>

VM(v) == \/ Lookup(v) \/ Register(v) \/ Boot(v) \/ CallBack(v) \/ Exit(v)
         \/ Deregister(v) \/ Deregistered(v)

-----------------------------------------------------------------------------
(***************************************************************************)
(* The handler of /ignition                                                *)
(***************************************************************************)

\* acceptableRequest: a guest asks for the configuration of its UUID.
Accept(h) ==
  /\ Goto(h, "idle", "accepted")
  /\ \E v \in VMs :
       /\ pc[v] = "up"
       /\ active[UUIDOf[v]] # Nil
       /\ asks' = [asks EXCEPT ![h] = [NoAsk EXCEPT !.uuid = UUIDOf[v], !.from = ip[v]]]
  /\ UNCHANGED <<recordVars, active, mutex, ip, publicIP, overtaken>>

\* A mutant: the second answer of the map is trusted.
FetchBlind(h) ==
  /\ Goto(h, "accepted", "fetched")
  /\ asks' = [asks EXCEPT ![h].vm = active[asks[h].uuid]]
  /\ UNCHANGED <<recordVars, active, mutex, ip, publicIP, overtaken>>

\* The map is read a second time: a VM that left in between is a nil pointer,
\* and the panic ends the handler alone.
Fetch(h) ==
  LET v == active[asks[h].uuid] IN
  /\ Goto(h, "accepted", IF v = Nil THEN "idle" ELSE "fetched")
  /\ asks' = [asks EXCEPT ![h] = IF v = Nil THEN NoAsk ELSE [@ EXCEPT !.vm = v]]
  /\ UNCHANGED <<recordVars, active, mutex, ip, publicIP, overtaken>>

\* The configuration is rendered and written to the guest; when that fails, or
\* when it was the host that asked, over the loopback interface, no record is
\* added.
Render(h) ==
  /\ \/ /\ Goto(h, "fetched", "adding")
        /\ todo' = [todo EXCEPT ![h] = addRecord(NameOf[asks[h].vm], asks[h].from)]
        /\ UNCHANGED asks
     \/ /\ Goto(h, "fetched", "idle")
        /\ asks' = [asks EXCEPT ![h] = NoAsk]
        /\ UNCHANGED todo
  /\ UNCHANGED <<store, late, active, mutex, ip, publicIP, overtaken>>

Return(h) ==
  /\ ~Pending(h)
  /\ Goto(h, "adding", "idle")
  /\ asks' = [asks EXCEPT ![h] = NoAsk]
  /\ UNCHANGED <<recordVars, active, mutex, ip, publicIP, overtaken>>

Handler(h) == Accept(h) \/ Fetch(h) \/ Render(h) \/ Return(h)

-----------------------------------------------------------------------------
\* The VM that a request of c is about.
Subject(c) == IF c \in VMs THEN c ELSE asks[c].vm

Leaving == {v \in VMs : pc[v] \in {"deregister", "gone"}}

Reply(c) ==
  /\ Answered(c)
  /\ overtaken' = IF c \in Handlers THEN overtaken \cup ({Subject(c)} \cap Leaving) ELSE overtaken
  /\ UNCHANGED daemonVars

GiveUp(c) ==
  /\ \/ Refused(c) /\ UNCHANGED overtaken
     \/ TimedOut(c) /\ overtaken' = overtaken \cup {Subject(c)}
  /\ UNCHANGED daemonVars

LateReply ==
  /\ \E r \in late : LateApplied(r)
  /\ UNCHANGED <<daemonVars, overtaken>>

Next ==
  \/ \E v \in VMs : VM(v)
  \/ \E h \in Handlers : Handler(h)
  \/ \E c \in Callers : Reply(c) \/ GiveUp(c)
  \/ LateReply

Spec == Init /\ [][Next]_vars

\* The goroutines run on, and the client's timer fires: etcd owes nothing.
FairSpec ==
  /\ Spec
  /\ \A v \in VMs : WF_vars(Deregister(v) \/ GiveUp(v) \/ Deregistered(v))
  /\ \A h \in Handlers : WF_vars(Fetch(h) \/ Render(h) \/ GiveUp(h) \/ Return(h))

-----------------------------------------------------------------------------
\* The host keeps its name: no VM's record takes its place and no
\* deregistration removes it (register, addRecord, rmRecord).
HostIsNamed == store[Path(Reserved)] = HostAddress

\* An alias of the host's name: another name with the same key.
AliasOfHost(n) == n # Reserved /\ Path(n) = Path(Reserved)

\* The host loses its name only where a VM got past lookup under an alias of
\* it: register compares names where etcd compares keys.  No order of requests
\* that are late, lost or refused costs the host its record otherwise.
HostLostToAliasOnly ==
  HostIsNamed \/ \E v \in VMs : pc[v] \notin {"new", "refused"} /\ AliasOfHost(NameOf[v])

\* A name that leads to a guest which is gone was written by a handler that
\* deregister overtook, or is there for want of an answer from etcd: addRecord
\* and rmRecord, whose errors nobody reads, leave it in no other case.  The
\* record may be that of another VM with the same key and address.
StaleOnlyIfOvertaken ==
  \A v \in VMs \ overtaken :
    (pc[v] = "gone" /\ store[Path(NameOf[v])] = ip[v]) =>
      \E w \in VMs \ {v} : Path(NameOf[w]) = Path(NameOf[v]) /\ ip[w] = ip[v]

\* The name of a registered guest is removed by its own deregistration alone,
\* never by that of the VM which had the name before: deregister removes the
\* record before it gives the name up.  Two VMs that are registered under one
\* key, by a race of lookups or by two spellings of a name, lose this.
NameOutlivesOthers ==
  [][\A v \in Registered :
       (store[Path(NameOf[v])] = ip[v] /\ IsFile(Path(NameOf[v])) /\ store'[Path(NameOf[v])] = Nil) =>
         \/ mutex = v
         \/ late # {}
         \/ \E w \in Registered \ {v} : Path(NameOf[w]) = Path(NameOf[v])]_vars

\* Though deregister asks etcd with Daemon.Mutex held, an etcd that answers
\* nothing keeps no VM in the registry once its hypervisor ended (again and
\* again none is on its way out), and no handler from its end.
EtcdCannotBlock ==
  /\ []<>(\A v \in VMs : pc[v] \notin {"exited", "deregister"})
  /\ \A h \in Handlers : pc[h] = "accepted" ~> pc[h] = "idle"
=============================================================================
