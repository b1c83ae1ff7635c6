---------------------------- MODULE VMLifecycle ----------------------------
(***************************************************************************)
(* The life of a VM inside corectld: the Run request that registers and    *)
(* launches it, the two goroutines that request leaves behind (one waits   *)
(* for the guest's address, one waits for the hypervisor process), the     *)
(* guest's HTTP callbacks, and the requests that halt VMs (StopVMs, Stop,  *)
(* the signal handler).  They share Daemon.Active, a Go map that is read   *)
(* mostly without Daemon.Mutex, and the channels of each VMInfo.           *)
(*                                                                         *)
(* A step is a stretch of code between two points at which another         *)
(* goroutine can interfere.  A critical section that cannot block is one   *)
(* step, guarded by the mutex being free; the mutex outlives a step only   *)
(* when its holder blocks or panics inside the section.  net/http recovers *)
(* a panic in a handler; a panic in any other goroutine ends the process.  *)
(***************************************************************************)
EXTENDS Naturals, Sequences, FiniteSets

CONSTANTS
  VMs,          \* the VMInfo objects: one per Run request
  Ids,          \* what names and UUIDs are drawn from (a name defaults to the UUID)
  UUIDOf,       \* VMInfo.UUID
  NameOf,       \* VMInfo.Name
  ReservedName, \* "corectld", refused by register
  Requests,     \* the HTTP requests that guests make
  RequestKind,  \* "ping" or "NotIsolated"
  Stoppers,     \* the StopVMs and Stop requests, and the signal goroutine
  StopKind,     \* "halt" and "panic" (StopVMs, forced or not), "stop", "signal"
  Target,       \* the name or UUID a StopVMs names, Nil for --all and --random
  Deaf,         \* the VMs that may ignore SIGTERM for ever
  Nil

ASSUME ConstantsAssumption ==
  /\ IsFiniteSet(VMs)
  /\ UUIDOf \in [VMs -> Ids]
  /\ NameOf \in [VMs -> Ids]
  /\ RequestKind \in [Requests -> {"ping", "NotIsolated"}]
  /\ StopKind \in [Stoppers -> {"halt", "panic", "stop", "signal"}]
  /\ Target \in [Stoppers -> Ids \cup {Nil}]
  /\ \A s \in Stoppers : StopKind[s] \in {"stop", "signal"} => Target[s] = Nil
  /\ Deaf \subseteq VMs
  /\ Nil \notin VMs \cup Ids \cup Requests

VARIABLES
  active,     \* Daemon.Active: UUID -> the registered VMInfo, or Nil
  mutex,      \* the request that holds Daemon.Mutex across steps, or Nil
  accepting,  \* Daemon.AcceptingRequests
  jobs,       \* Daemon.Jobs: the goroutines it counts (the counter is the size)
  daemon,     \* the process: "up", "crashed" or "exited"
  vm,         \* the VMInfo fields the goroutines share
  run,        \* where the Run request of each VM stands
  watcher,    \* the goroutine that waits for the address or the timeout
  keeper,     \* the goroutine that starts and reaps the hypervisor
  proc,       \* the hypervisor process; "none" while exec.Process is nil
  req,        \* the guests' HTTP requests
  stop        \* the stoppers

serverVars == <<active, mutex, accepting, jobs, daemon>>
vars == <<serverVars, vm, run, watcher, keeper, proc, req, stop>>

(***************************************************************************)
(* State.  An address is named by the VM it belongs to.  publicIPCh and    *)
(* errCh have capacity 1.  publicIPCh is closed together with done.        *)
(***************************************************************************)
Address == VMs \cup {Nil}

VMInfo == [born : Nat,                  \* CreationTime, as a rank; 0 while unset
           ip : Address,                \* PublicIP
           ipCh : Address,              \* what publicIPCh holds
           received : Address,          \* taken from publicIPCh, not yet stored
           errCh : {"none", "start", "timeout"},
           done : BOOLEAN,              \* done (and publicIPCh) closed
           callBack : BOOLEAN,          \* the sync.Once of /ping
           isolationCheck : BOOLEAN,    \* the sync.Once of /NotIsolated
           notIsolated : BOOLEAN]

RunState == {"idle", "accepted", "unclaimed", "registered", "waiting",
             "refused", "stranded", "ok", "tooEarly", "error"}
WatcherState == {"none", "waiting", "received", "recorded", "terminating", "finished"}
KeeperState == {"none", "spawned", "counted", "waiting", "reaped",
                "deregistered", "finished"}
ProcState == {"none", "running", "termed", "killed", "exited"}
ReqState == {"idle", "checked", "fetched", "sending", "done", "panicked"}
StopState == {"idle", "accepted", "closed", "walking", "terming", "polling",
              "finished", "notified", "refused", "panicked"}

ServerTypeOK ==
  /\ active \in [Ids -> VMs \cup {Nil}]
  /\ mutex \in Requests \cup {Nil}
  /\ accepting \in BOOLEAN
  /\ jobs \in SUBSET VMs
  /\ daemon \in {"up", "crashed", "exited"}

VMTypeOK ==
  /\ vm \in [VMs -> VMInfo]
  /\ run \in [VMs -> RunState]
  /\ watcher \in [VMs -> WatcherState]
  /\ keeper \in [VMs -> KeeperState]
  /\ proc \in [VMs -> ProcState]

ReqTypeOK ==
  /\ req \in [Requests -> [pc : ReqState, from : Address, vm : Address, to : Address]]
  /\ \A q \in Requests :
       /\ req[q].pc # "idle" => req[q].from \in VMs
       /\ req[q].pc \in {"fetched", "sending"} => req[q].vm \in VMs
       /\ req[q].pc = "sending" => req[q].to \in VMs

StopTypeOK ==
  /\ stop \in [Stoppers -> [pc : StopState, list : Seq(VMs), cur : Address]]
  /\ \A s \in Stoppers :
       /\ stop[s].pc \in {"walking", "terming", "polling"} => stop[s].list # <<>>
       /\ stop[s].pc \in {"terming", "polling"} => stop[s].cur \in VMs

TypeOK == ServerTypeOK /\ VMTypeOK /\ ReqTypeOK /\ StopTypeOK

Init ==
  /\ active = [u \in Ids |-> Nil]
  /\ mutex = Nil
  /\ accepting = TRUE
  /\ jobs = {}
  /\ daemon = "up"
  /\ vm = [v \in VMs |-> [born |-> 0, ip |-> Nil, ipCh |-> Nil, received |-> Nil,
                          errCh |-> "none", done |-> FALSE, callBack |-> FALSE,
                          isolationCheck |-> FALSE, notIsolated |-> FALSE]]
  /\ run = [v \in VMs |-> "idle"]
  /\ watcher = [v \in VMs |-> "none"]
  /\ keeper = [v \in VMs |-> "none"]
  /\ proc = [v \in VMs |-> "none"]
  /\ req = [q \in Requests |-> [pc |-> "idle", from |-> Nil, vm |-> Nil, to |-> Nil]]
  /\ stop = [s \in Stoppers |-> [pc |-> "idle", list |-> <<>>, cur |-> Nil]]

Registered == {v \in VMs : active[UUIDOf[v]] = v}

Alive(v) == proc[v] \in {"running", "termed", "killed"}

Started(v) == proc[v] # "none"   \* exec.Process is set

SignalledNever(p) == p               \* mutant: SIGTERM is not sent
Signalled(p) == IF p = "running" THEN "termed" ELSE p

Killed(p) == IF p \in {"running", "termed"} THEN "killed" ELSE p

-----------------------------------------------------------------------------
(***************************************************************************)
(* RPCservice.Run                                                          *)
(***************************************************************************)

RunAccept(v) ==
  /\ run[v] = "idle"
  /\ run' = [run EXCEPT ![v] = IF accepting THEN "accepted" ELSE "refused"]
  /\ UNCHANGED <<serverVars, vm, watcher, keeper, proc, req, stop>>

\* lookup: the mutex is released again before register writes the map.
Clash(v) ==
  \/ active[UUIDOf[v]] # Nil
  \/ \E w \in Registered : NameOf[w] = NameOf[v]

RunReserved(v) ==
  /\ run[v] = "accepted"
  /\ NameOf[v] = ReservedName
  /\ run' = [run EXCEPT ![v] = "refused"]
  /\ UNCHANGED <<serverVars, vm, watcher, keeper, proc, req, stop>>

RunLookup(v) ==
  /\ run[v] = "accepted"
  /\ NameOf[v] # ReservedName
  /\ mutex = Nil
  /\ run' = [run EXCEPT ![v] = IF Clash(v) THEN "refused" ELSE "unclaimed"]
  /\ UNCHANGED <<serverVars, vm, watcher, keeper, proc, req, stop>>

RunRegister(v) ==
  /\ run[v] = "unclaimed"
  /\ active' = [active EXCEPT ![UUIDOf[v]] = v]
  /\ run' = [run EXCEPT ![v] = "registered"]
  /\ UNCHANGED <<mutex, accepting, jobs, daemon, vm, watcher, keeper, proc, req, stop>>

\* MkRunDir fails: Run returns the error and leaves the VM registered.
RunStrand(v) ==
  /\ run[v] = "registered"
  /\ run' = [run EXCEPT ![v] = "stranded"]
  /\ UNCHANGED <<serverVars, vm, watcher, keeper, proc, req, stop>>

RunLaunch(v) ==
  /\ run[v] = "registered"
  /\ run' = [run EXCEPT ![v] = "waiting"]
  /\ vm' = [vm EXCEPT ![v].born = 1 + Cardinality({w \in VMs : vm[w].born # 0})]
  /\ watcher' = [watcher EXCEPT ![v] = "waiting"]
  /\ keeper' = [keeper EXCEPT ![v] = "spawned"]
  /\ UNCHANGED <<serverVars, proc, req, stop>>

BootedOnCall(v) == vm[v].callBack   \* mutant: answers as soon as the guest calls
Booted(v) == vm[v].done

RunReply(v) ==
  /\ run[v] = "waiting"
  /\ \/ /\ Booted(v)
        /\ run' = [run EXCEPT ![v] = IF vm[v].ip = Nil THEN "tooEarly" ELSE "ok"]
        /\ UNCHANGED vm
     \/ /\ vm[v].errCh # "none"
        /\ run' = [run EXCEPT ![v] = "error"]
        /\ vm' = [vm EXCEPT ![v].errCh = "none"]
  /\ UNCHANGED <<serverVars, watcher, keeper, proc, req, stop>>

\* The Run request once its handler is running.
RunStep(v) ==
  \/ RunReserved(v)
  \/ RunLookup(v)
  \/ RunRegister(v)
  \/ RunStrand(v)
  \/ RunLaunch(v)
  \/ RunReply(v)

-----------------------------------------------------------------------------
(***************************************************************************)
(* The goroutine that waits for the guest to call back, or for the timeout *)
(***************************************************************************)

WatchReceive(v) ==
  /\ watcher[v] = "waiting"
  /\ vm[v].ipCh # Nil
  /\ watcher' = [watcher EXCEPT ![v] = "received"]
  /\ vm' = [vm EXCEPT ![v].received = vm[v].ipCh, ![v].ipCh = Nil]
  /\ UNCHANGED <<serverVars, run, keeper, proc, req, stop>>

\* The mutex is held across a step only while a handler's send blocks, or
\* for ever after a handler panicked inside its critical section.
WatchRecord(v) ==
  /\ watcher[v] = "received"
  /\ mutex = Nil
  /\ \/ /\ Started(v)
        /\ vm' = [vm EXCEPT ![v].ip = vm[v].received, ![v].received = Nil]
        /\ watcher' = [watcher EXCEPT ![v] = "recorded"]
        /\ UNCHANGED daemon
     \/ /\ ~Started(v)                    \* exec.Process.Pid of a nil Process
        /\ daemon' = "crashed"
        /\ UNCHANGED <<vm, watcher>>
  /\ UNCHANGED <<active, mutex, accepting, jobs, run, keeper, proc, req, stop>>

\* Closing publicIPCh panics the handler whose send is blocked on it.
WatchClose(v) ==
  /\ watcher[v] = "recorded"
  /\ watcher' = [watcher EXCEPT ![v] = "finished"]
  /\ vm' = [vm EXCEPT ![v].done = TRUE]
  /\ req' = [q \in Requests |-> IF req[q].pc = "sending" /\ req[q].to = v
                                 THEN [req[q] EXCEPT !.pc = "panicked"] ELSE req[q]]
  /\ UNCHANGED <<serverVars, run, keeper, proc, stop>>

WatchTimeout(v) ==
  /\ watcher[v] = "waiting"
  /\ \/ /\ Started(v)
        /\ proc' = [proc EXCEPT ![v] = Signalled(@)]
        /\ watcher' = [watcher EXCEPT ![v] = "terminating"]
        /\ UNCHANGED daemon
     \/ /\ ~Started(v)
        /\ daemon' = "crashed"
        /\ UNCHANGED <<proc, watcher>>
  /\ UNCHANGED <<active, mutex, accepting, jobs, vm, run, keeper, req, stop>>

AbortedSilently(v) == vm            \* mutant: the timeout is not reported
Aborted(v) == [vm EXCEPT ![v].errCh = "timeout"]

\* Only this goroutine closes done, so here gracefullyShutdown always times out.
WatchKill(v) ==
  /\ watcher[v] = "terminating"
  /\ vm[v].errCh = "none"
  /\ proc' = [proc EXCEPT ![v] = Killed(@)]
  /\ vm' = Aborted(v)
  /\ watcher' = [watcher EXCEPT ![v] = "finished"]
  /\ UNCHANGED <<serverVars, run, keeper, req, stop>>

Watcher(v) ==
  \/ WatchReceive(v)
  \/ WatchRecord(v)
  \/ WatchClose(v)
  \/ WatchTimeout(v)
  \/ WatchKill(v)

-----------------------------------------------------------------------------
(***************************************************************************)
(* The goroutine that starts the hypervisor and outlives it                *)
(***************************************************************************)

KeeperAdd(v) ==
  /\ keeper[v] = "spawned"
  /\ keeper' = [keeper EXCEPT ![v] = "counted"]
  /\ jobs' = jobs \cup {v}
  /\ UNCHANGED <<active, mutex, accepting, daemon, vm, run, watcher, proc, req, stop>>

KeeperStart(v) ==
  /\ keeper[v] = "counted"
  /\ mutex = Nil
  /\ \/ /\ proc' = [proc EXCEPT ![v] = "running"]
        /\ keeper' = [keeper EXCEPT ![v] = "waiting"]
        /\ UNCHANGED vm
     \/ /\ vm[v].errCh = "none"            \* Start failed, and Wait has nothing to wait for
        /\ vm' = [vm EXCEPT ![v].errCh = "start"]
        /\ keeper' = [keeper EXCEPT ![v] = "reaped"]
        /\ UNCHANGED proc
  /\ UNCHANGED <<serverVars, run, watcher, req, stop>>

ReapableAtOnce(v) == TRUE           \* mutant: Wait does not wait
Reapable(v) == proc[v] = "exited"

KeeperReap(v) ==
  /\ keeper[v] = "waiting"
  /\ Reapable(v)
  /\ keeper' = [keeper EXCEPT ![v] = "reaped"]
  /\ UNCHANGED <<serverVars, vm, run, watcher, proc, req, stop>>

RemovedIfBooted(v) ==               \* mutant: a VM without an address stays
  [active EXCEPT ![UUIDOf[v]] = IF vm[v].ip = Nil THEN @ ELSE Nil]
RemovedByName(v) ==                 \* mutant: deletes by name
  [active EXCEPT ![NameOf[v]] = Nil]
Removed(v) == [active EXCEPT ![UUIDOf[v]] = Nil]

\* The map entry is deleted by UUID, whichever VM it holds by now.
Deregister(v) ==
  /\ keeper[v] = "reaped"
  /\ mutex = Nil
  /\ active' = Removed(v)
  /\ keeper' = [keeper EXCEPT ![v] = "deregistered"]
  /\ UNCHANGED <<mutex, accepting, jobs, daemon, vm, run, watcher, proc, req, stop>>

KeeperDone(v) ==
  /\ keeper[v] = "deregistered"
  /\ keeper' = [keeper EXCEPT ![v] = "finished"]
  /\ jobs' = jobs \ {v}
  /\ UNCHANGED <<active, mutex, accepting, daemon, vm, run, watcher, proc, req, stop>>

Keeper(v) ==
  \/ KeeperAdd(v)
  \/ KeeperStart(v)
  \/ KeeperReap(v)
  \/ Deregister(v)
  \/ KeeperDone(v)

\* The guest powers off, the hypervisor fails, or a signal is obeyed.  The
\* hypervisor has a process group of its own: it does not need the daemon.
ProcExit(v) ==
  /\ Alive(v)
  /\ proc' = [proc EXCEPT ![v] = "exited"]
  /\ UNCHANGED <<serverVars, vm, run, watcher, keeper, req, stop>>

-----------------------------------------------------------------------------
(***************************************************************************)
(* /{uuid}/ping and /{uuid}/NotIsolated                                    *)
(***************************************************************************)

\* The guest's units ask for /NotIsolated once its /ping was answered.
MayCall(q, v) ==
  /\ Started(v)
  /\ RequestKind[q] = "NotIsolated" =>
       \E p \in Requests : /\ RequestKind[p] = "ping"
                          /\ req[p].from = v
                          /\ req[p].pc = "done"

\* acceptableRequest, which answers 404 for an unknown UUID.
Arrive(q) ==
  /\ req[q].pc = "idle"
  /\ \E v \in VMs :
       /\ MayCall(q, v)
       /\ LET pc == IF active[UUIDOf[v]] = Nil THEN "done" ELSE "checked"
          IN  req' = [req EXCEPT ![q] = [pc |-> pc, from |-> v, vm |-> Nil, to |-> Nil]]
  /\ UNCHANGED <<serverVars, vm, run, watcher, keeper, proc, stop>>

\* The handler looks the VM up again; the entry may be gone by now.
Fetch(q) ==
  /\ req[q].pc = "checked"
  /\ LET x == active[UUIDOf[req[q].from]]
     IN  req' = [req EXCEPT ![q].vm = x, ![q].pc = IF x = Nil THEN "panicked" ELSE "fetched"]
  /\ UNCHANGED <<serverVars, vm, run, watcher, keeper, proc, stop>>

OnceNever(q) == FALSE               \* mutant: every callback runs the body
Once(q) == IF RequestKind[q] = "ping" THEN vm[req[q].vm].callBack
                                      ELSE vm[req[q].vm].isolationCheck

OnceSet(q, v) == IF RequestKind[q] = "ping" THEN [vm EXCEPT ![v].callBack = TRUE]
                                            ELSE [vm EXCEPT ![v].isolationCheck = TRUE]

\* sync.Once.Do returns at once when it ran before, after the run it overlaps.
AlreadyCalled(q) ==
  /\ req[q].pc = "fetched"
  /\ Once(q)
  /\ \A p \in Requests : req[p].pc = "sending" => req[p].vm # req[q].vm
  /\ req' = [req EXCEPT ![q].pc = "done"]
  /\ UNCHANGED <<serverVars, vm, run, watcher, keeper, proc, stop>>

\* The body of the Once: the mutex, a third lookup, and the effect.
Enter(q) ==
  /\ req[q].pc = "fetched"
  /\ ~Once(q)
  /\ mutex = Nil
  /\ UNCHANGED <<active, accepting, jobs, daemon, run, watcher, keeper, proc, stop>>

RecipientByName(q) ==               \* mutant: any VM of the caller's name
  LET like == {x \in Registered : NameOf[x] = NameOf[req[q].vm]}
  IN  IF like = {} THEN Nil ELSE CHOOSE x \in like : TRUE
Recipient(q) == active[UUIDOf[req[q].vm]]

\* A nil VM, or a send on the channel WatchClose closed: no defer unlocks.
DeliverPanic(q) ==
  /\ Enter(q)
  /\ Recipient(q) # Nil => RequestKind[q] = "ping" /\ vm[Recipient(q)].done
  /\ vm' = OnceSet(q, req[q].vm)
  /\ req' = [req EXCEPT ![q].pc = "panicked"]
  /\ mutex' = q

DeliverPing(q) ==
  /\ Enter(q)
  /\ RequestKind[q] = "ping"
  /\ LET x == Recipient(q)
     IN  /\ x # Nil
         /\ ~vm[x].done
         /\ \/ /\ vm[x].ipCh = Nil
               /\ vm' = [OnceSet(q, req[q].vm) EXCEPT ![x].ipCh = req[q].from]
               /\ req' = [req EXCEPT ![q].pc = "done"]
               /\ UNCHANGED mutex
            \/ /\ vm[x].ipCh # Nil
               /\ vm' = OnceSet(q, req[q].vm)
               /\ req' = [req EXCEPT ![q].pc = "sending", ![q].to = x]
               /\ mutex' = q

DeliverNotIsolated(q) ==
  /\ Enter(q)
  /\ RequestKind[q] = "NotIsolated"
  /\ LET x == Recipient(q)
     IN  /\ x # Nil
         /\ vm' = [OnceSet(q, req[q].vm) EXCEPT ![x].notIsolated = TRUE]
  /\ req' = [req EXCEPT ![q].pc = "done"]
  /\ UNCHANGED mutex

\* The send that found the channel full, and the mutex with it, until a
\* receive makes room.
SendComplete(q) ==
  /\ req[q].pc = "sending"
  /\ vm[req[q].to].ipCh = Nil
  /\ vm' = [vm EXCEPT ![req[q].to].ipCh = req[q].from]
  /\ req' = [req EXCEPT ![q].pc = "done"]
  /\ mutex' = Nil
  /\ UNCHANGED <<active, accepting, jobs, daemon, run, watcher, keeper, proc, stop>>

HTTP(q) ==
  \/ Fetch(q)
  \/ AlreadyCalled(q)
  \/ DeliverPanic(q)
  \/ DeliverPing(q)
  \/ DeliverNotIsolated(q)
  \/ SendComplete(q)

-----------------------------------------------------------------------------
(***************************************************************************)
(* StopVMs, Stop and the signal handler                                    *)
(***************************************************************************)

Forced(s) == StopKind[s] = "panic"

StopBegin(s) ==
  /\ stop[s].pc = "idle"
  /\ stop' = [stop EXCEPT ![s].pc =
                IF accepting \/ StopKind[s] = "signal" THEN "accepted" ELSE "refused"]
  /\ UNCHANGED <<serverVars, vm, run, watcher, keeper, proc, req>>

StopClose(s) ==
  /\ stop[s].pc = "accepted"
  /\ StopKind[s] = "stop"
  /\ mutex = Nil
  /\ accepting' = FALSE
  /\ stop' = [stop EXCEPT ![s].pc = "closed"]
  /\ UNCHANGED <<active, mutex, jobs, daemon, vm, run, watcher, keeper, proc, req>>

Targets(s) ==
  IF Target[s] = Nil THEN Registered
                     ELSE {v \in Registered : Target[s] \in {NameOf[v], UUIDOf[v]}}

\* ErrNothingToShutdown, and ErrUnknownVM unless the input names exactly one VM.
NoSuchVM(s) ==
  /\ StopKind[s] \in {"halt", "panic"}
  /\ IF Target[s] = Nil THEN Targets(s) = {} ELSE Cardinality(Targets(s)) # 1

\* sort.Reverse of Less, which compares creation times.
NewestFirst(T) ==
  {l \in [1 .. Cardinality(T) -> T] :
     \A i, j \in 1 .. Cardinality(T) :
       i < j => l[i] # l[j] /\ vm[l[i]].born >= vm[l[j]].born}

ReadyToPick(s) ==
  stop[s].pc = IF StopKind[s] = "stop" THEN "closed" ELSE "accepted"

StopRefuse(s) ==
  /\ ReadyToPick(s)
  /\ NoSuchVM(s)
  /\ stop' = [stop EXCEPT ![s].pc = "refused"]
  /\ UNCHANGED <<serverVars, vm, run, watcher, keeper, proc, req>>

AfterListOffByOne(l) == "walking"   \* mutant: the loop runs once more
AfterList(l) == IF l = <<>> THEN "finished" ELSE "walking"

\* Daemon.Active is read once, without the mutex.
Snapshot(s) ==
  /\ ReadyToPick(s)
  /\ ~Forced(s)
  /\ ~NoSuchVM(s)
  /\ \E l \in NewestFirst(Targets(s)) :
       stop' = [stop EXCEPT ![s] = [pc |-> AfterList(l), list |-> l, cur |-> Nil]]
  /\ UNCHANGED <<serverVars, vm, run, watcher, keeper, proc, req>>

Kill(s) ==
  /\ ReadyToPick(s)
  /\ Forced(s)
  /\ ~NoSuchVM(s)
  /\ \E v \in Targets(s) :
       /\ proc' = [proc EXCEPT ![v] = Killed(@)]
       /\ stop' = [stop EXCEPT ![s].pc = IF Started(v) THEN "finished" ELSE "panicked"]
  /\ UNCHANGED <<serverVars, vm, run, watcher, keeper, req>>

\* gracefullyShutdown finds the VM again in the map.  A nil VM or a nil
\* Process panics: in a handler the request dies, in the signal goroutine
\* the daemon does.
TermPanic(s) ==
  /\ stop[s].pc = "walking"
  /\ LET x == active[UUIDOf[Head(stop[s].list)]]
     IN  x # Nil => ~Started(x)
  /\ stop' = [stop EXCEPT ![s].pc = "panicked"]
  /\ daemon' = IF StopKind[s] = "signal" THEN "crashed" ELSE daemon
  /\ UNCHANGED <<active, mutex, accepting, jobs, vm, run, watcher, keeper, proc, req>>

Term(s) ==
  /\ stop[s].pc = "walking"
  /\ LET x == active[UUIDOf[Head(stop[s].list)]]
     IN  /\ x # Nil
         /\ Started(x)
         /\ proc' = [proc EXCEPT ![x] = Signalled(@)]
         /\ stop' = [stop EXCEPT ![s] = [pc |-> "terming", list |-> @.list, cur |-> x]]
  /\ UNCHANGED <<serverVars, vm, run, watcher, keeper, req>>

\* done was closed when the guest called back: it does not say the VM is gone.
TermDone(s) ==
  /\ stop[s].pc = "terming"
  /\ vm[stop[s].cur].done
  /\ stop' = [stop EXCEPT ![s].pc = "polling"]
  /\ UNCHANGED <<serverVars, vm, run, watcher, keeper, proc, req>>

\* The select is already satisfied when done was closed before ServerTimeout.
TermTimeout(s) ==
  /\ stop[s].pc = "terming"
  /\ ~vm[stop[s].cur].done
  /\ proc' = [proc EXCEPT ![stop[s].cur] = Killed(@)]
  /\ stop' = [stop EXCEPT ![s].pc = "polling"]
  /\ UNCHANGED <<serverVars, vm, run, watcher, keeper, req>>

GoneUnseen(s) == TRUE               \* mutant: does not look at the map
Gone(s) == active[UUIDOf[Head(stop[s].list)]] = Nil

Poll(s) ==
  /\ stop[s].pc = "polling"
  /\ mutex = Nil
  /\ Gone(s)
  /\ LET rest == Tail(stop[s].list)
     IN  stop' = [stop EXCEPT ![s] = [pc |-> AfterList(rest), list |-> rest, cur |-> Nil]]
  /\ UNCHANGED <<serverVars, vm, run, watcher, keeper, proc, req>>

Stopper(s) ==
  \/ StopClose(s)
  \/ StopRefuse(s)
  \/ Snapshot(s)
  \/ Kill(s)
  \/ TermPanic(s)
  \/ Term(s)
  \/ TermDone(s)
  \/ TermTimeout(s)
  \/ Poll(s)

-----------------------------------------------------------------------------
(***************************************************************************)
(* server.Start: how the main goroutine ends what the others work in.      *)
(* Module Daemon says when it does.                                        *)
(***************************************************************************)

Refuse ==
  /\ mutex = Nil
  /\ accepting' = FALSE
  /\ UNCHANGED <<active, mutex, jobs, daemon, vm, run, watcher, keeper, proc, req, stop>>

Leave(how) ==
  /\ daemon' = how
  /\ UNCHANGED <<active, mutex, accepting, jobs, vm, run, watcher, keeper, proc, req, stop>>

\* Stop tells the main goroutine that the VMs are gone.
Notify(s) ==
  /\ stop[s].pc = "finished"
  /\ StopKind[s] = "stop"
  /\ stop' = [stop EXCEPT ![s].pc = "notified"]
  /\ UNCHANGED <<serverVars, vm, run, watcher, keeper, proc, req>>

Start ==
  \/ Refuse
  \/ \E how \in {"crashed", "exited"} : Leave(how)
  \/ \E s \in Stoppers : Notify(s)

\* What the outside asks for: it may do so or not.
Arrival ==
  \/ \E v \in VMs : RunAccept(v)
  \/ \E q \in Requests : Arrive(q)
  \/ \E s \in Stoppers : StopBegin(s)

Goroutine ==
  \/ \E v \in VMs : RunStep(v) \/ Watcher(v) \/ Keeper(v)
  \/ \E q \in Requests : HTTP(q)
  \/ \E s \in Stoppers : Stopper(s)

Next ==
  \/ daemon = "up" /\ (Arrival \/ Goroutine \/ Start)
  \/ \E v \in VMs : ProcExit(v)

Spec == Init /\ [][Next]_vars

(***************************************************************************)
(* Fairness.  The Go scheduler runs every goroutine that can run, timers   *)
(* fire, a killed process exits, and one that is terminated does unless it *)
(* is deaf.  Nothing makes a request arrive or a guest call back.          *)
(***************************************************************************)
Up(A) == daemon = "up" /\ A

Fairness ==
  /\ \A v \in VMs : /\ WF_vars(Up(RunStep(v)))
                   /\ WF_vars(Up(Watcher(v)))
                   /\ WF_vars(Up(Keeper(v)))
                   /\ WF_vars(proc[v] = "killed" /\ ProcExit(v))
  /\ \A v \in VMs \ Deaf : WF_vars(proc[v] = "termed" /\ ProcExit(v))
  /\ \A q \in Requests : WF_vars(Up(HTTP(q)))
  /\ \A s \in Stoppers : WF_vars(Up(Stopper(s)))

FairSpec == Spec /\ Fairness

-----------------------------------------------------------------------------
(***************************************************************************)
(* Properties                                                              *)
(***************************************************************************)

\* A hypervisor that runs is in Daemon.Active under its own UUID, so that it
\* can be listed, halted and answered: register comes before Start, and
\* deregister after Wait, on every path of Run and its goroutines.
NoOrphan == \A v \in VMs : Alive(v) => active[UUIDOf[v]] = v

\* Daemon.Jobs counts the goroutine of every hypervisor that runs, so that
\* Jobs.Wait cannot return while one does.
JobsCoverRunning == \A v \in VMs : Alive(v) => v \in jobs

\* A Run is answered with the VM only when the guest's address is known, with
\* an error only when it never will be; "too early" is never the answer.
OneTrueAnswer ==
  \A v \in VMs :
    /\ run[v] = "ok" => vm[v].done /\ vm[v].ip # Nil
    /\ run[v] = "error" => ~vm[v].done
    /\ run[v] # "tooEarly"

\* A client sees what VMService promises, as long as no Run overwrites the entry
\* of another of its UUID: a VM is listed from before its hypervisor starts until
\* after it ended, and a Run is answered once, by what became of the guest.
Service == INSTANCE VMService WITH
  phase <- [v \in VMs |-> IF active[UUIDOf[v]] = v THEN "listed"
                          ELSE IF keeper[v] \in {"deregistered", "finished"} THEN "gone"
                          ELSE "absent"],
  hypervisor <- [v \in VMs |-> IF proc[v] = "none" THEN "none"
                               ELSE IF proc[v] = "exited" THEN "ended"
                               ELSE "running"],
  booted <- {v \in VMs : vm[v].done},
  answer <- [v \in VMs |-> IF run[v] \in {"refused", "ok"} THEN run[v]
                           ELSE IF run[v] \in {"stranded", "error", "tooEarly"} THEN "error"
                           ELSE "none"]

ServiceSpec == Service!Spec

\* The address a VM is given is that of a guest with its own UUID, although the
\* handler resolves the UUID three times.
AddressIsOwn == \A v \in VMs : vm[v].ip # Nil => UUIDOf[vm[v].ip] = UUIDOf[v]

\* Unless a UUID is used again, it is that of its own guest, and the goroutine
\* that stores it, WatchRecord, finds a hypervisor whose Pid it can read.
OwnGuestAnswers ==
  \A v \in VMs : vm[v].ip \in {v, Nil} /\ (watcher[v] = "received" => Started(v))

\* Daemon.Mutex is held across a step only by a handler that panicked, and
\* then because its guest's VM was deregistered under it; no send on
\* publicIPCh ever blocks with the mutex held.
MutexLostOnlyToDeadGuest ==
  mutex # Nil => /\ req[mutex].pc = "panicked"
                 /\ keeper[req[mutex].vm] \in {"deregistered", "finished"}

\* A halt or a stop moves on from a VM only when its hypervisor is gone.
MoveOnWhenGone ==
  [][\A s \in Stoppers :
       stop[s].pc = "polling" /\ stop'[s].pc # "polling" => proc[stop[s].cur] = "exited"]_vars

\* Every other goroutine may wait for this for ever.
Wedged == mutex # Nil

\* A Run that launched its VM is answered, unless the daemon dies or the
\* mutex is lost.
RunReplies ==
  \A v \in VMs : run[v] = "waiting" ~> (run[v] \in {"ok", "error"} \/ daemon # "up" \/ Wedged)

\* The entry of a hypervisor that exited is deleted, and its goroutine ends.
DeadVMDeregistered ==
  \A v \in VMs :
    proc[v] = "exited" ~> (v \notin Registered \cup jobs \/ daemon # "up" \/ Wedged)

\* A halt or a stop ends: every VM it targets leaves the map, by SIGTERM or by
\* SIGKILL after ServerTimeout.
HaltEnds ==
  \A s \in Stoppers :
    stop[s].pc = "walking" ~> (stop[s].pc \in {"finished", "panicked"} \/ daemon # "up" \/ Wedged)

-----------------------------------------------------------------------------
(***************************************************************************)
(* What the code says of itself and does not do                            *)
(***************************************************************************)

\* register: "Aborted: Another VM is already running with the same name or UUID".
NamesAreUnique == \A v, w \in Registered : NameOf[v] = NameOf[w] => v = w

\* gracefullyShutdown: "Attempting to halt ... with SIGTERM timed out, SIGKILLing
\* it now."
DeafIsKilled ==
  \A v \in VMs : proc[v] = "termed" ~> (proc[v] # "termed" \/ daemon # "up" \/ Wedged)

\* VMs.gracefullyShutdown: "shutting down ..." with the name of the VM it picked,
\* when StopVMs was asked for one by its name or UUID; the VM that it then
\* terminates is the one that the map holds under that UUID by now.  Theorem
\* HaltsNoOther names what this takes.
HaltsTheNamed ==
  [][\A s \in Stoppers :
       stop[s].pc = "walking" /\ stop'[s].pc = "terming" =>
         Target[s] \in {Nil, NameOf[stop'[s].cur], UUIDOf[stop'[s].cur]}]_vars

\* Run hands the error of exec.Start to the client and the goroutine deregisters
\* the VM "as it's gone": nothing is left of it that could end the daemon.
FailedStartHarmless ==
  daemon = "crashed" => \A v \in VMs : keeper[v] = "finished" => Started(v)

=============================================================================
