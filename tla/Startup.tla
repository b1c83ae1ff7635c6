------------------------------- MODULE Startup -------------------------------
(***************************************************************************)
(* corectld start: what a daemon does to its host before it serves and     *)
(* after, step by step, with the failure of each step, and what a crash at *)
(* any point leaves for the next start (serverStartCommand, server.Start,  *)
(* NewEtcd, NewDNSServer, nfsSetup and the deferred Stops).  While it      *)
(* serves, modules Daemon and Names have it.                               *)
(*                                                                         *)
(* What outlives a daemon: the records in etcd's data directory, the file  *)
(* /etc/resolver/corectld, /etc/exports and the nfsd of the host.  A line  *)
(* of /etc/exports is the user's, an older corectld's, or the signature of *)
(* this one; a file that does not exist yet is one without lines.          *)
(***************************************************************************)
EXTENDS Records

CONSTANTS
  Guest,  \* the name of a VM that runs in some session
  GuestAddress,
  ListFails  \* whether the list of the host's processes may fail

ASSUME StartupConstants ==
  /\ Guest \in Names
  /\ GuestAddress \in Addresses
  /\ Nil \notin Callers
  /\ ListFails \in BOOLEAN

Daemons == Callers  \* the processes; each sends requests of its own

VARIABLES
  pc,        \* where each process stands in Start
  lock,      \* the process that holds the lock on etcd's files, or Nil
  resolver,  \* whether /etc/resolver/corectld exists
  exports,   \* the lines of /etc/exports
  nfsd,      \* the host's NFS server: [up, serves]
  setup,     \* the locals of nfsSetup: [nfsIsRunning, shared, buf]
  working,   \* Daemon.WorkingNFS of the process that holds the lock
  slow,      \* history: this session gave up on a request to etcd
  torn,      \* history: a write of /etc/exports was cut short
  scar       \* history: since the resolver file was last removed, a process
             \* crashed or could not forward the port

hostVars == <<resolver, exports, nfsd>>
vars == <<recordVars, hostVars, pc, lock, setup, working, slow, torn, scar>>

Lines == {"user", "old", "signature"}
NoSetup == [nfsIsRunning |-> FALSE, shared |-> FALSE, buf |-> {}]

NFSState == {"read", "truncate", "fill", "check", "restore", "refill", "load"}
PC == {"off", "checked", "listen", "wipe", "port", "records", "resolver", "forward"}
      \cup NFSState \cup {"images", "serving", "dnsStop", "unresolve", "etcdStop"}

\* The steps that hold the lock.
Inside == PC \ {"off", "checked"}

Writing == {"fill", "refill"}

LockOK == \A d \in Daemons : lock = d <=> pc[d] \in Inside

StartupTypeOK ==
  /\ RecordsTypeOK
  /\ pc \in [Daemons -> PC]
  /\ lock \in Daemons \cup {Nil}
  /\ LockOK
  /\ resolver \in BOOLEAN
  /\ exports \subseteq Lines
  /\ nfsd \in [up : BOOLEAN, serves : SUBSET Lines]
  /\ setup \in [nfsIsRunning : BOOLEAN, shared : BOOLEAN, buf : SUBSET Lines]
  /\ working \in BOOLEAN
  /\ slow \in BOOLEAN
  /\ torn \in BOOLEAN
  /\ scar \in BOOLEAN

\* A host on which an older corectld may have run.
StartupInit ==
  /\ store = [k \in Keys |-> Nil]
  /\ todo = [d \in Daemons |-> <<>>]
  /\ late = {}
  /\ pc = [d \in Daemons |-> "off"]
  /\ lock = Nil
  /\ resolver = FALSE
  /\ exports \in {{"user"}, {"user", "old"}}
  /\ nfsd \in {[up |-> FALSE, serves |-> {}], [up |-> TRUE, serves |-> exports]}
  /\ setup = NoSetup
  /\ working = FALSE
  /\ slow = FALSE
  /\ torn = FALSE
  /\ scar = FALSE

Goto(d, from, to) == pc[d] = from /\ pc' = [pc EXCEPT ![d] = to]

-----------------------------------------------------------------------------
(***************************************************************************)
(* etcd and the records                                                    *)
(***************************************************************************)

\* Running: nobody answers on the daemon's port.
Start(d) ==
  /\ \A e \in Daemons : pc[e] # "serving"
  /\ Goto(d, "off", "checked")
  /\ UNCHANGED <<recordVars, hostVars, lock, setup, working, slow, torn, scar>>

\* A mutant: it does not wait.
NewServerAtOnce(d) ==
  /\ Goto(d, "checked", "listen")
  /\ lock' = d
  /\ slow' = FALSE
  /\ working' = FALSE
  /\ UNCHANGED <<recordVars, hostVars, setup, torn, scar>>

\* etcdserver.NewServer waits for the files of another etcd to be released.
NewServer(d) ==
  /\ lock = Nil
  /\ Goto(d, "checked", "listen")
  /\ lock' = d
  /\ slow' = FALSE
  /\ working' = FALSE
  /\ UNCHANGED <<recordVars, hostVars, setup, torn, scar>>

\* A mutant: the records of the last session stay.
ListenKeeping(d) ==
  /\ Goto(d, "listen", "port") \/ Goto(d, "listen", "etcdStop")
  /\ UNCHANGED <<recordVars, hostVars, lock, setup, working, slow, torn, scar>>

\* The port of etcd's clients, which another program may have.
Listen(d) ==
  /\ \/ Goto(d, "listen", "wipe") /\ todo' = [todo EXCEPT ![d] = <<Wipe>>]
     \/ Goto(d, "listen", "etcdStop") /\ UNCHANGED todo
  /\ UNCHANGED <<store, late, hostVars, lock, setup, working, slow, torn, scar>>

Unanswered(d) == \/ Refused(d) /\ UNCHANGED slow
                 \/ TimedOut(d) /\ slow' = TRUE

\* The result of the removal of /skydns is not looked at.
WipeRecords(d) ==
  /\ Goto(d, "wipe", "port")
  /\ (Answered(d) /\ UNCHANGED slow) \/ Unanswered(d)
  /\ UNCHANGED <<hostVars, lock, setup, working, torn, scar>>

\* isPortOpen: the port of the name server, too, may be taken.
CheckPort(d) ==
  /\ \/ /\ Goto(d, "port", "records")
        /\ todo' = [todo EXCEPT ![d] = addRecord(Reserved, HostAddress)
                                       \o addRecord(NameServer, HostAddress)]
     \/ Goto(d, "port", "etcdStop") /\ UNCHANGED todo
  /\ UNCHANGED <<store, late, hostVars, lock, setup, working, slow, torn, scar>>

AddRecords(d) ==
  /\ pc[d] = "records"
  /\ \/ Answered(d) /\ UNCHANGED <<pc, slow>>
     \/ Unanswered(d) /\ Goto(d, "records", "etcdStop")
     \/ ~Pending(d) /\ Goto(d, "records", "resolver") /\ UNCHANGED <<recordVars, slow>>
  /\ UNCHANGED <<hostVars, lock, setup, working, torn, scar>>

\* Start returns before the Stop of the name server is deferred.
CreateResolver(d) ==
  /\ \/ Goto(d, "resolver", "forward") /\ resolver' = TRUE
     \/ Goto(d, "resolver", "etcdStop") /\ UNCHANGED resolver
  /\ UNCHANGED <<recordVars, exports, nfsd, lock, setup, working, slow, torn, scar>>

PortForward(d) ==
  /\ \/ Goto(d, "forward", "read") /\ UNCHANGED scar
     \/ Goto(d, "forward", "etcdStop") /\ scar' = TRUE
  /\ UNCHANGED <<recordVars, hostVars, lock, setup, working, slow, torn>>

-----------------------------------------------------------------------------
(***************************************************************************)
(* nfsSetup: an error of it leaves WorkingNFS FALSE and Start goes on      *)
(***************************************************************************)

GiveUpNFS(d) == pc' = [pc EXCEPT ![d] = "images"]

\* Is nfsd running, does the file have the signature?  An error of the list of
\* processes is dropped: no nfsd is seen then.
ReadExports(d) ==
  /\ pc[d] = "read"
  /\ \/ /\ Goto(d, "read", IF "signature" \in exports THEN "check" ELSE "truncate")
        /\ \E seen \in BOOLEAN :
             /\ seen => nfsd.up
             /\ nfsd.up => seen \/ ListFails
             /\ setup' = [nfsIsRunning |-> seen, shared |-> "signature" \in exports,
                          buf |-> exports]
     \/ GiveUpNFS(d) /\ UNCHANGED setup
  /\ UNCHANGED <<recordVars, hostVars, lock, working, slow, torn, scar>>

\* WriteFile empties the file as it opens it, and then writes it.  A file that
\* it cannot open stays as it is; the rollback does not learn of it.
Truncate(d) ==
  /\ \/ Goto(d, "truncate", "fill") /\ exports' = {}
     \/ Goto(d, "restore", "refill") /\ exports' = {}
     \/ pc[d] \in {"truncate", "restore"} /\ GiveUpNFS(d) /\ UNCHANGED exports
  /\ UNCHANGED <<recordVars, resolver, nfsd, lock, setup, working, slow, torn, scar>>

\* The new contents: no lines of older versions, and the signature.
SignatureAlone == {"signature"}  \* a mutant: what was read is not written back
WithSignature == (setup.buf \ {"old"}) \cup {"signature"}

Fill(d) ==
  /\ pc[d] = "fill"
  /\ \/ Goto(d, "fill", "check") /\ exports' = WithSignature /\ UNCHANGED torn
     \/ GiveUpNFS(d) /\ torn' = TRUE /\ UNCHANGED exports
  /\ UNCHANGED <<recordVars, resolver, nfsd, lock, setup, working, slow, scar>>

exportsCheck(d) ==
  /\ Goto(d, "check", "load") \/ Goto(d, "check", "restore")
  /\ UNCHANGED <<recordVars, hostVars, lock, setup, working, slow, torn, scar>>

\* A mutant: the error of the check is lost to that of this write.
RefillFirst(d) ==
  /\ Goto(d, "refill", "load")
  /\ exports' = setup.buf
  /\ UNCHANGED <<recordVars, resolver, nfsd, lock, setup, working, slow, torn, scar>>

\* The file as it was read; an error of this write is dropped.
Refill(d) ==
  /\ pc[d] = "refill"
  /\ GiveUpNFS(d)
  /\ \/ exports' = setup.buf /\ UNCHANGED torn
     \/ torn' = TRUE /\ UNCHANGED exports
  /\ UNCHANGED <<recordVars, resolver, nfsd, lock, setup, working, slow, scar>>

\* A running nfsd is told of the file if this start wrote it; where none was
\* seen one is started, and the nfsd that was overlooked may not care.
Load(d) ==
  /\ Goto(d, "load", "images")
  /\ \/ /\ setup.nfsIsRunning /\ setup.shared
        /\ working' = TRUE /\ UNCHANGED nfsd
     \/ /\ ~setup.nfsIsRunning /\ nfsd.up
        /\ working' = TRUE /\ UNCHANGED nfsd
     \/ /\ ~(setup.nfsIsRunning /\ setup.shared)
        /\ working' = TRUE /\ nfsd' = [up |-> TRUE, serves |-> exports]
     \/ /\ ~(setup.nfsIsRunning /\ setup.shared)
        /\ UNCHANGED <<working, nfsd>>
  /\ UNCHANGED <<recordVars, resolver, exports, lock, setup, slow, torn, scar>>

NFS(d) == \/ ReadExports(d) \/ Truncate(d) \/ Fill(d) \/ exportsCheck(d)
          \/ Refill(d) \/ Load(d)

-----------------------------------------------------------------------------
(***************************************************************************)
(* The end                                                                 *)
(***************************************************************************)

Stopping(d) == todo' = [todo EXCEPT ![d] = rmRecord(Reserved, HostAddress)]

\* A mutant: the name server is not stopped.
ScanImagesHasty(d) ==
  /\ Goto(d, "images", "serving") \/ Goto(d, "images", "etcdStop")
  /\ UNCHANGED <<recordVars, hostVars, lock, setup, working, slow, torn, scar>>

\* localImages: its error ends Start, and the deferred calls run.
ScanImages(d) ==
  /\ \/ Goto(d, "images", "serving") /\ UNCHANGED todo
     \/ Goto(d, "images", "dnsStop") /\ Stopping(d)
  /\ UNCHANGED <<store, late, hostVars, lock, setup, working, slow, torn, scar>>

Stop(d) ==
  /\ Goto(d, "serving", "dnsStop")
  /\ Stopping(d)
  /\ UNCHANGED <<store, late, hostVars, lock, setup, working, slow, torn, scar>>

\* teardownService: rmRecord, whose error is dropped, and the file.
RemoveRecords(d) ==
  /\ pc[d] = "dnsStop"
  /\ \/ Answered(d) /\ UNCHANGED <<pc, slow>>
     \/ Unanswered(d) /\ UNCHANGED pc
     \/ ~Pending(d) /\ Goto(d, "dnsStop", "unresolve") /\ UNCHANGED <<recordVars, slow>>
  /\ UNCHANGED <<hostVars, lock, setup, working, torn, scar>>

RemoveResolver(d) ==
  /\ Goto(d, "unresolve", "etcdStop")
  /\ resolver' = FALSE
  /\ scar' = FALSE
  /\ UNCHANGED <<recordVars, exports, nfsd, lock, setup, working, slow, torn>>

\* The process is gone, and its etcd with it.
Gone(d) ==
  /\ pc' = [pc EXCEPT ![d] = "off"]
  /\ lock' = IF lock = d THEN Nil ELSE lock
  /\ todo' = [todo EXCEPT ![d] = <<>>]
  /\ late' = IF lock = d THEN {} ELSE late
  /\ setup' = IF lock = d THEN NoSetup ELSE setup
  /\ UNCHANGED <<store, hostVars, working, slow>>

Leave(d) ==
  /\ pc[d] = "etcdStop"
  /\ Gone(d)
  /\ UNCHANGED <<torn, scar>>

\* SIGKILL or a panic; before signal.Notify, any signal.
Crash(d) ==
  /\ pc[d] # "off"
  /\ Gone(d)
  /\ scar' = TRUE
  /\ torn' = (torn \/ pc[d] \in Writing)

Session(d) ==
  \/ Start(d) \/ NewServer(d) \/ Listen(d) \/ WipeRecords(d) \/ CheckPort(d)
  \/ AddRecords(d) \/ CreateResolver(d) \/ PortForward(d) \/ NFS(d)
  \/ ScanImages(d) \/ Stop(d) \/ RemoveRecords(d) \/ RemoveResolver(d) \/ Leave(d)

-----------------------------------------------------------------------------
\* Module Names: while a daemon serves, a guest gets a record.
NameGuest ==
  /\ \E d \in Daemons : pc[d] = "serving"
  /\ LET r == Set(Path(Guest), GuestAddress) IN Accepts(r) /\ store' = Applied(r)
  /\ UNCHANGED <<todo, late, hostVars, pc, lock, setup, working, slow, torn, scar>>

LateReply ==
  /\ \E r \in late : LateApplied(r)
  /\ UNCHANGED <<hostVars, pc, lock, setup, working, slow, torn, scar>>

StartupNext ==
  \/ \E d \in Daemons : Session(d) \/ Crash(d)
  \/ NameGuest
  \/ LateReply

StartupSpec == StartupInit /\ [][StartupNext]_vars

\* A process runs on, whether etcd answers or not.
RunsOn(d) == Session(d) /\ ~Answered(d)

StartupFairSpec == StartupSpec /\ \A d \in Daemons : WF_vars(RunsOn(d))

-----------------------------------------------------------------------------
Ready == {"resolver", "forward"} \cup NFSState \cup {"images"}

\* A daemon that got its answers from etcd starts from the records of the
\* host alone: nothing of an earlier session, whatever way that one ended
\* (server.go: "we don't want skydns' data to persist at all").
FreshRecords ==
  \A d \in Daemons : pc[d] \in Ready /\ ~slow => store = HostStore

\* An end that was no crash takes the resolver file along, unless Start
\* failed between the creation of the file and the defer of its removal.
ResolverRemoved == lock = Nil /\ resolver => scar

\* No restart, rollback, failure or second daemon loses the lines of the user
\* in /etc/exports or in what nfsd serves; only a write that is cut short can.
UserLinesKept ==
  ~torn => /\ "user" \in exports \/ \E d \in Daemons : pc[d] \in Writing
           /\ nfsd.up => "user" \in nfsd.serves

\* WorkingNFS is set only over an /etc/exports with the signature: a setup
\* that was rolled back or cut short does not count as working.
WorkingMeansExported ==
  \A d \in Daemons : pc[d] = "serving" /\ working => "signature" \in exports

\* WorkingNFS is set only if the NFS server exports the home directory.
WorkingMeansServed ==
  \A d \in Daemons : pc[d] = "serving" /\ working => "signature" \in nfsd.serves

\* A start that has the lock comes to an end: the daemon serves, or is gone.
StartEnds == \A d \in Daemons : lock = d ~> pc[d] \in {"serving", "off"}
=============================================================================
