------------------------------- MODULE Daemon -------------------------------
(***************************************************************************)
(* The end of corectld: server.Start's main goroutine, which waits on      *)
(* Daemon.Oops and then drains and leaves, the goroutine that serves HTTP, *)
(* and the two that make it end, the signal handler and the Stop request.  *)
(* VMLifecycle is what runs in between; this module says when a request    *)
(* can arrive, who fills and who reads Oops, and what Jobs.Wait waits for. *)
(***************************************************************************)
EXTENDS VMLifecycle

VARIABLES
  oops,   \* Daemon.Oops, a channel of capacity 1: "empty", "nil" or "err"
  main,   \* where server.Start stands after it spawned its goroutines
  api     \* Daemon.APIserver and the goroutine that serves it

daemonVars == <<oops, main, api>>
allVars == <<vars, daemonVars>>

MainState == {"select", "received", "draining", "closing", "leaving"}
APIState == {"none", "created", "serving", "failed", "reported", "closed",
             "returned", "finished"}

DaemonTypeOK ==
  /\ TypeOK
  /\ oops \in {"empty", "nil", "err"}
  /\ main \in MainState
  /\ api \in APIState

DaemonInit ==
  /\ Init
  /\ oops = "empty"
  /\ main = "select"
  /\ api = "none"

-----------------------------------------------------------------------------
(***************************************************************************)
(* The goroutine that serves HTTP                                          *)
(***************************************************************************)

APICreate ==
  /\ api = "none"
  /\ mutex = Nil
  /\ api' = "created"
  /\ UNCHANGED <<vars, oops, main>>

APIListen ==
  /\ api = "created"
  /\ api' \in {"serving", "failed"}
  /\ UNCHANGED <<vars, oops, main>>

\* Oops <- err when the port could not be bound, then Oops <- nil either way.
APIReport ==
  /\ api = "failed"
  /\ oops = "empty"
  /\ oops' = "err"
  /\ api' = "reported"
  /\ UNCHANGED <<vars, main>>

HandlersDone ==
  /\ \A v \in VMs : run[v] \in {"idle", "refused", "stranded", "ok", "tooEarly", "error"}
  /\ \A q \in Requests : req[q].pc \in {"idle", "done", "panicked"}
  /\ \A s \in Stoppers : \/ StopKind[s] = "signal"
                         \/ stop[s].pc \in {"idle", "refused", "notified", "panicked"}
                         \/ stop[s].pc = "finished" /\ StopKind[s] # "stop"

\* Serve returns when the handlers that were running have returned.
APIReturn ==
  /\ api = "closed"
  /\ HandlersDone
  /\ api' = "returned"
  /\ UNCHANGED <<vars, oops, main>>

APIFinish ==
  /\ api \in {"returned", "reported"}
  /\ oops = "empty"
  /\ oops' = "nil"
  /\ api' = "finished"
  /\ UNCHANGED <<vars, main>>

API == APICreate \/ APIListen \/ APIReport \/ APIReturn \/ APIFinish

-----------------------------------------------------------------------------
(***************************************************************************)
(* What ends the daemon, and the main goroutine                            *)
(***************************************************************************)

\* The signal goroutine fills Oops before it shuts the VMs down; while Oops
\* is full the signal has no effect, and signal.Stop already forgot the handler.
Signal(s) ==
  /\ StopKind[s] = "signal"
  /\ oops = "empty"
  /\ oops' = "nil"
  /\ StopBegin(s)
  /\ UNCHANGED <<main, api>>

\* From then on the next signal ends the process, as it does by default.
SignalAgain(s) ==
  /\ StopKind[s] = "signal"
  /\ stop[s].pc # "idle" \/ oops # "empty"
  /\ Leave("crashed")
  /\ UNCHANGED daemonVars

StopNotifyEarly(s) ==               \* mutant: fills Oops before the VMs are gone
  /\ StopKind[s] = "stop"
  /\ stop[s].pc = "walking"
  /\ oops = "empty"
  /\ oops' = "nil"
  /\ stop' = [stop EXCEPT ![s].pc = "notified"]
  /\ UNCHANGED <<serverVars, vm, run, watcher, keeper, proc, req, main, api>>

\* The Stop request fills it after the VMs are gone.
StopNotify(s) ==
  /\ Notify(s)
  /\ oops = "empty"
  /\ oops' = "nil"
  /\ UNCHANGED <<main, api>>

MainReceive ==
  /\ main = "select"
  /\ oops # "empty"
  /\ oops' = "empty"
  /\ main' = "received"
  /\ UNCHANGED <<vars, api>>

MainRefuse ==
  /\ main = "received"
  /\ Refuse
  /\ main' = "draining"
  /\ UNCHANGED <<oops, api>>

DrainedUnregistered == Registered = {}   \* mutant: looks at the map instead of Jobs
Drained == jobs = {}

MainDrain ==
  /\ main = "draining"
  /\ Drained
  /\ main' = "closing"
  /\ UNCHANGED <<vars, oops, api>>

\* APIserver.Close receives what the goroutine of Serve sends; before Serve
\* it blocks, after a failed bind for ever, and on a nil APIserver it panics.
MainClose ==
  /\ main = "closing"
  /\ \/ /\ api = "serving"
        /\ api' = "closed"
        /\ main' = "leaving"
        /\ UNCHANGED vars
     \/ /\ api = "none"
        /\ Leave("crashed")
        /\ UNCHANGED <<main, api>>
  /\ UNCHANGED oops

MainExit ==
  /\ main = "leaving"
  /\ Leave("exited")
  /\ UNCHANGED daemonVars

Main == MainReceive \/ MainRefuse \/ MainDrain \/ MainClose \/ MainExit

-----------------------------------------------------------------------------
\* A request arrives while the API is served.
Request ==
  /\ api = "serving"
  /\ \/ \E v \in VMs : RunAccept(v)
     \/ \E q \in Requests : Arrive(q)
     \/ \E s \in Stoppers : StopKind[s] # "signal" /\ StopBegin(s)

\* Registering writes Daemon.Active without the mutex, and ActiveVMs reads it
\* without: a write that meets a read ends the process.
MapFault ==
  /\ api \in {"serving", "closed"}
  /\ \E v \in VMs : run[v] = "unclaimed" \/ (keeper[v] = "reaped" /\ mutex = Nil)
  /\ Leave("crashed")
  /\ UNCHANGED daemonVars

DaemonNext ==
  \/ /\ daemon = "up"
     /\ \/ (Request \/ Goroutine) /\ UNCHANGED daemonVars
        \/ \E s \in Stoppers : Signal(s) \/ SignalAgain(s) \/ StopNotify(s)
        \/ MapFault
        \/ API
        \/ Main
  \/ \E v \in VMs : ProcExit(v) /\ UNCHANGED daemonVars

DaemonSpec == DaemonInit /\ [][DaemonNext]_allVars

Still(A) == A /\ UNCHANGED daemonVars

\* The fairness of VMLifecycle, and that of the three goroutines added here.
DaemonFairness ==
  /\ \A v \in VMs : /\ WF_allVars(Still(Up(RunStep(v))))
                   /\ WF_allVars(Still(Up(Watcher(v))))
                   /\ WF_allVars(Still(Up(Keeper(v))))
                   /\ WF_allVars(Still(proc[v] = "killed" /\ ProcExit(v)))
  /\ \A v \in VMs \ Deaf : WF_allVars(Still(proc[v] = "termed" /\ ProcExit(v)))
  /\ \A q \in Requests : WF_allVars(Still(Up(HTTP(q))))
  /\ \A s \in Stoppers : WF_allVars(Still(Up(Stopper(s)))) /\ WF_allVars(Up(StopNotify(s)))
  /\ WF_allVars(Up(API))
  /\ WF_allVars(Up(Main))

DaemonFairSpec == DaemonSpec /\ DaemonFairness

-----------------------------------------------------------------------------
\* The main goroutine passes Jobs.Wait only when no hypervisor runs.
DrainedMeansNoneRuns ==
  [][main = "draining" /\ main' # main => \A v \in VMs : ~Alive(v)]_allVars

\* A draining daemon whose Runs are all answered and whose hypervisors are all
\* gone leaves, even if a failed Run left its VM registered; it stays only if
\* its mutex was lost or its port was never bound.
DrainEnds ==
  (/\ main = "draining"
   /\ \A v \in VMs : ~Alive(v) /\ run[v] \notin {"accepted", "unclaimed", "registered", "waiting"})
    ~> \/ daemon # "up"
       \/ Wedged
       \/ api \in {"failed", "reported", "finished"}

=============================================================================
