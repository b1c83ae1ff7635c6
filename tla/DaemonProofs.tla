---------------------------- MODULE DaemonProofs ----------------------------
(***************************************************************************)
(* Proofs about Daemon.  Each of its steps is a step of VMLifecycle or     *)
(* leaves its variables alone, so what VMLifecycleProofs and AnswerProofs  *)
(* prove holds of a daemon that drains and leaves.                         *)
(***************************************************************************)
EXTENDS Daemon, AnswerProofs

LEMMA DaemonStep == [DaemonNext]_allVars => [Next]_vars
<1> SUFFICES ASSUME [DaemonNext]_allVars PROVE [Next]_vars
  OBVIOUS
<1>1. CASE UNCHANGED allVars
  BY <1>1 DEF allVars
<1>2. CASE daemon = "up" /\ (Request \/ Goroutine)
  BY <1>2 DEF Request, Next, Arrival
<1>3. ASSUME daemon = "up", NEW s \in Stoppers, Signal(s) \/ SignalAgain(s) \/ StopNotify(s)
      PROVE  [Next]_vars
  BY <1>3 DEF Signal, SignalAgain, StopNotify, Next, Arrival, Start
<1>4. CASE API
  BY <1>4 DEF API, APICreate, APIListen, APIReport, APIReturn, APIFinish
<1>5. CASE daemon = "up" /\ Main
  BY <1>5 DEF Main, MainReceive, MainRefuse, MainDrain, MainClose, MainExit, Next, Start
<1>6. CASE daemon = "up" /\ MapFault
  BY <1>6 DEF MapFault, Next, Start
<1>7. CASE \E v \in VMs : ProcExit(v)
  BY <1>7 DEF Next
<1> QED BY <1>1, <1>2, <1>3, <1>4, <1>5, <1>6, <1>7 DEF DaemonNext

\* What VMLifecycle promises of the goroutines holds in the daemon that
\* serves, drains and leaves.
THEOREM DaemonImplementsLifecycle == DaemonSpec => Spec
<1>1. DaemonInit => Init
  BY DEF DaemonInit
<1> QED BY <1>1, DaemonStep, PTL DEF DaemonSpec, Spec

\* The main goroutine passes Jobs.Wait only when no hypervisor runs.
THEOREM DrainWaits == DaemonSpec => DrainedMeansNoneRuns
<1>1. JobsCoverRunning /\ [DaemonNext]_allVars
        => [main = "draining" /\ main' # main => \A v \in VMs : ~Alive(v)]_allVars
  <2> SUFFICES ASSUME JobsCoverRunning, DaemonNext, main = "draining", main' # main
               PROVE  \A v \in VMs : ~Alive(v)
    BY DEF allVars
  <2>1. MainDrain
    BY DEF DaemonNext, daemonVars, Request, Signal, SignalAgain, StopNotify, MapFault, API,
           APICreate, APIListen, APIReport, APIReturn, APIFinish, Main, MainReceive, MainRefuse,
           MainClose, MainExit
  <2> QED BY <2>1 DEF MainDrain, Drained, JobsCoverRunning
<1>2. DaemonSpec => []JobsCoverRunning
  BY DaemonImplementsLifecycle, JobsCover, PTL
<1> QED BY <1>1, <1>2, PTL DEF DaemonSpec, DrainedMeansNoneRuns

\* Nor is a hypervisor that runs ever unregistered, until the daemon is gone, as
\* long as no Run overwrote the entry of another.
THEOREM DaemonNoOrphans == DaemonSpec /\ [][NoOverwrite]_vars => []NoOrphan
  BY DaemonImplementsLifecycle, NoOrphans, PTL

\* What a client sees of a daemon that starts, drains and leaves is VMService.
THEOREM DaemonImplementsService == DaemonSpec /\ [][NoOverwrite]_vars => ServiceSpec
  BY DaemonImplementsLifecycle, ImplementsService, PTL

\* Oops, the main goroutine and the one of the API keep their types, with
\* those of VMLifecycle.
THEOREM DaemonTypeCorrect == DaemonSpec => []DaemonTypeOK
<1> DEFINE OwnTypeOK == oops \in {"empty", "nil", "err"} /\ main \in MainState /\ api \in APIState
<1>1. DaemonInit => OwnTypeOK
  BY DEF DaemonInit, MainState, APIState
<1>2. OwnTypeOK /\ [DaemonNext]_allVars => OwnTypeOK'
  <2> SUFFICES ASSUME OwnTypeOK, [DaemonNext]_allVars PROVE OwnTypeOK'
    OBVIOUS
  <2> USE DEF MainState, APIState
  <2>1. CASE UNCHANGED daemonVars
    BY <2>1 DEF daemonVars
  <2>2. ASSUME NEW s \in Stoppers, Signal(s) \/ SignalAgain(s) \/ StopNotify(s) PROVE OwnTypeOK'
    BY <2>2 DEF Signal, SignalAgain, StopNotify, daemonVars
  <2>3. CASE API
    BY <2>3 DEF API, APICreate, APIListen, APIReport, APIReturn, APIFinish
  <2>4. CASE Main
    BY <2>4 DEF Main, MainReceive, MainRefuse, MainDrain, MainClose, MainExit, daemonVars
  <2>5. CASE MapFault
    BY <2>1, <2>5 DEF MapFault
  <2> QED BY <2>1, <2>2, <2>3, <2>4, <2>5 DEF DaemonNext, allVars
<1>3. DaemonSpec => []OwnTypeOK
  BY <1>1, <1>2, PTL DEF DaemonSpec
<1>4. TypeOK /\ OwnTypeOK => DaemonTypeOK
  BY DEF DaemonTypeOK
<1> QED BY <1>3, <1>4, DaemonImplementsLifecycle, TypeCorrect, PTL
=============================================================================
