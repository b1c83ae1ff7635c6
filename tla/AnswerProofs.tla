---------------------------- MODULE AnswerProofs ----------------------------
(***************************************************************************)
(* A Run is answered by what became of the guest.  The invariant ties the  *)
(* answer to the goroutine that closes done or reports the timeout, and    *)
(* to the one that reports a failed Start: neither can follow the other.   *)
(* On it rest the proofs about the mutex that a callback may lose, whose   *)
(* guest answers a Run, and that VMLifecycle implements VMService.         *)
(***************************************************************************)
EXTENDS VMLifecycleProofs

USE DEF serverVars, vars

\* exec.Start failed: no process, now or later.
NeverStarts(v) == ~Started(v) /\ keeper[v] \in {"reaped", "deregistered", "finished"}

WatcherInv(v) ==
  /\ watcher[v] = "received" => vm[v].received # Nil
  /\ watcher[v] = "recorded" => vm[v].ip # Nil /\ Started(v)
  /\ vm[v].done => watcher[v] = "finished" /\ vm[v].ip # Nil /\ Started(v)

ErrorInv(v) ==
  /\ vm[v].errCh = "timeout" => watcher[v] = "finished" /\ ~vm[v].done
  /\ vm[v].errCh = "start" => NeverStarts(v)
  /\ run[v] = "error" => ~vm[v].done /\ (watcher[v] = "finished" \/ NeverStarts(v))

ReplyInv(v) ==
  /\ watcher[v] = "none" <=> ~Launched(v)
  /\ run[v] = "ok" => vm[v].done /\ vm[v].ip # Nil
  /\ run[v] # "tooEarly"

AnswerInv == \A v \in VMs : WatcherInv(v) /\ ErrorInv(v) /\ ReplyInv(v)

LEMMA InitAnswerInv == Init => AnswerInv
  BY DEF Init, AnswerInv, WatcherInv, ErrorInv, ReplyInv, Launched

-----------------------------------------------------------------------------
(***************************************************************************)
(* What the others leave alone: callbacks and stoppers write neither the   *)
(* address, nor what reports the end of the wait, nor a process that has   *)
(* not started.                                                            *)
(***************************************************************************)

Kept(v) == /\ vm'[v].ip = vm[v].ip
           /\ vm'[v].received = vm[v].received
           /\ vm'[v].errCh = vm[v].errCh
           /\ vm'[v].done = vm[v].done

LEMMA OnceSetKept ==
  ASSUME VMTypeOK, NEW q \in Requests, NEW x \in VMs
  PROVE  /\ OnceSet(q, x) \in [VMs -> VMInfo]
         /\ \A v \in VMs : /\ OnceSet(q, x)[v].ip = vm[v].ip
                         /\ OnceSet(q, x)[v].received = vm[v].received
                         /\ OnceSet(q, x)[v].errCh = vm[v].errCh
                         /\ OnceSet(q, x)[v].done = vm[v].done
<1>1. OnceSet(q, x) \in [VMs -> VMInfo]
  BY OnceSetKeeps
<1>2. \/ OnceSet(q, x) = [vm EXCEPT ![x].callBack = TRUE]
      \/ OnceSet(q, x) = [vm EXCEPT ![x].isolationCheck = TRUE]
  BY DEF OnceSet
<1> QED BY <1>1, <1>2 DEF VMTypeOK, VMInfo

LEMMA HTTPKept ==
  ASSUME TypeOK, NEW q \in Requests, Arrive(q) \/ HTTP(q)
  PROVE  UNCHANGED <<run, watcher, keeper, proc>> /\ \A v \in VMs : Kept(v)
<1> USE DEF TypeOK, VMTypeOK
<1>1. UNCHANGED <<run, watcher, keeper, proc>>
  BY DEF Arrive, HTTP, Fetch, AlreadyCalled, Enter, DeliverPanic, DeliverPing,
         DeliverNotIsolated, SendComplete
<1> DEFINE w == OnceSet(q, req[q].vm)
<1>2. ASSUME req[q].pc = "fetched"
      PROVE  /\ w \in [VMs -> VMInfo]
             /\ \A v \in VMs : w[v].ip = vm[v].ip /\ w[v].received = vm[v].received
                             /\ w[v].errCh = vm[v].errCh /\ w[v].done = vm[v].done
  BY <1>2, OnceSetKept DEF ReqTypeOK
<1>3. ASSUME Enter(q),
             \/ vm' = w
             \/ \E x : vm' = [w EXCEPT ![x].ipCh = req[q].from]
             \/ \E x : vm' = [w EXCEPT ![x].notIsolated = TRUE]
      PROVE  \A v \in VMs : Kept(v)
  <2>1. req[q].pc = "fetched"
    BY <1>3 DEF Enter
  <2> HIDE DEF w
  <2> QED BY <1>2, <1>3, <2>1 DEF Kept, VMInfo
<1>4. CASE DeliverPanic(q) \/ DeliverPing(q) \/ DeliverNotIsolated(q)
  BY <1>1, <1>3, <1>4 DEF DeliverPanic, DeliverPing, DeliverNotIsolated
<1>5. CASE SendComplete(q)
  BY <1>1, <1>5 DEF SendComplete, Kept, VMInfo
<1>6. CASE Arrive(q) \/ Fetch(q) \/ AlreadyCalled(q)
  BY <1>1, <1>6 DEF Arrive, Fetch, AlreadyCalled, Kept
<1> QED BY <1>4, <1>5, <1>6 DEF HTTP

LEMMA SignalsKeepStarted ==
  ASSUME VMTypeOK,
         \/ UNCHANGED proc
         \/ \E v \in VMs : \/ proc' = [proc EXCEPT ![v] = Signalled(@)]
                          \/ proc' = [proc EXCEPT ![v] = Killed(@)]
  PROVE  \A v \in VMs : Started(v)' = Started(v)
  BY DEF VMTypeOK, Signalled, Killed, Started

-----------------------------------------------------------------------------
(***************************************************************************)
(* The steps that do write them                                            *)
(***************************************************************************)

LEMMA RunAnswerInv ==
  ASSUME TypeOK, KeeperInv, AnswerInv, NEW v \in VMs, RunAccept(v) \/ RunStep(v)
  PROVE  AnswerInv'
<1> USE DEF TypeOK, VMTypeOK, VMInfo, AnswerInv, WatcherInv, ErrorInv, ReplyInv, NeverStarts,
            Started, Launched
<1>1. CASE RunLaunch(v)
  <2>1. vm[v].errCh # "start"
    BY <1>1 DEF RunLaunch, KeeperInv
  <2> QED BY <1>1, <2>1 DEF RunLaunch, KeeperInv
<1>2. CASE RunReply(v)
  BY <1>2 DEF RunReply, Booted
<1>3. CASE RunAccept(v) \/ RunReserved(v) \/ RunLookup(v) \/ RunRegister(v) \/ RunStrand(v)
  BY <1>3 DEF RunAccept, RunReserved, RunLookup, RunRegister, RunStrand
<1> QED BY <1>1, <1>2, <1>3 DEF RunStep

LEMMA WatcherAnswerInv ==
  ASSUME TypeOK, AnswerInv, NEW v \in VMs, Watcher(v)
  PROVE  AnswerInv'
<1> USE DEF TypeOK, VMTypeOK, VMInfo, AnswerInv, WatcherInv, ErrorInv, ReplyInv, NeverStarts,
            Started, Launched
<1>1. CASE WatchReceive(v)
  BY <1>1 DEF WatchReceive
<1>2. CASE WatchRecord(v)
  BY <1>2 DEF WatchRecord
<1>3. CASE WatchClose(v)
  BY <1>3 DEF WatchClose
<1>4. CASE WatchTimeout(v)
  BY <1>4 DEF WatchTimeout, Signalled
<1>5. CASE WatchKill(v)
  BY <1>5 DEF WatchKill, Aborted, Killed
<1> QED BY <1>1, <1>2, <1>3, <1>4, <1>5 DEF Watcher

LEMMA KeeperAnswerInv ==
  ASSUME TypeOK, KeeperInv, AnswerInv, NEW v \in VMs, Keeper(v) \/ ProcExit(v)
  PROVE  AnswerInv'
<1> USE DEF TypeOK, VMTypeOK, VMInfo, AnswerInv, WatcherInv, ErrorInv, ReplyInv, NeverStarts,
            Started, Launched
<1>1. CASE KeeperStart(v)
  <2>1. keeper[v] = "counted" /\ ~Started(v) /\ vm[v].errCh # "start"
    BY <1>1 DEF KeeperStart, KeeperInv
  <2>2. CASE UNCHANGED vm
    BY <1>1, <2>1, <2>2 DEF KeeperStart
  <2>3. CASE vm' = [vm EXCEPT ![v].errCh = "start"] /\ UNCHANGED proc
    <3>1. keeper' = [keeper EXCEPT ![v] = "reaped"] /\ UNCHANGED <<run, watcher>>
      BY <1>1, <2>1, <2>3 DEF KeeperStart
    <3> QED BY <2>1, <2>3, <3>1
  <2> QED BY <1>1, <2>2, <2>3 DEF KeeperStart
<1>2. CASE KeeperAdd(v) \/ KeeperReap(v) \/ Deregister(v) \/ KeeperDone(v)
  BY <1>2 DEF KeeperAdd, KeeperReap, Deregister, KeeperDone
<1>3. CASE ProcExit(v)
  BY <1>3 DEF ProcExit, Alive
<1> QED BY <1>1, <1>2, <1>3 DEF Keeper

\* A step that keeps those fields and starts nothing keeps the invariant.
LEMMA KeptAnswerInv ==
  ASSUME AnswerInv, UNCHANGED <<run, watcher, keeper>>,
         \A v \in VMs : Kept(v) /\ Started(v)' = Started(v)
  PROVE  AnswerInv'
  BY DEF AnswerInv, WatcherInv, ErrorInv, ReplyInv, NeverStarts, Launched, Kept

LEMMA NextAnswerInv ==
  ASSUME TypeOK, KeeperInv, AnswerInv, [Next]_vars
  PROVE  AnswerInv'
<1>1. CASE UNCHANGED vars
  BY <1>1, KeptAnswerInv DEF Kept, Started
<1>2. CASE \E v \in VMs : RunAccept(v) \/ RunStep(v)
  BY <1>2, RunAnswerInv
<1>3. CASE \E v \in VMs : Watcher(v)
  BY <1>3, WatcherAnswerInv
<1>4. CASE \E v \in VMs : Keeper(v) \/ ProcExit(v)
  BY <1>4, KeeperAnswerInv
<1>5. CASE \E q \in Requests : Arrive(q) \/ HTTP(q)
  BY <1>5, HTTPKept, KeptAnswerInv DEF Started
<1>6. CASE Start \/ \E s \in Stoppers : StopBegin(s) \/ Stopper(s)
  <2>1. CASE \E v \in VMs : \/ RunAccept(v) \/ RunStep(v) \/ Watcher(v)
                           \/ Keeper(v) \/ ProcExit(v)
    BY <2>1, <1>2, <1>3, <1>4
  <2>2. CASE ~\E v \in VMs : \/ RunAccept(v) \/ RunStep(v) \/ Watcher(v)
                            \/ Keeper(v) \/ ProcExit(v)
    <3>1. UNCHANGED <<vm, run, watcher, keeper>>
      BY <1>6 DEF Start, Refuse, Leave, Notify, StopBegin, Stopper, StopClose, StopRefuse,
                  Snapshot, Kill, TermPanic, Term, TermDone, TermTimeout, Poll
    <3>2. CASE UNCHANGED proc
      BY <3>1, <3>2, KeptAnswerInv DEF Kept, Started
    <3>3. CASE ~UNCHANGED proc
      <4>1. \E v \in VMs : \/ proc' = [proc EXCEPT ![v] = Signalled(@)]
                          \/ proc' = [proc EXCEPT ![v] = Killed(@)]
        BY <3>3, <2>2, OnlySignals
      <4> QED BY <3>1, <4>1, SignalsKeepStarted, KeptAnswerInv DEF Kept, TypeOK
    <3> QED BY <3>2, <3>3
  <2> QED BY <2>1, <2>2
<1> QED BY <1>1, <1>2, <1>3, <1>4, <1>5, <1>6 DEF Next, Arrival, Goroutine

LEMMA AnswerInvCovers == ASSUME AnswerInv PROVE OneTrueAnswer
  BY DEF AnswerInv, WatcherInv, ErrorInv, ReplyInv, OneTrueAnswer

\* However the timeout, the address and the exit of the hypervisor race, a Run
\* is answered with the VM only when its guest called back, with an error only
\* when it never will have.
THEOREM AnswersAreTrue == Spec => []OneTrueAnswer
<1>1. Spec => []KeeperInv
  BY InitKeeperInv, NextKeeperInv, TypeCorrect, PTL DEF Spec
<1>2. Spec => []AnswerInv
  BY InitAnswerInv, NextAnswerInv, <1>1, TypeCorrect, PTL DEF Spec
<1> QED BY <1>2, AnswerInvCovers, PTL

-----------------------------------------------------------------------------
(***************************************************************************)
(* The mutex is lost to a guest whose VM is gone, and to no other.  The    *)
(* handlers of /ping hold it while they send; what the channel and its VM  *)
(* hold was sent by a handler that ran the Once, so the next one that runs *)
(* it finds the channel empty and open.                                    *)
(***************************************************************************)

CalledInv ==
  \A v \in VMs :
    vm[v].ipCh # Nil \/ vm[v].received # Nil \/ vm[v].ip # Nil => vm[v].callBack

WasEnrolled(v) == Launched(v) \/ run[v] \in {"registered", "stranded"}

\* A callback is looked up by UUID up to three times.  When its VM is gone and
\* another was given the UUID, that one gets what the first one's guest sent.
Meets(q) == Fetch(q) \/ Enter(q)
NoStaleCallback ==
  \A q \in Requests : Meets(q) => active[UUIDOf[req[q].from]] \in {req[q].from, Nil}

\* The VM that a handler fetched is its guest's and was registered, and no
\* handler waits to send.
FetchedInv ==
  \A q \in Requests :
    /\ req[q].pc = "fetched" => req[q].vm = req[q].from /\ WasEnrolled(req[q].vm)
    /\ req[q].pc # "sending"
    /\ mutex = q => req[q].vm \in VMs

MutexInv == CalledInv /\ FetchedInv /\ MutexLostOnlyToDeadGuest

LEMMA InitMutexInv == Init => MutexInv
  BY ConstantsAssumption DEF Init, MutexInv, CalledInv, FetchedInv, MutexLostOnlyToDeadGuest

\* A step that leaves the requests and the mutex alone, and takes no VM back.
LEMMA QuietMutexInv ==
  ASSUME TypeOK, MutexInv, UNCHANGED <<req, mutex>>, CalledInv',
         \A v \in VMs : WasEnrolled(v) => WasEnrolled(v)',
         \A v \in VMs : keeper[v] \in {"deregistered", "finished"} =>
                          keeper'[v] \in {"deregistered", "finished"}
  PROVE  MutexInv'
<1>1. FetchedInv'
  BY DEF MutexInv, FetchedInv, TypeOK, ReqTypeOK
<1>2. MutexLostOnlyToDeadGuest'
  <2> SUFFICES ASSUME mutex # Nil
               PROVE  req[mutex].pc = "panicked" /\ keeper'[req[mutex].vm] \in {"deregistered", "finished"}
    BY DEF MutexLostOnlyToDeadGuest
  <2>1. req[mutex].pc = "panicked" /\ keeper[req[mutex].vm] \in {"deregistered", "finished"}
    BY DEF MutexInv, MutexLostOnlyToDeadGuest
  <2>2. req[mutex].vm \in VMs
    BY DEF MutexInv, FetchedInv, TypeOK, ServerTypeOK
  <2> QED BY <2>1, <2>2
<1> QED BY <1>1, <1>2 DEF MutexInv

LEMMA GoroutineMutexInv ==
  ASSUME TypeOK, KeeperInv, MutexInv, NEW v \in VMs,
         RunAccept(v) \/ RunStep(v) \/ Watcher(v) \/ Keeper(v) \/ ProcExit(v)
  PROVE  MutexInv'
<1> USE DEF TypeOK
<1>1. UNCHANGED <<req, mutex>>
  <2>1. CASE WatchClose(v)
    <3>1. \A q \in Requests : req[q].pc # "sending"
      BY DEF MutexInv, FetchedInv
    <3>2. req' = [q \in Requests |-> req[q]]
      BY <2>1, <3>1 DEF WatchClose
    <3> QED BY <2>1, <3>2 DEF WatchClose, ReqTypeOK
  <2>2. CASE ~WatchClose(v)
    BY <2>2 DEF RunAccept, RunStep, RunReserved, RunLookup, RunRegister, RunStrand, RunLaunch,
         RunReply, Watcher, WatchReceive, WatchRecord, WatchTimeout, WatchKill, Keeper, KeeperAdd,
         KeeperStart, KeeperReap, Deregister, KeeperDone, ProcExit
  <2> QED BY <2>1, <2>2
<1>2. CalledInv'
  <2> USE DEF MutexInv, CalledInv, VMTypeOK, VMInfo
  <2>1. CASE RunLaunch(v)
    BY <2>1 DEF RunLaunch
  <2>2. CASE RunReply(v)
    BY <2>2, SMTT(30) DEF RunReply
  <2>3. CASE WatchReceive(v)
    BY <2>3 DEF WatchReceive
  <2>4. CASE WatchRecord(v)
    BY <2>4 DEF WatchRecord
  <2>5. CASE WatchClose(v)
    BY <2>5 DEF WatchClose
  <2>6. CASE WatchKill(v)
    BY <2>6 DEF WatchKill, Aborted
  <2>7. CASE vm' = [vm EXCEPT ![v].errCh = "start"]
    BY <2>7
  <2>8. CASE UNCHANGED vm
    BY <2>8
  <2> QED BY <2>1, <2>2, <2>3, <2>4, <2>5, <2>6, <2>7, <2>8 DEF RunAccept, RunStep, RunReserved,
             RunLookup, RunRegister, RunStrand, Watcher, WatchTimeout, Keeper, KeeperAdd,
             KeeperStart, KeeperReap, Deregister, KeeperDone, ProcExit
<1>3. \A w \in VMs : WasEnrolled(w) => WasEnrolled(w)'
  BY DEF WasEnrolled, Launched, VMTypeOK, RunAccept, RunStep, RunReserved, RunLookup, RunRegister,
         RunStrand, RunLaunch, RunReply, Watcher, WatchReceive, WatchRecord, WatchClose,
         WatchTimeout, WatchKill, Keeper, KeeperAdd, KeeperStart, KeeperReap, Deregister,
         KeeperDone, ProcExit
<1>4. \A w \in VMs : keeper[w] \in {"deregistered", "finished"} =>
                       keeper'[w] \in {"deregistered", "finished"}
  BY DEF KeeperInv, Launched, VMTypeOK, RunAccept, RunStep, RunReserved, RunLookup, RunRegister,
         RunStrand, RunLaunch, RunReply, Watcher, WatchReceive, WatchRecord, WatchClose,
         WatchTimeout, WatchKill, Keeper, KeeperAdd, KeeperStart, KeeperReap, Deregister,
         KeeperDone, ProcExit
<1> QED BY <1>1, <1>2, <1>3, <1>4, QuietMutexInv

LEMMA OnceSetCalled ==
  ASSUME VMTypeOK, NEW q \in Requests, NEW x \in VMs
  PROVE  /\ OnceSet(q, x) \in [VMs -> VMInfo]
         /\ \A v \in VMs :
              /\ OnceSet(q, x)[v].ip = vm[v].ip
              /\ OnceSet(q, x)[v].ipCh = vm[v].ipCh
              /\ OnceSet(q, x)[v].received = vm[v].received
              /\ vm[v].callBack => OnceSet(q, x)[v].callBack
         /\ RequestKind[q] = "ping" => OnceSet(q, x)[x].callBack
<1>1. OnceSet(q, x) \in [VMs -> VMInfo]
  BY OnceSetKeeps
<1>2. \/ OnceSet(q, x) = [vm EXCEPT ![x].callBack = TRUE]
      \/ RequestKind[q] # "ping" /\ OnceSet(q, x) = [vm EXCEPT ![x].isolationCheck = TRUE]
  BY DEF OnceSet
<1> QED BY <1>1, <1>2 DEF VMTypeOK, VMInfo

LEMMA HTTPMutexInv ==
  ASSUME TypeOK, KeeperInv, RegisteredInv, IPInv, AnswerInv, MutexInv, NoStaleCallback,
         NEW q \in Requests, Arrive(q) \/ HTTP(q)
  PROVE  MutexInv'
<1> USE ConstantsAssumption DEF TypeOK
<1> DEFINE x == req[q].vm
           w == OnceSet(q, x)
<1>0. UNCHANGED <<run, keeper>> /\ \A v \in VMs : WasEnrolled(v)' = WasEnrolled(v)
  BY DEF Arrive, HTTP, Fetch, AlreadyCalled, Enter, DeliverPanic, DeliverPing, DeliverNotIsolated,
         SendComplete, WasEnrolled, Launched
<1>1. \A p \in Requests : req[p].pc # "sending"
  BY DEF MutexInv, FetchedInv
<1>2. ASSUME Enter(q)
      PROVE  /\ x \in VMs /\ req[q].pc = "fetched" /\ ~Once(q) /\ mutex = Nil
             /\ WasEnrolled(x) /\ Recipient(q) \in {x, Nil}
  <2>1. req[q].pc = "fetched" /\ x \in VMs /\ x = req[q].from /\ WasEnrolled(x)
    BY <1>2 DEF Enter, ReqTypeOK, MutexInv, FetchedInv
  <2>2. Recipient(q) \in {x, Nil}
    BY <1>2, <2>1 DEF NoStaleCallback, Meets, Recipient
  <2> QED BY <1>2, <2>1, <2>2 DEF Enter
\* A /ping whose Once has not run finds the channel of its VM empty and open.
<1>3. ASSUME Enter(q), RequestKind[q] = "ping"
      PROVE  vm[x].ipCh = Nil /\ vm[x].ip = Nil /\ vm[x].received = Nil /\ ~vm[x].done
  <2>1. ~vm[x].callBack
    BY <1>2, <1>3 DEF Once
  <2> QED BY <1>2, <1>3, <2>1 DEF MutexInv, CalledInv, AnswerInv, WatcherInv
<1>4. CASE Arrive(q) \/ Fetch(q) \/ AlreadyCalled(q)
  <2>1. UNCHANGED <<vm, mutex>>
    BY <1>4 DEF Arrive, Fetch, AlreadyCalled
  <2>2. /\ \A p \in Requests : p # q => req'[p] = req[p]
        /\ req[q].pc # "panicked" /\ req'[q].pc # "sending"
        /\ req'[q].pc = "fetched" => /\ req'[q].vm = req'[q].from /\ req'[q].vm \in VMs
                                     /\ WasEnrolled(req'[q].vm)
    <3>1. CASE Arrive(q)
      BY <3>1 DEF Arrive, ReqTypeOK
    <3>2. CASE AlreadyCalled(q)
      BY <3>2 DEF AlreadyCalled, ReqTypeOK
    <3>3. CASE Fetch(q)
      <4> DEFINE y == active[UUIDOf[req[q].from]]
      <4>1. req[q].from \in VMs /\ y \in VMs \cup {Nil}
        BY <3>3 DEF Fetch, ReqTypeOK, ServerTypeOK
      <4>2. y # Nil => active[UUIDOf[y]] = y
        BY <4>1 DEF IPInv, ActiveByUUID
      <4>3. y # Nil => WasEnrolled(y) /\ y = req[q].from
        <5>1. y \in {req[q].from, Nil}
          BY <3>3 DEF NoStaleCallback, Meets
        <5> QED BY <4>1, <4>2, <5>1 DEF RegisteredInv, Enrolled, WasEnrolled
      <4> HIDE DEF y
      <4>4. req' = [req EXCEPT ![q].vm = y, ![q].pc = IF y = Nil THEN "panicked" ELSE "fetched"]
        BY <3>3 DEF Fetch, y
      <4>5. req[q].pc = "checked"
        BY <3>3 DEF Fetch
      <4> QED BY <4>1, <4>3, <4>4, <4>5 DEF ReqTypeOK
    <3> QED BY <1>4, <3>1, <3>2, <3>3
  <2>3. CalledInv' /\ FetchedInv'
    <3>1. mutex # q
      BY <2>2 DEF MutexInv, MutexLostOnlyToDeadGuest
    <3>2. CalledInv'
      BY <2>1 DEF MutexInv, CalledInv
    <3>3. FetchedInv'
      BY <1>0, <2>1, <2>2, <3>1 DEF MutexInv, FetchedInv, ReqTypeOK
    <3> QED BY <3>2, <3>3
  <2>4. MutexLostOnlyToDeadGuest'
    BY <1>0, <2>1, <2>2 DEF MutexInv, MutexLostOnlyToDeadGuest, ServerTypeOK
  <2> QED BY <2>3, <2>4 DEF MutexInv
<1>5. CASE DeliverPanic(q)
  <2>1. Enter(q) /\ vm' = w /\ req' = [req EXCEPT ![q].pc = "panicked"] /\ mutex' = q
    BY <1>5 DEF DeliverPanic
  <2>2. Recipient(q) = Nil
    BY <1>2, <1>3, <1>5, <2>1 DEF DeliverPanic
  <2>3. keeper[x] \in {"deregistered", "finished"}
    <3>1. active[UUIDOf[x]] # x
      BY <1>2, <2>1, <2>2 DEF Recipient
    <3> QED BY <1>2, <2>1, <3>1 DEF RegisteredInv, Enrolled, WasEnrolled
  <2>4. CalledInv'
    <3>1. /\ w \in [VMs -> VMInfo]
          /\ \A v \in VMs : w[v].ip = vm[v].ip /\ w[v].ipCh = vm[v].ipCh
                          /\ w[v].received = vm[v].received /\ (vm[v].callBack => w[v].callBack)
      BY <1>2, <2>1, OnceSetCalled
    <3> HIDE DEF w
    <3> QED BY <2>1, <3>1 DEF MutexInv, CalledInv
  <2>5. FetchedInv'
    BY <1>0, <1>2, <2>1 DEF MutexInv, FetchedInv, ReqTypeOK
  <2>6. MutexLostOnlyToDeadGuest'
    BY <1>0, <2>1, <2>3 DEF MutexLostOnlyToDeadGuest, ReqTypeOK
  <2> QED BY <2>4, <2>5, <2>6 DEF MutexInv
<1>6. CASE DeliverPing(q) \/ DeliverNotIsolated(q)
  <2>1. Enter(q) /\ Recipient(q) = x
    BY <1>2, <1>6 DEF DeliverPing, DeliverNotIsolated
  <2>2. /\ \/ RequestKind[q] = "ping" /\ vm' = [w EXCEPT ![x].ipCh = req[q].from]
           \/ vm' = [w EXCEPT ![x].notIsolated = TRUE]
        /\ req' = [req EXCEPT ![q].pc = "done"] /\ UNCHANGED mutex
    BY <1>3, <1>6, <2>1 DEF DeliverPing, DeliverNotIsolated
  <2>3. /\ w \in [VMs -> VMInfo]
        /\ \A v \in VMs : w[v].ip = vm[v].ip /\ w[v].ipCh = vm[v].ipCh
                        /\ w[v].received = vm[v].received /\ (vm[v].callBack => w[v].callBack)
        /\ RequestKind[q] = "ping" => w[x].callBack
    BY <1>2, <2>1, OnceSetCalled
  <2>4. CalledInv'
    <3> HIDE DEF w
    <3>1. x \in VMs
      BY <1>2, <2>1
    <3>2. CASE RequestKind[q] = "ping" /\ vm' = [w EXCEPT ![x].ipCh = req[q].from]
      <4>1. \A v \in VMs : /\ vm'[v].ip = w[v].ip /\ vm'[v].received = w[v].received
                          /\ vm'[v].callBack = w[v].callBack
                          /\ v # x => vm'[v].ipCh = w[v].ipCh
        BY <2>3, <3>1, <3>2 DEF VMInfo
      <4> QED BY <2>3, <3>1, <3>2, <4>1 DEF MutexInv, CalledInv
    <3>3. CASE vm' = [w EXCEPT ![x].notIsolated = TRUE]
      <4>1. \A v \in VMs : /\ vm'[v].ip = w[v].ip /\ vm'[v].received = w[v].received
                          /\ vm'[v].callBack = w[v].callBack /\ vm'[v].ipCh = w[v].ipCh
        BY <2>3, <3>1, <3>3 DEF VMInfo
      <4> QED BY <2>3, <4>1 DEF MutexInv, CalledInv
    <3> QED BY <2>2, <3>2, <3>3
  <2>5. FetchedInv'
    BY <1>0, <1>1, <2>2 DEF MutexInv, FetchedInv, ReqTypeOK
  <2>6. MutexLostOnlyToDeadGuest'
    BY <1>2, <2>1, <2>2 DEF MutexLostOnlyToDeadGuest
  <2> QED BY <2>4, <2>5, <2>6 DEF MutexInv
<1>7. ~SendComplete(q)
  BY <1>1 DEF SendComplete
<1> QED BY <1>4, <1>5, <1>6, <1>7 DEF HTTP

LEMMA NextMutexInv ==
  ASSUME TypeOK, KeeperInv, RegisteredInv, IPInv, AnswerInv, MutexInv, [Next]_vars,
         [NoStaleCallback]_vars
  PROVE  MutexInv'
<1>1. CASE UNCHANGED <<vm, run, keeper, req, mutex>>
  BY <1>1, QuietMutexInv DEF MutexInv, CalledInv, WasEnrolled, Launched
<1>2. CASE \E v \in VMs : RunAccept(v) \/ RunStep(v) \/ Watcher(v) \/ Keeper(v) \/ ProcExit(v)
  BY <1>2, GoroutineMutexInv
<1>3. CASE \E q \in Requests : Arrive(q) \/ HTTP(q)
  <2>1. CASE NoStaleCallback
    BY <1>3, <2>1, HTTPMutexInv
  <2>2. CASE UNCHANGED vars
    BY <1>1, <2>2
  <2> QED BY <2>1, <2>2
<1>4. CASE Start \/ \E s \in Stoppers : StopBegin(s) \/ Stopper(s)
  BY <1>1, <1>4, ZenonT(30) DEF Start, Refuse, Leave, Notify, StopBegin, Stopper, StopClose, StopRefuse,
                    Snapshot, Kill, TermPanic, Term, TermDone, TermTimeout, Poll
<1> QED BY <1>1, <1>2, <1>3, <1>4 DEF Next, Arrival, Goroutine

LEMMA AnswerInvHolds == Spec => []AnswerInv
  BY InitAnswerInv, NextAnswerInv, KeeperInvHolds, TypeCorrect, PTL DEF Spec

LEMMA MutexInvHolds ==
  Spec /\ [][NoOverwrite]_vars /\ [][NoStaleCallback]_vars => []MutexInv
<1>1. /\ TypeOK /\ KeeperInv /\ RegisteredInv /\ IPInv /\ AnswerInv /\ MutexInv
      /\ [Next]_vars /\ [NoStaleCallback]_vars
      => MutexInv'
  BY NextMutexInv
<1> QED BY InitMutexInv, KeeperInvHolds, RegisteredInvHolds, IPInvHolds, <1>1, AnswerInvHolds,
           TypeCorrect, PTL DEF Spec

\* As long as no Run overwrote an entry and no callback met the successor of its
\* VM, Daemon.Mutex is held across a step only by a handler that panicked because
\* its VM was deregistered after it looked it up: no send blocks on publicIPCh,
\* none finds it closed.
THEOREM MutexLost ==
  Spec /\ [][NoOverwrite]_vars /\ [][NoStaleCallback]_vars => []MutexLostOnlyToDeadGuest
<1>1. MutexInv => MutexLostOnlyToDeadGuest
  BY DEF MutexInv
<1> QED BY <1>1, MutexInvHolds, PTL

\* Where no UUID is used twice, no callback meets another VM than its own.
THEOREM UUIDsSufficeForCallbacks == ASSUME UUIDsDiffer PROVE Spec => [][NoStaleCallback]_vars
<1>1. TypeOK /\ IPInv => NoStaleCallback
  <2> SUFFICES ASSUME TypeOK, IPInv, NEW q \in Requests, Meets(q)
               PROVE  active[UUIDOf[req[q].from]] \in {req[q].from, Nil}
    BY DEF NoStaleCallback
  <2>1. req[q].from \in VMs
    BY DEF Meets, Fetch, Enter, TypeOK, ReqTypeOK
  <2> QED BY <2>1, ConstantsAssumption DEF IPInv, ActiveByUUID, UUIDsDiffer, TypeOK, ServerTypeOK
<1> QED BY <1>1, IPInvHolds, TypeCorrect, PTL

-----------------------------------------------------------------------------
(***************************************************************************)
(* The guest that answers.  WatchRecord reads the Pid of the hypervisor    *)
(* when an address arrives, and would end the daemon were there none.      *)
(***************************************************************************)

\* An address on its way to v was sent by v's guest, which runs or ran.
OwnInv ==
  /\ \A v \in VMs : /\ vm[v].ip \in {v, Nil}
                    /\ vm[v].ipCh \in {v, Nil} /\ (vm[v].ipCh # Nil => Started(v))
                    /\ vm[v].received \in {v, Nil} /\ (vm[v].received # Nil => Started(v))
  /\ \A q \in Requests : req[q].pc # "idle" => Started(req[q].from)

LEMMA GoroutineOwnInv ==
  ASSUME TypeOK, KeeperInv, MutexInv, OwnInv, Next, NEW v \in VMs,
         RunAccept(v) \/ RunStep(v) \/ Watcher(v) \/ Keeper(v) \/ ProcExit(v)
  PROVE  OwnInv'
<1>1. \A w \in VMs : Started(w) => Started(w)'
  BY StartedStays
<1> USE DEF TypeOK
<1>2. \A q \in Requests : req'[q].pc # "idle" => req[q].pc # "idle" /\ req'[q].from = req[q].from
  BY DEF RunAccept, RunStep, RunReserved, RunLookup, RunRegister, RunStrand, RunLaunch, RunReply,
         Watcher, WatchReceive, WatchRecord, WatchClose, WatchTimeout, WatchKill, Keeper, KeeperAdd,
         KeeperStart, KeeperReap, Deregister, KeeperDone, ProcExit, ReqTypeOK
<1>3. ASSUME NEW w \in VMs
      PROVE  /\ vm'[w].ip \in {vm[w].ip, vm[w].received}
             /\ vm'[w].ipCh \in {vm[w].ipCh, Nil}
             /\ vm'[w].received \in {vm[w].received, vm[w].ipCh, Nil}
  <2> USE DEF VMTypeOK, VMInfo
  <2>1. CASE RunLaunch(v)
    BY <2>1, SMTT(30) DEF RunLaunch
  <2>2. CASE RunReply(v)
    BY <2>2, SMTT(30) DEF RunReply
  <2>3. CASE WatchReceive(v)
    BY <2>3, SMTT(30) DEF WatchReceive
  <2>4. CASE WatchRecord(v)
    BY <2>4, SMTT(30) DEF WatchRecord
  <2>5. CASE WatchClose(v)
    BY <2>5, SMTT(30) DEF WatchClose
  <2>6. CASE WatchKill(v)
    BY <2>6, SMTT(30) DEF WatchKill, Aborted
  <2>7. CASE KeeperStart(v)
    BY <2>7, SMTT(30) DEF KeeperStart
  <2>8. CASE UNCHANGED vm
    BY <2>8
  <2> QED BY <2>1, <2>2, <2>3, <2>4, <2>5, <2>6, <2>7, <2>8 DEF RunAccept, RunStep, RunReserved,
             RunLookup, RunRegister, RunStrand, Watcher, WatchTimeout, Keeper, KeeperAdd,
             KeeperReap, Deregister, KeeperDone, ProcExit
<1>4. \A q \in Requests : req'[q].pc # "idle" => proc'[req'[q].from] # "none"
  <2> SUFFICES ASSUME NEW q \in Requests, req'[q].pc # "idle" PROVE proc'[req'[q].from] # "none"
    OBVIOUS
  <2>1. req[q].from \in VMs /\ Started(req[q].from) /\ req'[q].from = req[q].from
    BY <1>2 DEF OwnInv, ReqTypeOK
  <2> QED BY <1>1, <2>1 DEF Started
<1>5. \A w \in VMs : Started(w) => proc'[w] # "none"
  BY <1>1 DEF Started
<1>6. ASSUME NEW w \in VMs
      PROVE  /\ vm'[w].ip \in {w, Nil}
             /\ vm'[w].ipCh \in {w, Nil} /\ (vm'[w].ipCh # Nil => proc'[w] # "none")
             /\ vm'[w].received \in {w, Nil} /\ (vm'[w].received # Nil => proc'[w] # "none")
  BY <1>3, <1>5 DEF OwnInv
<1> QED BY <1>4, <1>6 DEF OwnInv, Started

LEMMA HTTPOwnInv ==
  ASSUME TypeOK, MutexInv, OwnInv, NoStaleCallback, NEW q \in Requests, Arrive(q) \/ HTTP(q)
  PROVE  OwnInv'
<1> USE DEF TypeOK
<1> DEFINE x == req[q].vm
           w == OnceSet(q, x)
<1>1. UNCHANGED proc
  BY DEF Arrive, HTTP, Fetch, AlreadyCalled, Enter, DeliverPanic, DeliverPing, DeliverNotIsolated,
         SendComplete
<1>2. ~SendComplete(q)
  BY DEF SendComplete, MutexInv, FetchedInv
<1>3. \A p \in Requests : req'[p].pc # "idle" => proc[req'[p].from] # "none"
  <2>1. CASE Arrive(q)
    BY <2>1 DEF Arrive, MayCall, Started, OwnInv, ReqTypeOK
  <2>2. CASE HTTP(q)
    <3>0. req'[q].from = req[q].from /\ \A p \in Requests : p # q => req'[p] = req[p]
      <4>1. CASE Fetch(q) \/ AlreadyCalled(q)
        BY <4>1 DEF Fetch, AlreadyCalled, ReqTypeOK
      <4>2. CASE DeliverPanic(q) \/ DeliverNotIsolated(q)
        BY <4>2 DEF DeliverPanic, DeliverNotIsolated, ReqTypeOK
      <4>3. CASE DeliverPing(q)
        BY <4>3 DEF DeliverPing, ReqTypeOK
      <4> QED BY <1>2, <2>2, <4>1, <4>2, <4>3 DEF HTTP
    <3>1. req[q].pc # "idle"
      BY <1>2, <2>2 DEF HTTP, Fetch, AlreadyCalled, Enter, DeliverPanic, DeliverPing,
                        DeliverNotIsolated
    <3> QED BY <3>0, <3>1 DEF OwnInv, Started
  <2> QED BY <2>1, <2>2
<1>4. ASSUME NEW v \in VMs
      PROVE  /\ vm'[v].ip = vm[v].ip /\ vm'[v].received = vm[v].received
             /\ vm'[v].ipCh = vm[v].ipCh \/ (vm'[v].ipCh = v /\ Started(v))
  <2>1. CASE UNCHANGED vm
    BY <2>1
  <2>2. CASE DeliverPanic(q) \/ DeliverPing(q) \/ DeliverNotIsolated(q)
    <3>0. Enter(q)
      BY <2>2 DEF DeliverPanic, DeliverPing, DeliverNotIsolated
    <3>1. req[q].pc = "fetched" /\ x \in VMs /\ x = req[q].from /\ Started(x)
      BY <3>0 DEF Enter, ReqTypeOK, MutexInv, FetchedInv, OwnInv
    <3>2. Recipient(q) \in {x, Nil}
      BY <3>0, <3>1 DEF NoStaleCallback, Meets, Recipient
    <3>3. /\ w \in [VMs -> VMInfo]
          /\ w[v].ip = vm[v].ip /\ w[v].ipCh = vm[v].ipCh /\ w[v].received = vm[v].received
      BY <3>1, OnceSetKeeps
    <3>4. \/ vm' = w
          \/ vm' = [w EXCEPT ![x].ipCh = x]
          \/ vm' = [w EXCEPT ![x].notIsolated = TRUE]
      <4>1. CASE DeliverPanic(q)
        BY <4>1 DEF DeliverPanic
      <4>2. CASE DeliverPing(q)
        BY <3>1, <3>2, <4>2 DEF DeliverPing
      <4>3. CASE DeliverNotIsolated(q)
        BY <3>1, <3>2, <4>3 DEF DeliverNotIsolated
      <4> QED BY <2>2, <4>1, <4>2, <4>3
    <3> HIDE DEF w, x
    <3> QED BY <3>1, <3>3, <3>4 DEF VMInfo
  <2> QED BY <1>2, <2>1, <2>2 DEF HTTP, Arrive, Fetch, AlreadyCalled, DeliverPanic, DeliverPing,
                                   DeliverNotIsolated
<1> QED BY <1>1, <1>3, <1>4 DEF OwnInv, Started

LEMMA NextOwnInv ==
  ASSUME TypeOK, KeeperInv, MutexInv, OwnInv, [Next]_vars, [NoStaleCallback]_vars
  PROVE  OwnInv'
<1>1. CASE UNCHANGED vars
  BY <1>1 DEF OwnInv, Started
<1> SUFFICES ASSUME Next, NoStaleCallback PROVE OwnInv'
  BY <1>1
<1>2. CASE \E v \in VMs : RunAccept(v) \/ RunStep(v) \/ Watcher(v) \/ Keeper(v) \/ ProcExit(v)
  BY <1>2, GoroutineOwnInv
<1>3. CASE \E q \in Requests : Arrive(q) \/ HTTP(q)
  BY <1>3, HTTPOwnInv
<1>4. CASE Start \/ \E s \in Stoppers : StopBegin(s) \/ Stopper(s)
  <2>1. UNCHANGED <<vm, req>>
    BY <1>4 DEF Start, Refuse, Leave, Notify, StopBegin, Stopper, StopClose, StopRefuse,
                Snapshot, Kill, TermPanic, Term, TermDone, TermTimeout, Poll
  <2>3. \A w \in VMs : Started(w) => Started(w)'
    BY StartedStays
  <2>4. \A q \in Requests : req[q].pc # "idle" => req[q].from \in VMs
    BY DEF TypeOK, ReqTypeOK
  <2> QED BY <2>1, <2>3, <2>4 DEF OwnInv
<1> QED BY <1>1, <1>2, <1>3, <1>4 DEF Next, Arrival, Goroutine

\* As long as no Run overwrote an entry and no callback met the successor of its
\* VM, a Run is answered by its own guest, and the address that arrives finds the
\* hypervisor started: of the two cases of Run's select that read the Pid of a
\* process, only the timeout can meet one that is not there and end the daemon.
THEOREM AnsweredByOwnGuest ==
  Spec /\ [][NoOverwrite]_vars /\ [][NoStaleCallback]_vars => []OwnGuestAnswers
<1>1. Init => OwnInv
  BY DEF Init, OwnInv
<1>2. TypeOK /\ KeeperInv /\ MutexInv /\ OwnInv /\ [Next]_vars /\ [NoStaleCallback]_vars => OwnInv'
  BY NextOwnInv
<1>3. OwnInv /\ AnswerInv => OwnGuestAnswers
  BY DEF OwnInv, AnswerInv, WatcherInv, OwnGuestAnswers
<1> QED BY <1>1, <1>2, <1>3, MutexInvHolds, AnswerInvHolds, KeeperInvHolds, TypeCorrect,
           PTL DEF Spec

-----------------------------------------------------------------------------
(***************************************************************************)
(* What a client sees is VMService.  The mapping gives each VM four values *)
(* of its own; a step of VMLifecycle changes at most one value of one VM,  *)
(* as an action of VMService does.                                         *)
(***************************************************************************)

PhaseOf(v) == IF active[UUIDOf[v]] = v THEN "listed"
              ELSE IF keeper[v] \in {"deregistered", "finished"} THEN "gone"
              ELSE "absent"

HypervisorOf(v) == IF proc[v] = "none" THEN "none"
                   ELSE IF proc[v] = "exited" THEN "ended"
                   ELSE "running"

BootedOf(v) == vm[v].done

AnswerOf(v) == IF run[v] \in {"refused", "ok"} THEN run[v]
               ELSE IF run[v] \in {"stranded", "error", "tooEarly"} THEN "error"
               ELSE "none"

SamePhase(v) == PhaseOf(v)' = PhaseOf(v)
SameHypervisor(v) == HypervisorOf(v)' = HypervisorOf(v)
SameBooted(v) == BootedOf(v)' = BootedOf(v)
SameAnswer(v) == AnswerOf(v)' = AnswerOf(v)
SameView(v) == SamePhase(v) /\ SameHypervisor(v) /\ SameBooted(v) /\ SameAnswer(v)

Moves(v) ==
  \/ /\ SamePhase(v) /\ SameHypervisor(v) /\ SameBooted(v)
     /\ AnswerOf(v) = "none"
     /\ \/ PhaseOf(v) = "absent" /\ AnswerOf(v)' = "refused"
        \/ PhaseOf(v) # "absent" /\ AnswerOf(v)' = IF BootedOf(v) THEN "ok" ELSE "error"
  \/ /\ SameHypervisor(v) /\ SameBooted(v) /\ SameAnswer(v)
     /\ \/ PhaseOf(v) = "absent" /\ AnswerOf(v) = "none" /\ PhaseOf(v)' = "listed"
        \/ PhaseOf(v) = "listed" /\ HypervisorOf(v) # "running" /\ PhaseOf(v)' = "gone"
  \/ /\ SamePhase(v) /\ SameBooted(v) /\ SameAnswer(v)
     /\ \/ PhaseOf(v) = "listed" /\ HypervisorOf(v) = "none" /\ HypervisorOf(v)' = "running"
        \/ HypervisorOf(v) = "running" /\ HypervisorOf(v)' = "ended"
  \/ /\ SamePhase(v) /\ SameHypervisor(v) /\ SameAnswer(v)
     /\ HypervisorOf(v) # "none" /\ AnswerOf(v) = "none"
     /\ BootedOf(v) = FALSE /\ BootedOf(v)' = TRUE

LEMMA SameIsStutter ==
  ASSUME \A v \in VMs : SameView(v)
  PROVE  UNCHANGED Service!vars
  BY DEF Service!vars, SameView, SamePhase, SameHypervisor, SameBooted, SameAnswer, PhaseOf,
         HypervisorOf, BootedOf, AnswerOf

\* A step that moves one VM, as the service may, is a step of the service.
LEMMA MoveIsServiceStep ==
  ASSUME NEW v \in VMs, Moves(v), \A w \in VMs \ {v} : SameView(w),
         \A w \in VMs : BootedOf(w) \in BOOLEAN /\ BootedOf(w)' \in BOOLEAN
  PROVE  Service!Next
<1> DEFINE P == [w \in VMs |-> PhaseOf(w)]
           H == [w \in VMs |-> HypervisorOf(w)]
           B == {w \in VMs : BootedOf(w)}
           A == [w \in VMs |-> AnswerOf(w)]
<1>1. /\ \A w \in VMs : P[w] = PhaseOf(w) /\ H[w] = HypervisorOf(w) /\ A[w] = AnswerOf(w)
      /\ \A w \in VMs : w \in B <=> BootedOf(w)
  OBVIOUS
<1>2. /\ SamePhase(v) => P' = P
      /\ P' = [P EXCEPT ![v] = PhaseOf(v)']
  BY DEF SameView, SamePhase
<1>3. /\ SameHypervisor(v) => H' = H
      /\ H' = [H EXCEPT ![v] = HypervisorOf(v)']
  BY DEF SameView, SameHypervisor
<1>4. /\ SameBooted(v) => B' = B
      /\ BootedOf(v)' = TRUE => B' = B \cup {v}
  BY DEF SameView, SameBooted
<1>5. /\ SameAnswer(v) => A' = A
      /\ A' = [A EXCEPT ![v] = AnswerOf(v)']
  BY DEF SameView, SameAnswer
<1>6. /\ Service!Refuse(v) <=> /\ P[v] = "absent" /\ A[v] = "none"
                              /\ A' = [A EXCEPT ![v] = "refused"]
                              /\ UNCHANGED <<P, H, B>>
      /\ Service!List(v) <=> /\ P[v] = "absent" /\ A[v] = "none"
                            /\ P' = [P EXCEPT ![v] = "listed"]
                            /\ UNCHANGED <<H, B, A>>
      /\ Service!Launch(v) <=> /\ P[v] = "listed" /\ H[v] = "none"
                              /\ H' = [H EXCEPT ![v] = "running"]
                              /\ UNCHANGED <<P, B, A>>
      /\ Service!End(v) <=> /\ H[v] = "running"
                           /\ H' = [H EXCEPT ![v] = "ended"]
                           /\ UNCHANGED <<P, B, A>>
  BY DEF Service!Refuse, Service!List, Service!Launch, Service!End, PhaseOf, HypervisorOf,
         BootedOf, AnswerOf
<1>7. /\ Service!Unlist(v) <=> /\ P[v] = "listed" /\ H[v] # "running"
                              /\ P' = [P EXCEPT ![v] = "gone"]
                              /\ UNCHANGED <<H, B, A>>
      /\ Service!Boot(v) <=> /\ H[v] # "none" /\ A[v] = "none" /\ v \notin B
                            /\ B' = B \cup {v}
                            /\ UNCHANGED <<P, H, A>>
      /\ Service!Answer(v) <=> /\ P[v] # "absent" /\ A[v] = "none"
                              /\ A' = [A EXCEPT ![v] = IF v \in B THEN "ok" ELSE "error"]
                              /\ UNCHANGED <<P, H, B>>
  BY DEF Service!Unlist, Service!Boot, Service!Answer, PhaseOf, HypervisorOf, BootedOf, AnswerOf
<1> HIDE DEF P, H, B, A
<1>8. \/ Service!Refuse(v) \/ Service!List(v) \/ Service!Launch(v) \/ Service!End(v)
      \/ Service!Unlist(v) \/ Service!Boot(v) \/ Service!Answer(v)
  BY <1>1, <1>2, <1>3, <1>4, <1>5, <1>6, <1>7 DEF Moves
<1> QED BY <1>8 DEF Service!Next

-----------------------------------------------------------------------------
\* The steps, one goroutine at a time.

ViewInv == TypeOK /\ KeeperInv /\ RegisteredInv /\ AnswerInv

\* A step of v's own goroutines concerns v alone.
OneMoves(v) == (Moves(v) \/ SameView(v)) /\ \A w \in VMs \ {v} : SameView(w)

LEMMA RunMoves ==
  ASSUME NoOverwrite, ViewInv, ViewInv', NEW v \in VMs, RunAccept(v) \/ RunStep(v)
  PROVE  OneMoves(v)
<1> USE ConstantsAssumption
    DEF ViewInv, TypeOK, ServerTypeOK, VMTypeOK, VMInfo, OneMoves, Moves, SameView, SamePhase,
        SameHypervisor, SameBooted, SameAnswer, PhaseOf, HypervisorOf, BootedOf, AnswerOf
<1>1. CASE RunAccept(v) \/ RunReserved(v) \/ RunLookup(v)
  BY <1>1 DEF RunAccept, RunReserved, RunLookup, RegisteredInv, Enrolled, KeeperInv, Launched
<1>2. CASE RunRegister(v)
  <2>1. active[UUIDOf[v]] = Nil
    BY <1>2 DEF NoOverwrite, Overwrites
  <2> QED BY <1>2, <2>1 DEF RunRegister, RegisteredInv, Enrolled, KeeperInv, Launched
<1>3. CASE RunStrand(v)
  BY <1>3 DEF RunStrand, RegisteredInv, Enrolled, KeeperInv, Launched, AnswerInv, WatcherInv,
              ReplyInv
<1>4. CASE RunLaunch(v)
  BY <1>4, SMTT(30) DEF RunLaunch, KeeperInv, Launched
<1>5. CASE RunReply(v)
  BY <1>5 DEF RunReply, Booted, RegisteredInv, Enrolled, KeeperInv, Launched, AnswerInv,
              WatcherInv, ErrorInv, ReplyInv, NeverStarts
<1> QED BY <1>1, <1>2, <1>3, <1>4, <1>5 DEF RunStep

LEMMA WatcherMoves ==
  ASSUME ViewInv, NEW v \in VMs, Watcher(v)
  PROVE  OneMoves(v)
<1> USE DEF ViewInv, TypeOK, VMTypeOK, VMInfo, OneMoves, Moves, SameView, SamePhase,
            SameHypervisor, SameBooted, SameAnswer, PhaseOf, HypervisorOf, BootedOf, AnswerOf
<1>1. CASE WatchReceive(v) \/ WatchRecord(v)
  BY <1>1 DEF WatchReceive, WatchRecord
<1>2. CASE WatchTimeout(v) \/ WatchKill(v)
  BY <1>2 DEF WatchTimeout, WatchKill, Aborted, Signalled, Killed
<1>3. CASE WatchClose(v)
  BY <1>3 DEF WatchClose, AnswerInv, WatcherInv, ErrorInv, ReplyInv, NeverStarts, Started,
              Launched, RunState
<1> QED BY <1>1, <1>2, <1>3 DEF Watcher

LEMMA KeeperMoves ==
  ASSUME ViewInv, ViewInv', NEW v \in VMs, Keeper(v) \/ ProcExit(v)
  PROVE  OneMoves(v)
<1> USE ConstantsAssumption
    DEF ViewInv, TypeOK, ServerTypeOK, VMTypeOK, VMInfo, OneMoves, Moves, SameView, SamePhase,
        SameHypervisor, SameBooted, SameAnswer, PhaseOf, HypervisorOf, BootedOf, AnswerOf
<1>1. CASE KeeperAdd(v) \/ KeeperReap(v)
  BY <1>1 DEF KeeperAdd, KeeperReap
<1>2. CASE KeeperStart(v)
  BY <1>2 DEF KeeperStart, KeeperInv, RegisteredInv, Enrolled
<1>3. CASE Deregister(v)
  <2>1. active[UUIDOf[v]] = v
    BY <1>3 DEF Deregister, KeeperInv, RegisteredInv, Enrolled
  <2> QED BY <1>3, <2>1 DEF Deregister, Removed, KeeperInv, RegisteredInv, Enrolled
<1>4. CASE KeeperDone(v)
  BY <1>4 DEF KeeperDone, RegisteredInv, Enrolled
<1>5. CASE ProcExit(v)
  BY <1>5 DEF ProcExit, Alive
<1> QED BY <1>1, <1>2, <1>3, <1>4, <1>5 DEF Keeper

\* The others only signal, which nobody sees.
LEMMA OthersMoveNothing ==
  ASSUME ViewInv, Next,
         ~\E v \in VMs : RunAccept(v) \/ RunStep(v) \/ Watcher(v) \/ Keeper(v) \/ ProcExit(v)
  PROVE  \A v \in VMs : SameView(v)
<1> USE DEF ViewInv, TypeOK, VMTypeOK
<1>1. UNCHANGED <<active, run, keeper>>
  <2>1. UNCHANGED <<run, keeper>>
    BY OnlySignals
  <2>2. UNCHANGED active
    BY DEF Next, Arrival, Goroutine, HTTP, Arrive, Fetch, AlreadyCalled, Enter, DeliverPanic,
       DeliverPing, DeliverNotIsolated, SendComplete, StopBegin, Stopper, StopClose, StopRefuse,
       Snapshot, Kill, TermPanic, Term, TermDone, TermTimeout, Poll, Start, Refuse, Leave, Notify
  <2> QED BY <2>1, <2>2
<1>2. \A v \in VMs : SameHypervisor(v)
  BY OnlySignals DEF Signalled, Killed, SameHypervisor, HypervisorOf
<1>3. \A v \in VMs : SameBooted(v)
  <2>1. CASE \E q \in Requests : Arrive(q) \/ HTTP(q)
    BY <2>1, HTTPKept DEF Kept, SameBooted, BootedOf
  <2>2. CASE Start \/ \E s \in Stoppers : StopBegin(s) \/ Stopper(s)
    <3>1. UNCHANGED vm
      BY <2>2 DEF Start, Refuse, Leave, Notify, StopBegin, Stopper, StopClose, StopRefuse,
                  Snapshot, Kill, TermPanic, Term, TermDone, TermTimeout, Poll
    <3> QED BY <3>1 DEF SameBooted, BootedOf
  <2> QED BY <2>1, <2>2 DEF Next, Arrival, Goroutine
<1> QED BY <1>1, <1>2, <1>3 DEF SameView, SamePhase, SameAnswer, PhaseOf, AnswerOf

LEMMA ServiceStep ==
  ASSUME ViewInv, ViewInv', [Next]_vars, [NoOverwrite]_vars
  PROVE  [Service!Next]_(Service!vars)
<1>1. \A w \in VMs : BootedOf(w) \in BOOLEAN /\ BootedOf(w)' \in BOOLEAN
  BY DEF ViewInv, TypeOK, VMTypeOK, VMInfo, BootedOf
<1>2. ASSUME NEW v \in VMs, OneMoves(v) PROVE [Service!Next]_(Service!vars)
  BY <1>1, <1>2, MoveIsServiceStep, SameIsStutter DEF OneMoves
<1>3. CASE /\ NoOverwrite
           /\ \E v \in VMs : RunAccept(v) \/ RunStep(v) \/ Watcher(v) \/ Keeper(v) \/ ProcExit(v)
  BY <1>2, <1>3, RunMoves, WatcherMoves, KeeperMoves
<1>4. CASE Next /\ ~\E v \in VMs : RunAccept(v) \/ RunStep(v) \/ Watcher(v) \/ Keeper(v) \/ ProcExit(v)
  BY <1>4, OthersMoveNothing, SameIsStutter
<1>5. CASE UNCHANGED vars
  <2>1. \A v \in VMs : SameView(v)
    BY <1>5 DEF SameView, SamePhase, SameHypervisor, SameBooted, SameAnswer, PhaseOf,
                HypervisorOf, BootedOf, AnswerOf
  <2> QED BY <2>1, SameIsStutter
<1> QED BY <1>3, <1>4, <1>5

LEMMA ServiceInit == ASSUME Init PROVE Service!Init
  BY ConstantsAssumption DEF Init, Service!Init

\* As long as no Run overwrote an entry, VMLifecycle implements VMService:
\* whatever else races inside the daemon, a VM is listed once, from before its
\* hypervisor starts until after it ended, and its Run is answered once, by what
\* became of the guest.
THEOREM ImplementsService == Spec /\ [][NoOverwrite]_vars => ServiceSpec
<1>1. Spec => []AnswerInv
  BY InitAnswerInv, NextAnswerInv, KeeperInvHolds, TypeCorrect, PTL DEF Spec
<1>2. TypeOK /\ KeeperInv /\ RegisteredInv /\ AnswerInv => ViewInv
  BY DEF ViewInv
<1>3. Init => Service!Init
  BY ServiceInit
<1>4. ViewInv /\ ViewInv' /\ [Next]_vars /\ [NoOverwrite]_vars => [Service!Next]_(Service!vars)
  BY ServiceStep
<1> QED BY KeeperInvHolds, RegisteredInvHolds, <1>1, <1>2, <1>3, <1>4, TypeCorrect,
           PTL DEF Spec, ServiceSpec, Service!Spec
=============================================================================
