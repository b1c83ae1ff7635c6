------------------------- MODULE VMLifecycleProofs -------------------------
(***************************************************************************)
(* Proofs about VMLifecycle, for any number of VMs, requests and stoppers. *)
(***************************************************************************)
EXTENDS VMLifecycle, FiniteSetTheorems, SequenceTheorems, TLAPS

USE DEF serverVars, vars

(***************************************************************************)
(* Type correctness                                                        *)
(***************************************************************************)

LEMMA InitTypeOK == Init => TypeOK
<1> SUFFICES ASSUME Init PROVE TypeOK
  OBVIOUS
<1> USE ConstantsAssumption DEF Init
<1>1. ServerTypeOK
  BY DEF ServerTypeOK
<1>2. VMTypeOK
  BY DEF VMTypeOK, VMInfo, Address, RunState, WatcherState, KeeperState, ProcState
<1>3. ReqTypeOK
  BY DEF ReqTypeOK, Address, ReqState
<1>4. StopTypeOK
  BY DEF StopTypeOK, Address, StopState
<1> QED BY <1>1, <1>2, <1>3, <1>4 DEF TypeOK

\* The rank of a VM's creation is a number because the VMs are finitely many.
LEMMA BornIsNat == Cardinality({w \in VMs : vm[w].born # 0}) \in Nat
  BY ConstantsAssumption, FS_Subset, FS_CardinalityType

\* Every update of a VMInfo field leaves a VMInfo.
LEMMA VMInfoUpdate ==
  ASSUME NEW r \in VMInfo
  PROVE  /\ \A x \in Nat : [r EXCEPT !.born = x] \in VMInfo
         /\ \A x \in Address : [r EXCEPT !.ip = x] \in VMInfo
         /\ \A x \in Address : [r EXCEPT !.ipCh = x] \in VMInfo
         /\ \A x \in Address : [r EXCEPT !.received = x] \in VMInfo
         /\ \A x \in {"none", "start", "timeout"} : [r EXCEPT !.errCh = x] \in VMInfo
         /\ \A x \in BOOLEAN : [r EXCEPT !.done = x] \in VMInfo
         /\ \A x \in BOOLEAN : [r EXCEPT !.callBack = x] \in VMInfo
         /\ \A x \in BOOLEAN : [r EXCEPT !.isolationCheck = x] \in VMInfo
         /\ \A x \in BOOLEAN : [r EXCEPT !.notIsolated = x] \in VMInfo
  BY DEF VMInfo

LEMMA RunTypeOK == ASSUME TypeOK, NEW v \in VMs, RunAccept(v) \/ RunStep(v)
                   PROVE  TypeOK'
<1> USE ConstantsAssumption DEF TypeOK
<1>0. ReqTypeOK' /\ StopTypeOK'
  BY DEF RunAccept, RunStep, RunReserved, RunLookup, RunRegister, RunStrand, RunLaunch,
         RunReply, ReqTypeOK, StopTypeOK
<1>1. ServerTypeOK'
  BY DEF RunAccept, RunStep, RunReserved, RunLookup, RunRegister, RunStrand, RunLaunch,
         RunReply, ServerTypeOK
<1>2. VMTypeOK'
  <2> USE DEF VMTypeOK, RunState
  <2>1. CASE RunAccept(v) \/ RunReserved(v) \/ RunLookup(v) \/ RunRegister(v) \/ RunStrand(v)
    BY <2>1 DEF RunAccept, RunReserved, RunLookup, RunRegister, RunStrand
  <2>2. CASE RunLaunch(v)
    <3> DEFINE r == [vm[v] EXCEPT !.born = 1 + Cardinality({w \in VMs : vm[w].born # 0})]
    <3>1. r \in VMInfo
      <4>1. vm[v] \in VMInfo /\ 1 + Cardinality({w \in VMs : vm[w].born # 0}) \in Nat
        BY BornIsNat
      <4> QED BY <4>1, VMInfoUpdate
    <3>2. vm' = [vm EXCEPT ![v] = r]
      BY <2>2 DEF RunLaunch
    <3> HIDE DEF r
    <3> QED BY <2>2, <3>1, <3>2 DEF RunLaunch, WatcherState, KeeperState
  <2>3. CASE RunReply(v)
    <3> DEFINE r == [vm[v] EXCEPT !.errCh = "none"]
    <3>1. r \in VMInfo
      BY VMInfoUpdate
    <3>2. vm' = vm \/ vm' = [vm EXCEPT ![v] = r]
      BY <2>3 DEF RunReply
    <3> HIDE DEF r
    <3> QED BY <2>3, <3>1, <3>2 DEF RunReply
  <2> QED BY <2>1, <2>2, <2>3 DEF RunStep
<1> QED BY <1>0, <1>1, <1>2

LEMMA WatcherTypeOK == ASSUME TypeOK, NEW v \in VMs, Watcher(v) PROVE TypeOK'
<1> USE ConstantsAssumption DEF TypeOK
<1>0. ReqTypeOK' /\ StopTypeOK'
  <2>1. CASE WatchClose(v)
    <3>1. ASSUME NEW q \in Requests
          PROVE  \/ req'[q] = req[q]
                 \/ /\ req[q].pc = "sending"
                    /\ req'[q] = [pc |-> "panicked", from |-> req[q].from,
                                  vm |-> req[q].vm, to |-> req[q].to]
      <4>1. [req[q] EXCEPT !.pc = "panicked"]
              = [pc |-> "panicked", from |-> req[q].from, vm |-> req[q].vm, to |-> req[q].to]
        BY DEF ReqTypeOK
      <4>2. CASE req[q].pc = "sending" /\ req[q].to = v
        BY <2>1, <4>1, <4>2, Zenon DEF WatchClose
      <4>3. CASE ~(req[q].pc = "sending" /\ req[q].to = v)
        BY <2>1, <4>3, Zenon DEF WatchClose
      <4> QED BY <4>2, <4>3
    <3>2. req' \in [Requests -> [pc : ReqState, from : Address, vm : Address, to : Address]]
      <4>1. ASSUME NEW q \in Requests
            PROVE  req'[q] \in [pc : ReqState, from : Address, vm : Address, to : Address]
        <5>1. /\ req[q] \in [pc : ReqState, from : Address, vm : Address, to : Address]
              /\ [pc |-> "panicked", from |-> req[q].from, vm |-> req[q].vm, to |-> req[q].to]
                   \in [pc : ReqState, from : Address, vm : Address, to : Address]
          BY DEF ReqTypeOK, ReqState
        <5> QED BY <3>1, <5>1, Zenon
      <4>2. req' = [q \in Requests |-> req'[q]]
        BY <2>1, Zenon DEF WatchClose
      <4> QED BY <4>1, <4>2
    <3>3. StopTypeOK'
      BY <2>1 DEF WatchClose, StopTypeOK
    <3> QED BY <3>1, <3>2, <3>3 DEF ReqTypeOK
  <2>2. CASE ~WatchClose(v)
    BY <2>2 DEF Watcher, WatchReceive, WatchRecord, WatchTimeout, WatchKill, ReqTypeOK, StopTypeOK
  <2> QED BY <2>1, <2>2
<1>1. ServerTypeOK'
  BY DEF Watcher, WatchReceive, WatchRecord, WatchClose, WatchTimeout, WatchKill, ServerTypeOK
<1>2. VMTypeOK'
  <2> USE DEF VMTypeOK, WatcherState
  <2>1. CASE WatchReceive(v)
    <3> DEFINE r == [vm[v] EXCEPT !.received = vm[v].ipCh]
               s == [r EXCEPT !.ipCh = Nil]
    <3>0. vm[v] \in VMInfo /\ vm[v].ipCh \in Address /\ vm[v].received \in Address
      BY DEF VMInfo
    <3>1. r \in VMInfo
      BY <3>0, VMInfoUpdate
    <3>2. s \in VMInfo
      BY <3>1, VMInfoUpdate DEF Address
    <3>3. vm' = [vm EXCEPT ![v] = s]
      BY <2>1 DEF WatchReceive
    <3> HIDE DEF r, s
    <3>4. vm' \in [VMs -> VMInfo]
      BY <3>2, <3>3
    <3>5. UNCHANGED <<run, keeper, proc>> /\ watcher' = [watcher EXCEPT ![v] = "received"]
      BY <2>1 DEF WatchReceive
    <3> QED BY <3>4, <3>5
  <2>2. CASE WatchRecord(v)
    <3> DEFINE r == [vm[v] EXCEPT !.ip = vm[v].received]
               s == [r EXCEPT !.received = Nil]
    <3>0. vm[v] \in VMInfo /\ vm[v].ipCh \in Address /\ vm[v].received \in Address
      BY DEF VMInfo
    <3>1. r \in VMInfo
      BY <3>0, VMInfoUpdate
    <3>2. s \in VMInfo
      BY <3>1, VMInfoUpdate DEF Address
    <3>3. vm' = vm \/ vm' = [vm EXCEPT ![v] = s]
      BY <2>2 DEF WatchRecord
    <3> HIDE DEF r, s
    <3> QED BY <2>2, <3>2, <3>3 DEF WatchRecord
  <2>3. CASE WatchClose(v)
    <3> DEFINE r == [vm[v] EXCEPT !.done = TRUE]
    <3>1. r \in VMInfo
      BY VMInfoUpdate
    <3>2. vm' = [vm EXCEPT ![v] = r]
      BY <2>3 DEF WatchClose
    <3>3. UNCHANGED <<run, keeper, proc>> /\ watcher' = [watcher EXCEPT ![v] = "finished"]
      BY <2>3 DEF WatchClose
    <3> HIDE DEF r
    <3> QED BY <3>1, <3>2, <3>3
  <2>4. CASE WatchTimeout(v)
    BY <2>4 DEF WatchTimeout, ProcState, Signalled
  <2>5. CASE WatchKill(v)
    <3> DEFINE r == [vm[v] EXCEPT !.errCh = "timeout"]
    <3>1. r \in VMInfo
      BY VMInfoUpdate
    <3>2. vm' = [vm EXCEPT ![v] = r]
      BY <2>5 DEF WatchKill, Aborted
    <3> HIDE DEF r
    <3> QED BY <2>5, <3>1, <3>2 DEF WatchKill, ProcState, Killed
  <2> QED BY <2>1, <2>2, <2>3, <2>4, <2>5 DEF Watcher
<1> QED BY <1>0, <1>1, <1>2

LEMMA KeeperTypeOK == ASSUME TypeOK, NEW v \in VMs, Keeper(v) \/ ProcExit(v) PROVE TypeOK'
<1> USE ConstantsAssumption DEF TypeOK
<1>0. ReqTypeOK' /\ StopTypeOK'
  BY DEF Keeper, KeeperAdd, KeeperStart, KeeperReap, Deregister, KeeperDone, ProcExit,
         ReqTypeOK, StopTypeOK
<1>1. ServerTypeOK'
  BY DEF Keeper, KeeperAdd, KeeperStart, KeeperReap, Deregister, Removed, KeeperDone,
         ProcExit, ServerTypeOK
<1>2. VMTypeOK'
  <2> USE DEF VMTypeOK, KeeperState, ProcState
  <2>1. CASE KeeperAdd(v) \/ KeeperReap(v) \/ Deregister(v) \/ KeeperDone(v) \/ ProcExit(v)
    BY <2>1 DEF KeeperAdd, KeeperReap, Deregister, KeeperDone, ProcExit
  <2>2. CASE KeeperStart(v)
    <3> DEFINE r == [vm[v] EXCEPT !.errCh = "start"]
    <3>1. r \in VMInfo
      BY VMInfoUpdate
    <3>2. vm' = vm \/ vm' = [vm EXCEPT ![v] = r]
      BY <2>2 DEF KeeperStart
    <3> HIDE DEF r
    <3> QED BY <2>2, <3>1, <3>2 DEF KeeperStart
  <2> QED BY <2>1, <2>2 DEF Keeper
<1> QED BY <1>0, <1>1, <1>2

\* One record of req is written.
RequestRecord == [pc : ReqState, from : Address, vm : Address, to : Address]

RequestOK(r) ==
  /\ r \in RequestRecord
  /\ r.pc # "idle" => r.from \in VMs
  /\ r.pc \in {"fetched", "sending"} => r.vm \in VMs
  /\ r.pc = "sending" => r.to \in VMs

LEMMA RequestUpdate ==
  ASSUME ReqTypeOK, NEW q \in Requests, NEW r, RequestOK(r), req' = [req EXCEPT ![q] = r]
  PROVE  ReqTypeOK'
<1>1. req \in [Requests -> RequestRecord] /\ \A p \in Requests : RequestOK(req[p])
  BY DEF ReqTypeOK, RequestOK, RequestRecord
<1>2. req' \in [Requests -> RequestRecord] /\ \A p \in Requests : RequestOK(req'[p])
  BY <1>1 DEF RequestOK
<1> QED BY <1>2 DEF ReqTypeOK, RequestOK, RequestRecord

LEMMA FetchReqTypeOK ==
  ASSUME TypeOK, NEW q \in Requests, Fetch(q)
  PROVE  ReqTypeOK'
<1> DEFINE x == active[UUIDOf[req[q].from]]
           pc == IF x = Nil THEN "panicked" ELSE "fetched"
           r == [req[q] EXCEPT !.vm = x, !.pc = pc]
<1>0. ReqTypeOK
  BY DEF TypeOK
<1>1. req[q].from \in VMs /\ x \in VMs \cup {Nil}
  BY ConstantsAssumption DEF TypeOK, Fetch, ServerTypeOK, ReqTypeOK
<1>2. req' = [req EXCEPT ![q].vm = x, ![q].pc = pc]
  BY DEF Fetch
<1>3. pc \in {"panicked", "fetched"} /\ (pc = "fetched" => x # Nil)
  OBVIOUS
<1> HIDE DEF x, pc
<1>4. pc \in ReqState /\ x \in Address
  BY <1>1, <1>3 DEF ReqState, Address
<1>5. req' = [req EXCEPT ![q] = r]
  BY <1>0, <1>2 DEF ReqTypeOK
<1>6. r \in RequestRecord /\ r.pc = pc /\ r.vm = x /\ r.from = req[q].from
  BY <1>0, <1>4 DEF ReqTypeOK, RequestRecord
<1> HIDE DEF r
<1>7. RequestOK(r)
  BY <1>1, <1>3, <1>6 DEF RequestOK
<1> QED BY <1>0, <1>5, <1>7, RequestUpdate

LEMMA DeliverPingReqTypeOK ==
  ASSUME TypeOK, NEW q \in Requests, DeliverPing(q)
  PROVE  ReqTypeOK'
<1>0. ReqTypeOK
  BY DEF TypeOK
<1>1. /\ req[q] \in RequestRecord
      /\ req[q].pc = "fetched" /\ req[q].from \in VMs /\ req[q].vm \in VMs
  BY DEF TypeOK, ReqTypeOK, RequestRecord, DeliverPing, Enter
<1>2. CASE req' = [req EXCEPT ![q].pc = "done"]
  <2> DEFINE r == [req[q] EXCEPT !.pc = "done"]
  <2>1. r \in RequestRecord /\ r.pc = "done" /\ r.from = req[q].from
    BY <1>1 DEF RequestRecord, ReqState
  <2>2. req' = [req EXCEPT ![q] = r]
    BY <1>0, <1>2 DEF ReqTypeOK
  <2> HIDE DEF r
  <2>3. RequestOK(r)
    BY <1>1, <2>1 DEF RequestOK
  <2> QED BY <1>0, <2>2, <2>3, RequestUpdate
<1>3. ASSUME NEW x \in VMs, req' = [req EXCEPT ![q].pc = "sending", ![q].to = x]
      PROVE  ReqTypeOK'
  <2> DEFINE r == [req[q] EXCEPT !.pc = "sending", !.to = x]
  <2>1. "sending" \in ReqState /\ x \in Address
    BY DEF ReqState, Address
  <2>2. req' = [req EXCEPT ![q] = r]
    BY <1>0, <1>3 DEF ReqTypeOK
  <2>3. /\ r \in RequestRecord
        /\ r.pc = "sending" /\ r.to = x /\ r.from = req[q].from /\ r.vm = req[q].vm
    BY <1>1, <2>1 DEF RequestRecord
  <2> HIDE DEF r
  <2>4. RequestOK(r)
    BY <1>1, <2>3 DEF RequestOK
  <2> QED BY <1>0, <2>2, <2>4, RequestUpdate
<1>4. Recipient(q) # Nil => Recipient(q) \in VMs
  BY <1>1, ConstantsAssumption DEF Recipient, TypeOK, ServerTypeOK
<1> QED BY <1>2, <1>3, <1>4 DEF DeliverPing

LEMMA HTTPTypeOK == ASSUME TypeOK, NEW q \in Requests, Arrive(q) \/ HTTP(q) PROVE TypeOK'
<1> USE ConstantsAssumption DEF TypeOK
<1>0. StopTypeOK' /\ UNCHANGED <<run, watcher, keeper, proc>>
  BY DEF HTTP, Arrive, Fetch, AlreadyCalled, Enter, DeliverPanic, DeliverPing,
         DeliverNotIsolated, SendComplete, StopTypeOK
<1>1. ServerTypeOK'
  BY DEF HTTP, Arrive, Fetch, AlreadyCalled, Enter, DeliverPanic, DeliverPing,
         DeliverNotIsolated, SendComplete, ServerTypeOK
<1>2. ReqTypeOK'
  <2> USE DEF ReqTypeOK, ReqState, Address
  <2>1. CASE Arrive(q)
    <3>1. PICK v \in VMs, pc \in {"done", "checked"} :
            req' = [req EXCEPT ![q] = [pc |-> pc, from |-> v, vm |-> Nil, to |-> Nil]]
      BY <2>1 DEF Arrive
    <3> QED BY <3>1
  <2>2. CASE Fetch(q)
    BY <2>2, FetchReqTypeOK DEF TypeOK
  <2>3. CASE AlreadyCalled(q)
    BY <2>3 DEF AlreadyCalled
  <2>4. CASE DeliverPanic(q)
    BY <2>4 DEF DeliverPanic, Enter
  <2>5. CASE DeliverPing(q)
    BY <2>5, DeliverPingReqTypeOK DEF TypeOK
  <2>6. CASE DeliverNotIsolated(q)
    BY <2>6 DEF DeliverNotIsolated, Enter
  <2>7. CASE SendComplete(q)
    BY <2>7 DEF SendComplete
  <2> QED BY <2>1, <2>2, <2>3, <2>4, <2>5, <2>6, <2>7 DEF HTTP
<1>3. VMTypeOK'
  <2> USE DEF VMTypeOK
  <2>1. CASE Arrive(q) \/ Fetch(q) \/ AlreadyCalled(q)
    BY <1>0, <2>1 DEF Arrive, Fetch, AlreadyCalled
  <2>2. ASSUME NEW x \in VMs PROVE OnceSet(q, x) \in [VMs -> VMInfo]
    <3>1. /\ [vm[x] EXCEPT !.callBack = TRUE] \in VMInfo
          /\ [vm[x] EXCEPT !.isolationCheck = TRUE] \in VMInfo
      BY VMInfoUpdate
    <3> QED BY <3>1 DEF OnceSet
  <2>3. ASSUME req[q].pc = "fetched"
        PROVE  req[q].vm \in VMs /\ OnceSet(q, req[q].vm) \in [VMs -> VMInfo]
    BY <2>2, <2>3 DEF ReqTypeOK
  <2>4. CASE DeliverPanic(q)
    BY <1>0, <2>3, <2>4 DEF DeliverPanic, Enter
  <2>5. CASE DeliverPing(q)
    <3> DEFINE w == OnceSet(q, req[q].vm)
               x == Recipient(q)
               r == [w[x] EXCEPT !.ipCh = req[q].from]
    <3>1. w \in [VMs -> VMInfo] /\ x \in VMs
      BY <2>3, <2>5 DEF DeliverPing, Enter, Recipient, ServerTypeOK, ReqTypeOK
    <3>2. req[q].from \in Address
      BY DEF ReqTypeOK
    <3>3. r \in VMInfo
      BY <3>1, <3>2, VMInfoUpdate
    <3>4. vm' = w \/ vm' = [w EXCEPT ![x] = r]
      BY <2>5 DEF DeliverPing
    <3> HIDE DEF w, x, r
    <3> QED BY <1>0, <3>1, <3>3, <3>4
  <2>6. CASE DeliverNotIsolated(q)
    <3> DEFINE w == OnceSet(q, req[q].vm)
               x == Recipient(q)
               r == [w[x] EXCEPT !.notIsolated = TRUE]
    <3>1. w \in [VMs -> VMInfo] /\ x \in VMs
      BY <2>3, <2>6 DEF DeliverNotIsolated, Enter, Recipient, ServerTypeOK, ReqTypeOK
    <3>2. r \in VMInfo
      BY <3>1, VMInfoUpdate
    <3>3. vm' = [w EXCEPT ![x] = r]
      BY <2>6 DEF DeliverNotIsolated
    <3> HIDE DEF w, x, r
    <3> QED BY <1>0, <3>1, <3>2, <3>3
  <2>7. CASE SendComplete(q)
    <3> DEFINE x == req[q].to
               r == [vm[x] EXCEPT !.ipCh = req[q].from]
    <3>1. x \in VMs /\ req[q].from \in Address
      BY <2>7 DEF SendComplete, ReqTypeOK
    <3>2. r \in VMInfo
      BY <3>1, VMInfoUpdate
    <3>3. vm' = [vm EXCEPT ![x] = r]
      BY <2>7 DEF SendComplete
    <3> HIDE DEF x, r
    <3> QED BY <1>0, <3>1, <3>2, <3>3
  <2> QED BY <2>1, <2>4, <2>5, <2>6, <2>7 DEF HTTP
<1> QED BY <1>0, <1>1, <1>2, <1>3

LEMMA TargetsAreVMs == ASSUME TypeOK, NEW s \in Stoppers, NEW l \in NewestFirst(Targets(s))
                       PROVE  l \in Seq(VMs)
<1>1. Targets(s) \subseteq VMs
  BY DEF Targets, Registered
<1>2. Cardinality(Targets(s)) \in Nat
  BY <1>1, ConstantsAssumption, FS_Subset, FS_CardinalityType
<1> QED BY <1>1, <1>2 DEF NewestFirst

\* Moving only pc leaves the rest of a stopper's record.
LEMMA PcUpdate ==
  ASSUME stop \in [Stoppers -> [pc : StopState, list : Seq(VMs), cur : Address]],
         NEW s \in Stoppers, NEW pc
  PROVE  [stop EXCEPT ![s].pc = pc] =
           [stop EXCEPT ![s] = [pc |-> pc, list |-> stop[s].list, cur |-> stop[s].cur]]
<1>1. [stop[s] EXCEPT !.pc = pc] = [pc |-> pc, list |-> stop[s].list, cur |-> stop[s].cur]
  OBVIOUS
<1> QED BY <1>1, Zenon

\* What a stopper's step has to show of the record it writes.
LEMMA StopUpdate ==
  ASSUME StopTypeOK, NEW s \in Stoppers,
         NEW pc \in StopState, NEW list \in Seq(VMs), NEW cur \in Address,
         pc \in {"walking", "terming", "polling"} => list # <<>>,
         pc \in {"terming", "polling"} => cur \in VMs,
         stop' = [stop EXCEPT ![s] = [pc |-> pc, list |-> list, cur |-> cur]]
  PROVE  StopTypeOK'
  BY DEF StopTypeOK

LEMMA StopperTypeOK == ASSUME TypeOK, NEW s \in Stoppers, StopBegin(s) \/ Stopper(s)
                       PROVE  TypeOK'
<1> USE ConstantsAssumption DEF TypeOK
<1>0. ReqTypeOK' /\ UNCHANGED <<vm, run, watcher, keeper>>
  BY DEF StopBegin, Stopper, StopClose, StopRefuse, Snapshot, Kill, TermPanic, Term, TermDone,
         TermTimeout, Poll, ReqTypeOK
<1>1. ServerTypeOK'
  BY DEF StopBegin, Stopper, StopClose, StopRefuse, Snapshot, Kill, TermPanic, Term, TermDone,
         TermTimeout, Poll, ServerTypeOK
<1>2. VMTypeOK'
  <2>1. proc' = proc \/ \E v \in VMs : \/ proc' = [proc EXCEPT ![v] = Killed(@)]
                                      \/ proc' = [proc EXCEPT ![v] = Signalled(@)]
    <3>1. CASE Kill(s)
      BY <3>1 DEF Kill, Targets, Registered
    <3>2. CASE Term(s)
      <4>1. stop[s].list \in Seq(VMs) /\ stop[s].list # <<>>
        BY <3>2 DEF Term, StopTypeOK
      <4>2. Head(stop[s].list) \in VMs
        BY <4>1, HeadTailProperties
      <4> QED BY <3>2, <4>2 DEF Term, ServerTypeOK
    <3>3. CASE TermTimeout(s)
      BY <3>3 DEF TermTimeout, StopTypeOK
    <3> QED BY <3>1, <3>2, <3>3 DEF StopBegin, Stopper, StopClose, StopRefuse, Snapshot,
                                    TermPanic, TermDone, Poll
  <2>2. proc' \in [VMs -> ProcState]
    BY <2>1 DEF VMTypeOK, ProcState, Killed, Signalled
  <2> QED BY <1>0, <2>2 DEF VMTypeOK
<1>3. StopTypeOK'
  <2> DEFINE now == stop[s]
             Becomes(pc, list, cur) ==
               stop' = [stop EXCEPT ![s] = [pc |-> pc, list |-> list, cur |-> cur]]
  <2>0. now \in [pc : StopState, list : Seq(VMs), cur : Address]
    BY DEF StopTypeOK
  <2>1. CASE StopBegin(s) \/ StopClose(s) \/ StopRefuse(s) \/ Kill(s) \/ TermPanic(s)
    <3>1. PICK pc \in {"accepted", "refused", "closed", "finished", "panicked"} :
            stop' = [stop EXCEPT ![s].pc = pc]
      BY <2>1 DEF StopBegin, StopClose, StopRefuse, Kill, TermPanic
    <3>2. Becomes(pc, now.list, now.cur)
      BY <2>0, <3>1, PcUpdate DEF StopTypeOK
    <3> QED BY <2>0, <3>2, StopUpdate DEF StopState
  <2>2. CASE Snapshot(s)
    <3>1. PICK l \in NewestFirst(Targets(s)) :
            Becomes(AfterList(l), l, Nil)
      BY <2>2 DEF Snapshot
    <3>2. l \in Seq(VMs)
      BY TargetsAreVMs
    <3>3. AfterList(l) \in StopState /\ (AfterList(l) # "finished" => l # <<>>)
      BY DEF AfterList, StopState
    <3>4. AfterList(l) \notin {"terming", "polling"}
      BY DEF AfterList
    <3> QED BY <3>1, <3>2, <3>3, <3>4, StopUpdate DEF Address
  <2>3. CASE Term(s)
    <3>1. PICK x : /\ x = active[UUIDOf[Head(now.list)]]
                   /\ x # Nil
                   /\ now.pc = "walking"
                   /\ Becomes("terming", now.list, x)
      BY <2>3 DEF Term
    <3>2. now.list # <<>>
      BY <3>1 DEF StopTypeOK
    <3>3. Head(now.list) \in VMs
      BY <2>0, <3>2, HeadTailProperties
    <3>4. x \in VMs
      BY <3>1, <3>3 DEF ServerTypeOK
    <3> DEFINE l == now.list
    <3>5. "terming" \in StopState /\ x \in Address /\ l \in Seq(VMs) /\ l # <<>>
      BY <2>0, <3>2, <3>4 DEF StopState, Address
    <3>6. Becomes("terming", l, x)
      BY <3>1
    <3> HIDE DEF l
    <3> QED BY <3>4, <3>5, <3>6, StopUpdate
  <2>4. CASE TermDone(s) \/ TermTimeout(s)
    <3>1. now.pc = "terming" /\ stop' = [stop EXCEPT ![s].pc = "polling"]
      BY <2>4 DEF TermDone, TermTimeout
    <3>2. Becomes("polling", now.list, now.cur)
      BY <2>0, <3>1, PcUpdate DEF StopTypeOK
    <3>3. now.list # <<>> /\ now.cur \in VMs
      BY <3>1 DEF StopTypeOK
    <3> QED BY <2>0, <3>2, <3>3, StopUpdate DEF StopState
  <2>5. CASE Poll(s)
    <3>1. now.pc = "polling" /\ Becomes(AfterList(Tail(now.list)), Tail(now.list), Nil)
      BY <2>5 DEF Poll
    <3> DEFINE l == Tail(now.list)
    <3>2. l \in Seq(VMs)
      <4>1. now.list # <<>>
        BY <3>1 DEF StopTypeOK
      <4> QED BY <2>0, <4>1, HeadTailProperties
    <3>3. AfterList(l) \in StopState /\ (AfterList(l) # "finished" => l # <<>>)
      BY DEF AfterList, StopState
    <3>4. AfterList(l) \notin {"terming", "polling"}
      BY DEF AfterList
    <3>5. Becomes(AfterList(l), l, Nil)
      BY <3>1
    <3> HIDE DEF l
    <3> QED BY <3>2, <3>3, <3>4, <3>5, StopUpdate DEF Address
  <2> QED BY <2>1, <2>2, <2>3, <2>4, <2>5 DEF Stopper
<1> QED BY <1>0, <1>1, <1>2, <1>3

LEMMA StartTypeOK == ASSUME TypeOK, Start PROVE TypeOK'
<1> USE ConstantsAssumption DEF TypeOK
<1>1. CASE Refuse
  BY <1>1 DEF Refuse, ServerTypeOK, VMTypeOK, ReqTypeOK, StopTypeOK
<1>2. ASSUME NEW how \in {"crashed", "exited"}, Leave(how) PROVE TypeOK'
  BY <1>2 DEF Leave, ServerTypeOK, VMTypeOK, ReqTypeOK, StopTypeOK
<1>3. ASSUME NEW s \in Stoppers, Notify(s) PROVE TypeOK'
  <2>1. ServerTypeOK' /\ VMTypeOK' /\ ReqTypeOK'
    BY <1>3 DEF Notify, ServerTypeOK, VMTypeOK, ReqTypeOK
  <2>2. StopTypeOK'
    BY <1>3 DEF Notify, StopTypeOK, StopState
  <2> QED BY <2>1, <2>2
<1> QED BY <1>1, <1>2, <1>3 DEF Start

LEMMA StutterTypeOK == TypeOK /\ UNCHANGED vars => TypeOK'
  BY DEF TypeOK, ServerTypeOK, VMTypeOK, ReqTypeOK, StopTypeOK

\* Every variable keeps its type, whatever the VMs, requests and stoppers.
THEOREM TypeCorrect == Spec => []TypeOK
<1>1. TypeOK /\ [Next]_vars => TypeOK'
  <2> SUFFICES ASSUME TypeOK, Next PROVE TypeOK'
    BY StutterTypeOK
  <2> QED BY RunTypeOK, WatcherTypeOK, KeeperTypeOK, HTTPTypeOK, StopperTypeOK, StartTypeOK
          DEF Next, Arrival, Goroutine
<1> QED BY InitTypeOK, <1>1, PTL DEF Spec

-----------------------------------------------------------------------------
(***************************************************************************)
(* A hypervisor that runs is counted in Daemon.Jobs.  The invariant ties   *)
(* the three that share a VM: the Run that launches it, the goroutine that *)
(* keeps it, and the process.                                              *)
(***************************************************************************)

Launched(v) == run[v] \in {"waiting", "ok", "tooEarly", "error"}

KeeperInv ==
  \A v \in VMs :
    /\ keeper[v] = "none" <=> ~Launched(v)
    /\ keeper[v] \in {"none", "spawned", "counted"} => proc[v] = "none"
    /\ keeper[v] \in {"reaped", "deregistered", "finished"} => proc[v] \in {"none", "exited"}
    /\ v \in jobs <=> keeper[v] \in {"counted", "waiting", "reaped", "deregistered"}

LEMMA InitKeeperInv == Init => KeeperInv
  BY DEF Init, KeeperInv, Launched

\* What the requests and the stoppers do to a process is to signal it.
LEMMA OnlySignals ==
  ASSUME TypeOK, Next, ~\E v \in VMs : \/ RunAccept(v) \/ RunStep(v) \/ Watcher(v)
                                      \/ Keeper(v) \/ ProcExit(v)
  PROVE  /\ UNCHANGED <<run, keeper, jobs>>
         /\ \/ UNCHANGED proc
            \/ \E v \in VMs : \/ proc' = [proc EXCEPT ![v] = Signalled(@)]
                             \/ proc' = [proc EXCEPT ![v] = Killed(@)]
<1> USE ConstantsAssumption DEF TypeOK
<1>1. CASE \E q \in Requests : Arrive(q) \/ HTTP(q)
  BY <1>1 DEF HTTP, Arrive, Fetch, AlreadyCalled, Enter, DeliverPanic, DeliverPing,
         DeliverNotIsolated, SendComplete
<1>2. ASSUME NEW s \in Stoppers, StopBegin(s) \/ Stopper(s)
      PROVE  /\ UNCHANGED <<run, keeper, jobs>>
             /\ \/ UNCHANGED proc
                \/ \E v \in VMs : \/ proc' = [proc EXCEPT ![v] = Signalled(@)]
                                 \/ proc' = [proc EXCEPT ![v] = Killed(@)]
  <2>1. CASE Kill(s)
    BY <2>1 DEF Kill, Targets, Registered
  <2>2. CASE Term(s)
    <3>1. stop[s].list \in Seq(VMs) /\ stop[s].list # <<>>
      BY <2>2 DEF Term, StopTypeOK
    <3>2. Head(stop[s].list) \in VMs
      BY <3>1, HeadTailProperties
    <3> QED BY <2>2, <3>2 DEF Term, ServerTypeOK
  <2>3. CASE TermTimeout(s)
    BY <2>3 DEF TermTimeout, StopTypeOK
  <2> QED BY <1>2, <2>1, <2>2, <2>3 DEF Stopper, StopBegin, StopClose, StopRefuse, Snapshot,
                                        TermPanic, TermDone, Poll
<1>3. CASE Start
  BY <1>3 DEF Start, Refuse, Leave, Notify
<1> QED BY <1>1, <1>2, <1>3 DEF Next, Arrival, Goroutine

LEMMA NextKeeperInv == ASSUME TypeOK, KeeperInv, [Next]_vars PROVE KeeperInv'
<1> USE DEF TypeOK, VMTypeOK, KeeperInv, Launched
<1>1. CASE UNCHANGED vars
  BY <1>1
<1>2. ASSUME NEW v \in VMs, RunAccept(v) \/ RunStep(v) PROVE KeeperInv'
  BY <1>2 DEF RunAccept, RunStep, RunReserved, RunLookup, RunRegister, RunStrand, RunLaunch,
              RunReply
<1>3. ASSUME NEW v \in VMs, Watcher(v) PROVE KeeperInv'
  BY <1>3 DEF Watcher, WatchReceive, WatchRecord, WatchClose, WatchTimeout, WatchKill, Started,
              Signalled, Killed
<1>4. ASSUME NEW v \in VMs, Keeper(v) PROVE KeeperInv'
  BY <1>4 DEF Keeper, KeeperAdd, KeeperStart, KeeperReap, Reapable, Deregister, KeeperDone
<1>5. ASSUME NEW v \in VMs, ProcExit(v) PROVE KeeperInv'
  BY <1>5 DEF ProcExit, Alive
<1>6. CASE /\ Next
           /\ ~\E v \in VMs : \/ RunAccept(v) \/ RunStep(v) \/ Watcher(v)
                             \/ Keeper(v) \/ ProcExit(v)
  BY <1>6, OnlySignals DEF Signalled, Killed
<1> QED BY <1>1, <1>2, <1>3, <1>4, <1>5, <1>6

LEMMA KeeperInvCovers == ASSUME TypeOK, KeeperInv PROVE JobsCoverRunning
  BY DEF JobsCoverRunning, Alive, KeeperInv, TypeOK, VMTypeOK, KeeperState

\* Jobs.Wait cannot return while a hypervisor runs: each is counted, from
\* before its Start until after it was reaped.
THEOREM JobsCover == Spec => []JobsCoverRunning
<1>1. Spec => []KeeperInv
  BY InitKeeperInv, NextKeeperInv, TypeCorrect, PTL DEF Spec
<1> QED BY <1>1, TypeCorrect, KeeperInvCovers, PTL

-----------------------------------------------------------------------------
(***************************************************************************)
(* A hypervisor that runs is registered, as long as no register writes the *)
(* entry of another VM.  Run looks the UUID up before it registers, but    *)
(* releases the mutex in between: a UUID may be used again when its VM is  *)
(* gone, and only two Runs of one UUID that race can overwrite an entry.   *)
(***************************************************************************)

Overwrites(v) == RunRegister(v) /\ active[UUIDOf[v]] # Nil
NoOverwrite == \A v \in VMs : ~Overwrites(v)

\* No two Runs ever share a UUID: the plainest way to overwrite nothing.
UUIDsDiffer == \A v, w \in VMs : UUIDOf[v] = UUIDOf[w] => v = w

\* From register until deregister, and no longer, the entry of v's UUID is v.
Enrolled(v) == /\ Launched(v) \/ run[v] \in {"registered", "stranded"}
               /\ keeper[v] \notin {"deregistered", "finished"}

RegisteredInv == \A v \in VMs : active[UUIDOf[v]] = v <=> Enrolled(v)

LEMMA InitRegisteredInv == Init => RegisteredInv
  BY ConstantsAssumption DEF Init, RegisteredInv, Enrolled, Launched

LEMMA NextRegisteredInv ==
  ASSUME TypeOK, KeeperInv, RegisteredInv, [Next]_vars, [NoOverwrite]_vars
  PROVE  RegisteredInv'
<1> USE ConstantsAssumption DEF TypeOK, VMTypeOK, ServerTypeOK, RegisteredInv, Enrolled, Launched
<1>1. CASE UNCHANGED vars
  BY <1>1
<1>2. ASSUME NEW v \in VMs, RunAccept(v) \/ RunStep(v) PROVE RegisteredInv'
  <2>1. CASE RunRegister(v)
    <3>1. ~UNCHANGED vars
      BY <2>1 DEF RunRegister, vars
    <3>2. active[UUIDOf[v]] = Nil
      BY <2>1, <3>1 DEF NoOverwrite, Overwrites
    <3> QED BY <2>1, <3>2 DEF RunRegister, KeeperInv
  <2>2. CASE RunLaunch(v)
    BY <2>2 DEF RunLaunch, KeeperInv
  <2> QED BY <1>2, <2>1, <2>2 DEF RunAccept, RunStep, RunReserved, RunLookup, RunStrand, RunReply
<1>3. ASSUME NEW v \in VMs, Watcher(v) PROVE RegisteredInv'
  BY <1>3 DEF Watcher, WatchReceive, WatchRecord, WatchClose, WatchTimeout, WatchKill
<1>4. ASSUME NEW v \in VMs, Keeper(v) PROVE RegisteredInv'
  <2>1. CASE Deregister(v)
    <3>1. keeper[v] # "none" /\ active[UUIDOf[v]] = v
      BY <2>1 DEF Deregister, KeeperInv
    <3> QED BY <2>1, <3>1 DEF Deregister, Removed
  <2> QED BY <1>4, <2>1 DEF Keeper, KeeperAdd, KeeperStart, KeeperReap, KeeperDone
<1>5. ASSUME NEW v \in VMs, ProcExit(v) PROVE RegisteredInv'
  BY <1>5 DEF ProcExit
<1>6. CASE /\ Next
           /\ ~\E v \in VMs : \/ RunAccept(v) \/ RunStep(v) \/ Watcher(v)
                             \/ Keeper(v) \/ ProcExit(v)
  <2>1. UNCHANGED <<run, keeper>>
    BY <1>6, OnlySignals
  <2>2. UNCHANGED active
    BY <1>6 DEF Next, Arrival, Goroutine, HTTP, Arrive, Fetch, AlreadyCalled, Enter, DeliverPanic,
       DeliverPing, DeliverNotIsolated, SendComplete, StopBegin, Stopper, StopClose, StopRefuse,
       Snapshot, Kill, TermPanic, Term, TermDone, TermTimeout, Poll, Start, Refuse, Leave, Notify
  <2> QED BY <2>1, <2>2
<1> QED BY <1>1, <1>2, <1>3, <1>4, <1>5, <1>6

LEMMA RegisteredInvCovers == ASSUME TypeOK, KeeperInv, RegisteredInv PROVE NoOrphan
  BY DEF NoOrphan, Alive, KeeperInv, RegisteredInv, Enrolled, TypeOK, VMTypeOK, KeeperState

LEMMA KeeperInvHolds == Spec => []KeeperInv
  BY InitKeeperInv, NextKeeperInv, TypeCorrect, PTL DEF Spec

LEMMA RegisteredInvHolds == Spec /\ [][NoOverwrite]_vars => []RegisteredInv
<1>1. TypeOK /\ KeeperInv /\ RegisteredInv /\ [Next]_vars /\ [NoOverwrite]_vars => RegisteredInv'
  BY NextRegisteredInv
<1> QED BY InitRegisteredInv, <1>1, KeeperInvHolds, TypeCorrect, PTL DEF Spec

\* A hypervisor that runs can be listed, halted and answered, as long as no Run
\* overwrote the entry of another.
THEOREM NoOrphans == Spec /\ [][NoOverwrite]_vars => []NoOrphan
  BY KeeperInvHolds, RegisteredInvHolds, TypeCorrect, RegisteredInvCovers, PTL

-----------------------------------------------------------------------------
(***************************************************************************)
(* The address a VM gets was sent by a guest with its UUID.  The invariant *)
(* follows it from the request through the channel into the VM.            *)
(***************************************************************************)

SameUUID(v, w) == UUIDOf[v] = UUIDOf[w]

ActiveByUUID == \A u \in Ids : active[u] # Nil => UUIDOf[active[u]] = u

AddressInv ==
  \A v \in VMs :
    /\ vm[v].ip # Nil => SameUUID(vm[v].ip, v)
    /\ vm[v].ipCh # Nil => SameUUID(vm[v].ipCh, v)
    /\ vm[v].received # Nil => SameUUID(vm[v].received, v)

HandlerInv ==
  \A q \in Requests :
    /\ req[q].pc \in {"fetched", "sending"} => SameUUID(req[q].vm, req[q].from)
    /\ req[q].pc = "sending" => SameUUID(req[q].to, req[q].from)

IPInv == ActiveByUUID /\ AddressInv /\ HandlerInv

LEMMA InitIPInv == Init => IPInv
  BY DEF Init, IPInv, ActiveByUUID, AddressInv, HandlerInv

\* Outside the callbacks, an address only moves within its VM.
LEMMA GoroutineIPInv ==
  ASSUME TypeOK, IPInv, NEW v \in VMs,
         RunAccept(v) \/ RunStep(v) \/ Watcher(v) \/ Keeper(v) \/ ProcExit(v)
  PROVE  IPInv'
<1> USE ConstantsAssumption DEF TypeOK, IPInv
<1>1. HandlerInv'
  BY DEF RunAccept, RunStep, RunReserved, RunLookup, RunRegister, RunStrand, RunLaunch, RunReply,
         Watcher, WatchReceive, WatchRecord, WatchClose, WatchTimeout, WatchKill, Keeper, KeeperAdd,
         KeeperStart, KeeperReap, Deregister, KeeperDone, ProcExit, HandlerInv, ReqTypeOK
<1>2. ActiveByUUID'
  BY DEF RunAccept, RunStep, RunReserved, RunLookup, RunRegister, RunStrand, RunLaunch, RunReply,
         Watcher, WatchReceive, WatchRecord, WatchClose, WatchTimeout, WatchKill, Keeper, KeeperAdd,
         KeeperStart, KeeperReap, Deregister, Removed, KeeperDone, ProcExit, ActiveByUUID,
         ServerTypeOK
<1>3. AddressInv'
  <2> USE DEF AddressInv, VMTypeOK, VMInfo
  <2>1. CASE RunLaunch(v)
    BY <2>1, SMTT(30) DEF RunLaunch
  <2>2. CASE RunReply(v)
    BY <2>2, SMTT(30) DEF RunReply
  <2>3. CASE WatchReceive(v)
    BY <2>3, SMTT(30) DEF WatchReceive
  <2>4. CASE WatchRecord(v)
    BY <2>4, SMTT(30) DEF WatchRecord
  <2>5. CASE WatchClose(v)
    BY <2>5, SMTT(30) DEF WatchClose
  <2>6. CASE WatchKill(v)
    BY <2>6, SMTT(30) DEF WatchKill, Aborted
  <2>7. CASE KeeperStart(v)
    BY <2>7, SMTT(30) DEF KeeperStart
  <2>8. CASE UNCHANGED vm
    BY <2>8
  <2> QED BY <2>1, <2>2, <2>3, <2>4, <2>5, <2>6, <2>7, <2>8 DEF RunAccept, RunStep, RunReserved,
             RunLookup, RunRegister, RunStrand, Watcher, WatchTimeout, Keeper, KeeperAdd,
             KeeperReap, Deregister, KeeperDone, ProcExit
<1> QED BY <1>1, <1>2, <1>3

LEMMA OnceSetKeeps ==
  ASSUME VMTypeOK, NEW q \in Requests, NEW x \in VMs
  PROVE  /\ OnceSet(q, x) \in [VMs -> VMInfo]
         /\ \A v \in VMs : /\ OnceSet(q, x)[v].ip = vm[v].ip
                         /\ OnceSet(q, x)[v].ipCh = vm[v].ipCh
                         /\ OnceSet(q, x)[v].received = vm[v].received
<1>1. CASE RequestKind[q] = "ping"
  <2>1. OnceSet(q, x) = [vm EXCEPT ![x].callBack = TRUE]
    BY <1>1 DEF OnceSet
  <2>2. vm[x] \in VMInfo /\ [vm[x] EXCEPT !.callBack = TRUE] \in VMInfo
    BY VMInfoUpdate DEF VMTypeOK
  <2>3. OnceSet(q, x) \in [VMs -> VMInfo]
    BY <2>1, <2>2 DEF VMTypeOK
  <2> QED BY <2>1, <2>3 DEF VMTypeOK, VMInfo
<1>2. CASE RequestKind[q] # "ping"
  <2>1. OnceSet(q, x) = [vm EXCEPT ![x].isolationCheck = TRUE]
    BY <1>2 DEF OnceSet
  <2>2. vm[x] \in VMInfo /\ [vm[x] EXCEPT !.isolationCheck = TRUE] \in VMInfo
    BY VMInfoUpdate DEF VMTypeOK
  <2>3. OnceSet(q, x) \in [VMs -> VMInfo]
    BY <2>1, <2>2 DEF VMTypeOK
  <2> QED BY <2>1, <2>3 DEF VMTypeOK, VMInfo
<1> QED BY <1>1, <1>2

\* The VM that a callback is delivered to, if any, has the caller's UUID.
LEMMA RecipientUUID ==
  ASSUME TypeOK, IPInv, NEW q \in Requests, req[q].pc = "fetched", Recipient(q) # Nil
  PROVE  /\ req[q].from \in VMs /\ req[q].vm \in VMs /\ Recipient(q) \in VMs
         /\ SameUUID(Recipient(q), req[q].from) /\ SameUUID(req[q].from, Recipient(q))
<1>1. req[q].from \in VMs /\ req[q].vm \in VMs /\ SameUUID(req[q].vm, req[q].from)
  BY DEF TypeOK, ReqTypeOK, IPInv, HandlerInv
<1>2. UUIDOf[req[q].vm] \in Ids
  BY <1>1, ConstantsAssumption
<1>3. Recipient(q) \in VMs /\ UUIDOf[Recipient(q)] = UUIDOf[req[q].vm]
  BY <1>2 DEF Recipient, TypeOK, ServerTypeOK, IPInv, ActiveByUUID
<1> QED BY <1>1, <1>3 DEF SameUUID

LEMMA HTTPIPInv ==
  ASSUME TypeOK, IPInv, NEW q \in Requests, Arrive(q) \/ HTTP(q)
  PROVE  IPInv'
<1> USE ConstantsAssumption DEF TypeOK, IPInv
<1>1. ActiveByUUID'
  BY DEF Arrive, HTTP, Fetch, AlreadyCalled, Enter, DeliverPanic, DeliverPing,
         DeliverNotIsolated, SendComplete, ActiveByUUID
<1>2. HandlerInv'
  <2> USE DEF HandlerInv, ReqTypeOK, ReqState
  <2>1. CASE Arrive(q)
    BY <2>1 DEF Arrive
  <2>2. CASE Fetch(q)
    BY <2>2, ZenonT(30) DEF Fetch, ActiveByUUID, SameUUID, ServerTypeOK
  <2>3. CASE AlreadyCalled(q) \/ DeliverPanic(q) \/ DeliverNotIsolated(q) \/ SendComplete(q)
    BY <2>3 DEF AlreadyCalled, Enter, DeliverPanic, DeliverNotIsolated, SendComplete
  <2>4. CASE DeliverPing(q)
    <3>1. req[q].pc = "fetched" /\ Recipient(q) # Nil
      BY <2>4 DEF DeliverPing, Enter
    <3>2. \/ req' = [req EXCEPT ![q].pc = "done"]
          \/ req' = [req EXCEPT ![q].pc = "sending", ![q].to = Recipient(q)]
      BY <2>4 DEF DeliverPing
    <3> QED BY <3>1, <3>2, RecipientUUID
  <2> QED BY <2>1, <2>2, <2>3, <2>4 DEF HTTP
<1>3. AddressInv'
  <2> USE DEF AddressInv, VMTypeOK, VMInfo
  <2>1. CASE DeliverPanic(q)
    BY <2>1 DEF DeliverPanic, Enter, OnceSet, ReqTypeOK
  <2>2. CASE DeliverPing(q)
    <3> DEFINE w == OnceSet(q, req[q].vm)
               x == Recipient(q)
    <3>1. req[q].pc = "fetched" /\ x # Nil
      BY <2>2 DEF DeliverPing, Enter
    <3>2. vm' = w \/ vm' = [w EXCEPT ![x].ipCh = req[q].from]
      BY <2>2 DEF DeliverPing
    <3>3. req[q].vm \in VMs /\ x \in VMs /\ SameUUID(req[q].from, x)
      BY <3>1, RecipientUUID
    <3>4. /\ w \in [VMs -> VMInfo]
          /\ \A v \in VMs : w[v].ip = vm[v].ip /\ w[v].ipCh = vm[v].ipCh
                          /\ w[v].received = vm[v].received
      BY <3>3, OnceSetKeeps
    <3> HIDE DEF w, x
    <3>5. CASE vm' = w
      BY <3>4, <3>5
    <3>6. CASE vm' = [w EXCEPT ![x].ipCh = req[q].from]
      <4>1. ASSUME NEW v \in VMs
            PROVE  /\ vm'[v].ip = vm[v].ip /\ vm'[v].received = vm[v].received
                   /\ vm'[v].ipCh = vm[v].ipCh \/ SameUUID(vm'[v].ipCh, v)
        BY <3>3, <3>4, <3>6
      <4> QED BY <4>1
    <3> QED BY <3>2, <3>5, <3>6
  <2>3. CASE DeliverNotIsolated(q)
    <3> DEFINE w == OnceSet(q, req[q].vm)
               x == Recipient(q)
    <3>1. req[q].pc = "fetched" /\ x # Nil /\ vm' = [w EXCEPT ![x].notIsolated = TRUE]
      BY <2>3 DEF DeliverNotIsolated, Enter
    <3>2. req[q].vm \in VMs /\ x \in VMs
      BY <3>1, RecipientUUID
    <3>3. /\ w \in [VMs -> VMInfo]
          /\ \A v \in VMs : w[v].ip = vm[v].ip /\ w[v].ipCh = vm[v].ipCh
                          /\ w[v].received = vm[v].received
      BY <3>2, OnceSetKeeps
    <3> HIDE DEF w, x
    <3> QED BY <3>1, <3>2, <3>3
  <2>4. CASE SendComplete(q)
    BY <2>4 DEF SendComplete, ReqTypeOK, HandlerInv, SameUUID
  <2>5. CASE UNCHANGED vm
    BY <2>5
  <2> QED BY <2>1, <2>2, <2>3, <2>4, <2>5 DEF HTTP, Arrive, Fetch, AlreadyCalled
<1> QED BY <1>1, <1>2, <1>3

LEMMA OtherIPInv ==
  ASSUME TypeOK, IPInv, Start \/ \E s \in Stoppers : StopBegin(s) \/ Stopper(s)
  PROVE  IPInv'
<1>1. UNCHANGED <<vm, req, active>>
  BY DEF Start, Refuse, Leave, Notify, StopBegin, Stopper, StopClose, StopRefuse, Snapshot, Kill,
         TermPanic, Term, TermDone, TermTimeout, Poll
<1> QED BY <1>1 DEF IPInv, ActiveByUUID, AddressInv, HandlerInv

LEMMA NextIPInv == ASSUME TypeOK, IPInv, [Next]_vars PROVE IPInv'
<1>1. CASE UNCHANGED vars
  BY <1>1 DEF IPInv, ActiveByUUID, AddressInv, HandlerInv
<1>2. CASE Next
  BY <1>2, GoroutineIPInv, HTTPIPInv, OtherIPInv DEF Next, Arrival, Goroutine
<1> QED BY <1>1, <1>2

\* A VM is never given the address of a guest with another UUID.
THEOREM AddressesAreOwn == Spec => []AddressIsOwn
<1>1. IPInv => AddressIsOwn
  BY DEF IPInv, AddressInv, AddressIsOwn, SameUUID
<1> QED BY InitIPInv, NextIPInv, TypeCorrect, <1>1, PTL DEF Spec

LEMMA IPInvHolds == Spec => []IPInv
  BY InitIPInv, NextIPInv, TypeCorrect, PTL DEF Spec

LEMMA NothingToOverwrite ==
  ASSUME UUIDsDiffer, TypeOK, KeeperInv, RegisteredInv, IPInv
  PROVE  NoOverwrite
<1> SUFFICES ASSUME NEW v \in VMs, RunRegister(v), active[UUIDOf[v]] # Nil PROVE FALSE
  BY DEF NoOverwrite, Overwrites
<1>1. PICK w \in VMs : w = active[UUIDOf[v]]
  BY ConstantsAssumption DEF TypeOK, ServerTypeOK
<1>2. UUIDOf[w] = UUIDOf[v]
  BY <1>1, ConstantsAssumption DEF IPInv, ActiveByUUID
<1>3. Enrolled(v)
  BY <1>1, <1>2 DEF UUIDsDiffer, RegisteredInv
<1> QED BY <1>3 DEF Enrolled, RunRegister, Launched

\* Where no UUID is used twice no entry is overwritten, however Runs race.
THEOREM UUIDsSuffice == ASSUME UUIDsDiffer PROVE Spec => [][NoOverwrite]_vars
<1>1. TypeOK /\ KeeperInv /\ RegisteredInv /\ IPInv => NoOverwrite
  BY NothingToOverwrite
<1>2. TypeOK /\ KeeperInv /\ RegisteredInv /\ NoOverwrite /\ [Next]_vars => RegisteredInv'
  BY NextRegisteredInv
<1> QED BY <1>1, <1>2, InitRegisteredInv, KeeperInvHolds, IPInvHolds, TypeCorrect, PTL DEF Spec

-----------------------------------------------------------------------------
(***************************************************************************)
(* Run looks name and UUID up, releases the mutex, and registers.  That    *)
(* gap is all that breaks what register says of itself: Runs that do not   *)
(* meet in it, as those of one corectl load, never clash.                  *)
(***************************************************************************)

OneAtATime == \A v, w \in VMs : run[v] = "unclaimed" /\ run[w] = "unclaimed" => v = w

\* What lookup found out holds until register.
FreeInv == \A v \in VMs : run[v] = "unclaimed" => ~Clash(v)

LEMMA RegistryStep ==
  ASSUME TypeOK, [Next]_vars
  PROVE  /\ \A v \in VMs : run'[v] = "unclaimed" => run[v] = "unclaimed" \/ RunLookup(v)
         /\ (\E v \in VMs : RunRegister(v)) \/ \A u \in Ids : active'[u] \in {active[u], Nil}
<1> USE ConstantsAssumption DEF TypeOK, VMTypeOK, ServerTypeOK
<1>1. ASSUME NEW w \in VMs, RunAccept(w) \/ RunStep(w)
      PROVE  /\ \A v \in VMs : run'[v] = "unclaimed" => run[v] = "unclaimed" \/ RunLookup(v)
             /\ RunRegister(w) \/ UNCHANGED active
  <2>1. CASE RunLookup(w)
    BY <2>1 DEF RunLookup, serverVars
  <2>2. CASE RunAccept(w) \/ RunReserved(w) \/ RunRegister(w) \/ RunStrand(w) \/ RunLaunch(w)
    BY <2>2 DEF RunAccept, RunReserved, RunRegister, RunStrand, RunLaunch, serverVars
  <2>3. CASE RunReply(w)
    BY <2>3 DEF RunReply, serverVars
  <2> QED BY <1>1, <2>1, <2>2, <2>3 DEF RunStep
<1>2. ASSUME NEW w \in VMs, Watcher(w) \/ Keeper(w) \/ ProcExit(w)
      PROVE  UNCHANGED run /\ \A u \in Ids : active'[u] \in {active[u], Nil}
  <2>1. CASE Deregister(w)
    BY <2>1 DEF Deregister, Removed
  <2>2. CASE ~Deregister(w)
    <3>1. UNCHANGED <<run, active>>
      BY <1>2, <2>2 DEF Watcher, WatchReceive, WatchRecord, WatchClose, WatchTimeout, WatchKill,
         Keeper, KeeperAdd, KeeperStart, KeeperReap, KeeperDone, ProcExit, serverVars
    <3> QED BY <3>1
  <2> QED BY <2>1, <2>2
<1>3. CASE /\ Next
           /\ ~\E v \in VMs : \/ RunAccept(v) \/ RunStep(v) \/ Watcher(v)
                             \/ Keeper(v) \/ ProcExit(v)
  <2>1. UNCHANGED run
    BY <1>3, OnlySignals
  <2>2. UNCHANGED active
    BY <1>3 DEF Next, Arrival, Goroutine, HTTP, Arrive, Fetch, AlreadyCalled, Enter, DeliverPanic,
       DeliverPing, DeliverNotIsolated, SendComplete, StopBegin, Stopper, StopClose, StopRefuse,
       Snapshot, Kill, TermPanic, Term, TermDone, TermTimeout, Poll, Start, Refuse, Leave, Notify
  <2> QED BY <2>1, <2>2
<1>4. CASE UNCHANGED vars
  BY <1>4 DEF vars, serverVars
<1> QED BY <1>1, <1>2, <1>3, <1>4

LEMMA FreeStep ==
  ASSUME TypeOK, FreeInv, NamesAreUnique, OneAtATime, [Next]_vars
  PROVE  FreeInv' /\ NamesAreUnique'
<1> USE ConstantsAssumption
<1>1. CASE \E w \in VMs : RunRegister(w)
  <2>1. PICK w \in VMs : RunRegister(w)
    BY <1>1
  <2>2. /\ run[w] = "unclaimed" /\ run' = [run EXCEPT ![w] = "registered"]
        /\ active' = [active EXCEPT ![UUIDOf[w]] = w]
    BY <2>1 DEF RunRegister
  <2>3. \A v \in VMs : run'[v] # "unclaimed"
    BY <2>2 DEF OneAtATime, TypeOK, VMTypeOK
  <2>4. ~Clash(w)
    BY <2>2 DEF FreeInv
  <2>5. ASSUME NEW v \in Registered', v # w PROVE v \in Registered /\ NameOf[v] # NameOf[w]
    <3>1. v \in Registered
      BY <2>2, <2>5 DEF Registered, TypeOK, ServerTypeOK
    <3> QED BY <2>4, <3>1 DEF Clash
  <2>6. NamesAreUnique'
    <3> SUFFICES ASSUME NEW v \in Registered', NEW x \in Registered', NameOf[v] = NameOf[x]
                 PROVE  v = x
      BY DEF NamesAreUnique
    <3> QED BY <2>5 DEF NamesAreUnique
  <2> QED BY <2>3, <2>6 DEF FreeInv
<1>2. CASE \A u \in Ids : active'[u] \in {active[u], Nil}
  <2>1. Registered' \subseteq Registered
    BY <1>2 DEF Registered
  <2>2. NamesAreUnique'
    BY <2>1 DEF NamesAreUnique
  <2>3. ASSUME NEW v \in VMs, run'[v] = "unclaimed" PROVE ~Clash(v)'
    <3>1. ~Clash(v)
      <4>1. CASE run[v] = "unclaimed"
        BY <4>1 DEF FreeInv
      <4>2. CASE RunLookup(v)
        BY <2>3, <4>2 DEF RunLookup, TypeOK, VMTypeOK
      <4> QED BY <2>3, <4>1, <4>2, RegistryStep
    <3>2. active'[UUIDOf[v]] = Nil
      BY <1>2, <3>1 DEF Clash
    <3> QED BY <2>1, <3>1, <3>2 DEF Clash
  <2> QED BY <2>2, <2>3 DEF FreeInv
<1> QED BY <1>1, <1>2, RegistryStep

\* Registered VMs have different names, and no entry is overwritten, as long as
\* no two Runs are between lookup and register at once: the counterexample of run
\* UniqueNames is the only kind there is.
THEOREM SerialRunsSuffice ==
  Spec /\ []OneAtATime => []NamesAreUnique /\ [][NoOverwrite]_vars
<1>1. Init => FreeInv /\ NamesAreUnique
  BY ConstantsAssumption DEF Init, FreeInv, NamesAreUnique, Registered
<1>2. TypeOK /\ FreeInv /\ NamesAreUnique /\ OneAtATime /\ [Next]_vars
      => FreeInv' /\ NamesAreUnique'
  BY FreeStep
<1>3. FreeInv => NoOverwrite
  BY DEF FreeInv, NoOverwrite, Overwrites, RunRegister, Clash
<1> QED BY <1>1, <1>2, <1>3, TypeCorrect, PTL DEF Spec

-----------------------------------------------------------------------------
(***************************************************************************)
(* The walk of a halt.  Every step finds its VM again in the map, by the   *)
(* UUID of the head of a list that was made once: what it signals is the   *)
(* VM that was picked then, or another that was given its UUID since.      *)
(***************************************************************************)

WalkInv ==
  \A s \in Stoppers :
    stop[s].pc \in {"terming", "polling"} =>
      SameUUID(stop[s].cur, Head(stop[s].list)) /\ Started(stop[s].cur)

LEMMA InitWalkInv == Init => WalkInv
  BY DEF Init, WalkInv

\* A process that was started stays so.
LEMMA StartedStays ==
  ASSUME TypeOK, KeeperInv, [Next]_vars, NEW v \in VMs, Started(v)
  PROVE  Started(v)'
<1> USE DEF TypeOK, VMTypeOK, Started
<1>1. CASE UNCHANGED vars
  BY <1>1
<1>2. ASSUME NEW w \in VMs, RunAccept(w) \/ RunStep(w) PROVE Started(v)'
  BY <1>2 DEF RunAccept, RunStep, RunReserved, RunLookup, RunRegister, RunStrand, RunLaunch,
              RunReply
<1>3. ASSUME NEW w \in VMs, Watcher(w) PROVE Started(v)'
  BY <1>3 DEF Watcher, WatchReceive, WatchRecord, WatchClose, WatchTimeout, WatchKill,
              Signalled, Killed
<1>4. ASSUME NEW w \in VMs, Keeper(w) \/ ProcExit(w) PROVE Started(v)'
  BY <1>4 DEF Keeper, KeeperAdd, KeeperStart, KeeperReap, Deregister, KeeperDone, ProcExit
<1>5. CASE /\ Next
           /\ ~\E w \in VMs : \/ RunAccept(w) \/ RunStep(w) \/ Watcher(w)
                             \/ Keeper(w) \/ ProcExit(w)
  BY <1>5, OnlySignals DEF Signalled, Killed
<1> QED BY <1>1, <1>2, <1>3, <1>4, <1>5

\* The stoppers write their own records, and the main goroutine one when it is told.
LEMMA WalkStep ==
  ASSUME TypeOK, KeeperInv, IPInv, WalkInv, [Next]_vars,
         NEW s \in Stoppers, stop'[s] # stop[s], StopBegin(s) \/ Stopper(s) \/ Notify(s)
  PROVE  stop'[s].pc \in {"terming", "polling"} =>
           SameUUID(stop'[s].cur, Head(stop'[s].list)) /\ proc'[stop'[s].cur] # "none"
<1> USE ConstantsAssumption DEF TypeOK
<1>0. /\ stop[s] \in [pc : StopState, list : Seq(VMs), cur : Address]
      /\ stop[s].pc \in {"walking", "terming", "polling"} => stop[s].list # <<>>
      /\ stop[s].pc \in {"terming", "polling"} => stop[s].cur \in VMs
      /\ stop \in [Stoppers -> [pc : StopState, list : Seq(VMs), cur : Address]]
  BY DEF StopTypeOK
<1>1. CASE StopBegin(s) \/ StopClose(s) \/ StopRefuse(s) \/ Kill(s) \/ TermPanic(s) \/ Notify(s)
  BY <1>0, <1>1 DEF StopBegin, StopClose, StopRefuse, Kill, TermPanic, Notify
<1>2. CASE Snapshot(s)
  <2>1. PICK l \in NewestFirst(Targets(s)) :
          stop' = [stop EXCEPT ![s] = [pc |-> AfterList(l), list |-> l, cur |-> Nil]]
    BY <1>2 DEF Snapshot
  <2> QED BY <1>0, <2>1 DEF AfterList
<1>3. CASE Term(s)
  <2>0. PICK h \in VMs : h = Head(stop[s].list)
    BY <1>0, <1>3, HeadTailProperties DEF Term
  <2>1. PICK x \in VMs : x = active[UUIDOf[h]]
    BY <1>3, <2>0 DEF Term, ServerTypeOK
  <2>2. UUIDOf[x] = UUIDOf[h]
    BY <2>1 DEF IPInv, ActiveByUUID
  <2>3. SameUUID(x, h)
    BY <2>2 DEF SameUUID
  <2>4. Started(x)
    BY <1>3, <2>0, <2>1 DEF Term
  <2>5. Started(x)'
    BY <2>4, StartedStays
  <2>6. stop'[s] = [pc |-> "terming", list |-> stop[s].list, cur |-> x] /\ stop[s].pc = "walking"
    BY <1>0, <1>3, <2>0, <2>1 DEF Term
  <2>7. /\ stop'[s].list = stop[s].list
        /\ stop'[s].cur = x
        /\ h = Head(stop'[s].list)
    BY <2>0, <2>6
  <2> QED BY <2>3, <2>5, <2>6, <2>7 DEF WalkInv, Started
<1>4. CASE TermDone(s) \/ TermTimeout(s)
  <2>1. stop[s].pc = "terming" /\ stop'[s].list = stop[s].list /\ stop'[s].cur = stop[s].cur
    BY <1>0, <1>4 DEF TermDone, TermTimeout
  <2>2. PICK d \in VMs : d = stop[s].cur
    BY <1>0, <2>1
  <2>3. Started(d)
    BY <2>1, <2>2 DEF WalkInv
  <2>4. Started(d)'
    BY <2>3, StartedStays
  <2> QED BY <2>1, <2>2, <2>4 DEF WalkInv, Started
<1>5. CASE Poll(s)
  BY <1>0, <1>5 DEF Poll, AfterList
<1> QED BY <1>1, <1>2, <1>3, <1>4, <1>5 DEF Stopper

\* Nobody else writes the record of a stopper.
LEMMA StopFrame ==
  ASSUME TypeOK, [Next]_vars, NEW s \in Stoppers, stop'[s] # stop[s]
  PROVE  StopBegin(s) \/ Stopper(s) \/ Notify(s)
<1>1. ASSUME NEW r \in Stoppers, StopBegin(r) \/ Stopper(r) \/ Notify(r), r # s
      PROVE  stop'[s] = stop[s]
  BY <1>1 DEF StopBegin, Stopper, StopClose, StopRefuse, Snapshot, Kill, TermPanic, Term, TermDone,
              TermTimeout, Poll, Notify, TypeOK, StopTypeOK
<1>2. \/ UNCHANGED stop
      \/ \E r \in Stoppers : StopBegin(r) \/ Stopper(r) \/ Notify(r)
  BY DEF vars, Next, Arrival, Goroutine, RunAccept, RunStep, RunReserved, RunLookup, RunRegister,
         RunStrand, RunLaunch, RunReply, Watcher, WatchReceive, WatchRecord, WatchClose,
         WatchTimeout, WatchKill, Keeper, KeeperAdd, KeeperStart, KeeperReap, Deregister,
         KeeperDone, ProcExit, HTTP, Arrive, Fetch, AlreadyCalled, Enter, DeliverPanic,
         DeliverPing, DeliverNotIsolated, SendComplete, Start, Refuse, Leave
<1> QED BY <1>1, <1>2

LEMMA NextWalkInv ==
  ASSUME TypeOK, KeeperInv, IPInv, WalkInv, [Next]_vars
  PROVE  WalkInv'
<1>1. ASSUME NEW s \in Stoppers, stop'[s] = stop[s], stop[s].pc \in {"terming", "polling"}
      PROVE  SameUUID(stop'[s].cur, Head(stop'[s].list)) /\ proc'[stop'[s].cur] # "none"
  <2>1. PICK d \in VMs : d = stop[s].cur
    BY <1>1 DEF TypeOK, StopTypeOK
  <2>2. Started(d)'
    BY <1>1, <2>1, StartedStays DEF WalkInv
  <2> QED BY <1>1, <2>1, <2>2 DEF WalkInv, Started
<1>2. ASSUME NEW s \in Stoppers
      PROVE  stop'[s].pc \in {"terming", "polling"} =>
               SameUUID(stop'[s].cur, Head(stop'[s].list)) /\ proc'[stop'[s].cur] # "none"
  <2>1. CASE stop'[s] = stop[s]
    BY <1>1, <2>1 DEF WalkInv
  <2>2. CASE stop'[s] # stop[s]
    BY <2>2, StopFrame, WalkStep
  <2> QED BY <2>1, <2>2
<1> QED BY <1>2 DEF WalkInv, Started, SameUUID

HaltInv == TypeOK /\ KeeperInv /\ IPInv /\ WalkInv

LEMMA HaltInvHolds == Spec => []HaltInv
<1>1. Init => HaltInv
  BY InitTypeOK, InitKeeperInv, InitIPInv, InitWalkInv DEF HaltInv
<1>2. HaltInv /\ [Next]_vars => KeeperInv' /\ IPInv' /\ WalkInv'
  BY NextKeeperInv, NextIPInv, NextWalkInv DEF HaltInv
<1>3. TypeOK' /\ KeeperInv' /\ IPInv' /\ WalkInv' => HaltInv'
  BY DEF HaltInv
<1> QED BY <1>1, <1>2, <1>3, TypeCorrect, PTL DEF Spec

\* A step that ends a poll sees the entry of the VM that was terminated gone.
LEMMA PollSeesItGone ==
  ASSUME HaltInv, RegisteredInv, [Next]_vars, NEW s \in Stoppers,
         stop[s].pc = "polling", stop'[s].pc # "polling"
  PROVE  proc[stop[s].cur] = "exited"
<1> USE ConstantsAssumption DEF HaltInv, TypeOK
<1>1. StopBegin(s) \/ Stopper(s) \/ Notify(s)
  BY StopFrame
<1>2. Poll(s)
  BY <1>1 DEF StopBegin, Stopper, StopClose, StopRefuse, Snapshot, Kill, TermPanic, Term, TermDone,
              TermTimeout, Poll, Notify, ReadyToPick
<1>3. PICK d \in VMs : d = stop[s].cur
  BY DEF StopTypeOK
<1>4. SameUUID(d, Head(stop[s].list)) /\ proc[d] # "none"
  BY <1>3 DEF WalkInv, Started
<1>5. active[UUIDOf[d]] = Nil
  BY <1>2, <1>4 DEF Poll, Gone, SameUUID
<1>6. ~Enrolled(d)
  BY <1>5 DEF RegisteredInv
<1>7. keeper[d] \in {"deregistered", "finished"}
  BY <1>4, <1>6 DEF Enrolled, KeeperInv, Launched
<1> QED BY <1>3, <1>4, <1>7 DEF KeeperInv

\* A halt or a stop moves on from a VM only when its hypervisor is gone: as long
\* as no Run overwrote an entry, it polls that of the VM that it terminated.
THEOREM MovesOnWhenGone == Spec /\ [][NoOverwrite]_vars => MoveOnWhenGone
<1> DEFINE A == \A s \in Stoppers : stop[s].pc = "polling" /\ stop'[s].pc # "polling"
                                      => proc[stop[s].cur] = "exited"
<1>1. HaltInv /\ RegisteredInv /\ [Next]_vars => [A]_vars
  BY PollSeesItGone
<1> QED BY <1>1, HaltInvHolds, RegisteredInvHolds, PTL DEF Spec, MoveOnWhenGone

-----------------------------------------------------------------------------
(***************************************************************************)
(* Whom a halt signals                                                     *)
(***************************************************************************)

AskedFor(s, v) == Target[s] \in {Nil, NameOf[v], UUIDOf[v]}

\* A Run registers a VM under a UUID that is still on the list of a halt, which
\* was asked for a VM by a name or a UUID that is not this one's.
RegistersUnnamed(v) ==
  /\ RunRegister(v)
  /\ \E s \in Stoppers : \E i \in DOMAIN stop[s].list :
       SameUUID(v, stop[s].list[i]) /\ ~AskedFor(s, v)

NoneUnnamed == \A v \in VMs : ~RegistersUnnamed(v)

\* What a halt would find in the map is what it was asked for.
NamedInv ==
  \A s \in Stoppers : \A i \in DOMAIN stop[s].list :
    LET x == active[UUIDOf[stop[s].list[i]]] IN x # Nil => AskedFor(s, x)

LEMMA InitNamedInv == Init => NamedInv
  BY DEF Init, NamedInv

\* An entry that differs after a step was registered by it or is gone.
LEMMA EntryStep ==
  ASSUME TypeOK, [Next]_vars, NEW u \in Ids, active'[u] # active[u], active'[u] # Nil
  PROVE  \E v \in VMs : RunRegister(v) /\ UUIDOf[v] = u /\ active'[u] = v
<1> USE ConstantsAssumption DEF TypeOK, ServerTypeOK
<1>1. \/ UNCHANGED active
      \/ \E v \in VMs : RunRegister(v) \/ Deregister(v)
  BY DEF vars, serverVars, Next, Arrival, Goroutine, RunAccept, RunStep, RunReserved, RunLookup,
         RunStrand, RunLaunch, RunReply, Watcher, WatchReceive, WatchRecord, WatchClose,
         WatchTimeout, WatchKill, Keeper, KeeperAdd, KeeperStart, KeeperReap, KeeperDone,
         ProcExit, HTTP, Arrive, Fetch, AlreadyCalled, Enter, DeliverPanic, DeliverPing,
         DeliverNotIsolated, SendComplete, Start, Refuse, Leave, Notify, StopBegin, Stopper,
         StopClose, StopRefuse, Snapshot, Kill, TermPanic, Term, TermDone, TermTimeout, Poll
<1>2. ASSUME NEW v \in VMs, Deregister(v) PROVE FALSE
  BY <1>2 DEF Deregister, Removed
<1>3. PICK v \in VMs : RunRegister(v)
  BY <1>1, <1>2
<1> QED BY <1>3 DEF RunRegister

\* What is on a list after a step was on it before, or was in the map.
LEMMA ListStep ==
  ASSUME TypeOK, [Next]_vars, NEW s \in Stoppers, NEW i \in DOMAIN stop'[s].list
  PROVE  \/ \E j \in DOMAIN stop[s].list : stop'[s].list[i] = stop[s].list[j]
         \/ UNCHANGED active /\ stop'[s].list[i] \in Targets(s)
<1> USE DEF TypeOK
<1>0. /\ stop[s] \in [pc : StopState, list : Seq(VMs), cur : Address]
      /\ stop[s].pc \in {"walking", "terming", "polling"} => stop[s].list # <<>>
      /\ stop \in [Stoppers -> [pc : StopState, list : Seq(VMs), cur : Address]]
  BY DEF StopTypeOK
<1>1. CASE stop'[s] = stop[s]
  BY <1>1
<1>2. CASE StopBegin(s) \/ StopClose(s) \/ StopRefuse(s) \/ Kill(s) \/ TermPanic(s) \/ Notify(s)
           \/ Term(s) \/ TermDone(s) \/ TermTimeout(s)
  <2>1. stop'[s].list = stop[s].list
    <3>1. CASE Term(s)
      BY <1>0, <3>1 DEF Term
    <3>2. CASE ~Term(s)
      BY <1>0, <1>2, <3>2 DEF StopBegin, StopClose, StopRefuse, Kill, TermPanic, Notify, TermDone,
                              TermTimeout
    <3> QED BY <3>1, <3>2
  <2> QED BY <2>1
<1>3. CASE Snapshot(s)
  <2>1. PICK l \in NewestFirst(Targets(s)) :
          stop' = [stop EXCEPT ![s] = [pc |-> AfterList(l), list |-> l, cur |-> Nil]]
    BY <1>3 DEF Snapshot
  <2>2. stop'[s].list = l
    BY <1>0, <2>1
  <2>3. \A k \in DOMAIN l : l[k] \in Targets(s)
    BY DEF NewestFirst
  <2>4. UNCHANGED active
    BY <1>3 DEF Snapshot, serverVars
  <2> QED BY <2>2, <2>3, <2>4
<1>4. CASE Poll(s)
  <2> DEFINE l == stop[s].list
             rest == Tail(l)
  <2>1. stop[s].pc = "polling" /\ stop'[s] = [pc |-> AfterList(rest), list |-> rest, cur |-> Nil]
    BY <1>0, <1>4 DEF Poll
  <2>2. \A k \in DOMAIN rest : k + 1 \in DOMAIN l /\ rest[k] = l[k + 1]
    BY <1>0, <2>1
  <2>3. stop'[s].list = rest
    BY <2>1
  <2> QED BY <2>2, <2>3
<1> QED BY <1>1, <1>2, <1>3, <1>4, StopFrame DEF Stopper

LEMMA NextNamedInv ==
  ASSUME TypeOK, TypeOK', NamedInv, [Next]_vars, NoneUnnamed
  PROVE  NamedInv'
<1> USE ConstantsAssumption DEF TypeOK
<1> SUFFICES ASSUME NEW s \in Stoppers, NEW i \in DOMAIN stop'[s].list,
                    active'[UUIDOf[stop'[s].list[i]]] # Nil
             PROVE  AskedFor(s, active'[UUIDOf[stop'[s].list[i]]])
  BY DEF NamedInv, AskedFor
<1>0. /\ stop'[s].list \in Seq(VMs)
      /\ stop[s].list \in Seq(VMs)
  BY DEF StopTypeOK
<1>1. PICK h \in VMs : h = stop'[s].list[i]
  BY <1>0
<1>2. CASE UNCHANGED active /\ h \in Targets(s)
  BY <1>1, <1>2 DEF Targets, Registered, AskedFor
<1>3. CASE \E j \in DOMAIN stop[s].list : h = stop[s].list[j]
  <2>1. PICK j \in DOMAIN stop[s].list : h = stop[s].list[j]
    BY <1>3
  <2>2. CASE active'[UUIDOf[h]] = active[UUIDOf[h]]
    BY <1>1, <2>1, <2>2 DEF NamedInv
  <2>3. CASE active'[UUIDOf[h]] # active[UUIDOf[h]]
    <3>1. PICK v \in VMs : /\ RunRegister(v)
                           /\ UUIDOf[v] = UUIDOf[h]
                           /\ active'[UUIDOf[h]] = v
      BY <1>1, <2>3, EntryStep
    <3>2. AskedFor(s, v)
      BY <2>1, <3>1 DEF NoneUnnamed, RegistersUnnamed, SameUUID
    <3> QED BY <1>1, <3>1, <3>2
  <2> QED BY <2>2, <2>3
<1> QED BY <1>1, <1>2, <1>3, ListStep

\* A halt that goes on to terminate takes what the map holds for its next UUID.
LEMMA TermTakesEntry ==
  ASSUME TypeOK, [Next]_vars, NamedInv, NEW s \in Stoppers,
         stop[s].pc = "walking", stop'[s].pc = "terming"
  PROVE  AskedFor(s, stop'[s].cur)
<1> USE DEF TypeOK
<1>1. Term(s)
  <2>1. StopBegin(s) \/ Stopper(s) \/ Notify(s)
    BY StopFrame
  <2> QED BY <2>1 DEF StopBegin, Stopper, StopClose, StopRefuse, Snapshot, Kill, TermPanic, Term,
                      TermDone, TermTimeout, Poll, Notify, StopTypeOK, ReadyToPick
<1>2. stop[s].list \in Seq(VMs) /\ stop[s].list # <<>>
  BY DEF StopTypeOK
<1>3. 1 \in DOMAIN stop[s].list /\ Head(stop[s].list) = stop[s].list[1]
  BY <1>2, HeadTailProperties
<1>4. /\ active[UUIDOf[Head(stop[s].list)]] # Nil
      /\ stop'[s].cur = active[UUIDOf[Head(stop[s].list)]]
  BY <1>1 DEF Term, StopTypeOK
<1> QED BY <1>3, <1>4 DEF NamedInv

\* A halt that was asked for a VM terminates no other, as long as no Run registers
\* one of another name under a UUID that a halt still has on its list: there is
\* no other way to HaltsTheNamed going wrong.
THEOREM HaltsNoOther == Spec /\ [][NoneUnnamed]_vars => HaltsTheNamed
<1> DEFINE A == \A s \in Stoppers :
                  stop[s].pc = "walking" /\ stop'[s].pc = "terming" =>
                    Target[s] \in {Nil, NameOf[stop'[s].cur], UUIDOf[stop'[s].cur]}
<1>1. TypeOK /\ NamedInv /\ [Next]_vars => [A]_vars
  BY TermTakesEntry DEF AskedFor
<1>2. TypeOK /\ TypeOK' /\ NamedInv /\ [Next]_vars /\ [NoneUnnamed]_vars => NamedInv'
  <2>1. CASE NoneUnnamed
    BY <2>1, NextNamedInv
  <2>2. CASE UNCHANGED vars
    BY <2>2 DEF vars, serverVars, NamedInv, AskedFor
  <2> QED BY <2>1, <2>2
<1> QED BY <1>1, <1>2, InitNamedInv, TypeCorrect, PTL DEF Spec, HaltsTheNamed
=============================================================================
