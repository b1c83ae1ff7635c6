----------------------------- MODULE NamesProofs -----------------------------
(***************************************************************************)
(* Theorems about Names: its types, the name of the host, whose steps take *)
(* the name of a guest away, which names outlive their guest, and that its *)
(* VMs keep the promise of VMService.                                      *)
(***************************************************************************)
EXTENDS Names, RecordsProofs

-----------------------------------------------------------------------------
(***************************************************************************)
(* Types                                                                   *)
(***************************************************************************)

Ask == [uuid : UUIDs \cup {Nil}, vm : VMs \cup {Nil}, from : Guests \cup {Nil}]

LEMMA InitTypeOK == Init => TypeOK
<1> SUFFICES ASSUME Init PROVE TypeOK
  OBVIOUS
<1>0. \A c \in Callers : ~Pending(c)
  BY DEF Init, Pending
<1>1. RecordsTypeOK
  <2>1. todo \in [Callers -> Seq(Request)]
    BY DEF Init
  <2> QED BY <2>1, HostStoreType DEF Init, RecordsTypeOK
<1>2. MutexOK
  BY <1>0, NamesConstants DEF Init, MutexOK
<1>3. AsksOK
  BY <1>0, NamesConstants DEF Init, NoAsk, AsksOK
<1>4. pc \in [Callers -> VMState \cup HandlerState]
  BY DEF Init, VMState, HandlerState
<1>5. asks \in [Handlers -> Ask]
  BY DEF Init, NoAsk, Ask
<1>6. /\ active \in [UUIDs -> VMs \cup {Nil}] /\ mutex \in VMs \cup {Nil}
      /\ ip \in [VMs -> Guests \cup {Nil}] /\ publicIP \in [VMs -> Guests \cup {Nil}]
      /\ overtaken \subseteq VMs
  BY DEF Init
<1> QED BY <1>1, <1>2, <1>3, <1>4, <1>5, <1>6 DEF TypeOK, Ask

\* A VM that moves between two states without the mutex.
LEMMA MoveOfVM ==
  ASSUME TypeOK, NEW v \in VMs, NEW s \in VMState, NEW t \in VMState,
         Goto(v, s, t), s # "deregister", t # "deregister", UNCHANGED <<mutex, asks, todo>>
  PROVE  pc' \in [Callers -> VMState \cup HandlerState] /\ MutexOK' /\ AsksOK'
<1>1. pc' \in [Callers -> VMState \cup HandlerState]
  BY NamesConstants DEF Goto, TypeOK
<1>2. \A c \in Callers : c # v => pc'[c] = pc[c]
  BY NamesConstants DEF Goto, TypeOK
<1>3. pc[v] = s /\ pc'[v] = t
  BY NamesConstants DEF Goto, TypeOK
<1>4. \A c \in Callers : Pending(c)' = Pending(c)
  BY DEF Pending
<1>5. MutexOK'
  BY <1>2, <1>3, <1>4, NamesConstants DEF TypeOK, MutexOK
<1>6. AsksOK'
  BY <1>2, <1>4, NamesConstants DEF TypeOK, AsksOK
<1> QED BY <1>1, <1>5, <1>6

\* A handler that moves with its ask, while it has no request to etcd.
LEMMA MoveOfHandler ==
  ASSUME TypeOK, NEW h \in Handlers, NEW s, NEW t \in HandlerState, NEW k \in Ask,
         Goto(h, s, t), asks' = [asks EXCEPT ![h] = k], UNCHANGED <<mutex, todo>>,
         s # "adding" \/ ~Pending(h),
         k.vm # Nil <=> t \in {"fetched", "adding"}, t # "idle" => k.uuid \in UUIDs
  PROVE  pc' \in [Callers -> VMState \cup HandlerState] /\ asks' \in [Handlers -> Ask]
         /\ MutexOK' /\ AsksOK'
<1>1. \A c \in Callers : c # h => pc'[c] = pc[c]
  BY NamesConstants DEF Goto, TypeOK
<1>2. \A g \in Handlers : g # h => asks'[g] = asks[g]
  BY DEF TypeOK
<1>3. pc[h] = s /\ pc'[h] = t /\ asks'[h] = k
  BY NamesConstants DEF Goto, TypeOK
<1>4. pc' \in [Callers -> VMState \cup HandlerState] /\ asks' \in [Handlers -> Ask]
  BY NamesConstants DEF Goto, TypeOK, Ask
<1>5. \A c \in Callers : Pending(c)' = Pending(c)
  BY DEF Pending
<1>6. ~Pending(h)
  BY <1>3 DEF TypeOK, AsksOK
<1>7. MutexOK'
  BY <1>1, <1>5, NamesConstants DEF TypeOK, MutexOK
<1>8. AsksOK'
  BY <1>1, <1>2, <1>3, <1>5, <1>6, NamesConstants DEF TypeOK, AsksOK
<1> QED BY <1>4, <1>7, <1>8

\* Steps that move nobody.
LEMMA NoMove ==
  ASSUME TypeOK, UNCHANGED <<mutex, pc, asks>>, \A c \in Callers : Pending(c)' => Pending(c)
  PROVE  MutexOK' /\ AsksOK'
<1>1. MutexOK'
  BY NamesConstants DEF TypeOK, MutexOK
<1>2. AsksOK'
  BY NamesConstants DEF TypeOK, AsksOK
<1> QED BY <1>1, <1>2

\* A caller with new requests.
LEMMA Asking ==
  ASSUME TypeOK, NEW c \in Callers, NEW l \in Seq(Request),
         todo' = [todo EXCEPT ![c] = l], UNCHANGED <<store, late>>
  PROVE  RecordsTypeOK'
BY DEF TypeOK, RecordsTypeOK

LEMMA VMTypes ==
  ASSUME TypeOK, NEW v \in VMs, VM(v)
  PROVE  TypeOK'
<1>0. UUIDOf[v] \in UUIDs /\ NameOf[v] \in Names /\ v \in Callers
  BY NamesConstants
<1>1. CASE Lookup(v)
  <2>1. \/ Goto(v, "new", "refused") \/ Goto(v, "new", "looked")
    BY <1>1 DEF Lookup
  <2>2. UNCHANGED <<recordVars, active, mutex, ip, publicIP, asks, overtaken>>
    BY <1>1 DEF Lookup
  <2> QED BY <2>1, <2>2, MoveOfVM DEF TypeOK, VMState, RecordsTypeOK, recordVars
<1>2. CASE Register(v)
  <2>1. active' \in [UUIDs -> VMs \cup {Nil}]
    BY <1>0, <1>2 DEF Register, TypeOK
  <2> QED BY <1>2, <2>1, MoveOfVM DEF Register, TypeOK, VMState, RecordsTypeOK, recordVars
<1>3. CASE Boot(v)
  <2>1. ip' \in [VMs -> Guests \cup {Nil}]
    BY <1>0, <1>3, NamesConstants DEF Boot, TypeOK, Guests
  <2> QED BY <1>3, <2>1, MoveOfVM DEF Boot, TypeOK, VMState, RecordsTypeOK, recordVars
<1>4. CASE CallBack(v)
  <2>1. publicIP' \in [VMs -> Guests \cup {Nil}]
    BY <1>0, <1>4 DEF CallBack, TypeOK
  <2>2. MutexOK' /\ AsksOK'
    BY <1>4, NoMove DEF CallBack, recordVars, Pending
  <2> QED BY <1>4, <2>1, <2>2 DEF CallBack, TypeOK, RecordsTypeOK, recordVars
<1>5. CASE Exit(v)
  BY <1>5, MoveOfVM DEF Exit, TypeOK, VMState, RecordsTypeOK, recordVars
<1>6. CASE Deregister(v)
  <2>1. RecordsTypeOK'
    <3>1. publicIP[v] \in Addresses \cup {Nil}
      BY DEF TypeOK, Guests
    <3>2. rmRecord(NameOf[v], publicIP[v]) \in Seq(Request)
      BY <1>0, <3>1, RequestTypes
    <3> QED BY <1>0, <1>6, <3>2, Asking DEF Deregister
  <2>2. pc' \in [Callers -> VMState \cup HandlerState]
    BY <1>6, NamesConstants DEF Deregister, Goto, TypeOK, VMState
  <2>3. \A c \in Callers : c # v => pc'[c] = pc[c] /\ Pending(c)' = Pending(c)
    BY <1>6, NamesConstants DEF Deregister, Goto, TypeOK, Pending, RecordsTypeOK
  <2>4. MutexOK'
    <3>1. mutex = Nil /\ mutex' = v /\ pc'[v] = "deregister"
      BY <1>6, NamesConstants DEF Deregister, Goto, TypeOK
    <3> QED BY <2>3, <3>1, NamesConstants DEF TypeOK, MutexOK
  <2>5. AsksOK'
    BY <1>6, <2>3, NamesConstants DEF Deregister, TypeOK, AsksOK
  <2> QED BY <1>6, <2>1, <2>2, <2>4, <2>5 DEF Deregister, TypeOK
<1>7. CASE Deregistered(v)
  <2>1. active' \in [UUIDs -> VMs \cup {Nil}]
    BY <1>0, <1>7 DEF Deregistered, TypeOK
  <2>2. pc' \in [Callers -> VMState \cup HandlerState]
    BY <1>7, NamesConstants DEF Deregistered, Goto, TypeOK, VMState
  <2>3. \A c \in Callers : /\ c # v => pc'[c] = pc[c]
                           /\ Pending(c)' = Pending(c)
    BY <1>7, NamesConstants DEF Deregistered, Goto, TypeOK, Pending, recordVars
  <2>4. MutexOK'
    <3>1. mutex = v /\ mutex' = Nil /\ pc'[v] = "gone" /\ ~Pending(v)
      BY <1>7, NamesConstants DEF Deregistered, Goto, TypeOK, MutexOK
    <3> QED BY <2>3, <3>1, NamesConstants DEF TypeOK, MutexOK
  <2>5. AsksOK'
    BY <1>7, <2>3, NamesConstants DEF Deregistered, TypeOK, AsksOK
  <2> QED BY <1>7, <2>1, <2>2, <2>4, <2>5 DEF Deregistered, TypeOK, RecordsTypeOK, recordVars
<1> QED BY <1>1, <1>2, <1>3, <1>4, <1>5, <1>6, <1>7 DEF VM

LEMMA HandlerTypes ==
  ASSUME TypeOK, NEW h \in Handlers, Handler(h)
  PROVE  TypeOK'
<1>0. h \in Callers /\ asks[h] \in Ask /\ NoAsk \in Ask /\ NoAsk.vm = Nil
  BY NamesConstants DEF TypeOK, Ask, NoAsk
<1>1. CASE Accept(h)
  <2>1. PICK v \in VMs : asks' = [asks EXCEPT ![h] = [NoAsk EXCEPT !.uuid = UUIDOf[v], !.from = ip[v]]]
    BY <1>1 DEF Accept
  <2> DEFINE k == [NoAsk EXCEPT !.uuid = UUIDOf[v], !.from = ip[v]]
  <2>2. k \in Ask /\ k.vm = Nil /\ k.uuid \in UUIDs
    BY NamesConstants DEF TypeOK, Ask, NoAsk
  <2> HIDE DEF k
  <2>3. asks' = [asks EXCEPT ![h] = k]
    BY <2>1 DEF k
  <2>4. pc' \in [Callers -> VMState \cup HandlerState] /\ asks' \in [Handlers -> Ask]
        /\ MutexOK' /\ AsksOK'
    BY <1>1, <2>2, <2>3, MoveOfHandler DEF Accept, HandlerState, recordVars
  <2> QED BY <1>1, <2>4 DEF Accept, TypeOK, RecordsTypeOK, recordVars, Ask
<1>2. CASE Fetch(h)
  <2> DEFINE v == active[asks[h].uuid]
             k == IF v = Nil THEN NoAsk ELSE [asks[h] EXCEPT !.vm = v]
             t == IF v = Nil THEN "idle" ELSE "fetched"
  <2>1. asks[h].uuid \in UUIDs
    BY <1>0, <1>2 DEF Fetch, Goto, TypeOK, AsksOK
  <2>2. /\ k \in Ask /\ t \in HandlerState
        /\ k.vm # Nil <=> t \in {"fetched", "adding"}
        /\ t # "idle" => k.uuid \in UUIDs
    BY <1>0, <2>1 DEF TypeOK, Ask, HandlerState
  <2>3. Goto(h, "accepted", t) /\ asks' = [asks EXCEPT ![h] = k]
    BY <1>2 DEF Fetch
  <2> HIDE DEF k, t
  <2>4. pc' \in [Callers -> VMState \cup HandlerState] /\ asks' \in [Handlers -> Ask]
        /\ MutexOK' /\ AsksOK'
    BY <1>2, <2>2, <2>3, MoveOfHandler DEF Fetch, recordVars
  <2> QED BY <1>2, <2>4 DEF Fetch, TypeOK, RecordsTypeOK, recordVars, Ask
<1>3. CASE Render(h)
  <2> DEFINE w == asks[h].vm
  <2>1. CASE Goto(h, "fetched", "adding") /\ UNCHANGED asks
             /\ todo' = [todo EXCEPT ![h] = addRecord(NameOf[w], asks[h].from)]
    <3>1. w \in VMs /\ asks[h].from \in Addresses \cup {Nil} /\ asks[h].uuid \in UUIDs
      BY <1>0, <2>1 DEF TypeOK, AsksOK, Goto, Ask, Guests
    <3>2. addRecord(NameOf[w], asks[h].from) \in Seq(Request)
      BY <3>1, RequestTypes, NamesConstants
    <3>3. RecordsTypeOK'
      BY <1>0, <1>3, <2>1, <3>2, Asking DEF Render
    <3>4. pc' \in [Callers -> VMState \cup HandlerState] /\ pc'[h] = "adding"
      BY <1>0, <2>1 DEF Goto, TypeOK, HandlerState
    <3>5. \A c \in Callers : c # h => pc'[c] = pc[c] /\ Pending(c)' = Pending(c)
      BY <1>0, <2>1 DEF Goto, TypeOK, Pending, RecordsTypeOK
    <3>6. MutexOK'
      BY <1>3, <3>5, NamesConstants DEF Render, TypeOK, MutexOK
    <3>7. AsksOK'
      BY <2>1, <3>1, <3>4, <3>5, NamesConstants DEF TypeOK, AsksOK
    <3> QED BY <1>3, <2>1, <3>3, <3>4, <3>6, <3>7 DEF Render, TypeOK
  <2>2. CASE Goto(h, "fetched", "idle") /\ asks' = [asks EXCEPT ![h] = NoAsk] /\ UNCHANGED todo
    <3>1. pc' \in [Callers -> VMState \cup HandlerState] /\ asks' \in [Handlers -> Ask]
          /\ MutexOK' /\ AsksOK'
      BY <1>0, <1>3, <2>2, MoveOfHandler DEF Render, HandlerState
    <3> QED BY <1>3, <2>2, <3>1 DEF Render, TypeOK, RecordsTypeOK, Ask
  <2> QED BY <1>3, <2>1, <2>2 DEF Render
<1>4. CASE Return(h)
  <2>1. pc' \in [Callers -> VMState \cup HandlerState] /\ asks' \in [Handlers -> Ask]
        /\ MutexOK' /\ AsksOK'
    BY <1>0, <1>4, MoveOfHandler DEF Return, HandlerState, recordVars
  <2> QED BY <1>4, <2>1 DEF Return, TypeOK, RecordsTypeOK, recordVars, Ask
<1> QED BY <1>1, <1>2, <1>3, <1>4 DEF Handler

\* Whoever asks etcd does so about a VM.
LEMMA SubjectIsVM ==
  ASSUME TypeOK, NEW c \in Callers, Pending(c)
  PROVE  Subject(c) \in VMs
<1>1. CASE c \in VMs
  BY <1>1 DEF Subject
<1>2. CASE c \in Handlers /\ c \notin VMs
  <2>1. asks[c].vm # Nil /\ asks[c] \in Ask
    BY <1>2 DEF TypeOK, AsksOK, Ask
  <2> QED BY <1>2, <2>1 DEF Subject, Ask
<1> QED BY <1>1, <1>2, NamesConstants

LEMMA RequestStep ==
  ASSUME TypeOK, NEW c \in Callers, Answered(c) \/ Failed(c)
  PROVE  /\ Pending(c)
         /\ \A b \in Callers : Pending(b)' => Pending(b)
<1>1. Pending(c)
  BY DEF Answered, Failed, Refused, TimedOut
<1>2. \A b \in Callers : b # c => todo'[b] = todo[b]
  BY DEF Answered, Failed, Refused, TimedOut, TypeOK, RecordsTypeOK
<1> QED BY <1>1, <1>2 DEF Pending

LEMMA TypeStep == TypeOK /\ [Next]_vars => TypeOK'
<1> SUFFICES ASSUME TypeOK, [Next]_vars PROVE TypeOK'
  OBVIOUS
<1>1. ASSUME NEW v \in VMs, VM(v) PROVE TypeOK'
  BY <1>1, VMTypes
<1>2. ASSUME NEW h \in Handlers, Handler(h) PROVE TypeOK'
  BY <1>2, HandlerTypes
<1>3. ASSUME NEW c \in Callers, Reply(c) \/ GiveUp(c) PROVE TypeOK'
  <2>0. Answered(c) \/ Failed(c)
    BY <1>3 DEF Reply, GiveUp, Failed
  <2>1. RecordsTypeOK'
    BY <2>0, AnsweredType DEF TypeOK
  <2>2. UNCHANGED daemonVars
    BY <1>3 DEF Reply, GiveUp
  <2>3. overtaken' \subseteq VMs
    <3>1. Subject(c) \in VMs
      BY <2>0, RequestStep, SubjectIsVM
    <3>2. overtaken' \subseteq overtaken \cup {Subject(c)}
      BY <1>3 DEF Reply, GiveUp
    <3> QED BY <3>1, <3>2 DEF TypeOK
  <2>4. MutexOK' /\ AsksOK'
    BY <2>0, <2>2, RequestStep, NoMove DEF daemonVars
  <2> QED BY <2>1, <2>2, <2>3, <2>4 DEF TypeOK, daemonVars
<1>4. CASE LateReply
  <2>1. RecordsTypeOK'
    BY <1>4, LateType DEF LateReply, TypeOK
  <2>2. MutexOK' /\ AsksOK'
    BY <1>4, NoMove DEF LateReply, LateApplied, daemonVars, Pending
  <2> QED BY <1>4, <2>1, <2>2 DEF LateReply, TypeOK, daemonVars
<1>5. CASE UNCHANGED vars
  <2>1. MutexOK' /\ AsksOK'
    BY <1>5, NoMove DEF vars, recordVars, daemonVars, Pending
  <2> QED BY <1>5, <2>1 DEF vars, recordVars, daemonVars, TypeOK, RecordsTypeOK
<1> QED BY <1>1, <1>2, <1>3, <1>4, <1>5 DEF Next

\* Every variable of Names keeps its type, and the mutex is held by the one VM
\* that is being deregistered.
THEOREM NamesTypeCorrect == Spec => []TypeOK
<1> QED BY InitTypeOK, TypeStep, PTL DEF Spec

-----------------------------------------------------------------------------
(***************************************************************************)
(* The name of the host                                                    *)
(***************************************************************************)

\* Past lookup no VM has the host's name ...
AdmittedVMs == {v \in VMs : pc[v] \notin {"new", "refused"}}

AdmittedInv ==
  /\ \A v \in AdmittedVMs : NameOf[v] # Reserved
  /\ \A u \in UUIDs : active[u] # Nil => active[u] \in AdmittedVMs
  /\ \A h \in Handlers : asks[h].vm # Nil => asks[h].vm \in AdmittedVMs

\* ... and only VMs past lookup have requests made for them.
HarmlessInv ==
  /\ \A c \in Callers : \A i \in DOMAIN todo[c] : Harmless(todo[c][i])
  /\ \A r \in late : Harmless(r)

\* No VM past lookup goes by another spelling of the host's name.
AliasFree == \A v \in AdmittedVMs : ~AliasOfHost(NameOf[v])

HostInv == TypeOK /\ AdmittedInv /\ (AliasFree => HarmlessInv /\ HostIsNamed)

LEMMA HarmlessRequests ==
  ASSUME NEW g \in Names, Path(g) # Path(Reserved), NEW addr
  PROVE  /\ \A i \in DOMAIN addRecord(g, addr) : Harmless(addRecord(g, addr)[i])
         /\ \A i \in DOMAIN rmRecord(g, addr) : Harmless(rmRecord(g, addr)[i])
<1>1. Path(g) # Path(Reserved) /\ Reverse(addr) # Path(Reserved)
  BY PathIsNotReverse, RecordConstants
<1>2. /\ Harmless(Set(Path(g), addr)) /\ Harmless(Set(Reverse(addr), g))
      /\ Harmless(Delete(Path(g))) /\ Harmless(Delete(Reverse(addr)))
  BY <1>1 DEF Harmless, Set, Delete
<1> QED BY <1>2 DEF addRecord, rmRecord

LEMMA AdmittedStep ==
  ASSUME TypeOK, AdmittedInv, [Next]_vars
  PROVE  AdmittedInv'
<1>1. ASSUME NEW v \in VMs, VM(v) PROVE AdmittedInv'
  <2>0. v \in Callers /\ UUIDOf[v] \in UUIDs /\ v # Nil
    BY NamesConstants
  <2>1. CASE Lookup(v)
    <3>1. UNCHANGED <<active, asks>> /\ \A c \in Callers : c # v => pc'[c] = pc[c]
      BY <2>0, <2>1 DEF Lookup, Goto, TypeOK
    <3>2. pc[v] = "new" /\ (pc'[v] = "refused" \/ NameOf[v] # Reserved)
      <4>1. CASE Clash(v)
        BY <2>0, <2>1, <4>1 DEF Lookup, Goto, TypeOK
      <4>2. CASE ~Clash(v)
        BY <2>0, <2>1, <4>2 DEF Lookup, Goto, Clash
      <4> QED BY <4>1, <4>2
    <3> QED BY <3>1, <3>2, NamesConstants DEF AdmittedInv, AdmittedVMs
  <2>2. CASE ~Lookup(v)
    <3>1. /\ UNCHANGED asks /\ v \in AdmittedVMs /\ v \in AdmittedVMs'
          /\ \A c \in Callers : c # v => pc'[c] = pc[c]
      BY <1>1, <2>0, <2>2
         DEF VM, Register, Boot, CallBack, Exit, Deregister, Deregistered, Goto, TypeOK, AdmittedVMs
    <3>2. \A u \in UUIDs : active'[u] \in {active[u], v, Nil}
      BY <1>1, <2>0, <2>2
         DEF VM, Register, Boot, CallBack, Exit, Deregister, Deregistered, TypeOK
    <3>3. AdmittedVMs' = AdmittedVMs
      BY <3>1, NamesConstants DEF AdmittedVMs
    <3> QED BY <3>1, <3>2, <3>3 DEF AdmittedInv
  <2> QED BY <2>1, <2>2
<1>2. ASSUME NEW h \in Handlers, Handler(h) PROVE AdmittedInv'
  <2>1. UNCHANGED active
    BY <1>2 DEF Handler, Accept, Fetch, Render, Return
  <2>2. \A v \in VMs : pc'[v] = pc[v]
    BY <1>2, NamesConstants, ZenonT(30) DEF Handler, Accept, Fetch, Render, Return, Goto, TypeOK
  <2>3. AdmittedVMs' = AdmittedVMs
    BY <2>2 DEF AdmittedVMs
  <2>4. \A g \in Handlers : asks'[g].vm \in {Nil, asks[g].vm} \cup {active[u] : u \in UUIDs}
    <3>1. \A g \in Handlers : g # h => asks'[g] = asks[g]
      BY <1>2 DEF Handler, Accept, Fetch, Render, Return, TypeOK
    <3>2. asks'[h].vm \in {Nil, asks[h].vm} \cup {active[u] : u \in UUIDs}
      <4>1. CASE Accept(h)
        <5>1. asks'[h].vm = Nil
          BY <4>1 DEF Accept, TypeOK, NoAsk
        <5> QED BY <5>1
      <4>2. CASE Fetch(h)
        <5>1. asks[h].uuid \in UUIDs
          BY <4>2, NamesConstants DEF Fetch, Goto, TypeOK, AsksOK
        <5>2. asks[h] \in Ask
          BY DEF TypeOK, Ask
        <5>3. asks'[h].vm \in {Nil, active[asks[h].uuid]}
          BY <4>2, <5>2 DEF Fetch, TypeOK, NoAsk, Ask
        <5> QED BY <5>1, <5>3
      <4>3. CASE Render(h) \/ Return(h)
        BY <4>3 DEF Render, Return, TypeOK, NoAsk
      <4> QED BY <1>2, <4>1, <4>2, <4>3 DEF Handler
    <3> QED BY <3>1, <3>2
  <2> QED BY <2>1, <2>3, <2>4 DEF AdmittedInv
<1>3. CASE UNCHANGED daemonVars
  BY <1>3 DEF daemonVars, AdmittedInv, AdmittedVMs
<1> QED BY <1>1, <1>2, <1>3 DEF Next, Reply, GiveUp, LateReply, vars

\* lookup is never undone.
LEMMA AliasFreeBefore ==
  ASSUME TypeOK, [Next]_vars, AliasFree'
  PROVE  AliasFree
<1>1. ASSUME NEW v \in VMs, v \in AdmittedVMs PROVE v \in AdmittedVMs'
  <2>0. v \in Callers
    BY NamesConstants
  <2>1. ASSUME NEW w \in VMs, VM(w) PROVE pc'[v] \notin {"new", "refused"}
    BY <1>1, <2>0, <2>1, NamesConstants
       DEF VM, Lookup, Register, Boot, CallBack, Exit, Deregister, Deregistered, Goto, TypeOK,
           AdmittedVMs
  <2>2. ASSUME NEW h \in Handlers, Handler(h) PROVE pc'[v] = pc[v]
    BY <2>0, <2>2, NamesConstants DEF Handler, Accept, Fetch, Render, Return, Goto, TypeOK
  <2>3. CASE UNCHANGED daemonVars
    BY <1>1, <2>3 DEF daemonVars, AdmittedVMs
  <2> QED
    BY <1>1, <2>1, <2>2, <2>3 DEF Next, Reply, GiveUp, LateReply, vars, AdmittedVMs
<1> QED BY <1>1 DEF AliasFree, AliasOfHost, AdmittedVMs

LEMMA HarmlessStep ==
  ASSUME TypeOK, AdmittedInv, AliasFree, HarmlessInv, [Next]_vars
  PROVE  HarmlessInv'
<1>0. todo \in [Callers -> Seq(Request)]
  BY DEF TypeOK, RecordsTypeOK
<1>1. ASSUME NEW c \in Callers, NEW l, todo' = [todo EXCEPT ![c] = l], late' = late,
             \A i \in DOMAIN l : Harmless(l[i])
      PROVE  HarmlessInv'
  BY <1>0, <1>1 DEF HarmlessInv
<1>2. CASE UNCHANGED <<todo, late>>
  BY <1>2 DEF HarmlessInv
<1>3. ASSUME NEW v \in VMs, Deregister(v) PROVE HarmlessInv'
  <2>1. v \in AdmittedVMs
    BY <1>3 DEF Deregister, Goto, AdmittedVMs
  <2>2. NameOf[v] \in Names /\ Path(NameOf[v]) # Path(Reserved) /\ v \in Callers
    BY <2>1, NamesConstants DEF AdmittedInv, AliasFree, AliasOfHost
  <2> QED BY <1>1, <1>3, <2>2, HarmlessRequests DEF Deregister
<1>4. ASSUME NEW h \in Handlers, Render(h) PROVE HarmlessInv'
  <2>1. CASE UNCHANGED todo
    BY <1>2, <1>4, <2>1 DEF Render
  <2>2. CASE Goto(h, "fetched", "adding")
             /\ todo' = [todo EXCEPT ![h] = addRecord(NameOf[asks[h].vm], asks[h].from)]
    <3>1. asks[h].vm \in AdmittedVMs /\ h \in Callers
      BY <2>2, NamesConstants DEF Goto, TypeOK, AsksOK, AdmittedInv
    <3>2. NameOf[asks[h].vm] \in Names /\ Path(NameOf[asks[h].vm]) # Path(Reserved)
      BY <3>1, NamesConstants DEF AdmittedInv, AdmittedVMs, AliasFree, AliasOfHost
    <3> QED BY <1>1, <1>4, <2>2, <3>1, <3>2, HarmlessRequests DEF Render
  <2> QED BY <1>4, <2>1, <2>2 DEF Render
<1>5. ASSUME NEW c \in Callers, Reply(c) \/ GiveUp(c) PROVE HarmlessInv'
  <2>1. Pending(c)
    BY <1>5, RequestStep DEF Reply, GiveUp, Failed
  <2>2. todo[c] \in Seq(Request) /\ todo[c] # <<>>
    BY <1>0, <2>1 DEF Pending
  <2>3. Harmless(Head(todo[c])) /\ \A i \in DOMAIN Tail(todo[c]) : Harmless(Tail(todo[c])[i])
    <3>1. 1 \in DOMAIN todo[c] /\ Head(todo[c]) = todo[c][1]
      BY <2>2
    <3>2. \A i \in DOMAIN Tail(todo[c]) : i + 1 \in DOMAIN todo[c] /\ Tail(todo[c])[i] = todo[c][i + 1]
      BY <2>2
    <3> QED BY <3>1, <3>2, <2>1 DEF HarmlessInv
  <2>4. late' = late \/ late' = late \cup {Head(todo[c])}
    BY <1>5 DEF Reply, GiveUp, Answered, Refused, TimedOut
  <2>5. todo' = [todo EXCEPT ![c] = Tail(todo[c])] \/ todo' = [todo EXCEPT ![c] = <<>>]
    BY <1>5 DEF Reply, GiveUp, Answered, Refused, TimedOut
  <2>6. \A b \in Callers : \A i \in DOMAIN todo'[b] : Harmless(todo'[b][i])
    <3>1. \A b \in Callers : b # c => todo'[b] = todo[b]
      BY <1>0, <2>5
    <3>2. todo'[c] = Tail(todo[c]) \/ todo'[c] = <<>>
      BY <1>0, <2>5
    <3>3. \A i \in DOMAIN todo'[c] : Harmless(todo'[c][i])
      <4>1. CASE todo'[c] = <<>>
        BY <4>1
      <4> QED BY <2>3, <3>2, <4>1
    <3> QED BY <3>1, <3>3 DEF HarmlessInv
  <2> QED BY <2>3, <2>4, <2>6 DEF HarmlessInv
<1>6. CASE LateReply
  BY <1>6 DEF LateReply, LateApplied, HarmlessInv
<1>7. ASSUME NEW v \in VMs, VM(v) PROVE HarmlessInv'
  BY <1>2, <1>3, <1>7
     DEF VM, Lookup, Register, Boot, CallBack, Exit, Deregistered, recordVars
<1>8. ASSUME NEW h \in Handlers, Handler(h) PROVE HarmlessInv'
  BY <1>2, <1>4, <1>8 DEF Handler, Accept, Fetch, Return, recordVars
<1> QED BY <1>2, <1>5, <1>6, <1>7, <1>8 DEF Next, vars, recordVars

\* Only what etcd carries out touches the records.
LEMMA StoreStep ==
  ASSUME TypeOK, [Next]_vars
  PROVE  \/ UNCHANGED store
         \/ \E c \in Callers : Reply(c) /\ Accepts(Head(todo[c])) /\ store' = Applied(Head(todo[c]))
         \/ \E r \in late : Accepts(r) /\ store' = Applied(r)
<1>1. ASSUME NEW v \in VMs, VM(v) PROVE UNCHANGED store
  BY <1>1 DEF VM, Lookup, Register, Boot, CallBack, Exit, Deregister, Deregistered, recordVars
<1>2. ASSUME NEW h \in Handlers, Handler(h) PROVE UNCHANGED store
  BY <1>2 DEF Handler, Accept, Fetch, Render, Return, recordVars
<1>3. ASSUME NEW c \in Callers, GiveUp(c) PROVE UNCHANGED store
  BY <1>3 DEF GiveUp, Refused, TimedOut
<1>4. ASSUME NEW c \in Callers, Reply(c)
      PROVE  Accepts(Head(todo[c])) /\ store' = Applied(Head(todo[c]))
  BY <1>4 DEF Reply, Answered
<1>5. CASE LateReply
  BY <1>5 DEF LateReply, LateApplied
<1> QED BY <1>1, <1>2, <1>3, <1>4, <1>5 DEF Next, vars, recordVars

LEMMA HostStep ==
  ASSUME TypeOK, HarmlessInv, HostIsNamed, [Next]_vars
  PROVE  HostIsNamed'
<1>1. ASSUME NEW c \in Callers, Reply(c), Accepts(Head(todo[c])), store' = Applied(Head(todo[c]))
      PROVE  HostIsNamed'
  <2>1. Pending(c)
    BY <1>1 DEF Reply, Answered
  <2>2. Head(todo[c]) \in Request
    BY <2>1, HeadAndTail DEF TypeOK
  <2>3. Harmless(Head(todo[c]))
    <3>1. todo[c] \in Seq(Request) /\ todo[c] # <<>>
      BY <2>1 DEF TypeOK, RecordsTypeOK, Pending
    <3>2. 1 \in DOMAIN todo[c] /\ Head(todo[c]) = todo[c][1]
      BY <3>1
    <3> QED BY <3>2 DEF HarmlessInv
  <2> QED BY <1>1, <2>2, <2>3, HarmlessKeeps DEF HostIsNamed
<1>2. ASSUME NEW r \in late, Accepts(r), store' = Applied(r)
      PROVE  HostIsNamed'
  <2>1. r \in Request /\ Harmless(r)
    BY DEF TypeOK, RecordsTypeOK, HarmlessInv
  <2> QED BY <1>2, <2>1, HarmlessKeeps DEF HostIsNamed
<1> QED BY <1>1, <1>2, StoreStep DEF HostIsNamed

\* For any VMs, handlers and names, and whatever keys etcd makes of the names and
\* whatever it loses or carries out late: the record of "corectld" stays until a
\* VM gets past lookup under another spelling of that name.  The name itself is
\* refused, and a record is not made a directory.
THEOREM HostKeepsName == Spec => []HostLostToAliasOnly
<1>1. Init => HostInv
  <2> SUFFICES ASSUME Init PROVE HostInv
    OBVIOUS
  <2>1. AdmittedInv
    BY NamesConstants DEF Init, AdmittedInv, AdmittedVMs, NoAsk
  <2>2. HarmlessInv
    BY DEF Init, HarmlessInv
  <2>3. HostIsNamed
    BY HostStoreType DEF Init, HostIsNamed
  <2> QED BY <2>1, <2>2, <2>3, InitTypeOK DEF HostInv
<1>2. HostInv /\ [Next]_vars => HostInv'
  BY TypeStep, AdmittedStep, AliasFreeBefore, HarmlessStep, HostStep DEF HostInv
<1>3. HostInv => HostLostToAliasOnly
  BY DEF HostInv, HostLostToAliasOnly, AliasFree, AdmittedVMs
<1> QED BY <1>1, <1>2, <1>3, PTL DEF Spec

-----------------------------------------------------------------------------
(***************************************************************************)
(* The name of a guest that is registered                                  *)
(***************************************************************************)

\* lookup releases the mutex before register writes the map, so that two Runs of
\* one UUID may pass it together, and one write the entry of the other.
Overwrites(v) == Register(v) /\ active[UUIDOf[v]] # Nil
NoOverwrite == \A v \in VMs : ~Overwrites(v)

UUIDsDiffer == \A v, w \in VMs : UUIDOf[v] = UUIDOf[w] => v = w

Booted == {v \in VMs : pc[v] \in {"up", "exited", "deregister"}}

\* The entry of a UUID is that of its VM, from Register to Deregistered.
EntryInv == \A v \in VMs : pc[v] \in {"registered", "up", "exited", "deregister"} => active[UUIDOf[v]] = v

\* A guest that runs has an address, and so has one that asked.
AddressInv ==
  /\ \A v \in Booted : ip[v] # Nil
  /\ \A h \in Handlers : pc[h] # "idle" => asks[h].from # Nil

\* VMs have records deleted, each its own; handlers have records set.
OwnRemoval(v, r) ==
  r.op = "delete" /\ (r.key = Path(NameOf[v]) \/ \E a \in Addresses \cup {Nil} : r.key = Reverse(a))

Addition(r) == r.op = "set" /\ r.value # Nil

WriterInv ==
  /\ \A v \in VMs : \A i \in DOMAIN todo[v] : OwnRemoval(v, todo[v][i])
  /\ \A h \in Handlers : \A i \in DOMAIN todo[h] : Addition(todo[h][i])

LEMMA EntryStep ==
  ASSUME TypeOK, EntryInv, [Next]_vars, [NoOverwrite]_vars
  PROVE  EntryInv'
<1>1. ASSUME NEW v \in VMs, VM(v), NoOverwrite PROVE EntryInv'
  <2>0. v \in Callers /\ UUIDOf[v] \in UUIDs /\ v # Nil
    BY NamesConstants
  <2>1. \A w \in VMs : w # v => pc'[w] = pc[w] /\ UUIDOf[w] \in UUIDs /\ w # Nil
    BY <1>1, <2>0, NamesConstants
       DEF VM, Lookup, Register, Boot, CallBack, Exit, Deregister, Deregistered, Goto, TypeOK
  \* An entry that is written was empty, one that is deleted is v's own.
  <2>2. \A u \in UUIDs : active'[u] = active[u] \/ active[u] \in {v, Nil}
    <3>1. CASE Register(v)
      BY <1>1, <2>0, <3>1 DEF Register, NoOverwrite, Overwrites, TypeOK
    <3>2. CASE Deregistered(v)
      <4>1. active[UUIDOf[v]] = v
        BY <3>2 DEF Deregistered, Goto, EntryInv
      <4> QED BY <2>0, <3>2, <4>1 DEF Deregistered, TypeOK
    <3> QED BY <1>1, <3>1, <3>2 DEF VM, Lookup, Boot, CallBack, Exit, Deregister
  <2>3. pc'[v] \in {"registered", "up", "exited", "deregister"} => active'[UUIDOf[v]] = v
    <3>1. CASE Lookup(v)
      BY <2>0, <3>1 DEF Lookup, Goto, TypeOK
    <3>2. CASE Register(v)
      BY <2>0, <3>2 DEF Register, TypeOK
    <3>3. CASE Boot(v) \/ CallBack(v) \/ Exit(v) \/ Deregister(v)
      BY <2>0, <3>3 DEF Boot, CallBack, Exit, Deregister, Goto, TypeOK, EntryInv
    <3>4. CASE Deregistered(v)
      BY <2>0, <3>4 DEF Deregistered, Goto, TypeOK
    <3> QED BY <1>1, <3>1, <3>2, <3>3, <3>4 DEF VM
  <2> QED BY <2>1, <2>2, <2>3 DEF EntryInv
<1>2. ASSUME NEW h \in Handlers, Handler(h) PROVE EntryInv'
  <2>1. \A v \in VMs : pc'[v] = pc[v]
    BY <1>2, NamesConstants DEF Handler, Accept, Fetch, Render, Return, Goto, TypeOK
  <2>2. UNCHANGED active
    BY <1>2 DEF Handler, Accept, Fetch, Render, Return
  <2> QED BY <2>1, <2>2 DEF EntryInv
<1>3. CASE UNCHANGED daemonVars
  BY <1>3 DEF daemonVars, EntryInv
<1>4. CASE UNCHANGED vars
  BY <1>3, <1>4 DEF vars
<1> QED BY <1>1, <1>2, <1>3, <1>4 DEF Next, Reply, GiveUp, LateReply

LEMMA AddressStep ==
  ASSUME TypeOK, AddressInv, [Next]_vars
  PROVE  AddressInv'
<1>1. ASSUME NEW v \in VMs, VM(v) PROVE AddressInv'
  <2>0. v \in Callers /\ UUIDOf[v] \in UUIDs
    BY NamesConstants
  <2>1. \A c \in Callers : c # v => pc'[c] = pc[c]
    BY <1>1, <2>0
       DEF VM, Lookup, Register, Boot, CallBack, Exit, Deregister, Deregistered, Goto, TypeOK
  <2>2. UNCHANGED asks
    BY <1>1 DEF VM, Lookup, Register, Boot, CallBack, Exit, Deregister, Deregistered
  <2>3. CASE Boot(v)
    <3>1. PICK a \in Offers[UUIDOf[v]] : ip' = [ip EXCEPT ![v] = a]
      BY <2>3 DEF Boot
    <3>2. a # Nil
      BY <2>0, <3>1, NamesConstants, RecordConstants
    <3>3. \A w \in Booted' : ip'[w] # Nil
      BY <2>0, <2>1, <3>1, <3>2, NamesConstants DEF TypeOK, AddressInv, Booted
    <3> QED BY <2>1, <2>2, <3>3, NamesConstants DEF AddressInv
  <2>4. CASE ~Boot(v)
    <3>1. UNCHANGED ip /\ (v \in Booted' => v \in Booted)
      BY <1>1, <2>0, <2>4
         DEF VM, Lookup, Register, CallBack, Exit, Deregister, Deregistered, Goto, TypeOK, Booted
    <3>2. \A w \in Booted' : ip'[w] # Nil
      BY <2>1, <3>1, NamesConstants DEF AddressInv, Booted
    <3> QED BY <2>1, <2>2, <3>2, NamesConstants DEF AddressInv
  <2> QED BY <2>3, <2>4
<1>2. ASSUME NEW h \in Handlers, Handler(h) PROVE AddressInv'
  <2>0. h \in Callers /\ h \notin VMs /\ asks[h] \in Ask
    BY NamesConstants DEF TypeOK, Ask
  <2>1. \A c \in Callers : c # h => pc'[c] = pc[c]
    BY <1>2, <2>0 DEF Handler, Accept, Fetch, Render, Return, Goto, TypeOK
  <2>2. UNCHANGED ip /\ \A g \in Handlers : g # h => asks'[g] = asks[g]
    BY <1>2 DEF Handler, Accept, Fetch, Render, Return, TypeOK
  <2>3. Booted' = Booted
    BY <2>0, <2>1, NamesConstants DEF Booted
  <2>4. pc'[h] # "idle" => asks'[h].from # Nil
    <3>1. CASE Accept(h)
      <4>1. PICK v \in VMs : pc[v] = "up"
                             /\ asks' = [asks EXCEPT ![h] = [NoAsk EXCEPT !.uuid = UUIDOf[v], !.from = ip[v]]]
        BY <3>1 DEF Accept
      <4>2. ip[v] # Nil
        BY <4>1 DEF AddressInv, Booted
      <4>3. asks'[h].from = ip[v]
        BY <4>1 DEF TypeOK, NoAsk
      <4> QED BY <4>2, <4>3
    <3>2. CASE Fetch(h)
      <4>1. pc[h] = "accepted"
        BY <3>2 DEF Fetch, Goto
      <4>2. active[asks[h].uuid] # Nil => asks'[h].from = asks[h].from
        BY <2>0, <3>2 DEF Fetch, TypeOK, Ask
      <4>3. active[asks[h].uuid] = Nil => pc'[h] = "idle"
        BY <2>0, <3>2 DEF Fetch, Goto, TypeOK
      <4> QED BY <4>1, <4>2, <4>3 DEF AddressInv
    <3>3. CASE Render(h) \/ Return(h)
      BY <2>0, <3>3 DEF Render, Return, Goto, TypeOK, AddressInv
    <3> QED BY <1>2, <3>1, <3>2, <3>3 DEF Handler
  <2> QED BY <2>0, <2>1, <2>2, <2>3, <2>4, NamesConstants DEF AddressInv
<1>3. CASE UNCHANGED daemonVars
  BY <1>3 DEF daemonVars, AddressInv, Booted
<1> QED BY <1>1, <1>2, <1>3 DEF Next, Reply, GiveUp, LateReply, vars

LEMMA WriterStep ==
  ASSUME TypeOK, AddressInv, WriterInv, [Next]_vars
  PROVE  WriterInv'
<1>0. todo \in [Callers -> Seq(Request)]
  BY DEF TypeOK, RecordsTypeOK
<1>1. CASE UNCHANGED todo
  BY <1>1 DEF WriterInv
<1>2. ASSUME NEW v \in VMs, Deregister(v) PROVE WriterInv'
  <2>1. publicIP[v] \in Addresses \cup {Nil}
    BY DEF TypeOK, Guests
  <2> DEFINE l == rmRecord(NameOf[v], publicIP[v])
  <2>2. \A i \in DOMAIN l : OwnRemoval(v, l[i])
    BY <2>1 DEF rmRecord, Delete, OwnRemoval
  <2> HIDE DEF l
  <2>3. todo' = [todo EXCEPT ![v] = l]
    BY <1>2 DEF Deregister, l
  <2> QED BY <1>0, <2>2, <2>3, NamesConstants DEF WriterInv
<1>3. ASSUME NEW h \in Handlers, Render(h) PROVE WriterInv'
  <2> DEFINE w == asks[h].vm
             l == addRecord(NameOf[w], asks[h].from)
  <2>1. CASE UNCHANGED todo
    BY <1>1, <2>1
  <2>2. CASE Goto(h, "fetched", "adding") /\ todo' = [todo EXCEPT ![h] = l]
    <3>1. w \in VMs /\ asks[h].from # Nil
      BY <2>2 DEF Goto, TypeOK, AsksOK, AddressInv
    <3>2. NameOf[w] # Nil
      BY <3>1, NamesConstants, RecordConstants
    <3>3. \A i \in DOMAIN l : Addition(l[i])
      BY <3>1, <3>2 DEF addRecord, Set, Addition
    <3> HIDE DEF l
    <3> QED BY <1>0, <2>2, <3>3, NamesConstants DEF WriterInv
  <2> QED BY <1>3, <2>1, <2>2 DEF Render
<1>4. ASSUME NEW c \in Callers, Reply(c) \/ GiveUp(c) PROVE WriterInv'
  <2>1. todo[c] \in Seq(Request) /\ todo[c] # <<>>
    BY <1>0, <1>4, RequestStep DEF Reply, GiveUp, Failed, Pending
  <2>2. todo' = [todo EXCEPT ![c] = Tail(todo[c])] \/ todo' = [todo EXCEPT ![c] = <<>>]
    BY <1>4 DEF Reply, GiveUp, Answered, Refused, TimedOut
  <2>3. \A b \in Callers : b # c => todo'[b] = todo[b]
    BY <1>0, <2>2
  <2>4. \A i \in DOMAIN todo'[c] : \E j \in DOMAIN todo[c] : todo'[c][i] = todo[c][j]
    <3>1. CASE todo'[c] = <<>>
      BY <3>1
    <3>2. CASE todo'[c] = Tail(todo[c])
      <4>1. \A i \in DOMAIN Tail(todo[c]) : i + 1 \in DOMAIN todo[c] /\ Tail(todo[c])[i] = todo[c][i + 1]
        BY <2>1
      <4> QED BY <3>2, <4>1
    <3> QED BY <1>0, <2>2, <3>1, <3>2
  <2> QED BY <2>3, <2>4, NamesConstants DEF WriterInv
<1>5. ASSUME NEW v \in VMs, VM(v) PROVE WriterInv'
  BY <1>1, <1>2, <1>5
     DEF VM, Lookup, Register, Boot, CallBack, Exit, Deregistered, recordVars
<1>6. ASSUME NEW h \in Handlers, Handler(h) PROVE WriterInv'
  BY <1>1, <1>3, <1>6 DEF Handler, Accept, Fetch, Return, recordVars
<1>7. CASE LateReply
  BY <1>1, <1>7 DEF LateReply, LateApplied
<1> QED BY <1>1, <1>4, <1>5, <1>6, <1>7 DEF Next, vars, recordVars

NameInv == TypeOK /\ EntryInv /\ AddressInv /\ WriterInv

LEMMA LostByOwner ==
  ASSUME NameInv, [Next]_vars, NEW v \in Registered,
         IsFile(Path(NameOf[v])), store'[Path(NameOf[v])] = Nil
  PROVE  \/ mutex = v
         \/ late # {}
         \/ \E w \in Registered \ {v} : Path(NameOf[w]) = Path(NameOf[v])
<1> DEFINE k == Path(NameOf[v])
<1>0. v \in VMs /\ NameOf[v] \in Names /\ k \in Keys /\ store[k] # Nil
  BY NamesConstants, LeavesAreKeys DEF Registered, IsFile
<1>1. SUFFICES ASSUME late = {}
               PROVE  mutex = v \/ \E w \in Registered \ {v} : Path(NameOf[w]) = k
  OBVIOUS
<1>2. PICK c \in Callers : Reply(c) /\ store' = Applied(Head(todo[c]))
  BY <1>0, <1>1, StoreStep DEF NameInv
<1> DEFINE r == Head(todo[c])
<1>3. todo[c] \in Seq(Request) /\ todo[c] # <<>> /\ Pending(c)
  BY <1>2 DEF Reply, Answered, Pending, NameInv, TypeOK, RecordsTypeOK
<1>4. 1 \in DOMAIN todo[c] /\ r = todo[c][1]
  BY <1>3
<1>5. CASE c \in Handlers
  <2>1. Addition(r)
    BY <1>4, <1>5 DEF NameInv, WriterInv
  <2> HIDE DEF r
  <2>2. Applied(r)[k] \in {r.value, Dir, store[k]}
    BY <1>0, <2>1 DEF Applied, Addition
  <2>3. Dir # Nil
    BY RecordConstants
  <2> QED BY <1>0, <1>2, <2>1, <2>2, <2>3 DEF Addition, r
<1>6. CASE c \in VMs
  <2>1. OwnRemoval(c, r)
    BY <1>4, <1>6 DEF NameInv, WriterInv
  <2> HIDE DEF r
  <2>2. r.key = k
    BY <1>0, <1>2, <2>1 DEF Applied, OwnRemoval, r
  <2>3. r.key = Path(NameOf[c])
    BY <1>0, <2>1, <2>2, PathIsNotReverse DEF OwnRemoval
  <2>4. Path(NameOf[c]) = k
    BY <2>2, <2>3
  <2>5. pc[c] = "deregister" /\ mutex = c
    BY <1>3, <1>6 DEF NameInv, TypeOK, MutexOK
  <2>6. c \in Registered
    BY <1>6, <2>5 DEF NameInv, EntryInv, Registered
  <2> QED BY <2>4, <2>5, <2>6
<1> QED BY <1>5, <1>6, NamesConstants

\* As long as no Run overwrote an entry, the name of a registered guest is not
\* removed by the deregistration of another, except one that is registered by the
\* same key (two Runs that passed lookup together, or two spellings of a name),
\* or for want of an answer from etcd.
THEOREM NameOutlives == Spec /\ [][NoOverwrite]_vars => NameOutlivesOthers
<1>1. Init => NameInv
  <2> SUFFICES ASSUME Init PROVE NameInv
    OBVIOUS
  <2>1. EntryInv
    BY NamesConstants DEF Init, EntryInv
  <2>2. AddressInv
    BY NamesConstants DEF Init, AddressInv, Booted
  <2>3. WriterInv
    BY NamesConstants DEF Init, WriterInv
  <2> QED BY <2>1, <2>2, <2>3, InitTypeOK DEF NameInv
<1>2. NameInv /\ [Next]_vars /\ [NoOverwrite]_vars => NameInv'
  BY TypeStep, EntryStep, AddressStep, WriterStep DEF NameInv
<1>3. NameInv /\ [Next]_vars =>
        [\A v \in Registered :
           (store[Path(NameOf[v])] = ip[v] /\ IsFile(Path(NameOf[v])) /\ store'[Path(NameOf[v])] = Nil) =>
             \/ mutex = v
             \/ late # {}
             \/ \E w \in Registered \ {v} : Path(NameOf[w]) = Path(NameOf[v])]_vars
  BY LostByOwner
<1> QED BY <1>1, <1>2, <1>3, PTL DEF Spec, NameOutlivesOthers

-----------------------------------------------------------------------------
(***************************************************************************)
(* The name of a guest that is gone.  Once its own request has removed the *)
(* record, only a request for another VM of that key and address can have  *)
(* it set again, or one that overtook.                                     *)
(***************************************************************************)

HasRun == {v \in VMs : pc[v] \in {"up", "exited", "deregister", "gone"}}

LeaseInv == \A v \in VMs : ip[v] # Nil <=> v \in HasRun

\* A handler finds the VM whose guest asked, not another that was given its UUID
\* since: one whose guest has another address, or none yet.
NoStaleAsk ==
  \A h \in Handlers : LET v == active[asks[h].uuid]
                      IN  Fetch(h) /\ v # Nil => ip[v] = asks[h].from

\* The address that a handler adds is that of the VM it serves.
AskInv ==
  \A h \in Handlers :
    /\ pc[h] # "idle" => asks[h].from # Nil
    /\ asks[h].vm # Nil => ip[asks[h].vm] = asks[h].from

\* r sets no key but that of x, to the address of x.
Claim(r, x) ==
  \A n \in Names : r.key = Path(n) /\ r.value # Nil => Path(n) = Path(NameOf[x]) /\ r.value = ip[x]

ClaimInv ==
  /\ \A c \in Callers : \A i \in DOMAIN todo[c] : Claim(todo[c][i], Subject(c))
  /\ \A r \in late : \E x \in overtaken : Claim(r, x)

\* rmRecord removes the name with its first request.
RemovalInv ==
  \A v \in VMs : \A i \in DOMAIN todo[v] :
    /\ todo[v][i].op = "delete"
    /\ todo[v][i].value = Nil
    /\ todo[v][i].key = Path(NameOf[v]) => i = 1

\* The daemon has removed the name of v.
Cleared(v) == /\ pc[v] \in {"deregister", "gone"}
              /\ \A i \in DOMAIN todo[v] : todo[v][i].key # Path(NameOf[v])

Outlived(v) == /\ store[Path(NameOf[v])] = ip[v]
               /\ ~\E w \in VMs \ {v} : Path(NameOf[w]) = Path(NameOf[v]) /\ ip[w] = ip[v]

ClearedInv == \A v \in VMs \ overtaken : Cleared(v) => ~Outlived(v)

\* An address is given once.
LEMMA LeaseStep ==
  ASSUME TypeOK, LeaseInv, [Next]_vars
  PROVE  LeaseInv' /\ \A v \in VMs : ip[v] # Nil => ip'[v] = ip[v]
<1>1. ASSUME NEW v \in VMs, VM(v)
      PROVE  LeaseInv' /\ \A w \in VMs : ip[w] # Nil => ip'[w] = ip[w]
  <2>0. v \in Callers /\ UUIDOf[v] \in UUIDs
    BY NamesConstants
  <2>1. \A w \in VMs : w # v => pc'[w] = pc[w] /\ ip'[w] = ip[w]
    BY <1>1, <2>0, NamesConstants
       DEF VM, Lookup, Register, Boot, CallBack, Exit, Deregister, Deregistered, Goto, TypeOK
  <2>2. CASE Boot(v)
    <3>1. PICK a \in Offers[UUIDOf[v]] : ip' = [ip EXCEPT ![v] = a]
      BY <2>2 DEF Boot
    <3>2. a # Nil
      BY <2>0, <3>1, NamesConstants, RecordConstants
    <3>3. ip[v] = Nil /\ ip'[v] # Nil /\ pc'[v] = "up"
      BY <2>0, <2>2, <3>1, <3>2 DEF Boot, Goto, TypeOK, LeaseInv, HasRun
    <3> QED BY <2>1, <3>3 DEF LeaseInv, HasRun
  <2>3. CASE ~Boot(v)
    <3>1. UNCHANGED ip /\ (v \in HasRun' <=> v \in HasRun)
      BY <1>1, <2>0, <2>3
         DEF VM, Lookup, Register, CallBack, Exit, Deregister, Deregistered, Goto, TypeOK, HasRun
    <3> QED BY <2>1, <3>1 DEF LeaseInv, HasRun
  <2> QED BY <2>2, <2>3
<1>2. ASSUME NEW h \in Handlers, Handler(h)
      PROVE  LeaseInv' /\ \A w \in VMs : ip[w] # Nil => ip'[w] = ip[w]
  <2>1. \A v \in VMs : pc'[v] = pc[v]
    BY <1>2, NamesConstants, ZenonT(30) DEF Handler, Accept, Fetch, Render, Return, Goto, TypeOK
  <2>2. UNCHANGED ip
    BY <1>2 DEF Handler, Accept, Fetch, Render, Return
  <2> QED BY <2>1, <2>2 DEF LeaseInv, HasRun
<1>3. CASE UNCHANGED daemonVars
  BY <1>3 DEF daemonVars, LeaseInv, HasRun
<1> QED BY <1>1, <1>2, <1>3 DEF Next, Reply, GiveUp, LateReply, vars

LEMMA AskStep ==
  ASSUME TypeOK, LeaseInv, AskInv, [Next]_vars, [NoStaleAsk]_vars
  PROVE  AskInv'
<1>0. \A v \in VMs : ip[v] # Nil => ip'[v] = ip[v]
  BY LeaseStep
<1>1. ASSUME NEW h \in Handlers, pc'[h] = pc[h], asks'[h] = asks[h]
      PROVE  /\ pc'[h] # "idle" => asks'[h].from # Nil
             /\ asks'[h].vm # Nil => ip'[asks'[h].vm] = asks'[h].from
  <2>1. asks[h].vm # Nil => asks[h].vm \in VMs /\ pc[h] # "idle"
    BY DEF TypeOK, AsksOK
  <2> QED BY <1>0, <1>1, <2>1 DEF AskInv
<1>2. ASSUME NEW h \in Handlers, Handler(h), NoStaleAsk PROVE AskInv'
  <2>0. h \in Callers /\ h \notin VMs /\ asks[h] \in Ask
    BY NamesConstants DEF TypeOK, Ask
  <2>1. \A g \in Handlers : g # h => pc'[g] = pc[g] /\ asks'[g] = asks[g]
    BY <1>2, <2>0, NamesConstants DEF Handler, Accept, Fetch, Render, Return, Goto, TypeOK
  <2>2. UNCHANGED ip
    BY <1>2 DEF Handler, Accept, Fetch, Render, Return
  <2>3. /\ pc'[h] # "idle" => asks'[h].from # Nil
        /\ asks'[h].vm # Nil => ip'[asks'[h].vm] = asks'[h].from
    <3>1. CASE Accept(h)
      <4>1. PICK v \in VMs : pc[v] = "up"
                             /\ asks' = [asks EXCEPT ![h] = [NoAsk EXCEPT !.uuid = UUIDOf[v], !.from = ip[v]]]
        BY <3>1 DEF Accept
      <4>2. asks'[h] = [uuid |-> UUIDOf[v], from |-> ip[v], vm |-> Nil]
        BY <4>1 DEF TypeOK, NoAsk
      <4>3. ip[v] # Nil
        BY <4>1 DEF LeaseInv, HasRun
      <4> QED BY <4>2, <4>3
    <3>2. CASE Fetch(h)
      <4>1. pc[h] = "accepted" /\ asks[h].from # Nil
        BY <3>2 DEF Fetch, Goto, AskInv
      <4>2. CASE active[asks[h].uuid] = Nil
        BY <2>0, <3>2, <4>2 DEF Fetch, Goto, TypeOK, NoAsk
      <4>3. CASE active[asks[h].uuid] # Nil
        <5>1. asks'[h] = [asks[h] EXCEPT !.vm = active[asks[h].uuid]]
          BY <3>2, <4>3 DEF Fetch, TypeOK
        <5>2. asks'[h].vm = active[asks[h].uuid] /\ asks'[h].from = asks[h].from
          BY <2>0, <5>1 DEF Ask
        <5>3. ip[active[asks[h].uuid]] = asks[h].from
          BY <1>2, <3>2, <4>3 DEF NoStaleAsk
        <5> QED BY <2>2, <4>1, <5>2, <5>3
      <4> QED BY <4>2, <4>3
    <3>3. CASE Render(h) \/ Return(h)
      <4>1. \/ asks'[h] = asks[h] /\ pc[h] # "idle"
            \/ asks'[h] = NoAsk /\ pc'[h] = "idle"
        BY <2>0, <3>3 DEF Render, Return, Goto, TypeOK
      <4> QED BY <2>2, <4>1 DEF AskInv, NoAsk
    <3> QED BY <1>2, <3>1, <3>2, <3>3 DEF Handler
  <2> QED BY <1>1, <2>1, <2>3 DEF AskInv
<1>3. ASSUME NEW v \in VMs, VM(v) PROVE AskInv'
  <2>1. \A h \in Handlers : pc'[h] = pc[h] /\ asks'[h] = asks[h]
    BY <1>3, NamesConstants
       DEF VM, Lookup, Register, Boot, CallBack, Exit, Deregister, Deregistered, Goto, TypeOK
  <2> QED BY <1>1, <2>1 DEF AskInv
<1>4. CASE UNCHANGED daemonVars
  BY <1>1, <1>4 DEF daemonVars, AskInv
<1>5. CASE UNCHANGED vars
  BY <1>4, <1>5 DEF vars
<1> QED BY <1>2, <1>3, <1>4, <1>5 DEF Next, Reply, GiveUp, LateReply

LEMMA ClaimStep ==
  ASSUME TypeOK, LeaseInv, AskInv, ClaimInv, [Next]_vars
  PROVE  ClaimInv'
<1>0. /\ todo \in [Callers -> Seq(Request)]
      /\ \A c \in Callers : c \in VMs \/ (c \in Handlers /\ c \notin VMs)
      /\ overtaken \subseteq VMs
  BY NamesConstants DEF TypeOK, RecordsTypeOK
<1>1. ASSUME NEW r, NEW x \in VMs, Claim(r, x) PROVE Claim(r, x)'
  BY <1>1, LeaseStep DEF Claim, LeaseInv
<1>2. ASSUME UNCHANGED <<todo, late, overtaken>>,
             \A h \in Handlers : todo[h] # <<>> => asks'[h] = asks[h]
      PROVE  ClaimInv'
  <2>1. ASSUME NEW c \in Callers, NEW i \in DOMAIN todo'[c] PROVE Claim(todo[c][i], Subject(c))'
    <3>1. todo'[c] = todo[c] /\ todo[c] # <<>>
      BY <1>2, <2>1, <1>0
    <3>2. Subject(c)' = Subject(c)
      BY <1>0, <1>2, <3>1 DEF Subject
    <3>3. Subject(c) \in VMs
      BY <3>1, SubjectIsVM DEF Pending
    <3> QED BY <1>1, <2>1, <3>1, <3>2, <3>3 DEF ClaimInv
  <2>2. \A r \in late : \E x \in overtaken : Claim(r, x)'
    BY <1>0, <1>1 DEF ClaimInv
  <2> QED BY <1>2, <2>1, <2>2 DEF ClaimInv
<1>3. ASSUME NEW c \in Callers, NEW l \in Seq(Request), todo' = [todo EXCEPT ![c] = l],
             UNCHANGED <<late, overtaken, asks, ip>>,
             \A i \in DOMAIN l : Claim(l[i], Subject(c))
      PROVE  ClaimInv'
  <2>1. \A b \in Callers : b # c => todo'[b] = todo[b]
    BY <1>0, <1>3
  <2>2. todo'[c] = l
    BY <1>0, <1>3
  <2>3. \A b \in Callers : Subject(b)' = Subject(b)
    BY <1>3 DEF Subject
  <2>4. \A r, x : Claim(r, x)' <=> Claim(r, x)
    BY <1>3 DEF Claim
  <2> QED BY <1>3, <2>1, <2>2, <2>3, <2>4 DEF ClaimInv
<1>4. ASSUME NEW v \in VMs, VM(v) PROVE ClaimInv'
  <2>1. CASE Deregister(v)
    <3> DEFINE l == rmRecord(NameOf[v], publicIP[v])
    <3>1. v \in Callers /\ l \in Seq(Request)
      BY NamesConstants, RequestTypes DEF TypeOK, Guests
    <3>2. \A i \in DOMAIN l : Claim(l[i], Subject(v))
      BY DEF rmRecord, Delete, Claim
    <3>3. /\ todo' = [todo EXCEPT ![v] = l]
          /\ UNCHANGED <<late, overtaken, asks, ip>>
      BY <2>1 DEF Deregister
    <3> HIDE DEF l
    <3> QED BY <1>3, <3>1, <3>2, <3>3
  <2>2. CASE ~Deregister(v)
    <3>1. UNCHANGED <<todo, late, overtaken, asks>>
      BY <1>4, <2>2 DEF VM, Lookup, Register, Boot, CallBack, Exit, Deregistered, recordVars
    <3> QED BY <1>2, <3>1
  <2> QED BY <2>1, <2>2
<1>5. ASSUME NEW h \in Handlers, Handler(h) PROVE ClaimInv'
  <2>0. h \in Callers /\ h \notin VMs
    BY NamesConstants
  <2> DEFINE w == asks[h].vm
             l == addRecord(NameOf[w], asks[h].from)
  <2>1. CASE Goto(h, "fetched", "adding") /\ todo' = [todo EXCEPT ![h] = l]
             /\ UNCHANGED <<late, overtaken, asks, ip>>
    <3>1. pc[h] = "fetched" /\ w \in VMs /\ NameOf[w] \in Names
      BY <2>0, <2>1, NamesConstants DEF Goto, TypeOK, AsksOK
    <3>2. ip[w] = asks[h].from /\ ip[w] # Nil /\ ip[w] \in Addresses
      BY <3>1, NamesConstants DEF AskInv, TypeOK, Guests
    <3>3. l \in Seq(Request)
      BY <3>1, <3>2, RequestTypes
    <3>4. Claim(Set(Path(NameOf[w]), ip[w]), w)
      BY DEF Claim, Set
    <3>5. Claim(Set(Reverse(ip[w]), NameOf[w]), w)
      BY PathIsNotReverse DEF Claim, Set
    <3>6. \A i \in DOMAIN l : Claim(l[i], w)
      BY <3>2, <3>4, <3>5 DEF addRecord
    <3>7. Subject(h) = w
      BY <2>0 DEF Subject
    <3> HIDE DEF l, w
    <3> QED BY <1>3, <2>0, <2>1, <3>3, <3>6, <3>7
  <2>2. CASE UNCHANGED <<todo, late, overtaken>> /\ ~Pending(h)
    <3>1. \A g \in Handlers : g # h => asks'[g] = asks[g]
      BY <1>5 DEF Handler, Accept, Fetch, Render, Return, TypeOK
    <3> QED BY <1>2, <2>2, <3>1 DEF Pending
  <2>3. \/ Goto(h, "fetched", "adding") /\ todo' = [todo EXCEPT ![h] = l]
           /\ UNCHANGED <<late, overtaken, asks, ip>>
        \/ UNCHANGED <<todo, late, overtaken>> /\ (pc[h] # "adding" \/ ~Pending(h))
    BY <1>5 DEF Handler, Accept, Fetch, Render, Return, recordVars, Goto
  <2>4. pc[h] # "adding" => ~Pending(h)
    BY DEF TypeOK, AsksOK
  <2> QED BY <2>1, <2>2, <2>3, <2>4
<1>6. ASSUME NEW c \in Callers, Reply(c) \/ GiveUp(c) PROVE ClaimInv'
  <2>0. UNCHANGED <<asks, ip>>
    BY <1>6 DEF Reply, GiveUp, daemonVars
  <2>1. todo[c] \in Seq(Request) /\ todo[c] # <<>> /\ Subject(c) \in VMs
    BY <1>0, <1>6, RequestStep, SubjectIsVM DEF Reply, GiveUp, Failed, Pending
  <2>2. todo' = [todo EXCEPT ![c] = Tail(todo[c])] \/ todo' = [todo EXCEPT ![c] = <<>>]
    BY <1>6 DEF Reply, GiveUp, Answered, Refused, TimedOut
  <2>3. \A b \in Callers : b # c => todo'[b] = todo[b]
    BY <1>0, <2>2
  <2>4. \A i \in DOMAIN todo'[c] : \E j \in DOMAIN todo[c] : todo'[c][i] = todo[c][j]
    <3>1. CASE todo'[c] = <<>>
      BY <3>1
    <3>2. CASE todo'[c] = Tail(todo[c])
      <4>1. \A i \in DOMAIN Tail(todo[c]) : i + 1 \in DOMAIN todo[c] /\ Tail(todo[c])[i] = todo[c][i + 1]
        BY <2>1
      <4> QED BY <3>2, <4>1
    <3> QED BY <1>0, <2>2, <3>1, <3>2
  <2>5. \A b \in Callers : Subject(b)' = Subject(b)
    BY <2>0 DEF Subject
  <2>6. \A r, x : Claim(r, x)' <=> Claim(r, x)
    BY <2>0 DEF Claim
  <2>7. overtaken \subseteq overtaken'
    BY <1>6 DEF Reply, GiveUp
  <2>8. \A r \in late' : \E x \in overtaken' : Claim(r, x)
    <3>1. \/ late' = late
          \/ late' = late \cup {Head(todo[c])} /\ Subject(c) \in overtaken'
      BY <1>6 DEF Reply, GiveUp, Answered, Refused, TimedOut
    <3>2. Head(todo[c]) = todo[c][1] /\ 1 \in DOMAIN todo[c]
      BY <2>1
    <3>3. Claim(Head(todo[c]), Subject(c))
      BY <3>2 DEF ClaimInv
    <3> QED BY <2>7, <3>1, <3>3 DEF ClaimInv
  <2>9. \A b \in Callers : \A i \in DOMAIN todo'[b] : Claim(todo'[b][i], Subject(b))
    BY <2>3, <2>4 DEF ClaimInv
  <2> QED BY <2>5, <2>6, <2>8, <2>9 DEF ClaimInv
<1>7. CASE LateReply
  <2>1. UNCHANGED <<asks, ip, todo, overtaken>> /\ late' \subseteq late
    BY <1>7 DEF LateReply, LateApplied, daemonVars
  <2>2. \A b \in Callers : Subject(b)' = Subject(b)
    BY <2>1 DEF Subject
  <2>3. \A r, x : Claim(r, x)' <=> Claim(r, x)
    BY <2>1 DEF Claim
  <2> QED BY <2>1, <2>2, <2>3 DEF ClaimInv
<1>8. CASE UNCHANGED vars
  BY <1>2, <1>8 DEF vars, recordVars, daemonVars
<1> QED BY <1>4, <1>5, <1>6, <1>7, <1>8 DEF Next

LEMMA RemovalStep ==
  ASSUME TypeOK, RemovalInv, [Next]_vars
  PROVE  RemovalInv'
<1>0. todo \in [Callers -> Seq(Request)] /\ VMs \subseteq Callers /\ VMs \cap Handlers = {}
  BY NamesConstants DEF TypeOK, RecordsTypeOK
<1>1. CASE \A v \in VMs : todo'[v] = todo[v]
  BY <1>1 DEF RemovalInv
<1>2. ASSUME NEW v \in VMs, Deregister(v) PROVE RemovalInv'
  <2> DEFINE l == rmRecord(NameOf[v], publicIP[v])
  <2>1. NameOf[v] \in Names
    BY NamesConstants
  <2>2. Reverse(publicIP[v]) # Path(NameOf[v])
    BY <2>1, PathIsNotReverse
  <2>3. \A i \in DOMAIN l : l[i].op = "delete" /\ l[i].value = Nil /\ (l[i].key = Path(NameOf[v]) => i = 1)
    BY <2>2 DEF rmRecord, Delete
  <2>4. todo' = [todo EXCEPT ![v] = l]
    BY <1>2 DEF Deregister
  <2> HIDE DEF l
  <2> QED BY <1>0, <2>3, <2>4 DEF RemovalInv
<1>3. ASSUME NEW c \in Callers, Reply(c) \/ GiveUp(c) PROVE RemovalInv'
  <2>1. todo[c] \in Seq(Request) /\ todo[c] # <<>>
    BY <1>0, <1>3, RequestStep DEF Reply, GiveUp, Failed, Pending
  <2>2. todo' = [todo EXCEPT ![c] = Tail(todo[c])] \/ todo' = [todo EXCEPT ![c] = <<>>]
    BY <1>3 DEF Reply, GiveUp, Answered, Refused, TimedOut
  <2>3. \A b \in Callers : b # c => todo'[b] = todo[b]
    BY <1>0, <2>2
  <2>4. todo'[c] = Tail(todo[c]) \/ todo'[c] = <<>>
    BY <1>0, <2>2
  <2>5. \A i \in DOMAIN Tail(todo[c]) : i + 1 \in DOMAIN todo[c] /\ Tail(todo[c])[i] = todo[c][i + 1] /\ i + 1 # 1
    BY <2>1
  <2>6. ASSUME c \in VMs, NEW i \in DOMAIN todo'[c]
        PROVE  /\ todo'[c][i].op = "delete"
               /\ todo'[c][i].value = Nil
               /\ todo'[c][i].key = Path(NameOf[c]) => i = 1
    <3>1. todo'[c] = Tail(todo[c])
      BY <2>4, <2>6
    <3> QED BY <2>5, <2>6, <3>1 DEF RemovalInv
  <2> QED BY <2>3, <2>6, <1>0 DEF RemovalInv
<1>4. ASSUME NEW v \in VMs, VM(v) PROVE RemovalInv'
  BY <1>1, <1>2, <1>4
     DEF VM, Lookup, Register, Boot, CallBack, Exit, Deregistered, recordVars
<1>5. ASSUME NEW h \in Handlers, Handler(h) PROVE RemovalInv'
  <2>1. todo' = todo \/ \E l : todo' = [todo EXCEPT ![h] = l]
    BY <1>5 DEF Handler, Accept, Fetch, Render, Return, recordVars
  <2> QED BY <1>0, <1>1, <2>1
<1>6. CASE LateReply
  BY <1>1, <1>6 DEF LateReply, LateApplied
<1> QED BY <1>1, <1>3, <1>4, <1>5, <1>6 DEF Next, vars, recordVars

\* Only a request of that value sets a record.
LEMMA SetsTheValue ==
  ASSUME NEW r \in Request, NEW k \in Keys, Applied(r)[k] # store[k],
         Applied(r)[k] \notin {Nil, Dir}
  PROVE  r.key = k /\ r.value = Applied(r)[k]
BY DEF Applied

LEMMA ClearedStep ==
  ASSUME TypeOK, LeaseInv, ClaimInv, RemovalInv, ClearedInv, [Next]_vars
  PROVE  ClearedInv'
<1> SUFFICES ASSUME NEW v \in VMs, v \notin overtaken', Cleared(v)', Outlived(v)'
             PROVE  FALSE
  BY DEF ClearedInv
<1> DEFINE k == Path(NameOf[v])
<1>0. /\ v \in Callers /\ NameOf[v] \in Names /\ k \in Keys
      /\ todo \in [Callers -> Seq(Request)]
  BY NamesConstants, LeavesAreKeys DEF TypeOK, RecordsTypeOK
<1>1. overtaken \subseteq overtaken'
  BY DEF Next, VM, Lookup, Register, Boot, CallBack, Exit, Deregister, Deregistered, Handler,
         Accept, Fetch, Render, Return, Reply, GiveUp, LateReply, vars
<1>2. v \notin overtaken
  BY <1>1
<1>3. pc[v] \in {"deregister", "gone"} \/ (pc[v] = "exited" /\ Deregister(v))
  <2>1. pc'[v] \in {"deregister", "gone"}
    BY DEF Cleared
  <2>2. CASE pc'[v] = pc[v]
    BY <2>1, <2>2
  <2>3. CASE pc'[v] # pc[v]
    <3>1. ASSUME NEW w \in VMs, VM(w) PROVE w = v
      BY <1>0, <2>3, <3>1, NamesConstants
         DEF VM, Lookup, Register, Boot, CallBack, Exit, Deregister, Deregistered, Goto, TypeOK
    <3>2. ASSUME NEW h \in Handlers, Handler(h) PROVE FALSE
      BY <1>0, <2>3, <3>2, NamesConstants DEF Handler, Accept, Fetch, Render, Return, Goto, TypeOK
    <3>3. VM(v)
      BY <2>3, <3>1, <3>2 DEF Next, Reply, GiveUp, LateReply, daemonVars, vars
    <3> QED
      BY <1>0, <2>1, <3>3
         DEF VM, Lookup, Register, Boot, CallBack, Exit, Deregister, Deregistered, Goto, TypeOK
  <2> QED BY <2>2, <2>3
<1>4. ip[v] # Nil /\ ip[v] \in Addresses /\ ip'[v] = ip[v]
  BY <1>3, LeaseStep DEF LeaseInv, HasRun, TypeOK, Guests
<1>5. \A w \in VMs : Path(NameOf[w]) = k /\ ip[w] = ip[v] => w = v
  BY <1>4, LeaseStep DEF Outlived
<1>6. store'[k] = ip[v] /\ ip[v] \notin {Nil, Dir}
  BY <1>4, RecordConstants DEF Outlived
<1>7. ASSUME Cleared(v) PROVE FALSE
  <2>1. store[k] # ip[v]
    BY <1>2, <1>5, <1>7 DEF ClearedInv, Outlived
  <2>2. ASSUME NEW r \in Request, store' = Applied(r), NEW x \in VMs, Claim(r, x)
        PROVE  r.value = ip[v] /\ x = v
    <3>1. r.key = k /\ r.value = ip[v]
      BY <1>0, <1>6, <2>1, <2>2, SetsTheValue
    <3>2. Path(NameOf[x]) = k /\ r.value = ip[x]
      BY <1>0, <1>4, <2>2, <3>1 DEF Claim
    <3> QED BY <1>5, <3>1, <3>2
  <2>3. ASSUME NEW c \in Callers, Reply(c), store' = Applied(Head(todo[c])) PROVE FALSE
    <3>1. Pending(c) /\ todo[c] \in Seq(Request) /\ todo[c] # <<>>
      BY <1>0, <2>3 DEF Reply, Answered, Pending
    <3>2. Head(todo[c]) \in Request /\ Head(todo[c]) = todo[c][1] /\ 1 \in DOMAIN todo[c]
      BY <3>1
    <3>3. Subject(c) \in VMs
      BY <3>1, SubjectIsVM
    <3>4. Claim(Head(todo[c]), Subject(c))
      BY <3>2 DEF ClaimInv
    <3>5. Head(todo[c]).value = ip[v] /\ Subject(c) = v
      BY <2>2, <2>3, <3>2, <3>3, <3>4
    <3>6. CASE c \in VMs
      <4>1. c = v
        BY <3>5, <3>6 DEF Subject
      <4>2. todo[v][1].value = Nil
        BY <3>2, <4>1 DEF RemovalInv
      <4> QED BY <1>4, <3>2, <3>5, <4>1, <4>2
    <3>7. CASE c \in Handlers
      BY <1>7, <2>3, <3>5, <3>7 DEF Reply, Leaving, Cleared
    <3> QED BY <3>6, <3>7, NamesConstants
  <2>4. ASSUME NEW r \in late, store' = Applied(r) PROVE FALSE
    <3>1. PICK x \in overtaken : Claim(r, x)
      BY DEF ClaimInv
    <3>2. r \in Request /\ x \in VMs
      BY DEF TypeOK, RecordsTypeOK
    <3> QED BY <1>2, <2>2, <2>4, <3>1, <3>2
  <2> QED BY <1>6, <2>1, <2>3, <2>4, StoreStep
<1>8. ASSUME Deregister(v) PROVE FALSE
  <2>1. todo'[v] = rmRecord(NameOf[v], publicIP[v])
    BY <1>0, <1>8 DEF Deregister
  <2>2. 1 \in DOMAIN todo'[v] /\ todo'[v][1].key = k
    BY <2>1 DEF rmRecord, Delete
  <2> QED BY <2>2 DEF Cleared
<1>9. ASSUME pc[v] \in {"deregister", "gone"}, ~Cleared(v) PROVE FALSE
  <2>1. PICK i \in DOMAIN todo[v] : todo[v][i].key = k
    BY <1>9 DEF Cleared
  <2>2. i = 1 /\ todo[v][1].op = "delete" /\ todo[v][1].value = Nil
    BY <2>1 DEF RemovalInv
  <2>3. todo[v] \in Seq(Request) /\ Head(todo[v]) = todo[v][1]
    BY <1>0, <2>1, <2>2
  <2> DEFINE r == Head(todo[v])
  <2>4. r.op = "delete" /\ r.key = k /\ r.value = Nil
    BY <2>1, <2>2, <2>3
  <2>5. todo'[v] # todo[v]
    BY <2>1 DEF Cleared
  <2>6. Reply(v) \/ GiveUp(v)
    <3>1. ASSUME NEW c \in Callers, Reply(c) \/ GiveUp(c) PROVE c = v
      BY <1>0, <2>5, <3>1 DEF Reply, GiveUp, Answered, Refused, TimedOut
    <3>2. ASSUME NEW w \in VMs, VM(w) PROVE FALSE
      <4>1. Deregister(w)
        BY <2>5, <3>2 DEF VM, Lookup, Register, Boot, CallBack, Exit, Deregistered, recordVars
      <4>2. w = v
        BY <1>0, <2>5, <4>1, NamesConstants DEF Deregister
      <4> QED BY <1>8, <4>1, <4>2
    <3>3. ASSUME NEW h \in Handlers, Handler(h) PROVE FALSE
      <4>1. todo' = todo \/ \E l : todo' = [todo EXCEPT ![h] = l]
        BY <3>3 DEF Handler, Accept, Fetch, Render, Return, recordVars
      <4> QED BY <1>0, <2>5, <4>1, NamesConstants
    <3>4. ~LateReply /\ ~UNCHANGED vars
      BY <2>5 DEF LateReply, LateApplied, vars, recordVars
    <3> QED BY <3>1, <3>2, <3>3, <3>4 DEF Next
  <2> HIDE DEF r
  <2>7. CASE Reply(v)
    <3>1. store' = Applied(r)
      BY <2>7 DEF Reply, Answered, r
    <3>2. store'[k] = Nil
      BY <1>0, <2>4, <3>1 DEF Applied
    <3> QED BY <1>6, <3>2
  <2>8. CASE GiveUp(v)
    <3>1. CASE Refused(v)
      <4>1. ~Accepts(r) /\ store' = store
        BY <3>1 DEF Refused, r
      <4>2. store[k] \in {Nil, Dir}
        BY <2>4, <4>1 DEF Accepts, IsFile
      <4> QED BY <1>6, <4>1, <4>2
    <3>2. CASE TimedOut(v) /\ overtaken' = overtaken \cup {Subject(v)}
      BY <3>2 DEF Subject
    <3> QED BY <2>8, <3>1, <3>2 DEF GiveUp
  <2> QED BY <2>6, <2>7, <2>8
<1> QED BY <1>3, <1>7, <1>8, <1>9

StaleInv == TypeOK /\ LeaseInv /\ AskInv /\ ClaimInv /\ RemovalInv /\ ClearedInv

\* As long as no handler met the successor of the VM whose guest asked, and for
\* any names, UUIDs, handlers and delays: a name that leads to a guest which is
\* gone was set by a handler that deregister overtook or is there for want of an
\* answer from etcd.  rmRecord removes it first, and no refusal of etcd can keep it.
THEOREM NamesEnd == Spec /\ [][NoStaleAsk]_vars => []StaleOnlyIfOvertaken
<1>1. Init => StaleInv
  <2> SUFFICES ASSUME Init PROVE StaleInv
    OBVIOUS
  <2>1. LeaseInv
    BY NamesConstants DEF Init, LeaseInv, HasRun
  <2>2. AskInv
    BY NamesConstants DEF Init, AskInv, NoAsk
  <2>3. ClaimInv /\ RemovalInv
    BY NamesConstants DEF Init, ClaimInv, RemovalInv
  <2>4. ClearedInv
    BY NamesConstants DEF Init, ClearedInv, Cleared
  <2> QED BY <2>1, <2>2, <2>3, <2>4, InitTypeOK DEF StaleInv
<1>2. StaleInv /\ [Next]_vars /\ [NoStaleAsk]_vars => StaleInv'
  BY TypeStep, LeaseStep, AskStep, ClaimStep, RemovalStep, ClearedStep DEF StaleInv
<1>3. StaleInv => StaleOnlyIfOvertaken
  <2> SUFFICES ASSUME StaleInv, NEW v \in VMs \ overtaken, pc[v] = "gone"
               PROVE  ~Outlived(v)
    BY DEF StaleOnlyIfOvertaken, Outlived
  <2>1. ~Pending(v)
    BY DEF StaleInv, TypeOK, MutexOK
  <2>2. Cleared(v)
    BY <2>1 DEF Cleared, Pending
  <2> QED BY <2>2 DEF StaleInv, ClearedInv
<1> QED BY <1>1, <1>2, <1>3, PTL DEF Spec

-----------------------------------------------------------------------------
(***************************************************************************)
(* Where no UUID is used twice, both hypotheses hold by themselves.        *)
(***************************************************************************)

EntryUUIDInv == \A u \in UUIDs : active[u] # Nil => UUIDOf[active[u]] = u

\* Who is in the map has registered, and is not gone.
PresentInv ==
  \A u \in UUIDs : active[u] # Nil => pc[active[u]] \in {"registered", "up", "exited", "deregister"}

\* The address from which a handler was asked is that of the VM with the UUID.
OwnAskInv ==
  \A h \in Handlers : pc[h] # "idle" =>
    \A v \in VMs : UUIDOf[v] = asks[h].uuid => ip[v] = asks[h].from /\ ip[v] # Nil

LEMMA EntryUUIDStep ==
  ASSUME TypeOK, EntryUUIDInv, [Next]_vars
  PROVE  EntryUUIDInv'
<1> USE NamesConstants DEF EntryUUIDInv, TypeOK
<1>1. ASSUME NEW v \in VMs, Register(v) \/ Deregistered(v) PROVE EntryUUIDInv'
  BY <1>1 DEF Register, Deregistered
<1>2. CASE UNCHANGED active
  BY <1>2
<1> QED BY <1>1, <1>2
        DEF Next, VM, Lookup, Boot, CallBack, Exit, Deregister, Handler, Accept, Fetch, Render,
            Return, Reply, GiveUp, LateReply, daemonVars, vars

LEMMA PresentStep ==
  ASSUME TypeOK, EntryUUIDInv, PresentInv, [Next]_vars
  PROVE  PresentInv'
<1>1. ASSUME NEW v \in VMs, VM(v) PROVE PresentInv'
  <2>0. v \in Callers /\ UUIDOf[v] \in UUIDs /\ v # Nil
    BY NamesConstants
  <2>1. \A w \in VMs : w # v => pc'[w] = pc[w]
    BY <1>1, <2>0, NamesConstants
       DEF VM, Lookup, Register, Boot, CallBack, Exit, Deregister, Deregistered, Goto, TypeOK
  <2>2. CASE Register(v)
    BY <2>0, <2>1, <2>2 DEF Register, Goto, TypeOK, PresentInv
  <2>3. CASE Deregistered(v)
    <3>1. \A u \in UUIDs : active'[u] # Nil => active'[u] = active[u] /\ active[u] # v
      BY <2>0, <2>3 DEF Deregistered, TypeOK, EntryUUIDInv
    <3> QED BY <2>1, <3>1 DEF PresentInv, TypeOK
  <2>4. CASE Lookup(v) \/ Boot(v) \/ CallBack(v) \/ Exit(v) \/ Deregister(v)
    <3>1. UNCHANGED active
      BY <2>4 DEF Lookup, Boot, CallBack, Exit, Deregister
    <3>2. pc[v] \in {"registered", "up", "exited", "deregister"}
            => pc'[v] \in {"registered", "up", "exited", "deregister"}
      BY <2>0, <2>4 DEF Lookup, Boot, CallBack, Exit, Deregister, Goto, TypeOK
    <3> QED BY <2>1, <3>1, <3>2 DEF PresentInv, TypeOK
  <2> QED BY <1>1, <2>2, <2>3, <2>4 DEF VM
<1>2. ASSUME NEW h \in Handlers, Handler(h) PROVE PresentInv'
  <2>1. \A v \in VMs : pc'[v] = pc[v]
    BY <1>2, NamesConstants DEF Handler, Accept, Fetch, Render, Return, Goto, TypeOK
  <2>2. UNCHANGED active
    BY <1>2 DEF Handler, Accept, Fetch, Render, Return
  <2> QED BY <2>1, <2>2 DEF PresentInv, TypeOK
<1>3. CASE UNCHANGED daemonVars
  BY <1>3 DEF daemonVars, PresentInv
<1> QED BY <1>1, <1>2, <1>3 DEF Next, Reply, GiveUp, LateReply, vars

LEMMA OwnAskStep ==
  ASSUME UUIDsDiffer, TypeOK, LeaseInv, OwnAskInv, [Next]_vars
  PROVE  OwnAskInv'
<1>0. \A v \in VMs : ip[v] # Nil => ip'[v] = ip[v]
  BY LeaseStep
<1>1. ASSUME NEW h \in Handlers, pc[h] # "idle", asks'[h].uuid = asks[h].uuid,
             asks'[h].from = asks[h].from, NEW v \in VMs, UUIDOf[v] = asks'[h].uuid
      PROVE  ip'[v] = asks'[h].from /\ ip'[v] # Nil
  BY <1>0, <1>1 DEF OwnAskInv
<1>2. ASSUME NEW h \in Handlers, Handler(h) PROVE OwnAskInv'
  <2>0. h \in Callers /\ h \notin VMs /\ asks[h] \in Ask
    BY NamesConstants DEF TypeOK, Ask
  <2>1. \A g \in Handlers : g # h => pc'[g] = pc[g] /\ asks'[g] = asks[g]
    BY <1>2, <2>0, NamesConstants DEF Handler, Accept, Fetch, Render, Return, Goto, TypeOK
  <2>2. CASE Accept(h)
    <3>1. PICK v \in VMs : pc[v] = "up"
                           /\ asks' = [asks EXCEPT ![h] = [NoAsk EXCEPT !.uuid = UUIDOf[v], !.from = ip[v]]]
      BY <2>2 DEF Accept
    <3>2. asks'[h] = [uuid |-> UUIDOf[v], from |-> ip[v], vm |-> Nil]
      BY <3>1 DEF TypeOK, NoAsk
    <3>3. ip'[v] = ip[v] /\ ip[v] # Nil
      BY <1>0, <3>1 DEF LeaseInv, HasRun
    <3> QED BY <1>1, <2>1, <3>2, <3>3 DEF OwnAskInv, UUIDsDiffer
  <2>3. CASE Fetch(h) \/ Render(h) \/ Return(h)
    <3>1. \/ pc'[h] = "idle"
          \/ pc[h] # "idle" /\ asks'[h].uuid = asks[h].uuid /\ asks'[h].from = asks[h].from
      BY <2>0, <2>3 DEF Fetch, Render, Return, Goto, TypeOK, Ask
    <3> QED BY <1>1, <2>1, <3>1 DEF OwnAskInv
  <2> QED BY <1>2, <2>2, <2>3 DEF Handler
<1>3. ASSUME NEW v \in VMs, VM(v) PROVE OwnAskInv'
  <2>1. \A h \in Handlers : pc'[h] = pc[h] /\ asks'[h] = asks[h]
    BY <1>3, NamesConstants
       DEF VM, Lookup, Register, Boot, CallBack, Exit, Deregister, Deregistered, Goto, TypeOK
  <2> QED BY <1>1, <2>1 DEF OwnAskInv
<1>4. CASE UNCHANGED daemonVars
  BY <1>1, <1>4 DEF daemonVars, OwnAskInv
<1> QED BY <1>2, <1>3, <1>4 DEF Next, Reply, GiveUp, LateReply, vars

\* Where no UUID is used twice, no Run overwrites an entry and no handler meets
\* another VM than the one whose guest asked.
THEOREM UUIDsSuffice ==
  ASSUME UUIDsDiffer
  PROVE  Spec => [][NoOverwrite]_vars /\ [][NoStaleAsk]_vars
<1> DEFINE Inv == TypeOK /\ LeaseInv /\ EntryUUIDInv /\ PresentInv /\ OwnAskInv
<1>1. Init => Inv
  BY NamesConstants, InitTypeOK
     DEF Init, LeaseInv, HasRun, EntryUUIDInv, PresentInv, OwnAskInv
<1>2. Inv /\ [Next]_vars => Inv'
  BY TypeStep, LeaseStep, EntryUUIDStep, PresentStep, OwnAskStep
<1>3. Inv => NoOverwrite
  <2> SUFFICES ASSUME Inv, NEW v \in VMs, Register(v), active[UUIDOf[v]] # Nil PROVE FALSE
    BY DEF NoOverwrite, Overwrites
  <2>1. UUIDOf[v] \in UUIDs /\ v \in Callers
    BY NamesConstants
  <2>2. active[UUIDOf[v]] \in VMs /\ active[UUIDOf[v]] = v
    BY <2>1 DEF TypeOK, EntryUUIDInv, UUIDsDiffer
  <2>3. pc[v] \in {"registered", "up", "exited", "deregister"}
    BY <2>1, <2>2 DEF PresentInv
  <2> QED BY <2>3 DEF Register, Goto
<1>4. Inv => NoStaleAsk
  <2> SUFFICES ASSUME Inv, NEW h \in Handlers, Fetch(h), active[asks[h].uuid] # Nil
               PROVE  ip[active[asks[h].uuid]] = asks[h].from
    BY DEF NoStaleAsk
  <2>1. pc[h] = "accepted" /\ asks[h].uuid \in UUIDs
    BY DEF Fetch, Goto, TypeOK, AsksOK
  <2>2. active[asks[h].uuid] \in VMs /\ UUIDOf[active[asks[h].uuid]] = asks[h].uuid
    BY <2>1 DEF TypeOK, EntryUUIDInv
  <2> QED BY <2>1, <2>2 DEF OwnAskInv
<1> QED BY <1>1, <1>2, <1>3, <1>4, PTL DEF Spec
-----------------------------------------------------------------------------
(***************************************************************************)
(* Of a VM's life Names keeps what moves its records, and keeps it as      *)
(* VMService has it: Register lists the VM before Boot launches its guest, *)
(* Deregistered unlists it after Exit.  The answer of a Run that got past  *)
(* lookup is left out.                                                     *)
(***************************************************************************)

Phase == [v \in VMs |-> IF active[UUIDOf[v]] = v THEN "listed"
                        ELSE IF pc[v] = "gone" THEN "gone"
                        ELSE "absent"]

Hypervisor == [v \in VMs |-> IF pc[v] = "up" THEN "running"
                             ELSE IF pc[v] \in {"exited", "deregister", "gone"} THEN "ended"
                             ELSE "none"]

CalledBack == {v \in VMs : publicIP[v] # Nil}

Refusal == [v \in VMs |-> IF pc[v] = "refused" THEN "refused" ELSE "none"]

Service == INSTANCE VMService WITH
  phase <- Phase, hypervisor <- Hypervisor, booted <- CalledBack, answer <- Refusal

\* The address that Run stored is that of its guest.
CallInv == \A v \in VMs : publicIP[v] # Nil => publicIP[v] = ip[v]

LEMMA CallStep ==
  ASSUME TypeOK, LeaseInv, CallInv, [Next]_vars
  PROVE  CallInv'
<1>1. ASSUME NEW v \in VMs, VM(v) PROVE CallInv'
  <2>1. CASE CallBack(v)
    BY <2>1 DEF CallBack, CallInv, TypeOK
  <2>2. CASE ~CallBack(v)
    <3>1. UNCHANGED publicIP
      BY <1>1, <2>2 DEF VM, Lookup, Register, Boot, Exit, Deregister, Deregistered
    <3>2. \A w \in VMs : ip[w] # Nil => ip'[w] = ip[w]
      BY LeaseStep
    <3> QED BY <3>1, <3>2 DEF CallInv
  <2> QED BY <2>1, <2>2
<1>2. CASE UNCHANGED <<ip, publicIP>>
  BY <1>2 DEF CallInv
<1> QED BY <1>1, <1>2
        DEF Next, Handler, Accept, Fetch, Render, Return, Reply, GiveUp, LateReply, daemonVars, vars

ListInv == TypeOK /\ EntryInv /\ LeaseInv /\ EntryUUIDInv /\ PresentInv /\ CallInv

LEMMA StutterOfService ==
  ASSUME UNCHANGED <<active, pc, publicIP>>
  PROVE  UNCHANGED Service!vars
  BY DEF Service!vars, Phase, Hypervisor, CalledBack, Refusal

\* What a step of v alone does to the four values of every VM.
LEMMA PhaseOfOthers ==
  ASSUME ListInv, NEW v \in VMs, VM(v), NoOverwrite
  PROVE  /\ Phase' = [Phase EXCEPT ![v] = Phase'[v]]
         /\ Hypervisor' = [Hypervisor EXCEPT ![v] = Hypervisor'[v]]
         /\ Refusal' = [Refusal EXCEPT ![v] = Refusal'[v]]
         /\ Phase'[v] = Phase[v] => Phase' = Phase
         /\ Hypervisor'[v] = Hypervisor[v] => Hypervisor' = Hypervisor
         /\ Refusal'[v] = Refusal[v] => Refusal' = Refusal
<1>0. v \in Callers /\ UUIDOf[v] \in UUIDs /\ v # Nil
  BY NamesConstants
<1>1. \A w \in VMs : w # v => pc'[w] = pc[w]
  BY <1>0, NamesConstants
     DEF ListInv, VM, Lookup, Register, Boot, CallBack, Exit, Deregister, Deregistered, Goto, TypeOK
<1>2. ASSUME NEW w \in VMs, w # v PROVE active'[UUIDOf[w]] = w <=> active[UUIDOf[w]] = w
  <2>0. UUIDOf[w] \in UUIDs /\ w # Nil
    BY NamesConstants
  <2>1. CASE Register(v)
    <3>1. active[UUIDOf[v]] = Nil
      BY <2>1 DEF NoOverwrite, Overwrites
    <3> QED BY <1>0, <1>2, <2>0, <2>1, <3>1 DEF Register, ListInv, TypeOK
  <2>2. CASE Deregistered(v)
    <3>1. active[UUIDOf[v]] = v
      BY <2>2 DEF Deregistered, Goto, ListInv, EntryInv
    <3> QED BY <1>0, <1>2, <2>0, <2>2, <3>1 DEF Deregistered, ListInv, TypeOK
  <2> QED BY <2>1, <2>2 DEF VM, Lookup, Boot, CallBack, Exit, Deregister
<1>3. \A w \in VMs : w # v => /\ Phase'[w] = Phase[w]
                              /\ Hypervisor'[w] = Hypervisor[w]
                              /\ Refusal'[w] = Refusal[w]
  BY <1>1, <1>2 DEF Phase, Hypervisor, Refusal
<1>4. /\ Phase = [w \in VMs |-> Phase[w]] /\ Phase' = [w \in VMs |-> Phase'[w]]
      /\ Hypervisor = [w \in VMs |-> Hypervisor[w]] /\ Hypervisor' = [w \in VMs |-> Hypervisor'[w]]
      /\ Refusal = [w \in VMs |-> Refusal[w]] /\ Refusal' = [w \in VMs |-> Refusal'[w]]
  BY DEF Phase, Hypervisor, Refusal
<1>5. Phase' = [Phase EXCEPT ![v] = Phase'[v]] /\ (Phase'[v] = Phase[v] => Phase' = Phase)
  BY <1>3, <1>4
<1>6. /\ Hypervisor' = [Hypervisor EXCEPT ![v] = Hypervisor'[v]]
      /\ Hypervisor'[v] = Hypervisor[v] => Hypervisor' = Hypervisor
  BY <1>3, <1>4
<1>7. Refusal' = [Refusal EXCEPT ![v] = Refusal'[v]] /\ (Refusal'[v] = Refusal[v] => Refusal' = Refusal)
  BY <1>3, <1>4
<1> QED BY <1>5, <1>6, <1>7

LEMMA VMServes ==
  ASSUME ListInv, ListInv', NEW v \in VMs, VM(v), NoOverwrite
  PROVE  Service!Next \/ UNCHANGED Service!vars
<1>0. v \in Callers /\ UUIDOf[v] \in UUIDs /\ v # Nil
  BY NamesConstants
<1>1. CASE Lookup(v)
  <2>1. UNCHANGED <<active, publicIP>> /\ pc[v] = "new" /\ pc'[v] \in {"refused", "looked"}
    BY <1>0, <1>1 DEF Lookup, Goto, ListInv, TypeOK
  <2>2. active[UUIDOf[v]] # v
    BY <1>0, <2>1 DEF ListInv, PresentInv
  <2>3. /\ Phase[v] = "absent" /\ Phase'[v] = Phase[v] /\ Hypervisor'[v] = Hypervisor[v]
        /\ Refusal[v] = "none" /\ Refusal'[v] = IF pc'[v] = "refused" THEN "refused" ELSE "none"
        /\ UNCHANGED CalledBack
    BY <2>1, <2>2 DEF Phase, Hypervisor, Refusal, CalledBack
  <2>4. UNCHANGED <<Phase, Hypervisor>>
    BY <2>3, PhaseOfOthers
  <2>5. CASE pc'[v] = "refused"
    BY <2>3, <2>4, <2>5, PhaseOfOthers DEF Service!Next, Service!Refuse
  <2>6. CASE pc'[v] # "refused"
    <3>1. UNCHANGED Refusal
      BY <2>3, <2>6, PhaseOfOthers
    <3> QED BY <2>3, <2>4, <3>1 DEF Service!vars
  <2> QED BY <2>5, <2>6
<1>2. CASE Register(v)
  <2>1. UNCHANGED publicIP /\ pc[v] = "looked" /\ pc'[v] = "registered" /\ active'[UUIDOf[v]] = v
    BY <1>0, <1>2 DEF Register, Goto, ListInv, TypeOK
  <2>2. active[UUIDOf[v]] # v
    BY <1>0, <2>1 DEF ListInv, PresentInv
  <2>3. /\ Phase[v] = "absent" /\ Phase'[v] = "listed" /\ Hypervisor'[v] = Hypervisor[v]
        /\ Refusal[v] = "none" /\ Refusal'[v] = Refusal[v] /\ UNCHANGED CalledBack
    BY <2>1, <2>2 DEF Phase, Hypervisor, Refusal, CalledBack
  <2>4. UNCHANGED <<Hypervisor, Refusal>>
    BY <2>3, PhaseOfOthers
  <2> QED BY <2>3, <2>4, PhaseOfOthers DEF Service!Next, Service!List
<1>3. CASE Boot(v)
  <2>1. UNCHANGED <<active, publicIP>> /\ pc[v] = "registered" /\ pc'[v] = "up"
    BY <1>0, <1>3 DEF Boot, Goto, ListInv, TypeOK
  <2>2. active[UUIDOf[v]] = v
    BY <2>1 DEF ListInv, EntryInv
  <2>3. /\ Phase[v] = "listed" /\ Phase'[v] = Phase[v]
        /\ Hypervisor[v] = "none" /\ Hypervisor'[v] = "running"
        /\ Refusal'[v] = Refusal[v] /\ UNCHANGED CalledBack
    BY <2>1, <2>2 DEF Phase, Hypervisor, Refusal, CalledBack
  <2>4. UNCHANGED <<Phase, Refusal>>
    BY <2>3, PhaseOfOthers
  <2> QED BY <2>3, <2>4, PhaseOfOthers DEF Service!Next, Service!Launch
<1>4. CASE CallBack(v)
  <2>1. UNCHANGED <<active, pc>> /\ pc[v] = "up" /\ publicIP' = [publicIP EXCEPT ![v] = ip[v]]
    BY <1>4 DEF CallBack
  <2>2. UNCHANGED <<Phase, Hypervisor, Refusal>> /\ Hypervisor[v] = "running" /\ Refusal[v] = "none"
    BY <2>1 DEF Phase, Hypervisor, Refusal
  <2>3. CASE publicIP[v] = Nil
    <3>1. ip[v] # Nil
      BY <2>1 DEF ListInv, LeaseInv, HasRun
    <3>2. CalledBack' = CalledBack \cup {v} /\ v \notin CalledBack
      BY <2>1, <2>3, <3>1 DEF CalledBack, ListInv, TypeOK
    <3> QED BY <2>2, <3>2 DEF Service!Next, Service!Boot
  <2>4. CASE publicIP[v] # Nil
    <3>1. UNCHANGED CalledBack
      BY <2>1, <2>4 DEF ListInv, CallInv, TypeOK, CalledBack
    <3> QED BY <2>2, <3>1 DEF Service!vars
  <2> QED BY <2>3, <2>4
<1>5. CASE Exit(v)
  <2>1. UNCHANGED <<active, publicIP>> /\ pc[v] = "up" /\ pc'[v] = "exited"
    BY <1>0, <1>5 DEF Exit, Goto, ListInv, TypeOK
  <2>3. /\ Phase'[v] = Phase[v] /\ Hypervisor[v] = "running" /\ Hypervisor'[v] = "ended"
        /\ Refusal'[v] = Refusal[v] /\ UNCHANGED CalledBack
    BY <2>1 DEF Phase, Hypervisor, Refusal, CalledBack
  <2>4. UNCHANGED <<Phase, Refusal>>
    BY <2>3, PhaseOfOthers
  <2> QED BY <2>3, <2>4, PhaseOfOthers DEF Service!Next, Service!End
<1>6. CASE Deregister(v)
  <2>1. UNCHANGED <<active, publicIP>> /\ pc[v] = "exited" /\ pc'[v] = "deregister"
    BY <1>0, <1>6 DEF Deregister, Goto, ListInv, TypeOK
  <2>3. /\ Phase'[v] = Phase[v] /\ Hypervisor'[v] = Hypervisor[v]
        /\ Refusal'[v] = Refusal[v] /\ UNCHANGED CalledBack
    BY <2>1 DEF Phase, Hypervisor, Refusal, CalledBack
  <2> QED BY <2>3, PhaseOfOthers DEF Service!vars
<1>7. CASE Deregistered(v)
  <2>1. /\ UNCHANGED publicIP /\ pc[v] = "deregister" /\ pc'[v] = "gone"
        /\ active'[UUIDOf[v]] = Nil
    BY <1>0, <1>7 DEF Deregistered, Goto, ListInv, TypeOK
  <2>2. active[UUIDOf[v]] = v
    BY <2>1 DEF ListInv, EntryInv
  <2>3. /\ Phase[v] = "listed" /\ Phase'[v] = "gone"
        /\ Hypervisor[v] # "running" /\ Hypervisor'[v] = Hypervisor[v]
        /\ Refusal'[v] = Refusal[v] /\ UNCHANGED CalledBack
    BY <1>0, <2>1, <2>2 DEF Phase, Hypervisor, Refusal, CalledBack
  <2>4. UNCHANGED <<Hypervisor, Refusal>>
    BY <2>3, PhaseOfOthers
  <2> QED BY <2>3, <2>4, PhaseOfOthers DEF Service!Next, Service!Unlist
<1> QED BY <1>1, <1>2, <1>3, <1>4, <1>5, <1>6, <1>7 DEF VM

LEMMA OthersServe ==
  ASSUME ListInv, Next, ~\E v \in VMs : VM(v)
  PROVE  Phase' = Phase /\ Hypervisor' = Hypervisor /\ CalledBack' = CalledBack /\ Refusal' = Refusal
<1>1. UNCHANGED <<active, publicIP>> /\ \A v \in VMs : pc'[v] = pc[v]
  <2>1. ASSUME NEW h \in Handlers, Handler(h)
        PROVE  UNCHANGED <<active, publicIP>> /\ \A v \in VMs : pc'[v] = pc[v]
    <3>1. CASE Accept(h)
      BY <3>1, NamesConstants DEF Accept, Goto, ListInv, TypeOK
    <3>2. CASE Fetch(h)
      BY <3>2, NamesConstants DEF Fetch, Goto, ListInv, TypeOK
    <3>3. CASE Render(h)
      BY <3>3, NamesConstants DEF Render, Goto, ListInv, TypeOK
    <3>4. CASE Return(h)
      BY <3>4, NamesConstants DEF Return, Goto, ListInv, TypeOK
    <3> QED BY <2>1, <3>1, <3>2, <3>3, <3>4 DEF Handler
  <2>2. CASE UNCHANGED daemonVars
    BY <2>2 DEF daemonVars
  <2> QED BY <2>1, <2>2 DEF Next, Reply, GiveUp, LateReply
<1> QED BY <1>1 DEF Phase, Hypervisor, CalledBack, Refusal

\* As long as no Run overwrote an entry, the VM of this module is that of
\* VMService, of which VMLifecycle shows all: whatever the handlers and etcd do
\* meanwhile, it is listed once, from before its guest starts until after its end,
\* and stays listed while its records are removed.
THEOREM NamesKeepService == Spec /\ [][NoOverwrite]_vars => Service!Spec
<1>1. Init => ListInv
  BY NamesConstants, InitTypeOK
     DEF Init, ListInv, EntryInv, LeaseInv, HasRun, EntryUUIDInv, PresentInv, CallInv
<1>2. ListInv /\ [Next]_vars /\ [NoOverwrite]_vars => ListInv'
  BY TypeStep, EntryStep, LeaseStep, EntryUUIDStep, PresentStep, CallStep DEF ListInv
<1>3. Init => Service!Init
  BY NamesConstants DEF Init, Service!Init, Phase, Hypervisor, CalledBack, Refusal
<1>4. ListInv /\ ListInv' /\ [Next]_vars /\ [NoOverwrite]_vars => [Service!Next]_(Service!vars)
  <2> SUFFICES ASSUME ListInv, ListInv', [Next]_vars, [NoOverwrite]_vars
               PROVE  [Service!Next]_(Service!vars)
    OBVIOUS
  <2>1. CASE UNCHANGED vars
    BY <2>1, StutterOfService DEF vars, daemonVars
  <2>2. CASE NoOverwrite /\ \E v \in VMs : VM(v)
    BY <2>2, VMServes
  <2>3. CASE Next /\ ~\E v \in VMs : VM(v)
    BY <2>3, OthersServe DEF Service!vars
  <2> QED BY <2>1, <2>2, <2>3
<1> QED BY <1>1, <1>2, <1>3, <1>4, PTL DEF Spec, Service!Spec
=============================================================================
