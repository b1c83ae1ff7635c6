---------------------------- MODULE StartupProofs ----------------------------
(***************************************************************************)
(* Theorems about Startup: its types and the lock, the user's exports, the *)
(* flag WorkingNFS and when it is true, the resolver file and the records  *)
(* a session starts from, for any number of processes, crashes, restarts.  *)
(***************************************************************************)
EXTENDS Startup, RecordsProofs

-----------------------------------------------------------------------------
(***************************************************************************)
(* Types and the lock                                                      *)
(***************************************************************************)

PlaceOK == pc \in [Daemons -> PC] /\ lock \in Daemons \cup {Nil} /\ LockOK

HostOK ==
  /\ resolver \in BOOLEAN
  /\ exports \subseteq Lines
  /\ nfsd \in [up : BOOLEAN, serves : SUBSET Lines]
  /\ setup \in [nfsIsRunning : BOOLEAN, shared : BOOLEAN, buf : SUBSET Lines]
  /\ working \in BOOLEAN
  /\ slow \in BOOLEAN
  /\ torn \in BOOLEAN
  /\ scar \in BOOLEAN

LEMMA TypeParts == StartupTypeOK <=> RecordsTypeOK /\ PlaceOK /\ HostOK
BY DEF StartupTypeOK, PlaceOK, HostOK

LEMMA InitTypes == StartupInit => StartupTypeOK
<1> SUFFICES ASSUME StartupInit PROVE StartupTypeOK
  OBVIOUS
<1>1. RecordsTypeOK
  BY DEF StartupInit, RecordsTypeOK, Daemons
<1>2. PlaceOK
  <2>1. pc \in [Daemons -> PC] /\ lock = Nil
    BY DEF StartupInit, PC
  <2>2. \A d \in Daemons : d # Nil /\ pc[d] \notin Inside
    BY StartupConstants DEF StartupInit, Inside, Daemons
  <2> QED BY <2>1, <2>2 DEF PlaceOK, LockOK
<1>3. HostOK
  <2>1. exports \subseteq Lines
    BY DEF StartupInit, Lines
  <2>2. nfsd \in [up : BOOLEAN, serves : SUBSET Lines]
    <3>1. nfsd \in {[up |-> FALSE, serves |-> {}], [up |-> TRUE, serves |-> exports]}
      BY DEF StartupInit
    <3>2. \A x \in BOOLEAN, s \in SUBSET Lines :
            [up |-> x, serves |-> s] \in [up : BOOLEAN, serves : SUBSET Lines]
      OBVIOUS
    <3> QED BY <2>1, <3>1, <3>2
  <2>3. setup \in [nfsIsRunning : BOOLEAN, shared : BOOLEAN, buf : SUBSET Lines]
    BY DEF StartupInit, NoSetup
  <2> QED BY <2>1, <2>2, <2>3 DEF StartupInit, HostOK
<1> QED BY <1>1, <1>2, <1>3, TypeParts

\* The steps between NewServer and the end: the lock stays with d.
Moves(d) ==
  /\ pc[d] \in Inside
  /\ lock' = lock
  /\ \/ pc' = pc
     \/ \E t \in Inside : pc' = [pc EXCEPT ![d] = t]

Works(d) ==
  \/ Listen(d) \/ WipeRecords(d) \/ CheckPort(d) \/ AddRecords(d) \/ CreateResolver(d)
  \/ PortForward(d) \/ NFS(d) \/ ScanImages(d) \/ Stop(d) \/ RemoveRecords(d) \/ RemoveResolver(d)

LEMMA WorkMoves == ASSUME NEW d \in Daemons, Works(d) PROVE Moves(d)
<1> USE DEF Moves, Goto, Inside, PC, NFSState, hostVars
<1>1. CASE Listen(d) \/ WipeRecords(d) \/ CheckPort(d) \/ AddRecords(d)
  BY <1>1 DEF Listen, WipeRecords, CheckPort, AddRecords
<1>2. CASE CreateResolver(d) \/ PortForward(d)
  BY <1>2 DEF CreateResolver, PortForward
<1>3. CASE ReadExports(d) \/ Truncate(d) \/ Fill(d)
  BY <1>3 DEF ReadExports, Truncate, Fill, GiveUpNFS
<1>4. CASE exportsCheck(d) \/ Refill(d) \/ Load(d)
  BY <1>4 DEF exportsCheck, Refill, Load, GiveUpNFS
<1>5. CASE ScanImages(d) \/ Stop(d) \/ RemoveRecords(d) \/ RemoveResolver(d)
  BY <1>5 DEF ScanImages, Stop, RemoveRecords, RemoveResolver
<1> QED BY <1>1, <1>2, <1>3, <1>4, <1>5 DEF Works, NFS

LEMMA MovesPlace == ASSUME PlaceOK, NEW d \in Daemons, Moves(d) PROVE PlaceOK'
<1>1. Inside \subseteq PC
  BY DEF Inside
<1>2. CASE pc' = pc
  BY <1>2 DEF Moves, PlaceOK, LockOK
<1>3. ASSUME NEW t \in Inside, pc' = [pc EXCEPT ![d] = t] PROVE PlaceOK'
  BY <1>1, <1>3 DEF Moves, PlaceOK, LockOK
<1> QED BY <1>2, <1>3 DEF Moves

LEMMA PlaceStep == ASSUME PlaceOK, [StartupNext]_vars PROVE PlaceOK'
<1>1. ASSUME NEW d \in Daemons, Works(d) PROVE PlaceOK'
  BY <1>1, WorkMoves, MovesPlace
<1>2. ASSUME NEW d \in Daemons, Start(d) PROVE PlaceOK'
  <2>1. pc[d] = "off" /\ pc' = [pc EXCEPT ![d] = "checked"] /\ lock' = lock
    BY <1>2 DEF Start, Goto
  <2>2. {"off", "checked"} \cap Inside = {} /\ "checked" \in PC
    BY DEF Inside, PC
  <2> QED BY <2>1, <2>2 DEF PlaceOK, LockOK
<1>3. ASSUME NEW d \in Daemons, NewServer(d) PROVE PlaceOK'
  <2>1. lock = Nil /\ lock' = d /\ pc' = [pc EXCEPT ![d] = "listen"]
    BY <1>3 DEF NewServer, Goto
  <2>2. "listen" \in Inside /\ "listen" \in PC
    BY DEF Inside, PC
  <2>3. \A e \in Daemons : e # Nil /\ pc[e] \notin Inside
    BY <2>1, StartupConstants DEF PlaceOK, LockOK, Daemons
  <2> QED BY <2>1, <2>2, <2>3 DEF PlaceOK, LockOK
<1>4. ASSUME NEW d \in Daemons, Gone(d) PROVE PlaceOK'
  <2>1. pc' = [pc EXCEPT ![d] = "off"] /\ lock' = IF lock = d THEN Nil ELSE lock
    BY <1>4 DEF Gone
  <2>2. "off" \notin Inside /\ "off" \in PC
    BY DEF Inside, PC
  <2>3. \A e \in Daemons : e # Nil
    BY StartupConstants DEF Daemons
  <2> QED BY <2>1, <2>2, <2>3 DEF PlaceOK, LockOK
<1>5. CASE UNCHANGED <<pc, lock>>
  BY <1>5 DEF PlaceOK, LockOK
<1> QED BY <1>1, <1>2, <1>3, <1>4, <1>5
        DEF StartupNext, Session, Works, Leave, Crash, NameGuest, LateReply, vars

-----------------------------------------------------------------------------
(***************************************************************************)
(* Where the process with the lock stands                                  *)
(***************************************************************************)

Stage == IF lock = Nil THEN "off" ELSE pc[lock]

LEMMA HolderStage ==
  ASSUME PlaceOK, NEW d \in Daemons
  PROVE  /\ pc[d] \in Inside <=> lock = d
         /\ lock = d => Stage = pc[d]
         /\ "off" \notin Inside
BY StartupConstants DEF PlaceOK, LockOK, Stage, Inside, Daemons

LEMMA WorkStage ==
  ASSUME PlaceOK, NEW d \in Daemons, Works(d)
  PROVE  lock = d /\ lock' = d /\ Stage = pc[d] /\ Stage' = pc'[d]
<1>1. Moves(d)
  BY WorkMoves
<1>2. lock = d /\ lock' = d
  BY <1>1, HolderStage DEF Moves
<1> QED BY <1>2, StartupConstants DEF Stage, Daemons

LEMMA GotoStage ==
  ASSUME PlaceOK, NEW d \in Daemons, Works(d), NEW s, NEW t, Goto(d, s, t)
  PROVE  Stage = s /\ Stage' = t
BY WorkStage DEF PlaceOK, Goto

LEMMA GiveUpStage ==
  ASSUME PlaceOK, NEW d \in Daemons, Works(d), GiveUpNFS(d)
  PROVE  Stage' = "images"
BY WorkStage DEF PlaceOK, GiveUpNFS

LEMMA OtherStages ==
  ASSUME PlaceOK, NEW d \in Daemons
  PROVE  /\ Start(d) => Stage' = Stage
         /\ NewServer(d) => Stage = "off" /\ Stage' = "listen"
         /\ Gone(d) /\ lock = d => Stage' = "off"
         /\ Gone(d) /\ lock # d => Stage' = Stage
<1>1. Start(d) => Stage' = Stage
  BY HolderStage DEF Start, Goto, Stage, PlaceOK, Inside, LockOK
<1>2. NewServer(d) => Stage = "off" /\ Stage' = "listen"
  BY StartupConstants DEF NewServer, Goto, Stage, PlaceOK, Daemons
<1>3. Gone(d) /\ lock = d => Stage' = "off"
  BY DEF Gone, Stage
<1>4. Gone(d) /\ lock # d => Stage' = Stage
  BY DEF Gone, Stage, PlaceOK
<1> QED BY <1>1, <1>2, <1>3, <1>4

-----------------------------------------------------------------------------
(***************************************************************************)
(* /etc/exports, WorkingNFS and the resolver file                          *)
(***************************************************************************)

\* The lines of the user are in the file or, while it is written, in buf.
UserInv ==
  ~torn => /\ nfsd.up => "user" \in nfsd.serves
           /\ "user" \in exports \/ Stage \in Writing
           /\ Stage \in NFSState \ {"read"} => "user" \in setup.buf

\* WorkingNFS is FALSE up to Load, and Load comes after the signature.
Early == {"listen", "wipe", "port", "records", "resolver", "forward"} \cup NFSState

SignInv ==
  /\ Stage \in Early => working = FALSE
  /\ Stage \in {"images", "serving"} /\ working = TRUE => "signature" \in exports
  /\ Stage \in {"check", "load"} => "signature" \in exports

\* Where the deferred calls will remove the resolver file.
Covered == {"forward"} \cup NFSState \cup {"images", "serving", "dnsStop", "unresolve"}

ResolverInv == resolver = TRUE /\ scar = FALSE => Stage \in Covered

\* A step that leaves a variable alone, or the file and nfsd.
QuietNFS == UNCHANGED <<exports, nfsd, setup, torn>>

LEMMA QuietUser ==
  ASSUME UserInv, QuietNFS, Stage \notin Writing,
         Stage' \in NFSState \ {"read"} => Stage \in NFSState \ {"read"}
  PROVE  UserInv'
BY DEF UserInv, QuietNFS

LEMMA UserStep ==
  ASSUME StartupTypeOK, UserInv, [StartupNext]_vars
  PROVE  UserInv'
<1>0. PlaceOK /\ HostOK
  BY TypeParts
<1>1. ASSUME NEW d \in Daemons, Works(d) PROVE UserInv'
  <2>0. Stage = pc[d] /\ Stage' = pc'[d]
    BY <1>0, <1>1, WorkStage
  <2>1. CASE ReadExports(d)
    <3>1. Stage = "read" /\ UNCHANGED <<exports, nfsd, torn>>
      BY <2>0, <2>1 DEF ReadExports, hostVars
    <3>2. CASE setup'.buf = exports
      BY <3>1, <3>2 DEF UserInv, NFSState, Writing
    <3>3. CASE GiveUpNFS(d)
      <4>1. Stage' = "images"
        BY <1>0, <1>1, <3>3, GiveUpStage
      <4> QED BY <3>1, <4>1 DEF UserInv, NFSState, Writing
    <3> QED BY <2>1, <3>2, <3>3 DEF ReadExports
  <2>2. CASE Truncate(d)
    <3>1. /\ Stage \in {"truncate", "restore"}
          /\ Stage' \in {"fill", "refill"} \/ (Stage' = "images" /\ UNCHANGED exports)
      BY <1>0, <1>1, <2>0, <2>2, GotoStage, GiveUpStage DEF Truncate
    <3> QED BY <2>2, <3>1 DEF Truncate, UserInv, NFSState, Writing
  <2>3. CASE Fill(d)
    <3>1. CASE Goto(d, "fill", "check") /\ exports' = WithSignature /\ UNCHANGED torn
      <4>1. Stage = "fill" /\ Stage' = "check"
        BY <1>0, <1>1, <3>1, GotoStage
      <4> QED BY <2>3, <3>1, <4>1 DEF Fill, UserInv, NFSState, Writing, WithSignature
    <3>2. CASE torn' = TRUE
      BY <3>2 DEF UserInv
    <3> QED BY <2>3, <3>1, <3>2 DEF Fill
  <2>4. CASE exportsCheck(d)
    <3>1. Stage = "check" /\ Stage' \in {"load", "restore"}
      BY <1>0, <1>1, <2>4, GotoStage DEF exportsCheck
    <3> QED BY <2>4, <3>1 DEF exportsCheck, hostVars, UserInv, NFSState, Writing
  <2>5. CASE Refill(d)
    <3>1. Stage = "refill" /\ Stage' = "images"
      BY <1>0, <1>1, <2>0, <2>5, GiveUpStage DEF Refill
    <3> QED BY <2>5, <3>1 DEF Refill, UserInv, NFSState, Writing
  <2>6. CASE Load(d)
    <3>1. Stage = "load" /\ Stage' = "images"
      BY <1>0, <1>1, <2>6, GotoStage DEF Load
    <3>2. UNCHANGED <<exports, torn>>
      BY <2>6 DEF Load
    <3>3. nfsd' = nfsd \/ nfsd' = [up |-> TRUE, serves |-> exports]
      BY <2>6 DEF Load
    <3>4. ~torn => "user" \in exports
      BY <3>1 DEF UserInv, Writing
    <3> QED BY <3>1, <3>2, <3>3, <3>4 DEF UserInv, NFSState, Writing
  <2>7. CASE ~NFS(d)
    <3>1. QuietNFS
      BY <1>1, <2>7
         DEF Works, Listen, WipeRecords, CheckPort, AddRecords, CreateResolver, PortForward,
             ScanImages, Stop, RemoveRecords, RemoveResolver, hostVars, QuietNFS
    <3>2. pc[d] \notin NFSState /\ (pc' = pc \/ \E t \in PC \ NFSState : pc' = [pc EXCEPT ![d] = t]
                                             \/ pc' = [pc EXCEPT ![d] = "read"])
      BY <1>1, <2>7
         DEF Works, Listen, WipeRecords, CheckPort, AddRecords, CreateResolver, PortForward,
             ScanImages, Stop, RemoveRecords, RemoveResolver, Goto, NFSState, PC
    <3>3. pc[d] \notin NFSState /\ pc'[d] \notin NFSState \ {"read"}
      BY <1>0, <3>2 DEF PlaceOK
    <3> QED BY <2>0, <3>1, <3>3, QuietUser DEF NFSState, Writing
  <2> QED BY <2>1, <2>2, <2>3, <2>4, <2>5, <2>6, <2>7 DEF NFS
<1>2. ASSUME NEW d \in Daemons, Start(d) PROVE UserInv'
  BY <1>0, <1>2, OtherStages DEF Start, hostVars, UserInv
<1>3. ASSUME NEW d \in Daemons, NewServer(d) PROVE UserInv'
  BY <1>0, <1>3, OtherStages, QuietUser DEF NewServer, hostVars, QuietNFS, Writing, NFSState
<1>4. ASSUME NEW d \in Daemons, Leave(d) \/ Crash(d) PROVE UserInv'
  <2>0. Gone(d) /\ UNCHANGED <<exports, nfsd>>
    BY <1>4 DEF Leave, Crash, Gone, hostVars
  <2>1. CASE lock = d
    <3>1. Stage = pc[d] /\ Stage' = "off"
      BY <1>0, <2>0, <2>1, HolderStage, OtherStages
    <3>2. ~torn' => ~torn /\ Stage \notin Writing
      BY <1>4, <3>1 DEF Leave, Crash, Writing
    <3> QED BY <2>0, <3>1, <3>2 DEF UserInv, NFSState, Writing
  <2>2. CASE lock # d
    <3>1. Stage' = Stage /\ setup' = setup
      BY <1>0, <2>0, <2>2, OtherStages DEF Gone
    <3>2. ~torn' => ~torn
      BY <1>4 DEF Leave, Crash
    <3> QED BY <2>0, <3>1, <3>2 DEF UserInv
  <2> QED BY <2>1, <2>2
<1>5. CASE UNCHANGED <<hostVars, pc, lock, setup, torn>>
  BY <1>5 DEF hostVars, UserInv, Stage
<1> QED BY <1>1, <1>2, <1>3, <1>4, <1>5
        DEF StartupNext, Session, Works, NameGuest, LateReply, vars

\* WorkingNFS and the file.
LEMMA SignStep ==
  ASSUME StartupTypeOK, SignInv, [StartupNext]_vars
  PROVE  SignInv'
<1>0. PlaceOK /\ HostOK
  BY TypeParts
<1> USE DEF Early, NFSState
<1>1. ASSUME NEW d \in Daemons, Works(d) PROVE SignInv'
  <2>0. Stage = pc[d] /\ Stage' = pc'[d]
    BY <1>0, <1>1, WorkStage
  <2>1. CASE ReadExports(d)
    <3>1. Stage = "read" /\ UNCHANGED <<exports, working>>
      BY <2>0, <2>1 DEF ReadExports, hostVars
    <3>2. CASE Goto(d, "read", IF "signature" \in exports THEN "check" ELSE "truncate")
      BY <1>0, <1>1, <3>1, <3>2, GotoStage DEF SignInv
    <3>3. CASE GiveUpNFS(d)
      BY <1>0, <1>1, <3>1, <3>3, GiveUpStage DEF SignInv
    <3> QED BY <2>1, <3>2, <3>3 DEF ReadExports
  <2>2. CASE Truncate(d)
    <3>1. /\ Stage \in {"truncate", "restore"}
          /\ Stage' \in {"fill", "refill", "images"}
      BY <1>0, <1>1, <2>0, <2>2, GotoStage, GiveUpStage DEF Truncate
    <3> QED BY <2>2, <3>1 DEF Truncate, SignInv
  <2>3. CASE Fill(d)
    <3>1. Stage = "fill" /\ UNCHANGED working
      BY <2>0, <2>3 DEF Fill
    <3>2. \/ Stage' = "check" /\ "signature" \in exports'
          \/ Stage' = "images"
      BY <1>0, <1>1, <2>3, GotoStage, GiveUpStage DEF Fill, WithSignature
    <3> QED BY <3>1, <3>2 DEF SignInv
  <2>4. CASE exportsCheck(d)
    <3>1. Stage = "check" /\ Stage' \in {"load", "restore"}
      BY <1>0, <1>1, <2>4, GotoStage DEF exportsCheck
    <3> QED BY <2>4, <3>1 DEF exportsCheck, hostVars, SignInv
  <2>5. CASE Refill(d)
    <3>1. Stage = "refill" /\ Stage' = "images" /\ UNCHANGED working
      BY <1>0, <1>1, <2>0, <2>5, GiveUpStage DEF Refill
    <3> QED BY <3>1 DEF SignInv
  <2>6. CASE Load(d)
    <3>1. Stage = "load" /\ Stage' = "images" /\ UNCHANGED exports
      BY <1>0, <1>1, <2>6, GotoStage DEF Load
    <3> QED BY <3>1 DEF SignInv
  <2>7. CASE ~NFS(d)
    <3>1. UNCHANGED <<exports, working>>
      BY <1>1, <2>7
         DEF Works, Listen, WipeRecords, CheckPort, AddRecords, CreateResolver, PortForward,
             ScanImages, Stop, RemoveRecords, RemoveResolver, hostVars
    <3>2. CASE Listen(d) \/ WipeRecords(d) \/ CheckPort(d) \/ AddRecords(d)
      <4>1. Stage \in Early /\ Stage' \in Early \cup {"etcdStop"}
        BY <1>0, <2>0, <3>2 DEF Listen, WipeRecords, CheckPort, AddRecords, Goto, PlaceOK
      <4>2. Stage' \notin {"images", "serving", "check", "load"}
        BY <1>0, <2>0, <3>2 DEF Listen, WipeRecords, CheckPort, AddRecords, Goto, PlaceOK
      <4> QED BY <3>1, <4>1, <4>2 DEF SignInv
    <3>3. CASE CreateResolver(d) \/ PortForward(d)
      <4>1. Stage \in Early /\ Stage' \in {"forward", "read", "etcdStop"}
        BY <1>0, <2>0, <3>3 DEF CreateResolver, PortForward, Goto, PlaceOK
      <4> QED BY <3>1, <4>1 DEF SignInv
    <3>4. CASE ScanImages(d) \/ Stop(d) \/ RemoveRecords(d) \/ RemoveResolver(d)
      <4>1. /\ Stage' \in {"serving", "dnsStop", "unresolve", "etcdStop"}
            /\ Stage' = "serving" => Stage = "images"
        BY <1>0, <2>0, <3>4 DEF ScanImages, Stop, RemoveRecords, RemoveResolver, Goto, PlaceOK
      <4> QED BY <3>1, <4>1 DEF SignInv
    <3> QED BY <1>1, <2>7, <3>2, <3>3, <3>4 DEF Works
  <2> QED BY <2>1, <2>2, <2>3, <2>4, <2>5, <2>6, <2>7 DEF NFS
<1>2. ASSUME NEW d \in Daemons, Start(d) PROVE SignInv'
  BY <1>0, <1>2, OtherStages DEF Start, hostVars, SignInv
<1>3. ASSUME NEW d \in Daemons, NewServer(d) PROVE SignInv'
  BY <1>0, <1>3, OtherStages DEF NewServer, SignInv
<1>4. ASSUME NEW d \in Daemons, Leave(d) \/ Crash(d) PROVE SignInv'
  <2>0. Gone(d) /\ UNCHANGED <<exports, working>>
    BY <1>4 DEF Leave, Crash, Gone, hostVars
  <2> QED BY <1>0, <2>0, OtherStages DEF SignInv
<1>5. CASE UNCHANGED <<hostVars, pc, lock, working>>
  BY <1>5 DEF hostVars, SignInv, Stage
<1> QED BY <1>1, <1>2, <1>3, <1>4, <1>5
        DEF StartupNext, Session, Works, NameGuest, LateReply, vars

\* The resolver file.
LEMMA ResolverStep ==
  ASSUME StartupTypeOK, ResolverInv, [StartupNext]_vars
  PROVE  ResolverInv'
<1>0. PlaceOK /\ HostOK
  BY TypeParts
<1> USE DEF Covered, NFSState
<1>1. ASSUME NEW d \in Daemons, Works(d) PROVE ResolverInv'
  <2>0. Stage = pc[d] /\ Stage' = pc'[d]
    BY <1>0, <1>1, WorkStage
  <2>1. CASE Listen(d) \/ WipeRecords(d) \/ CheckPort(d) \/ AddRecords(d)
    <3>1. UNCHANGED <<resolver, scar>>
      BY <2>1 DEF Listen, WipeRecords, CheckPort, AddRecords, hostVars
    <3>2. Stage \notin Covered
      BY <2>0, <2>1 DEF Listen, WipeRecords, CheckPort, AddRecords, Goto
    <3> QED BY <3>1, <3>2 DEF ResolverInv
  <2>2. CASE CreateResolver(d)
    <3>1. Stage = "resolver" /\ UNCHANGED scar
      BY <2>0, <2>2 DEF CreateResolver, Goto
    <3>2. Stage' = "forward" \/ UNCHANGED resolver
      BY <1>0, <1>1, <2>2, GotoStage DEF CreateResolver
    <3> QED BY <3>1, <3>2 DEF ResolverInv
  <2>3. CASE PortForward(d)
    <3>1. Stage' = "read" \/ scar' = TRUE
      BY <1>0, <1>1, <2>3, GotoStage DEF PortForward
    <3> QED BY <3>1 DEF ResolverInv
  <2>4. CASE NFS(d)
    <3>1. pc'[d] \in NFSState \cup {"images"}
      BY <1>0, <2>4
         DEF NFS, ReadExports, Truncate, Fill, exportsCheck, Refill, Load, GiveUpNFS, Goto, PlaceOK
    <3> QED BY <2>0, <3>1 DEF ResolverInv
  <2>5. CASE ScanImages(d) \/ Stop(d) \/ RemoveRecords(d)
    <3>1. Stage' \in {"serving", "dnsStop", "unresolve"}
      BY <1>0, <2>0, <2>5 DEF ScanImages, Stop, RemoveRecords, Goto, PlaceOK
    <3> QED BY <3>1 DEF ResolverInv
  <2>6. CASE RemoveResolver(d)
    BY <2>6 DEF RemoveResolver, ResolverInv
  <2> QED BY <1>1, <2>1, <2>2, <2>3, <2>4, <2>5, <2>6 DEF Works
<1>2. ASSUME NEW d \in Daemons, Start(d) PROVE ResolverInv'
  BY <1>0, <1>2, OtherStages DEF Start, hostVars, ResolverInv
<1>3. ASSUME NEW d \in Daemons, NewServer(d) PROVE ResolverInv'
  BY <1>0, <1>3, OtherStages DEF NewServer, hostVars, ResolverInv
<1>4. ASSUME NEW d \in Daemons, Leave(d) PROVE ResolverInv'
  <2>1. lock = d /\ Stage = "etcdStop"
    BY <1>0, <1>4, HolderStage DEF Leave, Inside, PC
  <2>2. UNCHANGED <<resolver, scar>>
    BY <1>4 DEF Leave, Gone, hostVars
  <2> QED BY <2>1, <2>2 DEF ResolverInv
<1>5. ASSUME NEW d \in Daemons, Crash(d) PROVE ResolverInv'
  BY <1>5 DEF Crash, ResolverInv
<1>6. CASE UNCHANGED <<hostVars, pc, lock, scar>>
  BY <1>6 DEF hostVars, ResolverInv, Stage
<1> QED BY <1>1, <1>2, <1>3, <1>4, <1>5, <1>6
        DEF StartupNext, Session, Works, NameGuest, LateReply, vars

-----------------------------------------------------------------------------
(***************************************************************************)
(* The types of the rest                                                   *)
(***************************************************************************)

\* What ReadExports keeps for the steps that follow.
Reads(seen) ==
  setup' = [nfsIsRunning |-> seen, shared |-> "signature" \in exports, buf |-> exports]

LEMMA HostStep ==
  ASSUME HostOK, [StartupNext]_vars
  PROVE  HostOK'
<1> USE DEF HostOK
<1>1. CASE UNCHANGED <<hostVars, setup, working, slow, torn, scar>>
  BY <1>1 DEF hostVars
<1>2. ASSUME NEW d \in Daemons, Session(d) PROVE HostOK'
  <2>1. CASE Start(d) \/ NewServer(d) \/ Listen(d) \/ CheckPort(d)
    BY <2>1 DEF Start, NewServer, Listen, CheckPort, hostVars
  <2>2. CASE WipeRecords(d) \/ AddRecords(d) \/ RemoveRecords(d)
    <3>1. slow' \in BOOLEAN
      BY <2>2 DEF WipeRecords, AddRecords, RemoveRecords, Unanswered
    <3> QED BY <2>2, <3>1 DEF WipeRecords, AddRecords, RemoveRecords, hostVars
  <2>3. CASE CreateResolver(d) \/ PortForward(d)
    BY <2>3 DEF CreateResolver, PortForward, hostVars
  <2>4. CASE ReadExports(d)
    <3>1. CASE \E seen \in BOOLEAN : Reads(seen)
      <4>1. ("signature" \in exports) \in BOOLEAN
        OBVIOUS
      <4>2. setup' \in [nfsIsRunning : BOOLEAN, shared : BOOLEAN, buf : SUBSET Lines]
        BY <3>1, <4>1 DEF Reads
      <4> QED BY <2>4, <4>2 DEF ReadExports, hostVars
    <3>2. CASE UNCHANGED setup
      BY <2>4, <3>2 DEF ReadExports, hostVars
    <3> QED BY <2>4, <3>1, <3>2 DEF ReadExports, Reads
  <2>5. CASE Truncate(d)
    BY <2>5 DEF Truncate
  <2>6. CASE Fill(d) \/ Refill(d)
    <3>1. WithSignature \subseteq Lines /\ setup.buf \subseteq Lines
      BY DEF WithSignature, Lines
    <3>2. exports' \subseteq Lines /\ torn' \in BOOLEAN
      BY <2>6, <3>1 DEF Fill, Refill
    <3> QED BY <2>6, <3>2 DEF Fill, Refill
  <2>7. CASE exportsCheck(d)
    BY <2>7 DEF exportsCheck, hostVars
  <2>8. CASE Load(d)
    <3>1. nfsd' \in [up : BOOLEAN, serves : SUBSET Lines] /\ working' \in BOOLEAN
      <4>1. [up |-> TRUE, serves |-> exports] \in [up : BOOLEAN, serves : SUBSET Lines]
        OBVIOUS
      <4>2. nfsd' = nfsd \/ nfsd' = [up |-> TRUE, serves |-> exports]
        BY <2>8 DEF Load
      <4>3. working' \in BOOLEAN
        BY <2>8 DEF Load
      <4> QED BY <4>1, <4>2, <4>3
    <3> QED BY <2>8, <3>1 DEF Load
  <2>9. CASE ScanImages(d) \/ Stop(d) \/ RemoveResolver(d)
    BY <2>9 DEF ScanImages, Stop, RemoveResolver, hostVars
  <2>10. CASE Leave(d)
    <3>1. setup' \in {NoSetup, setup}
      BY <2>10 DEF Leave, Gone
    <3>2. NoSetup \in [nfsIsRunning : BOOLEAN, shared : BOOLEAN, buf : SUBSET Lines]
      BY DEF NoSetup
    <3> QED BY <2>10, <3>1, <3>2 DEF Leave, Gone, hostVars
  <2> QED BY <1>2, <2>1, <2>2, <2>3, <2>4, <2>5, <2>6, <2>7, <2>8, <2>9, <2>10 DEF Session, NFS
<1>3. ASSUME NEW d \in Daemons, Crash(d) PROVE HostOK'
  <2>1. setup' \in {NoSetup, setup}
    BY <1>3 DEF Crash, Gone
  <2>2. NoSetup \in [nfsIsRunning : BOOLEAN, shared : BOOLEAN, buf : SUBSET Lines]
    BY DEF NoSetup
  <2>3. torn' \in BOOLEAN /\ scar' = TRUE
    BY <1>3 DEF Crash
  <2> QED BY <1>3, <2>1, <2>2, <2>3 DEF Crash, Gone, hostVars
<1> QED BY <1>1, <1>2, <1>3 DEF StartupNext, NameGuest, LateReply, vars

LEMMA RecordsStep ==
  ASSUME RecordsTypeOK, [StartupNext]_vars
  PROVE  RecordsTypeOK'
<1>1. CASE UNCHANGED recordVars
  BY <1>1 DEF recordVars, RecordsTypeOK
<1>2. ASSUME NEW d \in Daemons, NEW l \in Seq(Request), todo' = [todo EXCEPT ![d] = l],
             store' = store, late' \subseteq late
      PROVE  RecordsTypeOK'
  BY <1>2 DEF RecordsTypeOK, Daemons
<1>3. ASSUME NEW d \in Daemons, Answered(d) \/ Unanswered(d) PROVE RecordsTypeOK'
  BY <1>3, AnsweredType DEF Unanswered, Failed, Daemons
<1>4. ASSUME NEW d \in Daemons, Session(d) PROVE RecordsTypeOK'
  <2>1. CASE Listen(d)
    <3>1. Wipe \in Request /\ <<Wipe>> \in Seq(Request)
      BY DEF Wipe, Request
    <3>2. CASE UNCHANGED todo
      BY <1>1, <2>1, <3>2 DEF Listen, recordVars
    <3> QED BY <1>2, <2>1, <3>1, <3>2 DEF Listen
  <2>2. CASE CheckPort(d)
    <3>1. addRecord(Reserved, HostAddress) \o addRecord(NameServer, HostAddress) \in Seq(Request)
      BY RequestTypes, RecordConstants
    <3>2. CASE UNCHANGED todo
      BY <1>1, <2>2, <3>2 DEF CheckPort, recordVars
    <3> QED BY <1>2, <2>2, <3>1, <3>2 DEF CheckPort
  <2>3. CASE ScanImages(d) \/ Stop(d)
    <3>1. rmRecord(Reserved, HostAddress) \in Seq(Request)
      BY RequestTypes, RecordConstants
    <3>2. CASE UNCHANGED todo
      BY <1>1, <2>3, <3>2 DEF ScanImages, Stop, recordVars
    <3> QED BY <1>2, <2>3, <3>1, <3>2 DEF ScanImages, Stop, Stopping
  <2>4. CASE WipeRecords(d) \/ AddRecords(d) \/ RemoveRecords(d)
    BY <1>1, <1>3, <2>4 DEF WipeRecords, AddRecords, RemoveRecords
  <2>5. CASE Leave(d)
    <3>1. <<>> \in Seq(Request)
      OBVIOUS
    <3> QED BY <1>2, <2>5, <3>1 DEF Leave, Gone
  <2>6. CASE Start(d) \/ NewServer(d) \/ CreateResolver(d) \/ PortForward(d) \/ RemoveResolver(d)
    BY <1>1, <2>6 DEF Start, NewServer, CreateResolver, PortForward, RemoveResolver
  <2>7. CASE NFS(d)
    BY <1>1, <2>7 DEF NFS, ReadExports, Truncate, Fill, exportsCheck, Refill, Load
  <2> QED BY <1>4, <2>1, <2>2, <2>3, <2>4, <2>5, <2>6, <2>7 DEF Session
<1>5. ASSUME NEW d \in Daemons, Crash(d) PROVE RecordsTypeOK'
  <2>1. <<>> \in Seq(Request)
    OBVIOUS
  <2> QED BY <1>2, <1>5, <2>1 DEF Crash, Gone
<1>6. CASE NameGuest
  <2>1. Set(Path(Guest), GuestAddress) \in Request
    BY LeavesAreKeys, StartupConstants DEF Set, Request
  <2>2. store' = Applied(Set(Path(Guest), GuestAddress)) /\ UNCHANGED <<todo, late>>
    BY <1>6 DEF NameGuest
  <2> QED BY <2>1, <2>2, AppliedType DEF RecordsTypeOK
<1>7. CASE LateReply
  BY <1>7, LateType DEF LateReply
<1> QED BY <1>1, <1>4, <1>5, <1>6, <1>7 DEF StartupNext, vars

LEMMA StartupTypeStep == StartupTypeOK /\ [StartupNext]_vars => StartupTypeOK'
  BY TypeParts, PlaceStep, HostStep, RecordsStep DEF StartupTypeOK, PlaceOK, HostOK

-----------------------------------------------------------------------------
(***************************************************************************)
(* The records a session starts from                                       *)
(***************************************************************************)

\* The store on the way to HostStore: the names that are set, and what the
\* reverse record says, or Nil.
Laid(hosts, rev) ==
  LET reverse == IF rev = Nil THEN {} ELSE {Reverse(HostAddress)}
      above == UNION {Parents(k) : k \in hosts \cup reverse}
  IN [k \in Keys |-> IF k \in hosts THEN HostAddress
                     ELSE IF rev # Nil /\ k = Reverse(HostAddress) THEN rev
                     ELSE IF k \in above THEN Dir ELSE Nil]

LEMMA LaidIsHostStore == Laid({Path(Reserved), Path(NameServer)}, NameServer) = HostStore
<1>1. NameServer # Nil
  BY RecordConstants
<1> QED BY <1>1 DEF Laid, HostStore

\* The four requests of NewDNSServer, one after the other.
LEMMA LaySteps ==
  LET r == Path(Reserved)
      n == Path(NameServer)
      rev == Reverse(HostAddress)
  IN /\ store = Laid({}, Nil) => Applied(Set(r, HostAddress)) = Laid({r}, Nil)
     /\ store = Laid({r}, Nil) => Applied(Set(rev, Reserved)) = Laid({r}, Reserved)
     /\ store = Laid({r}, Reserved) /\ Accepts(Set(n, HostAddress))
          => Applied(Set(n, HostAddress)) = Laid({r, n}, Reserved)
     /\ store = Laid({r, n}, Reserved) => Applied(Set(rev, NameServer)) = Laid({r, n}, NameServer)
<1> DEFINE r == Path(Reserved)
           n == Path(NameServer)
           rev == Reverse(HostAddress)
<1>1. Reserved \in Names /\ NameServer \in Names /\ Reserved # Nil /\ NameServer # Nil
  BY RecordConstants
<1>2. /\ r # rev /\ n # rev
      /\ r \notin Parents(rev) /\ n \notin Parents(rev)
      /\ rev \notin Parents(r) /\ rev \notin Parents(n)
  BY <1>1, TreesApart, PathIsNotReverse
<1>3. HostAddress \notin {Nil, Dir} /\ r \in Keys
  BY <1>1, RecordConstants, LeavesAreKeys
<1> HIDE DEF r, n, rev
<1> USE DEF Laid, Applied, Set
<1>4. ASSUME store = Laid({}, Nil) PROVE Applied(Set(r, HostAddress)) = Laid({r}, Nil)
  BY <1>4
<1>5. ASSUME store = Laid({r}, Nil) PROVE Applied(Set(rev, Reserved)) = Laid({r}, Reserved)
  BY <1>1, <1>2, <1>5 DEF rev
<1>6. ASSUME store = Laid({r}, Reserved), Accepts(Set(n, HostAddress))
      PROVE  Applied(Set(n, HostAddress)) = Laid({r, n}, Reserved)
  <2>1. store[r] = HostAddress
    BY <1>3, <1>6
  <2>2. r \notin Parents(n)
    BY <1>3, <1>6, <2>1 DEF Accepts, IsFile
  <2> QED BY <1>1, <1>2, <1>6, <2>2 DEF rev
<1>7. ASSUME store = Laid({r, n}, Reserved) PROVE Applied(Set(rev, NameServer)) = Laid({r, n}, NameServer)
  BY <1>1, <1>2, <1>7 DEF rev
<1> QED BY <1>4, <1>5, <1>6, <1>7 DEF r, n, rev

LEMMA TwoAndTwo ==
  ASSUME NEW a \in Request, NEW b \in Request, NEW c \in Request, NEW d \in Request
  PROVE  <<a, b>> \o <<c, d>> = <<a, b, c, d>>
<1> DEFINE s == <<a, b>> \o <<c, d>>
<1>1. <<a, b>> \in Seq(Request) /\ <<c, d>> \in Seq(Request)
  OBVIOUS
<1>2. s \in Seq(Request) /\ Len(s) = 4
  BY <1>1
<1>3. s[1] = a /\ s[2] = b /\ s[3] = c /\ s[4] = d
  BY <1>1
<1> HIDE DEF s
<1>4. s = <<a, b, c, d>>
  BY <1>2, <1>3
<1> QED BY <1>4 DEF s

\* The requests that are left at "records", and the store that they find.
Laying ==
  LET r == Path(Reserved)
      n == Path(NameServer)
      rev == Reverse(HostAddress)
      four == <<Set(r, HostAddress), Set(rev, Reserved), Set(n, HostAddress), Set(rev, NameServer)>>
  IN \/ todo[lock] = four /\ store = Laid({}, Nil)
     \/ todo[lock] = <<four[2], four[3], four[4]>> /\ store = Laid({r}, Nil)
     \/ todo[lock] = <<four[3], four[4]>> /\ store = Laid({r}, Reserved)
     \/ todo[lock] = <<four[4]>> /\ store = Laid({r, n}, Reserved)
     \/ todo[lock] = <<>> /\ store = HostStore

\* Unless a request was given up, only the holder's requests are on their way.
FreshInv ==
  /\ late # {} => lock # Nil /\ slow
  /\ Stage = "wipe" => todo[lock] = <<Wipe>>
  /\ ~slow => /\ Stage = "port" => store = Laid({}, Nil)
              /\ Stage = "records" => Laying
              /\ Stage \in Ready => store = HostStore

LEMMA LayStep ==
  ASSUME RecordsTypeOK, lock \in Daemons, lock' = lock, Laying, Answered(lock)
  PROVE  Laying'
<1> DEFINE r == Path(Reserved)
           n == Path(NameServer)
           rev == Reverse(HostAddress)
           r1 == Set(r, HostAddress)
           r2 == Set(rev, Reserved)
           r3 == Set(n, HostAddress)
           r4 == Set(rev, NameServer)
<1>1. /\ store' = Applied(Head(todo[lock])) /\ todo'[lock] = Tail(todo[lock])
      /\ Accepts(Head(todo[lock])) /\ todo[lock] # <<>>
  BY DEF Answered, Pending, RecordsTypeOK, Daemons
<1>2. /\ store = Laid({}, Nil) => Applied(r1) = Laid({r}, Nil)
      /\ store = Laid({r}, Nil) => Applied(r2) = Laid({r}, Reserved)
      /\ store = Laid({r}, Reserved) /\ Accepts(r3) => Applied(r3) = Laid({r, n}, Reserved)
      /\ store = Laid({r, n}, Reserved) => Applied(r4) = HostStore
  BY LaySteps, LaidIsHostStore
<1>3. \/ todo[lock] = <<r1, r2, r3, r4>> /\ store = Laid({}, Nil)
      \/ todo[lock] = <<r2, r3, r4>> /\ store = Laid({r}, Nil)
      \/ todo[lock] = <<r3, r4>> /\ store = Laid({r}, Reserved)
      \/ todo[lock] = <<r4>> /\ store = Laid({r, n}, Reserved)
  BY <1>1 DEF Laying
<1>4. \/ todo'[lock] = <<r2, r3, r4>> /\ store' = Laid({r}, Nil)
      \/ todo'[lock] = <<r3, r4>> /\ store' = Laid({r}, Reserved)
      \/ todo'[lock] = <<r4>> /\ store' = Laid({r, n}, Reserved)
      \/ todo'[lock] = <<>> /\ store' = HostStore
  <2> HIDE DEF r1, r2, r3, r4, r, n, rev
  <2>1. CASE todo[lock] = <<r1, r2, r3, r4>> /\ store = Laid({}, Nil)
    <3>1. Head(todo[lock]) = r1 /\ Tail(todo[lock]) = <<r2, r3, r4>>
      BY <2>1
    <3> QED BY <1>1, <1>2, <2>1, <3>1
  <2>2. CASE todo[lock] = <<r2, r3, r4>> /\ store = Laid({r}, Nil)
    <3>1. Head(todo[lock]) = r2 /\ Tail(todo[lock]) = <<r3, r4>>
      BY <2>2
    <3> QED BY <1>1, <1>2, <2>2, <3>1
  <2>3. CASE todo[lock] = <<r3, r4>> /\ store = Laid({r}, Reserved)
    <3>1. Head(todo[lock]) = r3 /\ Tail(todo[lock]) = <<r4>>
      BY <2>3
    <3> QED BY <1>1, <1>2, <2>3, <3>1
  <2>4. CASE todo[lock] = <<r4>> /\ store = Laid({r, n}, Reserved)
    <3>1. Head(todo[lock]) = r4 /\ Tail(todo[lock]) = <<>>
      BY <2>4
    <3> QED BY <1>1, <1>2, <2>4, <3>1
  <2> QED BY <1>3, <2>1, <2>2, <2>3, <2>4
<1>5. todo'[lock'] = todo'[lock]
  OBVIOUS
<1> QED BY <1>4, <1>5 DEF Laying

LEMMA QuietFresh ==
  ASSUME FreshInv, lock' = lock, UNCHANGED <<store, late, slow>>,
         Stage' \notin {"wipe", "port", "records"},
         Stage' \in Ready => Stage \in Ready
  PROVE  FreshInv'
BY DEF FreshInv

LEMMA FreshStep ==
  ASSUME StartupTypeOK, FreshInv, [StartupNext]_vars
  PROVE  FreshInv'
<1>0. PlaceOK /\ RecordsTypeOK
  BY TypeParts
<1> USE DEF Ready, NFSState
<1>1. ASSUME NEW d \in Daemons, Works(d) PROVE FreshInv'
  <2>0. lock = d /\ lock' = d /\ d # Nil /\ Stage = pc[d] /\ Stage' = pc'[d]
    BY <1>0, <1>1, WorkStage, StartupConstants DEF Daemons
  <2>1. CASE Listen(d)
    <3>1. Stage = "listen" /\ UNCHANGED <<store, late, slow>>
      BY <2>0, <2>1 DEF Listen, Goto
    <3>2. \/ Stage' = "wipe" /\ todo'[d] = <<Wipe>>
          \/ Stage' = "etcdStop"
      BY <1>0, <1>1, <2>1, GotoStage DEF Listen, RecordsTypeOK, Daemons
    <3> QED BY <2>0, <3>1, <3>2 DEF FreshInv
  <2>2. CASE WipeRecords(d)
    <3>1. Stage = "wipe" /\ Stage' = "port" /\ todo[d] = <<Wipe>>
      BY <1>0, <1>1, <2>0, <2>2, GotoStage DEF WipeRecords, FreshInv
    <3>2. Head(todo[d]) = Wipe /\ Accepts(Wipe) /\ Applied(Wipe) = Laid({}, Nil)
      BY <3>1 DEF Accepts, Applied, Wipe, Laid
    <3>3. CASE Answered(d) /\ UNCHANGED slow
      BY <2>0, <3>1, <3>2, <3>3 DEF Answered, FreshInv
    <3>4. CASE Unanswered(d)
      BY <2>0, <3>1, <3>2, <3>4 DEF Unanswered, Refused, FreshInv
    <3> QED BY <2>2, <3>3, <3>4 DEF WipeRecords
  <2>3. CASE CheckPort(d)
    <3>1. Stage = "port" /\ UNCHANGED <<store, late, slow>>
      BY <2>0, <2>3 DEF CheckPort, Goto
    <3>2. CASE Stage' = "etcdStop"
      BY <2>0, <3>1, <3>2, QuietFresh
    <3>3. CASE /\ Goto(d, "port", "records")
               /\ todo' = [todo EXCEPT ![d] = addRecord(Reserved, HostAddress)
                                              \o addRecord(NameServer, HostAddress)]
      <4>1. Stage' = "records"
        BY <1>0, <1>1, <3>3, GotoStage
      <4>2. todo'[d] = <<Set(Path(Reserved), HostAddress), Set(Reverse(HostAddress), Reserved),
                         Set(Path(NameServer), HostAddress), Set(Reverse(HostAddress), NameServer)>>
        <5> DEFINE r1 == Set(Path(Reserved), HostAddress)
                   r2 == Set(Reverse(HostAddress), Reserved)
                   r3 == Set(Path(NameServer), HostAddress)
                   r4 == Set(Reverse(HostAddress), NameServer)
        <5>1. todo'[d] = addRecord(Reserved, HostAddress) \o addRecord(NameServer, HostAddress)
          BY <1>0, <3>3 DEF RecordsTypeOK, Daemons
        <5>2. /\ addRecord(Reserved, HostAddress) = <<r1, r2>>
              /\ addRecord(NameServer, HostAddress) = <<r3, r4>>
          BY DEF addRecord
        <5>0. {r1, r2, r3, r4} \subseteq Request
          BY LeavesAreKeys, RecordConstants DEF Set, Request
        <5> HIDE DEF r1, r2, r3, r4
        <5>3. <<r1, r2>> \o <<r3, r4>> = <<r1, r2, r3, r4>>
          BY <5>0, TwoAndTwo
        <5>4. todo'[d] = <<r1, r2, r3, r4>>
          BY <5>1, <5>2, <5>3
        <5> QED BY <5>4 DEF r1, r2, r3, r4
      <4>3. store = Laid({}, Nil) => Laying'
        BY <2>0, <3>1, <4>2 DEF Laying
      <4> QED BY <2>0, <3>1, <4>1, <4>3 DEF FreshInv
    <3> QED BY <1>0, <1>1, <2>3, <3>2, <3>3, GotoStage DEF CheckPort
  <2>4. CASE AddRecords(d)
    <3>1. Stage = "records"
      BY <2>0, <2>4 DEF AddRecords
    <3>2. CASE Answered(d) /\ UNCHANGED <<pc, slow>>
      <4>1. Stage' = "records" /\ late' = late
        BY <2>0, <3>1, <3>2 DEF Answered
      <4>2. Laying => Laying'
        BY <1>0, <2>0, <3>2, LayStep
      <4> QED BY <2>0, <3>1, <3>2, <4>1, <4>2 DEF FreshInv
    <3>3. CASE Unanswered(d) /\ Goto(d, "records", "etcdStop")
      <4>1. Stage' = "etcdStop"
        BY <1>0, <1>1, <3>3, GotoStage
      <4>2. \/ UNCHANGED <<store, late, slow>>
            \/ slow' = TRUE
        BY <3>3 DEF Unanswered, Refused, TimedOut
      <4> QED BY <2>0, <4>1, <4>2 DEF FreshInv
    <3>4. CASE ~Pending(d) /\ Goto(d, "records", "resolver") /\ UNCHANGED <<recordVars, slow>>
      <4>1. Stage' = "resolver" /\ UNCHANGED <<store, late>> /\ todo[d] = <<>>
        BY <1>0, <1>1, <3>4, GotoStage DEF Pending, recordVars
      <4>2. Laying => store = HostStore
        BY <2>0, <4>1 DEF Laying
      <4> QED BY <2>0, <3>1, <3>4, <4>1, <4>2 DEF FreshInv
    <3> QED BY <2>4, <3>2, <3>3, <3>4 DEF AddRecords
  <2>5. CASE CreateResolver(d) \/ PortForward(d) \/ NFS(d)
    <3>1. UNCHANGED <<store, late, slow>>
      BY <2>5 DEF CreateResolver, PortForward, NFS, ReadExports, Truncate, Fill, exportsCheck,
                  Refill, Load, recordVars
    <3>2. Stage \in Ready
      BY <2>0, <2>5 DEF CreateResolver, PortForward, NFS, ReadExports, Truncate, Fill,
                        exportsCheck, Refill, Load, Goto
    <3>3. Stage' \notin {"wipe", "port", "records"}
      BY <1>0, <2>0, <2>5 DEF CreateResolver, PortForward, NFS, ReadExports, Truncate, Fill,
                              exportsCheck, Refill, Load, GiveUpNFS, Goto, PlaceOK
    <3> QED BY <2>0, <3>1, <3>2, <3>3, QuietFresh
  <2>6. CASE ScanImages(d) \/ Stop(d) \/ RemoveResolver(d)
    <3>1. UNCHANGED <<store, late, slow>>
      BY <2>6 DEF ScanImages, Stop, RemoveResolver, recordVars
    <3>2. Stage' \in {"serving", "dnsStop", "etcdStop"}
      BY <1>0, <1>1, <2>6, GotoStage DEF ScanImages, Stop, RemoveResolver
    <3> QED BY <2>0, <3>1, <3>2, QuietFresh
  <2>7. CASE RemoveRecords(d)
    <3>1. Stage' \in {"dnsStop", "unresolve"}
      BY <1>0, <2>0, <2>7 DEF RemoveRecords, Goto, PlaceOK
    <3>2. \/ UNCHANGED <<late, slow>>
          \/ slow' = TRUE
      BY <2>7 DEF RemoveRecords, Answered, Unanswered, Refused, TimedOut, recordVars
    <3> QED BY <2>0, <3>1, <3>2 DEF FreshInv
  <2> QED BY <1>1, <2>1, <2>2, <2>3, <2>4, <2>5, <2>6, <2>7 DEF Works
<1>2. ASSUME NEW d \in Daemons, Start(d) PROVE FreshInv'
  <2>1. Stage' = Stage /\ lock' = lock /\ UNCHANGED <<store, todo, late, slow>>
    BY <1>0, <1>2, OtherStages DEF Start, recordVars
  <2> QED BY <2>1 DEF FreshInv, Laying
<1>3. ASSUME NEW d \in Daemons, NewServer(d) PROVE FreshInv'
  <2>1. Stage' = "listen" /\ lock = Nil /\ late' = late
    BY <1>0, <1>3, OtherStages DEF NewServer, recordVars
  <2> QED BY <2>1 DEF FreshInv
<1>4. ASSUME NEW d \in Daemons, Gone(d) PROVE FreshInv'
  <2>1. CASE lock = d
    <3>1. Stage' = "off" /\ late' = {}
      BY <1>0, <1>4, <2>1, OtherStages DEF Gone
    <3> QED BY <3>1 DEF FreshInv
  <2>2. CASE lock # d
    <3>1. Stage' = Stage /\ lock' = lock /\ UNCHANGED <<store, late, slow>>
      BY <1>0, <1>4, <2>2, OtherStages DEF Gone
    <3>2. Stage # "off" => todo'[lock] = todo[lock]
      BY <1>0, <1>4, <2>2 DEF Stage, Gone, RecordsTypeOK, PlaceOK, Daemons
    <3> QED BY <3>1, <3>2 DEF FreshInv, Laying
  <2> QED BY <2>1, <2>2
<1>5. CASE NameGuest
  <2>1. PICK d \in Daemons : pc[d] = "serving"
    BY <1>5 DEF NameGuest
  <2>2. Stage = "serving"
    BY <1>0, <2>1, HolderStage DEF Inside, PC
  <2>3. Stage' = "serving" /\ UNCHANGED <<late, lock, slow>>
    BY <1>5, <2>2 DEF NameGuest, Stage
  <2> QED BY <2>3 DEF FreshInv
<1>6. CASE LateReply
  <2>1. late # {} /\ late' \subseteq late /\ UNCHANGED <<todo, lock, pc, slow>>
    BY <1>6 DEF LateReply, LateApplied
  <2>2. Stage' = Stage /\ slow'
    BY <2>1 DEF Stage, FreshInv
  <2> QED BY <2>1, <2>2 DEF FreshInv
<1>7. CASE UNCHANGED vars
  BY <1>7 DEF vars, recordVars, FreshInv, Laying, Stage
<1> QED BY <1>1, <1>2, <1>3, <1>4, <1>5, <1>6, <1>7
        DEF StartupNext, Session, Works, Leave, Crash

-----------------------------------------------------------------------------
\* Every variable keeps its type, and no two processes are past NewServer at
\* once, however many are started.
THEOREM StartupTypeCorrect == StartupSpec => []StartupTypeOK
<1> QED BY InitTypes, StartupTypeStep, PTL DEF StartupSpec

SetupInv == StartupTypeOK /\ UserInv /\ SignInv /\ ResolverInv

LEMMA SetupInvariant == StartupSpec => []SetupInv
<1>1. StartupInit => SetupInv
  <2> SUFFICES ASSUME StartupInit PROVE SetupInv
    OBVIOUS
  <2>1. Stage = "off" /\ resolver = FALSE
    BY DEF StartupInit, Stage
  <2>2. "user" \in exports /\ (nfsd.up => "user" \in nfsd.serves)
    BY DEF StartupInit
  <2>3. UserInv
    BY <2>1, <2>2 DEF UserInv, NFSState
  <2>4. SignInv /\ ResolverInv
    BY <2>1 DEF SignInv, ResolverInv, Early, NFSState
  <2> QED BY <2>3, <2>4, InitTypes DEF SetupInv
<1>2. SetupInv /\ [StartupNext]_vars => SetupInv'
  BY StartupTypeStep, UserStep, SignStep, ResolverStep DEF SetupInv
<1> QED BY <1>1, <1>2, PTL DEF StartupSpec

\* Whatever crashes, is rolled back or is started a second time, the lines of
\* the user stay in /etc/exports and with nfsd, unless a write was cut short.
THEOREM UserLinesStay == StartupSpec => []UserLinesKept
<1>1. SetupInv => UserLinesKept
  <2> SUFFICES ASSUME SetupInv, ~torn, "user" \notin exports
               PROVE  \E d \in Daemons : pc[d] \in Writing
    BY DEF SetupInv, UserInv, UserLinesKept
  <2>1. Stage \in Writing
    BY DEF SetupInv, UserInv
  <2>2. lock \in Daemons /\ pc[lock] \in Writing
    BY <2>1 DEF Stage, Writing, SetupInv, StartupTypeOK
  <2> QED BY <2>2
<1> QED BY <1>1, SetupInvariant, PTL

LEMMA ServingStage ==
  ASSUME StartupTypeOK, NEW d \in Daemons, pc[d] = "serving"
  PROVE  Stage = "serving"
BY TypeParts, HolderStage DEF Inside, PC

\* WorkingNFS is only ever set over a file with the signature.
THEOREM WorkingIsExported == StartupSpec => []WorkingMeansExported
<1>1. SetupInv => WorkingMeansExported
  BY ServingStage DEF SetupInv, StartupTypeOK, SignInv, WorkingMeansExported
<1> QED BY <1>1, SetupInvariant, PTL

\* The resolver file outlives a daemon only after a crash or a port that could
\* not be forwarded.
THEOREM ResolverGoes == StartupSpec => []ResolverRemoved
<1>1. SetupInv => ResolverRemoved
  <2>1. lock = Nil => Stage \notin Covered
    BY DEF Stage, Covered, NFSState
  <2> QED BY <2>1 DEF SetupInv, StartupTypeOK, ResolverInv, ResolverRemoved
<1> QED BY <1>1, SetupInvariant, PTL

\* A session whose requests were all answered starts from the records of the
\* host alone.
THEOREM StartsFresh == StartupSpec => []FreshRecords
<1>1. StartupInit => FreshInv
  BY DEF StartupInit, FreshInv, Stage, Ready, NFSState
<1>2. FreshInv /\ StartupTypeOK => FreshRecords
  <2> SUFFICES ASSUME FreshInv, StartupTypeOK, NEW d \in Daemons, pc[d] \in Ready, ~slow
               PROVE  store = HostStore
    BY DEF FreshRecords
  <2>1. Stage \in Ready
    BY TypeParts, HolderStage DEF Ready, NFSState, Inside, PC
  <2> QED BY <2>1 DEF FreshInv
<1> QED BY <1>1, <1>2, FreshStep, StartupTypeCorrect, PTL DEF StartupSpec
-----------------------------------------------------------------------------
(***************************************************************************)
(* What nfsd serves.  The signature in /etc/exports is the only trace of   *)
(* an update, and it is written before nfsd is told: there are three ways  *)
(* in which a start that wrote it can leave the one without the other.     *)
(***************************************************************************)

\* It has put the signature into the file that a running nfsd once read.
Wrote(d) == nfsd.up /\ ~setup.shared

\* "nfsd update" fails; or the list of processes failed, and "nfsd start" does
\* nothing to the nfsd that runs.
LoadsUntold(d) == Wrote(d) /\ Load(d) /\ UNCHANGED nfsd

\* The process dies between the signature and the update.
DiesUntold(d) == Wrote(d) /\ Crash(d) /\ pc[d] \in {"check", "restore", "load"}

\* The file failed the check, and the write that was to restore it cannot open it.
StaysSigned(d) == Wrote(d) /\ Truncate(d) /\ pc[d] = "restore" /\ UNCHANGED exports

NothingUntold == \A d \in Daemons : ~LoadsUntold(d) /\ ~DiesUntold(d) /\ ~StaysSigned(d)

\* The steps of nfsSetup after it has read the file.
Underway == NFSState \ {"read"}

\* nfsd serves the home directory when the signature says so, unless a start is
\* about to tell it.
ToldInv ==
  "signature" \in exports /\ nfsd.up =>
    "signature" \in nfsd.serves \/ Stage \in {"check", "restore", "load"}

\* What nfsSetup read is still so.
ReadInv ==
  Stage \in Underway =>
    /\ setup.nfsIsRunning => nfsd.up
    /\ "signature" \in setup.buf => setup.shared = TRUE
    /\ setup.shared = TRUE /\ nfsd.up => "signature" \in nfsd.serves

ServedInv ==
  /\ ToldInv
  /\ ReadInv
  /\ Stage \in {"images", "serving"} /\ working = TRUE => "signature" \in nfsd.serves

LEMMA ServedStep ==
  ASSUME StartupTypeOK, SignInv, ServedInv, [StartupNext]_vars, [NothingUntold]_vars
  PROVE  ServedInv'
<1>0. PlaceOK /\ HostOK
  BY TypeParts
<1> USE DEF ServedInv, ToldInv, ReadInv, Underway, NFSState
<1>1. ASSUME NEW d \in Daemons, Works(d), NothingUntold PROVE ServedInv'
  <2>0. Stage = pc[d] /\ Stage' = pc'[d]
    BY <1>0, <1>1, WorkStage
  <2>1. CASE ReadExports(d)
    <3>1. Stage = "read" /\ UNCHANGED <<exports, nfsd, working>>
      BY <2>0, <2>1 DEF ReadExports, hostVars
    <3>2. CASE /\ Goto(d, "read", IF "signature" \in exports THEN "check" ELSE "truncate")
               /\ \E seen \in BOOLEAN : (seen => nfsd.up) /\ Reads(seen)
      <4>1. Stage' \in {"check", "truncate"}
        BY <1>0, <1>1, <3>2, GotoStage
      <4>2. PICK seen \in BOOLEAN : (seen => nfsd.up) /\ Reads(seen)
        BY <3>2
      <4>3. setup'.nfsIsRunning = seen /\ setup'.shared = ("signature" \in exports)
            /\ setup'.buf = exports
        BY <4>2 DEF Reads
      <4> QED BY <3>1, <4>1, <4>2, <4>3
    <3>3. CASE GiveUpNFS(d)
      BY <1>0, <1>1, <3>1, <3>3, GiveUpStage DEF SignInv, Early
    <3> QED BY <2>1, <3>2, <3>3 DEF ReadExports, Reads
  <2>2. CASE Truncate(d)
    <3>1. UNCHANGED <<nfsd, setup, working>> /\ working = FALSE
      BY <2>0, <2>2 DEF Truncate, Goto, SignInv, Early
    <3>2. CASE exports' = {} /\ Stage' \in {"fill", "refill"}
      <4>1. Stage \in {"truncate", "restore"}
        BY <2>0, <2>2 DEF Truncate, Goto
      <4> QED BY <3>1, <3>2, <4>1
    <3>3. CASE Stage' = "images" /\ UNCHANGED exports
      <4>1. CASE Stage = "truncate"
        BY <3>1, <3>3, <4>1
      <4>2. CASE Stage = "restore"
        <5>1. nfsd.up => setup.shared = TRUE
          BY <1>0, <1>1, <2>0, <2>2, <3>3, <4>2 DEF NothingUntold, StaysSigned, Wrote, HostOK
        <5> QED BY <3>1, <3>3, <4>2, <5>1
      <4> QED BY <2>0, <2>2, <4>1, <4>2 DEF Truncate, Goto
    <3> QED BY <1>0, <1>1, <2>2, <3>2, <3>3, GotoStage, GiveUpStage DEF Truncate
  <2>3. CASE Fill(d)
    <3>1. Stage = "fill" /\ UNCHANGED <<nfsd, setup, working>> /\ working = FALSE
      BY <2>0, <2>3 DEF Fill, SignInv, Early
    <3>2. Stage' = "check" \/ (Stage' = "images" /\ UNCHANGED exports)
      BY <1>0, <1>1, <2>3, GotoStage, GiveUpStage DEF Fill
    <3> QED BY <3>1, <3>2
  <2>4. CASE exportsCheck(d)
    <3>1. Stage = "check" /\ Stage' \in {"load", "restore"}
      BY <1>0, <1>1, <2>4, GotoStage DEF exportsCheck
    <3> QED BY <2>4, <3>1 DEF exportsCheck, hostVars
  <2>5. CASE Refill(d)
    <3>1. Stage = "refill" /\ Stage' = "images" /\ UNCHANGED <<nfsd, working>> /\ working = FALSE
      BY <1>0, <1>1, <2>0, <2>5, GiveUpStage DEF Refill, SignInv, Early
    <3>2. exports' = setup.buf \/ UNCHANGED exports
      BY <2>5 DEF Refill
    <3> QED BY <3>1, <3>2
  <2>6. CASE Load(d)
    <3>1. Stage = "load" /\ Stage' = "images" /\ UNCHANGED exports /\ "signature" \in exports
          /\ working = FALSE
      BY <1>0, <1>1, <2>6, GotoStage DEF Load, SignInv, Early
    <3>2. CASE nfsd' = [up |-> TRUE, serves |-> exports]
      BY <3>1, <3>2
    <3>3. CASE UNCHANGED nfsd
      <4>1. nfsd.up => setup.shared = TRUE
        BY <1>0, <1>1, <2>6, <3>3 DEF NothingUntold, LoadsUntold, Wrote, HostOK
      <4>2. nfsd.up => "signature" \in nfsd.serves
        BY <3>1, <4>1
      <4>3. working' = TRUE => nfsd.up
        <5>1. CASE setup.nfsIsRunning
          BY <3>1, <5>1
        <5>2. CASE working' = TRUE /\ nfsd' = [up |-> TRUE, serves |-> exports]
          BY <3>3, <5>2
        <5> QED BY <2>6, <3>1, <5>1, <5>2 DEF Load
      <4> QED BY <3>1, <3>3, <4>2, <4>3
    <3> QED BY <2>6, <3>2, <3>3 DEF Load
  <2>7. CASE ~NFS(d)
    <3>1. UNCHANGED <<exports, nfsd, setup, working>>
      BY <1>1, <2>7
         DEF Works, Listen, WipeRecords, CheckPort, AddRecords, CreateResolver, PortForward,
             ScanImages, Stop, RemoveRecords, RemoveResolver, hostVars
    <3>2. CASE Listen(d) \/ WipeRecords(d) \/ CheckPort(d) \/ AddRecords(d)
      <4>1. /\ Stage \in {"listen", "wipe", "port", "records"}
            /\ Stage' \in {"wipe", "port", "records", "resolver", "etcdStop"}
        BY <1>0, <2>0, <3>2 DEF Listen, WipeRecords, CheckPort, AddRecords, Goto, PlaceOK
      <4> QED BY <3>1, <4>1
    <3>3. CASE CreateResolver(d) \/ PortForward(d)
      <4>1. Stage \in {"resolver", "forward"} /\ Stage' \in {"forward", "read", "etcdStop"}
        BY <1>0, <2>0, <3>3 DEF CreateResolver, PortForward, Goto, PlaceOK
      <4> QED BY <3>1, <4>1
    <3>4. CASE ScanImages(d) \/ Stop(d) \/ RemoveRecords(d) \/ RemoveResolver(d)
      <4>1. /\ Stage \in {"images", "serving", "dnsStop", "unresolve"}
            /\ Stage' \in {"serving", "dnsStop", "unresolve", "etcdStop"}
            /\ Stage' = "serving" => Stage = "images"
        BY <1>0, <2>0, <3>4 DEF ScanImages, Stop, RemoveRecords, RemoveResolver, Goto, PlaceOK
      <4> QED BY <3>1, <4>1
    <3> QED BY <1>1, <2>7, <3>2, <3>3, <3>4 DEF Works
  <2> QED BY <2>1, <2>2, <2>3, <2>4, <2>5, <2>6, <2>7 DEF NFS
<1>2. ASSUME NEW d \in Daemons, Start(d) PROVE ServedInv'
  BY <1>0, <1>2, OtherStages DEF Start, hostVars
<1>3. ASSUME NEW d \in Daemons, NewServer(d) PROVE ServedInv'
  <2>1. Stage = "off" /\ Stage' = "listen" /\ UNCHANGED <<exports, nfsd>>
    BY <1>0, <1>3, OtherStages DEF NewServer, hostVars
  <2> QED BY <2>1
<1>4. ASSUME NEW d \in Daemons, Leave(d) \/ Crash(d), NothingUntold PROVE ServedInv'
  <2>0. Gone(d) /\ UNCHANGED <<exports, nfsd, working>>
    BY <1>4 DEF Leave, Crash, Gone, hostVars
  <2>1. CASE lock = d
    <3>1. Stage = pc[d] /\ Stage' = "off"
      BY <1>0, <2>0, <2>1, HolderStage, OtherStages
    <3>2. Stage \in {"check", "restore", "load"} /\ nfsd.up => "signature" \in nfsd.serves
      <4> SUFFICES ASSUME Stage \in {"check", "restore", "load"}, nfsd.up
                   PROVE  "signature" \in nfsd.serves
        OBVIOUS
      <4>1. Crash(d)
        BY <1>4, <3>1 DEF Leave
      <4>2. setup.shared
        BY <1>4, <3>1, <4>1 DEF NothingUntold, DiesUntold, Wrote
      <4>3. setup.shared = TRUE
        BY <1>0, <4>2 DEF HostOK
      <4> QED BY <4>3
    <3> QED BY <2>0, <3>1, <3>2
  <2>2. CASE lock # d
    <3>1. Stage' = Stage /\ setup' = setup
      BY <1>0, <2>0, <2>2, OtherStages DEF Gone
    <3> QED BY <2>0, <3>1
  <2> QED BY <2>1, <2>2
<1>5. CASE UNCHANGED <<hostVars, pc, lock, setup, working>>
  BY <1>5 DEF hostVars, Stage
<1>6. CASE UNCHANGED vars
  BY <1>5, <1>6 DEF vars
<1> QED BY <1>1, <1>2, <1>3, <1>4, <1>5, <1>6
        DEF StartupNext, Session, Works, NameGuest, LateReply

\* WorkingNFS means that nfsd serves the home directory, as long as no start that
\* wrote the signature went past the running nfsd: its update failed, or none was
\* seen; it died before; or its rollback could not open the file.  A
\* counterexample of run NFSServed needs one of these, whatever else crashes, is
\* cut short or is rolled back.
THEOREM ServedUnlessUntold == StartupSpec /\ [][NothingUntold]_vars => []WorkingMeansServed
<1>1. StartupInit => ServedInv
  <2> SUFFICES ASSUME StartupInit PROVE ServedInv
    OBVIOUS
  <2>1. Stage = "off" /\ "signature" \notin exports
    BY DEF StartupInit, Stage
  <2> QED BY <2>1 DEF ServedInv, ToldInv, ReadInv, Underway, NFSState
<1>2. SetupInv /\ ServedInv /\ [StartupNext]_vars /\ [NothingUntold]_vars => ServedInv'
  BY ServedStep DEF SetupInv
<1>3. SetupInv /\ ServedInv => WorkingMeansServed
  BY ServingStage DEF SetupInv, StartupTypeOK, ServedInv, WorkingMeansServed
<1> QED BY <1>1, <1>2, <1>3, SetupInvariant, PTL DEF StartupSpec
=============================================================================
