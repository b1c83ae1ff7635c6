-------------------------- MODULE AdmissionProofs --------------------------
(***************************************************************************)
(* Proofs about Admission, for any number of clients, definitions and      *)
(* volumes.  The invariant says how far each definition has come: what is  *)
(* registered lies behind its client's position, what is ahead of it has   *)
(* no volume yet, and only the definition at the position is written to.   *)
(***************************************************************************)
EXTENDS Admission, FiniteSetTheorems, TLAPS

USE DEF vars

Early == {"idle", "memory", "uuid", "mac"}
Settled == {"boot", "done", "failed"}

ProgressInv ==
  \A c \in Clients :
    /\ client[c].pc = "mac" => client[c].tries < 3
    /\ client[c].pc \in {"mac", "volumes", "register"} => vm[Current(c)].uuid # Nil

OrderInv ==
  \A c \in Clients : \A i \in DOMAIN Plan[c] :
    /\ Plan[c][i] \in running =>
         i < client[c].at \/ (i = client[c].at /\ client[c].pc \in Settled)
    /\ i > client[c].at \/ (i = client[c].at /\ client[c].pc \in Early) =>
         vm[Plan[c][i]].drives = <<>>

ActiveInv ==
  \A u \in AllUUIDs : active[u] # Nil => active[u] \in running /\ vm[active[u]].uuid = u

\* What a command has attached so far is attached to nothing else it started.
CheckedInv ==
  \A c \in Clients : client[c].pc \in {"volumes", "register"} =>
    \A w \in Listed : OfOnePlan(w, Current(c)) => Attached(w) \cap Attached(Current(c)) = {}

Sound(v) ==
  \A i, j \in DOMAIN vm[v].drives :
    /\ vm[v].drives[i].path = vm[v].drives[j].path => i = j
    /\ vm[v].drives[i].format = "qcow2" => Header[vm[v].drives[i].path] = "qcow2"
    /\ vm[v].drives[i].format = "raw" =>
         \E k \in DOMAIN vm[v].drives : /\ k \in Deciding(v, i)
                                        /\ Header[vm[v].drives[k].path] = "raw"

PlanInv == AdmissionTypeOK /\ ProgressInv /\ OrderInv /\ ActiveInv

-----------------------------------------------------------------------------
LEMMA CurrentInPlan ==
  ASSUME AdmissionTypeOK, NEW c \in Clients
  PROVE  /\ client[c].at \in DOMAIN Plan[c] /\ client[c].at \in Nat
         /\ Plan[c][client[c].at] = Current(c)
         /\ Current(c) \in VMs
<1>1. client[c].at \in DOMAIN Plan[c] /\ Plan[c] \in Seq(VMs)
  BY AdmissionConstants DEF AdmissionTypeOK
<1> QED BY <1>1 DEF Current, AdmissionTypeOK

LEMMA OneOwner ==
  ASSUME NEW c \in Clients, NEW d \in Clients, NEW i \in DOMAIN Plan[c], NEW j \in DOMAIN Plan[d],
         Plan[c][i] = Plan[d][j]
  PROVE  c = d /\ i = j
  BY AdmissionConstants

\* A command writes to one definition, which no other has and which does not run.
LEMMA CurrentIsOwn ==
  ASSUME PlanInv, NEW c \in Clients, client[c].pc \notin Settled
  PROVE  /\ Current(c) \notin running
         /\ \A d \in Clients : \A i \in DOMAIN Plan[d] :
              Plan[d][i] = Current(c) => d = c /\ i = client[c].at
<1> USE DEF PlanInv
<1>1. client[c].at \in DOMAIN Plan[c] /\ client[c].at \in Nat /\ Plan[c][client[c].at] = Current(c)
  BY CurrentInPlan
<1>2. Current(c) \notin running
  BY <1>1 DEF OrderInv
<1> QED BY <1>1, <1>2, OneOwner

LEMMA ListedAreVMs == ASSUME AdmissionTypeOK PROVE Listed \subseteq VMs
  BY DEF AdmissionTypeOK, Listed

-----------------------------------------------------------------------------
(***************************************************************************)
(* What the steps of a command write, in one form for those that write     *)
(* alike.                                                                  *)
(***************************************************************************)

Moved(c, pc, at, n) == client' = [client EXCEPT ![c] = [pc |-> pc, at |-> at, tries |-> n]]

Filled(c, u, m, l) ==
  /\ vm' = [vm EXCEPT ![Current(c)] = [uuid |-> u, mac |-> m, drives |-> l]]
  /\ UNCHANGED <<active, running>>

\* Begin, GiveUp, CheckMemory, Lookup, Answer, and the volume that is refused.
Stays(c) ==
  /\ \E pc \in PC, at \in Nat :
       /\ Moved(c, pc, at, client[c].tries)
       /\ \/ /\ at = client[c].at
             /\ \/ pc \in Settled
                \/ client[c].pc \in Early /\ pc \in {"memory", "uuid"}
                \/ client[c].pc = "volumes" /\ pc = "register"
          \/ /\ at = client[c].at + 1 /\ at \in DOMAIN Plan[c]
             /\ client[c].pc \in Settled /\ pc = "memory"
  /\ UNCHANGED <<vm, active, running>>

\* The third UUID is drawn because the second was taken.
LastRefused(c) ==
  client[c].pc = "mac" /\ client[c].tries = 2 /\ active[vm[Current(c)].uuid] # Nil

\* CheckUUID and FindMAC.
Names(c) ==
  \E pc \in {"mac", "volumes", "failed"}, n \in 0 .. 3,
     u \in AllUUIDs, m \in AllUUIDs \cup {Nil} :
    /\ Moved(c, pc, client[c].at, n)
    /\ Filled(c, u, m, vm[Current(c)].drives)
    /\ pc = "mac" => n < 3
    /\ client[c].pc \in Early
    /\ u \in {vm[Current(c)].uuid} \cup Uuids \cup {Drawn(Current(c), k) : k \in 0 .. 3}
    /\ pc = "mac" /\ n > 0 => u = Drawn(Current(c), n)
    /\ pc = "volumes" => m \in {Nil, u} \/ LastRefused(c)

\* The last volume that was attached was no root volume, and taken for raw.
AfterRaw(v) ==
  LET n == Len(vm[v].drives) IN n > Len(RootDisk(v)) /\ vm[v].drives[n].format = "raw"

\* AttachVolume, when the volume is accepted.
Attaches(c) ==
  \E p \in Paths, f \in Formats :
    /\ UNCHANGED client
    /\ client[c].pc = "volumes"
    /\ Filled(c, vm[Current(c)].uuid, vm[Current(c)].mac,
              Append(vm[Current(c)].drives, [path |-> p, format |-> f]))
    /\ p \notin Attached(Current(c))
    /\ \A w \in Listed : p \notin Attached(w)
    /\ f = "qcow2" => Header[p] = "qcow2"
    /\ f = "raw" => Header[p] = "raw" \/ AfterRaw(Current(c))

LEMMA MovesOnly ==
  ASSUME AdmissionTypeOK, NEW c \in Clients, NEW pc
  PROVE  Goto(c, pc) => Moved(c, pc, client[c].at, client[c].tries)
<1>1. [client[c] EXCEPT !.pc = pc] = [pc |-> pc, at |-> client[c].at, tries |-> client[c].tries]
  BY DEF AdmissionTypeOK
<1> QED BY <1>1, Zenon DEF Goto, Moved

LEMMA StaysForm ==
  ASSUME AdmissionTypeOK, NEW c \in Clients,
         Begin(c) \/ GiveUp(c) \/ CheckMemory(c) \/ Lookup(c) \/ Answer(c)
  PROVE  Stays(c)
<1>0. client[c].at \in Nat /\ client[c].at \in DOMAIN Plan[c] /\ Plan[c] \in Seq(VMs)
  BY CurrentInPlan, AdmissionConstants
<1>1. CASE Begin(c)
  BY <1>0, <1>1, MovesOnly DEF Begin, Stays, Early, PC
<1>2. CASE GiveUp(c)
  BY <1>0, <1>2, MovesOnly DEF GiveUp, Stays, Settled, PC
<1>3. CASE CheckMemory(c)
  <2>1. PICK pc \in {"uuid", "failed"} : Goto(c, pc)
    BY <1>3 DEF CheckMemory
  <2> QED BY <1>0, <1>3, <2>1, MovesOnly DEF CheckMemory, Stays, Settled, Early, PC
<1>4. CASE Lookup(c)
  <2>1. PICK pc \in {"register", "failed"} : Goto(c, pc)
    BY <1>4 DEF Lookup
  <2> QED BY <1>0, <1>4, <2>1, MovesOnly DEF Lookup, Stays, Settled, PC
<1>5. CASE Answer(c)
  <2>1. CASE Goto(c, "failed") \/ Goto(c, "done")
    BY <1>0, <1>5, <2>1, MovesOnly DEF Answer, Stays, Settled, PC
  <2>2. CASE ~IsLast(c) /\ client' = [client EXCEPT ![c].pc = "memory", ![c].at = @ + 1]
    <3>1. client[c].at + 1 \in DOMAIN Plan[c] /\ client[c].at + 1 \in Nat
      BY <1>0, <2>2 DEF IsLast
    <3>2. Moved(c, "memory", client[c].at + 1, client[c].tries)
      BY <2>2 DEF Moved, AdmissionTypeOK
    <3> QED BY <1>5, <3>1, <3>2 DEF Answer, Stays, Settled, PC
  <2> QED BY <1>5, <2>1, <2>2 DEF Answer
<1> QED BY <1>1, <1>2, <1>3, <1>4, <1>5

LEMMA ClientUpdate ==
  ASSUME AdmissionTypeOK, NEW c \in Clients, NEW pc, NEW n
  PROVE  [[client[c] EXCEPT !.pc = pc] EXCEPT !.tries = n]
           = [pc |-> pc, at |-> client[c].at, tries |-> n]
<1> DEFINE x == [client[c] EXCEPT !.pc = pc]
<1>1. x = [pc |-> pc, at |-> client[c].at, tries |-> client[c].tries]
  BY DEF AdmissionTypeOK
<1>2. x \in [pc : {pc}, at : {client[c].at}, tries : {client[c].tries}]
  BY <1>1
<1>3. x.pc = pc /\ x.at = client[c].at
  BY <1>1
<1> HIDE DEF x
<1>4. [x EXCEPT !.tries = n] = [pc |-> x.pc, at |-> x.at, tries |-> n]
  BY <1>2
<1> QED BY <1>3, <1>4 DEF x

LEMMA VMUpdate ==
  ASSUME AdmissionTypeOK, NEW v \in VMs, NEW u, NEW m, NEW l
  PROVE  /\ [vm[v] EXCEPT !.uuid = u] = [uuid |-> u, mac |-> vm[v].mac, drives |-> vm[v].drives]
         /\ [vm[v] EXCEPT !.mac = m] = [uuid |-> vm[v].uuid, mac |-> m, drives |-> vm[v].drives]
         /\ [vm[v] EXCEPT !.drives = l] = [uuid |-> vm[v].uuid, mac |-> vm[v].mac, drives |-> l]
<1>1. [vm[v] EXCEPT !.uuid = u] = [uuid |-> u, mac |-> vm[v].mac, drives |-> vm[v].drives]
  BY DEF AdmissionTypeOK
<1>2. [vm[v] EXCEPT !.mac = m] = [uuid |-> vm[v].uuid, mac |-> m, drives |-> vm[v].drives]
  BY DEF AdmissionTypeOK
<1>3. [vm[v] EXCEPT !.drives = l] = [uuid |-> vm[v].uuid, mac |-> vm[v].mac, drives |-> l]
  BY DEF AdmissionTypeOK
<1> QED BY <1>1, <1>2, <1>3

LEMMA VMRename ==
  ASSUME AdmissionTypeOK, NEW v \in VMs, NEW u, NEW m
  PROVE  [[vm[v] EXCEPT !.uuid = u] EXCEPT !.mac = m]
           = [uuid |-> u, mac |-> m, drives |-> vm[v].drives]
<1> DEFINE x == [vm[v] EXCEPT !.uuid = u]
<1>1. x = [uuid |-> u, mac |-> vm[v].mac, drives |-> vm[v].drives]
  BY VMUpdate
<1>2. x \in [uuid : {u}, mac : {vm[v].mac}, drives : {vm[v].drives}]
  BY <1>1
<1>3. x.uuid = u /\ x.drives = vm[v].drives
  BY <1>1
<1> HIDE DEF x
<1>4. [x EXCEPT !.mac = m] = [uuid |-> x.uuid, mac |-> m, drives |-> x.drives]
  BY <1>2
<1> QED BY <1>3, <1>4 DEF x

LEMMA NamesForm ==
  ASSUME AdmissionTypeOK, ProgressInv, NEW c \in Clients, CheckUUID(c) \/ FindMAC(c)
  PROVE  Names(c)
<1> DEFINE v == Current(c)
           at == client[c].at
<1>0. v \in VMs
  BY CurrentInPlan
<1>1. CASE CheckUUID(c)
  <2>1. PICK u \in AllUUIDs, pc \in {"mac", "failed"} :
          /\ vm' = [vm EXCEPT ![v].uuid = u]
          /\ client' = [client EXCEPT ![c].pc = pc, ![c].tries = 0]
          /\ u \in Uuids \cup {Drawn(v, k) : k \in 0 .. 3}
    <3>1. (IF UUIDGiven[v] = Random THEN Drawn(v, 0) ELSE UUIDGiven[v])
            \in AllUUIDs \cap (Uuids \cup {Drawn(v, k) : k \in 0 .. 3})
      BY <1>0, AdmissionConstants DEF Drawn, AllUUIDs
    <3> QED BY <1>1, <3>1 DEF CheckUUID
  <2>2. Filled(c, u, vm[v].mac, vm[v].drives)
    BY <1>0, <1>1, <2>1, VMUpdate, Zenon DEF Filled, CheckUUID
  <2>3. Moved(c, pc, at, 0)
    <3>1. client' = [client EXCEPT ![c] = [[client[c] EXCEPT !.pc = pc] EXCEPT !.tries = 0]]
      BY <2>1 DEF AdmissionTypeOK
    <3>2. [[client[c] EXCEPT !.pc = pc] EXCEPT !.tries = 0] = [pc |-> pc, at |-> at, tries |-> 0]
      BY ClientUpdate
    <3> QED BY <3>1, <3>2, Zenon DEF Moved
  <2>4. vm[v].mac \in AllUUIDs \cup {Nil}
    BY <1>0 DEF AdmissionTypeOK
  <2> QED BY <1>1, <2>1, <2>2, <2>3, <2>4 DEF Names, CheckUUID, Early
<1>2. CASE FindMAC(c) /\ Derived(c)
  <2>1. vm[v].uuid \in AllUUIDs /\ client[c].tries \in 0 .. 3
    BY <1>0, <1>2 DEF FindMAC, ProgressInv, AdmissionTypeOK
  <2>2. Filled(c, vm[v].uuid, vm[v].uuid, vm[v].drives)
    BY <1>0, <1>2, VMUpdate, Zenon DEF Filled, FindMAC, Derived
  <2>3. Moved(c, "volumes", at, client[c].tries)
    BY <1>2, MovesOnly DEF Derived
  <2> QED BY <1>2, <2>1, <2>2, <2>3 DEF Names, FindMAC, Early
<1>3. ASSUME NEW out \in {"mac", "error", "silent"}, FindMAC(c), Redrawn(c, out)
      PROVE  Names(c)
  <2> DEFINE n == client[c].tries + 1
             u == Drawn(v, n)
             m == IF out = "mac" THEN vm[v].uuid ELSE Nil
  <2>1. n \in 1 .. 3
    BY <1>3 DEF FindMAC, ProgressInv, AdmissionTypeOK
  <2>2. u \in AllUUIDs /\ m \in AllUUIDs \cup {Nil}
    BY <1>0, <2>1 DEF Drawn, AllUUIDs, AdmissionTypeOK
  <2>3. Filled(c, u, m, vm[v].drives)
    <3>1. vm' = [vm EXCEPT ![v] = [[vm[v] EXCEPT !.uuid = u] EXCEPT !.mac = m]]
      BY <1>3 DEF Redrawn
    <3> HIDE DEF u, m
    <3>2. [[vm[v] EXCEPT !.uuid = u] EXCEPT !.mac = m]
            = [uuid |-> u, mac |-> m, drives |-> vm[v].drives]
      BY <1>0, VMRename
    <3> QED BY <1>3, <3>1, <3>2, Zenon DEF Filled, FindMAC
  <2>4. PICK pc \in {"mac", "volumes", "failed"} :
          /\ client' = [client EXCEPT ![c].pc = pc, ![c].tries = n]
          /\ pc = "mac" => n < 3
          /\ pc = "volumes" => n = 3 /\ out # "error"
    <3> DEFINE pc == IF n < Tries THEN "mac" ELSE IF out = "error" THEN "failed" ELSE "volumes"
    <3>1. /\ pc \in {"mac", "volumes", "failed"} /\ (pc = "mac" => n < 3)
          /\ pc = "volumes" => n = 3 /\ out # "error"
      BY <2>1 DEF Tries
    <3>2. client' = [client EXCEPT ![c].pc = pc, ![c].tries = n]
      BY <1>3, Zenon DEF Redrawn
    <3> HIDE DEF pc
    <3> QED BY <3>1, <3>2
  <2>5. Moved(c, pc, at, n)
    <3>1. client' = [client EXCEPT ![c] = [[client[c] EXCEPT !.pc = pc] EXCEPT !.tries = n]]
      BY <2>4 DEF AdmissionTypeOK
    <3>2. [[client[c] EXCEPT !.pc = pc] EXCEPT !.tries = n] = [pc |-> pc, at |-> at, tries |-> n]
      BY ClientUpdate
    <3> QED BY <3>1, <3>2, Zenon DEF Moved
  <2>6. ASSUME pc = "volumes" PROVE m \in {Nil, u} \/ LastRefused(c)
    <3>1. client[c].pc = "mac" /\ client[c].tries = 2
      BY <1>3, <2>4, <2>6, SMTT(30) DEF FindMAC, AdmissionTypeOK
    <3>2. CASE out = "mac"
      BY <1>3, <3>1, <3>2 DEF Redrawn, LastRefused
    <3>3. CASE out = "silent"
      BY <3>3
    <3> QED BY <2>4, <2>6, <3>2, <3>3
  <2>7. u \in {Drawn(v, k) : k \in 0 .. 3} /\ u = Drawn(v, n)
    BY <2>1
  <2> HIDE DEF u, m, n
  <2> QED BY <1>3, <2>1, <2>2, <2>3, <2>4, <2>5, <2>6, <2>7 DEF Names, FindMAC, Early
<1> QED BY <1>1, <1>2, <1>3 DEF FindMAC

LEMMA DisksArePaths == ASSUME NEW v \in VMs PROVE Disks(v) \in Seq(Paths)
<1>1. RootDisk(v) \in Seq(Paths)
  BY AdmissionConstants DEF RootDisk
<1> QED BY <1>1, AdmissionConstants DEF Disks

\* What ValidateQcow2 accepts has the magic and the header that its fields
\* announce, for any size, version and header length.
LEMMA AcceptedIsImage ==
  ASSUME NEW f \in File, ValidateQcow2(f) = "qcow2"
  PROVE  IsImage(f)
BY DEF ValidateQcow2, IsImage, File, Reads, Offset, HeaderLength, IsV3, V2HeaderSize, V3HeaderSize

LEMMA HeaderKinds == ASSUME NEW p \in Paths PROVE Header[p] \in Formats \cup {"broken"}
BY DEF Header, Formats, ValidateQcow2

LEMMA AttachForm ==
  ASSUME AdmissionTypeOK, NEW c \in Clients, AttachVolume(c)
  PROVE  Stays(c) \/ Attaches(c)
<1> DEFINE v == Current(c)
           k == Len(vm[v].drives) + 1
           p == Disks(v)[k]
<1>0. v \in VMs /\ vm[v].drives \in Seq(Drive)
  BY CurrentInPlan DEF AdmissionTypeOK
<1>1. p \in Paths
  <2>1. k \in Nat \ {0} /\ k <= Len(Disks(v))
    BY <1>0 DEF AttachVolume
  <2> QED BY <1>0, <2>1, DisksArePaths
<1>2. CASE Attachable(v, p)
  <2> DEFINE f == FormatOf(v, p)
  <2>1. f \in Formats /\ (f = "qcow2" => Header[p] # "raw")
    BY DEF FormatOf, Formats
  <2>6. f = "raw" => Header[p] = "raw" \/ AfterRaw(v)
    <3>1. k - 1 = Len(vm[v].drives)
      BY <1>0
    <3> QED BY <3>1 DEF FormatOf, AfterRaw
  <2>2. /\ UNCHANGED <<client, active, running>> /\ client[c].pc = "volumes"
        /\ vm' = [vm EXCEPT ![v].drives = Append(vm[v].drives, [path |-> p, format |-> f])]
    BY <1>2 DEF AttachVolume
  <2>3. Filled(c, vm[v].uuid, vm[v].mac, Append(vm[v].drives, [path |-> p, format |-> f]))
    BY <1>0, <2>2, VMUpdate, Zenon DEF Filled
  <2>4. p \notin Attached(v) /\ (\A w \in Listed : p \notin Attached(w)) /\ Header[p] # "broken"
    BY <1>2 DEF Attachable, InUse
  <2>5. f = "qcow2" => Header[p] = "qcow2"
    BY <1>1, <2>1, <2>4, HeaderKinds DEF Formats
  <2> HIDE DEF f, p
  <2> QED BY <1>1, <2>1, <2>2, <2>3, <2>4, <2>5, <2>6 DEF Attaches
<1>3. CASE ~Attachable(v, p)
  <2>1. Goto(c, "failed") /\ UNCHANGED <<vm, active, running>>
    BY <1>3 DEF AttachVolume
  <2> QED BY <2>1, MovesOnly, CurrentInPlan DEF Stays, Settled, PC
<1> QED BY <1>2, <1>3

LEMMA NextForm ==
  ASSUME AdmissionTypeOK, ProgressInv, Next
  PROVE  \/ \E c \in Clients : Stays(c) \/ Names(c) \/ Attaches(c) \/ Register(c)
         \/ \E v \in VMs : End(v)
  BY StaysForm, NamesForm, AttachForm DEF Next, Command

-----------------------------------------------------------------------------
(***************************************************************************)
(* Each part of the invariant is kept by each form of step.                *)
(***************************************************************************)

\* A definition that is filled in is not one that runs, or is listed.
LEMMA FilledOther ==
  ASSUME PlanInv, NEW c \in Clients, client[c].pc \notin Settled,
         NEW u, NEW m, NEW l, Filled(c, u, m, l)
  PROVE  /\ \A w \in VMs : w # Current(c) => vm'[w] = vm[w]
         /\ vm'[Current(c)] = [uuid |-> u, mac |-> m, drives |-> l]
         /\ \A w \in running : w # Current(c) /\ vm'[w] = vm[w]
         /\ UNCHANGED <<active, running>>
<1>1. Current(c) \in VMs /\ Current(c) \notin running
  BY CurrentInPlan, CurrentIsOwn DEF PlanInv
<1>2. running \subseteq VMs /\ DOMAIN vm = VMs
  BY DEF PlanInv, AdmissionTypeOK
<1> QED BY <1>1, <1>2 DEF Filled

LEMMA UnsettledForms ==
  ASSUME NEW c \in Clients, Names(c) \/ Attaches(c) \/ Register(c)
  PROVE  client[c].pc \notin Settled
  BY DEF Names, Attaches, Register, Early, Settled

LEMMA TypeStep ==
  ASSUME PlanInv, Next
  PROVE  AdmissionTypeOK'
<1> USE DEF PlanInv
<1>1. ASSUME NEW c \in Clients, Stays(c) PROVE AdmissionTypeOK'
  <2>1. client[c].at \in DOMAIN Plan[c]
    BY CurrentInPlan
  <2>2. PICK pc \in PC, at \in Nat : Moved(c, pc, at, client[c].tries) /\ at \in DOMAIN Plan[c]
    BY <1>1, <2>1 DEF Stays
  <2> QED BY <1>1, <2>2 DEF Stays, Moved, AdmissionTypeOK
<1>2. ASSUME NEW c \in Clients, Names(c) PROVE AdmissionTypeOK'
  <2>1. PICK pc \in {"mac", "volumes", "failed"}, n \in 0 .. 3,
             u \in AllUUIDs, m \in AllUUIDs \cup {Nil} :
          Moved(c, pc, client[c].at, n) /\ Filled(c, u, m, vm[Current(c)].drives)
    BY <1>2 DEF Names
  <2>2. /\ client' \in [Clients -> [pc : PC, at : Nat, tries : 0 .. 3]]
        /\ \A d \in Clients : client'[d].at \in DOMAIN Plan[d]
    BY <2>1, CurrentInPlan DEF Moved, AdmissionTypeOK, PC
  <2>3. /\ vm' \in [VMs -> [uuid : AllUUIDs \cup {Nil}, mac : AllUUIDs \cup {Nil},
                            drives : Seq(Drive)]]
        /\ UNCHANGED <<active, running>>
    BY <2>1, CurrentInPlan DEF Filled, AdmissionTypeOK
  <2>4. \A v \in running' : vm'[v].uuid # Nil
    BY <1>2, <2>1, FilledOther, UnsettledForms DEF AdmissionTypeOK
  <2> QED BY <2>2, <2>3, <2>4 DEF AdmissionTypeOK
<1>3. ASSUME NEW c \in Clients, Attaches(c) PROVE AdmissionTypeOK'
  <2>1. PICK p \in Paths, f \in Formats :
          /\ UNCHANGED client
          /\ Filled(c, vm[Current(c)].uuid, vm[Current(c)].mac,
                    Append(vm[Current(c)].drives, [path |-> p, format |-> f]))
    BY <1>3 DEF Attaches
  <2> DEFINE l == Append(vm[Current(c)].drives, [path |-> p, format |-> f])
  <2>2. l \in Seq(Drive)
    <3>1. vm[Current(c)].drives \in Seq(Drive)
      BY CurrentInPlan DEF AdmissionTypeOK
    <3>2. [path |-> p, format |-> f] \in Drive
      BY DEF Drive
    <3> QED BY <3>1, <3>2
  <2> HIDE DEF l
  <2>3. /\ vm' \in [VMs -> [uuid : AllUUIDs \cup {Nil}, mac : AllUUIDs \cup {Nil},
                            drives : Seq(Drive)]]
        /\ UNCHANGED <<active, running>>
    BY <2>1, <2>2, CurrentInPlan DEF Filled, AdmissionTypeOK, l
  <2>4. \A v \in running' : vm'[v].uuid # Nil
    BY <1>3, <2>1, FilledOther, UnsettledForms DEF AdmissionTypeOK
  <2> QED BY <2>1, <2>3, <2>4 DEF AdmissionTypeOK
<1>4. ASSUME NEW c \in Clients, Register(c) PROVE AdmissionTypeOK'
  <2>1. Current(c) \in VMs /\ vm[Current(c)].uuid # Nil
    BY <1>4, CurrentInPlan DEF Register, ProgressInv
  <2>2. vm[Current(c)].uuid \in AllUUIDs
    BY <2>1 DEF AdmissionTypeOK
  <2>3. /\ client' \in [Clients -> [pc : PC, at : Nat, tries : 0 .. 3]]
        /\ \A d \in Clients : client'[d].at \in DOMAIN Plan[d]
    BY <1>4 DEF Register, Goto, AdmissionTypeOK, PC
  <2> QED BY <1>4, <2>1, <2>2, <2>3 DEF Register, AdmissionTypeOK
<1>5. ASSUME NEW v \in VMs, End(v) PROVE AdmissionTypeOK'
  BY <1>5 DEF End, AdmissionTypeOK
<1> QED BY <1>1, <1>2, <1>3, <1>4, <1>5, NextForm

LEMMA ProgressStep ==
  ASSUME PlanInv, Next
  PROVE  ProgressInv'
<1> USE DEF PlanInv, ProgressInv, Current
<1>1. ASSUME NEW c \in Clients, Stays(c) PROVE ProgressInv'
  BY <1>1 DEF Stays, Moved, AdmissionTypeOK, Settled, Early
<1>2. ASSUME NEW c \in Clients, Names(c) PROVE ProgressInv'
  <2>1. PICK pc \in {"mac", "volumes", "failed"}, n \in 0 .. 3,
             u \in AllUUIDs, m \in AllUUIDs \cup {Nil} :
          /\ Moved(c, pc, client[c].at, n) /\ (pc = "mac" => n < 3)
          /\ Filled(c, u, m, vm[Current(c)].drives)
    BY <1>2 DEF Names
  <2>2. \A d \in Clients : Current(d)' = Current(d)
    BY <2>1 DEF Moved, AdmissionTypeOK
  <2>3. \A d \in Clients : vm'[Current(d)].uuid = IF Current(d) = Current(c) THEN u
                                                ELSE vm[Current(d)].uuid
    BY <2>1, CurrentInPlan DEF Filled, AdmissionTypeOK
  <2>4. u # Nil
    BY AdmissionConstants DEF AllUUIDs
  <2> QED BY <2>1, <2>2, <2>3, <2>4 DEF Moved, AdmissionTypeOK
<1>3. ASSUME NEW c \in Clients, Attaches(c) PROVE ProgressInv'
  <2>1. PICK l : vm' = [vm EXCEPT ![Current(c)] = [uuid |-> vm[Current(c)].uuid,
                                                   mac |-> vm[Current(c)].mac, drives |-> l]]
    BY <1>3 DEF Attaches, Filled
  <2>2. UNCHANGED client
    BY <1>3 DEF Attaches
  <2>3. \A w \in VMs : vm'[w].uuid = vm[w].uuid
    BY <2>1, CurrentInPlan DEF AdmissionTypeOK
  <2>4. \A d \in Clients : Current(d)' = Current(d) /\ Current(d) \in VMs
    BY <2>2, CurrentInPlan
  <2> QED BY <2>2, <2>3, <2>4
<1>4. ASSUME NEW c \in Clients, Register(c) PROVE ProgressInv'
  BY <1>4 DEF Register, Goto, AdmissionTypeOK
<1>5. ASSUME NEW v \in VMs, End(v) PROVE ProgressInv'
  BY <1>5 DEF End
<1> QED BY <1>1, <1>2, <1>3, <1>4, <1>5, NextForm

LEMMA OrderStep ==
  ASSUME PlanInv, Next
  PROVE  OrderInv'
<1> USE DEF PlanInv
<1>0. \A c \in Clients : Plan[c] \in Seq(VMs)
  BY AdmissionConstants
<1>1. ASSUME NEW c \in Clients, Stays(c), NEW d \in Clients, NEW i \in DOMAIN Plan[d]
      PROVE  /\ Plan[d][i] \in running' =>
                  i < client'[d].at \/ (i = client'[d].at /\ client'[d].pc \in Settled)
             /\ i > client'[d].at \/ (i = client'[d].at /\ client'[d].pc \in Early) =>
                  vm'[Plan[d][i]].drives = <<>>
  <2>1. PICK pc \in PC, at \in Nat :
          /\ Moved(c, pc, at, client[c].tries)
          /\ \/ /\ at = client[c].at
                /\ \/ pc \in Settled
                   \/ client[c].pc \in Early /\ pc \in {"memory", "uuid"}
                   \/ client[c].pc = "volumes" /\ pc = "register"
             \/ /\ at = client[c].at + 1 /\ at \in DOMAIN Plan[c]
                /\ client[c].pc \in Settled /\ pc = "memory"
    BY <1>1 DEF Stays
  <2>2. UNCHANGED <<vm, running>>
    BY <1>1 DEF Stays
  <2>3. i \in Nat /\ client[d].at \in Nat
    BY <1>0 DEF AdmissionTypeOK
  <2>4. CASE d = c
    <3>1. client'[d].pc = pc /\ client'[d].at = at
      BY <2>1, <2>4 DEF Moved, AdmissionTypeOK
    <3> QED BY <2>1, <2>2, <2>3, <2>4, <3>1 DEF OrderInv, Settled, Early
  <2>5. CASE d # c
    <3>1. client'[d] = client[d]
      BY <2>1, <2>5 DEF Moved, AdmissionTypeOK
    <3> QED BY <2>2, <3>1 DEF OrderInv
  <2> QED BY <2>4, <2>5
<1>2. ASSUME NEW c \in Clients, Names(c) \/ Attaches(c) \/ Register(c),
             NEW d \in Clients, NEW i \in DOMAIN Plan[d]
      PROVE  /\ Plan[d][i] \in running' =>
                  i < client'[d].at \/ (i = client'[d].at /\ client'[d].pc \in Settled)
             /\ i > client'[d].at \/ (i = client'[d].at /\ client'[d].pc \in Early) =>
                  vm'[Plan[d][i]].drives = <<>>
  <2>0. client[c].pc \notin Settled
    BY <1>2, UnsettledForms
  <2>1. Plan[d][i] = Current(c) => d = c /\ i = client[c].at
    BY <2>0, CurrentIsOwn
  <2>2. client'[d].at = client[d].at /\ (d # c => client'[d] = client[d])
    <3>1. CASE Names(c)
      <4>1. PICK pc, n : Moved(c, pc, client[c].at, n)
        BY <3>1 DEF Names
      <4> QED BY <4>1 DEF Moved, AdmissionTypeOK
    <3>2. CASE Attaches(c)
      BY <3>2 DEF Attaches
    <3>3. CASE Register(c)
      BY <3>3 DEF Register, Goto, AdmissionTypeOK
    <3> QED BY <1>2, <3>1, <3>2, <3>3
  <2>3. Plan[d][i] \in VMs
    BY <1>0
  <2>4. CASE Names(c)
    <3>1. PICK pc \in {"mac", "volumes", "failed"}, n \in 0 .. 3,
               u \in AllUUIDs, m \in AllUUIDs \cup {Nil} :
            Moved(c, pc, client[c].at, n) /\ Filled(c, u, m, vm[Current(c)].drives)
      BY <2>4 DEF Names
    <3>2. vm'[Plan[d][i]].drives = vm[Plan[d][i]].drives /\ UNCHANGED running
      <4>1. /\ \A w \in VMs : w # Current(c) => vm'[w] = vm[w]
            /\ vm'[Current(c)] = [uuid |-> u, mac |-> m, drives |-> vm[Current(c)].drives]
            /\ UNCHANGED running
        BY <2>0, <3>1, FilledOther
      <4>2. vm'[Current(c)].drives = vm[Current(c)].drives
        BY <4>1
      <4> QED BY <2>3, <4>1, <4>2
    <3>3. client[c].pc \in Early
      BY <2>4 DEF Names
    <3>4. Current(c) \notin running
      BY <2>0, CurrentIsOwn
    <3> QED BY <2>1, <2>2, <3>2, <3>3, <3>4, CurrentInPlan DEF OrderInv
  <2>5. CASE Attaches(c)
    <3>1. PICK l : Filled(c, vm[Current(c)].uuid, vm[Current(c)].mac, l)
      BY <2>5 DEF Attaches
    <3>2. Plan[d][i] # Current(c) => vm'[Plan[d][i]] = vm[Plan[d][i]]
      BY <2>0, <2>3, <3>1, FilledOther
    <3>3. client[c].pc = "volumes" /\ UNCHANGED <<client, running>>
      BY <2>5 DEF Attaches, Filled
    <3> QED BY <2>1, <3>2, <3>3, CurrentInPlan DEF OrderInv, Early
  <2>6. CASE Register(c)
    <3>1. client'[c].pc = "boot" /\ running' = running \cup {Current(c)} /\ UNCHANGED vm
      BY <2>6 DEF Register, Goto, AdmissionTypeOK
    <3> QED BY <2>1, <2>2, <3>1, CurrentInPlan DEF OrderInv, Settled, Early
  <2> QED BY <1>2, <2>4, <2>5, <2>6
<1>3. ASSUME NEW v \in VMs, End(v) PROVE OrderInv'
  BY <1>3 DEF End, OrderInv
<1>4. ASSUME NEW c \in Clients, Names(c) \/ Attaches(c) \/ Register(c) PROVE OrderInv'
  BY <1>2, <1>4 DEF OrderInv
<1>5. ASSUME NEW c \in Clients, Stays(c) PROVE OrderInv'
  BY <1>1, <1>5 DEF OrderInv
<1> QED BY <1>3, <1>4, <1>5, NextForm

LEMMA ActiveStep ==
  ASSUME PlanInv, Next
  PROVE  ActiveInv'
<1> USE DEF PlanInv
<1>1. ASSUME NEW c \in Clients, Stays(c) PROVE ActiveInv'
  BY <1>1 DEF Stays, ActiveInv
<1>2. ASSUME NEW c \in Clients, Names(c) \/ Attaches(c) PROVE ActiveInv'
  <2>1. PICK u, m, l : Filled(c, u, m, l)
    BY <1>2 DEF Names, Attaches
  <2>2. UNCHANGED <<active, running>> /\ \A w \in running : vm'[w] = vm[w]
    BY <1>2, <2>1, FilledOther, UnsettledForms
  <2> QED BY <2>2 DEF ActiveInv
<1>3. ASSUME NEW c \in Clients, Register(c) PROVE ActiveInv'
  BY <1>3, CurrentInPlan DEF Register, ActiveInv, AdmissionTypeOK
<1>4. ASSUME NEW v \in VMs, End(v) PROVE ActiveInv'
  BY <1>4 DEF End, ActiveInv, AdmissionTypeOK
<1> QED BY <1>1, <1>2, <1>3, <1>4, NextForm

LEMMA InitPlanInv == Init => PlanInv
<1> SUFFICES ASSUME Init PROVE PlanInv
  OBVIOUS
<1> USE AdmissionConstants DEF Init
<1>1. AdmissionTypeOK
  BY DEF AdmissionTypeOK, PC
<1>2. ProgressInv
  BY DEF ProgressInv
<1>3. OrderInv
  BY DEF OrderInv
<1>4. ActiveInv
  BY DEF ActiveInv
<1> QED BY <1>1, <1>2, <1>3, <1>4 DEF PlanInv

LEMMA StutterPlanInv == PlanInv /\ UNCHANGED vars => PlanInv'
  BY DEF PlanInv, AdmissionTypeOK, ProgressInv, OrderInv, ActiveInv, Current

LEMMA PlanInvariant == Spec => []PlanInv
<1>1. PlanInv /\ [Next]_vars => PlanInv'
  BY TypeStep, ProgressStep, OrderStep, ActiveStep, StutterPlanInv DEF PlanInv
<1> QED BY InitPlanInv, <1>1, PTL DEF Spec

\* Every variable keeps its type, whatever the clients and what they load.
THEOREM AdmissionTypeCorrect == Spec => []AdmissionTypeOK
<1>1. PlanInv => AdmissionTypeOK
  BY DEF PlanInv
<1> QED BY <1>1, PlanInvariant, PTL

-----------------------------------------------------------------------------
(***************************************************************************)
(* Volumes.                                                                *)
(***************************************************************************)

SoundInv == \A v \in VMs : Sound(v)

VolumeInv == PlanInv /\ CheckedInv /\ SharedOnlyAcrossClients /\ SoundInv

LEMMA ListedRun == ASSUME PlanInv PROVE Listed \subseteq running
  BY DEF PlanInv, ActiveInv, Listed

\* Filling in a definition changes nothing of what the listed VMs have.
LEMMA ListedKept ==
  ASSUME PlanInv, NEW c \in Clients, Names(c) \/ Attaches(c)
  PROVE  /\ Listed' = Listed /\ Current(c)' = Current(c) /\ Current(c) \notin Listed
         /\ \A w \in VMs : w # Current(c) => Attached(w)' = Attached(w)
<1>1. PICK u, m, l : Filled(c, u, m, l)
  BY DEF Names, Attaches
<1>2. client[c].pc \notin Settled
  BY UnsettledForms
<1>3. (\A w \in VMs : w # Current(c) => vm'[w] = vm[w]) /\ UNCHANGED active
  BY <1>1, <1>2, FilledOther
<1>4. Current(c) \notin Listed
  BY <1>2, CurrentIsOwn, ListedRun
<1>5. client'[c].at = client[c].at
  <2>1. CASE Names(c)
    <3>1. PICK pc, n : Moved(c, pc, client[c].at, n)
      BY <2>1 DEF Names
    <3> QED BY <3>1 DEF Moved, PlanInv, AdmissionTypeOK
  <2>2. CASE Attaches(c)
    BY <2>2 DEF Attaches
  <2> QED BY <2>1, <2>2
<1> QED BY <1>3, <1>4, <1>5 DEF Listed, Current, Attached

\* The other commands stay where they are, each with a definition of its own.
LEMMA OthersKept ==
  ASSUME PlanInv, NEW c \in Clients, Names(c) \/ Attaches(c) \/ Register(c),
         NEW d \in Clients, d # c
  PROVE  client'[d] = client[d] /\ Current(d)' = Current(d) /\ Current(d) # Current(c)
<1>1. client'[d] = client[d]
  <2>1. CASE Names(c)
    <3>1. PICK pc, n : Moved(c, pc, client[c].at, n)
      BY <2>1 DEF Names
    <3> QED BY <3>1 DEF Moved, PlanInv, AdmissionTypeOK
  <2>2. CASE Attaches(c)
    BY <2>2 DEF Attaches
  <2>3. CASE Register(c)
    BY <2>3 DEF Register, Goto, PlanInv, AdmissionTypeOK
  <2> QED BY <2>1, <2>2, <2>3
<1>2. Current(d) # Current(c)
  BY CurrentIsOwn, UnsettledForms, CurrentInPlan DEF PlanInv
<1> QED BY <1>1, <1>2 DEF Current

LEMMA CheckedStep ==
  ASSUME PlanInv, CheckedInv, Next
  PROVE  CheckedInv'
<1> USE DEF PlanInv
<1> SUFFICES ASSUME NEW d \in Clients, client'[d].pc \in {"volumes", "register"},
                    NEW e, e = Current(d)', NEW w \in Listed', OfOnePlan(w, e)
             PROVE  Attached(w)' \cap Attached(e)' = {}
  BY DEF CheckedInv, Attached, Current, Listed
<1>0. Listed \subseteq running /\ running \subseteq VMs
  BY ListedRun DEF AdmissionTypeOK
<1>1. ASSUME NEW c \in Clients, Stays(c) PROVE Attached(w)' \cap Attached(e)' = {}
  <2>1. client[d].pc \in {"volumes", "register"} /\ client'[d].at = client[d].at
    <3>1. PICK pc \in PC, at \in Nat :
            /\ Moved(c, pc, at, client[c].tries)
            /\ pc = "register" => at = client[c].at /\ client[c].pc = "volumes"
            /\ pc # "volumes"
      BY <1>1 DEF Stays, Settled
    <3> QED BY <3>1 DEF Moved, AdmissionTypeOK
  <2>2. UNCHANGED <<vm, active>>
    BY <1>1 DEF Stays
  <2>3. Current(d) = e /\ w \in Listed /\ Attached(w)' = Attached(w) /\ Attached(e)' = Attached(e)
    BY <2>1, <2>2 DEF Current, Listed, Attached
  <2> QED BY <2>1, <2>3 DEF CheckedInv
<1>2. ASSUME NEW c \in Clients, Names(c) \/ Attaches(c) PROVE Attached(w)' \cap Attached(e)' = {}
  <2>0. w \in Listed /\ Attached(w)' = Attached(w)
    BY <1>0, <1>2, ListedKept
  <2>1. CASE d # c
    <3>1. client'[d] = client[d] /\ e = Current(d) /\ e # Current(c) /\ e \in VMs
      BY <1>2, <2>1, OthersKept, CurrentInPlan
    <3>2. Attached(e)' = Attached(e)
      BY <1>2, <3>1, ListedKept
    <3> QED BY <2>0, <3>1, <3>2 DEF CheckedInv
  <2>2. CASE d = c /\ Names(c)
    <3>1. e = Current(c) /\ e \in VMs
      BY <1>2, <2>2, ListedKept, CurrentInPlan
    <3>2. vm[e].drives = <<>>
      BY <2>2, <3>1, CurrentInPlan DEF Names, OrderInv
    <3>3. vm'[e].drives = <<>>
      <4>1. PICK u, m : Filled(c, u, m, <<>>)
        BY <2>2, <3>1, <3>2 DEF Names
      <4>2. vm'[e] = [uuid |-> u, mac |-> m, drives |-> <<>>]
        BY <1>2, <3>1, <4>1, FilledOther, UnsettledForms
      <4> QED BY <4>2
    <3> QED BY <3>3 DEF Attached
  <2>3. CASE d = c /\ Attaches(c)
    <3>1. e = Current(c) /\ e \in VMs
      BY <1>2, <2>3, ListedKept, CurrentInPlan
    <3>2. PICK p \in Paths, f \in Formats :
            /\ Filled(c, vm[e].uuid, vm[e].mac, Append(vm[e].drives, [path |-> p, format |-> f]))
            /\ \A x \in Listed : p \notin Attached(x)
      BY <2>3, <3>1 DEF Attaches
    <3>3. Attached(e)' \subseteq Attached(e) \cup {p}
      <4> DEFINE l == Append(vm[e].drives, [path |-> p, format |-> f])
      <4>1. vm'[e].drives = l
        <5> HIDE DEF l
        <5>1. Filled(c, vm[e].uuid, vm[e].mac, l)
          BY <3>2 DEF l
        <5>2. vm'[e] = [uuid |-> vm[e].uuid, mac |-> vm[e].mac, drives |-> l]
          BY <1>2, <3>1, <5>1, FilledOther, UnsettledForms
        <5> QED BY <5>2
      <4>2. vm[e].drives \in Seq(Drive)
        BY <3>1 DEF AdmissionTypeOK
      <4>3. \A i \in DOMAIN l : l[i].path = p \/ (i \in DOMAIN vm[e].drives /\ l[i] = vm[e].drives[i])
        BY <4>2
      <4> HIDE DEF l
      <4> QED BY <4>1, <4>3 DEF Attached
    <3>4. Attached(w) \cap Attached(e) = {}
      BY <2>0, <2>3, <3>1 DEF CheckedInv, Attaches
    <3> QED BY <2>0, <3>2, <3>3, <3>4
  <2> QED BY <1>2, <2>1, <2>2, <2>3
<1>3. ASSUME NEW c \in Clients, Register(c) PROVE Attached(w)' \cap Attached(e)' = {}
  <2>1. Attached(w)' = Attached(w) /\ Attached(e)' = Attached(e)
    BY <1>3 DEF Register, Attached
  <2>2. d # c
    BY <1>3 DEF Register, Goto, AdmissionTypeOK
  <2>3. client'[d] = client[d] /\ e = Current(d)
    BY <1>3, <2>2, OthersKept
  <2>4. w \in Listed \/ w = Current(c)
    BY <1>3 DEF Register, Listed, AdmissionTypeOK
  <2>5. w # Current(c)
    BY <1>3, <2>2, <2>3, CurrentInPlan, OneOwner DEF OfOnePlan
  <2> QED BY <2>1, <2>3, <2>4, <2>5 DEF CheckedInv
<1>4. ASSUME NEW v \in VMs, End(v) PROVE Attached(w)' \cap Attached(e)' = {}
  <2>1. /\ client' = client /\ Attached(w)' = Attached(w) /\ Attached(e)' = Attached(e)
        /\ e = Current(d)
    BY <1>4 DEF End, Attached, Current
  <2>2. w \in Listed
    BY <1>4 DEF End, Listed, AdmissionTypeOK
  <2> QED BY <2>1, <2>2 DEF CheckedInv
<1> QED BY <1>1, <1>2, <1>3, <1>4, NextForm

LEMMA SharedStep ==
  ASSUME PlanInv, CheckedInv, SharedOnlyAcrossClients, Next
  PROVE  SharedOnlyAcrossClients'
<1> USE DEF PlanInv
<1> SUFFICES ASSUME NEW v \in Listed', NEW w \in Listed', v # w, OfOnePlan(v, w)
             PROVE  Attached(v)' \cap Attached(w)' = {}
  BY DEF SharedOnlyAcrossClients, Attached, Listed
<1>0. Listed \subseteq running /\ running \subseteq VMs /\ OfOnePlan(w, v)
  BY ListedRun DEF AdmissionTypeOK, OfOnePlan
<1>1. ASSUME v \in Listed, w \in Listed, Attached(v)' = Attached(v), Attached(w)' = Attached(w)
      PROVE  Attached(v)' \cap Attached(w)' = {}
  BY <1>1 DEF SharedOnlyAcrossClients
<1>2. ASSUME NEW c \in Clients, Stays(c) PROVE Attached(v)' \cap Attached(w)' = {}
  BY <1>1, <1>2 DEF Stays, Listed, Attached
<1>3. ASSUME NEW c \in Clients, Names(c) \/ Attaches(c) PROVE Attached(v)' \cap Attached(w)' = {}
  BY <1>0, <1>1, <1>3, ListedKept
<1>4. ASSUME NEW c \in Clients, Register(c) PROVE Attached(v)' \cap Attached(w)' = {}
  <2>1. Attached(v)' = Attached(v) /\ Attached(w)' = Attached(w)
    BY <1>4 DEF Register, Attached
  <2>2. v \in Listed \cup {Current(c)} /\ w \in Listed \cup {Current(c)}
    BY <1>4 DEF Register, Listed, AdmissionTypeOK
  <2>3. \A x \in Listed : OfOnePlan(x, Current(c)) => Attached(x) \cap Attached(Current(c)) = {}
    BY <1>4 DEF CheckedInv, Register
  <2> QED BY <1>0, <1>1, <2>1, <2>2, <2>3
<1>5. ASSUME NEW x \in VMs, End(x) PROVE Attached(v)' \cap Attached(w)' = {}
  <2>1. Attached(v)' = Attached(v) /\ Attached(w)' = Attached(w)
    BY <1>5 DEF End, Attached
  <2>2. v \in Listed /\ w \in Listed
    BY <1>5 DEF End, Listed, AdmissionTypeOK
  <2> QED BY <1>1, <2>1, <2>2
<1> QED BY <1>2, <1>3, <1>4, <1>5, NextForm

LEMMA SoundStep ==
  ASSUME PlanInv, SoundInv, Next
  PROVE  SoundInv'
<1> USE DEF PlanInv
<1> SUFFICES ASSUME NEW v \in VMs PROVE Sound(v)'
  BY DEF SoundInv
<1>0. Sound(v) /\ (vm'[v].drives = vm[v].drives => Sound(v)')
  BY DEF SoundInv, Sound
<1>1. ASSUME NEW c \in Clients, Stays(c) \/ Register(c) PROVE Sound(v)'
  BY <1>0, <1>1 DEF Stays, Register
<1>2. ASSUME NEW c \in Clients, Names(c) PROVE Sound(v)'
  <2>1. PICK u, m : Filled(c, u, m, vm[Current(c)].drives)
    BY <1>2 DEF Names
  <2>2. /\ v # Current(c) => vm'[v] = vm[v]
        /\ vm'[Current(c)] = [uuid |-> u, mac |-> m, drives |-> vm[Current(c)].drives]
    BY <1>2, <2>1, FilledOther, UnsettledForms
  <2>3. vm'[Current(c)].drives = vm[Current(c)].drives
    BY <2>2
  <2> QED BY <1>0, <2>2, <2>3
<1>3. ASSUME NEW c \in Clients, Attaches(c) PROVE Sound(v)'
  <2> DEFINE e == Current(c)
  <2>0. vm[e].drives \in Seq(Drive)
    BY CurrentInPlan DEF AdmissionTypeOK
  <2>1. PICK p \in Paths, f \in Formats :
          /\ Filled(c, vm[e].uuid, vm[e].mac, Append(vm[e].drives, [path |-> p, format |-> f]))
          /\ p \notin Attached(e)
          /\ f = "qcow2" => Header[p] = "qcow2"
          /\ f = "raw" => Header[p] = "raw" \/ AfterRaw(e)
    BY <1>3 DEF Attaches
  <2> DEFINE q == [path |-> p, format |-> f]
             l == Append(vm[e].drives, q)
  <2>2. (v # e => vm'[v] = vm[v]) /\ vm'[e] = [uuid |-> vm[e].uuid, mac |-> vm[e].mac, drives |-> l]
    <3> HIDE DEF l
    <3>1. Filled(c, vm[e].uuid, vm[e].mac, l)
      BY <2>1 DEF l
    <3> QED BY <1>3, <3>1, FilledOther, UnsettledForms
  <2>3. vm'[e].drives = l
    <3> HIDE DEF l
    <3> QED BY <2>2
  <2>4. CASE v = e
    <3>1. q.path = p /\ q.format = f
      OBVIOUS
    <3> HIDE DEF q
    <3>2. \A i \in DOMAIN l : l[i] = q \/ (i \in DOMAIN vm[e].drives /\ l[i] = vm[e].drives[i])
      BY <2>0
    <3>3. \A i, j \in DOMAIN l : l[i] = q /\ l[j] = q => i = j \/ i \in DOMAIN vm[e].drives
                                                         \/ j \in DOMAIN vm[e].drives
      BY <2>0
    <3>4. \A i \in DOMAIN vm[e].drives : vm[e].drives[i].path # p /\ l[i] = vm[e].drives[i]
      BY <2>0, <2>1 DEF Attached
    <3>6. \A i \in DOMAIN l : l[i].format = "raw" =>
            \E k \in DOMAIN l : k \in Deciding(v, i) /\ Header[l[k].path] = "raw"
      <4> DEFINE n == Len(vm[e].drives)
                 m == Len(RootDisk(v))
      <4>1. n \in Nat /\ m \in Nat
        BY <2>0 DEF RootDisk
      <4>2. DOMAIN vm[e].drives = 1 .. n /\ DOMAIN l = 1 .. n + 1 /\ l[n + 1] = q
        BY <2>0
      <4> HIDE DEF l, n, m
      <4>3. ASSUME NEW i \in 1 .. n, l[i].format = "raw"
            PROVE  \E k \in 1 .. n : k \in Deciding(v, i) /\ Header[l[k].path] = "raw"
        BY <1>0, <2>4, <3>4, <4>2, <4>3 DEF Sound
      <4>4. ASSUME l[n + 1].format = "raw"
            PROVE  \E k \in 1 .. n + 1 : k \in Deciding(v, n + 1) /\ Header[l[k].path] = "raw"
        <5>1. CASE Header[p] = "raw"
          BY <3>1, <4>1, <4>2, <5>1 DEF Deciding
        <5>2. CASE AfterRaw(e)
          <6>1. n > m /\ n \in 1 .. n /\ l[n].format = "raw"
            BY <2>4, <3>4, <4>1, <4>2, <5>2 DEF AfterRaw, n, m
          <6>2. PICK k \in 1 .. n : k \in Deciding(v, n) /\ Header[l[k].path] = "raw"
            BY <4>3, <6>1
          <6>3. k \in Deciding(v, n + 1) /\ k \in 1 .. n + 1
            BY <4>1, <6>1, <6>2 DEF Deciding, m
          <6> QED BY <6>2, <6>3
        <5> QED BY <2>1, <3>1, <4>2, <4>4, <5>1, <5>2
      <4>5. \A i \in 1 .. n + 1 : i \in 1 .. n \/ i = n + 1
        BY <4>1
      <4>6. 1 .. n \subseteq 1 .. n + 1
        BY <4>1
      <4> QED BY <4>2, <4>3, <4>4, <4>5, <4>6
    <3> HIDE DEF l
    <3>5. \A i, j \in DOMAIN l :
            /\ l[i].path = l[j].path => i = j
            /\ l[i].format = "qcow2" => Header[l[i].path] = "qcow2"
      BY <1>0, <2>1, <2>4, <3>1, <3>2, <3>3, <3>4 DEF Sound
    <3> QED BY <2>3, <2>4, <3>5, <3>6 DEF Sound, Deciding, RootDisk
  <2>5. CASE v # e
    BY <1>0, <2>2, <2>5
  <2> QED BY <2>4, <2>5
<1>4. ASSUME NEW x \in VMs, End(x) PROVE Sound(v)'
  BY <1>0, <1>4 DEF End
<1> QED BY <1>1, <1>2, <1>3, <1>4, NextForm

LEMMA VolumeInvariant == Spec => []VolumeInv
<1>1. Init => VolumeInv
  <2> SUFFICES ASSUME Init PROVE VolumeInv
    OBVIOUS
  <2>1. CheckedInv /\ SharedOnlyAcrossClients
    BY DEF Init, CheckedInv, SharedOnlyAcrossClients, Listed
  <2>2. SoundInv
    BY DEF Init, SoundInv, Sound
  <2> QED BY <2>1, <2>2, InitPlanInv DEF VolumeInv
<1>2. VolumeInv /\ [Next]_vars => VolumeInv'
  <2> SUFFICES ASSUME VolumeInv, [Next]_vars PROVE VolumeInv'
    OBVIOUS
  <2>1. CASE Next
    BY <2>1, TypeStep, ProgressStep, OrderStep, ActiveStep, CheckedStep, SharedStep, SoundStep
       DEF VolumeInv, PlanInv
  <2>2. CASE UNCHANGED vars
    <3>1. PlanInv'
      BY <2>2, StutterPlanInv DEF VolumeInv
    <3>2. CheckedInv' /\ SharedOnlyAcrossClients' /\ SoundInv'
      <4>0. vm' = vm /\ Listed' = Listed /\ \A v \in VMs : Attached(v)' = Attached(v)
        BY <2>2 DEF Listed, Attached
      <4>1. CheckedInv'
        <5> SUFFICES ASSUME NEW c \in Clients, client'[c].pc \in {"volumes", "register"},
                            NEW e, e = Current(c)', NEW w \in Listed', OfOnePlan(w, e)
                     PROVE  Attached(w)' \cap Attached(e)' = {}
          BY DEF CheckedInv, Attached, Current, Listed
        <5>1. client[c].pc \in {"volumes", "register"} /\ e = Current(c) /\ w \in Listed
          BY <2>2, <4>0 DEF Current
        <5>2. Attached(w)' = Attached(w) /\ Attached(e)' = Attached(e)
          BY <4>0 DEF Attached
        <5> QED BY <5>1, <5>2 DEF VolumeInv, CheckedInv
      <4>2. SharedOnlyAcrossClients'
        <5> SUFFICES ASSUME NEW v \in Listed', NEW w \in Listed', v # w, OfOnePlan(v, w)
                     PROVE  Attached(v)' \cap Attached(w)' = {}
          BY DEF SharedOnlyAcrossClients, Attached, Listed
        <5>1. v \in Listed /\ w \in Listed /\ v \in VMs /\ w \in VMs
          BY <4>0, ListedAreVMs DEF VolumeInv, PlanInv
        <5>2. Attached(v) \cap Attached(w) = {}
          BY <5>1 DEF VolumeInv, SharedOnlyAcrossClients
        <5> QED BY <4>0, <5>1, <5>2
      <4>3. SoundInv'
        <5>1. \A v \in VMs : Sound(v)' <=> Sound(v)
          BY <4>0 DEF Sound, Deciding, RootDisk
        <5> QED BY <5>1 DEF VolumeInv, SoundInv
      <4> QED BY <4>1, <4>2, <4>3
    <3> QED BY <3>1, <3>2 DEF VolumeInv
  <2> QED BY <2>1, <2>2
<1> QED BY <1>1, <1>2, PTL DEF Spec

\* Whatever they load and however they interleave, two listed VMs of one
\* command have no volume in common: ValidateVolumes sees the VMs its own
\* command started (it does not see those that another command is about to start).
THEOREM VolumesSharedAcrossOnly == Spec => []SharedOnlyAcrossClients
<1>1. VolumeInv => SharedOnlyAcrossClients
  BY DEF VolumeInv
<1> QED BY <1>1, VolumeInvariant, PTL

\* ValidateVolumes attaches no image twice to a VM, none as qcow2 that is not, and
\* one that is as raw only after one that is not, in the same --volume list.
THEOREM DrivesStaySound == Spec => []DrivesAreSound
<1>1. VolumeInv => DrivesAreSound
  <2> SUFFICES ASSUME VolumeInv, NEW v \in running PROVE
        \A i, j \in DOMAIN vm[v].drives :
          /\ vm[v].drives[i].path = vm[v].drives[j].path => i = j
          /\ vm[v].drives[i].format = "qcow2" => IsImage(Content[vm[v].drives[i].path])
          /\ vm[v].drives[i].format = "raw" =>
               \E k \in Deciding(v, i) : ~IsImage(Content[vm[v].drives[k].path])
    BY DEF DrivesAreSound
  <2> DEFINE l == vm[v].drives
  <2>1. v \in VMs /\ l \in Seq(Drive)
    BY DEF VolumeInv, PlanInv, AdmissionTypeOK
  <2>2. Sound(v)
    BY <2>1 DEF VolumeInv, SoundInv
  <2>3. ASSUME NEW i \in DOMAIN l
        PROVE  /\ Header[l[i].path] = "qcow2" => IsImage(Content[l[i].path])
               /\ Header[l[i].path] = "raw" => ~IsImage(Content[l[i].path])
    <3> DEFINE d == l[i]
    <3>1. d \in Drive
      BY <2>1
    <3>2. d.path \in Paths
      BY <3>1 DEF Drive
    <3>3. Content[d.path] \in File /\ Header[d.path] = ValidateQcow2(Content[d.path])
      BY <3>2, AdmissionConstants DEF Header
    <3> HIDE DEF d
    <3>4. Header[d.path] = "qcow2" => IsImage(Content[d.path])
      BY <3>3, AcceptedIsImage
    <3>5. Header[d.path] = "raw" => ~IsImage(Content[d.path])
      BY <3>3 DEF ValidateQcow2, IsImage
    <3> QED BY <3>4, <3>5 DEF d
  <2> HIDE DEF l
  <2>4. /\ \A i, j \in DOMAIN l : l[i].path = l[j].path => i = j
        /\ \A i \in DOMAIN l : l[i].format = "qcow2" => Header[l[i].path] = "qcow2"
        /\ \A i \in DOMAIN l : l[i].format = "raw" =>
             \E k \in DOMAIN l : k \in Deciding(v, i) /\ Header[l[k].path] = "raw"
    BY <2>2 DEF Sound, l
  <2>5. ASSUME NEW i \in DOMAIN l, l[i].format = "raw"
        PROVE  \E k \in Deciding(v, i) : ~IsImage(Content[l[k].path])
    BY <2>3, <2>4, <2>5
  <2>6. \A i \in DOMAIN l : l[i].format = "qcow2" => IsImage(Content[l[i].path])
    BY <2>3, <2>4
  <2> QED BY <2>4, <2>5, <2>6 DEF l
<1> QED BY <1>1, VolumeInvariant, PTL

-----------------------------------------------------------------------------
(***************************************************************************)
(* The MAC address.                                                        *)
(***************************************************************************)

\* A drawn UUID belongs to the definition it was drawn for.
OwnUUIDs(v) == Uuids \cup {Nil} \cup {Drawn(v, k) : k \in 0 .. 3}

Matches(v) == vm[v].mac \in {Nil, vm[v].uuid}

MACInv ==
  /\ \A v \in VMs : vm[v].uuid \in OwnUUIDs(v)
  /\ \A c \in Clients :
       /\ client[c].pc = "mac" /\ client[c].tries > 0 =>
            vm[Current(c)].uuid = Drawn(Current(c), client[c].tries)
       /\ client[c].pc \in {"volumes", "register"} => Matches(Current(c))
  /\ \A v \in running : Matches(v)

\* No other VM has a drawn UUID, so it is never found taken: the third is drawn
\* only when uuid2mac failed.
LEMMA DrawnIsFree ==
  ASSUME PlanInv, MACInv, NEW c \in Clients
  PROVE  ~LastRefused(c)
<1> SUFFICES ASSUME LastRefused(c) PROVE FALSE
  OBVIOUS
<1> DEFINE v == Current(c)
           w == active[vm[v].uuid]
<1>1. v \in VMs /\ v \notin running /\ vm[v].uuid = Drawn(v, 2)
  BY CurrentInPlan, CurrentIsOwn DEF LastRefused, MACInv, PlanInv, Settled
<1>2. Drawn(v, 2) \in AllUUIDs /\ Drawn(v, 2) \notin Uuids \cup {Nil}
  BY <1>1, AdmissionConstants DEF Drawn, AllUUIDs
<1>3. w \in running /\ vm[w].uuid = Drawn(v, 2)
  BY <1>1, <1>2 DEF LastRefused, PlanInv, ActiveInv
<1>4. w \in VMs
  BY <1>3 DEF PlanInv, AdmissionTypeOK
<1>5. \E k \in 0 .. 3 : Drawn(v, 2) = Drawn(w, k)
  BY <1>2, <1>3, <1>4 DEF MACInv, OwnUUIDs
<1> QED BY <1>1, <1>3, <1>5 DEF Drawn

LEMMA MACStep ==
  ASSUME PlanInv, MACInv, Next
  PROVE  MACInv'
<1> USE DEF PlanInv
<1>0. running \subseteq VMs
  BY DEF AdmissionTypeOK
<1>1. ASSUME NEW c \in Clients, Stays(c) PROVE MACInv'
  <2>1. PICK pc \in PC, at \in Nat :
          /\ Moved(c, pc, at, client[c].tries)
          /\ pc \notin {"mac", "volumes"}
          /\ pc = "register" => at = client[c].at /\ client[c].pc = "volumes"
    BY <1>1 DEF Stays, Settled
  <2>2. UNCHANGED <<vm, running>> /\ \A v \in VMs : Matches(v)' = Matches(v)
    BY <1>1 DEF Stays, Matches
  <2>3. \A d \in Clients : d # c => client'[d] = client[d] /\ Current(d)' = Current(d)
    BY <2>1 DEF Moved, AdmissionTypeOK, Current
  <2>4. client'[c].pc = pc /\ (pc = "register" => Current(c)' = Current(c))
    BY <2>1 DEF Moved, AdmissionTypeOK, Current
  <2>5. \A v \in VMs : vm'[v].uuid \in OwnUUIDs(v)
    BY <2>2 DEF MACInv
  <2>6. ASSUME NEW d \in Clients
        PROVE  /\ client'[d].pc = "mac" /\ client'[d].tries > 0 =>
                    vm'[Current(d)'].uuid = Drawn(Current(d)', client'[d].tries)
               /\ client'[d].pc \in {"volumes", "register"} => Matches(Current(d))'
    <3>1. CASE d = c
      BY <2>1, <2>2, <2>4, <3>1, CurrentInPlan DEF MACInv, Matches
    <3>2. CASE d # c
      BY <2>2, <2>3, <3>2, CurrentInPlan DEF MACInv, Matches
    <3> QED BY <3>1, <3>2
  <2>7. \A v \in running' : Matches(v)'
    BY <1>0, <2>2 DEF MACInv
  <2> QED BY <2>5, <2>6, <2>7 DEF MACInv
<1>2. ASSUME NEW c \in Clients, Names(c) PROVE MACInv'
  <2> DEFINE e == Current(c)
  <2>0. e \in VMs
    BY CurrentInPlan
  <2>1. PICK pc \in {"mac", "volumes", "failed"}, n \in 0 .. 3,
             u \in AllUUIDs, m \in AllUUIDs \cup {Nil} :
          /\ Moved(c, pc, client[c].at, n)
          /\ Filled(c, u, m, vm[e].drives)
          /\ u \in {vm[e].uuid} \cup Uuids \cup {Drawn(e, k) : k \in 0 .. 3}
          /\ pc = "mac" /\ n > 0 => u = Drawn(e, n)
          /\ pc = "volumes" => m \in {Nil, u}
    BY <1>2, DrawnIsFree DEF Names
  <2>2. /\ \A w \in VMs : w # e => vm'[w] = vm[w]
        /\ vm'[e].uuid = u /\ vm'[e].mac = m
        /\ running' = running /\ \A w \in running : w # e
    <3>1. vm'[e] = [uuid |-> u, mac |-> m, drives |-> vm[e].drives]
      BY <1>2, <2>1, FilledOther, UnsettledForms
    <3>2. /\ \A w \in VMs : w # e => vm'[w] = vm[w]
          /\ running' = running /\ \A w \in running : w # e
      BY <1>2, <2>1, FilledOther, UnsettledForms
    <3>3. vm'[e].uuid = u /\ vm'[e].mac = m
      BY <3>1
    <3> QED BY <3>2, <3>3
  <2>3. \A w \in VMs : w # e => Matches(w)' = Matches(w)
    BY <2>2 DEF Matches
  <2>4. /\ client'[c].pc = pc /\ client'[c].tries = n /\ Current(c)' = e
        /\ \A d \in Clients : d # c => client'[d] = client[d] /\ Current(d)' = Current(d)
                                       /\ Current(d) # e
    <3>1. client'[c] = [pc |-> pc, at |-> client[c].at, tries |-> n]
      BY <2>1 DEF Moved, AdmissionTypeOK
    <3> QED BY <1>2, <3>1, OthersKept DEF Current
  <2>5. \A v \in VMs : vm'[v].uuid \in OwnUUIDs(v)
    BY <2>0, <2>1, <2>2 DEF MACInv, OwnUUIDs
  <2>6. ASSUME NEW d \in Clients
        PROVE  /\ client'[d].pc = "mac" /\ client'[d].tries > 0 =>
                    vm'[Current(d)'].uuid = Drawn(Current(d)', client'[d].tries)
               /\ client'[d].pc \in {"volumes", "register"} => Matches(Current(d))'
    <3>1. CASE d = c
      BY <2>1, <2>2, <2>4, <3>1 DEF Matches
    <3>2. CASE d # c
      BY <2>2, <2>3, <2>4, <3>2, CurrentInPlan DEF MACInv, Matches
    <3> QED BY <3>1, <3>2
  <2>7. \A v \in running' : Matches(v)'
    BY <1>0, <2>2, <2>3 DEF MACInv
  <2> QED BY <2>5, <2>6, <2>7 DEF MACInv
<1>3. ASSUME NEW c \in Clients, Attaches(c) PROVE MACInv'
  <2> DEFINE e == Current(c)
  <2>1. PICK l : UNCHANGED client /\ Filled(c, vm[e].uuid, vm[e].mac, l)
    BY <1>3 DEF Attaches
  <2>2. /\ \A w \in VMs : vm'[w].uuid = vm[w].uuid /\ vm'[w].mac = vm[w].mac
        /\ running' = running
    <3>1. vm'[e] = [uuid |-> vm[e].uuid, mac |-> vm[e].mac, drives |-> l]
      BY <1>3, <2>1, FilledOther, UnsettledForms
    <3>2. /\ \A w \in VMs : w # e => vm'[w] = vm[w]
          /\ running' = running
      BY <1>3, <2>1, FilledOther, UnsettledForms
    <3>3. vm'[e].uuid = vm[e].uuid /\ vm'[e].mac = vm[e].mac
      BY <3>1
    <3> QED BY <3>2, <3>3
  <2>3. \A d \in Clients : Current(d)' = Current(d)
    BY <2>1 DEF Current
  <2> QED BY <1>0, <2>1, <2>2, <2>3, CurrentInPlan DEF MACInv, Matches
<1>4. ASSUME NEW c \in Clients, Register(c) PROVE MACInv'
  <2>1. /\ client[c].pc = "register" /\ client'[c].pc = "boot"
        /\ running' = running \cup {Current(c)} /\ UNCHANGED vm
        /\ \A d \in Clients : Current(d)' = Current(d)
        /\ \A d \in Clients : d # c => client'[d] = client[d]
    BY <1>4 DEF Register, Goto, AdmissionTypeOK, Current
  <2> QED BY <2>1 DEF MACInv, Matches
<1>5. ASSUME NEW v \in VMs, End(v) PROVE MACInv'
  BY <1>5 DEF End, MACInv, Matches, Current
<1> QED BY <1>1, <1>2, <1>3, <1>4, <1>5, NextForm

\* A UUID may be drawn three times, and uuid2mac be asked for each: the MAC
\* address that vmBootstrap hands to the hypervisor is that of the last.
THEOREM MACsMatch == Spec => []MACIsOfUUID
<1>1. Init => MACInv
  BY DEF Init, MACInv, Matches, OwnUUIDs
<1>2. MACInv /\ PlanInv /\ [Next]_vars => MACInv'
  <2> SUFFICES ASSUME MACInv, UNCHANGED vars PROVE MACInv'
    BY MACStep
  <2> QED BY DEF MACInv, Matches, Current
<1>3. MACInv => MACIsOfUUID
  BY DEF MACInv, MACIsOfUUID, Matches
<1> QED BY <1>1, <1>2, <1>3, PlanInvariant, PTL DEF Spec

-----------------------------------------------------------------------------
(***************************************************************************)
(* The memory.                                                             *)
(***************************************************************************)

\* A VM that passed the memory check counts from then on, listed or not yet.
Weighed(c) == client[c].pc \in {"uuid", "mac", "volumes", "register"}
Pending == {Current(c) : c \in {d \in Clients : Weighed(d)}}

MemoryInv == Total(Listed \cup Pending) <= Limit + (Cardinality(Clients) - 1) * MaxMemory

\* The megabytes that Total counts.
Granules(S) == {x \in S \X (1 .. MaxMemory) : x[2] <= Granted(x[1])}

LEMMA GrantedInRange == ASSUME NEW v \in VMs PROVE Granted(v) \in MinMemory .. MaxMemory
  BY AdmissionConstants DEF Granted

LEMMA Megabytes ==
  /\ MaxMemory \in Nat
  /\ IsFiniteSet(1 .. MaxMemory) /\ Cardinality(1 .. MaxMemory) = MaxMemory
<1>1. MaxMemory \in Nat /\ 1 \in Int /\ MaxMemory \in Int
  BY AdmissionConstants
<1>2. /\ IsFiniteSet(1 .. MaxMemory)
      /\ Cardinality(1 .. MaxMemory) = IF 1 > MaxMemory THEN 0 ELSE MaxMemory - 1 + 1
  BY <1>1, FS_Interval, Zenon
<1> QED BY <1>1, <1>2

LEMMA GranulesFinite ==
  ASSUME NEW S \in SUBSET VMs
  PROVE  /\ IsFiniteSet(S) /\ IsFiniteSet(Granules(S))
         /\ Total(S) = Cardinality(Granules(S)) /\ Total(S) \in Nat
<1>1. IsFiniteSet(S)
  BY AdmissionConstants, FS_Subset
<1>3. IsFiniteSet(S \X (1 .. MaxMemory))
  BY <1>1, Megabytes, FS_Product
<1>4. Granules(S) \in SUBSET (S \X (1 .. MaxMemory))
  BY DEF Granules
<1>5. IsFiniteSet(Granules(S))
  BY <1>3, <1>4, FS_Subset
<1>6. Total(S) = Cardinality(Granules(S))
  BY DEF Total, Granules
<1> QED BY <1>1, <1>5, <1>6, FS_CardinalityType

LEMMA TotalGrows ==
  ASSUME NEW S \in SUBSET VMs, NEW T \in SUBSET S
  PROVE  Total(T) <= Total(S)
<1>1. Granules(T) \in SUBSET Granules(S)
  BY DEF Granules
<1> QED BY <1>1, GranulesFinite, FS_Subset

LEMMA TotalOfUnion ==
  ASSUME NEW S \in SUBSET VMs, NEW T \in SUBSET VMs
  PROVE  Total(S \cup T) <= Total(S) + Total(T)
<1>1. Granules(S \cup T) = Granules(S) \cup Granules(T)
  BY DEF Granules
<1>2. IsFiniteSet(Granules(S) \cap Granules(T))
  BY GranulesFinite, FS_Intersection
<1>3. Cardinality(Granules(S) \cap Granules(T)) \in Nat
  BY <1>2, FS_CardinalityType
<1>4. Cardinality(Granules(S \cup T))
        = Cardinality(Granules(S)) + Cardinality(Granules(T))
            - Cardinality(Granules(S) \cap Granules(T))
  BY <1>1, GranulesFinite, FS_Union
<1> QED BY <1>3, <1>4, GranulesFinite

LEMMA TotalOfOne == ASSUME NEW v \in VMs PROVE Total({v}) <= Granted(v)
<1> DEFINE g == Granted(v)
           f == [k \in 1 .. g |-> <<v, k>>]
<1>1. g \in Nat
  BY GrantedInRange, AdmissionConstants
<1>2. f \in Surjection(1 .. g, Granules({v}))
  <2>1. \A k \in 1 .. g : <<v, k>> \in Granules({v})
    BY GrantedInRange, AdmissionConstants DEF Granules
  <2>2. \A x \in Granules({v}) : x[2] \in 1 .. g /\ x = <<v, x[2]>>
    BY <1>1 DEF Granules
  <2> QED BY <2>1, <2>2 DEF Surjection
<1>3. IsFiniteSet(1 .. g) /\ Cardinality(1 .. g) = g
  BY <1>1, FS_Interval
<1>4. Cardinality(Granules({v})) <= g
  <2> HIDE DEF f, g
  <2> QED BY <1>2, <1>3, FS_Surjection
<1> QED BY <1>4, GranulesFinite

LEMMA TotalOfMany ==
  ASSUME NEW S \in SUBSET VMs
  PROVE  Total(S) <= Cardinality(S) * MaxMemory
<1>2. /\ IsFiniteSet(S \X (1 .. MaxMemory))
      /\ Cardinality(S \X (1 .. MaxMemory)) = Cardinality(S) * Cardinality(1 .. MaxMemory)
  BY Megabytes, GranulesFinite, FS_Product, Zenon
<1>3. Granules(S) \in SUBSET (S \X (1 .. MaxMemory))
  BY DEF Granules
<1> QED BY <1>2, <1>3, Megabytes, GranulesFinite, FS_Subset

LEMMA PendingAreVMs == ASSUME AdmissionTypeOK PROVE Pending \in SUBSET VMs
  BY CurrentInPlan DEF Pending

\* The other commands have one VM each to add.
LEMMA OthersPending ==
  ASSUME AdmissionTypeOK, NEW c \in Clients,
         NEW S, S = {Current(d) : d \in {e \in Clients \ {c} : Weighed(e)}}
  PROVE  S \in SUBSET VMs /\ Total(S) <= (Cardinality(Clients) - 1) * MaxMemory
<1> DEFINE W == {e \in Clients \ {c} : Weighed(e)}
           f == [d \in W |-> Current(d)]
<1>1. S \in SUBSET VMs
  BY CurrentInPlan
<1>2. /\ IsFiniteSet(Clients \ {c}) /\ Cardinality(Clients \ {c}) = Cardinality(Clients) - 1
      /\ Cardinality(Clients) \in Nat
  BY AdmissionConstants, FS_RemoveElement, FS_CardinalityType
<1>3. IsFiniteSet(W) /\ Cardinality(W) <= Cardinality(Clients) - 1
  BY <1>2, FS_Subset
<1>4. f \in Surjection(W, S)
  BY DEF Surjection
<1>5. Cardinality(S) <= Cardinality(W)
  <2> HIDE DEF f, W
  <2> QED BY <1>3, <1>4, FS_Surjection
<1>6. /\ Cardinality(S) \in Nat /\ Cardinality(W) \in Nat
      /\ Cardinality(S) <= Cardinality(Clients) - 1
  <2> HIDE DEF W
  <2> QED BY <1>1, <1>2, <1>3, <1>5, GranulesFinite, FS_CardinalityType
<1>7. Cardinality(S) * MaxMemory <= (Cardinality(Clients) - 1) * MaxMemory
  <2> DEFINE a == Cardinality(S)
             b == Cardinality(Clients) - 1
             m == MaxMemory
  <2>1. a \in Nat /\ b \in Nat /\ m \in Nat /\ a <= b
    BY <1>2, <1>6, AdmissionConstants
  <2> HIDE DEF a, b, m
  <2>2. PICK k \in Nat : b = a + k
    BY <2>1
  <2>3. b * m = a * m + k * m /\ k * m \in Nat /\ a * m \in Nat
    BY <2>1, <2>2
  <2> QED BY <2>3 DEF a, b, m
<1>8. Total(S) \in Nat /\ Cardinality(S) * MaxMemory \in Nat
  BY <1>1, <1>6, GranulesFinite, AdmissionConstants
<1>9. (Cardinality(Clients) - 1) * MaxMemory \in Int
  <2> DEFINE b == Cardinality(Clients) - 1
  <2>1. b \in Int /\ MaxMemory \in Int
    BY <1>2, AdmissionConstants
  <2> HIDE DEF b
  <2> QED BY <2>1 DEF b
<1>10. Total(S) <= Cardinality(S) * MaxMemory
  BY <1>1, TotalOfMany
<1> DEFINE x == Total(S)
           y == Cardinality(S) * MaxMemory
           z == (Cardinality(Clients) - 1) * MaxMemory
<1>11. x <= z
  <2>1. x \in Int /\ y \in Int /\ z \in Int /\ x <= y /\ y <= z
    BY <1>7, <1>8, <1>9, <1>10
  <2> HIDE DEF x, y, z
  <2> QED BY <2>1
<1> QED BY <1>1, <1>11

\* Any other step adds no VM to those that count.
LEMMA NothingWeighed ==
  ASSUME AdmissionTypeOK, NEW c \in Clients,
         \A d \in Clients \ {c} : client'[d] = client[d],
         Weighed(c)' => Weighed(c) /\ client'[c].at = client[c].at
  PROVE  Pending' \subseteq Pending
<1>1. \A d \in Clients : Weighed(d)' => Weighed(d) /\ Current(d)' = Current(d)
  BY DEF Weighed, Current
<1> QED BY <1>1 DEF Pending

LEMMA MovedClient ==
  ASSUME AdmissionTypeOK, NEW c \in Clients, NEW pc, Goto(c, pc)
  PROVE  /\ client'[c].pc = pc /\ client'[c].at = client[c].at
         /\ \A d \in Clients \ {c} : client'[d] = client[d]
  BY DEF Goto, AdmissionTypeOK

\* The sum may only shrink, but for the memory check that lets a VM in.
LEMMA WeightStep ==
  ASSUME AdmissionTypeOK, Next,
         \A c \in Clients : ~(CheckMemory(c) /\ Fits(Current(c)))
  PROVE  Listed' \cup Pending' \subseteq Listed \cup Pending
<1>1. ASSUME NEW c \in Clients, Goto(c, "memory") \/ Goto(c, "failed") \/ Goto(c, "done"),
             UNCHANGED active
      PROVE  Listed' \cup Pending' \subseteq Listed \cup Pending
  <2>1. PICK pc \in {"memory", "failed", "done"} : Goto(c, pc)
    BY <1>1
  <2> QED BY <1>1, <2>1, MovedClient, NothingWeighed DEF Listed, Weighed
<1>2. ASSUME NEW c \in Clients, NEW pc \in PC, client'[c].pc = pc, client'[c].at = client[c].at,
             \A d \in Clients \ {c} : client'[d] = client[d],
             Weighed(c), UNCHANGED active
      PROVE  Listed' \cup Pending' \subseteq Listed \cup Pending
  BY <1>2, NothingWeighed DEF Listed
<1>3. ASSUME NEW c \in Clients, Command(c)
      PROVE  Listed' \cup Pending' \subseteq Listed \cup Pending
  <2>1. CASE Begin(c) \/ GiveUp(c)
    BY <1>1, <2>1 DEF Begin, GiveUp
  <2>2. CASE CheckMemory(c)
    BY <1>1, <2>2 DEF CheckMemory
  <2>3. CASE CheckUUID(c)
    <3>1. PICK pc \in {"mac", "failed"} : client' = [client EXCEPT ![c].pc = pc, ![c].tries = 0]
      BY <2>3 DEF CheckUUID
    <3>2. /\ client'[c].pc = pc /\ client'[c].at = client[c].at
          /\ \A d \in Clients \ {c} : client'[d] = client[d]
      BY <3>1 DEF AdmissionTypeOK
    <3> QED BY <1>2, <2>3, <3>2 DEF CheckUUID, Weighed, PC
  <2>4. CASE FindMAC(c) /\ Derived(c)
    BY <1>2, <2>4, MovedClient DEF FindMAC, Derived, Weighed, PC
  <2>5. ASSUME NEW out \in {"mac", "error", "silent"}, FindMAC(c), Redrawn(c, out)
        PROVE  Listed' \cup Pending' \subseteq Listed \cup Pending
    <3>1. PICK pc \in PC, n \in Nat : client' = [client EXCEPT ![c].pc = pc, ![c].tries = n]
      <4> DEFINE n == client[c].tries + 1
                 pc == IF n < Tries THEN "mac" ELSE IF out = "error" THEN "failed" ELSE "volumes"
      <4>0. client[c].tries \in Nat
        <5>1. client \in [Clients -> [pc : PC, at : Nat, tries : 0 .. 3]]
          BY DEF AdmissionTypeOK
        <5>2. client[c] \in [pc : PC, at : Nat, tries : 0 .. 3]
          BY <5>1
        <5> QED BY <5>2
      <4>1. pc \in PC /\ n \in Nat
        <5>1. pc \in {"mac", "failed", "volumes"}
          OBVIOUS
        <5> HIDE DEF pc
        <5> QED BY <4>0, <5>1 DEF PC
      <4>2. client' = [client EXCEPT ![c].pc = pc, ![c].tries = n]
        BY <2>5, Zenon DEF Redrawn
      <4> HIDE DEF pc, n
      <4> QED BY <4>1, <4>2
    <3>2. /\ client'[c].pc = pc /\ client'[c].at = client[c].at
          /\ \A d \in Clients \ {c} : client'[d] = client[d]
      BY <3>1 DEF AdmissionTypeOK
    <3> QED BY <1>2, <2>5, <3>2 DEF FindMAC, Weighed
  <2>6. CASE AttachVolume(c)
    <3>1. CASE UNCHANGED client
      BY <1>2, <2>6, <3>1 DEF AttachVolume, Weighed, AdmissionTypeOK
    <3>2. CASE Goto(c, "failed")
      BY <1>1, <2>6, <3>2 DEF AttachVolume
    <3> QED BY <2>6, <3>1, <3>2 DEF AttachVolume
  <2>7. CASE Lookup(c)
    <3>1. PICK pc \in {"failed", "register"} : Goto(c, pc)
      BY <2>7 DEF Lookup
    <3> QED BY <1>2, <2>7, <3>1, MovedClient DEF Lookup, Weighed, PC
  <2>8. CASE Register(c)
    <3>1. Goto(c, "boot") /\ Weighed(c)
      BY <2>8 DEF Register, Weighed
    <3>2. Pending' \subseteq Pending
      BY <3>1, MovedClient, NothingWeighed DEF Weighed
    <3>3. Current(c) \in Pending
      BY <3>1 DEF Pending
    <3>4. Listed' \subseteq Listed \cup {Current(c)}
      BY <2>8 DEF Register, Listed, AdmissionTypeOK
    <3> QED BY <3>2, <3>3, <3>4
  <2>9. CASE Answer(c)
    <3>1. CASE Goto(c, "failed") \/ Goto(c, "done")
      BY <1>1, <2>9, <3>1 DEF Answer
    <3>2. CASE client' = [client EXCEPT ![c].pc = "memory", ![c].at = @ + 1]
      <4>1. client'[c].pc = "memory" /\ \A d \in Clients \ {c} : client'[d] = client[d]
        BY <3>2 DEF AdmissionTypeOK
      <4> QED BY <2>9, <4>1, NothingWeighed DEF Answer, Weighed, Listed
    <3> QED BY <2>9, <3>1, <3>2 DEF Answer
  <2> QED BY <1>3, <2>1, <2>2, <2>3, <2>4, <2>5, <2>6, <2>7, <2>8, <2>9 DEF Command, FindMAC
<1>4. ASSUME NEW v \in VMs, End(v) PROVE Listed' \cup Pending' \subseteq Listed \cup Pending
  <2>1. Pending' = Pending
    BY <1>4 DEF End, Pending, Weighed, Current
  <2>2. Listed' \subseteq Listed
    BY <1>4 DEF End, Listed, AdmissionTypeOK
  <2> QED BY <2>1, <2>2
<1> QED BY <1>3, <1>4 DEF Next

LEMMA MemoryStep ==
  ASSUME AdmissionTypeOK, MemoryInv, Next
  PROVE  MemoryInv'
<1>0. AdmissionTypeOK /\ Listed \cup Pending \in SUBSET VMs
  BY ListedAreVMs, PendingAreVMs
<1> DEFINE Bound == Limit + (Cardinality(Clients) - 1) * MaxMemory
<1>1. Bound \in Int /\ Bound' = Bound
  <2>1. Cardinality(Clients) \in Nat
    BY AdmissionConstants, FS_CardinalityType
  <2> QED BY <2>1, AdmissionConstants
<1>2. \A S : Total(S)' = Total(S)
  BY DEF Total, Granted
<1>3. CASE \A c \in Clients : ~(CheckMemory(c) /\ Fits(Current(c)))
  <2>1. Listed' \cup Pending' \in SUBSET (Listed \cup Pending)
    BY <1>3, WeightStep
  <2>2. Total(Listed' \cup Pending') <= Total(Listed \cup Pending)
    BY <1>0, <2>1, TotalGrows
  <2>3. Total(Listed' \cup Pending') \in Nat /\ Total(Listed \cup Pending) \in Nat
    BY <1>0, <2>1, GranulesFinite
  <2>4. Total(Listed' \cup Pending') <= Bound
    BY <1>1, <2>2, <2>3 DEF MemoryInv
  <2> QED BY <1>2, <2>4 DEF MemoryInv
<1>4. ASSUME NEW c \in Clients, CheckMemory(c), Fits(Current(c)) PROVE MemoryInv'
  <2> DEFINE v == Current(c)
             S == {Current(d) : d \in {e \in Clients \ {c} : Weighed(e)}}
  <2>1. Goto(c, "uuid") /\ UNCHANGED active
    BY <1>4 DEF CheckMemory
  <2>2. /\ Listed' = Listed /\ Current(c)' = v /\ Weighed(c)'
        /\ \A d \in Clients \ {c} : (Weighed(d)' <=> Weighed(d)) /\ Current(d)' = Current(d)
    BY <2>1, MovedClient DEF Listed, Current, Weighed
  <2>3. Listed' \cup Pending' = (Listed \cup {v}) \cup S
    BY <2>2 DEF Pending
  <2>4. v \in VMs /\ Listed \in SUBSET VMs
    BY CurrentInPlan, ListedAreVMs
  <2>5. S \in SUBSET VMs /\ Total(S) <= (Cardinality(Clients) - 1) * MaxMemory
    BY OthersPending
  <2> HIDE DEF S, v
  <2>6. Total((Listed \cup {v}) \cup S) <= Total(Listed \cup {v}) + Total(S)
    BY <2>4, <2>5, TotalOfUnion
  <2>7. Total(Listed \cup {v}) <= Total(Listed) + Total({v})
    BY <2>4, TotalOfUnion
  <2>8. Total({v}) <= Granted(v) /\ Granted(v) \in Nat
    <3>1. Granted(v) \in MinMemory .. MaxMemory
      BY <2>4, GrantedInRange
    <3>2. MinMemory \in Nat /\ MaxMemory \in Nat
      BY AdmissionConstants
    <3> QED BY <2>4, <3>1, <3>2, TotalOfOne
  <2>9. /\ Total((Listed \cup {v}) \cup S) \in Nat /\ Total(Listed \cup {v}) \in Nat
        /\ Total(S) \in Nat /\ Total(Listed) \in Nat /\ Total({v}) \in Nat
    BY <2>4, <2>5, GranulesFinite
  <2>10. Total(Listed) + Granted(v) <= Limit
    BY <1>4 DEF Fits, v
  <2>11. Total((Listed \cup {v}) \cup S) <= Bound
    <3> DEFINE k == (Cardinality(Clients) - 1) * MaxMemory
    <3>1. k \in Int /\ Limit \in Int
      BY <1>1, AdmissionConstants, FS_CardinalityType
    <3>2. Total(S) <= k
      BY <2>5
    <3> HIDE DEF k
    <3>3. Total((Listed \cup {v}) \cup S) <= Limit + k
      BY <2>6, <2>7, <2>8, <2>9, <2>10, <3>1, <3>2
    <3> QED BY <3>3 DEF k
  <2> QED BY <1>2, <2>3, <2>11 DEF MemoryInv
<1> QED BY <1>3, <1>4

\* Commands that check the memory at once all see the VMs listed then, and none
\* the others': what the listed VMs have exceeds the limit, but by at most one VM
\* for each further command, however many VMs each loads and whatever ends.
THEOREM OvercommitIsBounded ==
  ASSUME Clients # {}
  PROVE  Spec => []OvercommitBounded
<1>0. /\ Cardinality(Clients) \in Nat /\ Cardinality(Clients) >= 1
      /\ (Cardinality(Clients) - 1) * MaxMemory \in Nat
  <2>1. Cardinality(Clients) \in Nat /\ Cardinality(Clients) # 0
    BY AdmissionConstants, FS_CardinalityType, FS_EmptySet
  <2> DEFINE k == Cardinality(Clients) - 1
  <2>2. k \in Nat /\ Cardinality(Clients) >= 1
    BY <2>1
  <2>3. MaxMemory \in Nat
    BY AdmissionConstants
  <2>4. k * MaxMemory \in Nat
    <3> HIDE DEF k
    <3> QED BY <2>2, <2>3
  <2> QED BY <2>1, <2>2, <2>4
<1>1. Init => MemoryInv
  <2> SUFFICES ASSUME Init PROVE MemoryInv
    OBVIOUS
  <2>1. Listed \cup Pending = {}
    BY DEF Init, Listed, Pending, Weighed
  <2>2. Total({}) = 0
    <3>1. {x \in {} \X (1 .. MaxMemory) : x[2] <= Granted(x[1])} = {}
      OBVIOUS
    <3> QED BY <3>1, FS_EmptySet DEF Total
  <2> DEFINE k == (Cardinality(Clients) - 1) * MaxMemory
  <2>3. k \in Nat
    BY <1>0
  <2> HIDE DEF k
  <2>4. 0 <= Limit + k
    BY <2>3, AdmissionConstants
  <2> QED BY <2>1, <2>2, <2>4 DEF MemoryInv, k
<1>2. MemoryInv /\ PlanInv /\ [Next]_vars => MemoryInv'
  <2> SUFFICES ASSUME MemoryInv, UNCHANGED vars PROVE MemoryInv'
    BY MemoryStep DEF PlanInv
  <2> QED BY DEF MemoryInv, Total, Granted, Listed, Pending, Weighed, Current
<1>3. MemoryInv /\ PlanInv => OvercommitBounded
  <2> SUFFICES ASSUME MemoryInv, PlanInv PROVE OvercommitBounded
    OBVIOUS
  <2>1. Listed \cup Pending \in SUBSET VMs /\ Listed \in SUBSET VMs
    BY ListedAreVMs, PendingAreVMs DEF PlanInv
  <2>2. Total(Listed) <= Total(Listed \cup Pending)
    BY <2>1, TotalGrows
  <2>3. Total(Listed) \in Nat /\ Total(Listed \cup Pending) \in Nat
    BY <2>1, GranulesFinite
  <2> QED BY <1>0, <2>2, <2>3, AdmissionConstants DEF MemoryInv, OvercommitBounded, Committed
<1> QED BY <1>1, <1>2, <1>3, PlanInvariant, PTL DEF Spec

-----------------------------------------------------------------------------
(***************************************************************************)
(* What runs and what is listed.                                           *)
(***************************************************************************)

\* A Run registers over the entry of another VM, which runs on.
Overwrites(c) == Register(c) /\ active[vm[Current(c)].uuid] # Nil

NoneOverwritten == \A c \in Clients : ~Overwrites(c)

EntryInv == \A v \in running : active[vm[v].uuid] = v

LEMMA EntryStep ==
  ASSUME PlanInv, EntryInv, Next, NoneOverwritten
  PROVE  EntryInv'
<1> USE DEF PlanInv
<1>1. ASSUME NEW c \in Clients, Stays(c) PROVE EntryInv'
  BY <1>1 DEF Stays, EntryInv
<1>2. ASSUME NEW c \in Clients, Names(c) \/ Attaches(c) PROVE EntryInv'
  <2>1. PICK u, m, l : Filled(c, u, m, l)
    BY <1>2 DEF Names, Attaches
  <2>2. UNCHANGED <<active, running>> /\ \A w \in running : vm'[w] = vm[w]
    BY <1>2, <2>1, FilledOther, UnsettledForms
  <2> QED BY <2>2 DEF EntryInv
<1>3. ASSUME NEW c \in Clients, Register(c) PROVE EntryInv'
  <2> DEFINE e == Current(c)
             u == vm[e].uuid
  <2>1. e \in VMs /\ u \in AllUUIDs /\ active[u] = Nil
    BY <1>3, CurrentInPlan DEF NoneOverwritten, Overwrites, Register, ProgressInv, AdmissionTypeOK
  <2>2. active' = [active EXCEPT ![u] = e] /\ running' = running \cup {e} /\ UNCHANGED vm
    BY <1>3 DEF Register
  <2>3. \A v \in running : active[vm[v].uuid] = v /\ v # Nil
    BY AdmissionConstants DEF EntryInv, AdmissionTypeOK
  <2> HIDE DEF u, e
  <2>4. \A v \in running : vm[v].uuid # u
    BY <2>1, <2>3
  <2>5. active'[u] = e
    BY <2>1, <2>2 DEF AdmissionTypeOK
  <2>6. \A v \in running : active'[vm[v].uuid] = v
    BY <2>2, <2>3, <2>4 DEF AdmissionTypeOK
  <2> QED BY <2>2, <2>5, <2>6 DEF EntryInv, u
<1>4. ASSUME NEW v \in VMs, End(v) PROVE EntryInv'
  <2>1. ASSUME NEW w \in running, w # v PROVE vm[w].uuid # vm[v].uuid
    BY <1>4, <2>1 DEF End, EntryInv
  <2> QED BY <1>4, <2>1 DEF End, EntryInv, AdmissionTypeOK
<1> QED BY <1>1, <1>2, <1>3, <1>4, NextForm

\* As long as no Run overwrites an entry of its UUID, what ActiveVMs lists is what
\* runs, and so the memory of all that run is bounded as that of the listed is.
THEOREM RunningIsBounded ==
  ASSUME Clients # {}
  PROVE  Spec /\ [][NoneOverwritten]_vars => [](running = Listed /\ Committed(running))
<1>1. Init => EntryInv
  BY DEF Init, EntryInv
<1>2. PlanInv /\ EntryInv /\ [Next]_vars /\ [NoneOverwritten]_vars => EntryInv'
  <2>1. CASE UNCHANGED vars
    BY <2>1 DEF EntryInv
  <2> QED BY <2>1, EntryStep
<1>3. PlanInv /\ EntryInv => running = Listed
  <2> SUFFICES ASSUME PlanInv, EntryInv PROVE running \subseteq Listed
    BY ListedRun
  <2>1. ASSUME NEW v \in running PROVE v \in Listed
    <3>1. v \in VMs /\ vm[v].uuid \in AllUUIDs
      BY DEF PlanInv, AdmissionTypeOK
    <3>2. active[vm[v].uuid] = v /\ v # Nil
      BY <3>1, AdmissionConstants DEF EntryInv
    <3> QED BY <3>1, <3>2 DEF Listed
  <2> QED BY <2>1
<1>4. running = Listed /\ OvercommitBounded => Committed(running)
  BY DEF OvercommitBounded
<1> QED BY <1>1, <1>2, <1>3, <1>4, PlanInvariant, OvercommitIsBounded, PTL DEF Spec
=============================================================================
