------------------------------ MODULE Admission ------------------------------
(***************************************************************************)
(* How a VM gets to be run: corectl run checks one definition and has it   *)
(* run, corectl load those of a file, one after the other.  The checks of  *)
(* vmBootstrap are made in the client, each on its own answer to ActiveVMs *)
(* or UUIDtoMACaddr; only the name and the UUID are looked at again by     *)
(* Run.  What Run does from there is module VMLifecycle; here it registers *)
(* the VM, answers, and the VM may end at any time.                        *)
(***************************************************************************)
EXTENDS Qcow2, Sequences, FiniteSets

CONSTANTS
  Clients,   \* the run and load commands
  VMs,       \* the definitions they are given
  Plan,      \* those of each client, in the order load boots them
  UUIDGiven, \* --uuid, or Random
  Uuids,     \* what users may give
  NameOf,    \* --name; Nil takes the UUID
  Asked,     \* --memory
  MinMemory, MaxMemory,
  Limit,     \* two thirds of the host's memory
  Root,      \* --root: a path, or Nil
  Volumes,   \* --volume: paths
  Paths,
  Content,   \* the file of a path
  DotImg,    \* the paths that end in ".img"
  Random, Nil

Formats == {"qcow2", "raw"}

ASSUME AdmissionConstants ==
  /\ IsFiniteSet(Clients)
  /\ IsFiniteSet(VMs)
  /\ Plan \in [Clients -> Seq(VMs) \ {<<>>}]
  /\ \A c, d \in Clients : \A i \in DOMAIN Plan[c], j \in DOMAIN Plan[d] :
       Plan[c][i] = Plan[d][j] => c = d /\ i = j
  /\ UUIDGiven \in [VMs -> Uuids \cup {Random}]
  /\ Asked \in [VMs -> Nat]
  /\ MinMemory \in Nat /\ MaxMemory \in Nat /\ MinMemory <= MaxMemory /\ Limit \in Nat
  /\ Root \in [VMs -> Paths \cup {Nil}]
  /\ Volumes \in [VMs -> Seq(Paths)]
  /\ Content \in [Paths -> File]
  /\ DotImg \subseteq Paths
  /\ Random \notin Uuids /\ Uuids \cap (VMs \X (0 .. 3)) = {}
  /\ Nil \notin VMs \cup Uuids \cup Paths \cup (VMs \X (0 .. 3))

VARIABLES
  client,  \* where each command stands
  vm,      \* the VMInfo it fills in
  active,  \* Daemon.Active
  running  \* the VMs that Run registered and that have not ended

vars == <<client, vm, active, running>>

\* uuid.NewV4: the n-th draw for a definition, unlike any other.
Drawn(v, n) == <<v, n>>
AllUUIDs == Uuids \cup (VMs \X (0 .. 3))

PC == {"idle", "memory", "uuid", "mac", "volumes", "register", "boot", "done", "failed"}

Drive == [path : Paths, format : Formats]

\* A MAC address is named by the UUID it was derived from.
AdmissionTypeOK ==
  /\ client \in [Clients -> [pc : PC, at : Nat, tries : 0 .. 3]]
  /\ \A c \in Clients : client[c].at \in DOMAIN Plan[c]
  /\ vm \in [VMs -> [uuid : AllUUIDs \cup {Nil}, mac : AllUUIDs \cup {Nil}, drives : Seq(Drive)]]
  /\ active \in [AllUUIDs -> VMs \cup {Nil}]
  /\ running \in SUBSET VMs
  /\ \A v \in running : vm[v].uuid # Nil

Init ==
  /\ client = [c \in Clients |-> [pc |-> "idle", at |-> 1, tries |-> 0]]
  /\ vm = [v \in VMs |-> [uuid |-> Nil, mac |-> Nil, drives |-> <<>>]]
  /\ active = [u \in AllUUIDs |-> Nil]
  /\ running = {}

Current(c) == Plan[c][client[c].at]

Goto(c, pc) == client' = [client EXCEPT ![c].pc = pc]

\* The definitions ActiveVMs answers.
Listed == {active[u] : u \in AllUUIDs} \ {Nil}

Begin(c) ==
  /\ client[c].pc = "idle"
  /\ Goto(c, "memory")
  /\ UNCHANGED <<vm, active, running>>

\* The daemon is not there or refuses a request, the image cannot be had, the
\* cloud-config is not there, the user interrupts: the command ends, and load
\* with it.
GiveUp(c) ==
  /\ client[c].pc \in {"idle", "memory", "uuid", "mac", "volumes"}
  /\ Goto(c, "failed")
  /\ UNCHANGED <<vm, active, running>>

-----------------------------------------------------------------------------
(***************************************************************************)
(* vmBootstrap                                                             *)
(***************************************************************************)

\* What a VM is granted: its --memory, or the nearest bound.
Granted(v) == CASE Asked[v] < MinMemory -> MinMemory
                [] Asked[v] > MaxMemory -> MaxMemory
                [] OTHER -> Asked[v]

\* The sum over a set of VMs, counted megabyte by megabyte.
Total(S) == Cardinality({x \in S \X (1 .. MaxMemory) : x[2] <= Granted(x[1])})

FitsAlone(v) == Granted(v) <= Limit   \* mutant: forgets the VMs that run
Fits(v) == Total(Listed) + Granted(v) <= Limit

CheckMemory(c) ==
  /\ client[c].pc = "memory"
  /\ Goto(c, IF Fits(Current(c)) THEN "uuid" ELSE "failed")
  /\ UNCHANGED <<vm, active, running>>

\* UUIDtoMACaddr first looks whether the UUID is free.
CheckUUID(c) ==
  /\ client[c].pc = "uuid"
  /\ LET v == Current(c)
         u == IF UUIDGiven[v] = Random THEN Drawn(v, 0) ELSE UUIDGiven[v]
     IN  /\ vm' = [vm EXCEPT ![v].uuid = u]
         /\ client' = [client EXCEPT ![c].pc = IF active[u] = Nil THEN "mac" ELSE "failed",
                                     ![c].tries = 0]
  /\ UNCHANGED <<active, running>>

\* Then it has uuid2mac derive the MAC address, in a process of its own.
Derived(c) ==
  LET v == Current(c)
  IN  /\ active[vm[v].uuid] = Nil
      /\ vm' = [vm EXCEPT ![v].mac = vm[v].uuid]
      /\ Goto(c, "volumes")

OneTry == 1                           \* mutant: settles for the first failure
Tries == 3

\* uuid2mac failed ("error"), ended well and printed nothing ("silent"), or the
\* UUID was taken in the meantime: another is drawn, three times at most.
\* What the last call printed and how it ended is what is answered.
Redrawn(c, out) ==
  LET v == Current(c)
      n == client[c].tries + 1
  IN  /\ out = "mac" => active[vm[v].uuid] # Nil
      /\ vm' = [vm EXCEPT ![v].uuid = Drawn(v, n),
                          ![v].mac = IF out = "mac" THEN vm[v].uuid ELSE Nil]
      /\ client' = [client EXCEPT ![c].pc = IF n < Tries THEN "mac"
                                            ELSE IF out = "error" THEN "failed" ELSE "volumes",
                                  ![c].tries = n]

FindMAC(c) ==
  /\ client[c].pc = "mac"
  /\ Derived(c) \/ \E out \in {"mac", "error", "silent"} : Redrawn(c, out)
  /\ UNCHANGED <<active, running>>

\* ValidateVolumes is called for the root volume, then for the others.
RootDisk(v) == IF Root[v] = Nil THEN <<>> ELSE <<Root[v]>>
Disks(v) == RootDisk(v) \o Volumes[v]

Header == [p \in Paths |-> ValidateQcow2(Content[p])]

Attached(v) == {vm[v].drives[i].path : i \in DOMAIN vm[v].drives}

\* format is set once per call and stays Raw after the first raw volume.
FormatForGood(v, p) ==                \* mutant: the root volume decides for the others
  IF Header[p] = "raw" \/ \E i \in DOMAIN vm[v].drives : vm[v].drives[i].format = "raw"
  THEN "raw" ELSE "qcow2"
FormatOf(v, p) ==
  LET k == Len(vm[v].drives) + 1
      sticky == k - 1 > Len(RootDisk(v)) /\ vm[v].drives[k - 1].format = "raw"
  IN  IF Header[p] = "raw" \/ sticky THEN "raw" ELSE "qcow2"

InUseByNone(p) == FALSE               \* mutant: the VMs that run are not asked
InUse(p) == \E w \in Listed : p \in Attached(w)

Attachable(v, p) ==
  /\ Header[p] # "broken"
  /\ FormatOf(v, p) = "raw" => p \in DotImg
  /\ ~InUse(p)
  /\ p \notin Attached(v)

AttachVolume(c) ==
  LET v == Current(c)
      k == Len(vm[v].drives) + 1
  IN  /\ client[c].pc = "volumes"
      /\ k <= Len(Disks(v))
      /\ LET p == Disks(v)[k]
         IN  IF Attachable(v, p)
             THEN /\ vm' = [vm EXCEPT ![v].drives = Append(@, [path |-> p, format |-> FormatOf(v, p)])]
                  /\ UNCHANGED client
             ELSE /\ Goto(c, "failed")
                  /\ UNCHANGED vm
      /\ UNCHANGED <<active, running>>

-----------------------------------------------------------------------------
(***************************************************************************)
(* Run, and what follows                                                   *)
(***************************************************************************)

VMName(v) == IF NameOf[v] = Nil THEN vm[v].uuid ELSE NameOf[v]

Clash(v) == active[vm[v].uuid] # Nil \/ \E w \in Listed : VMName(w) = VMName(v)

Lookup(c) ==
  LET v == Current(c)
  IN  /\ client[c].pc = "volumes"
      /\ Len(vm[v].drives) = Len(Disks(v))
      /\ Goto(c, IF Clash(v) THEN "failed" ELSE "register")
      /\ UNCHANGED <<vm, active, running>>

Register(c) ==
  LET v == Current(c)
  IN  /\ client[c].pc = "register"
      /\ active' = [active EXCEPT ![vm[v].uuid] = v]
      /\ running' = running \cup {v}
      /\ Goto(c, "boot")
      /\ UNCHANGED vm

PastTheLast(c) == client[c].at > Len(Plan[c])  \* mutant: off by one
IsLast(c) == client[c].at = Len(Plan[c])

\* The answer of Run: load goes on with the next definition, or ends.
Answer(c) ==
  /\ client[c].pc = "boot"
  /\ \/ Goto(c, "failed")
     \/ /\ IsLast(c)
        /\ Goto(c, "done")
     \/ /\ ~IsLast(c)
        /\ client' = [client EXCEPT ![c].pc = "memory", ![c].at = @ + 1]
  /\ UNCHANGED <<vm, active, running>>

\* The hypervisor is gone; deregister deletes the entry of its UUID.
End(v) ==
  /\ v \in running
  /\ running' = running \ {v}
  /\ active' = [active EXCEPT ![vm[v].uuid] = Nil]
  /\ UNCHANGED <<client, vm>>

Command(c) ==
  \/ Begin(c)
  \/ GiveUp(c)
  \/ CheckMemory(c)
  \/ CheckUUID(c)
  \/ FindMAC(c)
  \/ AttachVolume(c)
  \/ Lookup(c)
  \/ Register(c)
  \/ Answer(c)

Next ==
  \/ \E c \in Clients : Command(c)
  \/ \E v \in VMs : End(v)

Spec == Init /\ [][Next]_vars

-----------------------------------------------------------------------------
(***************************************************************************)
(* Properties                                                              *)
(***************************************************************************)

\* The memory check of vmBootstrap adds up the VMs that ActiveVMs lists.  One whose
\* entry another Run of its UUID has overwritten runs on without being counted.
Committed(S) == Total(S) <= Limit + (Cardinality(Clients) - 1) * MaxMemory

\* The memory check does not hold across commands, but its error is bounded:
\* the listed VMs exceed the limit by at most one VM per further command.
OvercommitBounded == Committed(Listed)

OfOnePlan(v, w) ==
  \E c \in Clients : \E i, j \in DOMAIN Plan[c] : Plan[c][i] = v /\ Plan[c][j] = w

\* Two listed VMs can have one volume only when different commands started
\* them: the check of ValidateVolumes sees all that its own command started.
SharedOnlyAcrossClients ==
  \A v, w \in Listed : v # w /\ Attached(v) \cap Attached(w) # {} => ~OfOnePlan(v, w)

\* The images up to the i-th that decide how the i-th is attached: itself, and
\* those of the same call of ValidateVolumes.
Deciding(v, i) == {i} \cup (Len(RootDisk(v)) + 1) .. i

\* A VM has each image once, as qcow2 only one with the magic and a whole header,
\* and as raw only one that is no image or follows one, in its own --volume list:
\* that much becomes of the format that outlives the iteration (ValidateVolumes).
DrivesAreSound ==
  \A v \in running : \A i, j \in DOMAIN vm[v].drives :
    /\ vm[v].drives[i].path = vm[v].drives[j].path => i = j
    /\ vm[v].drives[i].format = "qcow2" => IsImage(Content[vm[v].drives[i].path])
    /\ vm[v].drives[i].format = "raw" =>
         \E k \in Deciding(v, i) : ~IsImage(Content[vm[v].drives[k].path])

\* However often the UUID is drawn again, the MAC address of a VM that runs, if
\* it has one, is its own UUID's.
MACIsOfUUID == \A v \in running : vm[v].mac \in {Nil, vm[v].uuid}

=============================================================================
