# A TLA+ model of corectl

corectl runs CoreOS virtual machines on macOS. `corectld` is a daemon that
registers VMs, launches one hypervisor process (`corectld.runner`) per VM and
answers JSON-RPC requests of the `corectl` command and HTTP requests of the
guests. This directory holds TLA+ modules of the daemon's concurrent core,
their TLC configurations, and proofs for TLAPS. Paths below are relative to the
repository; `server/` stands for `components/server/`.

## Inventory

| Component | State it keeps | Operations | What makes it correct |
|---|---|---|---|
| VM lifecycle (`server/rpcservices.go`, `run.go`, `httpservices.go`) | `Daemon.Active`, `Daemon.Mutex`, `Jobs`, and in each `VMInfo` the channels `publicIPCh`, `errCh`, `done`, two `sync.Once`, the `exec.Cmd` | Run, its address/timeout goroutine, its hypervisor goroutine, `/ping`, `/NotIsolated`, StopVMs, Stop | a hypervisor that runs is listed and counted; Run has one, true answer; a halt waits for the right VM and ends; the mutex is not lost |
| Daemon start and end (`server/server.go`, `cmd/server.go`, vendored `manners`) | `Oops`, `AcceptingRequests`, `APIserver`, `WorkingNFS` | the check for another daemon, Start and its steps, its API goroutine, the signal goroutine, the drain, the deferred Stops | no hypervisor runs when the daemon leaves in order; a daemon told to end does; a start that fails or crashes leaves the host so that the next one is right |
| Image store (`server/images.go`, `rpcservices.go`, `cmd/pull.go`, `rm`, `ls`) | directories on disk, `Daemon.Media` | localImages, AvailableImages, RemoveImage, PullImage | what is listed is there and whole; half an image has somebody who is at work on it or said that he failed; the image asked for is the one removed |
| Client admission (`cmd/run.go`, `cmd/load.go`, `ValidateVolumes`, `UUIDtoMACaddr`) | none; it reads ActiveVMs | memory, volume, UUID and MAC checks before Run | limits and exclusive use hold for the VMs that run together |
| Name server (`server/dns.go`, ignition handler) | keys in etcd, `/etc/resolver/corectld` | NewDNSServer, addRecord, rmRecord, Stop | the host keeps its name; a name ends with its VM, and not before; two spellings of a name are one key |
| Embedded etcd (`server/etcd.go`) | its data directory, its lock | NewEtcd, Start, Stop; set, delete, recursive delete | no session sees the records of an earlier one; nobody waits for it for ever |
| NFS exports (`server/nfs.go`) | `/etc/exports`, the host's nfsd | read, rewrite, check, roll back, update or start nfsd | the user's lines are never lost; "NFS works" means it does |
| QCOW2 (`server/qcow2.go`) | none | ValidateQcow2 | nothing that is no image is attached as one |
| Boot payload (`run.go`), host session, SSH connector, channels, assets, release check, helpers under `components/host/darwin` | none that outlives a call | parsing, formatting, terminal sessions | sequential functions |
| RPC transport, commands ps, halt, panic, ssh, version, docs | none | one request, one reply | |

How they interact. Handlers run in a goroutine each and share `Daemon`.
`Daemon.Active` is a Go map that most of them read without the mutex. Run
leaves two goroutines behind that live as long as the VM; they talk to the
handler and to the guests' callbacks by the channels of the `VMInfo`. Clients
and the daemon share the image directories, without any lock between them.
`deregister`, with the mutex held, and the ignition handler, without it, send
requests to the embedded etcd over HTTP, as Start and the Stop of the name
server do; each waits a second for its answer, and etcd does not learn that a
caller gave up.

What is hard here: `lookup` and `register` are not one critical section; the callbacks
resolve a UUID three times; handlers unlock without `defer`, so that a panic (which
`net/http` recovers) keeps the mutex; `done` is closed at boot and read by code that
means exit; timeouts race addresses and exits; a halt walks a snapshot of the map and
looks each VM up again by its UUID; `Oops` has one place and four senders; image scans
delete what a pull is building, file by file; a handler may add a name that `deregister`
has just removed; what Start changes on the host (records, a resolver file,
`/etc/exports`, nfsd) survives a crash at any point and is read by the next start.
`PROJECT.json` lists these and others as hazards, by line.

## Modules

**VMLifecycle** models Run, its goroutines, the callbacks and the stoppers. A
VM (`VMs`) is one `VMInfo`, that is, one Run request; names and UUIDs are given
by the functions `NameOf` and `UUIDOf` and may collide. `run`, `watcher` and
`keeper` are program counters of the handler and of the two goroutines, `proc`
is the hypervisor process, `vm` the shared fields, `req` the guests' requests,
`stop` the halts, stops and the signal goroutine. The map `active`, the counter
`jobs` (the set of goroutines it counts) and `mutex` are the daemon's. A step is
the code between two points where another goroutine can interfere; a critical
section that cannot block is one step, and `mutex` names the handler that blocked
or panicked inside one. `net/http` recovers a panic of a handler; in any other
goroutine it ends the process (`daemon = "crashed"`).

| Action | Code |
|---|---|
| `RunAccept`, `RunReserved`, `RunLookup`, `RunRegister` | Run's first checks; `register`: `lookup` under the mutex, then the write without it |
| `RunStrand`, `RunLaunch`, `RunReply` | `MkRunDir` fails; the goroutines are spawned; the final `select` |
| `WatchReceive`, `WatchRecord`, `WatchClose`, `WatchTimeout`, `WatchKill` | the goroutine that waits for the address, closes `publicIPCh` and `done`, or times out and kills |
| `KeeperAdd`, `KeeperStart`, `KeeperReap`, `Deregister`, `KeeperDone` | `Jobs.Add`, `exec.Start` (which may fail), `Wait`, `deregister`, `Jobs.Done` |
| `Arrive`, `Fetch`, `AlreadyCalled`, `Deliver*`, `SendComplete` | `acceptableRequest`, the lookups of the handler, the `Once` and its body |
| `Stop*`, `Snapshot`, `Kill`, `Term*`, `Poll` | StopVMs, Stop, `gracefullyShutdown` of the list and of one VM, `kill` |
| `Start` | what the main goroutine may do to the rest: `Refuse`, `Leave`, `Notify`; module Daemon says when |
| `ProcExit` | the hypervisor ends; external |

**VMService** is what a client may rely on: a VM is listed once, from before its
hypervisor starts until after it ended, and its Run is answered once, by what
became of the guest. `VMLifecycle!Service` maps the detailed state to it.

**Daemon** extends VMLifecycle with the main goroutine of `server.Start`, the
API goroutine, `Oops`, the signals (a second one kills the process), and
`MapFault`, the runtime error of a map that is read and written at once.
`DaemonSpec` implements `VMLifecycle!Spec`.

**ImageStore** models one channel: directories and their files, `media`, the
mutex, and commands (`ls`, `rm`, `pull`, `pull --force`, `run`,
`run --offline`). Every Stat, Rename, unlink and rmdir is a step, so that scans of
the daemon and of clients interleave with pulls; downloads may fail, and a client
may be interrupted. Versions are numbers in semver order.

| Action | Code |
|---|---|
| `Begin`, `AvailableImages`, `Resolve`, `Pick` | the commands begin; AvailableImages takes the mutex for its scan; the version a pull or an `rm` settles on |
| `StatKernel`, `StatRoot`, `Drop`, `ScanEnd` | localImages, which returns the error of its `os.RemoveAll` (`botched`) |
| `RemoveImage`, `Delete` | the image leaves Media under the mutex, its directory the disk without it; an error is returned |
| `Mkdir`, `Download`, `Rename`, `Ready`, `Interrupt` | PullImage in its client |

`os.RemoveAll` is a number of steps: `Unlink` for each file, then `Rmdir`. It fails
when it stops midway, or when a pull puts a file into the directory before its rmdir.

**ImageShelf** is what that comes to: an image is absent, half or whole; it is whole
before it is listed, and nobody takes a file of it away until it left the list; it
comes and goes file by file, in somebody's hands (`layers`, `sweepers`); and who takes
his hands off half an image leaves it to another, or ends without success
(`spoiled`). `ImageStore!Shelf` reads the state of an image off its directory, and
whose hands it is in off the program counters (`Lays`, `Sweeps`, `Spoiled`).

**Admission** models how VMs get to Run: `corectl run` with one definition,
`corectl load` with several, each with its place in `vmBootstrap` (`client`), the
`VMInfo` it fills in (`vm`), and the daemon's map (`active`). Every check is made
on the answer of one request, and other commands act between two of them. A VM
that Run registered may end at any time; what happens to it until then is
VMLifecycle's matter. A MAC address is named by the UUID it was derived from, a
disk by its path. What a file holds is `Content`, and what ValidateQcow2
(module **Qcow2**, an operator on the fields of the header and the size of the
file) makes of it is `Header`; `IsImage` is what it should be.

| Action | Code |
|---|---|
| `Begin`, `GiveUp` | the commands begin; any failure of vmBootstrap that is not modelled, and interrupts |
| `CheckMemory` | the bounds of `--memory`, the sum over ActiveVMs |
| `CheckUUID`, `FindMAC` | UUIDtoMACaddr: is the UUID free, then up to three calls of `uuid2mac` with a new UUID after each failure |
| `AttachVolume` | one turn of the loop of ValidateVolumes |
| `Lookup`, `Register`, `End` | `lookup` in `register`, the write of the map, `deregister` |
| `Answer` | the reply of Run, and the loop of `loadCommand` |

**Records** is the tree that etcd keeps under `/skydns` and the requests of `addRecord`
and `rmRecord`, two each. A key is a path of labels; the store maps it to a record,
`Dir` or `Nil`. Several names may have one key (`Labels` need not be injective): corectl
only lower-cases a name, `invertDomain` drops a slash at its end, and etcd cleans the
path of what is empty, so that `web`, `web.` and `web/` are one record, although
`register` takes them for three names. A request is carried out and answered
(`Answered`), refused (`Refused`: a file in the way of a directory, a directory where a
file should be, nothing to delete), or not answered within the second (`TimedOut`); then
it is lost or stays in `late`, to be carried out at any time (`LateApplied`). After an
error the second request is not sent.

**Names** has the records while the daemon serves. Of a VM it keeps what moves its
records.

| Action | Code |
|---|---|
| `Lookup`, `Register` | `register`, in the same two steps as in VMLifecycle |
| `Boot`, `CallBack`, `Exit` | DHCP gives the guest an address; `/ping` tells it to the daemon (`publicIP`); the hypervisor ends. The first and the last are external |
| `Deregister`, `Deregistered` | the goroutine of Run takes the mutex and sends `rmRecord`; then the entry goes and the mutex is free |
| `Accept`, `Fetch`, `Render`, `Return` | the ignition handler: `acceptableRequest`, the second lookup (which may find nil, and panics), the template and `addRecord`, the end |
| `Reply`, `GiveUp`, `LateReply` | what becomes of a request |

**Startup** is everything before and after that: two or more processes that start,
with the steps in the order of the code, each with its failure, and `Crash` at any
of them.

| Action | Code |
|---|---|
| `Start`, `NewServer`, `Listen`, `WipeRecords` | `Running`; etcd: the lock, the port, the removal of `/skydns` |
| `CheckPort`, `AddRecords`, `CreateResolver`, `PortForward` | NewDNSServer and the name server's Start |
| `ReadExports`, `Truncate`, `Fill`, `exportsCheck`, `Refill`, `Load` | nfsSetup; a WriteFile is two steps, for it empties the file first, and either may fail (the errors of the rollback's are dropped); the list of processes, whose error is dropped, may not show the nfsd that runs (`ListFails`) |
| `ScanImages`, `Stop`, `RemoveRecords`, `RemoveResolver`, `Leave` | localImages, whose error ends Start; the end of the session and the deferred Stops |
| `NameGuest`, `LateReply` | what Names does to the store, and late requests |

The three modules about names and VMs are tied together as follows: Daemon
extends VMLifecycle; Names and Startup extend Records; Startup's state
`serving` is where Daemon's main goroutine begins, and Names begins in the store
that Startup proves (`FreshRecords`) to be there then.

**VMLifecycleProofs, AnswerProofs, DaemonProofs, ImageProofs, AdmissionProofs,
RecordsProofs, NamesProofs, StartupProofs** hold the theorems; **MCVMLifecycle,
MCDaemon, MCImageStore, MCAdmission, MCNames, MCStartup** the values of the
constants.

## Runs

| Run | Instance | Shows |
|---|---|---|
| Lifecycle | 2 VMs with their own UUIDs, one named like the other's UUID, a halt of all, a panic of what both answer to | types; NoOrphan, JobsCoverRunning, MoveOnWhenGone; implements VMService |
| Callbacks | 2 VMs of one name and one that asks for the reserved one, 2 pings, 1 NotIsolated | OneTrueAnswer, MutexLostOnlyToDeadGuest, OwnGuestAnswers |
| Shutdown | 1 VM, 1 ping, a Stop and a signal, fairness | types; DrainedMeansNoneRuns, implements VMLifecycle and VMService, DrainEnds, HaltEnds, RunReplies, DeadVMDeregistered |
| Images | 2 commands, each rm, pull --force or run --offline, 2 versions, fairness | types; MediaIsWhole, HalfIsAccounted, CommandsEnd; implements ImageShelf |
| Admission | a load of 3 definitions and one of 2, with a common UUID, name, image and memory limit; raw images and QCOW2 of two versions; a raw root before good volumes | types; OvercommitBounded, SharedOnlyAcrossClients, DrivesAreSound, MACIsOfUUID |
| Startup | 2 processes, 1 guest's name, 1 late request, a list of processes that may fail, fairness | types; FreshRecords, ResolverRemoved, UserLinesKept, WorkingMeansExported, StartEnds |
| Names | 2 VMs of one key under two spellings and one that asks for the host's name, 1 handler, 1 late request, fairness | types; HostLostToAliasOnly, StaleOnlyIfOvertaken, NameOutlivesOthers, EtcdCannotBlock |

Five runs end in a counterexample; each is a place where the code differs from
what it says of itself:

| Run | Shows |
|---|---|
| UniqueNames | two Runs of one name both register ("Another VM is already running with the same name or UUID") |
| DeafVM | a VM that booted is never sent SIGKILL ("SIGTERM timed out, SIGKILLing it now"), and the halt waits for ever |
| FailedStart | after `exec.Start` failed the timeout reads the Pid of a nil Process, and the daemon dies |
| RemoveOther | `pull`, then `rm`: the new image is not in `Daemon.Media`, and an older one is deleted ("removed %s/%s") |
| NFSServed | after a crash, or a failed `nfsd update`, the next start takes its own signature in `/etc/exports` for proof that nfsd serves it ("VMs will be able to have host's homedir shared via NFS"); the list of processes never fails in this run, so that the trace does not rest on that |

Bounds. In VMLifecycle, Daemon, ImageStore and Admission every cycle of the code that
the model keeps is finite (a VM runs once, a request is made once), so the runs need no
bound but the sets. In Names a handler serves one request after another, and in Startup
processes start again without end; the states are finite all the same, save for the late
requests: `MaxLate`, 1, bounds those that are on their way at one time. `ListFails` says
whether a run lets the list of the host's processes fail. Two VMs are what every
property of a pair needs: a clash, a stale lookup, one entry deleted by another's
goroutine; the theorems cover any number. Three callbacks are what it takes to fill
`publicIPCh`, block on it and be panicked, next to a `/NotIsolated`; the two pings may
be exchanged, so the run has them as a symmetry set. Two commands and two versions let
each operation on images meet each other one. The run has three kinds of command, whose
paths contain those of the others: `ls` is the first half of `rm`, and `pull` and `run`
are made of pieces of `pull --force` and `run --offline` (RemoveOther has `pull`
itself). All its properties but CommandsEnd are also proved for any number. In Admission
the definitions are chosen so that every check is passed and failed by some order: the
bound of OvercommitBounded (the limit and one VM of the largest size) is reached, one
image is wanted by three VMs, another by two VMs of one command, one VM names its image
twice, and one has a raw root before a good image; `Drawn` UUIDs are bounded by the
three tries of the code. Two processes are what Startup's lock has to keep apart, and
one is enough for a crash and what the next start makes of it. Two VMs of one key, a
handler and one late request are what it takes for a record to be set after it was
removed, removed after it was set again, or removed with that of the other VM, at the
same time or one after the other; the third VM is the one that could take the host's
name, and the offers of DHCP give two VMs one address after another. All invariants of
these runs are also proved for any sets. Deadlock is not checked, because all requests
may be done.

The addresses are named by the VM they belong to. Clocks are left out: a timeout
may fire whenever its `select` could take it.

## Fairness

`FairSpec` has weak fairness of every goroutine (the Go scheduler runs what can
run, and timers fire), of the exit of a process that was sent SIGKILL, and of
the exit after SIGTERM, except for VMs in `Deaf`. Nothing makes a request
arrive, a guest call back or a VM power off. Weak fairness is enough because a
section that could be disabled again and again by the mutex is one step here;
the mutex is taken across steps only by a blocked send or a panic, and each
liveness property names the states from which nobody recovers (`Wedged`, a dead
daemon). `DaemonFairSpec` adds the API and main goroutines and `StopNotify`. In
ImageStore scans hold the mutex over many steps; there a command has strong
fairness, since Go's mutex goes into starvation mode and serves the waiter that
waits longest. Interrupts and the start of commands are never forced.

etcd owes nothing: no fairness makes it answer. In Names the deregistering
goroutine and the handlers have weak fairness of their own steps and of `GiveUp`,
for the timer of the client (one second) fires whatever etcd does; each VM takes
the mutex once, so that a VM that waits for it is not overtaken for ever. In
Startup a process has weak fairness of `RunsOn`, its session without an answer of
etcd; a crash and the end of a session that serves are never forced, though the
signal that ends it may come.

## Proofs

All theorems hold for any sets of VMs, names, requests, stoppers, commands,
versions, handlers, processes and late requests; the assumptions are
`ConstantsAssumption`, `ImageConstants`, `AdmissionConstants`, `RecordConstants`,
`NamesConstants` and `StartupConstants`: types, finitely many VMs, a `Nil` apart,
no definition given to two commands, a drawn UUID unlike any other, no guest that is
offered the address of the host.

Some theorems have a hypothesis on the behaviour as well, because what they say is
false of the code without it. It names the step that goes wrong:

| Hypothesis | Excludes | Without it |
|---|---|---|
| `NoOverwrite` | a Run that registers over an entry of its UUID: the race of run UniqueNames | the entry of one VM is the other's: NoOrphan, MoveOnWhenGone and VMService fail |
| `NoStaleCallback` | a callback that meets the successor of its VM, which was given its UUID | it fills `publicIPCh` of a VM that is not its own, and the next send blocks with the mutex held |
| `NoStaleAsk` | the same of a handler of `/ignition` | it adds the name of the successor with the address of a guest that is gone |
| `NoneUnnamed` | a Run that registers, under a UUID still on the list of a halt, a VM that the halt was not asked for | the halt looks that UUID up and terminates it: HaltsTheNamed fails |
| `NoneOverwritten` | the same as `NoOverwrite`, in Admission | a VM runs on that is not listed, and no client counts its memory |
| `Undisturbed`, `OneRemoval` | a pull that puts a file in place, a removal that fails; two removals that overlap | the image that was named is not listed, not any more, or not gone, and another is deleted |
| `NothingUntold` | an nfsd that is not told (its update fails, or the list of processes did not show it); a start that dies between its signature and the update; a rollback that cannot open the file and leaves the signature | the next start takes the signature for proof |

A UUID may be used again and again under the first of these, for VMs that follow each
other. `UUIDsSuffice` (in VMLifecycleProofs and NamesProofs) and
`UUIDsSufficeForCallbacks` prove the first three where no two VMs ever share a UUID
(`UUIDsDiffer`), as in runs Lifecycle, Callbacks and Names; `SerialRunsSuffice`
proves the first one of Runs that do not meet between lookup and register. For three
of the five counterexamples, and for two more things that can be seen to go wrong, a
theorem says what causes them, and that nothing else does:

- `SerialRunsSuffice` (UniqueNames): `FreeInv`, what lookup found free stays free
  until register, for only a register takes a name or UUID (`RegistryStep`), and the
  only Run that could be at it is the one that looked.
- `HaltsNoOther`. A halt picks a VM ("shutting down" and its name), looks it up again
  by its UUID, and terminates what it finds, which is another VM when one took the UUID
  since. `NamedInv`: whatever the map holds under a UUID on the
  list of a halt is what the halt was asked for; a list is filled with such VMs
  (`ListStep`), and only a register changes an entry (`EntryStep`).
- `RemovesTheNamedAlone` (RemoveOther): `NamedInv` says that what a removal may
  choose from is listed, because a directory that holds a file is listed or is being
  deleted (`FilesListed`); only another removal takes it off the list.
- `HostKeepsName`. A VM named `corectld.` is no clash for `register`, and its record
  takes the place of the host's; that is all that HostLostToAliasOnly excuses, and the
  theorem needs no hypothesis: as long as nobody past
  `lookup` has another spelling of the host's name (`AliasFree`), no request, pending
  or late, has its key or wipes the tree (`HarmlessInv`); what remains is that etcd
  makes no directory of a file (`HarmlessKeeps`).
- `ServedUnlessUntold` (NFSServed): `ToldInv`, a running nfsd serves what the
  signature stands for, save while the start that wrote it is about to tell nfsd, and
  `ReadInv`, what nfsSetup read of nfsd and the file is still so when it decides.

The other two counterexamples are liveness (DeafVM) and a timeout that does not look
whether there is a process (FailedStart).

- `TypeCorrect`: the type invariant of VMLifecycle. It carries the facts that make
  lookups safe: a request past `Fetch` has a VM, a walk has a list.
- `JobsCover`: JobsCoverRunning is not inductive as it stands, since `jobs` and `proc`
  are changed by steps of the keeper goroutine at different times. `KeeperInv` ties both
  to where that goroutine stands: a process runs only from `KeeperStart` to
  `KeeperReap`, and the goroutine is counted for longer.
- `NoOrphans`: `RegisteredInv` says that from `RunRegister` to `Deregister`, and no
  longer, the entry of a UUID is its VM; it is inductive as long as no Run overwrites an
  entry, for then each Deregister deletes its own.
- `AnswersAreTrue`: `AnswerInv` follows the address and the two errors from their
  goroutines to the answer: `done` and a timeout exclude each other, since one goroutine
  decides between them, and a failed start never gets an address. No assumption on UUIDs
  is needed, because these channels belong to the `VMInfo`.
- `AddressesAreOwn`: `IPInv` follows the address from the handler into `publicIPCh`,
  `received` and `ip`: each lookup by UUID may yield another `VMInfo`, but one of the
  same UUID.
- `DaemonImplementsLifecycle`: initial states and steps of Daemon are initial states and
  steps (or stutters) of VMLifecycle. `DrainWaits`, `DaemonNoOrphans`,
  `DaemonTypeCorrect` and `DaemonImplementsService` carry the invariants and the
  refinement over to Daemon.
- `MediaWhole`, `ImagesTypeCorrect`: `ImagesInv` adds to MediaIsWhole that whatever a
  command is about to delete is not in Media (`CurUnlisted`) — a scan saw a file missing
  that Media's images have, a removal has cut its image out before — and that a version
  was settled (`VersionSettled`).
- `OvercommitIsBounded` speaks of the VMs that ActiveVMs lists, which is all that a
  client can count: `MemoryInv` bounds the VMs listed together with those that passed
  the memory check and are not listed yet. A check that passes finds what is listed,
  with its own VM, within the limit; past their checks are one VM of each other command
  at most. `Total` is the number of megabytes granted, counted as pairs, so that its
  additivity is that of Cardinality and needs no induction. `RunningIsBounded` adds
  (`EntryInv`) that whatever runs is listed as long as no Run overwrites an entry, so
  that the bound holds for all that run.
- `VolumesSharedAcrossOnly`, `DrivesStaySound`: `PlanInv` says how far each definition
  is: what runs lies behind its command's position (`OrderInv`), and what is listed runs
  (`ActiveInv`), so that a command only writes to a definition that nobody sees. With
  `CheckedInv`, what a command has attached so far is attached to no listed VM it
  started itself, since only its own Run could add one. DrivesAreSound goes both ways:
  no raw file as QCOW2, and an image as raw only after a raw one in the same list, whose
  format ValidateVolumes keeps (`Deciding`). These two, too, speak of listed VMs.
- `MACsMatch`: `MACInv` says where MAC address and UUID may differ (while UUIDs are
  drawn) and that the third draw is reached only by failures of `uuid2mac`.
- `MutexLost`: that `publicIPCh` is empty and open when a handler sends comes from two
  sides: `CalledInv`, an address on its way means that the `Once` of the VM was used,
  and `FetchedInv`, whoever fetched a VM fetched one that was registered, and no handler
  waits to send.
- `AnsweredByOwnGuest`: `OwnInv` follows an address from the guest that sent it, so that
  `ip` is the VM's own and WatchRecord finds the process started. AddressIsOwn
  (`AddressesAreOwn`), which holds without a hypothesis, says only that the UUIDs agree.
- `ImplementsService`, `DaemonImplementsService`: every step maps to one of VMService or
  a stutter. `ViewInv` collects KeeperInv, RegisteredInv and AnswerInv; a step of a VM's
  goroutines moves the view of that VM alone (`OneMoves`), all others keep every view.
- `NamesKeepService`: the VMs of Names implement VMService too, so that what that module
  adds, a deregistration that waits for etcd, late requests, handlers that fetch a VM
  and add its name after it is gone, takes nothing of the promise away. `CallInv` and
  `ListInv` say where a VM stands when its guest calls and when its entry goes.
- `MovesOnWhenGone`: `WalkInv` says that the VM a halt polls was started and has the
  UUID that it is looked up by; by RegisteredInv it is gone from the map only when its
  hypervisor is.
- `ImplementsShelf`: `RoleSets` says of every step whose hands it moves, and `ShelfStep`
  which step of ImageShelf that is. `NoFileWithoutDir` makes a directory that a pull
  creates start empty, `LeftLater` says that only a pull has files left to put in place,
  and HalfInv that nobody lets go of half an image in silence.
- `HalvesAccounted`: HalfIsAccounted is not inductive, for a command that has renamed
  its last file is done with an image whatever others unlinked of it. `HalfInv` asks for
  somebody who accounts for it (`Accounts`): who deletes, or failed to delete, this
  image, or a pull that still owes it every file that is missing (`Owes`).
- `NameOutlives`: `NameInv` ties the entry of a UUID to its VM, an address to each guest
  that runs, and says who sends what: VMs delete, handlers set.
- `NamesEnd`: StaleOnlyIfOvertaken speaks of a VM that is gone; the invariant
  `ClearedInv` says it from the moment its own request removed the name (`RemovalInv`:
  it is the first of the two). From then on the name can lead to the guest again only by
  a request that sets it: `ClaimInv` says whose each pending and late request is,
  `AskInv` that a handler has the address of the VM it serves.
- `StartupTypeCorrect`, `UserLinesStay`, `WorkingIsExported`, `ResolverGoes`: by LockOK
  one process is past `NewServer`, and everything else depends on where it stands
  (`Stage`): `UserInv` (the user's lines are in the file or in `buf`), `SignInv` (the
  signature was written before `Load`), `ResolverInv` (the steps from which a Stop will
  remove the file).
- `StartsFresh`: `FreshInv` follows the four requests of NewDNSServer: what is left to
  send and what the store holds (`Laying`, `Laid`) go together. It holds because only
  the holder's requests are on their way: a late one dies with its etcd, and one of this
  session makes it `slow`.

Only model-checked: liveness (TLAPS has no ENABLED or fairness here), that is,
CommandsEnd, DrainEnds, HaltEnds, RunReplies, DeadVMDeregistered, StartEnds and
EtcdCannotBlock. Proved, and checked by no run: NamesKeepService, RunningIsBounded and
the theorems with a cause as their hypothesis.

## What is not modelled

Logging, formatting, paths, templates, the contents of images; the signature and digest
checks of a download and its temporary directories, which no other command reads; file
system errors other than a missing directory, a removal that fails or stops midway, a
write that is cut short and the failures that Startup names; several channels at once;
the scheduling of goroutines inside a critical section; data races other than those on
`Daemon.Active`. `StopVMs` takes a list of names, but its only callers, `corectl halt`
and `panic`, send one name or ask for all (`cmd/halt.go`, `cmd/panic.go`), and so does a
stopper.

Of the name server: the answers to DNS queries (vendored SkyDNS) and the rules of
pfctl. Of etcd: raft and its files. Of ignition: the template, and the
cloud-config endpoint, which changes nothing. The addresses that DHCP gives are
taken to stay with a UUID for as long as its VM is registered.

The other parts of the inventory without a state (boot payload, RPC transport,
output of the commands, SSH and host sessions, channels, assets, the release
check, the cgo helpers) compute a result from their arguments, or move bytes
between a terminal and a guest: nothing that two of them could disagree on.

Three things that go wrong can be seen in Admission without a run of their own: VMs
of different commands may share a volume (SharedOnlyAcrossClients allows no more
than that), the format found for one image is kept for the next of its list
(DrivesAreSound allows no more than that), and a VM whose entry was overwritten runs
on and counts for no check. Every run of
corectl is a new process, so no state of a client survives it; what the daemon
leaves on the host is in ImageStore and Startup.

## Plan

Done: all modules above, and a theorem about every safety property of a run.

1. The signature and digest checks and the temporary directories of a download, with
   several pulls in one process, as a refinement of ImageStore's `Download`.
2. Names and VMLifecycle in one specification, so that `Deregister` is the one of
   both; today each implements VMService by a mapping of its own.

## Running

`tlc -config <Run>.cfg <module>` with the module that `PROJECT.json` names, and
`tlapm <Module>Proofs.tla` (`ImageProofs.tla` for ImageStore, `AnswerProofs.tla` for
the second half of VMLifecycle). Images and Names are the longest runs,
about two minutes with two workers.
