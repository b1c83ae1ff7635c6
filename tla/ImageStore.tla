----------------------------- MODULE ImageStore -----------------------------
(***************************************************************************)
(* The CoreOS images of one channel: the directories on disk, and          *)
(* Daemon.Media, the daemon's idea of them.  The daemon (AvailableImages,  *)
(* RemoveImage) and the clients (PullImage, in a process of their own)     *)
(* both scan the directories and delete what looks incomplete; only        *)
(* AvailableImages does so under Daemon.Mutex.                             *)
(*                                                                         *)
(* A command is one run of corectl with the handlers it calls.  A step is  *)
(* one file operation, or one critical section.  os.RemoveAll unlinks what *)
(* it finds in a directory file by file and then removes the directory,    *)
(* which fails when a file is still, or again, in it.  Images that are     *)
(* whole but too old are deleted by the scan in server.Start, before the   *)
(* first command.                                                          *)
(***************************************************************************)
EXTENDS Naturals, FiniteSets

CONSTANTS
  Versions,  \* the versions of the channel, by their rank in semver order
  Upstream,  \* what LatestUpstream answers when it does
  Commands,
  Kinds,     \* what they may be
  Latest,    \* "latest" in place of a version
  Nil

PullKinds == {"pull", "force", "run", "offline"}  \* pull, pull --force, run, run --offline
AllKinds == PullKinds \cup {"ls", "rm"}

ASSUME ImageConstants ==
  /\ Versions \subseteq Nat
  /\ Upstream \in Versions
  /\ Kinds \subseteq AllKinds
  /\ Latest \notin Versions
  /\ Nil \notin Commands \cup Versions

VARIABLES
  dirs,   \* the version directories that exist
  files,  \* what each holds
  media,  \* Daemon.Media[channel], a sorted slice without duplicates
  mutex,  \* the command whose handler holds Daemon.Mutex, or Nil
  cmd     \* where each command stands

vars == <<dirs, files, media, mutex, cmd>>

Files == {"vmlinuz", "cpio"}

PC == {"idle", "list", "scan", "stat", "drop", "pick", "resolve", "remove", "delete",
       "mkdir", "download", "rename", "ok", "nothing", "failed", "botched", "panicked"}

Command == [pc : PC,
            kind : AllKinds,
            wanted : Versions \cup {Latest},  \* --version
            then : {"ok", "pick", "resolve", "mkdir"},  \* where localImages returns to
            todo : SUBSET Versions,           \* the directories it has not looked at
            cur : Versions \cup {Nil},        \* the one it looks at, or deletes
            found : SUBSET Versions,          \* the images it returns
            version : Versions \cup {Nil},    \* what the command settled on
            left : SUBSET Files]              \* what its pull has yet to put in place

ImagesTypeOK ==
  /\ dirs \subseteq Versions
  /\ files \in [Versions -> SUBSET Files]
  /\ media \subseteq Versions
  /\ mutex \in Commands \cup {Nil}
  /\ cmd \in [Commands -> Command]

Whole(v) == v \in dirs /\ files[v] = Files

\* server.Start has just scanned the directories.
Init ==
  /\ media \in SUBSET Versions
  /\ dirs = media
  /\ files = [v \in Versions |-> IF v \in media THEN Files ELSE {}]
  /\ mutex = Nil
  /\ cmd = [c \in Commands |->
             [pc |-> "idle", kind |-> "ls", wanted |-> Latest, then |-> "ok", todo |-> {},
              cur |-> Nil, found |-> {}, version |-> Nil, left |-> {}]]

Goto(c, pc) == cmd' = [cmd EXCEPT ![c].pc = pc]

IsLast(v, S) == v \in S /\ \A w \in S : w <= v
IsFirst(v, S) == v \in S /\ \A w \in S : v <= w

-----------------------------------------------------------------------------
(***************************************************************************)
(* localImages                                                             *)
(***************************************************************************)

\* ReadDir.
Scanning(c, then) ==
  [cmd EXCEPT ![c].pc = "scan", ![c].then = then, ![c].todo = dirs, ![c].found = {}]

StatKernel(c) ==
  /\ cmd[c].pc = "scan"
  /\ \E v \in cmd[c].todo :
       /\ IsFirst(v, cmd[c].todo)
       /\ cmd' = [cmd EXCEPT ![c].cur = v, ![c].todo = @ \ {v},
                             ![c].pc = IF "vmlinuz" \in files[v] THEN "stat" ELSE "drop"]
  /\ UNCHANGED <<dirs, files, media, mutex>>

StatRoot(c) ==
  /\ cmd[c].pc = "stat"
  /\ cmd' = IF "cpio" \in files[cmd[c].cur]
            THEN [cmd EXCEPT ![c].found = @ \cup {cmd[c].cur}, ![c].pc = "scan"]
            ELSE [cmd EXCEPT ![c].pc = "drop"]
  /\ UNCHANGED <<dirs, files, media, mutex>>

\* Of os.RemoveAll: one of the files goes.
Unlink(c) ==
  /\ cmd[c].pc \in {"drop", "delete"}
  /\ \E f \in files[cmd[c].cur] : files' = [files EXCEPT ![cmd[c].cur] = @ \ {f}]
  /\ UNCHANGED <<dirs, media, mutex, cmd>>

\* Of os.RemoveAll: the directory goes if it is empty, or gone already.
Rmdir(c) ==
  /\ files[cmd[c].cur] = {}
  /\ dirs' = dirs \ {cmd[c].cur}

ReleasedNever(c) == mutex           \* mutant: AvailableImages does not unlock
Released(c) == IF mutex = c THEN Nil ELSE mutex

DropFailedUnseen(c) ==              \* mutant: the error of RemoveAll is dropped
  Goto(c, "scan") /\ UNCHANGED mutex
\* localImages returns the error, and with it whoever called.
DropFailed(c) == Goto(c, "botched") /\ mutex' = Released(c)

\* What Stat did not find is deleted later, whatever was put there since.
Drop(c) ==
  /\ cmd[c].pc = "drop"
  /\ \/ Rmdir(c) /\ Goto(c, "scan") /\ UNCHANGED mutex
     \/ files[cmd[c].cur] # {} /\ DropFailed(c) /\ UNCHANGED dirs
  /\ UNCHANGED <<files, media>>

ScanEnd(c) ==
  /\ cmd[c].pc = "scan"
  /\ cmd[c].todo = {}
  /\ Goto(c, cmd[c].then)
  /\ mutex' = Released(c)
  /\ UNCHANGED <<dirs, files, media>>

localImages(c) == StatKernel(c) \/ StatRoot(c) \/ Unlink(c) \/ Drop(c) \/ ScanEnd(c)

-----------------------------------------------------------------------------
(***************************************************************************)
(* AvailableImages and RemoveImage, and the commands that call them        *)
(***************************************************************************)

\* A pull scans the directories itself; the others ask the daemon to.
Begin(c) ==
  /\ cmd[c].pc = "idle"
  /\ \E k \in Kinds, w \in Versions \cup {Latest} :
       LET begun == IF k \in PullKinds THEN Scanning(c, "resolve")
                                       ELSE [cmd EXCEPT ![c].pc = "list"]
       IN  cmd' = [begun EXCEPT ![c].kind = k, ![c].wanted = w]
  /\ UNCHANGED <<dirs, files, media, mutex>>

AvailableImages(c) ==
  /\ cmd[c].pc = "list"
  /\ mutex = Nil
  /\ mutex' = c
  /\ cmd' = Scanning(c, IF cmd[c].kind = "rm" THEN "pick" ELSE "ok")
  /\ UNCHANGED <<dirs, files, media>>

\* corectl rm: the newest image when no version was given, else the one that
\* was, whether it is there or not.
Pick(c) ==
  /\ cmd[c].pc = "pick"
  /\ \/ /\ cmd[c].wanted # Latest
        /\ cmd' = [cmd EXCEPT ![c].pc = "remove", ![c].version = cmd[c].wanted]
     \/ /\ cmd[c].wanted = Latest
        /\ \E v \in cmd[c].found :
             /\ IsLast(v, cmd[c].found)
             /\ cmd' = [cmd EXCEPT ![c].pc = "remove", ![c].version = v]
     \/ /\ cmd[c].wanted = Latest
        /\ cmd[c].found = {}
        /\ Goto(c, "nothing")
  /\ UNCHANGED <<dirs, files, media, mutex>>

\* The loop leaves its variables at the last image when none matches.
Victim(c, v) ==
  IF cmd[c].version \in media THEN v = cmd[c].version ELSE IsLast(v, media)

UnlistedNone(v) == media            \* mutant: the image stays in Media
Unlisted(v) == media \ {v}

\* An empty slice has no image to cut out: the handler panics, and no defer
\* unlocks.
RemoveImage(c) ==
  /\ cmd[c].pc = "remove"
  /\ mutex = Nil
  /\ \/ \E v \in media :
          /\ Victim(c, v)
          /\ media' = Unlisted(v)
          /\ cmd' = [cmd EXCEPT ![c].pc = "delete", ![c].cur = v]
          /\ UNCHANGED mutex
     \/ /\ media = {}
        /\ mutex' = c
        /\ Goto(c, "panicked")
        /\ UNCHANGED media
  /\ UNCHANGED <<dirs, files>>

\* Outside the mutex, and so is the scan that follows.
Delete(c) ==
  /\ cmd[c].pc = "delete"
  /\ \/ /\ Rmdir(c)
        /\ cmd' = [cmd EXCEPT ![c].pc = "scan",
                              ![c].then = IF cmd[c].kind = "force" THEN "mkdir" ELSE "ok",
                              ![c].todo = dirs', ![c].found = {}]
     \/ files[cmd[c].cur] # {} /\ Goto(c, "botched") /\ UNCHANGED dirs
  /\ UNCHANGED <<files, media, mutex>>

-----------------------------------------------------------------------------
(***************************************************************************)
(* PullImage and localize                                                  *)
(***************************************************************************)

SettledUnresolved(c, v) ==          \* mutant: fetches "latest"
  cmd' = [cmd EXCEPT ![c].version = cmd[c].wanted, ![c].pc = "mkdir"]

\* What a pull does when the version is settled: it is there, it is there and
\* to be replaced, or it has to be fetched.
Settled(c, v) ==
  cmd' = [cmd EXCEPT ![c].version = v,
                     ![c].pc = IF v \notin cmd[c].found THEN "mkdir"
                               ELSE IF cmd[c].kind = "force" THEN "remove"
                               ELSE IF cmd[c].kind = "pull" THEN "list" ELSE "ok"]

\* Upstream did not answer, and its error is what PullImage returns, unless
\* RemoveImage overwrites it.
Unanswered(c) ==
  \/ /\ cmd[c].found = {}
     /\ Goto(c, "failed")
  \/ \E v \in cmd[c].found :
       /\ IsLast(v, cmd[c].found)
       /\ IF cmd[c].kind = "force" THEN Settled(c, v) ELSE Goto(c, "failed")

Resolve(c) ==
  /\ cmd[c].pc = "resolve"
  /\ \/ /\ cmd[c].wanted # Latest
        /\ Settled(c, cmd[c].wanted)
     \/ /\ cmd[c].wanted = Latest
        /\ cmd[c].kind = "offline"
        /\ \E v \in cmd[c].found : IsLast(v, cmd[c].found) /\ Settled(c, v)
     \/ /\ cmd[c].wanted = Latest
        /\ cmd[c].kind = "offline" => cmd[c].found = {}
        /\ \/ Settled(c, Upstream)
           \/ Unanswered(c)
  /\ UNCHANGED <<dirs, files, media, mutex>>

Mkdir(c) ==
  /\ cmd[c].pc = "mkdir"
  /\ dirs' = dirs \cup {cmd[c].version}
  /\ cmd' = [cmd EXCEPT ![c].pc = "download", ![c].left = Files]
  /\ UNCHANGED <<files, media, mutex>>

Download(c) ==
  /\ cmd[c].pc = "download"
  /\ Goto(c, "rename") \/ Goto(c, "failed")
  /\ UNCHANGED <<dirs, files, media, mutex>>

DoneAtFirst(c) == cmd[c].left # Files  \* mutant: ready when one file is in place
AllInPlace(c) == cmd[c].left = {}

\* A file cannot be moved to a directory that is gone.
Rename(c) ==
  /\ cmd[c].pc = "rename"
  /\ \E f \in cmd[c].left :
       \/ /\ cmd[c].version \in dirs
          /\ files' = [files EXCEPT ![cmd[c].version] = @ \cup {f}]
          /\ cmd' = [cmd EXCEPT ![c].left = @ \ {f}]
       \/ /\ cmd[c].version \notin dirs
          /\ Goto(c, "failed")
          /\ UNCHANGED files
  /\ UNCHANGED <<dirs, media, mutex>>

Ready(c) ==
  /\ cmd[c].pc = "rename"
  /\ AllInPlace(c)
  /\ Goto(c, IF cmd[c].kind \in {"pull", "force"} THEN "list" ELSE "ok")
  /\ UNCHANGED <<dirs, files, media, mutex>>

\* The user interrupts a client, in code that is not the daemon's.
Interrupt(c) ==
  /\ \/ cmd[c].pc \in {"pick", "resolve", "mkdir", "download", "rename"}
     \/ cmd[c].pc \in {"scan", "stat", "drop"} /\ cmd[c].then = "resolve"
  /\ Goto(c, IF cmd[c].pc = "drop" THEN "botched" ELSE "failed")
  /\ UNCHANGED <<dirs, files, media, mutex>>

Pull(c) == Resolve(c) \/ Mkdir(c) \/ Download(c) \/ Rename(c) \/ Ready(c)

Serve(c) == AvailableImages(c) \/ Pick(c) \/ RemoveImage(c) \/ Delete(c)

Step(c) == localImages(c) \/ Serve(c) \/ Pull(c)

Next == \E c \in Commands : Begin(c) \/ Step(c) \/ Interrupt(c)

Spec == Init /\ [][Next]_vars

\* A command that is running goes on running; Go's mutex hands itself to a
\* waiter, so none is passed over for ever.
FairSpec == Spec /\ \A c \in Commands : SF_vars(Step(c))

-----------------------------------------------------------------------------
(***************************************************************************)
(* Properties                                                              *)
(***************************************************************************)

\* Who is at work on a version, and who left it without success.
Lays(c, v) ==
  cmd[c].version = v /\ cmd[c].left # {} /\ cmd[c].pc \in {"download", "rename"}
Sweeps(c, v) == cmd[c].cur = v /\ cmd[c].pc \in {"drop", "delete"}
Spoiled(c, v) ==
  \/ cmd[c].version = v /\ cmd[c].left # {} /\ cmd[c].pc = "failed"
  \/ cmd[c].cur = v /\ cmd[c].pc = "botched"

\* What Daemon.Media lists is on disk, whole: scans that run at the same time
\* as removals and pulls delete only what is not listed (or not any more).
MediaIsWhole == \A v \in media : Whole(v)

\* A directory that lacks a file is accounted for by a pull or a removal of this
\* version that is at work, or that ended without success: no command that
\* reports success leaves half an image behind, whatever gets in its way.
HalfIsAccounted ==
  \A v \in dirs :
    ~ Whole(v) => \E c \in Commands : Lays(c, v) \/ Sweeps(c, v) \/ Spoiled(c, v)

Ended == {"ok", "nothing", "failed", "botched", "panicked"}

\* Every command ends, whatever the others do, unless a RemoveImage of an empty
\* channel panicked: it keeps Daemon.Mutex for ever.
CommandsEnd ==
  \A c \in Commands :
    cmd[c].pc # "idle" ~> cmd[c].pc \in Ended \/ \E d \in Commands : cmd[d].pc = "panicked"

\* corectl rm logs "removed" of the version it asked for; without --version
\* that is one the daemon has just listed.
RemovesTheNamed ==
  \A c \in Commands :
    cmd[c].pc = "delete" /\ cmd[c].wanted = Latest => cmd[c].cur = cmd[c].version

\* Whatever scans, removals and pulls race, the directories and Daemon.Media are
\* a shelf of images: file by file, one is taken away only when it is not listed,
\* and whoever is at work on one leaves it whole or gone, or to somebody else
\* who still is, or with an error.
Shelf == INSTANCE ImageShelf WITH
  Hands <- Commands,
  image <- [v \in Versions |-> IF v \notin dirs THEN "absent"
                               ELSE IF files[v] = Files THEN "whole" ELSE "half"],
  listed <- media,
  layers <- [v \in Versions |-> {c \in Commands : Lays(c, v)}],
  sweepers <- [v \in Versions |-> {c \in Commands : Sweeps(c, v)}],
  spoiled <- {v \in Versions : \E c \in Commands : Spoiled(c, v)}

ShelfSpec == Shelf!Spec

-----------------------------------------------------------------------------
(***************************************************************************)
(* Strengthening of MediaIsWhole                                           *)
(***************************************************************************)

\* What a command is about to delete is not listed.
CurUnlisted ==
  \A c \in Commands :
    /\ cmd[c].pc \in {"stat", "drop", "delete"} => cmd[c].cur \in Versions
    /\ cmd[c].pc \in {"drop", "delete"} => cmd[c].cur \notin media

VersionSettled ==
  \A c \in Commands :
    cmd[c].pc \in {"remove", "delete", "mkdir", "download", "rename"} \/ cmd[c].then = "mkdir"
      => cmd[c].version \in Versions

ImagesInv == ImagesTypeOK /\ MediaIsWhole /\ CurUnlisted /\ VersionSettled

=============================================================================
