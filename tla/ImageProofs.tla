---------------------------- MODULE ImageProofs ----------------------------
(***************************************************************************)
(* Proofs about ImageStore, for any number of commands and versions: what  *)
(* Daemon.Media lists is whole, half images are accounted for, and what it *)
(* takes for a removal to delete another image than it named.              *)
(***************************************************************************)
EXTENDS ImageStore, TLAPS

USE DEF vars

LEMMA InitImagesInv == Init => ImagesInv
<1> SUFFICES ASSUME Init PROVE ImagesInv
  OBVIOUS
<1> USE ImageConstants DEF Init
<1>1. ImagesTypeOK
  BY DEF ImagesTypeOK, Command, PC, AllKinds, Files
<1>2. MediaIsWhole
  BY DEF MediaIsWhole, Whole
<1>3. CurUnlisted /\ VersionSettled
  BY DEF CurUnlisted, VersionSettled
<1> QED BY <1>1, <1>2, <1>3 DEF ImagesInv

LEMMA GotoType ==
  ASSUME cmd \in [Commands -> Command], NEW c \in Commands, NEW pc \in PC, Goto(c, pc)
  PROVE  cmd' \in [Commands -> Command]
  BY DEF Goto, Command

\* Every update of a field leaves a Command.
LEMMA CommandUpdate ==
  ASSUME NEW r \in Command
  PROVE  /\ \A x \in PC : [r EXCEPT !.pc = x] \in Command
         /\ \A x \in AllKinds : [r EXCEPT !.kind = x] \in Command
         /\ \A x \in Versions \cup {Latest} : [r EXCEPT !.wanted = x] \in Command
         /\ \A x \in {"ok", "pick", "resolve", "mkdir"} : [r EXCEPT !.then = x] \in Command
         /\ \A x \in SUBSET Versions : [r EXCEPT !.todo = x] \in Command
         /\ \A x \in SUBSET Versions : [r EXCEPT !.found = x] \in Command
         /\ \A x \in Versions \cup {Nil} : [r EXCEPT !.version = x] \in Command
         /\ \A x \in SUBSET Files : [r EXCEPT !.left = x] \in Command
         /\ \A x \in Versions \cup {Nil} : [r EXCEPT !.cur = x] \in Command
  BY DEF Command

\* The record of a command that starts a scan of the directories in D.
LEMMA ScanUpdate ==
  ASSUME NEW r \in Command, NEW D \in SUBSET Versions,
         NEW then \in {"ok", "pick", "resolve", "mkdir"}
  PROVE  [r EXCEPT !.pc = "scan", !.then = then, !.todo = D, !.found = {}] \in Command
<1> DEFINE r1 == [r EXCEPT !.pc = "scan"]
           r2 == [r1 EXCEPT !.then = then]
           r3 == [r2 EXCEPT !.todo = D]
           r4 == [r3 EXCEPT !.found = {}]
<1>1. r1 \in Command
  BY CommandUpdate DEF PC
<1>2. r2 \in Command
  BY <1>1, CommandUpdate
<1>3. r3 \in Command
  BY <1>2, CommandUpdate
<1>4. r4 \in Command
  BY <1>3, CommandUpdate
<1>5. r4 = [r EXCEPT !.pc = "scan", !.then = then, !.todo = D, !.found = {}]
  OBVIOUS
<1> QED BY <1>4, <1>5

LEMMA ScanningType ==
  ASSUME cmd \in [Commands -> Command], dirs \subseteq Versions, NEW c \in Commands,
         NEW then \in {"ok", "pick", "resolve", "mkdir"}
  PROVE  Scanning(c, then) \in [Commands -> Command]
<1> DEFINE r == [cmd[c] EXCEPT !.pc = "scan", !.then = then, !.todo = dirs, !.found = {}]
<1>1. r \in Command
  BY ScanUpdate
<1>2. Scanning(c, then) = [cmd EXCEPT ![c] = r]
  BY DEF Scanning
<1> QED BY <1>1, <1>2

LEMMA RemovalSettled ==
  ASSUME ImagesTypeOK, VersionSettled, NEW c \in Commands, RemoveImage(c)
  PROVE  VersionSettled'
<1>1. CASE Goto(c, "panicked")
  BY <1>1 DEF Goto, VersionSettled, ImagesTypeOK, Command
<1>2. CASE \E v \in media : cmd' = [cmd EXCEPT ![c].pc = "delete", ![c].cur = v]
  <2>1. cmd[c].version \in Versions
    BY DEF RemoveImage, VersionSettled
  <2>2. PICK v \in media : cmd' = [cmd EXCEPT ![c].pc = "delete", ![c].cur = v]
    BY <1>2
  <2> QED BY <2>1, <2>2 DEF VersionSettled, ImagesTypeOK, Command
<1> QED BY <1>1, <1>2 DEF RemoveImage

LEMMA StepImagesInv == ImagesInv /\ [Next]_vars => ImagesInv'
<1> SUFFICES ASSUME ImagesInv, [Next]_vars PROVE ImagesInv'
  OBVIOUS
<1> USE ImageConstants DEF ImagesInv, ImagesTypeOK, PC, AllKinds, PullKinds
<1>1. ASSUME NEW c \in Commands, Begin(c) PROVE ImagesInv'
  <2> USE <1>1 DEF Begin, Scanning
  <2>1. ImagesTypeOK'
    <3>1. files' \in [Versions -> SUBSET Files] /\ dirs' \subseteq Versions
      OBVIOUS
    <3>2. cmd' \in [Commands -> Command]
      <4>1. cmd[c] \in Command /\ "list" \in PC
        OBVIOUS
      <4>2. [cmd EXCEPT ![c].pc = "list"] \in [Commands -> Command]
        <5>1. [cmd[c] EXCEPT !.pc = "list"] \in Command
          BY <4>1, CommandUpdate
        <5> QED BY <5>1
      <4>3. Scanning(c, "resolve") \in [Commands -> Command]
        BY ScanningType
      <4>4. ASSUME NEW begun \in [Commands -> Command], NEW k \in Kinds,
                   NEW w \in Versions \cup {Latest}
            PROVE  [begun EXCEPT ![c].kind = k, ![c].wanted = w] \in [Commands -> Command]
        <5> DEFINE r == [begun[c] EXCEPT !.kind = k]
                   s == [r EXCEPT !.wanted = w]
        <5>1. r \in Command /\ k \in AllKinds
          BY CommandUpdate
        <5>2. s \in Command
          BY <5>1, CommandUpdate
        <5>3. [begun EXCEPT ![c].kind = k, ![c].wanted = w] = [begun EXCEPT ![c] = s]
          OBVIOUS
        <5> QED BY <5>2, <5>3
      <4> HIDE DEF Scanning
      <4>5. PICK begun \in [Commands -> Command], k \in Kinds, w \in Versions \cup {Latest} :
              cmd' = [begun EXCEPT ![c].kind = k, ![c].wanted = w]
        BY <4>2, <4>3, Zenon
      <4> QED BY <4>4, <4>5
    <3> QED BY <3>1, <3>2
  <2>2. MediaIsWhole'
    BY DEF MediaIsWhole, Whole, CurUnlisted, Files, Command
  <2>3. CurUnlisted'
    BY DEF CurUnlisted, Command, MediaIsWhole, Whole, Files
  <2>4. VersionSettled'
    BY DEF VersionSettled, Command
  <2> QED BY <2>1, <2>2, <2>3, <2>4
<1>2. ASSUME NEW c \in Commands, StatKernel(c) PROVE ImagesInv'
  <2> USE <1>2 DEF StatKernel
  <2>1. ImagesTypeOK'
    BY DEF Command, Files
  <2>2. MediaIsWhole'
    BY DEF MediaIsWhole, Whole, CurUnlisted, Files, Command
  <2>3. CurUnlisted'
    BY DEF CurUnlisted, Command, MediaIsWhole, Whole, Files
  <2>4. VersionSettled'
    BY DEF VersionSettled, Command
  <2> QED BY <2>1, <2>2, <2>3, <2>4
<1>3. ASSUME NEW c \in Commands, StatRoot(c) PROVE ImagesInv'
  <2> USE <1>3 DEF StatRoot
  <2>1. ImagesTypeOK'
    BY SMTT(30) DEF Command, Files, CurUnlisted
  <2>2. MediaIsWhole'
    BY DEF MediaIsWhole, Whole, CurUnlisted, Files, Command
  <2>3. CurUnlisted'
    BY DEF CurUnlisted, Command, MediaIsWhole, Whole, Files
  <2>4. VersionSettled'
    BY DEF VersionSettled, Command
  <2> QED BY <2>1, <2>2, <2>3, <2>4
<1>4. ASSUME NEW c \in Commands, Drop(c) PROVE ImagesInv'
  <2>1. ImagesTypeOK'
    <3>1. files' \in [Versions -> SUBSET Files] /\ dirs' \subseteq Versions
          /\ mutex' \in Commands \cup {Nil} /\ media' \subseteq Versions
      BY <1>4 DEF Drop, Rmdir, DropFailed, Released
    <3>2. cmd' \in [Commands -> Command]
      BY <1>4, GotoType DEF Drop, DropFailed
    <3> QED BY <3>1, <3>2
  <2>2. MediaIsWhole'
    BY <1>4 DEF Drop, Rmdir, DropFailed, MediaIsWhole, Whole, CurUnlisted, Files
  <2>3. \/ cmd' = [cmd EXCEPT ![c] = [cmd[c] EXCEPT !.pc = "scan"]]
        \/ cmd' = [cmd EXCEPT ![c] = [cmd[c] EXCEPT !.pc = "botched"]]
    BY <1>4 DEF Drop, DropFailed, Goto
  <2>4. CurUnlisted' /\ VersionSettled'
    <3>1. media' = media
      BY <1>4 DEF Drop
    <3> QED BY <2>3, <3>1 DEF CurUnlisted, VersionSettled, Command
  <2> QED BY <2>1, <2>2, <2>3, <2>4
<1>5. ASSUME NEW c \in Commands, ScanEnd(c) PROVE ImagesInv'
  <2> USE <1>5 DEF ScanEnd, Released, Goto
  <2>1. ImagesTypeOK'
    BY DEF Command, Files
  <2>2. MediaIsWhole'
    BY DEF MediaIsWhole, Whole, CurUnlisted, Files, Command
  <2>3. CurUnlisted'
    BY DEF CurUnlisted, Command, MediaIsWhole, Whole, Files
  <2>4. VersionSettled'
    BY DEF VersionSettled, Command
  <2> QED BY <2>1, <2>2, <2>3, <2>4
<1>6. ASSUME NEW c \in Commands, AvailableImages(c) PROVE ImagesInv'
  <2> USE <1>6 DEF AvailableImages, Scanning
  <2>1. ImagesTypeOK'
    <3>1. files' \in [Versions -> SUBSET Files] /\ dirs' \subseteq Versions
      OBVIOUS
    <3>2. cmd' \in [Commands -> Command]
      BY ScanningType
    <3> QED BY <3>1, <3>2
  <2>2. MediaIsWhole'
    BY DEF MediaIsWhole, Whole, CurUnlisted, Files, Command
  <2>3. CurUnlisted'
    BY DEF CurUnlisted, Command, MediaIsWhole, Whole, Files
  <2>4. VersionSettled'
    BY DEF VersionSettled, Command
  <2> QED BY <2>1, <2>2, <2>3, <2>4
<1>7. ASSUME NEW c \in Commands, Pick(c) PROVE ImagesInv'
  <2> USE <1>7 DEF Pick, IsLast, Goto
  <2>1. ImagesTypeOK'
    BY DEF Command, Files
  <2>2. MediaIsWhole'
    BY DEF MediaIsWhole, Whole, CurUnlisted, Files, Command
  <2>3. CurUnlisted'
    BY DEF CurUnlisted, Command, MediaIsWhole, Whole, Files
  <2>4. VersionSettled'
    BY DEF VersionSettled, Command
  <2> QED BY <2>1, <2>2, <2>3, <2>4
<1>8. ASSUME NEW c \in Commands, RemoveImage(c) PROVE ImagesInv'
  <2> USE <1>8 DEF RemoveImage, Unlisted, Goto
  <2>1. ImagesTypeOK'
    BY DEF Command, Files
  <2>2. MediaIsWhole'
    BY DEF MediaIsWhole, Whole, CurUnlisted, Files, Command
  <2>3. CurUnlisted'
    BY DEF CurUnlisted, Command, MediaIsWhole, Whole, Files
  <2>4. VersionSettled'
    BY RemovalSettled
  <2> QED BY <2>1, <2>2, <2>3, <2>4
<1>9. ASSUME NEW c \in Commands, Delete(c) PROVE ImagesInv'
  <2> USE <1>9 DEF Delete, Rmdir
  <2>1. ImagesTypeOK'
    <3>1. files' \in [Versions -> SUBSET Files] /\ dirs' \subseteq Versions
      OBVIOUS
    <3>2. CASE Goto(c, "botched")
      BY <3>1, <3>2, GotoType
    <3>3. CASE Rmdir(c)
      <4> DEFINE then == IF cmd[c].kind = "force" THEN "mkdir" ELSE "ok"
                 r == [cmd[c] EXCEPT !.pc = "scan", !.then = then, !.todo = dirs', !.found = {}]
      <4>1. r \in Command
        BY <3>1, ScanUpdate
      <4>2. cmd' = [cmd EXCEPT ![c] = r]
        BY <3>3
      <4>3. cmd' \in [Commands -> Command]
        BY <4>1, <4>2
      <4> QED BY <3>1, <4>3
    <3> QED BY <3>2, <3>3
  <2> USE DEF Goto
  <2>2. MediaIsWhole'
    BY DEF MediaIsWhole, Whole, CurUnlisted, Files, Command
  <2>3. CurUnlisted'
    BY DEF CurUnlisted, Command, MediaIsWhole, Whole, Files
  <2>4. VersionSettled'
    BY DEF VersionSettled, Command
  <2> QED BY <2>1, <2>2, <2>3, <2>4
<1>10. ASSUME NEW c \in Commands, Resolve(c) PROVE ImagesInv'
  <2>1. PICK r \in Command :
          /\ cmd' = [cmd EXCEPT ![c] = r]
          /\ \/ r.pc = "failed" /\ r.version = cmd[c].version
             \/ r.pc \in {"mkdir", "remove", "list", "ok"} /\ r.version \in Versions
          /\ r.then = cmd[c].then
    <3>1. \A v \in Versions :
            Settled(c, v) => \E p \in {"mkdir", "remove", "list", "ok"} :
                               cmd' = [cmd EXCEPT ![c] = [cmd[c] EXCEPT !.version = v, !.pc = p]]
      BY DEF Settled
    <3>2. \/ cmd' = [cmd EXCEPT ![c] = [cmd[c] EXCEPT !.pc = "failed"]]
          \/ \E v \in Versions : Settled(c, v)
      <4>1. cmd[c] \in Command /\ cmd[c].found \subseteq Versions
        BY DEF Command
      <4>2. cmd[c].wanted # Latest => cmd[c].wanted \in Versions
        BY DEF Command
      <4> QED BY <1>10, <4>1, <4>2 DEF Resolve, Unanswered, Goto
    <3>3. cmd[c] \in Command
      OBVIOUS
    <3>4. CASE cmd' = [cmd EXCEPT ![c] = [cmd[c] EXCEPT !.pc = "failed"]]
      <4> DEFINE r == [cmd[c] EXCEPT !.pc = "failed"]
      <4>1. r \in Command
        BY <3>3, CommandUpdate
      <4>2. r.pc = "failed" /\ r.version = cmd[c].version /\ r.then = cmd[c].then
        BY <3>3 DEF Command
      <4> QED BY <3>4, <4>1, <4>2
    <3>5. CASE \E v \in Versions : Settled(c, v)
      <4>1. PICK v \in Versions, p \in {"mkdir", "remove", "list", "ok"} :
              cmd' = [cmd EXCEPT ![c] = [cmd[c] EXCEPT !.version = v, !.pc = p]]
        BY <3>1, <3>5
      <4> DEFINE r == [cmd[c] EXCEPT !.version = v]
                 s == [r EXCEPT !.pc = p]
      <4>2. r \in Command
        BY <3>3, CommandUpdate
      <4>3. s \in Command
        BY <4>2, CommandUpdate
      <4>4. s.pc = p /\ s.version = v /\ s.then = cmd[c].then
        BY <3>3 DEF Command
      <4>5. cmd' = [cmd EXCEPT ![c] = s]
        BY <4>1
      <4> QED BY <4>3, <4>4, <4>5
    <3> QED BY <3>2, <3>4, <3>5
  <2> USE <1>10, <2>1 DEF Resolve
  <2>2. ImagesTypeOK'
    BY DEF Command
  <2>3. MediaIsWhole'
    BY DEF MediaIsWhole, Whole
  <2>4. CurUnlisted'
    BY DEF CurUnlisted, Command
  <2>5. VersionSettled'
    BY DEF VersionSettled, Command
  <2> QED BY <2>2, <2>3, <2>4, <2>5
<1>11. ASSUME NEW c \in Commands, Mkdir(c) PROVE ImagesInv'
  <2> USE <1>11 DEF Mkdir, Goto
  <2>1. ImagesTypeOK'
    <3> DEFINE r == [cmd[c] EXCEPT !.pc = "download"]
               t == [r EXCEPT !.left = Files]
    <3>1. r \in Command
      BY CommandUpdate
    <3>2. t \in Command
      BY <3>1, CommandUpdate
    <3>3. cmd' = [cmd EXCEPT ![c] = t]
      OBVIOUS
    <3>4. cmd' \in [Commands -> Command]
      BY <3>2, <3>3
    <3> QED BY <3>4 DEF VersionSettled
  <2>2. MediaIsWhole'
    BY DEF MediaIsWhole, Whole, CurUnlisted, Files, Command
  <2>3. CurUnlisted'
    BY DEF CurUnlisted, Command, MediaIsWhole, Whole, Files
  <2>4. VersionSettled'
    BY DEF VersionSettled, Command
  <2> QED BY <2>1, <2>2, <2>3, <2>4
<1>12. ASSUME NEW c \in Commands, Download(c) PROVE ImagesInv'
  <2> USE <1>12 DEF Download, Goto
  <2>1. ImagesTypeOK'
    BY DEF Command, Files
  <2>2. MediaIsWhole'
    BY DEF MediaIsWhole, Whole, CurUnlisted, Files, Command
  <2>3. CurUnlisted'
    BY DEF CurUnlisted, Command, MediaIsWhole, Whole, Files
  <2>4. VersionSettled'
    BY DEF VersionSettled, Command
  <2> QED BY <2>1, <2>2, <2>3, <2>4
<1>13. ASSUME NEW c \in Commands, Rename(c) PROVE ImagesInv'
  <2> USE <1>13 DEF Rename, Goto
  <2>1. ImagesTypeOK'
    BY DEF Command, Files
  <2>2. MediaIsWhole'
    BY DEF MediaIsWhole, Whole, CurUnlisted, Files, Command
  <2>3. CurUnlisted'
    BY DEF CurUnlisted, Command, MediaIsWhole, Whole, Files
  <2>4. VersionSettled'
    BY DEF VersionSettled, Command
  <2> QED BY <2>1, <2>2, <2>3, <2>4
<1>14. ASSUME NEW c \in Commands, Ready(c) PROVE ImagesInv'
  <2> USE <1>14 DEF Ready, AllInPlace, Goto
  <2>1. ImagesTypeOK'
    BY DEF Command, Files
  <2>2. MediaIsWhole'
    BY DEF MediaIsWhole, Whole, CurUnlisted, Files, Command
  <2>3. CurUnlisted'
    BY DEF CurUnlisted, Command, MediaIsWhole, Whole, Files
  <2>4. VersionSettled'
    BY DEF VersionSettled, Command
  <2> QED BY <2>1, <2>2, <2>3, <2>4
<1>15. ASSUME NEW c \in Commands, Interrupt(c) PROVE ImagesInv'
  <2> USE <1>15 DEF Interrupt, Goto
  <2>1. ImagesTypeOK'
    BY DEF Command, Files
  <2>2. MediaIsWhole'
    BY DEF MediaIsWhole, Whole, CurUnlisted, Files, Command
  <2>3. CurUnlisted'
    BY DEF CurUnlisted, Command, MediaIsWhole, Whole, Files
  <2>4. VersionSettled'
    BY DEF VersionSettled, Command
  <2> QED BY <2>1, <2>2, <2>3, <2>4
<1>16. ASSUME NEW c \in Commands, Unlink(c) PROVE ImagesInv'
  <2> USE <1>16 DEF Unlink
  <2>1. ImagesTypeOK'
    BY DEF CurUnlisted
  <2>2. MediaIsWhole'
    BY DEF MediaIsWhole, Whole, CurUnlisted
  <2>3. CurUnlisted' /\ VersionSettled'
    BY DEF CurUnlisted, VersionSettled
  <2> QED BY <2>1, <2>2, <2>3
<1>17. CASE UNCHANGED vars
  BY <1>17 DEF MediaIsWhole, Whole, CurUnlisted, VersionSettled
<1> QED
  BY <1>1, <1>2, <1>3, <1>4, <1>5, <1>6, <1>7, <1>8, <1>9, <1>10, <1>11, <1>12, <1>13, <1>14, <1>15, <1>16,
     <1>17
     DEF Next, Step, localImages, Serve, Pull

\* Daemon.Media never names an image that is not on disk, whole: the scans of
\* AvailableImages and of the pulls (localImages) delete none that is listed.
THEOREM MediaWhole == Spec => []MediaIsWhole
<1>1. ImagesInv => MediaIsWhole
  BY DEF ImagesInv
<1> QED BY InitImagesInv, StepImagesInv, <1>1, PTL DEF Spec

\* The directories, Daemon.Media and the commands keep their types.
THEOREM ImagesTypeCorrect == Spec => []ImagesTypeOK
<1>1. ImagesInv => ImagesTypeOK
  BY DEF ImagesInv
<1> QED BY InitImagesInv, StepImagesInv, <1>1, PTL DEF Spec

-----------------------------------------------------------------------------
(***************************************************************************)
(* Half an image.  For each there is somebody who accounts for it: a pull  *)
(* that has yet to put in place all that is missing, or somebody who is    *)
(* taking the files away; at work, or ended without success.  Other pulls  *)
(* of the version may add files, and sweepers may take the directory away, *)
(* but the pull that last made the directory has it all before it, and who *)
(* takes a file away stays until the directory is gone, or says that he    *)
(* failed.                                                                 *)
(***************************************************************************)

Owes(c, v) ==
  /\ cmd[c].version = v
  /\ cmd[c].pc \in {"download", "rename", "failed"}
  /\ Files \ files[v] \subseteq cmd[c].left

Accounts(c, v) ==
  \/ Owes(c, v)
  \/ cmd[c].cur = v /\ cmd[c].pc \in {"drop", "delete", "botched"}

HalfInv == \A v \in dirs : ~Whole(v) => \E c \in Commands : Accounts(c, v)

LEMMA InitHalfInv == Init => HalfInv
  BY DEF Init, HalfInv, Whole

LEMMA HalfInvSuffices == ImagesInv /\ HalfInv => HalfIsAccounted
<1> SUFFICES ASSUME ImagesInv, HalfInv, NEW v \in dirs, ~Whole(v)
             PROVE  \E c \in Commands : Lays(c, v) \/ Sweeps(c, v) \/ Spoiled(c, v)
  BY DEF HalfIsAccounted
<1>1. PICK c \in Commands : Accounts(c, v)
  BY DEF HalfInv
<1>2. Files \ files[v] # {}
  BY DEF ImagesInv, ImagesTypeOK, Whole
<1>3. Owes(c, v) => cmd[c].left # {}
  BY <1>2 DEF Owes
<1> QED BY <1>1, <1>3 DEF Accounts, Owes, Lays, Sweeps, Spoiled

\* A command that is no witness now may go on; what others put in place stays.
LEMMA HalfKept ==
  ASSUME ImagesTypeOK, HalfInv, dirs' \subseteq dirs,
         \A v \in dirs' : files[v] \subseteq files'[v] /\ files'[v] \subseteq Files,
         \A c \in Commands : cmd'[c] = cmd[c] \/ \A v \in dirs' : Accounts(c, v) => Accounts(c, v)' \/ Whole(v)'
  PROVE  HalfInv'
<1> SUFFICES ASSUME NEW v \in dirs', ~Whole(v)' PROVE \E c \in Commands : Accounts(c, v)'
  BY DEF HalfInv
<1>1. ~Whole(v) /\ v \in dirs
  BY DEF Whole
<1>2. PICK c \in Commands : Accounts(c, v)
  BY <1>1 DEF HalfInv
<1>3. cmd'[c] = cmd[c] => Accounts(c, v)'
  BY <1>2 DEF Accounts, Owes
<1> QED BY <1>2, <1>3

LEMMA OneMoves ==
  ASSUME ImagesTypeOK, NEW c \in Commands, Begin(c) \/ Step(c) \/ Interrupt(c)
  PROVE  \A d \in Commands : d # c => cmd'[d] = cmd[d]
<1>1. CASE Begin(c)
  <2>1. PICK k \in Kinds, w \in Versions \cup {Latest} :
          LET begun == IF k \in PullKinds THEN Scanning(c, "resolve")
                                          ELSE [cmd EXCEPT ![c].pc = "list"]
          IN  cmd' = [begun EXCEPT ![c].kind = k, ![c].wanted = w]
    BY <1>1, Zenon DEF Begin
  <2>2. CASE k \in PullKinds
    BY <2>1, <2>2 DEF Scanning, ImagesTypeOK
  <2>3. CASE k \notin PullKinds
    BY <2>1, <2>3 DEF ImagesTypeOK
  <2> QED BY <2>2, <2>3
<1>2. CASE StatKernel(c) \/ StatRoot(c) \/ Unlink(c) \/ Drop(c) \/ ScanEnd(c)
  BY <1>2 DEF StatKernel, StatRoot, Unlink, Drop, DropFailed, ScanEnd, Goto, ImagesTypeOK
<1>3. CASE Serve(c)
  BY <1>3 DEF Serve, AvailableImages, Scanning, Pick, RemoveImage, Delete, Goto, ImagesTypeOK
<1>4. CASE Resolve(c)
  BY <1>4 DEF Resolve, Settled, Unanswered, Goto, ImagesTypeOK
<1>5. CASE Mkdir(c) \/ Download(c) \/ Rename(c) \/ Ready(c) \/ Interrupt(c)
  BY <1>5 DEF Mkdir, Download, Rename, Ready, Interrupt, Goto, ImagesTypeOK
<1> QED BY <1>1, <1>2, <1>3, <1>4, <1>5 DEF Step, localImages, Pull

\* A step that writes no file or directory, of a command that is no witness.
LEMMA HalfIdle ==
  ASSUME ImagesTypeOK, HalfInv, UNCHANGED <<dirs, files>>, NEW c \in Commands,
         \A d \in Commands : d # c => cmd'[d] = cmd[d],
         cmd[c].pc \notin {"download", "rename", "failed", "drop", "delete", "botched"}
  PROVE  HalfInv'
<1>1. \A v \in dirs' : ~Accounts(c, v)
  BY DEF Accounts, Owes
<1>2. \A v \in dirs' : files[v] \subseteq files'[v] /\ files'[v] \subseteq Files
  BY DEF ImagesTypeOK
<1> QED BY <1>1, <1>2, HalfKept

\* A sweeper ends: with the directory, or with an error.
LEMMA HalfSwept ==
  ASSUME ImagesTypeOK, HalfInv, NEW c \in Commands,
         \A d \in Commands : d # c => cmd'[d] = cmd[d],
         cmd[c].pc \in {"drop", "delete"}, UNCHANGED files,
         Rmdir(c) \/ (Goto(c, "botched") /\ UNCHANGED dirs)
  PROVE  HalfInv'
<1>1. \A v \in dirs' : files[v] \subseteq files'[v] /\ files'[v] \subseteq Files
  BY DEF ImagesTypeOK, Rmdir
<1>2. \A v \in dirs' : Accounts(c, v) => Accounts(c, v)'
  BY DEF Accounts, Owes, Rmdir, Goto, ImagesTypeOK, Command
<1> QED BY <1>1, <1>2, HalfKept DEF Rmdir

LEMMA HalfStep ==
  ASSUME ImagesInv, HalfInv, NEW c \in Commands, Begin(c) \/ Step(c) \/ Interrupt(c)
  PROVE  HalfInv'
<1> USE DEF ImagesInv
<1>0. ImagesTypeOK /\ cmd[c] \in Command /\ DOMAIN cmd = Commands
      /\ \A d \in Commands : d # c => cmd'[d] = cmd[d]
  BY OneMoves DEF ImagesTypeOK
<1>1. CASE Begin(c)
  BY <1>0, <1>1, HalfIdle DEF Begin
<1>2. CASE StatKernel(c) \/ StatRoot(c) \/ ScanEnd(c)
  BY <1>0, <1>2, HalfIdle DEF StatKernel, StatRoot, ScanEnd
<1>3. CASE Unlink(c)
  <2>1. SUFFICES ASSUME NEW v \in dirs', ~Whole(v)' PROVE \E d \in Commands : Accounts(d, v)'
    BY DEF HalfInv
  <2>2. CASE v = cmd[c].cur
    BY <1>3, <2>2 DEF Unlink, Accounts
  <2>3. CASE v # cmd[c].cur
    <3>1. v \in dirs /\ files'[v] = files[v] /\ cmd' = cmd
      BY <1>0, <1>3, <2>3 DEF Unlink, ImagesTypeOK
    <3>2. PICK d \in Commands : Accounts(d, v)
      BY <2>1, <3>1 DEF HalfInv, Whole
    <3> QED BY <3>1, <3>2 DEF Accounts, Owes
  <2> QED BY <2>2, <2>3
<1>4. CASE Drop(c) \/ Delete(c)
  <2>1. cmd[c].pc \in {"drop", "delete"} /\ UNCHANGED files
    BY <1>4 DEF Drop, Delete
  <2>2. Rmdir(c) \/ (Goto(c, "botched") /\ UNCHANGED dirs)
    BY <1>4 DEF Drop, DropFailed, Delete
  <2> QED BY <1>0, <2>1, <2>2, HalfSwept
<1>5. CASE AvailableImages(c) \/ Pick(c) \/ RemoveImage(c)
  BY <1>0, <1>5, HalfIdle DEF AvailableImages, Pick, RemoveImage
<1>6. CASE Resolve(c)
  BY <1>0, <1>6, HalfIdle DEF Resolve
<1>7. CASE Mkdir(c)
  <2>0. PICK v : v = cmd[c].version
    OBVIOUS
  <2>1. v \in Versions /\ dirs' = dirs \cup {v} /\ UNCHANGED files /\ cmd[c].pc = "mkdir"
        /\ cmd' = [cmd EXCEPT ![c] = [cmd[c] EXCEPT !.pc = "download", !.left = Files]]
    BY <1>7, <2>0 DEF Mkdir, VersionSettled
  <2>2. Accounts(c, v)'
    <3>1. cmd'[c].version = v /\ cmd'[c].pc = "download" /\ cmd'[c].left = Files
      <4>1. cmd[c] \in Command /\ v = cmd[c].version /\ c \in DOMAIN cmd
        BY <1>0, <2>0
      <4> QED BY <2>1, <4>1 DEF Command
    <3> QED BY <3>1 DEF Accounts, Owes
  <2>3. SUFFICES ASSUME NEW w \in dirs', ~Whole(w)', w # v PROVE \E d \in Commands : Accounts(d, w)'
    BY <2>2 DEF HalfInv
  <2>4. w \in dirs /\ ~Whole(w)
    BY <2>1, <2>3 DEF Whole
  <2>5. PICK d \in Commands : Accounts(d, w)
    BY <2>4 DEF HalfInv
  <2>6. d # c
    BY <2>1, <2>5 DEF Accounts, Owes
  <2> QED BY <1>0, <2>1, <2>5, <2>6 DEF Accounts, Owes
<1>8. CASE Download(c) \/ Interrupt(c)
  <2>1. UNCHANGED <<dirs, files>>
    BY <1>8 DEF Download, Interrupt
  <2>2. \A v \in dirs' : Accounts(c, v) => Accounts(c, v)'
    <3>1. CASE Download(c)
      BY <1>0, <2>1, <3>1 DEF Download, Goto, Accounts, Owes, Command
    <3>2. CASE Interrupt(c)
      BY <1>0, <2>1, <3>2 DEF Interrupt, Goto, Accounts, Owes, Command
    <3> QED BY <1>8, <3>1, <3>2
  <2>3. \A v \in dirs' : files[v] \subseteq files'[v] /\ files'[v] \subseteq Files
    BY <2>1 DEF ImagesTypeOK
  <2> QED BY <1>0, <2>1, <2>2, <2>3, HalfKept
<1>9. CASE Rename(c)
  <2>0. cmd[c].pc = "rename" /\ dirs' = dirs
    BY <1>9 DEF Rename
  <2>1. PICK f \in cmd[c].left :
          \/ /\ cmd[c].version \in dirs
             /\ files' = [files EXCEPT ![cmd[c].version] = @ \cup {f}]
             /\ cmd' = [cmd EXCEPT ![c].left = @ \ {f}]
          \/ /\ cmd[c].version \notin dirs
             /\ Goto(c, "failed")
             /\ UNCHANGED files
    BY <1>9 DEF Rename
  <2>2. f \in Files /\ files \in [Versions -> SUBSET Files] /\ dirs \subseteq Versions
    BY <1>0, <2>1 DEF ImagesTypeOK, Command
  <2>3. \A v \in dirs' : files[v] \subseteq files'[v] /\ files'[v] \subseteq Files
    BY <2>0, <2>1, <2>2
  <2>4. \A v \in dirs' : Accounts(c, v) => Accounts(c, v)'
    BY <1>0, <2>0, <2>1, <2>2 DEF Accounts, Owes, Goto, Command
  <2> QED BY <1>0, <2>0, <2>3, <2>4, HalfKept
<1>10. CASE Ready(c)
  <2>1. UNCHANGED <<dirs, files>> /\ cmd[c].left = {} /\ cmd[c].pc = "rename"
    BY <1>10 DEF Ready, AllInPlace
  <2>2. \A v \in dirs' : files[v] \subseteq files'[v] /\ files'[v] \subseteq Files
    BY <2>1 DEF ImagesTypeOK
  <2>3. \A v \in dirs' : Accounts(c, v) => Whole(v)'
    BY <2>1, <2>2 DEF Accounts, Owes, Whole
  <2> QED BY <1>0, <2>1, <2>2, <2>3, HalfKept
<1> QED BY <1>1, <1>2, <1>3, <1>4, <1>5, <1>6, <1>7, <1>8, <1>9, <1>10
        DEF Step, localImages, Serve, Pull

\* Half an image on disk means a pull or a removal that is at work on it or that
\* ended without success, however many pull one version while others remove it
\* file by file, scan, and fail.
THEOREM HalvesAccounted == Spec => []HalfIsAccounted
<1>1. ImagesInv /\ HalfInv /\ [Next]_vars => HalfInv'
  <2>1. ASSUME HalfInv, UNCHANGED vars PROVE HalfInv'
    BY <2>1 DEF HalfInv, Accounts, Owes, Whole
  <2> QED BY <2>1, HalfStep DEF Next
<1> QED BY InitImagesInv, StepImagesInv, InitHalfInv, HalfInvSuffices, <1>1, PTL DEF Spec

\* Where a pull goes from "resolve".
LEMMA ResolveMoves ==
  ASSUME ImagesTypeOK, NEW c \in Commands, Resolve(c)
  PROVE  /\ cmd[c].pc = "resolve"
         /\ cmd'[c].pc \in {"mkdir", "remove", "list", "ok", "failed"}
         /\ cmd'[c].kind = cmd[c].kind /\ cmd'[c].then = cmd[c].then /\ cmd'[c].found = cmd[c].found
         /\ cmd'[c].cur = cmd[c].cur /\ cmd'[c].left = cmd[c].left
         /\ cmd'[c].pc = "remove" => cmd[c].kind = "force" /\ cmd'[c].version \in cmd[c].found
<1> USE DEF ImagesTypeOK, Command
<1>1. Goto(c, "failed") \/ \E v : Settled(c, v)
  BY DEF Resolve, Unanswered
<1>2. CASE Goto(c, "failed")
  BY <1>2 DEF Goto, Resolve
<1>3. CASE \E v : Settled(c, v)
  <2>1. PICK v : Settled(c, v)
    BY <1>3
  <2>2. cmd[c].pc = "resolve"
    BY DEF Resolve
  <2> QED BY <2>1, <2>2 DEF Settled
<1> QED BY <1>1, <1>2, <1>3

-----------------------------------------------------------------------------
(***************************************************************************)
(* What an rm, or a pull --force, removes.  The run RemoveOther has it     *)
(* delete an image it did not settle on.  It takes a pull that puts a file *)
(* in place, a removal that failed, or another one at work: without any of *)
(* them the command deletes the image that it named, for any number of     *)
(* commands.                                                               *)
(***************************************************************************)

PutsInPlace(c) == Rename(c) /\ files' # files

FailsToDelete(c) == Delete(c) /\ files[cmd[c].cur] # {}

Undisturbed == \A c \in Commands : ~PutsInPlace(c) /\ ~FailsToDelete(c)

\* From the scan that it chooses from up to the deletion.
Choosing(c) ==
  \/ cmd[c].pc \in {"scan", "stat", "drop"} /\ cmd[c].then \in {"pick", "resolve"}
  \/ cmd[c].pc \in {"pick", "resolve"}

Removing(c) ==
  cmd[c].kind \in {"rm", "force"} /\ (Choosing(c) \/ cmd[c].pc \in {"remove", "delete"})

OneRemoval == \A c, d \in Commands : Removing(c) /\ Removing(d) => c = d

\* Only those two kinds get to where something is removed.
RemoverKept(c) ==
  /\ cmd[c].pc = "idle" => cmd[c].then = "ok"
  /\ cmd[c].pc = "pick" \/ cmd[c].then = "pick" => cmd[c].kind = "rm"
  /\ cmd[c].pc \in {"remove", "delete"} => cmd[c].kind \in {"rm", "force"}

\* What a command chooses from is listed, and so is the newest it settles on.
NamedKept(c) ==
  /\ Removing(c) /\ Choosing(c) => cmd[c].found \subseteq media
  /\ cmd[c].wanted = Latest /\ cmd[c].pc = "remove" => cmd[c].version \in media
  /\ cmd[c].wanted = Latest /\ cmd[c].pc = "delete" => cmd[c].cur = cmd[c].version

\* What is on disk is listed, until the removal that took it off the list.
FilesListed ==
  \A v \in Versions :
    files[v] # {} => v \in media \/ \E c \in Commands : cmd[c].pc = "delete" /\ cmd[c].cur = v

NamedInv ==
  FilesListed /\ \A c \in Commands : RemoverKept(c) /\ NamedKept(c)

LEMMA InitNamedInv == Init => NamedInv
  BY DEF Init, NamedInv, FilesListed, RemoverKept, NamedKept, Removing, Choosing

LEMMA RemoversStep ==
  ASSUME ImagesTypeOK, NEW c \in Commands, RemoverKept(c), Begin(c) \/ Step(c) \/ Interrupt(c)
  PROVE  RemoverKept(c)'
<1> USE DEF ImagesTypeOK, Command, RemoverKept
<1>1. CASE Begin(c)
  <2>1. PICK k \in Kinds, w \in Versions \cup {Latest} :
          LET begun == IF k \in PullKinds THEN Scanning(c, "resolve")
                                          ELSE [cmd EXCEPT ![c].pc = "list"]
          IN  cmd' = [begun EXCEPT ![c].kind = k, ![c].wanted = w]
    BY <1>1, Zenon DEF Begin
  <2>2. cmd[c].pc = "idle"
    BY <1>1 DEF Begin
  <2>3. CASE k \in PullKinds
    BY <2>1, <2>3 DEF Scanning
  <2>4. CASE k \notin PullKinds
    BY <2>1, <2>2, <2>4
  <2> QED BY <2>3, <2>4
<1>2. CASE StatKernel(c) \/ StatRoot(c) \/ Unlink(c) \/ Drop(c)
  <2>1. CASE StatKernel(c)
    BY <2>1 DEF StatKernel
  <2>2. CASE StatRoot(c)
    BY <2>2 DEF StatRoot
  <2>3. CASE Unlink(c) \/ Drop(c)
    BY <2>3 DEF Unlink, Drop, DropFailed, Goto
  <2> QED BY <1>2, <2>1, <2>2, <2>3
<1>3. CASE ScanEnd(c)
  BY <1>3 DEF ScanEnd, Goto
<1>4. CASE AvailableImages(c)
  BY <1>4 DEF AvailableImages, Scanning
<1>5. CASE Pick(c) \/ RemoveImage(c) \/ Delete(c)
  BY <1>5 DEF Pick, RemoveImage, Delete, Goto
<1>6. CASE Resolve(c)
  <2>1. cmd'[c].kind = cmd[c].kind /\ cmd'[c].then = cmd[c].then
    BY <1>6, ResolveMoves
  <2> QED BY <1>6, <2>1, ResolveMoves
<1>7. CASE Mkdir(c) \/ Download(c) \/ Rename(c) \/ Ready(c) \/ Interrupt(c)
  BY <1>7 DEF Mkdir, Download, Rename, Ready, Interrupt, Goto
<1> QED BY <1>1, <1>2, <1>3, <1>4, <1>5, <1>6, <1>7 DEF Step, localImages, Serve, Pull

\* Media shrinks by a RemoveImage only.
LEMMA MediaKept ==
  ASSUME ImagesTypeOK, NEW c \in Commands, Begin(c) \/ Step(c) \/ Interrupt(c)
  PROVE  media' = media \/ RemoveImage(c)
  BY DEF Begin, Step, Interrupt, localImages, StatKernel, StatRoot, Unlink, Drop, ScanEnd, Serve,
         AvailableImages, Pick, Delete, Pull, Resolve, Mkdir, Download, Rename, Ready

\* A file that a removing command sees belongs to a listed image.
LEMMA SeenListed ==
  ASSUME NamedInv, OneRemoval, NEW c \in Commands, Removing(c), Choosing(c),
         NEW v \in Versions, files[v] # {}
  PROVE  v \in media
<1>1. SUFFICES ASSUME NEW d \in Commands, cmd[d].pc = "delete" PROVE FALSE
  BY DEF NamedInv, FilesListed
<1>2. Removing(d)
  BY <1>1 DEF NamedInv, RemoverKept, Removing
<1> QED BY <1>1, <1>2 DEF OneRemoval, Choosing

LEMMA OwnNamedStep ==
  ASSUME ImagesInv, NamedInv, OneRemoval, NEW c \in Commands, Begin(c) \/ Step(c) \/ Interrupt(c)
  PROVE  NamedKept(c)'
<1>1. ImagesTypeOK /\ RemoverKept(c) /\ NamedKept(c) /\ cmd[c] \in Command
  BY DEF ImagesInv, NamedInv, ImagesTypeOK
<1> USE <1>1 DEF NamedKept, Removing, Choosing, ImagesTypeOK, Command
<1>2. CASE Begin(c)
  <2>1. PICK k \in Kinds, w \in Versions \cup {Latest} :
          LET begun == IF k \in PullKinds THEN Scanning(c, "resolve")
                                          ELSE [cmd EXCEPT ![c].pc = "list"]
          IN  cmd' = [begun EXCEPT ![c].kind = k, ![c].wanted = w]
    BY <1>2, Zenon DEF Begin
  <2>2. CASE k \in PullKinds
    BY <2>1, <2>2 DEF Scanning
  <2>3. CASE k \notin PullKinds
    BY <2>1, <2>3
  <2> QED BY <2>2, <2>3
<1>3. CASE StatKernel(c)
  BY <1>3 DEF StatKernel
<1>4. CASE StatRoot(c)
  <2>1. cmd[c].cur \in Versions
    BY <1>4 DEF StatRoot, ImagesInv, CurUnlisted
  <2>2. Removing(c) /\ "cpio" \in files[cmd[c].cur] => cmd[c].cur \in media
    BY <1>4, <2>1, SeenListed DEF StatRoot
  <2> QED BY <1>4, <2>2 DEF StatRoot
<1>5. CASE Unlink(c) \/ Drop(c)
  BY <1>5 DEF Unlink, Drop, DropFailed, Goto
<1>6. CASE ScanEnd(c)
  BY <1>6 DEF ScanEnd, Goto
<1>7. CASE AvailableImages(c)
  BY <1>7 DEF AvailableImages, Scanning
<1>8. CASE Pick(c)
  BY <1>8 DEF Pick, IsLast, Goto, RemoverKept
<1>9. CASE RemoveImage(c)
  BY <1>9 DEF RemoveImage, Victim, Goto
<1>10. CASE Delete(c)
  BY <1>10 DEF Delete, Goto
<1>11. CASE Resolve(c)
  <2>1. /\ cmd'[c].kind = cmd[c].kind /\ cmd'[c].found = cmd[c].found
        /\ cmd'[c].pc \in {"mkdir", "remove", "list", "ok", "failed"}
        /\ UNCHANGED media
    BY <1>11, ResolveMoves DEF Resolve
  <2>2. cmd'[c].pc = "remove" => cmd'[c].version \in media
    BY <1>11, ResolveMoves
  <2> QED BY <2>1, <2>2
<1>12. CASE Mkdir(c) \/ Download(c) \/ Rename(c) \/ Ready(c) \/ Interrupt(c)
  BY <1>12 DEF Mkdir, Download, Rename, Ready, Interrupt, Goto
<1> QED BY <1>2, <1>3, <1>4, <1>5, <1>6, <1>7, <1>8, <1>9, <1>10, <1>11, <1>12
        DEF Step, localImages, Serve, Pull

\* No other command takes what a removal chose off the list.
LEMMA OthersNamedStep ==
  ASSUME ImagesInv, NamedInv, OneRemoval, NEW c \in Commands, Begin(c) \/ Step(c) \/ Interrupt(c),
         NEW d \in Commands, d # c
  PROVE  NamedKept(d)'
<1>1. ImagesTypeOK /\ RemoverKept(c) /\ RemoverKept(d) /\ NamedKept(d)
  BY DEF ImagesInv, NamedInv
<1>2. cmd'[d] = cmd[d]
  BY <1>1, OneMoves
<1>3. CASE media' = media
  BY <1>1, <1>2, <1>3 DEF NamedKept, Removing, Choosing
<1>4. CASE RemoveImage(c)
  <2>1. Removing(c)
    BY <1>1, <1>4 DEF RemoveImage, RemoverKept, Removing
  <2>2. ~Removing(d)
    BY <2>1 DEF OneRemoval
  <2>3. cmd[d].pc # "remove"
    BY <1>1, <2>2 DEF RemoverKept, Removing
  <2> QED BY <1>1, <1>2, <2>2, <2>3 DEF NamedKept, Removing, Choosing
<1> QED BY <1>1, <1>3, <1>4, MediaKept

LEMMA FilesListedStep ==
  ASSUME ImagesInv, NamedInv, NEW c \in Commands, Begin(c) \/ Step(c) \/ Interrupt(c),
         ~PutsInPlace(c), ~FailsToDelete(c)
  PROVE  FilesListed'
<1>1. ImagesTypeOK /\ FilesListed
  BY DEF ImagesInv, NamedInv
<1>2. \A d \in Commands : d # c => cmd'[d] = cmd[d]
  BY <1>1, OneMoves
<1>3. CASE RemoveImage(c)
  <2>1. UNCHANGED files /\ cmd[c].pc = "remove"
        /\ \A v \in media \ media' : cmd'[c].pc = "delete" /\ cmd'[c].cur = v
    BY <1>1, <1>3 DEF RemoveImage, Unlisted, ImagesTypeOK, Command
  <2> QED BY <1>1, <1>2, <2>1 DEF FilesListed
<1>4. CASE Delete(c)
  <2>1. UNCHANGED <<media, files>> /\ files[cmd[c].cur] = {}
    BY <1>4 DEF Delete, FailsToDelete
  <2>2. SUFFICES ASSUME NEW v \in Versions, files[v] # {}, v \notin media
                 PROVE  \E d \in Commands : cmd'[d].pc = "delete" /\ cmd'[d].cur = v
    BY <2>1 DEF FilesListed
  <2>3. PICK d \in Commands : cmd[d].pc = "delete" /\ cmd[d].cur = v
    BY <1>1, <2>2 DEF FilesListed
  <2> QED BY <1>2, <2>1, <2>2, <2>3
<1>5. CASE Unlink(c)
  <2>1. UNCHANGED <<media, cmd>> /\ \A v \in Versions : files'[v] # {} => files[v] # {}
    BY <1>1, <1>5 DEF Unlink, ImagesTypeOK
  <2> QED BY <1>1, <2>1 DEF FilesListed
<1>6. CASE ~RemoveImage(c) /\ ~Delete(c) /\ ~Unlink(c)
  <2>1. media' = media /\ files' = files /\ cmd[c].pc # "delete"
    <3>1. media' = media
      BY <1>1, <1>6, MediaKept
    <3>2. cmd[c].pc # "delete"
      BY <1>6 DEF Begin, Step, Interrupt, localImages, StatKernel, StatRoot, Drop, ScanEnd, Serve,
                  AvailableImages, Pick, RemoveImage, Pull, Resolve, Mkdir, Download, Rename, Ready
    <3>3. files' = files
      BY <1>6 DEF Begin, Step, Interrupt, localImages, StatKernel, StatRoot, Drop, ScanEnd, Serve,
                  AvailableImages, Pick, RemoveImage, Pull, Resolve, Mkdir, Download, PutsInPlace, Ready
    <3> QED BY <3>1, <3>2, <3>3
  <2> QED BY <1>1, <1>2, <2>1 DEF FilesListed
<1> QED BY <1>3, <1>4, <1>5, <1>6

\* corectl rm without --version, and a pull --force, delete the image that they
\* settled on, unless a pull puts a file in place, a removal fails, or two of them
\* overlap.
THEOREM RemovesTheNamedAlone ==
  Spec /\ [][Undisturbed]_vars /\ []OneRemoval => []RemovesTheNamed
<1>1. ImagesInv /\ NamedInv /\ OneRemoval /\ [Next]_vars /\ [Undisturbed]_vars => NamedInv'
  <2>1. ASSUME NamedInv, UNCHANGED vars PROVE NamedInv'
    BY <2>1 DEF NamedInv, FilesListed, RemoverKept, NamedKept, Removing, Choosing
  <2>2. ASSUME ImagesInv, NamedInv, OneRemoval, Undisturbed,
               NEW c \in Commands, Begin(c) \/ Step(c) \/ Interrupt(c)
        PROVE  NamedInv'
    <3>1. FilesListed'
      BY <2>2, FilesListedStep DEF Undisturbed
    <3>2. ASSUME NEW d \in Commands PROVE RemoverKept(d)' /\ NamedKept(d)'
      <4>1. CASE d = c
        BY <2>2, <4>1, RemoversStep, OwnNamedStep DEF NamedInv, ImagesInv
      <4>2. CASE d # c
        <5>1. cmd'[d] = cmd[d]
          BY <2>2, <4>2, OneMoves DEF ImagesInv
        <5>2. RemoverKept(d)'
          BY <2>2, <5>1 DEF NamedInv, RemoverKept
        <5> QED BY <2>2, <4>2, <5>2, OthersNamedStep
      <4> QED BY <4>1, <4>2
    <3> QED BY <3>1, <3>2 DEF NamedInv
  <2> QED BY <2>1, <2>2 DEF Next
<1>2. NamedInv => RemovesTheNamed
  BY DEF NamedInv, NamedKept, RemovesTheNamed
<1> QED BY InitImagesInv, StepImagesInv, InitNamedInv, <1>1, <1>2, PTL DEF Spec

-----------------------------------------------------------------------------
(***************************************************************************)
(* The directories, Daemon.Media and the commands implement ImageShelf.  A *)
(* step changes one version at most and the part of one command in it.     *)
(* What is swept is not listed (CurUnlisted), and a pull that puts its     *)
(* last file in place may go because HalfInv finds somebody else for what  *)
(* is missing still.                                                       *)
(***************************************************************************)

NoFileWithoutDir == \A v \in Versions : v \notin dirs => files[v] = {}

\* A pull has something left from Mkdir to the end.
LeftLater ==
  \A c \in Commands : cmd[c].left # {} => cmd[c].pc \in {"download", "rename", "failed"}

State(v) == IF v \notin dirs THEN "absent" ELSE IF files[v] = Files THEN "whole" ELSE "half"
Image == [v \in Versions |-> State(v)]
Layers == [v \in Versions |-> {c \in Commands : Lays(c, v)}]
Sweepers == [v \in Versions |-> {c \in Commands : Sweeps(c, v)}]
Spoilt == {v \in Versions : \E c \in Commands : Spoiled(c, v)}

ShelfInv == ImagesInv /\ HalfInv /\ NoFileWithoutDir /\ LeftLater

LEMMA InitShelf == Init => NoFileWithoutDir /\ LeftLater /\ Shelf!Init
<1> SUFFICES ASSUME Init PROVE NoFileWithoutDir /\ LeftLater /\ Shelf!Init
  OBVIOUS
<1>1. NoFileWithoutDir /\ LeftLater
  BY DEF Init, NoFileWithoutDir, LeftLater
<1>2. \A v \in Versions : State(v) = IF v \in media THEN "whole" ELSE "absent"
  BY DEF Init, State, Files
<1>3. Image \in [Versions -> {"absent", "whole"}]
      /\ media = {v \in Versions : Image[v] = "whole"}
  BY <1>2 DEF Image, Init
<1>4. Layers = [v \in Versions |-> {}] /\ Sweepers = [v \in Versions |-> {}] /\ Spoilt = {}
  BY DEF Layers, Sweepers, Spoilt, Lays, Sweeps, Spoiled, Init
<1> QED BY <1>1, <1>3, <1>4 DEF Shelf!Init, Image, State, Layers, Sweepers, Spoilt

LEMMA NoFileStep ==
  ASSUME ImagesInv, NoFileWithoutDir, NEW c \in Commands, Begin(c) \/ Step(c) \/ Interrupt(c)
  PROVE  NoFileWithoutDir'
<1> USE DEF ImagesInv, ImagesTypeOK, NoFileWithoutDir
<1>1. CASE UNCHANGED <<dirs, files>>
  BY <1>1
<1>2. CASE Unlink(c)
  BY <1>2 DEF Unlink
<1>3. CASE Drop(c) \/ Delete(c)
  BY <1>3 DEF Drop, Delete, Rmdir
<1>4. CASE Mkdir(c) \/ Rename(c)
  BY <1>4 DEF Mkdir, Rename
<1> QED BY <1>1, <1>2, <1>3, <1>4
        DEF Begin, Step, Interrupt, localImages, StatKernel, StatRoot, ScanEnd, Serve,
            AvailableImages, Pick, RemoveImage, Pull, Resolve, Download, Ready

LEMMA LeftStep ==
  ASSUME ImagesTypeOK, LeftLater, NEW c \in Commands, Begin(c) \/ Step(c) \/ Interrupt(c)
  PROVE  LeftLater'
<1> USE DEF ImagesTypeOK, Command
<1>1. SUFFICES cmd'[c].left # {} => cmd'[c].pc \in {"download", "rename", "failed"}
  BY OneMoves DEF LeftLater
<1>2. cmd[c].left # {} => cmd[c].pc \in {"download", "rename", "failed"}
  BY DEF LeftLater
<1>3. CASE Begin(c)
  <2>1. PICK k \in Kinds, w \in Versions \cup {Latest} :
          LET begun == IF k \in PullKinds THEN Scanning(c, "resolve")
                                          ELSE [cmd EXCEPT ![c].pc = "list"]
          IN  cmd' = [begun EXCEPT ![c].kind = k, ![c].wanted = w]
    BY <1>3, Zenon DEF Begin
  <2>2. cmd[c].pc = "idle"
    BY <1>3 DEF Begin
  <2>3. CASE k \in PullKinds
    BY <1>2, <2>1, <2>2, <2>3 DEF Scanning
  <2>4. CASE k \notin PullKinds
    BY <1>2, <2>1, <2>2, <2>4
  <2> QED BY <2>3, <2>4
<1>4. CASE StatKernel(c) \/ StatRoot(c)
  <2>1. CASE StatKernel(c)
    BY <1>2, <2>1 DEF StatKernel
  <2>2. CASE StatRoot(c)
    BY <1>2, <2>2 DEF StatRoot
  <2> QED BY <1>4, <2>1, <2>2
<1>5. CASE Unlink(c) \/ Drop(c) \/ ScanEnd(c)
  BY <1>2, <1>5 DEF Unlink, Drop, DropFailed, ScanEnd, Goto
<1>6. CASE AvailableImages(c)
  BY <1>2, <1>6 DEF AvailableImages, Scanning
<1>7. CASE Pick(c) \/ RemoveImage(c) \/ Delete(c)
  BY <1>2, <1>7 DEF Pick, RemoveImage, Delete, Goto
<1>8. CASE Resolve(c)
  BY <1>2, <1>8, ResolveMoves
<1>9. CASE Mkdir(c) \/ Download(c) \/ Rename(c) \/ Ready(c) \/ Interrupt(c)
  BY <1>2, <1>9 DEF Mkdir, Download, Rename, Ready, AllInPlace, Interrupt, Goto
<1> QED BY <1>3, <1>4, <1>5, <1>6, <1>7, <1>8, <1>9 DEF Step, localImages, Serve, Pull

\* One command changes its part in one version.
LEMMA RoleSets ==
  ASSUME NEW c \in Commands, NEW v \in Versions,
         \A d \in Commands : d # c => cmd'[d] = cmd[d],
         \A w \in Versions : w # v => /\ Lays(c, w)' <=> Lays(c, w)
                                      /\ Sweeps(c, w)' <=> Sweeps(c, w)
                                      /\ Spoiled(c, w)' <=> Spoiled(c, w)
  PROVE  /\ (Lays(c, v)' <=> Lays(c, v)) => Layers' = Layers
         /\ Lays(c, v)' => Layers' = [Layers EXCEPT ![v] = @ \cup {c}]
         /\ ~Lays(c, v)' => Layers' = [Layers EXCEPT ![v] = @ \ {c}]
         /\ (Sweeps(c, v)' <=> Sweeps(c, v)) => Sweepers' = Sweepers
         /\ Sweeps(c, v)' => Sweepers' = [Sweepers EXCEPT ![v] = @ \cup {c}]
         /\ ~Sweeps(c, v)' => Sweepers' = [Sweepers EXCEPT ![v] = @ \ {c}]
         /\ (Spoiled(c, v)' <=> Spoiled(c, v)) => Spoilt' = Spoilt
         /\ Spoiled(c, v)' => Spoilt' = Spoilt \cup {v}
<1>1. \A d \in Commands, w \in Versions :
        d # c => /\ Lays(d, w)' <=> Lays(d, w)
                 /\ Sweeps(d, w)' <=> Sweeps(d, w)
                 /\ Spoiled(d, w)' <=> Spoiled(d, w)
  BY DEF Lays, Sweeps, Spoiled
<1>2. /\ (Lays(c, v)' <=> Lays(c, v)) => Layers' = Layers
      /\ Lays(c, v)' => Layers' = [Layers EXCEPT ![v] = @ \cup {c}]
      /\ ~Lays(c, v)' => Layers' = [Layers EXCEPT ![v] = @ \ {c}]
  BY <1>1 DEF Layers
<1>3. /\ (Sweeps(c, v)' <=> Sweeps(c, v)) => Sweepers' = Sweepers
      /\ Sweeps(c, v)' => Sweepers' = [Sweepers EXCEPT ![v] = @ \cup {c}]
      /\ ~Sweeps(c, v)' => Sweepers' = [Sweepers EXCEPT ![v] = @ \ {c}]
  BY <1>1 DEF Sweepers
<1>4. /\ (Spoiled(c, v)' <=> Spoiled(c, v)) => Spoilt' = Spoilt
      /\ Spoiled(c, v)' => Spoilt' = Spoilt \cup {v}
  BY <1>1 DEF Spoilt
<1> QED BY <1>2, <1>3, <1>4

\* What the steps look like from the shelf.
LEMMA ShelfVars ==
  ASSUME Image' = Image, media' = media, Layers' = Layers, Sweepers' = Sweepers, Spoilt' = Spoilt
  PROVE  UNCHANGED Shelf!vars
  BY DEF Shelf!vars, Image, State, Layers, Sweepers, Spoilt

LEMMA ShelfStep ==
  ASSUME ShelfInv, HalfIsAccounted', NEW c \in Commands, Begin(c) \/ Step(c) \/ Interrupt(c)
  PROVE  [Shelf!Next]_(Shelf!vars)
<1> USE DEF ShelfInv, ImagesInv
<1>0. /\ ImagesTypeOK /\ cmd[c] \in Command /\ DOMAIN cmd = Commands
      /\ \A d \in Commands : d # c => cmd'[d] = cmd[d]
      /\ cmd[c].left # {} => cmd[c].pc \in {"download", "rename", "failed"}
      /\ Upstream \in Versions
      /\ UNCHANGED <<dirs, files>> => Image' = Image
  BY OneMoves, ImageConstants DEF ImagesTypeOK, LeftLater, Image, State
<1>1. ASSUME \A w \in Versions : /\ Lays(c, w)' <=> Lays(c, w)
                                 /\ Sweeps(c, w)' <=> Sweeps(c, w)
                                 /\ Spoiled(c, w)' <=> Spoiled(c, w)
      PROVE  Layers' = Layers /\ Sweepers' = Sweepers /\ Spoilt' = Spoilt
  BY <1>0, <1>1, RoleSets
<1>2. ASSUME NEW v \in Versions, v \notin media, UNCHANGED <<dirs, files, media>>,
             cmd[c].pc \in {"scan", "stat"}, cmd'[c].pc = "drop", cmd'[c].cur = v
      PROVE  Shelf!Sweep(c, v)
  <2>1. \A w \in Versions : /\ ~Lays(c, w) /\ ~Lays(c, w)'
                            /\ ~Sweeps(c, w) /\ (Sweeps(c, w)' <=> w = v)
                            /\ ~Spoiled(c, w) /\ ~Spoiled(c, w)'
    BY <1>2 DEF Lays, Sweeps, Spoiled
  <2>2. Layers' = Layers /\ Sweepers' = [Sweepers EXCEPT ![v] = @ \cup {c}] /\ Spoilt' = Spoilt
    BY <1>0, <2>1, RoleSets
  <2> QED BY <1>0, <1>2, <2>2 DEF Shelf!Sweep, Image, State, Layers, Sweepers, Spoilt
<1>3. ASSUME NEW v \in Versions, UNCHANGED <<dirs, files, media>>,
             \/ Lays(c, v) /\ cmd' = [cmd EXCEPT ![c].pc = "failed"]
             \/ Sweeps(c, v) /\ cmd' = [cmd EXCEPT ![c].pc = "botched"]
      PROVE  Shelf!GiveUp(c, v)
  <2>1. /\ \A w \in Versions : w # v => /\ ~Lays(c, w) /\ ~Lays(c, w)' /\ ~Sweeps(c, w) /\ ~Sweeps(c, w)'
                                        /\ ~Spoiled(c, w) /\ ~Spoiled(c, w)'
        /\ ~Lays(c, v)' /\ ~Sweeps(c, v)' /\ Spoiled(c, v)'
    BY <1>0, <1>3 DEF Lays, Sweeps, Spoiled, Command
  <2>2. /\ Layers' = [Layers EXCEPT ![v] = @ \ {c}]
        /\ Sweepers' = [Sweepers EXCEPT ![v] = @ \ {c}]
        /\ Spoilt' = Spoilt \cup {v}
    BY <1>0, <2>1, RoleSets
  <2>3. c \in Layers[v] \cup Sweepers[v]
    BY <1>3 DEF Layers, Sweepers
  <2> QED BY <1>0, <1>3, <2>2, <2>3 DEF Shelf!GiveUp, Image, State, Layers, Sweepers, Spoilt
<1>4. ASSUME cmd[c].pc \in {"drop", "delete"}, Rmdir(c), cmd'[c].pc = "scan", UNCHANGED <<files, media>>
      PROVE  \E v \in Versions : Shelf!Clear(c, v)
  <2>1. PICK v \in Versions : v = cmd[c].cur
    BY <1>4 DEF CurUnlisted
  <2>2. \A w \in Versions : /\ ~Lays(c, w) /\ ~Lays(c, w)'
                            /\ (Sweeps(c, w) <=> w = v) /\ ~Sweeps(c, w)'
                            /\ ~Spoiled(c, w) /\ ~Spoiled(c, w)'
    BY <1>4, <2>1 DEF Lays, Sweeps, Spoiled
  <2>3. Layers' = Layers /\ Sweepers' = [Sweepers EXCEPT ![v] = @ \ {c}] /\ Spoilt' = Spoilt
    BY <1>0, <2>2, RoleSets
  <2>4. c \in Sweepers[v]
    BY <2>2 DEF Sweepers
  <2>5. Image[v] # "whole" /\ Image' = [Image EXCEPT ![v] = "absent"]
    BY <1>4, <2>1 DEF Rmdir, Image, State, Files
  <2>6. Shelf!Clear(c, v)
    BY <1>4, <2>3, <2>4, <2>5 DEF Shelf!Clear, Shelf!Becomes, Image, State, Layers, Sweepers, Spoilt
  <2> QED BY <2>6
<1>5. ASSUME UNCHANGED <<dirs, files, media>>,
             cmd[c].pc \notin {"download", "rename", "failed", "drop", "delete", "botched"},
             cmd'[c].pc \notin {"drop", "delete", "botched", "download", "rename"},
             cmd'[c].left = cmd[c].left
      PROVE  UNCHANGED Shelf!vars
  <2>1. \A w \in Versions : /\ ~Lays(c, w) /\ ~Lays(c, w)' /\ ~Sweeps(c, w) /\ ~Sweeps(c, w)'
                            /\ ~Spoiled(c, w) /\ ~Spoiled(c, w)'
    BY <1>0, <1>5 DEF Lays, Sweeps, Spoiled
  <2> QED BY <1>0, <1>1, <1>5, <2>1, ShelfVars
<1>6. CASE Begin(c)
  <2>1. PICK k \in Kinds, w \in Versions \cup {Latest} :
          LET begun == IF k \in PullKinds THEN Scanning(c, "resolve")
                                          ELSE [cmd EXCEPT ![c].pc = "list"]
          IN  cmd' = [begun EXCEPT ![c].kind = k, ![c].wanted = w]
    BY <1>6, Zenon DEF Begin
  <2>2. cmd[c].pc = "idle" /\ UNCHANGED <<dirs, files, media>>
    BY <1>6 DEF Begin
  <2>3. cmd'[c].pc \in {"scan", "list"} /\ cmd'[c].left = cmd[c].left
    BY <1>0, <2>1 DEF Scanning, ImagesTypeOK, Command
  <2> QED BY <1>5, <2>2, <2>3
<1>7. CASE StatKernel(c)
  <2>1. PICK v \in cmd[c].todo :
          cmd' = [cmd EXCEPT ![c].cur = v, ![c].todo = @ \ {v},
                             ![c].pc = IF "vmlinuz" \in files[v] THEN "stat" ELSE "drop"]
    BY <1>7 DEF StatKernel
  <2>2. UNCHANGED <<dirs, files, media>> /\ cmd[c].pc = "scan" /\ v \in Versions
    BY <1>0, <1>7, <2>1 DEF StatKernel, Command
  <2>3. CASE "vmlinuz" \in files[v]
    <3>1. cmd'[c].pc = "stat" /\ cmd'[c].left = cmd[c].left
      BY <1>0, <2>1, <2>3 DEF Command
    <3> QED BY <1>5, <2>2, <3>1
  <2>4. CASE "vmlinuz" \notin files[v]
    <3>1. v \notin media
      BY <2>4 DEF MediaIsWhole, Whole, Files
    <3>2. cmd'[c].pc = "drop" /\ cmd'[c].cur = v
      BY <1>0, <2>1, <2>4 DEF Command
    <3> QED BY <1>2, <2>2, <3>1, <3>2 DEF Shelf!Next
  <2> QED BY <2>3, <2>4
<1>8. CASE StatRoot(c)
  <2>1. UNCHANGED <<dirs, files, media>> /\ cmd[c].pc = "stat" /\ cmd[c].cur \in Versions
    BY <1>8 DEF StatRoot, CurUnlisted
  <2>2. CASE "cpio" \in files[cmd[c].cur]
    <3>1. cmd'[c].pc = "scan" /\ cmd'[c].left = cmd[c].left
      BY <1>0, <1>8, <2>2 DEF StatRoot, Command
    <3> QED BY <1>5, <2>1, <3>1
  <2>3. CASE "cpio" \notin files[cmd[c].cur]
    <3>1. cmd[c].cur \notin media
      BY <2>3 DEF MediaIsWhole, Whole, Files
    <3>2. cmd'[c].pc = "drop" /\ cmd'[c].cur = cmd[c].cur
      BY <1>0, <1>8, <2>3 DEF StatRoot, Command
    <3> QED BY <1>2, <2>1, <3>1, <3>2 DEF Shelf!Next
  <2> QED BY <2>2, <2>3
<1>9. CASE Unlink(c)
  <2>1. PICK v \in Versions : v = cmd[c].cur
    BY <1>9 DEF Unlink, CurUnlisted
  <2>2. PICK f \in files[v] : files' = [files EXCEPT ![v] = @ \ {f}]
    BY <1>9, <2>1 DEF Unlink
  <2>3. UNCHANGED <<dirs, media, cmd>> /\ v \in dirs /\ c \in Sweepers[v]
    BY <1>9, <2>1, <2>2 DEF Unlink, NoFileWithoutDir, Sweepers, Sweeps
  <2>4. Layers' = Layers /\ Sweepers' = Sweepers /\ Spoilt' = Spoilt
    BY <2>3 DEF Layers, Sweepers, Spoilt, Lays, Sweeps, Spoiled
  <2>5. files'[v] # Files /\ Image' = [Image EXCEPT ![v] = "half"]
    BY <1>0, <2>2, <2>3 DEF ImagesTypeOK, Image, State
  <2>6. CASE Image[v] = "whole"
    <3>1. Shelf!Take(c, v)
      BY <2>3, <2>4, <2>5, <2>6 DEF Shelf!Take, Shelf!Becomes, Image, State, Layers, Sweepers, Spoilt
    <3> QED BY <3>1 DEF Shelf!Next
  <2>7. CASE Image[v] # "whole"
    <3>1. Image' = Image
      BY <2>3, <2>5, <2>7 DEF Image, State
    <3> QED BY <2>3, <2>4, <3>1, ShelfVars
  <2> QED BY <2>6, <2>7
<1>10. CASE Drop(c) \/ Delete(c)
  <2>1. /\ cmd[c].pc \in {"drop", "delete"} /\ cmd[c].cur \in Versions
        /\ UNCHANGED <<files, media>>
        /\ Sweeps(c, cmd[c].cur)
    BY <1>10 DEF Drop, Delete, CurUnlisted, Sweeps
  <2>2. \/ Rmdir(c) /\ cmd'[c].pc = "scan"
        \/ Goto(c, "botched") /\ UNCHANGED dirs
    BY <1>0, <1>10 DEF Drop, DropFailed, Delete, Goto, Command
  <2>3. CASE Rmdir(c) /\ cmd'[c].pc = "scan"
    BY <1>4, <2>1, <2>3 DEF Shelf!Next
  <2>4. CASE Goto(c, "botched") /\ UNCHANGED dirs
    BY <1>3, <2>1, <2>4 DEF Goto, Shelf!Next
  <2> QED BY <2>2, <2>3, <2>4
<1>11. CASE ScanEnd(c) \/ AvailableImages(c) \/ Pick(c)
  <2>1. UNCHANGED <<dirs, files, media>> /\ cmd[c].pc \in {"scan", "list", "pick"}
    BY <1>11 DEF ScanEnd, AvailableImages, Pick
  <2>2. cmd'[c].left = cmd[c].left
        /\ cmd'[c].pc \in {"ok", "pick", "resolve", "mkdir", "scan", "remove", "nothing"}
    <3>1. CASE ScanEnd(c)
      BY <1>0, <3>1 DEF ScanEnd, Goto, Command
    <3>2. CASE AvailableImages(c)
      BY <1>0, <3>2 DEF AvailableImages, Scanning, Command
    <3>3. CASE Pick(c)
      BY <1>0, <3>3 DEF Pick, Goto, Command
    <3> QED BY <1>11, <3>1, <3>2, <3>3
  <2> QED BY <1>5, <2>1, <2>2
<1>12. CASE RemoveImage(c)
  <2>1. cmd[c].pc = "remove" /\ UNCHANGED <<dirs, files>>
    BY <1>12 DEF RemoveImage
  <2>2. CASE Goto(c, "panicked") /\ UNCHANGED media
    <3>1. cmd'[c].left = cmd[c].left /\ cmd'[c].pc = "panicked"
      BY <1>0, <2>2 DEF Goto, Command
    <3> QED BY <1>5, <2>1, <2>2, <3>1
  <2>3. ASSUME NEW v \in media, media' = Unlisted(v),
               cmd' = [cmd EXCEPT ![c].pc = "delete", ![c].cur = v]
        PROVE  Shelf!Unlist(c, v) /\ v \in Versions
    <3>1. v \in Versions /\ cmd'[c].pc = "delete" /\ cmd'[c].cur = v
      BY <1>0, <2>3 DEF ImagesTypeOK, Command
    <3>2. \A w \in Versions : /\ ~Lays(c, w) /\ ~Lays(c, w)'
                              /\ ~Sweeps(c, w) /\ (Sweeps(c, w)' <=> w = v)
                              /\ ~Spoiled(c, w) /\ ~Spoiled(c, w)'
      BY <2>1, <3>1 DEF Lays, Sweeps, Spoiled
    <3>3. Layers' = Layers /\ Sweepers' = [Sweepers EXCEPT ![v] = @ \cup {c}] /\ Spoilt' = Spoilt
      BY <1>0, <3>1, <3>2, RoleSets
    <3> QED BY <1>0, <2>1, <2>3, <3>1, <3>3
            DEF Shelf!Unlist, Unlisted, Image, State, Layers, Sweepers, Spoilt
  <2> QED BY <1>12, <2>2, <2>3 DEF RemoveImage, Shelf!Next
<1>13. CASE Resolve(c)
  <2>1. UNCHANGED <<dirs, files, media>>
    BY <1>13 DEF Resolve
  <2> QED BY <1>0, <1>5, <1>13, <2>1, ResolveMoves
<1>14. CASE Mkdir(c)
  <2>1. PICK v \in Versions : v = cmd[c].version
    BY <1>14 DEF Mkdir, VersionSettled
  <2>2. /\ cmd[c].pc = "mkdir" /\ dirs' = dirs \cup {v} /\ UNCHANGED <<files, media>>
        /\ cmd'[c].pc = "download" /\ cmd'[c].left = Files /\ cmd'[c].version = v
    BY <1>0, <1>14, <2>1 DEF Mkdir, Command
  <2>3. \A w \in Versions : /\ ~Lays(c, w) /\ (Lays(c, w)' <=> w = v)
                            /\ ~Sweeps(c, w) /\ ~Sweeps(c, w)'
                            /\ ~Spoiled(c, w) /\ ~Spoiled(c, w)'
    BY <2>2 DEF Lays, Sweeps, Spoiled, Files
  <2>4. Layers' = [Layers EXCEPT ![v] = @ \cup {c}] /\ Sweepers' = Sweepers /\ Spoilt' = Spoilt
    BY <1>0, <2>3, RoleSets
  <2>5. Image' = [Image EXCEPT ![v] = IF Image[v] = "absent" THEN "half" ELSE Image[v]]
    BY <2>2 DEF Image, State, NoFileWithoutDir, Files
  <2>6. Shelf!Lay(c, v)
    BY <2>2, <2>4, <2>5 DEF Shelf!Lay, Shelf!Becomes, Image, State, Layers, Sweepers, Spoilt
  <2> QED BY <2>6 DEF Shelf!Next
<1>15. CASE Download(c) \/ Interrupt(c)
  <2>1. UNCHANGED <<dirs, files, media>>
    BY <1>15 DEF Download, Interrupt
  <2>2. \/ cmd[c].pc = "download" /\ Goto(c, "rename")
        \/ cmd[c].pc \notin {"drop", "delete", "failed", "botched"} /\ Goto(c, "failed")
        \/ cmd[c].pc = "drop" /\ Goto(c, "botched")
    BY <1>15 DEF Download, Interrupt
  <2>3. CASE cmd[c].pc = "download" /\ Goto(c, "rename")
    <3>1. \A w \in Versions : /\ Lays(c, w)' <=> Lays(c, w)
                              /\ Sweeps(c, w)' <=> Sweeps(c, w)
                              /\ Spoiled(c, w)' <=> Spoiled(c, w)
      BY <1>0, <2>3 DEF Lays, Sweeps, Spoiled, Goto, Command
    <3> QED BY <1>0, <1>1, <2>1, <3>1, ShelfVars
  <2>4. CASE cmd[c].pc \notin {"drop", "delete", "failed", "botched"} /\ Goto(c, "failed")
    <3>1. CASE cmd[c].left = {}
      <4>1. \A w \in Versions : /\ ~Lays(c, w) /\ ~Lays(c, w)' /\ ~Sweeps(c, w) /\ ~Sweeps(c, w)'
                                /\ ~Spoiled(c, w) /\ ~Spoiled(c, w)'
        BY <1>0, <2>4, <3>1 DEF Lays, Sweeps, Spoiled, Goto, Command
      <4> QED BY <1>0, <1>1, <2>1, <4>1, ShelfVars
    <3>2. CASE cmd[c].left # {}
      <4>1. cmd[c].pc \in {"download", "rename"}
        BY <1>0, <2>4, <3>2
      <4>2. cmd[c].version \in Versions /\ Lays(c, cmd[c].version)
        BY <3>2, <4>1 DEF VersionSettled, Lays
      <4> QED BY <1>3, <2>1, <2>4, <4>2 DEF Goto, Shelf!Next
    <3> QED BY <3>1, <3>2
  <2>5. CASE cmd[c].pc = "drop" /\ Goto(c, "botched")
    <3>1. cmd[c].cur \in Versions /\ Sweeps(c, cmd[c].cur)
      BY <2>5 DEF CurUnlisted, Sweeps
    <3> QED BY <1>3, <2>1, <2>5, <3>1 DEF Goto, Shelf!Next
  <2> QED BY <2>2, <2>3, <2>4, <2>5
<1>16. CASE Rename(c)
  <2>1. PICK v \in Versions : v = cmd[c].version
    BY <1>16 DEF Rename, VersionSettled
  <2>2. PICK f \in cmd[c].left :
          \/ /\ v \in dirs
             /\ files' = [files EXCEPT ![v] = @ \cup {f}]
             /\ cmd' = [cmd EXCEPT ![c].left = @ \ {f}]
          \/ /\ v \notin dirs
             /\ Goto(c, "failed")
             /\ UNCHANGED files
    BY <1>16, <2>1 DEF Rename
  <2>3. cmd[c].pc = "rename" /\ UNCHANGED <<dirs, media>> /\ Lays(c, v) /\ f \in Files
    BY <1>0, <1>16, <2>1, <2>2 DEF Rename, Lays, Command
  <2>4. CASE Goto(c, "failed") /\ UNCHANGED files
    BY <1>3, <2>3, <2>4 DEF Goto, Shelf!Next
  <2>5. CASE /\ v \in dirs
             /\ files' = [files EXCEPT ![v] = @ \cup {f}]
             /\ cmd' = [cmd EXCEPT ![c].left = @ \ {f}]
    <3>1. cmd'[c].pc = "rename" /\ cmd'[c].version = v
      BY <1>0, <2>1, <2>3, <2>5 DEF Command
    <3>2. \A w \in Versions : /\ w # v => ~Lays(c, w) /\ ~Lays(c, w)'
                              /\ ~Sweeps(c, w) /\ ~Sweeps(c, w)' /\ ~Spoiled(c, w) /\ ~Spoiled(c, w)'
      BY <2>1, <2>3, <3>1 DEF Lays, Sweeps, Spoiled
    <3>3. Sweepers' = Sweepers /\ Spoilt' = Spoilt /\ c \in Layers[v]
      BY <1>0, <2>3, <3>2, RoleSets DEF Layers
    <3>4. Layers' = [Layers EXCEPT ![v] = @ \ {c}] \/ Layers' = Layers
      BY <1>0, <2>3, <3>2, RoleSets
    <3>5. files[v] \subseteq Files /\ files'[v] = files[v] \cup {f}
          /\ \A w \in Versions : w # v => files'[w] = files[w]
      BY <1>0, <2>5 DEF ImagesTypeOK
    <3>6. Image' = Image \/ (Image[v] = "half" /\ Image' = [Image EXCEPT ![v] = "whole"])
      <4>1. \A w \in Versions : w # v => State(w)' = State(w)
        BY <2>3, <3>5 DEF State
      <4>2. State(v)' = State(v) \/ (State(v) = "half" /\ State(v)' = "whole")
        BY <2>3, <2>5, <3>5 DEF State
      <4>3. State(v)' = State(v) => Image' = Image
        BY <4>1 DEF Image
      <4>4. State(v)' = "whole" => Image' = [Image EXCEPT ![v] = "whole"]
        BY <4>1 DEF Image
      <4> QED BY <4>2, <4>3, <4>4 DEF Image
    <3>7. Image'[v] = "half" => Layers'[v] \cup Sweepers'[v] # {} \/ v \in Spoilt'
      BY DEF HalfIsAccounted, Image, State, Whole, Layers, Sweepers, Spoilt
    <3>8. Shelf!Put(c, v)
      BY <2>3, <3>3, <3>4, <3>6, <3>7
         DEF Shelf!Put, Shelf!Becomes, Shelf!Attended, Image, State, Layers, Sweepers, Spoilt
    <3> QED BY <3>8 DEF Shelf!Next
  <2> QED BY <2>2, <2>4, <2>5
<1>17. CASE Ready(c)
  <2>1. UNCHANGED <<dirs, files, media>> /\ cmd[c].pc = "rename" /\ cmd[c].left = {}
        /\ cmd'[c].pc \in {"list", "ok"}
    BY <1>0, <1>17 DEF Ready, AllInPlace, Goto, Command
  <2>2. \A w \in Versions : /\ ~Lays(c, w) /\ ~Lays(c, w)' /\ ~Sweeps(c, w) /\ ~Sweeps(c, w)'
                            /\ ~Spoiled(c, w) /\ ~Spoiled(c, w)'
    BY <2>1 DEF Lays, Sweeps, Spoiled
  <2> QED BY <1>0, <1>1, <2>1, <2>2, ShelfVars
<1> QED BY <1>6, <1>7, <1>8, <1>9, <1>10, <1>11, <1>12, <1>13, <1>14, <1>15, <1>16, <1>17
        DEF Step, localImages, Serve, Pull

\* However scans, removals and pulls race, file by file, an image leaves the list
\* before anything of it leaves the disk, and who takes his hands off half of one
\* leaves it to another or ends without success: ImageStore implements ImageShelf.
THEOREM ImplementsShelf == Spec => ShelfSpec
<1>1. /\ ShelfInv /\ ImagesInv' /\ [Next]_vars
         => HalfInv' /\ NoFileWithoutDir' /\ LeftLater' /\ [Shelf!Next]_(Shelf!vars)
  <2> SUFFICES ASSUME ShelfInv, ImagesInv', [Next]_vars
               PROVE  HalfInv' /\ NoFileWithoutDir' /\ LeftLater' /\ [Shelf!Next]_(Shelf!vars)
    OBVIOUS
  <2>1. CASE UNCHANGED vars
    <3>1. HalfInv' /\ NoFileWithoutDir' /\ LeftLater'
      BY <2>1 DEF ShelfInv, HalfInv, Accounts, Owes, Whole, NoFileWithoutDir, LeftLater
    <3>2. Image' = Image /\ Layers' = Layers /\ Sweepers' = Sweepers /\ Spoilt' = Spoilt
      BY <2>1 DEF Image, State, Layers, Sweepers, Spoilt, Lays, Sweeps, Spoiled
    <3> QED BY <2>1, <3>1, <3>2, ShelfVars
  <2>2. ASSUME NEW c \in Commands, Begin(c) \/ Step(c) \/ Interrupt(c)
        PROVE  HalfInv' /\ NoFileWithoutDir' /\ LeftLater' /\ [Shelf!Next]_(Shelf!vars)
    <3>1. HalfInv' /\ NoFileWithoutDir' /\ LeftLater'
      BY <2>2, HalfStep, NoFileStep, LeftStep DEF ShelfInv, ImagesInv
    <3>2. ImagesInv' /\ HalfInv' => HalfIsAccounted'
      BY HalfInvSuffices, PTL
    <3> QED BY <2>2, <3>1, <3>2, ShelfStep
  <2> QED BY <2>1, <2>2 DEF Next
<1> QED BY InitImagesInv, StepImagesInv, InitHalfInv, InitShelf, <1>1, PTL
        DEF Spec, ShelfSpec, ShelfInv, Shelf!Spec

=============================================================================
