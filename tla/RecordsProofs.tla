---------------------------- MODULE RecordsProofs ----------------------------
(***************************************************************************)
(* What modules Names and Startup need to know of the keys, of the         *)
(* requests and of what etcd does with them.                               *)
(***************************************************************************)
EXTENDS Records, TLAPS

\* The forward and the reverse records are in different trees.
LEMMA PathIsNotReverse ==
  ASSUME NEW h \in Names, NEW ip
  PROVE  Path(h) # Reverse(ip)
<1>1. Labels[h] \in Seq(STRING)
  BY RecordConstants
<1>2. Path(h)[1] = "local"
  BY <1>1 DEF Path
<1>3. Reverse(ip)[1] = "arpa"
  BY DEF Reverse
<1> QED BY <1>2, <1>3

\* The first label tells whose tree a key is in.
LEMMA Prefixed ==
  ASSUME NEW s \in Seq(STRING)
  PROVE  /\ (<<"local">> \o s)[1] = "local"
         /\ \A i \in 1 .. Len(<<"local">> \o s) - 1 : SubSeq(<<"local">> \o s, 1, i)[1] = "local"
OBVIOUS

\* No name lies on the way to a reverse record, nor the other way round.
LEMMA TreesApart ==
  ASSUME NEW h \in Names, NEW ip
  PROVE  Path(h) \notin Parents(Reverse(ip)) /\ Reverse(ip) \notin Parents(Path(h))
<1>1. Labels[h] \in Seq(STRING)
  BY RecordConstants
<1>2. /\ Path(h)[1] = "local"
      /\ \A i \in 1 .. Len(Path(h)) - 1 : SubSeq(Path(h), 1, i)[1] = "local"
  BY <1>1, Prefixed DEF Path
<1>3. /\ Reverse(ip)[1] = "arpa"
      /\ \A i \in 1 .. Len(Reverse(ip)) - 1 : SubSeq(Reverse(ip), 1, i)[1] = "arpa"
  BY DEF Reverse
<1> QED BY <1>2, <1>3 DEF Parents

LEMMA LeavesAreKeys ==
  /\ \A h \in Names : Path(h) \in Keys
  /\ \A ip \in Addresses \cup {Nil} : Reverse(ip) \in Keys
BY DEF Keys, Leaves

-----------------------------------------------------------------------------
\* What addRecord and rmRecord send are requests.
LEMMA RequestTypes ==
  ASSUME NEW h \in Names, NEW ip \in Addresses \cup {Nil}
  PROVE  addRecord(h, ip) \in Seq(Request) /\ rmRecord(h, ip) \in Seq(Request)
<1>1. Set(Path(h), ip) \in Request /\ Set(Reverse(ip), h) \in Request
  BY LeavesAreKeys DEF Set, Request
<1>2. Delete(Path(h)) \in Request /\ Delete(Reverse(ip)) \in Request
  BY LeavesAreKeys DEF Delete, Request
<1> QED BY <1>1, <1>2 DEF addRecord, rmRecord

LEMMA HeadAndTail ==
  ASSUME RecordsTypeOK, NEW c \in Callers, Pending(c)
  PROVE  Head(todo[c]) \in Request /\ Tail(todo[c]) \in Seq(Request)
<1>1. todo[c] \in Seq(Request) /\ todo[c] # <<>>
  BY DEF RecordsTypeOK, Pending
<1> QED BY <1>1

LEMMA AppliedType ==
  ASSUME RecordsTypeOK, NEW r \in Request
  PROVE  Applied(r) \in [Keys -> Names \cup Addresses \cup {Nil, Dir}]
BY DEF RecordsTypeOK, Applied, Request

LEMMA AnsweredType ==
  ASSUME RecordsTypeOK, NEW c \in Callers, Answered(c) \/ Failed(c)
  PROVE  RecordsTypeOK'
<1>0. Pending(c)
  BY DEF Answered, Failed, Refused, TimedOut
<1>1. Head(todo[c]) \in Request /\ Tail(todo[c]) \in Seq(Request) /\ <<>> \in Seq(Request)
  BY <1>0, HeadAndTail
<1>2. CASE Answered(c)
  <2>1. store' \in [Keys -> Names \cup Addresses \cup {Nil, Dir}]
    BY <1>1, <1>2, AppliedType DEF Answered
  <2> QED BY <1>1, <1>2, <2>1 DEF Answered, RecordsTypeOK
<1>3. CASE Refused(c)
  BY <1>1, <1>3 DEF Refused, RecordsTypeOK
<1>4. CASE TimedOut(c)
  <2>1. late' \subseteq Request
    <3>1. late \subseteq Request
      BY DEF RecordsTypeOK
    <3>2. late' = late \/ late' = late \cup {Head(todo[c])}
      BY <1>4 DEF TimedOut
    <3> QED BY <1>1, <3>1, <3>2
  <2>2. store' = store /\ todo' = [todo EXCEPT ![c] = <<>>]
    BY <1>4 DEF TimedOut
  <2> QED BY <1>1, <2>1, <2>2 DEF RecordsTypeOK
<1> QED BY <1>2, <1>3, <1>4 DEF Failed

LEMMA LateType ==
  ASSUME RecordsTypeOK, NEW r \in late, LateApplied(r)
  PROVE  RecordsTypeOK'
<1>1. r \in Request
  BY DEF RecordsTypeOK
<1>2. store' \in [Keys -> Names \cup Addresses \cup {Nil, Dir}]
  BY <1>1, AppliedType DEF LateApplied, RecordsTypeOK
<1> QED BY <1>2 DEF LateApplied, RecordsTypeOK

-----------------------------------------------------------------------------
\* The store that a serving daemon starts from.
LEMMA HostStoreType ==
  /\ HostStore \in [Keys -> Names \cup Addresses \cup {Nil, Dir}]
  /\ HostStore[Path(Reserved)] = HostAddress
<1>1. Path(Reserved) \in Keys
  BY LeavesAreKeys, RecordConstants
<1>2. HostStore[Path(Reserved)] = HostAddress
  BY <1>1 DEF HostStore
<1>3. HostStore \in [Keys -> Names \cup Addresses \cup {Nil, Dir}]
  BY RecordConstants DEF HostStore
<1> QED BY <1>2, <1>3

\* A request that neither wipes the store nor has the host's key leaves the
\* host's record alone: etcd does not make a directory of a file.
Harmless(r) == r.op # "wipe" /\ r.key # Path(Reserved)

LEMMA HarmlessKeeps ==
  ASSUME store[Path(Reserved)] = HostAddress, NEW r \in Request, Accepts(r), Harmless(r)
  PROVE  Applied(r)[Path(Reserved)] = HostAddress
<1>1. Path(Reserved) \in Keys /\ IsFile(Path(Reserved))
  BY LeavesAreKeys, RecordConstants DEF IsFile
<1>2. ~(r.op = "set" /\ Path(Reserved) \in Parents(r.key))
  BY <1>1 DEF Accepts
<1> QED BY <1>1, <1>2 DEF Applied, Harmless
=============================================================================
