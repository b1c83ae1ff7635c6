------------------------------- MODULE Records -------------------------------
(***************************************************************************)
(* The records of corectld's name server (dns.go) and the requests to the  *)
(* embedded etcd that write them.                                          *)
(*                                                                         *)
(* etcd keeps a tree under /skydns: a file holds a record, a directory the *)
(* files below it.  addRecord and rmRecord each send two requests, one     *)
(* after the other, and give up at the first error.  The client waits one  *)
(* second for an answer; the server does not learn that it stopped waiting *)
(* and may still carry the request out: such a request stays in "late".    *)
(***************************************************************************)
EXTENDS Naturals, Sequences, FiniteSets

CONSTANTS
  Names,      \* host names
  Labels,     \* the elements that a name's key has in etcd, from the root down
  Addresses,
  Reserved, NameServer,  \* the names of the host, "corectld" and "corectld.ns.dns"
  HostAddress,           \* on the network of the guests
  Callers,    \* the goroutines that send requests
  MaxLate,    \* a bound on the late requests at a time
  Nil,
  Dir         \* what the store holds at a directory

ASSUME RecordConstants ==
  /\ Labels \in [Names -> Seq(STRING)]
  /\ {Reserved, NameServer} \subseteq Names
  /\ HostAddress \in Addresses
  /\ Nil \notin Names \cup Addresses
  /\ Dir \notin Names \cup Addresses \cup {Nil}
  /\ MaxLate \in Nat

VARIABLES
  store,  \* what etcd holds at each key
  todo,   \* the requests that each caller has yet to see answered
  late    \* those whose caller went away

recordVars == <<store, todo, late>>

-----------------------------------------------------------------------------
\* A guest's name is whatever the user gave, in lower case.  invertDomain turns
\* it round at the dots and drops a slash at its end, and etcd cleans the path
\* it gets of what is empty: "web", "web." and "web/" have one key.
Path(h) == <<"local">> \o Labels[h]

\* strings.Replace of an empty address leaves the directory of all of them.
Reverse(ip) == IF ip = Nil THEN <<"arpa">> ELSE <<"arpa", ip>>

Parents(k) == {SubSeq(k, 1, i) : i \in 1 .. Len(k) - 1}

Leaves == {Path(h) : h \in Names} \cup {Reverse(ip) : ip \in Addresses \cup {Nil}}

Keys == Leaves \cup UNION {Parents(k) : k \in Leaves}

Request == [op : {"set", "delete", "wipe"}, key : Keys \cup {<<>>},
            value : Names \cup Addresses \cup {Nil}]

Set(k, x) == [op |-> "set", key |-> k, value |-> x]
Delete(k) == [op |-> "delete", key |-> k, value |-> Nil]

\* The recursive removal of /skydns.
Wipe == [op |-> "wipe", key |-> <<>>, value |-> Nil]

addRecord(h, ip) == <<Set(Path(h), ip), Set(Reverse(ip), h)>>

\* A mutant: the address goes first.
rmReverse(h, ip) == <<Delete(Reverse(ip)), Delete(Path(h))>>

rmRecord(h, ip) == <<Delete(Path(h)), Delete(Reverse(ip))>>

\* What NewDNSServer leaves behind: two names of one address.
HostStore ==
  LET hosts == {Path(Reserved), Path(NameServer)}
      above == UNION {Parents(k) : k \in hosts \cup {Reverse(HostAddress)}}
  IN [k \in Keys |-> IF k \in hosts THEN HostAddress
                     ELSE IF k = Reverse(HostAddress) THEN NameServer
                     ELSE IF k \in above THEN Dir ELSE Nil]

RecordsTypeOK ==
  /\ store \in [Keys -> Names \cup Addresses \cup {Nil, Dir}]
  /\ todo \in [Callers -> Seq(Request)]
  /\ late \subseteq Request

-----------------------------------------------------------------------------
(***************************************************************************)
(* What etcd does with a request                                           *)
(***************************************************************************)

IsFile(k) == store[k] \notin {Nil, Dir}

\* A file may not take the place of a directory nor lie below a file, and
\* only a file can be deleted without the flag for directories.
Accepts(r) ==
  \/ r.op = "wipe"
  \/ r.op = "delete" /\ IsFile(r.key)
  \/ r.op = "set" /\ store[r.key] # Dir /\ \A k \in Parents(r.key) : ~IsFile(k)

Applied(r) ==
  IF r.op = "wipe" THEN [k \in Keys |-> Nil]
  ELSE [k \in Keys |-> IF k = r.key THEN r.value
                       ELSE IF r.op = "set" /\ k \in Parents(r.key) THEN Dir
                       ELSE store[k]]

Pending(c) == todo[c] # <<>>

\* The request of c is carried out and answered.
Answered(c) ==
  /\ Pending(c)
  /\ Accepts(Head(todo[c]))
  /\ store' = Applied(Head(todo[c]))
  /\ todo' = [todo EXCEPT ![c] = Tail(@)]
  /\ UNCHANGED late

\* etcd answers with an error: the requests that were to follow are not sent.
Refused(c) ==
  /\ Pending(c)
  /\ ~Accepts(Head(todo[c]))
  /\ todo' = [todo EXCEPT ![c] = <<>>]
  /\ UNCHANGED <<store, late>>

\* A mutant: a client without HeaderTimeoutPerRequest.
TimedOutNever(c) == FALSE /\ UNCHANGED recordVars

\* No answer within the second.  The request is lost, or still on its way.
TimedOut(c) ==
  /\ Pending(c)
  /\ todo' = [todo EXCEPT ![c] = <<>>]
  /\ \/ late' = late
     \/ Cardinality(late) < MaxLate /\ late' = late \cup {Head(todo[c])}
  /\ UNCHANGED store

Failed(c) == Refused(c) \/ TimedOut(c)

\* etcd gets to a request nobody waits for.
LateApplied(r) ==
  /\ r \in late
  /\ late' = late \ {r}
  /\ store' = IF Accepts(r) THEN Applied(r) ELSE store
  /\ UNCHANGED todo
=============================================================================
