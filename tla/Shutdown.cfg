SPECIFICATION DaemonFairSpec
CONSTANTS
  v1 = v1  q1 = q1  s1 = s1  s2 = s2  a = a
  Nil = Nil
  ReservedName = corectld
  VMs = {v1}
  Ids = {a, corectld}
  UUIDOf <- OneUUID
  NameOf <- OneUUID
  Requests = {q1}
  RequestKind <- Pings
  Stoppers = {s1, s2}
  StopKind <- StopAndSignal
  Target <- All
  Deaf = {}
INVARIANTS DaemonTypeOK
PROPERTIES DrainedMeansNoneRuns Spec DrainEnds HaltEnds RunReplies DeadVMDeregistered ServiceSpec
CHECK_DEADLOCK FALSE
