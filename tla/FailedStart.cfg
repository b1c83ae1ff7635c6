SPECIFICATION DaemonSpec
CONSTANTS
  v1 = v1  q1 = q1  s1 = s1  s2 = s2  a = a
  Nil = Nil
  ReservedName = corectld
  VMs = {v1}
  Ids = {a, corectld}
  UUIDOf <- OneUUID
  NameOf <- OneUUID
  Requests = {}
  RequestKind <- Pings
  Stoppers = {}
  StopKind <- None
  Target <- All
  Deaf = {}
INVARIANTS FailedStartHarmless
CHECK_DEADLOCK FALSE
