SPECIFICATION FairSpec
CONSTANTS
  v1 = v1  v2 = v2  v3 = v3  q1 = q1  q2 = q2  q3 = q3  s1 = s1  s2 = s2
  a = a  b = b  c = c  n = n
  Nil = Nil
  ReservedName = corectld
  VMs = {v1}
  Ids = {a, b, c, n, corectld}
  UUIDOf <- OwnUUIDs
  NameOf <- OneName
  Requests = {q1}
  RequestKind <- Pings
  Stoppers = {s1}
  StopKind <- Halts
  Target <- All
  Deaf = {v1}
PROPERTIES DeafIsKilled
CHECK_DEADLOCK FALSE
