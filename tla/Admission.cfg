SPECIFICATION Spec
CONSTANTS
  c1 = c1  c2 = c2  v1 = v1  v2 = v2  v3 = v3  v4 = v4  v5 = v5
  uid = uid  nm = nm  d1 = d1  d2 = d2  d3 = d3  d4 = d4  d5 = d5
  Random = Random
  Nil = Nil
  Clients = {c1, c2}
  VMs = {v1, v2, v3, v4, v5}
  Plan <- Load
  UUIDGiven <- SomeUUIDs
  Uuids = {uid}
  NameOf <- SomeNames
  Asked <- Memories
  MinMemory = 1
  MaxMemory = 8
  Limit = 10
  Root <- Roots
  Volumes <- Disc
  Paths = {d1, d2, d3, d4, d5}
  Content <- Files
  DotImg = {d1, d2, d3, d5}
INVARIANTS AdmissionTypeOK OvercommitBounded SharedOnlyAcrossClients DrivesAreSound MACIsOfUUID
CHECK_DEADLOCK FALSE
