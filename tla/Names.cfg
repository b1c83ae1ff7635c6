SPECIFICATION FairSpec
CONSTANTS
  v1 = v1  v2 = v2  v3 = v3  h1 = h1  h2 = h2
  u1 = u1  u2 = u2  u3 = u3
  host = host  ip1 = ip1  ip2 = ip2
  Nil = Nil  Dir = Dir
  Names <- HostNames
  Labels <- TheLabels
  Addresses = {host, ip1, ip2}
  HostAddress = host
  Reserved = "corectld"
  NameServer = "corectld.ns.dns"
  VMs = {v1, v2, v3}
  Handlers = {h1}
  Callers = {v1, v2, v3, h1}
  UUIDs = {u1, u2, u3}
  NameOf <- TheNames
  UUIDOf <- TheUUIDs
  Offers <- TheOffers
  MaxLate = 1
INVARIANTS TypeOK HostLostToAliasOnly StaleOnlyIfOvertaken
PROPERTIES NameOutlivesOthers EtcdCannotBlock
CHECK_DEADLOCK FALSE
