SPECIFICATION StartupFairSpec
CONSTANTS
  d1 = d1  d2 = d2  host = host  ip1 = ip1
  Nil = Nil  Dir = Dir
  Names <- HostNames
  Labels <- TheLabels
  Addresses = {host, ip1}
  HostAddress = host
  Reserved = "corectld"
  NameServer = "corectld.ns.dns"
  Guest = "web"
  GuestAddress = ip1
  Callers = {d1, d2}
  MaxLate = 1
  ListFails = FALSE
INVARIANTS WorkingMeansServed
CHECK_DEADLOCK FALSE
