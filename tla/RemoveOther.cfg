SPECIFICATION Spec
CONSTANTS
  c1 = c1  c2 = c2
  Nil = Nil
  Latest = Latest
  Commands = {c1, c2}
  Versions = {1, 2}
  Upstream = 2
  Kinds = {"rm", "pull"}
INVARIANTS RemovesTheNamed
CHECK_DEADLOCK FALSE
