SPECIFICATION FairSpec
CONSTANTS
  c1 = c1  c2 = c2
  Nil = Nil
  Latest = Latest
  Commands = {c1, c2}
  Versions = {1, 2}
  Upstream = 2
  Kinds = {"rm", "force", "offline"}
INVARIANTS ImagesTypeOK MediaIsWhole HalfIsAccounted
PROPERTIES ShelfSpec CommandsEnd
CHECK_DEADLOCK FALSE
