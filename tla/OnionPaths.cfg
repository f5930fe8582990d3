SPECIFICATION Spec
CONSTANTS
  Nodes = {n1, n2, n3, n4, n5}
  Requests = {r1, r2}
  Hops = 2
  DesiredGuards = 2
  MinimumGuards = 1
  MinPool = 1
  PathThreshold = 2
  SnodeThreshold = 2
  BuildTries = 1
  MaxFailures = 4
  PathTries = 2
  MaxTwins = 1
CHECK_DEADLOCK FALSE
SYMMETRY Swaps
INVARIANT TypeOK
INVARIANT PathsAreWhole
INVARIANT PathsAreDisjoint
INVARIANT DroppedNodesLeave
