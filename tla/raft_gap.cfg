\* A leader that compacts past a follower: one term, three entries.
CONSTANTS
  Node = {n1, n2, n3}
  Value = {v}
  Noop = Noop
  Nil = Nil
  SnapshotThreshold = 1
  BuildRace = FALSE
  RewriteCrash = FALSE
  MaxTerm = 1
  MaxIndex = 3
  MaxInFlight = 2
  MaxCrashes = 0
SPECIFICATION Spec
SYMMETRY Symmetry
VIEW View
INVARIANT LogContiguous
\* At the bounds on terms, indices and crashes no step is left.
CHECK_DEADLOCK FALSE
