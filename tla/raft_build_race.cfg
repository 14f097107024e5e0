\* Broadcast tasks that build their request late, room for both leaders' RPCs.
CONSTANTS
  Node = {n1, n2, n3}
  Value = {v}
  Noop = Noop
  Nil = Nil
  SnapshotThreshold = 9
  BuildRace = TRUE
  RewriteCrash = FALSE
  MaxTerm = 2
  MaxIndex = 1
  MaxInFlight = 3
  MaxCrashes = 0
SPECIFICATION Spec
SYMMETRY Symmetry
VIEW View
INVARIANT CommittedOnQuorum
\* At the bounds on terms, indices and crashes no step is left.
CHECK_DEADLOCK FALSE
