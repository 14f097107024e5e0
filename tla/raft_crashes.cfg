\* Elections and replication: two terms, two entries, a command, a crash.
CONSTANTS
  Node = {n1, n2, n3}
  Value = {v}
  Noop = Noop
  Nil = Nil
  SnapshotThreshold = 9
  BuildRace = FALSE
  RewriteCrash = FALSE
  MaxTerm = 2
  MaxIndex = 2
  MaxInFlight = 2
  MaxCrashes = 1
SPECIFICATION Spec
SYMMETRY Symmetry
VIEW View
ACTION_CONSTRAINT FirstLeaderProposes
INVARIANT ElectionSafety
INVARIANT LeaderCompleteness
INVARIANT CommittedOnQuorum
INVARIANT StateMachineSafety
PROPERTY VoteOnce
PROPERTY CommittedStable
\* At the bounds on terms, indices and crashes no step is left.
CHECK_DEADLOCK FALSE
