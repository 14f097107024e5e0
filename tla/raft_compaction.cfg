\* Two nodes that compact their logs, with broadcasts that build late and a crash
\* that may fall inside the rewrite of a segment.
CONSTANTS
  Node = {n1, n2}
  Value = {v}
  Noop = Noop
  Nil = Nil
  SnapshotThreshold = 1
  BuildRace = TRUE
  RewriteCrash = TRUE
  MaxTerm = 2
  MaxIndex = 3
  MaxInFlight = 2
  MaxCrashes = 1
SPECIFICATION Spec
SYMMETRY Symmetry
VIEW ViewWithVotes
ACTION_CONSTRAINT FirstLeaderProposes
INVARIANT TypeOK
INVARIANT VotesBind
INVARIANT AppliedInBounds
\* At the bounds on terms, indices and crashes no step is left.
CHECK_DEADLOCK FALSE
