\* Every pair of logs of up to three entries of two earlier terms.
CONSTANTS
  Node = {l, f, d}
  Leader = l
  Lagging = f
  Down = d
  Value = {}
  Noop = Noop
  Nil = Nil
  SnapshotThreshold = 1
  BuildRace = FALSE
  RewriteCrash = FALSE
  MaxTerm = 3
  MaxIndex = 3
  MaxInFlight = 2
  MaxCrashes = 1
SPECIFICATION CatchUpSpec
INVARIANT MatchIsTrue
INVARIANT LogsMatch
PROPERTY CatchesUp
\* With MaxInFlight requests on their way the leader waits; liveness is the question.
CHECK_DEADLOCK FALSE
