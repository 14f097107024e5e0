\* A write whose index a later leader takes over.
CONSTANTS
  Node = {n1, n2, n3}
  Noop = Noop
  Nil = Nil
  MaxTerm = 2
  MaxIndex = 2
  MaxInFlight = 2
  Write = {w}
  MaxWrites = 1
  MaxReads = 1
SPECIFICATION KvSpec
SYMMETRY Symmetry
VIEW View
ACTION_CONSTRAINT OneExchange
ACTION_CONSTRAINT GetAfterPut
INVARIANT AcksKept
\* At the bounds no step is left.
CHECK_DEADLOCK FALSE
