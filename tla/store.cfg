\* Every log of three commands; one crash, one kind of upset.
CONSTANTS
  Handler = {h}
  Driver = Driver
  Key = {k}
  Val = {a}
  Absent = Absent
  SnapshotThreshold = 1
  MaxIndex = 3
  MaxUpsets = 1
  MaxCrashes = 1
SPECIFICATION Spec
INVARIANT TypeOK
INVARIANT StateExact
INVARIANT Recoverable
PROPERTY WaitersWoken
\* At the bounds no step is left.
CHECK_DEADLOCK FALSE
