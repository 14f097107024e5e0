\* Two payloads, segments of up to three records, indices up to four; crashes
\* anywhere, leaving any tail on any file in any writeback order.
CONSTANTS
  Payload = {p, q}
  Corrupt = Corrupt
  Torn = Torn
  MaxSegmentBytes = 3
  MaxIndex = 4
SPECIFICATION Spec
SYMMETRY Symmetry
INVARIANT TypeOK
INVARIANT AckedSurvives
INVARIANT OneStream
INVARIANT NeverRefused
PROPERTY RecoveryKeepsPositions
PROPERTY KeepsPromise
\* A log that refused to open stays closed.
CHECK_DEADLOCK FALSE
