\* A crash inside the file rewrite of truncate_suffix.
CONSTANTS
  Payload = {p, q}
  Corrupt = Corrupt
  Torn = Torn
  MaxSegmentBytes = 2
  MaxIndex = 4
SPECIFICATION Spec
SYMMETRY Symmetry
INVARIANT AckedAlwaysSurvives
CHECK_DEADLOCK FALSE
