\* Three terms, two crashes and a failed persist().
CONSTANTS
  Self = s
  Peer = {p, q}
  Nil = Nil
  MaxTerm = 3
  MaxFailures = 1
  MaxCrashes = 2
SPECIFICATION Spec
INVARIANT TypeOK
INVARIANT VotesDurable
INVARIANT TermsDurable
INVARIANT LeadsOwnTerm
PROPERTY IsBallot
\* At the bound on terms no step is left.
CHECK_DEADLOCK FALSE
