SPECIFICATION Spec
CONSTANTS
  Agents = {a1, a2}
  Concurrent = TRUE
  Policies <- MirrorPolicies
  Faults <- SourceFaults
  Binaries = {genuine, other}
  Genuine = genuine
  NoPacker = NoPacker
  Partial = Partial
  Unlisted = Unlisted
  Torn = Torn
  Missing = Missing
INVARIANT
  StrictRunRecordsVouched
