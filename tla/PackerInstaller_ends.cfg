SPECIFICATION FairSpec
CONSTANTS
  Agents = {a1, a2}
  Concurrent = TRUE
  Policies <- MirrorPolicies
  Faults <- LocalFaults
  Binaries = {genuine}
  Genuine = genuine
  NoPacker = NoPacker
  Partial = Partial
  Unlisted = Unlisted
  Torn = Torn
  Missing = Missing
PROPERTY
  RunEnds
