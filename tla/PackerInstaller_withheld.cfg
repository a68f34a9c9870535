SPECIFICATION Spec
CONSTANTS
  Agents = {a1}
  Concurrent = FALSE
  Policies <- DefaultPolicies
  Faults <- WithheldFaults
  Binaries = {genuine}
  Genuine = genuine
  NoPacker = NoPacker
  Partial = Partial
  Unlisted = Unlisted
  Torn = Torn
  Missing = Missing
INVARIANT
  WithholdingFailsClosed
