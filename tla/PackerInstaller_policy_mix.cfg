SPECIFICATION Spec
CONSTANTS
  Agents = {a1}
  Concurrent = FALSE
  Policies <- MixedPolicies
  Faults <- ContentFaults
  Binaries = {genuine, other}
  Genuine = genuine
  NoPacker = NoPacker
  Partial = Partial
  Unlisted = Unlisted
  Torn = Torn
  Missing = Missing
INVARIANT
  SignatureDemandCoversHits
