SPECIFICATION BusySpec
CONSTANTS
  Agents = {a1}
  Concurrent = FALSE
  Policies <- DefaultPolicies
  Faults <- NoFaults
  Binaries = {genuine, other}
  Genuine = genuine
  NoPacker = NoPacker
  Partial = Partial
  Unlisted = Unlisted
  Torn = Torn
  Missing = Missing
PROPERTY
  TornRecordHeals
