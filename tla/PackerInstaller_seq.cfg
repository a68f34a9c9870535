SPECIFICATION Spec
CONSTANTS
  Agents = {a1}
  Concurrent = FALSE
  Policies <- AllPolicies
  Faults <- AllFaults
  Binaries = {genuine, other}
  Genuine = genuine
  NoPacker = NoPacker
  Partial = Partial
  Unlisted = Unlisted
  Torn = Torn
  Missing = Missing
INVARIANTS
  TypeOK
  RecordIsVouched
  StrictRunIsVouched
  OnlineRunIsVouched
  SilentInstallIsSigned
  MirrorNeedsBothTogglesOff
  ForcedRunChecksOnline
  TrustInvariant
PROPERTIES
  NoFalseAlarm
  ContradictedRunNeverDegrades
  HitKeepsEntry
  ImplementsStore
