SPECIFICATION FairSpec
CONSTANTS
  Commands <- AllCommands
  Schemes <- AllSchemes
  DeletionsFail = TRUE
CHECK_DEADLOCK FALSE
INVARIANTS
  TypeOK
  NoCredentialFileLeft
  PackerKeepsItsCredentials
  SuccessIsPackersSuccess
  FailedBuildPublishes
  NoWriteOutside
  ProbeBeforeInjection
  TokenAfterValidation
  TaskInvariant
PROPERTY
  RunEnds
  ImplementsCustody
