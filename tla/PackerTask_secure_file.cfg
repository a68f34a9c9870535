SPECIFICATION Spec
CONSTANTS
  Commands <- BuildOnly
  Schemes <- OnlyAwsWif
  DeletionsFail = FALSE
CHECK_DEADLOCK FALSE
INVARIANT
  NoSecureFileLeft
