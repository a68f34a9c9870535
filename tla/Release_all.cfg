SPECIFICATION Spec
CONSTANTS
  Tasks = {"task"}
  Contents <- MCContents
  Versions <- MCVersions
  First <- MCFirst
  Overrides = TRUE
  MaxCommits = 3
  MaxTags = 3
INVARIANTS
  TypeOK
  NoStaleCode
PROPERTIES
  VersionsNeverGoBack
  OneBumpIsEnough
  ReleaseBecomesMergeable
CHECK_DEADLOCK FALSE
