SPECIFICATION Spec
CONSTANTS
  Tasks = {"task"}
  Contents <- MCContents
  Versions <- MCVersions
  First <- MCFirst
  Overrides = TRUE
  MaxCommits = 3
  MaxTags = 3
INVARIANT AgentsRunPublishedCode
CHECK_DEADLOCK FALSE
