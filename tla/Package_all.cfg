SPECIFICATION Spec
CONSTANTS
  Paths <- MCPaths
  DropNames <- MCDropNames
  NeverNames <- MCNeverNames
  ShipNames <- MCShipNames
  Trees <- MCTrees
  Manifests <- MCManifests
  Untracked <- MCUntracked
  Overrides <- MCOverrides
  MinTasks = 2
INVARIANTS
  TypeOK
  NothingUnvettedShips
  VsixKeepsItsPromises
  RefusalIsExplained
  NoAccidentalListing
