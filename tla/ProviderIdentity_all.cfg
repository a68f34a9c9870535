SPECIFICATION Spec
CONSTANTS
  Schemes = {"azureMsi", "azureWif", "azureSp", "awsStatic", "awsWif", "gcp",
             "ociKey", "ociWif", "vsphere"}
  AgentNames <- MCAgentNames
  Templates <- MCTemplates
INVARIANTS
  TypeOK
  ConnectionIdentity
  FallbackIsAnnounced
  InheritanceIsHarmless
  CredentialGoesHome
CHECK_DEADLOCK FALSE
