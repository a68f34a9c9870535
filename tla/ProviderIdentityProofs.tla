------------------------ MODULE ProviderIdentityProofs ------------------------
(***************************************************************************)
(* Whose identity packer works under, for every environment of the agent,  *)
(* every set of schemes and whatever templates declare.                    *)
(***************************************************************************)
EXTENDS ProviderIdentity, TLAPS

-----------------------------------------------------------------------------
\* The inductive invariant.

\* The variables a branch leaves set from the connection, and those of the
\* agent's it leaves alone.
AzureSet == [azureMsi |-> {}, azureWif |-> {ArmClient, ArmTenant, ArmJwt},
             azureSp |-> {ArmClient, ArmTenant, ArmSecret}]

IsAzure == scheme \in {"azureMsi", "azureWif", "azureSp"}

\* Nothing is injected before the handler runs, and only Azure's handler has
\* a branch and a probe.
StageFits ==
  /\ pc \in {"passthrough", "provider"} => injected = {} /\ options = {} /\ ~warned
  /\ pc \in {"branch", "probed"} =>
       /\ IsAzure /\ injected \subseteq {ArmSubscription} /\ options = {}
       /\ inherited \cap (ArmWholesaleClear \cup {ArmSubscription}) = {}
  /\ pc = "branch" => ~warned
  /\ pc = "probed" /\ ~warned =>
       \/ scheme = "azureWif" /\ ArmJwt \in declared
       \/ scheme = "azureSp" /\ ArmSecret \in declared
  /\ pc = "probed" => scheme # "azureMsi"
  /\ pc = "optOut" => /\ scheme = "vsphere" /\ insecure
                      /\ VSphereFields \subseteq injected

\* When packer starts as azure's connection,
AzureSettled ==
  IsAzure =>
    /\ inherited \cap Azure = {} /\ options = {}
    /\ AzureSet[scheme] \subseteq injected
    /\ injected \subseteq AzureSet[scheme] \cup {ArmSubscription}
    /\ warned \/ AzureSet[scheme] \cap {ArmJwt, ArmSecret} \subseteq declared

\* as AWS's,
AwsSettled ==
  /\ scheme = "awsStatic" => /\ inherited \cap (AwsFederatedEnv \cup AwsKeys) = {}
                             /\ AwsKeys \subseteq injected
                             /\ injected \subseteq AwsKeys \cup {AwsRegion}
  /\ scheme = "awsWif" => /\ inherited \cap (AwsStaticEnv \cup AwsWebIdentity) = {}
                          /\ AwsWebIdentity \subseteq injected
                          /\ injected \cap AwsStaticEnv = {}

\* as Google's,
GoogleSettled ==
  scheme = "gcp" => inherited \cap Google = {} /\ injected = {GoogleFile}

\* as Oracle's,
OciSettled ==
  /\ scheme = "ociKey" =>
       /\ inherited \cap (Oci \ {OciPassPhrase}) = {}
       /\ injected = OciFields \cup {OciConfig} /\ options = {}
  /\ scheme = "ociWif" =>
       /\ inherited \cap (Oci \ {"PKR_VAR_oci_security_token_file"}) = {}
       /\ injected = {OciConfig, OciAccount} /\ options = {OciConfig}

\* or as vSphere's.
VSphereSettled ==
  scheme = "vsphere" =>
    /\ inherited \cap VSphereFields = {} /\ VSphereFields \subseteq injected
    /\ VSphereInsecure \in inherited \cup injected => insecure /\ private

Settled == /\ AzureSettled /\ AwsSettled /\ GoogleSettled /\ OciSettled
           /\ VSphereSettled

\* Nothing of the agent's competes with what the connection set.
IdentityInvariant == TypeOK /\ StageFits /\ (pc = "packer" => Settled)

-----------------------------------------------------------------------------
\* Types.

\* The variables that the handlers name are variables.
LEMMA FamiliesAreNames ==
  /\ Azure \subseteq Names /\ Aws \subseteq Names /\ Google \subseteq Names
  /\ Oci \subseteq Names /\ VSphereVars \subseteq Names
  BY DEF Names

\* Replacing variables leaves none with two values.
LEMMA ReplaceTypeOK ==
  ASSUME TypeOK, NEW cleared, NEW set \in SUBSET Names, Replace(cleared, set)
  PROVE  inherited' \subseteq Names /\ injected' \subseteq Names \ inherited'
  BY DEF TypeOK, Replace

\* What is replaced belongs to the provider.
LEMMA SetsAreNames ==
  /\ {ArmSubscription, ArmClient, ArmTenant, ArmJwt, ArmSecret} \subseteq Names
  /\ AwsKeys \cup {AwsRegion} \subseteq Names
  /\ AwsWebIdentity \cup {AwsRegion, AwsSessionName} \subseteq Names
  /\ {GoogleFile} \subseteq Names
  /\ OciFields \cup {OciConfig} \subseteq Names
  /\ {OciConfig, OciAccount} \subseteq Names
  /\ VSphereFields \cup {VSphereInsecure} \subseteq Names
  /\ OciConfig \in PackerVars
  BY FamiliesAreNames
     DEF Azure, ArmVars, Aws, AwsFederatedEnv, AwsStaticEnv, Google, Oci, OciVars,
         OciApiKeyEnv, OciWifEnv, VSphereVars, PackerVars

\* Every step keeps the types.
LEMMA NextTypeOK ==
  ASSUME TypeOK, StageFits, [Next]_vars
  PROVE  TypeOK'
<1>1. CASE \E name \in AgentNames \cap (Provider[scheme] \cup {"PATH"}) :
             PassthroughLine(name)
  <2>1. PICK name \in AgentNames : PassthroughLine(name)
    BY <1>1
  <2>2. injected' = {} /\ name \in Names
    BY <2>1, ConfigurationAssumption DEF PassthroughLine, StageFits
  <2> QED
    BY <2>1, <2>2 DEF TypeOK, PassthroughLine, Go, inputs
<1>2. CASE PassthroughDone \/ MissingField \/ AzureProbe
  BY <1>2 DEF TypeOK, PassthroughDone, MissingField, AzureProbe,
              AssertTemplateDeclares, Go, inputs
<1>3. CASE AzureBegin \/ AzureMsi
  BY <1>3, ReplaceTypeOK, SetsAreNames DEF TypeOK, AzureBegin, AzureMsi, Go, inputs
<1>4. CASE AzureWif \/ AzureSp
  BY <1>4, ReplaceTypeOK, SetsAreNames DEF TypeOK, AzureWif, AzureSp, Go, inputs
<1>5. CASE AwsStatic
  <2>1. PICK region \in SUBSET {AwsRegion} :
          Handler("awsStatic", AwsFederatedEnv, AwsKeys \cup region)
    BY <1>5 DEF AwsStatic
  <2>2. AwsKeys \cup region \in SUBSET Names
    BY SetsAreNames
  <2> QED
    BY <2>1, <2>2, ReplaceTypeOK DEF TypeOK, Handler, Go, inputs
<1>6. CASE AwsWif \/ Gcp \/ OciKey
  BY <1>6, ReplaceTypeOK, SetsAreNames
     DEF TypeOK, AwsWif, Gcp, OciKey, Handler, Go, inputs
<1>7. CASE OciWif
  BY <1>7, ReplaceTypeOK, SetsAreNames DEF TypeOK, OciWif, applyProviderVarArgs, Go, inputs
<1>8. CASE VSphereInject \/ VSphereOptOut
  BY <1>8, ReplaceTypeOK, SetsAreNames
     DEF TypeOK, VSphereInject, VSphereOptOut, Go, inputs
<1>9. CASE UNCHANGED vars
  BY <1>9 DEF TypeOK, vars, inputs
<1> QED
  BY <1>1, <1>2, <1>3, <1>4, <1>5, <1>6, <1>7, <1>8, <1>9 DEF Next

-----------------------------------------------------------------------------
\* The handlers, one by one.

\* Azure's subscription and what no branch sets come first.
LEMMA AzureBeginsFit ==
  ASSUME TypeOK, StageFits, AzureBegin
  PROVE  StageFits' /\ pc' # "packer"
<1>1. injected' \subseteq {ArmSubscription}
  BY DEF AzureBegin, StageFits, Replace
<1>2. inherited' \cap (ArmWholesaleClear \cup {ArmSubscription}) = {}
  BY DEF AzureBegin, Replace
<1>3. pc' = "branch" /\ options' = {} /\ ~warned' /\ IsAzure'
  BY DEF AzureBegin, Go, StageFits, IsAzure, inputs
<1> QED
  BY <1>1, <1>2, <1>3 DEF StageFits

\* A branch settles what is left of Azure's variables.
LEMMA AzureSettles ==
  ASSUME TypeOK, StageFits, AzureMsi \/ AzureWif \/ AzureSp, pc' = "packer"
  PROVE  Settled'
<1> USE DEF Azure, ArmVars, ArmWholesaleClear, AzureSet, ArmSecret, ArmJwt,
            ArmCertPath, ArmTenant, ArmClient, ArmOidcUrl, ArmOidcToken, ArmCli,
            ArmInteractive, ArmSubscription, ArmMetadata
<1>1. /\ injected \subseteq {ArmSubscription} /\ options' = {}
      /\ inherited \cap (ArmWholesaleClear \cup {ArmSubscription}) = {}
  BY DEF AzureMsi, AzureWif, AzureSp, StageFits
<1>2. UNCHANGED <<scheme, declared, warned>>
  BY DEF AzureMsi, AzureWif, AzureSp, Go, inputs
<1>3. CASE AzureMsi
  BY <1>1, <1>2, <1>3 DEF AzureMsi, Replace, AzureSettled, IsAzure, Settled,
     AwsSettled, GoogleSettled, OciSettled, VSphereSettled
<1>4. CASE AzureWif
  <2>1. warned \/ ArmJwt \in declared
    BY <1>4 DEF AzureWif, StageFits
  <2>2. Replace({ArmSecret, ArmCertPath}, {ArmClient, ArmTenant, ArmJwt})
        /\ scheme = "azureWif"
    BY <1>4 DEF AzureWif, Go
  <2> QED
    BY <1>1, <1>2, <2>1, <2>2 DEF Replace, AzureSettled, IsAzure, Settled,
       AwsSettled, GoogleSettled, OciSettled, VSphereSettled
<1>5. CASE AzureSp
  <2>1. warned \/ ArmSecret \in declared
    BY <1>5 DEF AzureSp, StageFits
  <2> QED
    BY <1>1, <1>2, <1>5, <2>1 DEF AzureSp, Replace, AzureSettled, IsAzure,
       Settled, AwsSettled, GoogleSettled, OciSettled, VSphereSettled
<1> QED
  BY <1>3, <1>4, <1>5

\* The handlers of AWS, Google and Oracle settle theirs in one go.
LEMMA HandlersSettle ==
  ASSUME TypeOK, StageFits, AwsStatic \/ AwsWif \/ Gcp \/ OciKey \/ OciWif
  PROVE  Settled'
<1> USE DEF Settled, AzureSettled, IsAzure, AwsSettled, GoogleSettled, OciSettled,
            VSphereSettled, Handler, Replace, Go, inputs
<1>1. pc = "provider" /\ injected = {} /\ options = {}
  BY DEF AwsStatic, AwsWif, Gcp, OciKey, OciWif, applyProviderVarArgs,
       StageFits
<1>2. CASE AwsStatic
  BY <1>1, <1>2 DEF AwsStatic
<1>3. CASE AwsWif
  BY <1>1, <1>3 DEF AwsWif, AwsStaticEnv, AwsKeys, AwsSession, AwsProfile,
                    AwsWebIdentity, AwsRegion, AwsSessionName
<1>4. CASE Gcp
  BY <1>1, <1>4 DEF Gcp, Google
<1>5. CASE OciKey
  BY <1>1, <1>5 DEF OciKey, Oci, OciVars, OciApiKeyEnv
<1>6. CASE OciWif
  BY <1>1, <1>6 DEF OciWif, applyProviderVarArgs, Oci, OciVars, OciWifEnv
<1> QED
  BY <1>2, <1>3, <1>4, <1>5, <1>6

\* vSphere's settles, waiting for the address if TLS is to go unverified.
LEMMA VSphereSettles ==
  ASSUME TypeOK, StageFits, VSphereInject \/ VSphereOptOut
  PROVE  StageFits' /\ (pc' = "packer" => Settled')
<1> USE DEF Settled, AzureSettled, IsAzure, AwsSettled, GoogleSettled, OciSettled,
            VSphereSettled, Replace, Go, inputs, StageFits
<1>1. VSphereInsecure \notin VSphereFields
  BY DEF VSphereFields, VSphereInsecure
<1>2. CASE VSphereInject
  <2>1. injected = {} /\ scheme = "vsphere" /\ UNCHANGED <<scheme, insecure>>
    BY <1>2 DEF VSphereInject
  <2>2. injected' = VSphereFields /\ inherited' \cap VSphereFields = {}
    BY <1>2, <2>1 DEF VSphereInject
  <2>3. ~insecure => VSphereInsecure \notin inherited'
    BY <1>2 DEF VSphereInject
  <2> QED
    BY <1>1, <1>2, <2>1, <2>2, <2>3 DEF VSphereInject
<1>3. CASE VSphereOptOut
  <2>1. VSphereFields \subseteq injected /\ insecure /\ scheme = "vsphere"
    BY <1>3 DEF VSphereOptOut
  <2>2. inherited \cap VSphereFields = {}
    BY <2>1 DEF TypeOK
  <2> QED
    BY <1>3, <2>1, <2>2 DEF VSphereOptOut
<1> QED
  BY <1>2, <1>3

\* Every step keeps the invariant.
LEMMA NextKeepsIdentity ==
  ASSUME IdentityInvariant, [Next]_vars
  PROVE  IdentityInvariant'
<1>1. TypeOK /\ TypeOK' /\ StageFits
  BY NextTypeOK DEF IdentityInvariant
<1>2. CASE \E name \in AgentNames \cap (Provider[scheme] \cup {"PATH"}) :
             PassthroughLine(name)
  BY <1>1, <1>2 DEF PassthroughLine, Go, StageFits, IdentityInvariant
<1>3. CASE PassthroughDone \/ MissingField
  BY <1>1, <1>3 DEF PassthroughDone, MissingField, Go, StageFits, IdentityInvariant
<1>4. CASE AzureProbe
  BY <1>1, <1>4 DEF AzureProbe, AssertTemplateDeclares, Go, inputs, IsAzure,
                    StageFits, IdentityInvariant
<1>5. CASE AzureBegin
  BY <1>1, <1>5, AzureBeginsFit DEF IdentityInvariant
<1>6. CASE AzureMsi \/ AzureWif \/ AzureSp
  <2>1. pc' \in {"packer", "rejected"}
    BY <1>6 DEF AzureMsi, AzureWif, AzureSp, Go
  <2> QED
    BY <1>1, <1>6, <2>1, AzureSettles DEF IdentityInvariant, StageFits
<1>7. CASE AwsStatic \/ AwsWif \/ Gcp \/ OciKey \/ OciWif
  <2>1. pc' = "packer"
    BY <1>7 DEF AwsStatic, AwsWif, Gcp, OciKey, OciWif, applyProviderVarArgs, Handler, Go
  <2> QED
    BY <1>1, <1>7, <2>1, HandlersSettle DEF IdentityInvariant, StageFits
<1>8. CASE VSphereInject \/ VSphereOptOut
  BY <1>1, <1>8, VSphereSettles DEF IdentityInvariant
<1>9. CASE UNCHANGED vars
  BY <1>1, <1>9 DEF vars, inputs, IdentityInvariant, StageFits, IsAzure, Settled,
     AzureSettled, AwsSettled, GoogleSettled, OciSettled, VSphereSettled
<1> QED
  BY <1>2, <1>3, <1>4, <1>5, <1>6, <1>7, <1>8, <1>9 DEF Next

\* Whatever the agent has in its environment, nothing of it competes with
\* what the connection set by the time packer starts.
THEOREM IdentityIsSettled == Spec => []IdentityInvariant
<1>1. Init => IdentityInvariant
  <2> SUFFICES ASSUME Init PROVE IdentityInvariant
    OBVIOUS
  <2>1. AgentNames \subseteq Names
    BY ConfigurationAssumption
  <2>2. TypeOK
    BY <2>1 DEF Init, TypeOK
  <2> QED
    BY <2>2 DEF Init, StageFits, IdentityInvariant
<1> QED
  BY <1>1, NextKeepsIdentity, PTL DEF Spec

\* No variable ever has two values.
THEOREM TypeCorrect == Spec => []TypeOK
<1>1. IdentityInvariant => TypeOK
  BY DEF IdentityInvariant
<1> QED
  BY <1>1, IdentityIsSettled, PTL

-----------------------------------------------------------------------------
\* What packer makes of a settled environment.

\* Azure's handler leaves the connection, or the virtual machine where the
\* connection says so or the template went unread, or nothing that works.
LEMMA AzureResolves ==
  ASSUME TypeOK, AzureSettled, IsAzure
  PROVE  /\ scheme = "azureMsi" => AzureIdentity = "machine"
         /\ ~warned /\ scheme # "azureMsi" => AzureIdentity \in {"connection", "refused"}
         /\ declared = PackerVars => AzureIdentity = Intended
<1> DEFINE credentials == {ArmSecret, ArmJwt, ArmCertPath, ArmTenant, ArmOidcUrl,
                           ArmOidcToken, ArmCli, ArmInteractive}
           works == AllOurs({ArmClient, ArmTenant}) /\ (Ours(ArmSecret) \/ Ours(ArmJwt))
<1>1. ~SomeTheirs(ArmVars) /\ ~SomeTheirs({ArmSubscription, ArmClient})
  BY DEF SomeTheirs, Theirs, AzureSettled, Azure, ArmVars
<1>2. AzureIdentity = IF ~SomeSet(credentials) THEN "machine"
                      ELSE IF works THEN "connection" ELSE "refused"
  <2>1. works => SomeSet(credentials)
    BY DEF SomeSet, IsSet
  <2>2. CASE SomeSet(credentials)
    BY <1>1, <2>2 DEF AzureIdentity
  <2>3. CASE ~SomeSet(credentials)
    BY <1>1, <2>1, <2>3 DEF AzureIdentity
  <2> QED
    BY <2>2, <2>3
<1> USE DEF Azure, ArmVars, AzureSet, ArmSecret, ArmJwt, ArmCertPath, ArmTenant,
            ArmClient, ArmOidcUrl, ArmOidcToken, ArmCli, ArmInteractive,
            ArmSubscription
<1>3. CASE scheme = "azureMsi"
  <2>1. ~SomeSet(credentials)
    BY <1>3 DEF AzureSettled, IsAzure, SomeSet, IsSet, Ours, Theirs
  <2> QED
    BY <1>2, <1>3, <2>1 DEF Intended
<1>4. CASE scheme # "azureMsi"
  <2>1. AzureSet[scheme] \subseteq injected
        /\ (scheme = "azureWif" \/ scheme = "azureSp")
    BY <1>4 DEF AzureSettled, IsAzure
  <2>2. ~warned => SomeSet(credentials)
    BY <2>1 DEF AzureSettled, SomeSet, IsSet, Ours, Visible
  <2>3. declared = PackerVars => SomeSet(credentials) /\ works
    BY <2>1 DEF SomeSet, IsSet, AllOurs, Ours, Visible
  <2> QED
    BY <1>2, <1>4, <2>2, <2>3 DEF Intended
<1> QED
  BY <1>3, <1>4

\* AWS's leaves the connection.
LEMMA AwsResolves ==
  ASSUME TypeOK, AwsSettled, scheme = "awsStatic" \/ scheme = "awsWif"
  PROVE  AwsIdentity = "connection"
<1> USE DEF AwsStaticEnv, AwsFederatedEnv, AwsKeys, AwsProfile, AwsSession,
            AwsWebIdentity, AwsRegion
<1>1. \A name \in AwsStaticEnv \cup AwsFederatedEnv : Visible(name)
  BY DEF Visible, PackerVars, ArmVars, OciVars, VSphereVars, ArmSecret, ArmJwt,
     ArmCertPath, ArmTenant, ArmClient, ArmOidcUrl, ArmOidcToken, ArmCli,
     ArmInteractive, ArmSubscription, OciApiKeyEnv, OciFields, OciPassPhrase,
     OciWifEnv, OciAccount, OciConfig, OciInstance, VSphereFields, VSphereInsecure
<1>2. CASE scheme = "awsStatic"
  <2>1. AllSet(AwsKeys) /\ ~SomeTheirs(AwsKeys) /\ ~IsSet(AwsSession)
    BY <1>1, <1>2 DEF AwsSettled, AllSet, SomeTheirs, IsSet, Ours, Theirs
  <2> QED
    BY <2>1 DEF AwsIdentity
<1>3. CASE scheme = "awsWif"
  <2>1. ~AllSet(AwsKeys) /\ ~SomeSet(AwsProfile)
    BY <1>3 DEF AwsSettled, AllSet, SomeSet, IsSet, Ours, Theirs
  <2>2. AllSet(AwsWebIdentity) /\ ~SomeTheirs(AwsWebIdentity)
    BY <1>1, <1>3 DEF AwsSettled, AllSet, SomeTheirs, IsSet, Ours, Theirs
  <2> QED
    BY <2>1, <2>2 DEF AwsIdentity
<1> QED
  BY <1>2, <1>3

\* So does Google's.
LEMMA GoogleResolves ==
  ASSUME TypeOK, GoogleSettled, scheme = "gcp"
  PROVE  GoogleIdentity = "connection"
<1>1. Visible(GoogleFile) /\ GoogleFile \notin GoogleCompeting
  BY DEF GoogleFile, GoogleCompeting, Visible, PackerVars, ArmVars, OciVars,
     VSphereVars, ArmSecret, ArmJwt, ArmCertPath, ArmTenant, ArmClient, ArmOidcUrl,
     ArmOidcToken, ArmCli, ArmInteractive, ArmSubscription, OciApiKeyEnv, OciFields,
     OciPassPhrase, OciWifEnv, OciAccount, OciConfig, OciInstance, VSphereFields,
     VSphereInsecure
<1>2. ~SomeSet(GoogleCompeting) /\ ~Theirs(GoogleFile) /\ Ours(GoogleFile)
  BY <1>1 DEF GoogleSettled, Google, SomeSet, IsSet, Ours, Theirs
<1> QED
  BY <1>2 DEF GoogleIdentity

\* Oracle's leaves it or nothing that works, unless an API key template
\* declares too little.
LEMMA OciResolves ==
  ASSUME TypeOK, OciSettled, scheme = "ociKey" \/ scheme = "ociWif"
  PROVE  /\ \/ OciIdentity \in {"connection", "refused"}
            \/ scheme = "ociKey" /\ ~(OciFields \subseteq declared)
                 /\ OciConfig \notin declared
         /\ OciIdentity # "machine"
         /\ declared = PackerVars => OciIdentity = "connection"
<1> USE DEF Oci, OciVars, OciApiKeyEnv, OciFields, OciPassPhrase, OciWifEnv,
            OciAccount, OciConfig, OciInstance
<1>1. ~IsSet(OciInstance) /\ ~SomeTheirs(OciFields \cup {OciConfig})
  BY DEF OciSettled, IsSet, SomeTheirs, Ours, Theirs
<1>2. CASE scheme = "ociKey"
  <2>1. options = {} /\ OciFields \cup {OciConfig} \subseteq injected
    BY <1>2 DEF OciSettled
  <2>2. OciIdentity = IF AllOurs(OciFields) THEN "connection"
                      ELSE IF ~Ours(OciConfig) THEN "other" ELSE "refused"
    BY <1>1, <2>1 DEF OciIdentity
  <2>3. OciFields \subseteq declared => AllOurs(OciFields)
    BY <2>1 DEF AllOurs, Ours, Visible
  <2>4. OciConfig \in declared => Ours(OciConfig)
    BY <2>1 DEF Ours, Visible
  <2>5. declared = PackerVars => OciFields \subseteq declared
    BY DEF PackerVars
  <2> QED
    BY <1>2, <2>2, <2>3, <2>4, <2>5
<1>3. CASE scheme = "ociWif"
  <2>1. options = {OciConfig} /\ OciConfig \in injected
    BY <1>3 DEF OciSettled
  <2>2. ~AllOurs(OciFields)
    BY <1>3 DEF OciSettled, AllOurs, Ours
  <2>3. ~SomeSet({OciPassPhrase}) /\ ~Theirs(OciAccount)
    BY <1>3 DEF OciSettled, SomeSet, IsSet, Ours, Theirs
  <2>4. OciConfig \in declared => Ours(OciConfig)
    BY <2>1 DEF Ours, Visible
  <2>5. OciIdentity = IF OciConfig \in declared THEN "connection" ELSE "refused"
    BY <1>1, <2>1, <2>2, <2>3, <2>4 DEF OciIdentity
  <2>6. OciConfig \in PackerVars
    BY DEF PackerVars
  <2> QED
    BY <2>5, <2>6
<1> QED
  BY <1>2, <1>3

\* vSphere's leaves it, or nothing that works.
LEMMA VSphereResolves ==
  ASSUME TypeOK, VSphereSettled, scheme = "vsphere"
  PROVE  /\ VSphereIdentity \in {"connection", "refused"}
         /\ declared = PackerVars => VSphereIdentity = "connection"
<1>1. ~SomeTheirs(VSphereFields)
  BY DEF VSphereSettled, SomeTheirs, Theirs
<1>2. declared = PackerVars => AllOurs(VSphereFields)
  BY DEF VSphereSettled, AllOurs, Ours, Visible, PackerVars
<1> QED
  BY <1>1, <1>2 DEF VSphereIdentity

\* A scheme is one of a provider's.
LEMMA SchemesOfProviders ==
  ASSUME TypeOK
  PROVE  \/ IsAzure /\ Identity = AzureIdentity
         \/ (scheme = "awsStatic" \/ scheme = "awsWif") /\ Identity = AwsIdentity
         \/ scheme = "gcp" /\ Identity = GoogleIdentity
         \/ (scheme = "ociKey" \/ scheme = "ociWif") /\ Identity = OciIdentity
         \/ scheme = "vsphere" /\ Identity = VSphereIdentity
<1>1. scheme \in {"azureMsi", "azureWif", "azureSp", "awsStatic", "awsWif", "gcp",
                  "ociKey", "ociWif", "vsphere"}
  BY ConfigurationAssumption DEF TypeOK, Provider
<1> QED
  BY <1>1 DEF Identity, IsAzure

-----------------------------------------------------------------------------
\* The properties.

\* Packer works as the service connection or not at all, for every inherited
\* environment and every template (#187, #332).
THEOREM ConnectionIdentityHolds == Spec => []ConnectionIdentity
<1>1. IdentityInvariant => ConnectionIdentity
  <2> SUFFICES ASSUME IdentityInvariant, pc = "packer"
               PROVE  \/ Identity \in {Intended, "refused"}
                      \/ warned /\ scheme \in {"azureWif", "azureSp"}
                      \/ scheme = "ociKey" /\ ~(OciFields \subseteq declared)
                           /\ OciConfig \notin declared
    BY DEF ConnectionIdentity
  <2>1. TypeOK /\ Settled
    BY DEF IdentityInvariant
  <2>2. CASE IsAzure /\ Identity = AzureIdentity
    BY <2>1, <2>2, AzureResolves DEF Settled, IsAzure, Intended
  <2>3. CASE ~(IsAzure /\ Identity = AzureIdentity)
    BY <2>1, <2>3, SchemesOfProviders, AwsResolves, GoogleResolves, OciResolves,
       VSphereResolves DEF Settled, Intended
  <2> QED
    BY <2>2, <2>3
<1> QED
  BY <1>1, IdentityIsSettled, PTL

\* The machine's own identity never stands in unannounced (#332).
THEOREM FallbackIsAnnouncedHolds == Spec => []FallbackIsAnnounced
<1>1. IdentityInvariant => FallbackIsAnnounced
  <2> SUFFICES ASSUME IdentityInvariant, pc = "packer", scheme # "azureMsi",
                      ~warned
               PROVE  Identity # "machine"
    BY DEF FallbackIsAnnounced
  <2>1. TypeOK /\ Settled
    BY DEF IdentityInvariant
  <2>2. CASE IsAzure /\ Identity = AzureIdentity
    BY <2>1, <2>2, AzureResolves DEF Settled
  <2>3. CASE ~(IsAzure /\ Identity = AzureIdentity)
    BY <2>1, <2>3, SchemesOfProviders, AwsResolves, GoogleResolves, OciResolves,
       VSphereResolves DEF Settled
  <2> QED
    BY <2>2, <2>3
<1> QED
  BY <1>1, IdentityIsSettled, PTL

\* What the agent has in its environment never breaks a run whose template
\* declares what it uses (#391).
THEOREM InheritanceIsHarmlessHolds == Spec => []InheritanceIsHarmless
<1>1. IdentityInvariant => InheritanceIsHarmless
  <2> SUFFICES ASSUME IdentityInvariant, pc = "packer", declared = PackerVars
               PROVE  Identity = Intended
    BY DEF InheritanceIsHarmless
  <2>1. TypeOK /\ Settled
    BY DEF IdentityInvariant
  <2>2. CASE IsAzure /\ Identity = AzureIdentity
    BY <2>1, <2>2, AzureResolves DEF Settled
  <2>3. CASE ~(IsAzure /\ Identity = AzureIdentity)
    BY <2>1, <2>3, SchemesOfProviders, AwsResolves, GoogleResolves, OciResolves,
       VSphereResolves DEF Settled, Intended
  <2> QED
    BY <2>2, <2>3
<1> QED
  BY <1>1, IdentityIsSettled, PTL

\* No inherited endpoint or opt-out takes the credential elsewhere (#333).
THEOREM CredentialGoesHomeHolds == Spec => []CredentialGoesHome
<1>1. IdentityInvariant => CredentialGoesHome
  <2> SUFFICES ASSUME IdentityInvariant, pc = "packer"
               PROVE  CredentialGoesHome
    BY DEF CredentialGoesHome
  <2>1. IsAzure => ~IsSet(ArmMetadata)
    BY DEF IdentityInvariant, Settled, AzureSettled, IsAzure, AzureSet, Azure, IsSet,
       Ours, Theirs, ArmMetadata, ArmClient, ArmTenant, ArmJwt, ArmSecret,
       ArmSubscription
  <2>2. scheme = "vsphere" /\ IsSet(VSphereInsecure) => insecure /\ private
    BY DEF IdentityInvariant, Settled, VSphereSettled, IsSet, Ours, Theirs
  <2> QED
    BY <2>1, <2>2 DEF CredentialGoesHome, IsAzure
<1> QED
  BY <1>1, IdentityIsSettled, PTL

=============================================================================
