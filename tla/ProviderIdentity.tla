--------------------------- MODULE ProviderIdentity ---------------------------
(***************************************************************************)
(* PipelinePacker@1: whose identity packer works under.                    *)
(*                                                                         *)
(* The agent's environment is inherited, the environmentVariables input    *)
(* adds to it, and the provider handler deletes what competes with its     *)
(* service connection and sets what the connection says.  What counts is   *)
(* what packer's plugin then makes of the environment: each plugin has an  *)
(* order of its own in which one variable outranks another, and packer     *)
(* silently drops a PKR_VAR_ that the template does not declare.           *)
(*                                                                         *)
(* A variable is its name; its value is known by who set it.               *)
(***************************************************************************)


CONSTANTS
  Schemes,       \* the authentication schemes the run may be configured with
  AgentNames,    \* the variables the agent may have set
  Templates      \* the sets of variables the template may declare

-----------------------------------------------------------------------------
\* The variables of each provider that choose an identity.

ArmSecret == "PKR_VAR_arm_client_secret"
ArmJwt == "PKR_VAR_arm_client_jwt"
ArmCertPath == "PKR_VAR_arm_client_cert_path"
ArmTenant == "PKR_VAR_arm_tenant_id"
ArmClient == "PKR_VAR_arm_client_id"
ArmOidcUrl == "PKR_VAR_arm_oidc_request_url"
ArmOidcToken == "PKR_VAR_arm_oidc_request_token"
ArmCli == "PKR_VAR_arm_use_azure_cli_auth"
ArmInteractive == "PKR_VAR_arm_use_interactive_auth"
ArmSubscription == "PKR_VAR_arm_subscription_id"
ArmMetadata == "ARM_METADATA_URL"

\* Faulty variant: the endpoint of Azure's logins is no credential.
ArmClearWithoutMetadata ==
  {ArmClient, ArmOidcUrl, ArmOidcToken, ArmCli, ArmInteractive}

ArmWholesaleClear ==
  {ArmClient, ArmOidcUrl, ArmOidcToken, ArmCli, ArmInteractive, ArmMetadata}
ArmVars == {ArmSecret, ArmJwt, ArmCertPath, ArmTenant, ArmClient, ArmOidcUrl,
            ArmOidcToken, ArmCli, ArmInteractive, ArmSubscription}
Azure == ArmVars \cup {ArmMetadata}

AwsKeys == {"AWS_ACCESS_KEY_ID", "AWS_SECRET_ACCESS_KEY"}
AwsProfile == {"AWS_PROFILE", "AWS_SHARED_CREDENTIALS_FILE"}
AwsSession == "AWS_SESSION_TOKEN"
AwsWebIdentity == {"AWS_WEB_IDENTITY_TOKEN_FILE", "AWS_ROLE_ARN"}
AwsStaticEnv == AwsKeys \cup {AwsSession} \cup AwsProfile
AwsFederatedEnv == AwsWebIdentity \cup {AwsSession} \cup AwsProfile
AwsRegion == "AWS_REGION"
AwsSessionName == "AWS_ROLE_SESSION_NAME"
Aws == AwsStaticEnv \cup AwsFederatedEnv \cup {AwsRegion, AwsSessionName}

GoogleFile == "GOOGLE_APPLICATION_CREDENTIALS"
GoogleCompeting ==
  {"GOOGLE_CREDENTIALS", "GOOGLE_OAUTH_ACCESS_TOKEN", "GOOGLE_GHA_CREDS_PATH",
   "CLOUDSDK_AUTH_ACCESS_TOKEN", "CLOUDSDK_AUTH_CREDENTIAL_FILE_OVERRIDE"}
Google == GoogleCompeting \cup {GoogleFile}

OciCli == "OCI_CLI_*"                    \* all eight of them
OciFields == {"PKR_VAR_oci_tenancy_ocid", "PKR_VAR_oci_user_ocid",
              "PKR_VAR_oci_region", "PKR_VAR_oci_fingerprint",
              "PKR_VAR_oci_key_file"}
OciPassPhrase == "PKR_VAR_oci_pass_phrase"
OciApiKeyEnv == OciFields \cup {OciPassPhrase}
OciAccount == "PKR_VAR_oci_access_cfg_file_account"
OciWifEnv == {OciAccount, "PKR_VAR_oci_security_token_file"}
OciConfig == "PKR_VAR_oci_access_cfg_file"
OciInstance == "PKR_VAR_oci_use_instance_principals"
OciVars == OciApiKeyEnv \cup OciWifEnv \cup {OciConfig, OciInstance}
Oci == OciVars \cup {OciCli}

VSphereFields == {"PKR_VAR_vsphere_server", "PKR_VAR_vsphere_user",
                  "PKR_VAR_vsphere_password"}
VSphereInsecure == "PKR_VAR_vsphere_insecure_connection"
VSphereVars == VSphereFields \cup {VSphereInsecure}

PackerVars == ArmVars \cup OciVars \cup VSphereVars
Names == Azure \cup Aws \cup Google \cup Oci \cup VSphereVars \cup {"PATH"}

\* The names that the environmentVariables input may not set.  AWS_REGION and
\* use_interactive_auth are only warned about.
IdentitySelecting == Names \ {AwsRegion, ArmInteractive}

Provider ==
  [azureMsi |-> Azure, azureWif |-> Azure, azureSp |-> Azure,
   awsStatic |-> Aws, awsWif |-> Aws, gcp |-> Google,
   ociKey |-> Oci, ociWif |-> Oci, vsphere |-> VSphereVars]

ASSUME ConfigurationAssumption ==
  /\ Schemes \subseteq DOMAIN Provider
  /\ AgentNames \subseteq Names
  /\ Templates \subseteq SUBSET PackerVars

-----------------------------------------------------------------------------
VARIABLES
  scheme,     \* the scheme of the service connection and the inputs
  insecure,   \* input vsphereInsecureConnection
  private,    \* the vCenter host is, or resolves to, private addresses only
  declared,   \* the variables the template declares
  pc,         \* where execute() is
  inherited,  \* variables set by the agent or the environmentVariables input
  injected,   \* variables set from the service connection
  options,    \* variables given as -var on packer's command line
  warned      \* the run warned that it could not read the template

inputs == <<scheme, insecure, private, declared>>
vars == <<inputs, pc, inherited, injected, options, warned>>

\* No variable has two values.
TypeOK ==
  /\ scheme \in Schemes /\ insecure \in BOOLEAN /\ private \in BOOLEAN
  /\ declared \in Templates
  /\ pc \in {"passthrough", "provider", "branch", "probed", "optOut", "packer",
             "rejected"}
  /\ inherited \subseteq Names
  /\ injected \subseteq Names \ inherited
  /\ options \subseteq PackerVars
  /\ warned \in BOOLEAN

\* A plugin does not read the variables of another provider.
Init ==
  /\ scheme \in Schemes
  /\ insecure \in (IF scheme = "vsphere" THEN BOOLEAN ELSE {FALSE})
  /\ private \in (IF scheme = "vsphere" THEN BOOLEAN ELSE {FALSE})
  /\ declared \in Templates
  /\ pc = "passthrough"
  /\ inherited \in SUBSET (AgentNames \cap Provider[scheme])
  /\ injected = {} /\ options = {} /\ warned = FALSE

-----------------------------------------------------------------------------
\* Faulty variant: an inherited value is not overwritten.
ReplaceUnlessSet(cleared, set) ==
  /\ inherited' = inherited \ cleared
  /\ injected' = (injected \ cleared) \cup set

\* Delete the variables in cleared, then set those in set.
Replace(cleared, set) ==
  /\ inherited' = inherited \ (cleared \cup set)
  /\ injected' = (injected \ cleared) \cup set

Go(label) == pc' = label /\ UNCHANGED inputs

\* A line of the environmentVariables input.  A malformed one is ignored.
PassthroughLine(name) ==
  /\ pc = "passthrough"
  /\ IF name \in IdentitySelecting
     THEN Go("rejected") /\ UNCHANGED inherited
     ELSE Go("passthrough") /\ inherited' = inherited \cup {name}
  /\ UNCHANGED <<injected, options, warned>>

PassthroughDone ==
  /\ pc = "passthrough"
  /\ Go("provider")
  /\ UNCHANGED <<inherited, injected, options, warned>>

\* No service connection, an unknown scheme, or a field that is missing or
\* malformed; the Azure branches read theirs once the subscription is set.
MissingField ==
  /\ pc \in {"provider", "branch"} /\ ~(pc = "branch" /\ scheme = "azureMsi")
  /\ Go("rejected")
  /\ UNCHANGED <<inherited, injected, options, warned>>

-----------------------------------------------------------------------------
\* Azure.

\* The subscription the input or the connection names, if either does; then
\* what no branch sets.
AzureBegin ==
  /\ pc = "provider" /\ scheme \in {"azureMsi", "azureWif", "azureSp"}
  /\ \/ Replace(ArmWholesaleClear, {ArmSubscription})
     \/ Replace(ArmWholesaleClear \cup {ArmSubscription}, {})
  /\ Go("branch")
  /\ UNCHANGED <<options, warned>>

AzureMsi ==
  /\ pc = "branch" /\ scheme = "azureMsi"
  /\ Replace({ArmSecret, ArmJwt, ArmCertPath, ArmTenant}, {})
  /\ Go("packer")
  /\ UNCHANGED <<options, warned>>

\* Faulty variant: a template that does not declare the variable will do.
AssertTemplateDeclaresUnread(name) ==
  /\ pc = "branch"
  /\ Go("probed")
  /\ UNCHANGED <<inherited, injected, options, warned>>

\* packer inspect finds the variable, or does not, or cannot tell.
AssertTemplateDeclares(name) ==
  /\ pc = "branch"
  /\ \/ /\ Go(IF name \in declared THEN "probed" ELSE "rejected")
        /\ UNCHANGED warned
     \/ Go("probed") /\ warned' = TRUE
  /\ UNCHANGED <<inherited, injected, options>>

AzureProbe ==
  \/ scheme = "azureWif" /\ AssertTemplateDeclares(ArmJwt)
  \/ scheme = "azureSp" /\ AssertTemplateDeclares(ArmSecret)

\* Azure DevOps issues the assertion, or does not.
AzureWif ==
  /\ pc = "probed" /\ scheme = "azureWif"
  /\ \/ Replace({ArmSecret, ArmCertPath}, {ArmClient, ArmTenant, ArmJwt})
        /\ Go("packer")
     \/ Go("rejected") /\ UNCHANGED <<inherited, injected>>
  /\ UNCHANGED <<options, warned>>

AzureSp ==
  /\ pc = "probed" /\ scheme = "azureSp"
  /\ Replace({ArmJwt, ArmCertPath}, {ArmClient, ArmTenant, ArmSecret})
  /\ Go("packer")
  /\ UNCHANGED <<options, warned>>

-----------------------------------------------------------------------------
\* The other providers.

Handler(s, cleared, set) ==
  /\ pc = "provider" /\ scheme = s
  /\ Replace(cleared, set)
  /\ Go("packer")
  /\ UNCHANGED <<options, warned>>

\* The region is optional here.
AwsStatic ==
  \E region \in SUBSET {AwsRegion} :
    Handler("awsStatic", AwsFederatedEnv, AwsKeys \cup region)

AwsWif ==
  Handler("awsWif", AwsStaticEnv,
          AwsWebIdentity \cup {AwsRegion, AwsSessionName})

\* Key file and federation alike: a file, named by one variable.
Gcp == Handler("gcp", GoogleCompeting, {GoogleFile})

\* Faulty variant: the switch to the machine's own identity is not deleted.
OciKeyKeepsMode ==
  Handler("ociKey", {OciCli} \cup OciWifEnv, OciFields \cup {OciConfig})

\* A pass phrase is left alone: the connection has no field for it.
OciKey ==
  Handler("ociKey", {OciCli, OciInstance} \cup OciWifEnv,
          OciFields \cup {OciConfig})

\* The names go on packer's command line, where packer refuses one that the
\* template does not declare.
applyProviderVarArgs(names) == options' = names

\* Faulty variant: the file is only named in the environment.
OciWifInEnvironment ==
  /\ pc = "provider" /\ scheme = "ociWif"
  /\ Replace({OciCli, OciInstance} \cup OciApiKeyEnv, {OciConfig, OciAccount})
  /\ options' = {}
  /\ Go("packer")
  /\ UNCHANGED warned

\* The configuration file also goes on the command line.
OciWif ==
  /\ pc = "provider" /\ scheme = "ociWif"
  /\ Replace({OciCli, OciInstance} \cup OciApiKeyEnv, {OciConfig, OciAccount})
  /\ applyProviderVarArgs({OciConfig})
  /\ Go("packer")
  /\ UNCHANGED warned

\* An inherited insecure_connection is deleted unless the input asks for it.
VSphereInject ==
  /\ pc = "provider" /\ scheme = "vsphere"
  /\ Replace(IF insecure THEN {} ELSE {VSphereInsecure}, VSphereFields)
  /\ Go(IF insecure THEN "optOut" ELSE "packer")
  /\ UNCHANGED <<options, warned>>

\* TLS verification is only turned off for a private destination.
VSphereOptOut ==
  /\ pc = "optOut"
  /\ IF private
     THEN Replace({}, {VSphereInsecure}) /\ Go("packer")
     ELSE Go("rejected") /\ UNCHANGED <<inherited, injected>>
  /\ UNCHANGED <<options, warned>>

Next ==
  \/ \E name \in AgentNames \cap (Provider[scheme] \cup {"PATH"}) :
       PassthroughLine(name)
  \/ PassthroughDone \/ MissingField
  \/ AzureBegin \/ AzureMsi \/ AzureProbe \/ AzureWif \/ AzureSp
  \/ AwsStatic \/ AwsWif \/ Gcp \/ OciKey \/ OciWif
  \/ VSphereInject \/ VSphereOptOut

Spec == Init /\ [][Next]_vars

-----------------------------------------------------------------------------
\* What packer's plugins make of it.  A plugin works as the service
\* connection, as the virtual machine it runs on, as somebody else that a
\* variable or a file of the agent's names, or it refuses.

Visible(name) == name \in PackerVars => name \in declared
Ours(name) == name \in injected /\ Visible(name)
Theirs(name) == name \in inherited /\ Visible(name)
IsSet(name) == Ours(name) \/ Theirs(name)

AllOurs(names) == \A name \in names : Ours(name)
AllSet(names) == \A name \in names : IsSet(name)
SomeTheirs(names) == \E name \in names : Theirs(name)
SomeSet(names) == \E name \in names : IsSet(name)

\* Interactive and CLI logins outrank every credential; with no credential,
\* no tenant and no OIDC request, UseMSI() picks the machine's identity.
AzureIdentity ==
  CASE SomeTheirs(ArmVars) /\ SomeSet(ArmVars \ {ArmSubscription, ArmClient})
         -> "other"
    [] ~SomeSet({ArmSecret, ArmJwt, ArmCertPath, ArmTenant, ArmOidcUrl,
                 ArmOidcToken, ArmCli, ArmInteractive})
         -> IF SomeTheirs({ArmSubscription, ArmClient}) THEN "other" ELSE "machine"
    [] AllOurs({ArmClient, ArmTenant}) /\ (Ours(ArmSecret) \/ Ours(ArmJwt))
         -> "connection"
    [] OTHER -> "refused"

\* Static keys first, then a named profile or file, then the web identity
\* token, then the machine's role.
AwsIdentity ==
  CASE AllSet(AwsKeys) -> IF SomeTheirs(AwsKeys) THEN "other"
                          ELSE IF IsSet(AwsSession) THEN "refused"
                          ELSE "connection"
    [] ~AllSet(AwsKeys) /\ SomeSet(AwsProfile) -> "other"
    [] ~AllSet(AwsKeys) /\ ~SomeSet(AwsProfile) /\ AllSet(AwsWebIdentity) ->
         IF SomeTheirs(AwsWebIdentity) THEN "other" ELSE "connection"
    [] OTHER -> "machine"

GoogleIdentity ==
  CASE SomeSet(GoogleCompeting) \/ Theirs(GoogleFile) -> "other"
    [] ~SomeSet(GoogleCompeting) /\ Ours(GoogleFile) -> "connection"
    [] OTHER -> "machine"

\* Each field comes from its variable, or else from the configuration file:
\* the federated one, none where the handler names one that does not exist,
\* or the one in the agent's home directory.  A pass phrase spoils the
\* federated key, which has none.
OciIdentity ==
  CASE options \ declared # {} -> "refused"
    [] options \subseteq declared /\ IsSet(OciInstance) ->
         IF SomeSet(OciFields \cup {OciConfig}) THEN "refused" ELSE "machine"
    [] options \subseteq declared /\ ~IsSet(OciInstance) ->
         IF SomeTheirs(OciFields \cup {OciConfig}) THEN "other"
         ELSE IF AllOurs(OciFields) THEN "connection"
         ELSE IF ~Ours(OciConfig) THEN "other"
         ELSE IF options = {} \/ SomeSet({OciPassPhrase}) \/ Theirs(OciAccount)
              THEN "refused"
         ELSE "connection"

\* There is no vCenter identity to fall back on.
VSphereIdentity ==
  IF SomeTheirs(VSphereFields) THEN "other"
  ELSE IF AllOurs(VSphereFields) THEN "connection" ELSE "refused"

Identity ==
  CASE scheme \in {"azureMsi", "azureWif", "azureSp"} -> AzureIdentity
    [] scheme \in {"awsStatic", "awsWif"} -> AwsIdentity
    [] scheme = "gcp" -> GoogleIdentity
    [] scheme \in {"ociKey", "ociWif"} -> OciIdentity
    [] scheme = "vsphere" -> VSphereIdentity

\* A service connection that says "managed identity" names the machine.
Intended == IF scheme = "azureMsi" THEN "machine" ELSE "connection"

-----------------------------------------------------------------------------
\* Packer works as the service connection, or not at all, whatever the agent
\* has in its environment, the pipeline passes on and the template declares
\* (#187, #332).  Two residues the code documents: an Azure template that
\* packer inspect cannot read, and an OCI API key template that declares
\* neither a field nor the configuration file (oci 55-64, 290-299).
ConnectionIdentity ==
  pc = "packer" =>
    \/ Identity \in {Intended, "refused"}
    \/ warned /\ scheme \in {"azureWif", "azureSp"}
    \/ scheme = "ociKey" /\ ~(OciFields \subseteq declared)
         /\ OciConfig \notin declared

\* The machine's identity never stands in for a service connection without a
\* warning that the template could not be read (#332).
FallbackIsAnnounced ==
  pc = "packer" /\ Identity = "machine" /\ scheme # "azureMsi" => warned

\* What the agent or the pipeline has in the environment never breaks a run:
\* with a template that declares what it uses, packer works as the
\* connection (#391, azure 118-124).
InheritanceIsHarmless ==
  pc = "packer" /\ declared = PackerVars => Identity = Intended

\* The credential only travels where the connection says: no inherited
\* endpoint for Azure's logins (#333), and no vCenter without TLS
\* verification but the private one the input asked for (#44, #588).
CredentialGoesHome ==
  pc = "packer" =>
    /\ scheme \in {"azureMsi", "azureWif", "azureSp"} => ~IsSet(ArmMetadata)
    /\ scheme = "vsphere" /\ IsSet(VSphereInsecure) => insecure /\ private

=============================================================================
