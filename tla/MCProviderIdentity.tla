-------------------------- MODULE MCProviderIdentity --------------------------
\* Small values for the constants of ProviderIdentity.
EXTENDS ProviderIdentity

\* The token of an OIDC request goes with its URL, and the two federated OCI
\* selectors go together.
MCAgentNames ==
  Names \ {ArmOidcToken, "PKR_VAR_oci_security_token_file", "GOOGLE_GHA_CREDS_PATH"}

\* A template declares everything, everything but one variable, nothing, or
\* only the client id and the subscription.
MCTemplates ==
  {PackerVars, {}, {ArmClient, ArmSubscription}}
    \cup {PackerVars \ {v} : v \in PackerVars}

=============================================================================
