-------------------------- MODULE MCPackerInstaller --------------------------
(* Small instances of PackerInstaller: policy sets the runs choose from.    *)
EXTENDS PackerInstaller

\* Every combination of the inputs that the code tells apart: the toggles of
\* the re-verification are read under requireChecksum only, and the registry
\* strategy does not read requireGpg.
AllPolicies ==
  {p \in PolicyRecord :
     /\ p.forceOnline \/ p.requireOnline => p.requireChecksum
     /\ p.requireGpg => p.source # "registry"}

\* The policies of an operator who leaves every toggle at its default, from
\* any source, with and without forced re-verification.
DefaultPolicies ==
  {p \in PolicyRecord : p.requireChecksum /\ p.requireGpg}

\* One strict and one permissive policy for each source.
MixedPolicies ==
  {p \in PolicyRecord :
     p.requireChecksum = p.requireGpg /\ ~p.forceOnline /\ ~p.requireOnline}

\* A strict and a permissive mirror user on one shared tool directory.
MirrorPolicies ==
  {p \in MixedPolicies : p.source = "mirror"}

AllFaults == FaultKinds
LocalFaults == {"disk", "network"}
ContentFaults == {"content"}
WithheldFaults == {"withheld"}
SourceFaults == {"content", "withheld"}
NoFaults == {}
=============================================================================
