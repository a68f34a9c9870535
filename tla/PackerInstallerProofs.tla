------------------------ MODULE PackerInstallerProofs ------------------------
(***************************************************************************)
(* What holds of PackerInstaller for every set of agents, policies, faults *)
(* and binaries: type correctness; as long as runs do not overlap on the   *)
(* tool directory, the integrity of the record and of strict runs; what of *)
(* it is left when they do overlap; and that every run moves to its end.   *)
(***************************************************************************)
EXTENDS PackerInstaller, Naturals, TLAPS

USE DEF Archives

\* The policy of every agent is one of the configured ones, hence a policy.
LEMMA PoliciesArePolicies == \A p \in Policies : p \in PolicyRecord
  BY ConstantsAssumption

\* The first run finds the variables of their types.
LEMMA InitTypeOK == Init => TypeOK
<1> SUFFICES ASSUME Init PROVE TypeOK
  OBVIOUS
<1>1. (CHOOSE p \in Policies : TRUE) \in PolicyRecord
  BY ConstantsAssumption
<1>2. policy \in [Agents -> PolicyRecord]
  BY <1>1 DEF Init
<1> QED
  BY <1>2 DEF Init, TypeOK, Ended, WarningKinds, FailureKinds

\* Starting a run gives its variables initial values of their types.
LEMMA StartTypeOK ==
  ASSUME TypeOK, NEW a \in Agents, NEW p \in Policies, Start(a, p)
  PROVE  TypeOK'
<1>1. p \in PolicyRecord
  BY PoliciesArePolicies
<1> QED
  BY <1>1 DEF TypeOK, Start, Goto, Ended, Strategy, Steps, FailureKinds,
              WarningKinds, entryVars

\* How the helpers that end or divert a run change its variables.
LEMMA StrategyFailsTypeOK ==
  ASSUME TypeOK, NEW a \in Agents, NEW kind \in FailureKinds,
         kind \in WarningKinds \cup {"verification"}, StrategyFails(a, kind)
  PROVE  /\ pc' \in [Agents -> Ended \cup Strategy \cup Steps]
         /\ failure' \in [Agents -> FailureKinds]
         /\ warned' \in [Agents -> SUBSET WarningKinds]
  BY DEF TypeOK, StrategyFails, Fail, Warn, Goto, Ended, Strategy, Steps,
         WarningKinds

\* The decision about an archive without a checksum keeps the types.
LEMMA UncoveredTypeOK ==
  ASSUME TypeOK, NEW a \in Agents, Uncovered(a)
  PROVE  /\ pc' \in [Agents -> Ended \cup Strategy \cup Steps]
         /\ failure' \in [Agents -> FailureKinds]
         /\ warned' \in [Agents -> SUBSET WarningKinds]
         /\ zip' \in [Agents -> Archives \cup {Missing}]
<1>1. CASE MayInstallUncovered(a)
  BY <1>1 DEF TypeOK, Uncovered, Warn, Goto, Ended, Strategy, Steps, WarningKinds
<1>2. CASE ~MayInstallUncovered(a)
  <2>1. StrategyFails(a, "verification")
    BY <1>2 DEF Uncovered
  <2>2. zip' \in [Agents -> Archives \cup {Missing}]
    BY <1>2 DEF TypeOK, Uncovered, Discard
  <2> QED
    BY <2>1, <2>2, StrategyFailsTypeOK DEF FailureKinds
<1> QED
  BY <1>1, <1>2

\* What a source serves is an archive; what it names may also be nothing.
LEMMA ServedTypeOK ==
  /\ Served \subseteq Archives
  /\ \A none : ServedOr(none) \subseteq Archives \cup {none}
  BY ConstantsAssumption DEF Served, ServedOr

\* Every step of a run keeps the types, action by action.
LEMMA StepTypeOK ==
  ASSUME TypeOK, NEW a \in Agents, Step(a)
  PROVE  TypeOK'
<1> USE DEF TypeOK, Ended, Strategy, Steps, FailureKinds, WarningKinds,
            entryVars, inputVars, localVars, trustVars, Goto, Fail, FirstStep
<1>1. CASE ResolveVersion(a)
  BY <1>1 DEF ResolveVersion
<1>2. CASE FindLocalTool(a)
  BY <1>2 DEF FindLocalTool
<1>3. CASE ExtractZip(a)
  BY <1>3 DEF ExtractZip
<1>4. CASE CacheClear(a)
  BY <1>4 DEF CacheClear
<1>5. CASE CopyStarts(a)
  BY <1>5 DEF CopyStarts
<1>6. CASE CopyEnds(a)
  <2>1. binary' \in Archives \cup {Partial, Missing}
    BY <1>6 DEF CopyEnds
  <2>2. damaged' \in BOOLEAN
    BY <1>6 DEF CopyEnds
  <2> QED
    BY <1>6, <2>1, <2>2 DEF CopyEnds
<1>7. CASE MarkComplete(a)
  BY <1>7 DEF MarkComplete
<1>8. CASE LocatePacker(a)
  BY <1>8 DEF LocatePacker
<1>9. CASE CheckRecord(a)
  BY <1>9 DEF CheckRecord
<1>10. CASE CompareRelease(a)
  BY <1>10 DEF CompareRelease
<1>11. CASE HashBinary(a)
  BY <1>11 DEF HashBinary, HasPacker
<1>12. CASE RenameRecord(a)
  BY <1>12 DEF RenameRecord
<1>13. CASE Finish(a)
  BY <1>13 DEF Finish
<1>14. CASE RegistryMetadata(a)
  <2>1. CASE StrategyFails(a, "unreachable") /\ UNCHANGED sums
    BY <1>14, <2>1, StrategyFailsTypeOK DEF RegistryMetadata
  <2>2. CASE /\ \E d \in ServedOr(Missing) : sums' = [sums EXCEPT ![a] = d]
             /\ Goto(a, "download")
             /\ UNCHANGED <<warned, failure>>
    <3>1. sums' \in [Agents -> Archives \cup {Unlisted, Missing}]
      BY <2>2, ServedTypeOK
    <3> QED
      BY <1>14, <2>2, <3>1 DEF RegistryMetadata
  <2> QED
    BY <1>14, <2>1, <2>2 DEF RegistryMetadata
<1>15. CASE DownloadArchive(a)
  <2>1. CASE StrategyFails(a, "unreachable") /\ UNCHANGED zip
    BY <1>15, <2>1, StrategyFailsTypeOK DEF DownloadArchive
  <2>3. CASE StrategyFails(a, "disk") /\ UNCHANGED zip
    BY <1>15, <2>3, StrategyFailsTypeOK DEF DownloadArchive
  <2>2. CASE /\ \E d \in Served : zip' = [zip EXCEPT ![a] = d]
             /\ Goto(a, IF policy[a].source = "registry" THEN "digest" ELSE "sums")
             /\ UNCHANGED <<warned, failure>>
    <3>1. zip' \in [Agents -> Archives \cup {Missing}]
      BY <2>2, ServedTypeOK
    <3> QED
      BY <1>15, <2>2, <3>1 DEF DownloadArchive
  <2> QED
    BY <1>15, <2>1, <2>2, <2>3 DEF DownloadArchive
<1>16. CASE FetchSums(a)
  <2>1. CASE StrategyFails(a, "unreachable") /\ UNCHANGED <<sums, zip>>
    BY <1>16, <2>1, StrategyFailsTypeOK DEF FetchSums
  <2>2. CASE Uncovered(a) /\ UNCHANGED sums
    BY <1>16, <2>2, UncoveredTypeOK DEF FetchSums
  <2>3. CASE /\ \E d \in ServedOr(Unlisted) : sums' = [sums EXCEPT ![a] = d]
             /\ Goto(a, "signature")
             /\ UNCHANGED <<zip, warned, failure>>
    <3>1. sums' \in [Agents -> Archives \cup {Unlisted, Missing}]
      BY <2>3, ServedTypeOK
    <3> QED
      BY <1>16, <2>3, <3>1 DEF FetchSums
  <2> QED
    BY <1>16, <2>1, <2>2, <2>3 DEF FetchSums
<1>17. CASE CheckSignature(a)
  <2>1. CASE \/ StrategyFails(a, "verification") /\ Discard(a) /\ UNCHANGED gpg
             \/ StrategyFails(a, "unreachable") /\ Discard(a) /\ UNCHANGED gpg
    BY <1>17, <2>1, StrategyFailsTypeOK DEF CheckSignature, Discard
  <2>2. CASE Goto(a, "digest") /\ UNCHANGED <<zip, failure>>
    <3>1. warned' \in [Agents -> SUBSET WarningKinds]
      <4>1. CASE Warn(a, "checksumOnly")
        BY <4>1 DEF Warn
      <4>2. CASE UNCHANGED warned
        BY <4>2
      <4>3. pc[a] = "signature" /\ pc'[a] = "digest"
        BY <1>17, <2>2 DEF CheckSignature
      <4> QED
        BY <1>17, <4>1, <4>2, <4>3 DEF CheckSignature, StrategyFails
    <3>2. gpg' \in [Agents -> BOOLEAN]
      BY <1>17, <2>2 DEF CheckSignature
    <3> QED
      BY <1>17, <2>2, <3>1, <3>2 DEF CheckSignature
  <2> QED
    BY <1>17, <2>1, <2>2 DEF CheckSignature
<1>18. CASE CheckDigest(a)
  <2>1. CASE DigestMatches(a)
    <3>1. warned' \in [Agents -> SUBSET WarningKinds]
      BY <2>1 DEF DigestMatches, Warn
    <3>2. /\ vouched' \subseteq Archives
          /\ signed' \subseteq vouched'
          /\ checked' \in [Agents -> Archives \cup {Missing}]
      BY <1>18, <2>1 DEF CheckDigest, DigestMatches
    <3> QED
      BY <1>18, <2>1, <3>1, <3>2 DEF CheckDigest, DigestMatches
  <2>2. CASE DigestDiffers(a)
    BY <1>18, <2>2, StrategyFailsTypeOK DEF CheckDigest, DigestDiffers, Discard
  <2>4. CASE DigestUnreadable(a)
    BY <1>18, <2>4, StrategyFailsTypeOK DEF CheckDigest, DigestUnreadable, Discard
  <2>3. CASE Uncovered(a) /\ UNCHANGED <<verified, trustVars>>
    BY <1>18, <2>3, UncoveredTypeOK DEF CheckDigest
  <2> QED
    BY <1>18, <2>1, <2>2, <2>3, <2>4 DEF CheckDigest
<1> QED
  BY <1>1, <1>2, <1>3, <1>4, <1>5, <1>6, <1>7, <1>8, <1>9, <1>10, <1>11, <1>12, <1>13, <1>14, <1>15, <1>16, <1>17, <1>18 DEF Step

\* So do a killed run and damage to the cache.
LEMMA EnvironmentTypeOK ==
  ASSUME TypeOK, Environment
  PROVE  TypeOK'
<1> USE DEF TypeOK, inputVars, localVars, trustVars, entryVars
<1>1. CASE \E a \in Agents : Kill(a)
  BY <1>1 DEF Kill, Fail, Goto, Ended, FailureKinds
<1>2. CASE DamageBinary \/ DamageRecord \/ DeleteEntry
  BY <1>2 DEF DamageBinary, DamageRecord, DeleteEntry
<1> QED
  BY <1>1, <1>2 DEF Environment

\* A step that changes nothing keeps the types.
LEMMA StutterTypeOK ==
  ASSUME TypeOK, UNCHANGED vars
  PROVE  TypeOK'
  BY DEF TypeOK, vars, entryVars, inputVars, localVars, trustVars

\* Every variable of the installer keeps its type: in particular a failure
\* and a warning are always of a known kind, and what was matched under a
\* signature was matched.
THEOREM TypeCorrect == Spec => []TypeOK
<1>1. TypeOK /\ [Next]_vars => TypeOK'
  BY StartTypeOK, StepTypeOK, EnvironmentTypeOK, StutterTypeOK DEF Next
<1> QED
  BY InitTypeOK, <1>1, PTL DEF Spec

-----------------------------------------------------------------------------
\* The trust invariant, when runs do not overlap.

\* A step of a run is a step of an active run, and what some run matched
\* stays vouched for.
LEMMA StepIsActive ==
  ASSUME NEW a \in Agents, Step(a)
  PROVE  Active(a) /\ vouched \subseteq vouched'
<1> USE DEF Active, Ended, trustVars
<1>1. CASE CheckDigest(a)
  BY <1>1 DEF CheckDigest, DigestMatches, DigestDiffers, DigestUnreadable
<1>2. CASE \/ RegistryMetadata(a) \/ DownloadArchive(a) \/ FetchSums(a)
           \/ CheckSignature(a)
  BY <1>2 DEF RegistryMetadata, DownloadArchive, FetchSums, CheckSignature
<1>3. CASE \/ ResolveVersion(a) \/ FindLocalTool(a) \/ ExtractZip(a)
           \/ CacheClear(a) \/ CopyStarts(a) \/ CopyEnds(a) \/ MarkComplete(a)
  BY <1>3 DEF ResolveVersion, FindLocalTool, ExtractZip, CacheClear,
              CopyStarts, CopyEnds, MarkComplete
<1>4. CASE \/ LocatePacker(a) \/ CheckRecord(a) \/ CompareRelease(a)
           \/ HashBinary(a) \/ RenameRecord(a) \/ Finish(a)
  BY <1>4 DEF LocatePacker, CheckRecord, CompareRelease, HashBinary,
              RenameRecord, Finish
<1> QED
  BY <1>1, <1>2, <1>3, <1>4 DEF Step

\* Nothing of another run changes: a step writes its own run's entries.
OthersKeep(a) ==
  \A b \in Agents \ {a} :
    /\ pc'[b] = pc[b] /\ policy'[b] = policy[b] /\ hit'[b] = hit[b]
    /\ zip'[b] = zip[b] /\ verified'[b] = verified[b] /\ digest'[b] = digest[b]
    /\ warned'[b] = warned[b] /\ ran'[b] = ran[b]

\* A step of one run leaves the locals of the others alone.
LEMMA StepKeepsOthers ==
  ASSUME TypeOK, NEW a \in Agents, Step(a)
  PROVE  OthersKeep(a)
<1> USE DEF OthersKeep, inputVars, localVars, Goto, Fail, Warn, StrategyFails,
            Discard, Uncovered
<1>1. CASE RegistryMetadata(a) \/ DownloadArchive(a) \/ FetchSums(a)
  BY <1>1 DEF TypeOK, RegistryMetadata, DownloadArchive, FetchSums
<1>2. CASE CheckSignature(a) \/ CheckDigest(a)
  BY <1>2 DEF TypeOK, CheckSignature, CheckDigest, DigestMatches, DigestDiffers, DigestUnreadable
<1>3. CASE \/ ResolveVersion(a) \/ FindLocalTool(a) \/ ExtractZip(a)
           \/ CacheClear(a) \/ CopyStarts(a) \/ CopyEnds(a) \/ MarkComplete(a)
  BY <1>3 DEF TypeOK, ResolveVersion, FindLocalTool, ExtractZip, CacheClear,
              CopyStarts, CopyEnds, MarkComplete
<1>4. CASE \/ LocatePacker(a) \/ CheckRecord(a) \/ CompareRelease(a)
           \/ HashBinary(a) \/ RenameRecord(a) \/ Finish(a)
  BY <1>4 DEF TypeOK, LocatePacker, CheckRecord, CompareRelease, HashBinary,
              RenameRecord, Finish
<1> QED
  BY <1>1, <1>2, <1>3, <1>4 DEF Step

\* The run of another agent has ended, and what is said of an ended run only
\* depends on its own variables and on what is vouched for.
LEMMA OtherRunsKeepTrust ==
  ASSUME NEW a \in Agents, NEW b \in Agents \ {a}, Trust(b), ~Active(b),
         OthersKeep(a), vouched \subseteq vouched'
  PROVE  Trust(b)'
  BY DEF Trust, VerifiedMeansVouched, StepsFitTheRun, BinaryFitsTheRun,
         EndIsVouched, Degraded, Fetching, Caching, Active, Ended, Strategy,
         OthersKeep

\* A run that was alone stays alone.
LEMMA StepKeepsAlone ==
  ASSUME Alone, NEW a \in Agents, Active(a), OthersKeep(a)
  PROVE  Alone'
  BY DEF Alone, Active, OthersKeep

\* A strategy that fails ends the run or has it degrade, with a warning.
LEMMA FailingStrategyKeepsTrust ==
  ASSUME TypeOK, NEW a \in Agents, Trust(a), pc[a] \in Strategy,
         NEW kind \in {"unreachable", "disk", "verification"},
         StrategyFails(a, kind), UNCHANGED <<inputVars, verified, vouched, ran>>
  PROVE  Trust(a)'
<1>1. ~verified[a]
  BY DEF Trust, VerifiedMeansVouched, Fetching
<1>2. CASE hit[a] /\ kind # "verification" /\ ~policy[a].requireOnline
  <2>1. pc'[a] = "finish" /\ kind \in warned'[a]
    BY <1>2 DEF TypeOK, StrategyFails, Goto, Warn
  <2>2. Degraded(a)'
    BY <1>2, <2>1 DEF Degraded
  <2> QED
    BY <1>1, <1>2, <2>1, <2>2 DEF Trust, VerifiedMeansVouched,
         StepsFitTheRun, BinaryFitsTheRun, EndIsVouched, Fetching, Caching,
         Strategy, inputVars
<1>3. CASE ~(hit[a] /\ kind # "verification" /\ ~policy[a].requireOnline)
  BY <1>1, <1>3 DEF TypeOK, StrategyFails, Fail, Goto, Trust,
       VerifiedMeansVouched, StepsFitTheRun, BinaryFitsTheRun, EndIsVouched,
       Degraded, Fetching, Caching, Strategy, inputVars
<1> QED
  BY <1>2, <1>3

\* Only a permissive fresh install goes on without a checksum.
LEMMA UncoveredKeepsTrust ==
  ASSUME TypeOK, NEW a \in Agents, Trust(a), pc[a] \in Strategy,
         Uncovered(a), MayInstallUncovered(a),
         UNCHANGED <<inputVars, verified, vouched, ran>>
  PROVE  Trust(a)'
<1>1. pc'[a] = "extract" /\ warned'[a] = warned[a] \cup {"unverified"}
  BY DEF TypeOK, Uncovered, Goto, Warn
<1>2. ~policy[a].requireChecksum
  BY DEF MayInstallUncovered
<1>3. ~verified[a] /\ ~hit[a]
  BY <1>2 DEF TypeOK, Trust, VerifiedMeansVouched, StepsFitTheRun, Fetching
<1>4. Degraded(a)' => Degraded(a)
  BY <1>1 DEF Degraded
<1> QED
  BY <1>1, <1>2, <1>3, <1>4 DEF Trust, VerifiedMeansVouched, StepsFitTheRun,
       BinaryFitsTheRun, EndIsVouched, Fetching, Caching, Strategy, inputVars

\* An archive that matches its checksum is vouched for from here on.
LEMMA MatchKeepsTrust ==
  ASSUME TypeOK, RecordIsVouched, NEW a \in Agents, Trust(a), pc[a] \in Strategy,
         DigestMatches(a), UNCHANGED <<entryVars, inputVars, ran>>
  PROVE  RecordIsVouched' /\ Trust(a)'
<1>1. /\ pc'[a] = "extract"
      /\ warned'[a] \in {warned[a], warned[a] \cup {"checksumOnly"}}
  BY DEF TypeOK, DigestMatches, Goto, Warn
<1>2. zip'[a] \in vouched' /\ vouched \subseteq vouched'
  BY DEF TypeOK, DigestMatches
<1>3. Degraded(a)' => Degraded(a)
  BY <1>1 DEF Degraded
<1>4. RecordIsVouched'
  BY <1>2 DEF RecordIsVouched, WellFormed, entryVars
<1>5. verified'[a]
  BY DEF TypeOK, DigestMatches
<1> QED
  BY <1>1, <1>2, <1>3, <1>4, <1>5 DEF Trust, VerifiedMeansVouched,
       StepsFitTheRun, BinaryFitsTheRun, EndIsVouched, Fetching, Caching,
       Strategy, inputVars

\* One step of a run keeps what it relies on, action by action.
LEMMA StepKeepsTrust ==
  ASSUME TypeOK, RecordIsVouched, NEW a \in Agents, Trust(a), Step(a)
  PROVE  RecordIsVouched' /\ Trust(a)'
<1> USE DEF TypeOK, RecordIsVouched, WellFormed, Trust, VerifiedMeansVouched, StepsFitTheRun,
            BinaryFitsTheRun, EndIsVouched, Degraded, Fetching, Caching, Strategy,
            Goto, Fail, Warn, entryVars, inputVars, localVars, trustVars
<1>1. CASE ResolveVersion(a)
  BY <1>1 DEF ResolveVersion
<1>2. CASE FindLocalTool(a)
  BY <1>2 DEF FindLocalTool, FirstStep
<1>3. CASE ExtractZip(a)
  BY <1>3 DEF ExtractZip
<1>4. CASE CacheClear(a)
  BY <1>4 DEF CacheClear
<1>5. CASE CopyStarts(a)
  BY <1>5 DEF CopyStarts
<1>6. CASE CopyEnds(a)
  BY <1>6 DEF CopyEnds
<1>7. CASE MarkComplete(a)
  BY <1>7 DEF MarkComplete
<1>8. CASE LocatePacker(a)
  BY <1>8 DEF LocatePacker, HasPacker
<1>9. CASE CheckRecord(a)
  BY <1>9 DEF CheckRecord, FirstStep
<1>10. CASE CompareRelease(a)
  BY <1>10 DEF CompareRelease, HasPacker
<1>11. CASE HashBinary(a)
  BY <1>11 DEF HashBinary
<1>12. CASE RenameRecord(a)
  BY <1>12 DEF RenameRecord
<1>13. CASE Finish(a)
  BY <1>13 DEF Finish
<1>14. CASE RegistryMetadata(a)
  <2>1. CASE StrategyFails(a, "unreachable")
    BY <1>14, <2>1, FailingStrategyKeepsTrust DEF RegistryMetadata
  <2>2. CASE pc' = [pc EXCEPT ![a] = "download"] /\ UNCHANGED warned
    BY <1>14, <2>2 DEF RegistryMetadata
  <2> QED
    BY <1>14, <2>1, <2>2 DEF RegistryMetadata
<1>15. CASE DownloadArchive(a)
  <2>1. CASE StrategyFails(a, "unreachable") \/ StrategyFails(a, "disk")
    BY <1>15, <2>1, FailingStrategyKeepsTrust DEF DownloadArchive
  <2>2. CASE pc'[a] \in Strategy /\ UNCHANGED warned
    BY <1>15, <2>2 DEF DownloadArchive
  <2> QED
    BY <1>15, <2>1, <2>2 DEF DownloadArchive
<1>16. CASE FetchSums(a)
  <2>1. CASE StrategyFails(a, "unreachable")
    BY <1>16, <2>1, FailingStrategyKeepsTrust DEF FetchSums
  <2>2. CASE Uncovered(a)
    <3>1. CASE MayInstallUncovered(a)
      BY <1>16, <2>2, <3>1, UncoveredKeepsTrust DEF FetchSums
    <3>2. CASE ~MayInstallUncovered(a)
      BY <1>16, <2>2, <3>2, FailingStrategyKeepsTrust DEF FetchSums, Uncovered
    <3> QED
      BY <3>1, <3>2
  <2>3. CASE pc' = [pc EXCEPT ![a] = "signature"] /\ UNCHANGED warned
    BY <1>16, <2>3 DEF FetchSums
  <2> QED
    BY <1>16, <2>1, <2>2, <2>3 DEF FetchSums
<1>17. CASE CheckSignature(a)
  <2>1. CASE StrategyFails(a, "unreachable") \/ StrategyFails(a, "verification")
    BY <1>17, <2>1, FailingStrategyKeepsTrust DEF CheckSignature
  <2>2. CASE Goto(a, "digest") /\ UNCHANGED <<zip, failure>>
    <3>1. \/ UNCHANGED warned
          \/ warned'[a] = warned[a] \cup {"checksumOnly"}
          \/ StrategyFails(a, "unreachable")
          \/ StrategyFails(a, "verification")
      BY <1>17 DEF CheckSignature
    <3>2. CASE UNCHANGED warned \/ warned'[a] = warned[a] \cup {"checksumOnly"}
      <4>1. Degraded(a)' => Degraded(a)
        BY <3>2 DEF Degraded
      <4> QED
        BY <1>17, <2>2, <4>1 DEF CheckSignature
    <3> QED
      BY <2>1, <3>1, <3>2
  <2> QED
    BY <1>17, <2>1, <2>2 DEF CheckSignature
<1>18. CASE CheckDigest(a)
  <2>1. CASE DigestMatches(a)
    BY <1>18, <2>1, MatchKeepsTrust DEF CheckDigest
  <2>2. CASE DigestDiffers(a) \/ DigestUnreadable(a)
    BY <1>18, <2>2, FailingStrategyKeepsTrust
       DEF CheckDigest, DigestDiffers, DigestUnreadable
  <2>3. CASE Uncovered(a) /\ UNCHANGED <<verified, trustVars>>
    <3>1. CASE MayInstallUncovered(a)
      BY <1>18, <2>3, <3>1, UncoveredKeepsTrust DEF CheckDigest
    <3>2. CASE ~MayInstallUncovered(a)
      BY <1>18, <2>3, <3>2, FailingStrategyKeepsTrust DEF CheckDigest, Uncovered
    <3> QED
      BY <3>1, <3>2
  <2> QED
    BY <1>18, <2>1, <2>2, <2>3 DEF CheckDigest
<1> QED
  BY <1>1, <1>2, <1>3, <1>4, <1>5, <1>6, <1>7, <1>8, <1>9, <1>10, <1>11, <1>12, <1>13, <1>14, <1>15, <1>16, <1>17, <1>18 DEF Step

\* A new run starts with nothing verified, when no run is active.
LEMMA StartKeepsTrust ==
  ASSUME ~Concurrent, TypeOK, TrustInvariant,
         NEW a \in Agents, NEW p \in Policies, Start(a, p)
  PROVE  TrustInvariant'
<1>1. \A b \in Agents : ~Active(b)
  BY DEF Start
<1>2. OthersKeep(a)
  BY DEF TypeOK, Start, Goto, OthersKeep
<1>3. vouched' = vouched /\ RecordIsVouched'
  BY DEF TrustInvariant, RecordIsVouched, WellFormed, Start, entryVars
<1>4. Alone'
  BY <1>1, <1>2 DEF Alone, Active, OthersKeep
<1>5. Trust(a)'
  BY DEF TypeOK, Start, Goto, Trust, VerifiedMeansVouched, StepsFitTheRun,
         BinaryFitsTheRun, EndIsVouched, Degraded, Fetching, Caching, Strategy
<1>6. \A b \in Agents \ {a} : Trust(b)'
  BY <1>1, <1>2, <1>3, OtherRunsKeepTrust DEF TrustInvariant
<1> QED
  BY <1>3, <1>4, <1>5, <1>6 DEF TrustInvariant

\* The environment ends runs, or changes the entry while no run is active,
\* and never invents a digest.
LEMMA EnvironmentKeepsTrust ==
  ASSUME TypeOK, TrustInvariant, Environment
  PROVE  TrustInvariant'
<1>1. ASSUME NEW a \in Agents, Kill(a)
      PROVE  TrustInvariant'
  <2>1. OthersKeep(a) /\ Active(a)
    BY <1>1 DEF TypeOK, Kill, Fail, Goto, OthersKeep, inputVars, localVars
  <2>2. vouched' = vouched /\ RecordIsVouched'
    BY <1>1 DEF TrustInvariant, RecordIsVouched, WellFormed, Kill, entryVars,
                trustVars
  <2>3. Trust(a)'
    BY <1>1 DEF TypeOK, TrustInvariant, Kill, Fail, Goto, Trust,
                VerifiedMeansVouched, StepsFitTheRun, BinaryFitsTheRun,
                EndIsVouched, Degraded, Fetching, Caching, Strategy, inputVars,
                localVars, trustVars
  <2>4. \A b \in Agents \ {a} : Trust(b)'
    BY <2>1, <2>2, OtherRunsKeepTrust DEF TrustInvariant, Alone
  <2> QED
    BY <2>1, <2>2, <2>3, <2>4, StepKeepsAlone DEF TrustInvariant
<1>2. ASSUME DamageBinary \/ DamageRecord \/ DeleteEntry
      PROVE  TrustInvariant'
  <2>1. UNCHANGED <<pc, inputVars, localVars, warned, trustVars, ran>>
    BY <1>2 DEF DamageBinary, DamageRecord, DeleteEntry
  <2>2. \A a \in Agents : ~Active(a)
    BY <1>2 DEF DamageBinary, DamageRecord, DeleteEntry, AtRest
  <2>3. RecordIsVouched'
    BY <1>2 DEF TrustInvariant, RecordIsVouched, WellFormed, DamageBinary,
                DamageRecord, DeleteEntry, trustVars
  <2>4. Alone'
    BY <2>1 DEF TrustInvariant, Alone, Active
  <2>5. ASSUME NEW a \in Agents
        PROVE  Trust(a)'
    BY <2>1, <2>2 DEF TrustInvariant, Trust, VerifiedMeansVouched,
         StepsFitTheRun, BinaryFitsTheRun, EndIsVouched, Degraded, Fetching, Caching,
         Active, Ended, Strategy, inputVars, localVars, trustVars
  <2> QED
    BY <2>3, <2>4, <2>5 DEF TrustInvariant
<1> QED
  BY <1>1, <1>2 DEF Environment

\* When the runs of the agents do not overlap, the trust invariant holds
\* between any two steps.
THEOREM TrustHolds ==
  ASSUME ~Concurrent
  PROVE  Spec => []TrustInvariant
<1>1. Init => TrustInvariant
  BY DEF Init, TrustInvariant, Alone, Active, Ended, RecordIsVouched,
         WellFormed, Trust, VerifiedMeansVouched, StepsFitTheRun,
         BinaryFitsTheRun, EndIsVouched, Degraded, Fetching, Caching, Strategy
<1>2. TypeOK /\ TrustInvariant /\ [Next]_vars => TrustInvariant'
  <2> SUFFICES ASSUME TypeOK, TrustInvariant, [Next]_vars
               PROVE  TrustInvariant'
    OBVIOUS
  <2>1. ASSUME NEW a \in Agents, Step(a)
        PROVE  TrustInvariant'
    <3>1. /\ Active(a)
          /\ vouched \subseteq vouched'
          /\ OthersKeep(a)
      BY <2>1, StepIsActive, StepKeepsOthers
    <3>2. Alone'
      BY <3>1, StepKeepsAlone DEF TrustInvariant
    <3>3. RecordIsVouched' /\ Trust(a)'
      BY <2>1, StepKeepsTrust DEF TrustInvariant
    <3>4. \A b \in Agents \ {a} : Trust(b)'
      BY <3>1, OtherRunsKeepTrust DEF TrustInvariant, Alone
    <3> QED
      BY <3>2, <3>3, <3>4 DEF TrustInvariant
  <2>2. ASSUME NEW a \in Agents, NEW p \in Policies, Start(a, p)
        PROVE  TrustInvariant'
    BY <2>2, StartKeepsTrust
  <2>3. CASE Environment
    BY <2>3, EnvironmentKeepsTrust
  <2>4. CASE UNCHANGED vars
    BY <2>4 DEF TrustInvariant, Alone, Active, RecordIsVouched, WellFormed,
         Trust, VerifiedMeansVouched, StepsFitTheRun, BinaryFitsTheRun,
         EndIsVouched, Degraded, Fetching, Caching, vars, entryVars, inputVars,
         localVars, trustVars
  <2> QED
    BY <2>1, <2>2, <2>3, <2>4 DEF Next
<1> QED
  BY <1>1, <1>2, TypeCorrect, PTL DEF Spec

\* A sidecar that is taken at its word names a binary some run matched with a
\* published checksum, however runs fail, die or are configured.
THEOREM RecordsAreVouched ==
  ASSUME ~Concurrent
  PROVE  Spec => []RecordIsVouched
<1>1. TrustInvariant => RecordIsVouched
  BY DEF TrustInvariant
<1> QED
  BY <1>1, TrustHolds, PTL

\* A successful run that demanded a checksum put a vouched binary on the
\* PATH, or warned that it could not re-verify the cached one.
THEOREM StrictRunsAreVouched ==
  ASSUME ~Concurrent
  PROVE  Spec => []StrictRunIsVouched
<1>1. TrustInvariant => StrictRunIsVouched
  BY DEF TrustInvariant, Trust, EndIsVouched, StrictRunIsVouched
<1> QED
  BY <1>1, TrustHolds, PTL

\* With requireOnlineReverification it did so without that excuse.
THEOREM OnlineRunsAreVouched ==
  ASSUME ~Concurrent
  PROVE  Spec => []OnlineRunIsVouched
<1>1. TrustInvariant => OnlineRunIsVouched
  BY DEF TrustInvariant, Trust, EndIsVouched, OnlineRunIsVouched
<1> QED
  BY <1>1, TrustHolds, PTL

\* Only a fresh install that caches its archive, and the environment while no
\* run is active, change the marker or the binary.
LEMMA StepChangesEntry ==
  ASSUME NEW a \in Agents, Step(a)
  PROVE  Caching(a) \/ UNCHANGED <<complete, binary>>
<1> USE DEF Caching, entryVars
<1>1. CASE \/ RegistryMetadata(a) \/ DownloadArchive(a) \/ FetchSums(a)
           \/ CheckSignature(a) \/ CheckDigest(a)
  BY <1>1 DEF RegistryMetadata, DownloadArchive, FetchSums, CheckSignature,
              CheckDigest
<1>2. CASE \/ ResolveVersion(a) \/ FindLocalTool(a) \/ ExtractZip(a)
           \/ CacheClear(a) \/ CopyStarts(a) \/ CopyEnds(a) \/ MarkComplete(a)
  BY <1>2 DEF ResolveVersion, FindLocalTool, ExtractZip, CacheClear,
              CopyStarts, CopyEnds, MarkComplete
<1>3. CASE \/ LocatePacker(a) \/ CheckRecord(a) \/ CompareRelease(a)
           \/ HashBinary(a) \/ RenameRecord(a) \/ Finish(a)
  BY <1>3 DEF LocatePacker, CheckRecord, CompareRelease, HashBinary,
              RenameRecord, Finish
<1> QED
  BY <1>1, <1>2, <1>3 DEF Step

\* While a run that hit the cache is active, nobody changes the entry it uses.
THEOREM HitsKeepTheEntry ==
  ASSUME ~Concurrent
  PROVE  Spec => HitKeepsEntry
<1>1. TrustInvariant /\ [Next]_vars =>
        [\A a \in Agents : Active(a) /\ hit[a] => UNCHANGED <<complete, binary>>]_vars
  <2> SUFFICES ASSUME TrustInvariant, Next, NEW a \in Agents, Active(a), hit[a]
               PROVE  UNCHANGED <<complete, binary>>
    OBVIOUS
  <2>1. ASSUME NEW b \in Agents, Step(b)
        PROVE  UNCHANGED <<complete, binary>>
    <3>1. Active(b)
      BY <2>1, StepIsActive
    <3>2. ~Caching(b)
      BY <3>1 DEF TrustInvariant, Alone, Trust, StepsFitTheRun
    <3> QED
      BY <2>1, <3>2, StepChangesEntry
  <2>2. ASSUME NEW b \in Agents, NEW p \in Policies, Start(b, p)
        PROVE  UNCHANGED <<complete, binary>>
    BY <2>2 DEF Start, entryVars
  <2>3. CASE Environment
    BY <2>3 DEF Environment, Kill, DamageBinary, DamageRecord, DeleteEntry,
                AtRest, entryVars
  <2> QED
    BY <2>1, <2>2, <2>3 DEF Next
<1> QED
  BY <1>1, TrustHolds, PTL DEF Spec, HitKeepsEntry

-----------------------------------------------------------------------------
\* What overlapping runs cannot take from one another.

\* The part of Trust that speaks of the run's own variables, and of what was
\* vouched for.
OwnTrust(a) ==
  /\ VerifiedMeansVouched(a) /\ StepsFitTheRun(a)
  /\ policy[a].requireOnline => ~Degraded(a)

\* A strategy that fails ends the run or has it degrade.
LEMMA FailingStrategyKeepsOwnTrust ==
  ASSUME TypeOK, NEW a \in Agents, OwnTrust(a), pc[a] \in Strategy,
         NEW kind, StrategyFails(a, kind), UNCHANGED <<inputVars, verified, vouched>>
  PROVE  OwnTrust(a)'
<1>1. ~verified[a]
  BY DEF OwnTrust, VerifiedMeansVouched, Fetching
<1>2. /\ pc'[a] \in {"finish", "failed"}
      /\ policy[a].requireOnline => warned'[a] = warned[a]
  BY DEF TypeOK, StrategyFails, Fail, Goto, Warn
<1> QED
  BY <1>1, <1>2 DEF OwnTrust, VerifiedMeansVouched, StepsFitTheRun, Degraded, Fetching,
       Caching, Strategy, inputVars

\* Only a permissive fresh install goes on without a checksum.
LEMMA UncoveredKeepsOwnTrust ==
  ASSUME TypeOK, NEW a \in Agents, OwnTrust(a), pc[a] \in Strategy,
         Uncovered(a), UNCHANGED <<inputVars, verified, vouched>>
  PROVE  OwnTrust(a)'
<1>1. CASE ~MayInstallUncovered(a)
  BY <1>1, FailingStrategyKeepsOwnTrust DEF Uncovered
<1>2. CASE MayInstallUncovered(a)
  <2>1. pc'[a] = "extract" /\ warned'[a] = warned[a] \cup {"unverified"}
    BY <1>2 DEF TypeOK, Uncovered, Goto, Warn
  <2>2. ~verified[a] /\ ~policy[a].requireChecksum /\ ~hit[a]
    BY <1>2 DEF TypeOK, MayInstallUncovered, OwnTrust, VerifiedMeansVouched,
                StepsFitTheRun, Fetching
  <2>3. Degraded(a)' => Degraded(a)
    BY <2>1 DEF Degraded
  <2> QED
    BY <2>1, <2>2, <2>3 DEF OwnTrust, VerifiedMeansVouched, StepsFitTheRun, Fetching,
         Caching, Strategy, inputVars
<1> QED
  BY <1>1, <1>2

\* One step of a run keeps what it knows by itself.
LEMMA StepKeepsOwnTrust ==
  ASSUME TypeOK, NEW a \in Agents, OwnTrust(a), Step(a)
  PROVE  OwnTrust(a)'
<1> USE DEF TypeOK, OwnTrust, VerifiedMeansVouched, StepsFitTheRun, Degraded, Fetching,
            Caching, Strategy, Goto, Fail, Warn, inputVars, localVars, trustVars
<1>1. CASE ResolveVersion(a) \/ FindLocalTool(a)
  BY <1>1 DEF ResolveVersion, FindLocalTool, FirstStep
<1>2. CASE ExtractZip(a)
  BY <1>2 DEF ExtractZip
<1>3. CASE CacheClear(a) \/ CopyStarts(a)
  BY <1>3 DEF CacheClear, CopyStarts
<1>4. CASE CopyEnds(a) \/ MarkComplete(a)
  BY <1>4 DEF CopyEnds, MarkComplete
<1>5. CASE LocatePacker(a)
  BY <1>5 DEF LocatePacker
<1>6. CASE CheckRecord(a)
  BY <1>6 DEF CheckRecord, FirstStep
<1>7. CASE CompareRelease(a) \/ Finish(a)
  BY <1>7 DEF CompareRelease, Finish
<1>8. CASE HashBinary(a) \/ RenameRecord(a)
  BY <1>8 DEF HashBinary, RenameRecord
<1>9. CASE RegistryMetadata(a) \/ DownloadArchive(a)
  <2>1. CASE \E kind : StrategyFails(a, kind)
    BY <1>9, <2>1, FailingStrategyKeepsOwnTrust DEF RegistryMetadata, DownloadArchive
  <2>2. CASE pc'[a] \in Strategy /\ UNCHANGED warned
    BY <1>9, <2>2 DEF RegistryMetadata, DownloadArchive
  <2> QED
    BY <1>9, <2>1, <2>2 DEF RegistryMetadata, DownloadArchive
<1>10. CASE FetchSums(a) \/ CheckSignature(a)
  <2>1. CASE (\E kind : StrategyFails(a, kind)) \/ Uncovered(a)
    BY <1>10, <2>1, FailingStrategyKeepsOwnTrust, UncoveredKeepsOwnTrust
       DEF FetchSums, CheckSignature
  <2>2. CASE /\ pc'[a] \in {"signature", "digest"} /\ UNCHANGED zip
             /\ warned'[a] \in {warned[a], warned[a] \cup {"checksumOnly"}}
    <3>1. Degraded(a)' => Degraded(a)
      BY <2>2
    <3> QED
      BY <1>10, <2>2, <3>1 DEF FetchSums, CheckSignature
  <2> QED
    BY <1>10, <2>1, <2>2 DEF FetchSums, CheckSignature
<1>11. CASE CheckDigest(a)
  <2>1. CASE DigestMatches(a)
    <3>1. /\ pc'[a] = "extract" /\ verified'[a] /\ zip'[a] \in vouched'
          /\ warned'[a] \in {warned[a], warned[a] \cup {"checksumOnly"}}
      BY <2>1 DEF DigestMatches
    <3>2. Degraded(a)' => Degraded(a)
      BY <3>1
    <3> QED
      BY <1>11, <3>1, <3>2 DEF CheckDigest
  <2>2. CASE DigestDiffers(a) \/ DigestUnreadable(a)
    BY <1>11, <2>2, FailingStrategyKeepsOwnTrust
       DEF CheckDigest, DigestDiffers, DigestUnreadable
  <2>3. CASE Uncovered(a) /\ UNCHANGED <<verified, trustVars>>
    BY <1>11, <2>3, UncoveredKeepsOwnTrust DEF CheckDigest
  <2> QED
    BY <1>11, <2>1, <2>2, <2>3 DEF CheckDigest
<1> QED
  BY <1>1, <1>2, <1>3, <1>4, <1>5, <1>6, <1>7, <1>8, <1>9, <1>10, <1>11 DEF Step

\* Whether or not runs overlap, what a run verified is its own affair: it takes
\* for verified only an archive that it matched itself, a strict run caches and
\* compares nothing else, and one that insists on the network never degrades.
THEOREM OwnTrustHolds == Spec => [](\A a \in Agents : OwnTrust(a))
<1> USE DEF OwnTrust, VerifiedMeansVouched, StepsFitTheRun, Degraded, Fetching, Caching,
            Strategy
<1>1. Init => \A a \in Agents : OwnTrust(a)
  BY DEF Init
<1>2. TypeOK /\ (\A a \in Agents : OwnTrust(a)) /\ [Next]_vars
        => (\A a \in Agents : OwnTrust(a))'
  <2> SUFFICES ASSUME TypeOK, \A b \in Agents : OwnTrust(b), [Next]_vars, NEW a \in Agents
               PROVE  OwnTrust(a)'
    OBVIOUS
  <2>1. ASSUME NEW b \in Agents, Step(b)
        PROVE  OwnTrust(a)'
    <3>1. CASE a = b
      BY <2>1, <3>1, StepKeepsOwnTrust
    <3>2. CASE a # b
      <4>1. OthersKeep(b) /\ vouched \subseteq vouched'
        BY <2>1, StepIsActive, StepKeepsOthers
      <4> QED
        BY <3>2, <4>1 DEF OthersKeep
    <3> QED
      BY <3>1, <3>2
  <2>2. ASSUME NEW b \in Agents, NEW p \in Policies, Start(b, p)
        PROVE  OwnTrust(a)'
    BY <2>2 DEF TypeOK, Start, Goto
  <2>3. ASSUME NEW b \in Agents, Kill(b)
        PROVE  OwnTrust(a)'
    BY <2>3 DEF TypeOK, Kill, Fail, Goto, inputVars, localVars, trustVars
  <2>4. CASE DamageBinary \/ DamageRecord \/ DeleteEntry
    BY <2>4 DEF DamageBinary, DamageRecord, DeleteEntry, inputVars, localVars, trustVars
  <2>5. CASE UNCHANGED vars
    BY <2>5 DEF vars, entryVars, inputVars, localVars, trustVars
  <2> QED
    BY <2>1, <2>2, <2>3, <2>4, <2>5 DEF Next, Environment
<1> QED
  BY <1>1, <1>2, TypeCorrect, PTL DEF Spec

-----------------------------------------------------------------------------
\* Runs that overlap, where every one of them demands a checksum.

ChecksumsDemanded == \A p \in Policies : p.requireChecksum

\* What such runs may leave in the entry.
Sound(c) == c \in vouched \cup {Partial, NoPacker, Missing}

\* Where a miss is from its lookup to its end.
Filling(a) ==
  ~hit[a] /\ (pc[a] \in Strategy \cup {"extract", "locate"} \/ Caching(a))

\* The binary was put there by such runs, wherever a run relies on it.
EntryIsSound(a) ==
  /\ policy[a].requireChecksum
  /\ Filling(a) \/ pc[a] \in {"hash", "rename"} => Sound(binary)
  /\ pc[a] = "finish" /\ ~Degraded(a) => Sound(binary)
  /\ pc[a] = "rename" => digest[a] \in vouched \cup {Partial}
  /\ pc[a] = "done" /\ ~Degraded(a) => ran[a] \in vouched \cup {Partial}

\* An entry that is not complete was never anybody else's.
SharedInvariant ==
  /\ WellFormed(record) => record \in vouched \cup {Partial}
  /\ ~complete => Sound(binary)
  /\ \A a \in Agents : EntryIsSound(a)

\* The property: with nobody permissive about, overlapping costs no more than a
\* record of, or a run with, a file that another run was still copying.
OverlapMixesNoPolicies ==
  /\ WellFormed(record) => record \in vouched \cup {Partial}
  /\ \A a \in Agents : pc[a] = "done" /\ ~Degraded(a) => ran[a] \in vouched \cup {Partial}
  /\ StrictRunRecordsVouched

\* A step of such a run changes the binary into something sound only.
LEMMA StepLeavesSound ==
  ASSUME TypeOK, NEW a \in Agents, OwnTrust(a), policy[a].requireChecksum, Step(a)
  PROVE  /\ binary' = binary \/ Sound(binary)'
         /\ Sound(binary) => Sound(binary)'
<1>1. vouched \subseteq vouched'
  BY StepIsActive
<1>2. CASE UNCHANGED binary
  BY <1>1, <1>2 DEF Sound
<1>3. CASE CacheClear(a) \/ CopyStarts(a) \/ CopyEnds(a)
  <2>1. pc[a] = "copying" => zip[a] \in vouched
    BY DEF OwnTrust, VerifiedMeansVouched, StepsFitTheRun, Caching, TypeOK
  <2>2. binary' \in {binary, Missing, NoPacker, Partial} \/ (pc[a] = "copying" /\ binary' = zip[a])
    BY <1>3 DEF CacheClear, CopyStarts, CopyEnds, entryVars
  <2> QED
    BY <1>1, <2>1, <2>2 DEF Sound
<1>4. \/ UNCHANGED binary
      \/ CacheClear(a) \/ CopyStarts(a) \/ CopyEnds(a)
  <2>1. CASE \/ RegistryMetadata(a) \/ DownloadArchive(a) \/ FetchSums(a)
             \/ CheckSignature(a) \/ CheckDigest(a)
    BY <2>1 DEF RegistryMetadata, DownloadArchive, FetchSums, CheckSignature, CheckDigest,
                entryVars
  <2>2. CASE \/ ResolveVersion(a) \/ FindLocalTool(a) \/ ExtractZip(a)
             \/ MarkComplete(a) \/ LocatePacker(a) \/ CheckRecord(a)
    BY <2>2 DEF ResolveVersion, FindLocalTool, ExtractZip, MarkComplete, LocatePacker,
                CheckRecord, entryVars
  <2>3. CASE \/ CompareRelease(a) \/ HashBinary(a) \/ RenameRecord(a) \/ Finish(a)
    BY <2>3 DEF CompareRelease, HashBinary, RenameRecord, Finish, entryVars
  <2> QED
    BY <2>1, <2>2, <2>3 DEF Step
<1> QED
  BY <1>2, <1>3, <1>4

\* A step keeps what is said of the entry, and of the run that takes it.
LEMMA StepKeepsSoundEntry ==
  ASSUME TypeOK, NEW a \in Agents, OwnTrust(a), EntryIsSound(a), Step(a),
         WellFormed(record) => record \in vouched \cup {Partial},
         ~complete => Sound(binary)
  PROVE  /\ WellFormed(record') => record' \in vouched' \cup {Partial}
         /\ ~complete' => Sound(binary)'
         /\ EntryIsSound(a)'
<1> USE DEF TypeOK, EntryIsSound, Filling, Caching, Strategy, Degraded, WellFormed, Goto, Fail,
            Warn, entryVars, inputVars, localVars, trustVars
<1>1. /\ binary' = binary \/ Sound(binary)'
      /\ Sound(binary) => Sound(binary)'
      /\ vouched \subseteq vouched'
  BY StepLeavesSound, StepIsActive
<1>2. CASE ResolveVersion(a) \/ FindLocalTool(a)
  BY <1>1, <1>2 DEF ResolveVersion, FindLocalTool, FirstStep
<1>3. CASE ExtractZip(a)
  BY <1>1, <1>3 DEF ExtractZip
<1>4. CASE CacheClear(a)
  BY <1>1, <1>4 DEF CacheClear, Sound
<1>5. CASE CopyStarts(a) \/ CopyEnds(a)
  BY <1>1, <1>5 DEF CopyStarts, CopyEnds
<1>6. CASE MarkComplete(a)
  BY <1>1, <1>6 DEF MarkComplete
<1>7. CASE LocatePacker(a)
  <2>1. hit[a] \/ verified[a]
    BY <1>7 DEF LocatePacker, OwnTrust, StepsFitTheRun
  <2> QED
    BY <1>1, <1>7, <2>1 DEF LocatePacker
<1>8. CASE CheckRecord(a)
  <2>1. pc'[a] = "finish" => record = binary /\ WellFormed(record)
    BY <1>8 DEF CheckRecord, FirstStep
  <2>2. pc'[a] \in Strategy \cup {"finish", "failed"} /\ hit'[a] /\ hit[a]
    BY <1>8 DEF CheckRecord, FirstStep, OwnTrust, StepsFitTheRun
  <2> QED
    BY <1>1, <1>8, <2>1, <2>2 DEF CheckRecord, Sound
<1>9. CASE CompareRelease(a)
  <2>1. zip[a] \in vouched
    BY <1>9 DEF CompareRelease, OwnTrust, StepsFitTheRun, VerifiedMeansVouched
  <2> QED
    BY <1>1, <1>9, <2>1 DEF CompareRelease, Sound
<1>10. CASE HashBinary(a)
  BY <1>1, <1>10 DEF HashBinary, HasPacker, Sound
<1>11. CASE RenameRecord(a)
  BY <1>1, <1>11 DEF RenameRecord
<1>12. CASE Finish(a)
  BY <1>1, <1>12 DEF Finish, HasPacker, Sound
<1>13. CASE \/ RegistryMetadata(a) \/ DownloadArchive(a) \/ FetchSums(a)
            \/ CheckSignature(a) \/ CheckDigest(a)
  <2>1. UNCHANGED <<entryVars, inputVars, digest>> /\ pc[a] \in Strategy
    BY <1>13 DEF RegistryMetadata, DownloadArchive, FetchSums, CheckSignature, CheckDigest
  <2>2. \/ pc'[a] \in Strategy \cup {"extract", "failed"}
        \/ pc'[a] = "finish" /\ Degraded(a)'
    <3>1. ASSUME NEW kind \in {"unreachable", "disk", "verification"}, StrategyFails(a, kind)
          PROVE  \/ pc'[a] = "failed"
                 \/ pc'[a] = "finish" /\ Degraded(a)'
      <4>1. \/ pc'[a] = "failed"
            \/ pc'[a] = "finish" /\ kind \in warned'[a] /\ kind \in {"unreachable", "disk"}
        BY <3>1 DEF StrategyFails
      <4> QED
        BY <4>1
    <3>2. Uncovered(a) => pc'[a] = "extract" \/ StrategyFails(a, "verification")
      BY DEF Uncovered
    <3> QED
      BY <1>13, <3>1, <3>2 DEF RegistryMetadata, DownloadArchive, FetchSums, CheckSignature,
         CheckDigest, DigestMatches, DigestDiffers, DigestUnreadable
  <2> QED
    BY <1>1, <2>1, <2>2
<1> QED
  BY <1>2, <1>3, <1>4, <1>5, <1>6, <1>7, <1>8, <1>9, <1>10, <1>11, <1>12, <1>13 DEF Step

\* Where every run demands a checksum, runs that overlap on one tool directory
\* do each other no harm but by a file that is being copied: a record names a
\* vouched binary, or such a file, and so does what a run that did not degrade
\* uses (packer-installer.ts 218-304).
THEOREM OverlapIsHarmlessToStrictRuns ==
  ASSUME ChecksumsDemanded
  PROVE  Spec => []OverlapMixesNoPolicies
<1>1. Init => SharedInvariant
  <2> SUFFICES ASSUME Init PROVE SharedInvariant
    OBVIOUS
  <2>1. (CHOOSE p \in Policies : TRUE) \in Policies
    BY ConstantsAssumption
  <2>2. ~complete => Sound(binary)
    BY DEF Init, Sound
  <2> QED
    BY <2>1, <2>2 DEF Init, SharedInvariant, EntryIsSound, Filling, Caching, Strategy,
       WellFormed, ChecksumsDemanded
<1>2. TypeOK /\ (\A a \in Agents : OwnTrust(a)) /\ SharedInvariant /\ [Next]_vars
        => SharedInvariant'
  <2> SUFFICES ASSUME TypeOK, \A a \in Agents : OwnTrust(a), SharedInvariant, [Next]_vars
               PROVE  SharedInvariant'
    OBVIOUS
  <2>1. ASSUME NEW a \in Agents, Step(a)
        PROVE  SharedInvariant'
    <3>1. /\ WellFormed(record') => record' \in vouched' \cup {Partial}
          /\ ~complete' => Sound(binary)'
          /\ EntryIsSound(a)'
      BY <2>1, StepKeepsSoundEntry DEF SharedInvariant
    <3>2. ASSUME NEW b \in Agents \ {a}
          PROVE  EntryIsSound(b)'
      <4>1. OthersKeep(a) /\ vouched \subseteq vouched' /\ (Sound(binary) => Sound(binary)')
        BY <2>1, StepIsActive, StepKeepsOthers, StepLeavesSound DEF SharedInvariant, EntryIsSound
      <4> QED
        BY <4>1 DEF SharedInvariant, EntryIsSound, Filling, Caching, Degraded, OthersKeep
    <3> QED
      BY <3>1, <3>2 DEF SharedInvariant, WellFormed
  <2>2. ASSUME NEW a \in Agents, NEW p \in Policies, Start(a, p)
        PROVE  SharedInvariant'
    <3>1. UNCHANGED <<complete, binary, record, vouched>> /\ p.requireChecksum
      BY <2>2 DEF Start, entryVars, ChecksumsDemanded
    <3>2. ASSUME NEW b \in Agents
          PROVE  EntryIsSound(b)'
      BY <2>2, <3>1 DEF TypeOK, Start, Goto, SharedInvariant, EntryIsSound, Filling, Caching,
         Strategy, Degraded, Sound
    <3> QED
      BY <3>1, <3>2 DEF SharedInvariant, WellFormed, Sound
  <2>3. ASSUME NEW a \in Agents, Kill(a)
        PROVE  SharedInvariant'
    BY <2>3 DEF TypeOK, Kill, Fail, Goto, entryVars, inputVars, localVars, trustVars,
       SharedInvariant, EntryIsSound, Filling, Caching, Strategy, Degraded, Sound, WellFormed
  <2>4. CASE DamageBinary \/ DamageRecord \/ DeleteEntry
    <3>1. /\ UNCHANGED <<pc, policy, hit, digest, warned, ran, vouched>>
          /\ \A a \in Agents : ~Active(a)
          /\ record' \in {record, Torn, Missing}
          /\ ~complete' => binary' = Missing
      BY <2>4 DEF DamageBinary, DamageRecord, DeleteEntry, AtRest, inputVars, localVars, trustVars
    <3> QED
      BY <3>1 DEF SharedInvariant, EntryIsSound, Filling, Caching, Strategy, Degraded, Sound,
         WellFormed, Active, Ended
  <2>5. CASE UNCHANGED vars
    BY <2>5 DEF vars, entryVars, inputVars, localVars, trustVars, SharedInvariant, EntryIsSound,
       Filling, Caching, Degraded, Sound, WellFormed
  <2> QED
    BY <2>1, <2>2, <2>3, <2>4, <2>5 DEF Next, Environment
<1>3. SharedInvariant => OverlapMixesNoPolicies
  BY DEF SharedInvariant, EntryIsSound, OverlapMixesNoPolicies, StrictRunRecordsVouched
<1> QED
  BY <1>1, <1>2, <1>3, TypeCorrect, OwnTrustHolds, PTL DEF Spec

-----------------------------------------------------------------------------
\* Progress, overlapping runs included.

\* The steps that are left to a run at most.  A hit locates the executable
\* before its verification, a miss after it.
Rank(a) ==
  CASE pc[a] = "resolve"   -> 18
    [] pc[a] = "lookup"    -> 17
    [] pc[a] = "locate"    -> IF hit[a] THEN 16 ELSE 4
    [] pc[a] = "check"     -> 15
    [] pc[a] = "metadata"  -> 14
    [] pc[a] = "download"  -> 13
    [] pc[a] = "sums"      -> 12
    [] pc[a] = "signature" -> 11
    [] pc[a] = "digest"    -> 10
    [] pc[a] = "extract"   -> 9
    [] pc[a] = "clear"     -> 8
    [] pc[a] = "copy"      -> 7
    [] pc[a] = "copying"   -> 6
    [] pc[a] = "mark"      -> 5
    [] pc[a] = "compare"   -> 4
    [] pc[a] = "hash"      -> 3
    [] pc[a] = "rename"    -> 2
    [] pc[a] = "finish"    -> 1
    [] OTHER               -> 0

\* While a run is active its own steps bring it nearer to its end, and what is
\* not a step of its own leaves it where it is or ends it.
MovesForward(a) ==
  Active(a) => Rank(a)' < Rank(a) \/ (Rank(a)' = Rank(a) /\ ~Step(a))

\* A strategy that fails skips what is left of the verification.
LEMMA FailingStrategyMovesForward ==
  ASSUME TypeOK, NEW a \in Agents, pc[a] \in Strategy, NEW kind, StrategyFails(a, kind)
  PROVE  Rank(a)' < Rank(a)
BY DEF TypeOK, StrategyFails, Fail, Goto, Strategy, Rank

\* So does an archive that no checksum covers, installed or rejected.
LEMMA UncoveredMovesForward ==
  ASSUME TypeOK, NEW a \in Agents, pc[a] \in Strategy, Uncovered(a)
  PROVE  Rank(a)' < Rank(a)
<1>1. CASE MayInstallUncovered(a)
  BY <1>1 DEF TypeOK, Uncovered, Goto, Strategy, Rank
<1>2. CASE ~MayInstallUncovered(a)
  BY <1>2, FailingStrategyMovesForward DEF Uncovered
<1> QED
  BY <1>1, <1>2

\* A step of a run brings it nearer to its end.
LEMMA StepMovesForward ==
  ASSUME TypeOK, NEW a \in Agents, OwnTrust(a), Step(a)
  PROVE  Rank(a)' < Rank(a)
<1> USE DEF TypeOK, Goto, Fail
<1>1. CASE ResolveVersion(a) \/ FindLocalTool(a)
  BY <1>1 DEF ResolveVersion, FindLocalTool, FirstStep, Rank
<1>2. CASE RegistryMetadata(a) \/ DownloadArchive(a)
  <2>1. CASE \E kind : StrategyFails(a, kind)
    BY <1>2, <2>1, FailingStrategyMovesForward DEF RegistryMetadata, DownloadArchive, Strategy
  <2>2. CASE ~\E kind : StrategyFails(a, kind)
    BY <1>2, <2>2 DEF RegistryMetadata, DownloadArchive, Rank
  <2> QED
    BY <2>1, <2>2
<1>3. CASE FetchSums(a) \/ CheckSignature(a) \/ CheckDigest(a)
  <2>1. CASE (\E kind : StrategyFails(a, kind)) \/ Uncovered(a)
    BY <1>3, <2>1, FailingStrategyMovesForward, UncoveredMovesForward
       DEF FetchSums, CheckSignature, CheckDigest, Strategy
  <2>2. CASE ~((\E kind : StrategyFails(a, kind)) \/ Uncovered(a))
    <3>1. \/ pc[a] = "sums" /\ pc'[a] = "signature"
          \/ pc[a] = "signature" /\ pc'[a] = "digest"
          \/ pc[a] = "digest" /\ pc'[a] = "extract"
      BY <1>3, <2>2 DEF FetchSums, CheckSignature, CheckDigest, DigestMatches,
                        DigestDiffers, DigestUnreadable
    <3> QED
      BY <3>1 DEF Rank
  <2> QED
    BY <2>1, <2>2
<1>4. CASE ExtractZip(a)
  BY <1>4 DEF ExtractZip, Rank
<1>5. CASE CacheClear(a) \/ CopyStarts(a) \/ CopyEnds(a) \/ MarkComplete(a)
  <2>1. \/ pc[a] \in {"clear", "copy", "copying"} /\ pc'[a] = "failed"
        \/ pc[a] = "clear" /\ pc'[a] = "copy"
        \/ pc[a] = "copy" /\ pc'[a] = "copying"
        \/ pc[a] = "copying" /\ pc'[a] = "mark"
        \/ pc[a] = "mark" /\ pc'[a] = "locate" /\ hit'[a] = hit[a]
    BY <1>5 DEF CacheClear, CopyStarts, CopyEnds, MarkComplete, inputVars
  <2>2. pc[a] = "mark" => ~hit[a]
    BY DEF OwnTrust, StepsFitTheRun, Caching
  <2> QED
    BY <2>1, <2>2 DEF Rank
<1>6. CASE LocatePacker(a)
  BY <1>6 DEF LocatePacker, Rank
<1>7. CASE CheckRecord(a)
  BY <1>7 DEF CheckRecord, FirstStep, Rank
<1>8. CASE CompareRelease(a) \/ HashBinary(a) \/ RenameRecord(a) \/ Finish(a)
  BY <1>8 DEF CompareRelease, HashBinary, RenameRecord, Finish, Rank
<1> QED
  BY <1>1, <1>2, <1>3, <1>4, <1>5, <1>6, <1>7, <1>8 DEF Step

\* A run only ever moves towards its end: whatever fails, however runs overlap
\* and whatever the environment does, it takes at most 18 steps, and what is not
\* a step of its own leaves it where it is or ends it (downloadPacker 192-304).
THEOREM RunsOnlyMoveForward == Spec => [][\A a \in Agents : MovesForward(a)]_vars
<1>1. TypeOK /\ (\A a \in Agents : OwnTrust(a)) /\ [Next]_vars
        => [\A a \in Agents : MovesForward(a)]_vars
  <2> SUFFICES ASSUME TypeOK, \A b \in Agents : OwnTrust(b), Next, 
                      NEW a \in Agents, Active(a), ~Step(a)
               PROVE  Rank(a)' < Rank(a) \/ Rank(a)' = Rank(a)
    BY StepMovesForward DEF MovesForward
  <2>1. ASSUME NEW b \in Agents, b # a, Step(b)
        PROVE  Rank(a)' = Rank(a)
    BY <2>1, StepKeepsOthers DEF OthersKeep, Rank
  <2>2. ASSUME NEW b \in Agents, NEW p \in Policies, Start(b, p)
        PROVE  Rank(a)' = Rank(a)
    BY <2>2 DEF TypeOK, Start, Goto, Rank
  <2>3. ASSUME NEW b \in Agents, Kill(b)
        PROVE  Rank(a)' < Rank(a) \/ Rank(a)' = Rank(a)
    <3>1. CASE a = b
      <4>1. pc'[a] = "failed"
        BY <2>3, <3>1 DEF TypeOK, Kill, Fail, Goto
      <4>2. Rank(a)' = 0
        BY <4>1 DEF Rank
      <4>3. Rank(a) > 0
        BY DEF TypeOK, Active, Ended, Strategy, Steps, Rank
      <4> QED
        BY <4>2, <4>3
    <3>2. CASE a # b
      BY <2>3, <3>2 DEF TypeOK, Kill, Fail, Goto, inputVars, Rank
    <3> QED
      BY <3>1, <3>2
  <2>4. CASE DamageBinary \/ DamageRecord \/ DeleteEntry
    BY <2>4 DEF DamageBinary, DamageRecord, DeleteEntry, inputVars, Rank
  <2> QED
    BY <2>1, <2>2, <2>3, <2>4 DEF Next, Environment
<1> QED
  BY <1>1, TypeCorrect, OwnTrustHolds, PTL DEF Spec

=============================================================================
