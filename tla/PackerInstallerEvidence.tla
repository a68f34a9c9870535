----------------------- MODULE PackerInstallerEvidence -----------------------
(***************************************************************************)
(* What a successful run of PackerInstaller has to show for the binary it  *)
(* uses, and when it may cry wolf, for every set of agents, policies,      *)
(* faults and binaries.                                                    *)
(***************************************************************************)
EXTENDS PackerInstallerProofs

-----------------------------------------------------------------------------
\* The inductive invariant, on top of TrustInvariant.

\* What the warnings and the mirror's toggles say of the contents c.
Shown(a, c) ==
  /\ warned[a] = {} => c \in signed
  /\ policy[a].source = "mirror" =>
       /\ policy[a].requireChecksum \/ policy[a].requireGpg => c \in vouched
       /\ policy[a].requireGpg => c \in signed

\* A miss past its verification.
Installing(a) ==
  /\ ~hit[a]
  /\ pc[a] \in {"extract", "locate", "hash", "rename", "finish"} \/ Caching(a)

\* The signature is settled before the digest, and is about this archive.
ArchiveIsShown(a) ==
  /\ pc[a] \in {"sums", "signature"} => policy[a].source # "registry"
  /\ pc[a] = "digest" /\ policy[a].source # "registry" =>
       /\ gpg[a] \/ warned[a] # {}
       /\ policy[a].requireGpg => gpg[a]
  /\ Installing(a) => Shown(a, zip[a])
  /\ ~hit[a] /\ pc[a] = "done" => Shown(a, ran[a])

\* What a miss installed stays what it verified, and is what it records.
EntryIsArchive(a) ==
  /\ ~hit[a] /\ pc[a] \in {"mark", "locate", "hash", "rename", "finish"}
       => binary = zip[a]
  /\ pc[a] \in {"copy", "copying"} => record = Missing
  /\ pc[a] = "rename" => digest[a] = binary

\* A hit that is forced online comes to its end through the comparison.
HitIsCompared(a) ==
  /\ hit[a] /\ pc[a] \in {"extract", "compare"} => checked[a] = zip[a]
  /\ hit[a] /\ policy[a].forceOnline /\ policy[a].requireChecksum =>
       /\ pc[a] \in {"hash", "rename", "finish"}
            => checked[a] = binary \/ Degraded(a)
       /\ pc[a] = "done" => checked[a] = ran[a] \/ Degraded(a)

NoFailureYet(a) == Active(a) => failure[a] = "none"

Evidence(a) ==
  ArchiveIsShown(a) /\ EntryIsArchive(a) /\ HitIsCompared(a) /\ NoFailureYet(a)

\* A record differs from the binary only when the binary was damaged.
RecordIsOfBinary == WellFormed(record) => record = binary \/ damaged

EvidenceInvariant == RecordIsOfBinary /\ \A a \in Agents : Evidence(a)

-----------------------------------------------------------------------------
\* A step of a run.

\* Signatures and a run's own comparison outlast the steps of others.
LEMMA StepKeepsEvidenceOfOthers ==
  ASSUME TypeOK, NEW a \in Agents, Step(a)
  PROVE  /\ signed \subseteq signed'
         /\ \A b \in Agents \ {a} : checked'[b] = checked[b] /\ failure'[b] = failure[b]
<1> USE DEF inputVars, localVars, trustVars, Goto, Fail, Warn, StrategyFails,
            Discard, Uncovered
<1>1. CASE RegistryMetadata(a) \/ DownloadArchive(a) \/ FetchSums(a)
  BY <1>1 DEF TypeOK, RegistryMetadata, DownloadArchive, FetchSums
<1>2. CASE CheckSignature(a) \/ CheckDigest(a)
  BY <1>2 DEF TypeOK, CheckSignature, CheckDigest, DigestMatches,
              DigestDiffers, DigestUnreadable
<1>3. CASE \/ ResolveVersion(a) \/ FindLocalTool(a) \/ ExtractZip(a)
           \/ CacheClear(a) \/ CopyStarts(a) \/ CopyEnds(a) \/ MarkComplete(a)
  BY <1>3 DEF TypeOK, ResolveVersion, FindLocalTool, ExtractZip, CacheClear,
              CopyStarts, CopyEnds, MarkComplete
<1>4. CASE \/ LocatePacker(a) \/ CheckRecord(a) \/ CompareRelease(a)
           \/ HashBinary(a) \/ RenameRecord(a) \/ Finish(a)
  BY <1>4 DEF TypeOK, LocatePacker, CheckRecord, CompareRelease, HashBinary,
              RenameRecord, Finish
<1> QED
  BY <1>1, <1>2, <1>3, <1>4 DEF Step

\* What is said of a run that has ended is about its own locals and about
\* what is vouched for and signed.
LEMMA EndedRunsKeepEvidence ==
  ASSUME NEW a \in Agents, NEW b \in Agents \ {a}, Evidence(b), ~Active(b),
         OthersKeep(a), vouched \subseteq vouched', signed \subseteq signed',
         checked'[b] = checked[b]
  PROVE  Evidence(b)'
  BY DEF Evidence, ArchiveIsShown, EntryIsArchive, HitIsCompared, NoFailureYet,
         Shown, Installing, Caching, Degraded, Active, Ended, OthersKeep

\* A strategy that fails ends a miss; a hit it leaves with the cached binary
\* has a warning for it.
LEMMA FailingStrategyKeepsEvidence ==
  ASSUME TypeOK, NEW a \in Agents, Evidence(a), pc[a] \in Strategy,
         NEW kind \in {"unreachable", "disk", "verification"},
         StrategyFails(a, kind), UNCHANGED inputVars
  PROVE  Evidence(a)'
<1>1. CASE hit[a] /\ kind # "verification" /\ ~policy[a].requireOnline
  <2>1. /\ pc'[a] = "finish" /\ kind \in warned'[a]
        /\ hit'[a] /\ policy' = policy /\ failure' = failure
    BY <1>1 DEF TypeOK, StrategyFails, Goto, Warn, inputVars
  <2>2. Degraded(a)'
    BY <1>1, <2>1 DEF Degraded
  <2>3. failure'[a] = "none"
    BY <2>1 DEF Evidence, NoFailureYet, Active, Ended, Strategy
  <2> QED
    BY <2>1, <2>2, <2>3 DEF Evidence, ArchiveIsShown, EntryIsArchive,
         HitIsCompared, NoFailureYet, Installing, Caching
<1>2. CASE ~(hit[a] /\ kind # "verification" /\ ~policy[a].requireOnline)
  <2>1. pc'[a] = "failed"
    BY <1>2 DEF TypeOK, StrategyFails, Fail, Goto
  <2> QED
    BY <2>1 DEF Evidence, ArchiveIsShown, EntryIsArchive, HitIsCompared,
         NoFailureYet, Installing, Caching, Active, Ended
<1> QED
  BY <1>1, <1>2

\* An archive nothing covers is installed on a miss only, with a warning, and
\* for a mirror with both toggles off.
LEMMA UncoveredKeepsEvidence ==
  ASSUME TypeOK, NEW a \in Agents, Trust(a), Evidence(a), pc[a] \in Strategy,
         Uncovered(a), UNCHANGED inputVars
  PROVE  Evidence(a)'
<1>1. CASE MayInstallUncovered(a)
  <2>1. /\ pc'[a] = "extract" /\ "unverified" \in warned'[a]
        /\ hit' = hit /\ policy' = policy /\ failure' = failure
    BY <1>1 DEF TypeOK, Uncovered, Goto, Warn, inputVars
  <2>2. ~hit[a]
    BY <1>1 DEF TypeOK, PolicyRecord, MayInstallUncovered, Trust, StepsFitTheRun
  <2>3. failure'[a] = "none"
    BY <2>1 DEF Evidence, NoFailureYet, Active, Ended, Strategy
  <2>4. Shown(a, zip[a])'
    BY <1>1, <2>1 DEF Shown, MayInstallUncovered
  <2> QED
    BY <2>1, <2>2, <2>3, <2>4 DEF Evidence, ArchiveIsShown, EntryIsArchive,
         HitIsCompared, NoFailureYet
<1>2. CASE ~MayInstallUncovered(a)
  BY <1>2, FailingStrategyKeepsEvidence DEF Uncovered
<1> QED
  BY <1>1, <1>2

\* An archive that matches is shown: under a signature where one was asked
\* for or nothing was warned of.
LEMMA MatchKeepsEvidence ==
  ASSUME TypeOK, NEW a \in Agents, Evidence(a), pc[a] = "digest",
         DigestMatches(a), UNCHANGED <<inputVars, gpg>>
  PROVE  Evidence(a)'
<1>1. /\ pc'[a] = "extract" /\ zip' = zip /\ checked'[a] = zip[a]
      /\ hit' = hit /\ policy' = policy /\ failure' = failure
  BY DEF TypeOK, DigestMatches, Goto, inputVars
<1>2. failure'[a] = "none"
  BY <1>1 DEF Evidence, NoFailureYet, Active, Ended
<1>3. zip[a] \in vouched' /\ (gpg[a] => zip[a] \in signed')
  BY DEF TypeOK, DigestMatches
<1>4. policy[a].source = "registry" => warned'[a] # {}
  BY DEF TypeOK, DigestMatches, Warn
<1>5. warned[a] \subseteq warned'[a]
  BY DEF TypeOK, DigestMatches, Warn
<1>6. Shown(a, zip[a])'
  BY <1>1, <1>3, <1>4, <1>5 DEF Shown, Evidence, ArchiveIsShown
<1> QED
  BY <1>1, <1>2, <1>6 DEF Evidence, ArchiveIsShown, EntryIsArchive,
       HitIsCompared, NoFailureYet

\* Each step of a run keeps the evidence it has so far, action by action.
LEMMA StepKeepsEvidence ==
  ASSUME TypeOK, NEW a \in Agents, Trust(a), Evidence(a), Step(a)
  PROVE  Evidence(a)'
<1> USE DEF Goto, Fail, entryVars, inputVars, localVars, trustVars
<1>1. CASE ResolveVersion(a) \/ FindLocalTool(a)
  BY <1>1 DEF TypeOK, ResolveVersion, FindLocalTool, FirstStep, Evidence,
       ArchiveIsShown, EntryIsArchive, HitIsCompared, NoFailureYet, Installing,
       Caching, Active, Ended
<1>2. CASE ExtractZip(a) \/ CacheClear(a)
  BY <1>2 DEF TypeOK, ExtractZip, CacheClear, Evidence, ArchiveIsShown,
       EntryIsArchive, HitIsCompared, NoFailureYet, Installing, Shown, Caching,
       Active, Ended
<1>3. CASE CopyStarts(a) \/ CopyEnds(a) \/ MarkComplete(a)
  <2>1. ~hit[a]
    BY <1>3 DEF CopyStarts, CopyEnds, MarkComplete, Trust, StepsFitTheRun, Caching
  <2>2. pc[a] = "copying" => a \in copies
    BY DEF Trust, BinaryFitsTheRun
  <2> QED
    BY <1>3, <2>1, <2>2 DEF TypeOK, CopyStarts, CopyEnds, MarkComplete, Evidence,
         ArchiveIsShown, EntryIsArchive, HitIsCompared, NoFailureYet,
         Installing, Shown, Caching, Active, Ended
<1>4. CASE LocatePacker(a)
  BY <1>4 DEF TypeOK, LocatePacker, Evidence, ArchiveIsShown, EntryIsArchive,
       HitIsCompared, NoFailureYet, Installing, Shown, Caching, Active, Ended
<1>5. CASE CheckRecord(a)
  <2>1. hit[a] /\ pc[a] = "check"
    BY <1>5 DEF CheckRecord, Trust, StepsFitTheRun
  <2> QED
    BY <1>5, <2>1 DEF TypeOK, CheckRecord, FirstStep, Evidence, ArchiveIsShown,
         EntryIsArchive, HitIsCompared, NoFailureYet, Installing, Caching,
         Active, Ended
<1>6. CASE CompareRelease(a)
  <2>1. hit[a] /\ pc[a] = "compare"
    BY <1>6 DEF CompareRelease, Trust, StepsFitTheRun
  <2> QED
    BY <1>6, <2>1 DEF TypeOK, CompareRelease, Evidence, ArchiveIsShown,
         EntryIsArchive, HitIsCompared, NoFailureYet, Installing, Caching,
         Active, Ended
<1>7. CASE HashBinary(a) \/ RenameRecord(a)
  BY <1>7 DEF TypeOK, HashBinary, RenameRecord, Evidence, ArchiveIsShown,
       EntryIsArchive, HitIsCompared, NoFailureYet, Installing, Shown, Caching,
       Degraded, Active, Ended
<1>8. CASE Finish(a)
  BY <1>8 DEF TypeOK, Finish, Evidence, ArchiveIsShown, EntryIsArchive,
       HitIsCompared, NoFailureYet, Installing, Shown, Caching, Degraded,
       Active, Ended
<1>9. CASE RegistryMetadata(a) \/ DownloadArchive(a)
  <2>1. CASE StrategyFails(a, "unreachable") \/ StrategyFails(a, "disk")
    BY <1>9, <2>1, FailingStrategyKeepsEvidence
       DEF RegistryMetadata, DownloadArchive, Strategy
  <2>2. CASE UNCHANGED <<warned, failure>>
    BY <1>9, <2>1, <2>2 DEF TypeOK, RegistryMetadata, DownloadArchive, Evidence,
         ArchiveIsShown, EntryIsArchive, HitIsCompared, NoFailureYet,
         Installing, Caching, Active, Ended
  <2> QED
    BY <1>9, <2>1, <2>2 DEF RegistryMetadata, DownloadArchive
<1>10. CASE FetchSums(a)
  <2>1. CASE StrategyFails(a, "unreachable") \/ Uncovered(a)
    BY <1>10, <2>1, FailingStrategyKeepsEvidence, UncoveredKeepsEvidence
       DEF FetchSums, Strategy
  <2>2. CASE pc' = [pc EXCEPT ![a] = "signature"] /\ UNCHANGED <<warned, failure>>
    BY <1>10, <2>2 DEF TypeOK, FetchSums, Evidence, ArchiveIsShown,
         EntryIsArchive, HitIsCompared, NoFailureYet, Installing, Caching,
         Active, Ended
  <2> QED
    BY <1>10, <2>1, <2>2 DEF FetchSums
<1>11. CASE CheckSignature(a)
  <2>1. CASE StrategyFails(a, "unreachable") \/ StrategyFails(a, "verification")
    BY <1>11, <2>1, FailingStrategyKeepsEvidence DEF CheckSignature, Strategy
  <2>2. CASE /\ pc' = [pc EXCEPT ![a] = "digest"] /\ UNCHANGED failure
             /\ \/ gpg' = [gpg EXCEPT ![a] = TRUE]
                \/ ~policy[a].requireGpg /\ Warn(a, "checksumOnly")
    <3>1. gpg'[a] \/ (~policy[a].requireGpg /\ warned'[a] # {})
      BY <2>2 DEF TypeOK, Warn
    <3> QED
      BY <1>11, <2>2, <3>1 DEF TypeOK, CheckSignature, Evidence, ArchiveIsShown,
           EntryIsArchive, HitIsCompared, NoFailureYet, Installing, Caching,
           Active, Ended
  <2> QED
    BY <1>11, <2>1, <2>2 DEF CheckSignature
<1>12. CASE CheckDigest(a)
  <2>1. CASE DigestMatches(a)
    BY <1>12, <2>1, MatchKeepsEvidence DEF CheckDigest
  <2>2. CASE DigestDiffers(a) \/ DigestUnreadable(a)
    BY <1>12, <2>2, FailingStrategyKeepsEvidence
       DEF CheckDigest, DigestDiffers, DigestUnreadable, Strategy
  <2>3. CASE Uncovered(a)
    BY <1>12, <2>3, UncoveredKeepsEvidence DEF CheckDigest, Strategy
  <2> QED
    BY <1>12, <2>1, <2>2, <2>3 DEF CheckDigest
<1> QED
  BY <1>1, <1>2, <1>3, <1>4, <1>5, <1>6, <1>7, <1>8, <1>9, <1>10, <1>11,
     <1>12 DEF Step

\* The record is written from the binary, and goes before the binary does.
LEMMA StepKeepsRecordOfBinary ==
  ASSUME TypeOK, NEW a \in Agents, EntryIsArchive(a), RecordIsOfBinary, Step(a)
  PROVE  RecordIsOfBinary'
<1> USE DEF RecordIsOfBinary, WellFormed, EntryIsArchive, entryVars
<1>1. CASE \/ RegistryMetadata(a) \/ DownloadArchive(a) \/ FetchSums(a)
           \/ CheckSignature(a) \/ CheckDigest(a)
  BY <1>1 DEF RegistryMetadata, DownloadArchive, FetchSums, CheckSignature,
              CheckDigest
<1>2. CASE \/ ResolveVersion(a) \/ FindLocalTool(a) \/ ExtractZip(a)
           \/ CacheClear(a) \/ CopyStarts(a) \/ CopyEnds(a) \/ MarkComplete(a)
  BY <1>2 DEF ResolveVersion, FindLocalTool, ExtractZip, CacheClear,
              CopyStarts, CopyEnds, MarkComplete
<1>3. CASE \/ LocatePacker(a) \/ CheckRecord(a) \/ CompareRelease(a)
           \/ HashBinary(a) \/ RenameRecord(a) \/ Finish(a)
  BY <1>3 DEF LocatePacker, CheckRecord, CompareRelease, HashBinary,
              RenameRecord, Finish
<1> QED
  BY <1>1, <1>2, <1>3 DEF Step

-----------------------------------------------------------------------------
\* The invariant and what follows from it.

\* A new run has nothing to show yet, and the ended ones keep what they have.
LEMMA StartKeepsEvidence ==
  ASSUME ~Concurrent, TypeOK, EvidenceInvariant,
         NEW a \in Agents, NEW p \in Policies, Start(a, p)
  PROVE  EvidenceInvariant'
<1>1. OthersKeep(a) /\ UNCHANGED <<entryVars, vouched, signed, damaged>>
  BY DEF TypeOK, Start, Goto, OthersKeep
<1>2. Evidence(a)'
  BY DEF TypeOK, Start, Goto, Evidence, ArchiveIsShown, EntryIsArchive,
         HitIsCompared, NoFailureYet, Installing, Caching
<1>3. ASSUME NEW b \in Agents \ {a}
      PROVE  Evidence(b)'
  <2>1. ~Active(b) /\ checked'[b] = checked[b]
    BY DEF TypeOK, Start
  <2> QED
    BY <1>1, <2>1, EndedRunsKeepEvidence DEF EvidenceInvariant
<1> QED
  BY <1>1, <1>2, <1>3 DEF EvidenceInvariant, RecordIsOfBinary, WellFormed,
                          entryVars

\* A kill ends a run without success, and damage waits until every run has
\* ended and is on record.
LEMMA EnvironmentKeepsEvidence ==
  ASSUME TypeOK, Alone, EvidenceInvariant, Environment
  PROVE  EvidenceInvariant'
<1>1. ASSUME NEW a \in Agents, Kill(a)
      PROVE  EvidenceInvariant'
  <2>1. /\ OthersKeep(a) /\ Active(a) /\ pc'[a] = "failed"
        /\ UNCHANGED <<complete, binary, record, inputVars, trustVars, damaged>>
    BY <1>1 DEF TypeOK, Kill, Fail, Goto, OthersKeep, inputVars, localVars
  <2>2. Evidence(a)'
    BY <2>1 DEF Evidence, ArchiveIsShown, EntryIsArchive, HitIsCompared,
                NoFailureYet, Installing, Caching, Active, Ended
  <2>3. \A b \in Agents \ {a} : Evidence(b)'
    BY <2>1, EndedRunsKeepEvidence DEF EvidenceInvariant, Alone, trustVars
  <2> QED
    BY <2>1, <2>2, <2>3 DEF EvidenceInvariant, RecordIsOfBinary, WellFormed
<1>2. ASSUME DamageBinary \/ DamageRecord \/ DeleteEntry
      PROVE  EvidenceInvariant'
  <2>1. /\ UNCHANGED <<pc, inputVars, localVars, warned, failure, trustVars, ran>>
        /\ \A a \in Agents : ~Active(a)
    BY <1>2 DEF DamageBinary, DamageRecord, DeleteEntry, AtRest
  <2>2. ASSUME NEW a \in Agents
        PROVE  Evidence(a)'
    BY <2>1 DEF EvidenceInvariant, Evidence, ArchiveIsShown, EntryIsArchive,
         HitIsCompared, NoFailureYet, Installing, Shown, Caching, Degraded,
         Active, Ended, inputVars, localVars, trustVars
  <2>3. RecordIsOfBinary'
    BY <1>2 DEF EvidenceInvariant, RecordIsOfBinary, WellFormed, DamageBinary,
                DamageRecord, DeleteEntry
  <2> QED
    BY <2>2, <2>3 DEF EvidenceInvariant
<1> QED
  BY <1>1, <1>2 DEF Environment

\* When runs do not overlap, every run has evidence for what it uses, and the
\* record is of the binary, between any two steps.
THEOREM EvidenceHolds ==
  ASSUME ~Concurrent
  PROVE  Spec => []EvidenceInvariant
<1>1. Init => EvidenceInvariant
  BY DEF Init, EvidenceInvariant, RecordIsOfBinary, WellFormed, Evidence,
         ArchiveIsShown, EntryIsArchive, HitIsCompared, NoFailureYet,
         Installing, Caching
<1>2. TypeOK /\ TrustInvariant /\ EvidenceInvariant /\ [Next]_vars
        => EvidenceInvariant'
  <2> SUFFICES ASSUME TypeOK, TrustInvariant, EvidenceInvariant, [Next]_vars
               PROVE  EvidenceInvariant'
    OBVIOUS
  <2>1. ASSUME NEW a \in Agents, Step(a)
        PROVE  EvidenceInvariant'
    <3>1. /\ Active(a) /\ vouched \subseteq vouched'
          /\ OthersKeep(a)
      BY <2>1, StepIsActive, StepKeepsOthers
    <3>2. Evidence(a)'
      BY <2>1, StepKeepsEvidence DEF TrustInvariant, EvidenceInvariant
    <3>3. ASSUME NEW b \in Agents \ {a}
          PROVE  Evidence(b)'
      <4>1. ~Active(b)
        BY <3>1 DEF TrustInvariant, Alone
      <4> QED
        BY <2>1, <3>1, <4>1, StepKeepsEvidenceOfOthers, EndedRunsKeepEvidence
           DEF EvidenceInvariant
    <3>4. RecordIsOfBinary'
      BY <2>1, StepKeepsRecordOfBinary DEF EvidenceInvariant, Evidence
    <3> QED
      BY <3>2, <3>3, <3>4 DEF EvidenceInvariant
  <2>2. ASSUME NEW a \in Agents, NEW p \in Policies, Start(a, p)
        PROVE  EvidenceInvariant'
    BY <2>2, StartKeepsEvidence
  <2>3. CASE Environment
    BY <2>3, EnvironmentKeepsEvidence DEF TrustInvariant
  <2>4. CASE UNCHANGED vars
    BY <2>4 DEF EvidenceInvariant, RecordIsOfBinary, WellFormed, Evidence,
         ArchiveIsShown, EntryIsArchive, HitIsCompared, NoFailureYet,
         Installing, Shown, Caching, Degraded, Active, vars, entryVars,
         inputVars, localVars, trustVars
  <2> QED
    BY <2>1, <2>2, <2>3, <2>4 DEF Next
<1> QED
  BY <1>1, <1>2, TypeCorrect, TrustHolds, PTL DEF Spec

\* A fresh install that says nothing is one under HashiCorp's signature.
THEOREM SilentInstallsAreSigned ==
  ASSUME ~Concurrent
  PROVE  Spec => []SilentInstallIsSigned
<1>1. EvidenceInvariant => SilentInstallIsSigned
  BY DEF EvidenceInvariant, Evidence, ArchiveIsShown, Shown, SilentInstallIsSigned
<1> QED
  BY <1>1, EvidenceHolds, PTL

\* One toggle of the mirror left on keeps its part of the verification.
THEOREM MirrorsNeedBothTogglesOff ==
  ASSUME ~Concurrent
  PROVE  Spec => []MirrorNeedsBothTogglesOff
<1>1. EvidenceInvariant => MirrorNeedsBothTogglesOff
  BY DEF EvidenceInvariant, Evidence, ArchiveIsShown, Shown,
         MirrorNeedsBothTogglesOff
<1> QED
  BY <1>1, EvidenceHolds, PTL

\* A forced re-verification is the run's own, or announced as not done.
THEOREM ForcedRunsCheckOnline ==
  ASSUME ~Concurrent
  PROVE  Spec => []ForcedRunChecksOnline
<1>1. EvidenceInvariant => ForcedRunChecksOnline
  BY DEF EvidenceInvariant, Evidence, HitIsCompared, ForcedRunChecksOnline
<1> QED
  BY <1>1, EvidenceHolds, PTL

\* Nothing but a change from outside makes a run report a tampered binary.
THEOREM AlarmsAreTrue ==
  ASSUME ~Concurrent
  PROVE  Spec => NoFalseAlarm
<1>1. TypeOK /\ TrustInvariant /\ EvidenceInvariant /\ [Next]_vars =>
        [\A a \in Agents :
           pc[a] = "check" /\ failure'[a] = "recordMismatch" => damaged]_vars
  <2> SUFFICES ASSUME TypeOK, TrustInvariant, EvidenceInvariant, Next,
                      NEW a \in Agents, pc[a] = "check",
                      failure'[a] = "recordMismatch"
               PROVE  damaged
    OBVIOUS
  <2>1. Active(a) /\ failure[a] = "none"
    BY DEF EvidenceInvariant, Evidence, NoFailureYet, Active, Ended
  <2>2. ASSUME NEW b \in Agents, Step(b)
        PROVE  damaged
    <3>1. b = a
      BY <2>1, <2>2, StepIsActive DEF TrustInvariant, Alone
    <3>2. CheckRecord(a)
      BY <2>2, <3>1 DEF Step, ResolveVersion, FindLocalTool, RegistryMetadata,
           DownloadArchive, FetchSums, CheckSignature, CheckDigest, ExtractZip,
           CacheClear, CopyStarts, CopyEnds, MarkComplete, LocatePacker,
           CompareRelease, HashBinary, RenameRecord, Finish
    <3>3. WellFormed(record) /\ record # binary
      BY <2>1, <3>2 DEF TypeOK, CheckRecord, Fail
    <3> QED
      BY <3>3 DEF EvidenceInvariant, RecordIsOfBinary
  <2>3. ASSUME NEW b \in Agents, NEW p \in Policies, Start(b, p)
        PROVE  damaged
    BY <2>1, <2>3 DEF TypeOK, Start
  <2>4. CASE Environment
    BY <2>1, <2>4 DEF TypeOK, Environment, Kill, Fail, DamageBinary,
                      DamageRecord, DeleteEntry
  <2> QED
    BY <2>2, <2>3, <2>4 DEF Next
<1> QED
  BY <1>1, TypeCorrect, TrustHolds, EvidenceHolds, PTL DEF Spec, NoFalseAlarm

\* A digest that was fetched and contradicts ends the run, overlapping or not.
THEOREM ContradictionsEndTheRun == Spec => ContradictedRunNeverDegrades
<1>1. TypeOK /\ [Next]_vars =>
        [\A a \in Agents :
           pc[a] = "digest" /\ pc'[a] = "finish" => "disk" \in warned'[a]]_vars
  <2> SUFFICES ASSUME TypeOK, Next, NEW a \in Agents, pc[a] = "digest",
                      pc'[a] = "finish"
               PROVE  "disk" \in warned'[a]
    OBVIOUS
  <2>1. ASSUME NEW b \in Agents, Step(b)
        PROVE  "disk" \in warned'[a]
    <3>1. b = a
      BY <2>1, StepKeepsOthers DEF OthersKeep
    <3>2. CheckDigest(a)
      BY <2>1, <3>1 DEF Step, ResolveVersion, FindLocalTool, RegistryMetadata,
           DownloadArchive, FetchSums, CheckSignature, CheckRecord, ExtractZip,
           CacheClear, CopyStarts, CopyEnds, MarkComplete, LocatePacker,
           CompareRelease, HashBinary, RenameRecord, Finish
    <3>3. CASE StrategyFails(a, "verification")
      BY <3>3 DEF TypeOK, StrategyFails, Fail, Goto
    <3>4. CASE StrategyFails(a, "disk")
      BY <3>4 DEF TypeOK, StrategyFails, Fail, Goto, Warn
    <3>5. CASE Goto(a, "extract")
      BY <3>5 DEF TypeOK, Goto
    <3> QED
      BY <3>2, <3>3, <3>4, <3>5 DEF CheckDigest, DigestMatches, DigestDiffers,
           DigestUnreadable, Uncovered
  <2>2. ASSUME NEW b \in Agents, NEW p \in Policies, Start(b, p)
        PROVE  "disk" \in warned'[a]
    BY <2>2 DEF TypeOK, Start, Goto
  <2>3. CASE Environment
    BY <2>3 DEF TypeOK, Environment, Kill, Fail, Goto, DamageBinary,
                DamageRecord, DeleteEntry
  <2> QED
    BY <2>1, <2>2, <2>3 DEF Next
<1> QED
  BY <1>1, TypeCorrect, PTL DEF Spec, ContradictedRunNeverDegrades

=============================================================================
