--------------------------- MODULE PackerInstaller ---------------------------
(***************************************************************************)
(* PipelinePackerInstaller@1: downloadPacker and everything it calls, for  *)
(* one Packer version whose tool-cache entry outlives the run and is       *)
(* shared by every run on the agent.                                       *)
(*                                                                         *)
(* A run resolves the version, looks the version up in the tool cache and  *)
(*   - on a miss downloads the archive from its configured source,         *)
(*     verifies it, extracts and caches it, and records the digest of the  *)
(*     cached binary in a sidecar file when the archive was verified;      *)
(*   - on a hit compares the binary with the recorded digest and, when     *)
(*     there is no usable record (or the run forces it), downloads and     *)
(*     verifies the release again and requires a byte match.               *)
(*                                                                         *)
(* An agent slot runs one run after another.  Runs of different slots      *)
(* interleave only when Concurrent is TRUE (agents that share a tool       *)
(* directory).  A file is identified with its digest, and an archive with  *)
(* the binary it unpacks to: SHA-256 has no collisions here.               *)
(***************************************************************************)
EXTENDS FiniteSets

CONSTANTS
  Agents,      \* agent slots, each running one installer task after another
  Concurrent,  \* may runs of two agents overlap on the tool directory?
  Policies,    \* the input combinations a run may be configured with
  Faults,      \* what the environment may do: see FaultKinds
  Binaries,    \* contents a packer executable may have
  Genuine,     \* the one HashiCorp released and signed
  NoPacker,    \* an archive that unpacks, but holds no packer executable
  Partial,     \* a binary file whose copy into the cache is unfinished
  Unlisted,    \* a checksum document that does not list the archive
  Torn,        \* a sidecar that is not a 64-character digest
  Missing      \* no such file, document or digest

Sources == {"hashicorp", "registry", "mirror"}

\* "network":  a request times out or is answered by an error
\* "withheld": the source publishes no checksum or signature, or none for
\*             this archive
\* "content":  the source serves something other than the genuine release
\* "disk":     a local write, extraction or execution fails
\* "kill":     the run is cancelled or its process dies
\* "damage":   the cached files change while no run is using them
FaultKinds == {"network", "withheld", "content", "disk", "kill", "damage"}

PolicyRecord ==
  [source : Sources, requireChecksum : BOOLEAN, requireGpg : BOOLEAN,
   forceOnline : BOOLEAN, requireOnline : BOOLEAN]

ASSUME ConstantsAssumption ==
  /\ Concurrent \in BOOLEAN
  /\ Policies \subseteq PolicyRecord /\ Policies # {}
  /\ Faults \subseteq FaultKinds
  /\ Genuine \in Binaries

\* The special values are not contents and differ from one another.
ASSUME DistinctValues ==
  /\ {NoPacker, Partial, Unlisted, Torn, Missing} \cap Binaries = {}
  /\ NoPacker \notin {Partial, Unlisted, Torn, Missing}
  /\ Partial  \notin {Unlisted, Torn, Missing}
  /\ Unlisted \notin {Torn, Missing}
  /\ Torn # Missing

Archives == Binaries \cup {NoPacker}

-----------------------------------------------------------------------------
VARIABLES
  \* The tool-cache entry of the version.
  complete,   \* tool-lib's `.complete` marker exists
  binary,     \* the packer executable in the entry
  record,     \* the sidecar <packer>.sha256
  temps,      \* agents whose sidecar temp file is in the entry
  copies,     \* agents whose unfinished copy of the executable is in the entry
  \* Locals of the run of each agent.
  pc, policy, hit, zip, sums, gpg, verified, digest,
  \* What a run reports.
  warned, failure,
  \* History, read by the properties only.
  vouched,    \* contents some run matched with a published checksum
  signed,     \* the part of vouched whose checksum carried a valid signature
  checked,    \* what the run itself matched with a published checksum
  ran,        \* the binary a successful run put on the PATH
  damaged     \* the binary was changed from outside since it was cached

entryVars == <<complete, binary, record, temps, copies>>
inputVars == <<policy, hit>>
localVars == <<zip, sums, gpg, verified, digest>>
trustVars == <<vouched, signed, checked>>
vars == <<entryVars, pc, inputVars, localVars, warned, failure, trustVars,
          ran, damaged>>

Ended == {"idle", "done", "failed"}
Strategy == {"metadata", "download", "sums", "signature", "digest"}
Steps == {"resolve", "lookup", "extract", "clear", "copy", "copying", "mark",
          "locate", "check", "compare", "hash", "rename", "finish"}

FailureKinds == {"none", "version", "unreachable", "verification", "disk",
  "noPacker", "recordMismatch", "releaseMismatch", "exec", "killed"}

WarningKinds == {"unverified", "checksumOnly", "unreachable", "disk"}

Active(a) == pc[a] \notin Ended

TypeOK ==
  /\ complete \in BOOLEAN
  /\ binary \in Archives \cup {Partial, Missing}
  /\ record \in Binaries \cup {Partial, Torn, Missing}
  /\ temps \subseteq Agents
  /\ copies \subseteq Agents
  /\ pc \in [Agents -> Ended \cup Strategy \cup Steps]
  /\ policy \in [Agents -> PolicyRecord]
  /\ hit \in [Agents -> BOOLEAN]
  /\ zip \in [Agents -> Archives \cup {Missing}]
  /\ sums \in [Agents -> Archives \cup {Unlisted, Missing}]
  /\ gpg \in [Agents -> BOOLEAN]
  /\ verified \in [Agents -> BOOLEAN]
  /\ digest \in [Agents -> Binaries \cup {Partial, Missing}]
  /\ warned \in [Agents -> SUBSET WarningKinds]
  /\ failure \in [Agents -> FailureKinds]
  /\ vouched \subseteq Archives
  /\ signed \subseteq vouched
  /\ checked \in [Agents -> Archives \cup {Missing}]
  /\ ran \in [Agents -> Archives \cup {Partial, Missing}]
  /\ damaged \in BOOLEAN

\* The entry is absent, or was left by a version of the task that kept no
\* record of it or tore the record while writing it.
Init ==
  /\ \/ complete = FALSE /\ binary = Missing /\ record = Missing
     \/ complete = TRUE /\ binary \in Binaries /\ record \in {Missing, Torn}
  /\ temps = {} /\ copies = {}
  /\ pc = [a \in Agents |-> "idle"]
  /\ policy = [a \in Agents |-> CHOOSE p \in Policies : TRUE]
  /\ hit = [a \in Agents |-> FALSE]
  /\ zip = [a \in Agents |-> Missing]
  /\ sums = [a \in Agents |-> Missing]
  /\ gpg = [a \in Agents |-> FALSE]
  /\ verified = [a \in Agents |-> FALSE]
  /\ digest = [a \in Agents |-> Missing]
  /\ warned = [a \in Agents |-> {}]
  /\ failure = [a \in Agents |-> "none"]
  /\ vouched = {}
  /\ signed = {}
  /\ checked = [a \in Agents |-> Missing]
  /\ ran = [a \in Agents |-> Missing]
  /\ damaged = FALSE

-----------------------------------------------------------------------------
\* How a run moves on, fails for good, or has its download strategy fail.

Goto(a, label) == pc' = [pc EXCEPT ![a] = label]

Fail(a, kind) ==
  /\ Goto(a, "failed")
  /\ failure' = [failure EXCEPT ![a] = kind]

Warn(a, kind) == warned' = [warned EXCEPT ![a] = @ \cup {kind}]

\* Faulty variant: requireOnlineReverification is not consulted.
StrategyFailsIgnoringOnline(a, kind) ==
  IF hit[a] /\ kind # "verification"
    THEN Goto(a, "finish") /\ Warn(a, kind) /\ UNCHANGED failure
    ELSE Fail(a, kind) /\ UNCHANGED warned

\* Faulty variant: every failure degrades, not only an outage (#334).
StrategyFailsOpen(a, kind) ==
  IF hit[a] /\ ~policy[a].requireOnline
    THEN Goto(a, "finish") /\ Warn(a, "unreachable") /\ UNCHANGED failure
    ELSE Fail(a, kind) /\ UNCHANGED warned

\* A strategy that throws ends a fresh install.  During the re-verification
\* of a cache hit, only a VerificationFailure does: any other error, of the
\* source or of the disk, leaves the run with the cached binary and a
\* warning, unless requireOnlineReverification is set.
StrategyFails(a, kind) ==
  IF hit[a] /\ kind # "verification" /\ ~policy[a].requireOnline
    THEN Goto(a, "finish") /\ Warn(a, kind) /\ UNCHANGED failure
    ELSE Fail(a, kind) /\ UNCHANGED warned

\* The run kept the cached binary although it could not be re-verified.
Degraded(a) == warned[a] \cap {"unreachable", "disk"} # {}

\* discardArtifactOnFailure, on its failing path.
Discard(a) == zip' = [zip EXCEPT ![a] = Missing]

FirstStep(a) ==
  IF policy[a].source = "registry" THEN "metadata" ELSE "download"

-----------------------------------------------------------------------------
\* The run up to the cache lookup.

\* The agent starts the task with some inputs; its temp directory is empty.
Start(a, p) ==
  /\ ~Active(a)
  /\ Concurrent \/ \A b \in Agents : ~Active(b)
  /\ Goto(a, "resolve")
  /\ policy' = [policy EXCEPT ![a] = p]
  /\ hit' = [hit EXCEPT ![a] = FALSE]
  /\ zip' = [zip EXCEPT ![a] = Missing]
  /\ sums' = [sums EXCEPT ![a] = Missing]
  /\ gpg' = [gpg EXCEPT ![a] = FALSE]
  /\ verified' = [verified EXCEPT ![a] = FALSE]
  /\ digest' = [digest EXCEPT ![a] = Missing]
  /\ warned' = [warned EXCEPT ![a] = {}]
  /\ failure' = [failure EXCEPT ![a] = "none"]
  /\ checked' = [checked EXCEPT ![a] = Missing]
  /\ ran' = [ran EXCEPT ![a] = Missing]
  /\ UNCHANGED <<entryVars, vouched, signed, damaged>>

\* 'latest' that cannot be resolved fails the run: no fallback version.
ResolveVersion(a) ==
  /\ pc[a] = "resolve"
  /\ \/ Goto(a, "lookup") /\ UNCHANGED failure
     \/ "network" \in Faults /\ Fail(a, "version")
  /\ UNCHANGED <<entryVars, inputVars, localVars, warned, trustVars, ran, damaged>>

FindLocalTool(a) ==
  /\ pc[a] = "lookup"
  /\ hit' = [hit EXCEPT ![a] = complete]
  /\ Goto(a, IF complete THEN "locate" ELSE FirstStep(a))
  /\ UNCHANGED <<entryVars, policy, localVars, warned, failure, trustVars,
                 ran, damaged>>

-----------------------------------------------------------------------------
\* The download strategies.  Each fetch may see a different answer.

\* What a source may serve as the archive, or name as its digest, and the
\* digests it may name when `none` stands for naming no digest.
Served == IF "content" \in Faults THEN Archives ELSE {Genuine}

ServedOr(none) == IF "withheld" \in Faults THEN Served \cup {none} ELSE Served

\* The registry names the archive's digest (or none) before the download; a
\* malformed answer is an ordinary error.
RegistryMetadata(a) ==
  /\ pc[a] = "metadata"
  /\ \/ /\ \E d \in ServedOr(Missing) : sums' = [sums EXCEPT ![a] = d]
        /\ Goto(a, "download")
        /\ UNCHANGED <<warned, failure>>
     \/ /\ {"network", "content"} \cap Faults # {}
        /\ StrategyFails(a, "unreachable")
        /\ UNCHANGED sums
  /\ UNCHANGED <<entryVars, inputVars, zip, gpg, verified, digest, trustVars,
                 ran, damaged>>

DownloadArchive(a) ==
  /\ pc[a] = "download"
  /\ \/ /\ \E d \in Served : zip' = [zip EXCEPT ![a] = d]
        /\ Goto(a, IF policy[a].source = "registry" THEN "digest" ELSE "sums")
        /\ UNCHANGED <<warned, failure>>
     \/ /\ \/ "network" \in Faults /\ StrategyFails(a, "unreachable")
           \/ "disk" \in Faults /\ StrategyFails(a, "disk")
        /\ UNCHANGED zip
  /\ UNCHANGED <<entryVars, inputVars, sums, gpg, verified, digest, trustVars,
                 ran, damaged>>

\* Faulty variant: the mirror looks at requireChecksum only.
MayInstallUncoveredDespiteGpg(a) ==
  policy[a].source # "hashicorp" /\ ~policy[a].requireChecksum

\* May the archive of this run be installed although no published checksum
\* covers it?
MayInstallUncovered(a) ==
  LET p == policy[a] IN
  \/ p.source = "mirror" /\ ~p.requireChecksum /\ ~p.requireGpg
  \/ p.source = "registry" /\ ~p.requireChecksum

\* No checksum covers the archive: a policy decision, taken with the archive
\* on disk.  Only downloadZipFromHashiCorp takes it inside the discard
\* wrapper.
Uncovered(a) ==
  IF MayInstallUncovered(a)
    THEN /\ Goto(a, "extract")
         /\ Warn(a, "unverified")
         /\ UNCHANGED <<zip, failure>>
    ELSE /\ StrategyFails(a, "verification")
         /\ IF policy[a].source = "hashicorp" THEN Discard(a) ELSE UNCHANGED zip

\* Faulty variant: a source that cannot be reached is tried again, for ever.
FetchSumsForEver(a) ==
  /\ pc[a] = "sums"
  /\ \/ /\ \E d \in ServedOr(Unlisted) : sums' = [sums EXCEPT ![a] = d]
        /\ Goto(a, "signature")
     \/ /\ "network" \in Faults
        /\ Goto(a, "download")
        /\ UNCHANGED sums
  /\ UNCHANGED <<entryVars, inputVars, zip, gpg, verified, digest, warned,
                 failure, trustVars, ran, damaged>>

\* SHA256SUMS.  Its absence (404) is an ordinary fetch error at HashiCorp and
\* a policy decision at a mirror.
FetchSums(a) ==
  /\ pc[a] = "sums"
  /\ \/ /\ \E d \in ServedOr(Unlisted) : sums' = [sums EXCEPT ![a] = d]
        /\ Goto(a, "signature")
        /\ UNCHANGED <<zip, warned, failure>>
     \/ /\ "withheld" \in Faults
        /\ policy[a].source = "mirror"
        /\ Uncovered(a)
        /\ UNCHANGED sums
     \/ /\ \/ "network" \in Faults
           \/ "withheld" \in Faults /\ policy[a].source = "hashicorp"
        /\ StrategyFails(a, "unreachable")
        /\ UNCHANGED <<sums, zip>>
  /\ UNCHANGED <<entryVars, inputVars, gpg, verified, digest, trustVars, ran,
                 damaged>>

\* Only HashiCorp's own document can carry a valid signature.
Signable(d) == d \in {Genuine, Unlisted}

\* Faulty variant: an absent signature is passed over in silence.
CheckSignatureSilently(a) ==
  /\ pc[a] = "signature"
  /\ \/ /\ Signable(sums[a])
        /\ gpg' = [gpg EXCEPT ![a] = TRUE]
     \/ /\ "withheld" \in Faults /\ ~policy[a].requireGpg
        /\ UNCHANGED gpg
  /\ Goto(a, "digest")
  /\ UNCHANGED <<entryVars, inputVars, zip, sums, verified, digest, warned,
                 failure, trustVars, ran, damaged>>

\* verifyGpgSignature, inside the discard wrapper.
CheckSignature(a) ==
  /\ pc[a] = "signature"
  /\ \/ /\ Signable(sums[a])
        /\ gpg' = [gpg EXCEPT ![a] = TRUE]
        /\ Goto(a, "digest")
        /\ UNCHANGED <<zip, warned, failure>>
     \/ /\ "withheld" \in Faults /\ ~policy[a].requireGpg
        /\ Goto(a, "digest")
        /\ Warn(a, "checksumOnly")
        /\ UNCHANGED <<gpg, zip, failure>>
     \/ /\ \/ "withheld" \in Faults /\ policy[a].requireGpg
           \/ "content" \in Faults
        /\ StrategyFails(a, "verification")
        /\ Discard(a)
        /\ UNCHANGED gpg
     \/ /\ "network" \in Faults
        /\ StrategyFails(a, "unreachable")
        /\ Discard(a)
        /\ UNCHANGED gpg
  /\ UNCHANGED <<entryVars, inputVars, sums, verified, digest, trustVars, ran,
                 damaged>>

\* Faulty variant: without requireChecksum the digest is not compared, and
\* the signature alone is taken for a verified archive.
DigestMatchesUncompared(a) ==
  /\ sums[a] \in Archives
  /\ policy[a].requireChecksum => sums[a] = zip[a]
  /\ verified' = [verified EXCEPT ![a] = policy[a].requireChecksum]
  /\ vouched' = IF verified'[a] THEN vouched \cup {zip[a]} ELSE vouched
  /\ signed' = IF gpg[a] THEN signed \cup {zip[a]} ELSE signed
  /\ Goto(a, "extract")
  /\ UNCHANGED <<checked, warned, zip, failure>>

\* parseSha256 and verifySha256 on the downloaded archive.
DigestMatches(a) ==
  /\ sums[a] \in Archives /\ sums[a] = zip[a]
  /\ verified' = [verified EXCEPT ![a] = TRUE]
  /\ vouched' = vouched \cup {zip[a]}
  /\ signed' = IF gpg[a] THEN signed \cup {zip[a]} ELSE signed
  /\ checked' = [checked EXCEPT ![a] = zip[a]]
  /\ Goto(a, "extract")
  /\ IF policy[a].source = "registry" THEN Warn(a, "checksumOnly")
                                      ELSE UNCHANGED warned
  /\ UNCHANGED <<zip, failure>>

DigestDiffers(a) ==
  /\ sums[a] \in Archives \ {zip[a]}
  /\ StrategyFails(a, "verification")
  /\ Discard(a)
  /\ UNCHANGED <<verified, trustVars>>

DigestUnreadable(a) ==
  /\ "disk" \in Faults /\ sums[a] \in Archives
  /\ StrategyFails(a, "disk")
  /\ Discard(a)
  /\ UNCHANGED <<verified, trustVars>>

CheckDigest(a) ==
  /\ pc[a] = "digest"
  /\ \/ DigestMatches(a)
     \/ DigestDiffers(a)
     \/ DigestUnreadable(a)
     \/ /\ sums[a] \notin Archives
        /\ Uncovered(a)
        /\ UNCHANGED <<verified, trustVars>>
  /\ UNCHANGED <<entryVars, inputVars, sums, gpg, digest, ran, damaged>>

-----------------------------------------------------------------------------
\* A miss: the archive becomes the entry.

\* Faulty variant: a re-verified release replaces the cached one.
ExtractZipOverEntry(a) ==
  /\ pc[a] = "extract"
  /\ Goto(a, "clear")
  /\ UNCHANGED <<entryVars, inputVars, localVars, warned, failure, trustVars,
                 ran, damaged>>

\* A hit extracts the verified release next to the cached one and compares.
ExtractZip(a) ==
  /\ pc[a] = "extract"
  /\ \/ Goto(a, IF hit[a] THEN "compare" ELSE "clear") /\ UNCHANGED failure
     \/ ("disk" \in Faults \/ zip[a] # Genuine) /\ Fail(a, "disk")
  /\ UNCHANGED <<entryVars, inputVars, localVars, warned, trustVars, ran, damaged>>

\* cacheDir of tool-lib: remove the old directory and its marker, sidecar
\* included, copy the files, then write the marker.
CacheClear(a) ==
  /\ pc[a] = "clear"
  /\ \/ /\ complete' = FALSE /\ binary' = Missing /\ record' = Missing
        /\ temps' = {} /\ copies' = {}
        /\ Goto(a, "copy")
        /\ UNCHANGED failure
     \/ /\ "disk" \in Faults
        /\ Fail(a, "disk")
        /\ UNCHANGED entryVars
  /\ UNCHANGED <<inputVars, localVars, warned, trustVars, ran, damaged>>

CopyStarts(a) ==
  /\ pc[a] = "copy"
  /\ binary' = IF zip[a] = NoPacker THEN NoPacker ELSE Partial
  /\ copies' = copies \cup {a}
  /\ Goto(a, "copying")
  /\ UNCHANGED <<complete, record, temps, inputVars, localVars, warned, failure,
                 trustVars, ran, damaged>>

\* What another run's cacheDir removed meanwhile is written to no avail.
CopyEnds(a) ==
  /\ pc[a] = "copying"
  /\ copies' = copies \ {a}
  /\ \/ /\ IF a \in copies THEN binary' = zip[a] /\ damaged' = FALSE
                            ELSE UNCHANGED <<binary, damaged>>
        /\ Goto(a, "mark")
        /\ UNCHANGED failure
     \/ /\ "disk" \in Faults
        /\ Fail(a, "disk")
        /\ UNCHANGED <<binary, damaged>>
  /\ UNCHANGED <<complete, record, temps, inputVars, localVars, warned,
                 trustVars, ran>>

MarkComplete(a) ==
  /\ pc[a] = "mark"
  /\ complete' = TRUE
  /\ Goto(a, "locate")
  /\ UNCHANGED <<binary, record, temps, copies, inputVars, localVars, warned,
                 failure, trustVars, ran, damaged>>

-----------------------------------------------------------------------------
\* Hit or miss: find the executable, then decide whether it may be used.

HasPacker == binary \notin {NoPacker, Missing}

\* Faulty variant: every fresh install is recorded, verified or not.
LocatePackerRecordsAll(a) ==
  /\ pc[a] = "locate"
  /\ IF HasPacker
       THEN Goto(a, IF hit[a] THEN "check" ELSE "hash") /\ UNCHANGED failure
       ELSE Fail(a, "noPacker")
  /\ UNCHANGED <<entryVars, inputVars, localVars, warned, trustVars, ran, damaged>>

\* findPackerExecutable, then chmod, which fails on somebody else's file.
LocatePacker(a) ==
  /\ pc[a] = "locate"
  /\ \/ /\ HasPacker
        /\ Goto(a, CASE hit[a] -> "check"
                     [] ~hit[a] /\ verified[a] -> "hash"
                     [] OTHER -> "finish")
        /\ UNCHANGED failure
     \/ ~HasPacker /\ Fail(a, "noPacker")
     \/ "disk" \in Faults /\ Fail(a, "disk")
  /\ UNCHANGED <<entryVars, inputVars, localVars, warned, trustVars, ran, damaged>>

\* Faulty variant: whatever the sidecar holds is a record.
WellFormedIfPresent(r) == r # Missing

WellFormed(r) == r \notin {Torn, Missing}

\* Faulty variant: an entry without a record is used as it is (#136).
CheckRecordTrustsUnmarked(a) ==
  /\ pc[a] = "check"
  /\ IF WellFormed(record) /\ record # binary
       THEN Fail(a, "recordMismatch")
       ELSE Goto(a, "finish") /\ UNCHANGED failure
  /\ UNCHANGED <<entryVars, inputVars, localVars, warned, trustVars, ran, damaged>>

\* Faulty variant: a good record answers a forced re-verification too.
CheckRecordNotForced(a) ==
  /\ pc[a] = "check"
  /\ \/ /\ WellFormed(record) /\ record # binary
        /\ Fail(a, "recordMismatch")
     \/ /\ WellFormed(record) /\ record = binary
        /\ Goto(a, "finish")
        /\ UNCHANGED failure
     \/ /\ ~WellFormed(record)
        /\ Goto(a, IF policy[a].requireChecksum THEN FirstStep(a) ELSE "finish")
        /\ UNCHANGED failure
  /\ UNCHANGED <<entryVars, inputVars, localVars, warned, trustVars, ran, damaged>>

\* verifyCachedBinaryHash, and what downloadPacker does with its answer.
\* An unreadable sidecar is no record.
CheckRecord(a) ==
  /\ pc[a] = "check"
  /\ \/ /\ WellFormed(record) /\ record = binary
        /\ Goto(a, IF policy[a].forceOnline /\ policy[a].requireChecksum
                     THEN FirstStep(a) ELSE "finish")
        /\ UNCHANGED failure
     \/ /\ WellFormed(record) /\ HasPacker /\ record # binary
        /\ Fail(a, "recordMismatch")
     \/ /\ ~WellFormed(record) \/ "disk" \in Faults
        /\ Goto(a, IF policy[a].requireChecksum THEN FirstStep(a) ELSE "finish")
        /\ UNCHANGED failure
     \/ /\ WellFormed(record) /\ (~HasPacker \/ "disk" \in Faults)
        /\ Fail(a, "disk")
  /\ UNCHANGED <<entryVars, inputVars, localVars, warned, trustVars, ran, damaged>>

\* Faulty variant: a matching release does not renew the record.
CompareReleaseForgets(a) ==
  /\ pc[a] = "compare"
  /\ IF zip[a] = binary
       THEN Goto(a, "finish") /\ UNCHANGED failure
       ELSE Fail(a, "releaseMismatch")
  /\ UNCHANGED <<entryVars, inputVars, localVars, warned, trustVars, ran, damaged>>

\* The byte match of a re-verification.
CompareRelease(a) ==
  /\ pc[a] = "compare"
  /\ \/ zip[a] = binary /\ HasPacker /\ Goto(a, "hash") /\ UNCHANGED failure
     \/ zip[a] = NoPacker /\ Fail(a, "noPacker")
     \/ zip[a] # NoPacker /\ HasPacker /\ zip[a] # binary /\ Fail(a, "releaseMismatch")
     \/ zip[a] # NoPacker /\ (~HasPacker \/ "disk" \in Faults) /\ Fail(a, "disk")
  /\ UNCHANGED <<entryVars, inputVars, localVars, warned, trustVars, ran, damaged>>

\* recordCachedBinaryHash: the digest of the file in the cache goes to a
\* temp file, which is renamed over the sidecar.  A failure only leaves the
\* entry without a new record.
HashBinary(a) ==
  /\ pc[a] = "hash"
  /\ \/ /\ HasPacker
        /\ digest' = [digest EXCEPT ![a] = binary]
        /\ temps' = temps \cup {a}
        /\ Goto(a, "rename")
     \/ /\ ~HasPacker \/ "disk" \in Faults
        /\ Goto(a, "finish")
        /\ UNCHANGED <<digest, temps>>
  /\ UNCHANGED <<complete, binary, record, copies, inputVars, zip, sums, gpg,
                 verified, warned, failure, trustVars, ran, damaged>>

RenameRecord(a) ==
  /\ pc[a] = "rename"
  /\ \/ a \in temps /\ record' = digest[a]
     \/ (a \notin temps \/ "disk" \in Faults) /\ UNCHANGED record
  /\ temps' = temps \ {a}
  /\ Goto(a, "finish")
  /\ UNCHANGED <<complete, binary, copies, inputVars, localVars, warned, failure,
                 trustVars, ran, damaged>>

\* The path is published and prepended to PATH, and `packer version` runs.
Finish(a) ==
  /\ pc[a] = "finish"
  /\ \/ /\ HasPacker
        /\ ran' = [ran EXCEPT ![a] = binary]
        /\ Goto(a, "done")
        /\ UNCHANGED failure
     \/ /\ binary \notin Binaries \/ "disk" \in Faults
        /\ Fail(a, "exec")
        /\ UNCHANGED ran
  /\ UNCHANGED <<entryVars, inputVars, localVars, warned, trustVars, damaged>>

-----------------------------------------------------------------------------
\* The environment.

\* SIGTERM, SIGINT or the death of the process, between any two steps.
Kill(a) ==
  /\ "kill" \in Faults /\ Active(a)
  /\ Fail(a, "killed")
  /\ copies' = copies \ {a}
  /\ UNCHANGED <<complete, binary, record, temps, inputVars, localVars, warned,
                 trustVars, ran, damaged>>

AtRest == "damage" \in Faults /\ \A a \in Agents : ~Active(a)

DamageBinary ==
  /\ AtRest /\ complete /\ HasPacker
  /\ binary' \in Binaries \ {binary}
  /\ damaged' = TRUE
  /\ UNCHANGED <<complete, record, temps, copies, pc, inputVars, localVars, warned,
                 failure, trustVars, ran>>

\* The sidecar is deleted (what SECURITY.md tells an operator to do) or torn.
DamageRecord ==
  /\ AtRest /\ complete
  /\ record' \in {Missing, Torn}
  /\ UNCHANGED <<complete, binary, temps, copies, pc, inputVars, localVars, warned,
                 failure, trustVars, ran, damaged>>

\* The cached-version directory is deleted.
DeleteEntry ==
  /\ AtRest /\ complete
  /\ complete' = FALSE /\ binary' = Missing /\ record' = Missing /\ temps' = {}
  /\ UNCHANGED <<copies, pc, inputVars, localVars, warned, failure, trustVars, ran,
                 damaged>>

Step(a) ==
  \/ ResolveVersion(a) \/ FindLocalTool(a)
  \/ RegistryMetadata(a) \/ DownloadArchive(a) \/ FetchSums(a)
  \/ CheckSignature(a) \/ CheckDigest(a)
  \/ ExtractZip(a) \/ CacheClear(a) \/ CopyStarts(a) \/ CopyEnds(a)
  \/ MarkComplete(a) \/ LocatePacker(a)
  \/ CheckRecord(a) \/ CompareRelease(a)
  \/ HashBinary(a) \/ RenameRecord(a) \/ Finish(a)

Environment ==
  \/ \E a \in Agents : Kill(a)
  \/ DamageBinary \/ DamageRecord \/ DeleteEntry

Next ==
  \/ \E a \in Agents : Step(a) \/ \E p \in Policies : Start(a, p)
  \/ Environment

Spec == Init /\ [][Next]_vars

\* Node's event loop runs every enabled continuation and every request has a
\* timeout, so a run that can step does.
FairSpec == Spec /\ \A a \in Agents : WF_vars(Step(a))

-----------------------------------------------------------------------------
\* Safety.

\* A usable sidecar only ever names a binary that some run matched with a
\* published checksum, so a later run that finds it intact may skip the
\* network (downloadPacker 218-224 and 284; ArtifactTrustL0 #136).
RecordIsVouched == WellFormed(record) => record \in vouched

\* Under requireChecksum a successful run uses a binary that some run matched
\* with a published checksum, whatever earlier runs with other policies left
\* in the cache, unless it warned that it degraded
\* (SECURITY.md, "Tool-cache integrity").
StrictRunIsVouched ==
  \A a \in Agents :
    pc[a] = "done" /\ policy[a].requireChecksum /\ ~Degraded(a)
      => ran[a] \in vouched

\* requireOnlineReverification takes that excuse away.
OnlineRunIsVouched ==
  \A a \in Agents :
    pc[a] = "done" /\ policy[a].requireChecksum /\ policy[a].requireOnline
      => ran[a] \in vouched

\* A fresh install that gave no warning is one whose checksum was signed: the
\* weaker trust levels never look like it (395-400, 490-504, 575-580).
SilentInstallIsSigned ==
  \A a \in Agents :
    pc[a] = "done" /\ ~hit[a] /\ warned[a] = {} => ran[a] \in signed

\* A mirror install loses all verification only with both toggles off, and
\* with requireGpgSignature on it is covered by a signature (SECURITY.md:35).
MirrorNeedsBothTogglesOff ==
  \A a \in Agents :
    pc[a] = "done" /\ ~hit[a] /\ policy[a].source = "mirror" =>
      /\ policy[a].requireChecksum \/ policy[a].requireGpg => ran[a] \in vouched
      /\ policy[a].requireGpg => ran[a] \in signed

\* forceOnlineReverification makes the run itself match the binary it uses
\* with a fresh download, however good the sidecar looks, unless the run
\* warned that it degraded (SECURITY.md:74-79).
ForcedRunChecksOnline ==
  \A a \in Agents :
    pc[a] = "done" /\ hit[a] /\ policy[a].forceOnline /\ policy[a].requireChecksum
      => checked[a] = ran[a] \/ Degraded(a)

\* A run reports a tampered binary only when the binary was changed from
\* outside: no crash, torn sidecar or policy of an earlier run bricks the
\* version with a false alarm (#198, 663-670 and 703-709).
NoFalseAlarm ==
  [][\A a \in Agents :
       pc[a] = "check" /\ failure'[a] = "recordMismatch" => damaged]_vars

\* Material that was fetched and compared, and fails, ends the run: at the
\* digest only an archive that cannot be read back leaves the run with the
\* cached binary (#334, 749-758).
ContradictedRunNeverDegrades ==
  [][\A a \in Agents :
       pc[a] = "digest" /\ pc'[a] = "finish" => "disk" \in warned'[a]]_vars

\* A run that hit the cache never rewrites the entry, even when its check
\* fails: other jobs may be using it (ArtifactTrustL0, EXEMPT-CACHE-VERIFY).
HitKeepsEntry ==
  [][\A a \in Agents : Active(a) /\ hit[a] => UNCHANGED <<complete, binary>>]_vars

-----------------------------------------------------------------------------
\* The inductive strengthening of the three trust invariants, for runs that
\* do not overlap: what each step of a run may rely on.

Alone == \A a, b \in Agents : Active(a) /\ Active(b) => a = b

Fetching(a) == pc[a] \in {"resolve", "lookup", "check"} \cup Strategy

Caching(a) == pc[a] \in {"clear", "copy", "copying", "mark"}

\* `verified` is set by the digest check only, and speaks of this archive.
VerifiedMeansVouched(a) ==
  /\ verified[a] => zip[a] \in vouched
  /\ Fetching(a) \/ (pc[a] = "locate" /\ hit[a]) => ~verified[a]

\* A hit never caches and a fresh install never compares; a hit fetches only
\* for a checksum and goes on only with one, and so does a strict install.
StepsFitTheRun(a) ==
  /\ Caching(a) => ~hit[a]
  /\ pc[a] \in {"check", "compare"} => hit[a]
  /\ hit[a] /\ pc[a] \in Strategy => policy[a].requireChecksum
  /\ hit[a] /\ pc[a] \in {"extract", "compare"} => verified[a]
  /\ ( /\ ~hit[a] /\ policy[a].requireChecksum
       /\ pc[a] \in {"extract", "locate"} \/ Caching(a) ) => verified[a]

\* The binary is the archive that was cached, and it is vouched for wherever
\* its digest is about to be recorded.
BinaryFitsTheRun(a) ==
  /\ pc[a] = "copying" => a \in copies
  /\ pc[a] = "mark" \/ (pc[a] = "locate" /\ ~hit[a]) => binary = zip[a]
  /\ pc[a] \in {"hash", "rename"} => binary \in vouched
  /\ pc[a] = "rename" => digest[a] \in vouched

\* A strict run that comes to its end uses a vouched binary or has warned,
\* and requireOnlineReverification rules the warning out.
EndIsVouched(a) ==
  /\ pc[a] = "finish" /\ policy[a].requireChecksum /\ ~Degraded(a)
       => binary \in vouched
  /\ pc[a] = "done" /\ policy[a].requireChecksum /\ ~Degraded(a)
       => ran[a] \in vouched
  /\ policy[a].requireOnline => ~Degraded(a)

Trust(a) ==
  /\ VerifiedMeansVouched(a)
  /\ StepsFitTheRun(a)
  /\ BinaryFitsTheRun(a)
  /\ EndIsVouched(a)

\* What holds between any two steps, as long as runs do not overlap: at most
\* one run is active, the record is vouched for, and every run is where its
\* own variables say it is.
TrustInvariant == Alone /\ RecordIsVouched /\ \A a \in Agents : Trust(a)

-----------------------------------------------------------------------------
\* The abstract specification.

State(a) ==
  CASE pc[a] = "idle" -> "waiting"
    [] pc[a] \in {"done", "failed"} -> pc[a]
    [] OTHER -> "working"

Store ==
  INSTANCE VerifiedStore WITH
    Jobs <- Agents,
    Contents <- Archives \cup {Partial},
    Nothing <- Missing,
    held <- binary,
    seal <- IF WellFormed(record) THEN record ELSE Missing,
    state <- [a \in Agents |-> State(a)],
    strict <- {a \in Agents : policy[a].requireChecksum},
    online <- {a \in Agents : policy[a].requireOnline},
    excused <- {a \in Agents : Degraded(a)},
    used <- ran

\* Every step of a run, whatever its inputs and whatever goes wrong, is a
\* step of a store that seals only what is vouched for, never refills a
\* sealed slot, and gives a strict job nothing else unless it is excused
\* (downloadPacker, SECURITY.md "Tool-cache integrity").
ImplementsStore == Store!Spec

-----------------------------------------------------------------------------
\* Liveness, under FairSpec.

\* Every run ends: succeeded or failed.
RunEnds == \A a \in Agents : Active(a) ~> ~Active(a)

\* A torn sidecar beside the genuine binary does not stay torn: with the
\* source serving the release, runs that demand checksums replace it (#198).
TornRecordHeals ==
  (complete /\ binary = Genuine /\ record = Torn) ~> (record = Genuine)

\* Agents keep being given runs.
BusySpec ==
  FairSpec /\ \A a \in Agents : WF_vars(\E p \in Policies : Start(a, p))

-----------------------------------------------------------------------------
\* What the repository says of the program and the program does not do.

\* "the reachable source WITHHOLDS material a require-flag makes mandatory:
\* both surface as a typed VerificationFailure -- fail closed" (756-758): when
\* every request is answered, no run keeps the cached binary for want of an
\* answer.
WithholdingFailsClosed ==
  "network" \notin Faults => \A a \in Agents : "unreachable" \notin warned[a]

\* The cache lookup does not lose the verification this run demands: with
\* requireGpgSignature on, and no warning, the binary is the one HashiCorp's
\* signature covers, also when an earlier run with another policy cached it
\* (packer-installer.ts:652-653, SECURITY.md:70-71).
SignatureDemandCoversHits ==
  \A a \in Agents :
    ( /\ pc[a] = "done" /\ warned[a] = {}
      /\ policy[a].source # "registry"
      /\ policy[a].requireChecksum /\ policy[a].requireGpg )
      => ran[a] = Genuine

\* "A hash is recorded only for an artifact this run actually verified" (284):
\* no strict run is about to record the digest of a binary that nobody matched
\* with a checksum.  The digest of a file that another run is still copying is
\* set aside: it is no binary, and can only raise an alarm.
StrictRunRecordsVouched ==
  \A a \in Agents :
    pc[a] = "rename" /\ policy[a].requireChecksum /\ digest[a] # Partial
      => digest[a] \in vouched

=============================================================================
