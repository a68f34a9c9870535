# Azure Pipelines tasks for HashiCorp Packer: TLA+ models

The repository holds two Azure Pipelines tasks. `PipelinePackerInstaller@1`
(`Tasks/PackerInstaller`) puts a verified Packer executable on the agent and
keeps it in the agent's tool cache. `PipelinePacker@1` (`Tasks/PackerTask`) runs
one Packer command with credentials it takes from service connections. Its
scripts and workflows version the tasks, compose them into a `.vsix` and publish
it. This directory models the two tasks, the versioning and the packaging, checks
the models with TLC and proves the main results with TLAPS.

## 1. Inventory

### The installer

| Part | State | Operations | Hard because | Correct when |
|---|---|---|---|---|
| Tool-cache entry and its record (`packer-installer.ts` 192-304, 646-827) | the cached binary, tool-lib's `.complete` marker, the sidecar `<packer>.sha256` | look up, extract and cache, check the record, re-verify online, record | the entry outlives the run; runs with different toggles share it; a run may die between any two file operations; agents may share the tool directory | a record only names a verified binary; a strict run uses a vouched binary or says it could not check; a torn record is neither trusted nor an alarm |
| Download strategies (`packer-installer.ts` 352-644, `gpg-verifier.ts`) | a temp file; the checksum document | fetch metadata, archive, `SHA256SUMS`, `.sig`; verify; discard | three sources times three toggles; several requests that may see different answers; one error class decides whether a cache hit degrades or fails | weaker verification is never silent, stronger toggles are never bypassed, rejected archives do not stay |
| Version resolution (306-348) | none | resolve `latest` | | failing fails the run, no fallback version |
| Egress authorization (`http-client.ts`, 82-183) | none | decide which credential accompanies which URL | redirects | a credential never leaves its host |
| Entry point (`index.ts`) | | run, signals | | every run reports |

### The packer task

| Part | State | Operations | Hard because | Correct when |
|---|---|---|---|---|
| Run and cleanup (`index.ts`, `parent-handler.ts`, `temp-secret-file-manager.ts`) | active handler, tracked files, tracked variables, result | execute, finally, emergency cleanup | signals and uncaught errors at every await; failing deletions; SIGKILL | no credential file stays; nothing is removed under packer; a result is reported |
| Commands (`base-packer-command-handler.ts`) | the packer child process, its exit code, outputs | eleven commands | `build` and `fix` take over the exit code; output paths may change while packer runs | success means packer's success; a failed build still publishes; nothing is written outside |
| Provider handlers (`azure-`, `aws-`, `gcp-`, `oci-`, `vsphere-`, `none-packer-command-handler.ts`) | environment variables, credential files, tokens | obtain and inject credentials | order of validation, token requests, file writes and injection | validation precedes tokens; the template probe precedes injection |
| Secure var file (`secure-file-loader.ts`, `secure-var-file-masking.ts`) | the downloaded file | download, tighten, mask, delete | it is on disk before it is tracked | it is deleted; its values are masked |
| Policies and guards (`environment-variable-policy.ts`, `credential-guards.ts`, `path-containment.ts`, `output-variables.ts`) | | accept or refuse | precedence between variables; symlinks | the identity is the service connection's |

The two tasks interact through the agent only: the installer publishes
`packerLocation` and prepends `PATH`, and the packer task looks `packer` up there.

### From main to the agent

| Part | State | Operations | Hard because | Correct when |
|---|---|---|---|---|
| Release versioning (`check-minor-bumps.js`, `bump-minor-versions.js`, the release workflows) | main, the release pull request and its check, the tags, what is published | merge, force-push the branch, bump it, check it, tag, guard, publish | agents keep a task by its Major.Minor; the branch is recomputed while main moves; administrators may override; releases may be repeated by hand | no published code hides behind a number an agent already has |
| Package composition (`check-package-composition.js`, `copy-build.js`, `lib/package-contents.js`, `lib/task-dirs.js`) | the reviewed tree, the building machine's tree, `./build`, the `.vsix` | check at review; compose; package with an override | review sees tracked files only, the packager sees everything; the composition may be killed | no secret and nothing unknown ships; what the manifest names does; both read one set of rules |
| Version and publish-identity check (`check-versions.js`) | | accept or refuse a tree | | overrides other than `release.json` never list the extension |
| Shared-module parity, smoke checks | | compare, start | | |

`PROJECT.json` lists the same parts with their status, and every hazard with the
properties that cover it.

## 2. Modules

    PackerInstaller              the installer: entry, record, strategies, faults
      VerifiedStore              what it implements
      MCPackerInstaller          policy and fault sets for TLC
      PackerInstallerProofs      type correctness, trust, overlapping runs, progress
      PackerInstallerEvidence    what a successful run has to show, true alarms
      PackerInstallerRefinement  it implements VerifiedStore
    PackerTask                   one run of the packer task
      CredentialCustody          what it implements
      MCPackerTask               scheme and command sets for TLC
      PackerTaskProofs           type correctness, the safety of a run, progress
      PackerTaskRefinement       it implements CredentialCustody
    ProviderIdentity             named variables, and whose identity they select
      MCProviderIdentity, ProviderIdentityProofs
    Release                      merges, release pull requests, tags, publications
      MCRelease, ReleaseProofs
    Package                      the review-time check, the composition, the .vsix
      MCPackage, PackageProofs

### PackerInstaller

One Packer version, one tool-cache entry, a set `Agents` of agent slots that each
run one installer task after another. `Concurrent` says whether runs of two
agents may overlap on the tool directory (several agents configured with one
tool directory); an agent on its own never overlaps with itself.

| Variable | Code |
|---|---|
| `complete`, `binary`, `record`, `temps`, `copies` | tool-lib's marker file, the executable in the cached directory, the sidecar, sidecar temp files (`<sidecar>.<uuid>.tmp`), whose unfinished copies of the executable are in the directory |
| `pc[a]` | the position of run `a` in `downloadPacker` and the functions it calls |
| `policy[a]` | inputs `downloadSource`, `requireChecksum`, `requireGpgSignature`, `forceOnlineReverification`, `requireOnlineReverification` |
| `hit[a]` | `wasCached` |
| `zip`, `sums`, `gpg`, `verified`, `digest` | the downloaded archive, the digest the source names for it, `gpgVerified`, `verified`, the hash computed by `recordCachedBinaryHash` |
| `warned`, `failure` | warnings by kind; why the run failed |
| `vouched`, `signed`, `checked`, `ran`, `damaged` | history, read by properties only |

The steps of a run, in the order of the code:

| Actions | Code |
|---|---|
| `Start`, `ResolveVersion`, `FindLocalTool` | `configurePacker`, `downloadPacker` 192-216 |
| `RegistryMetadata`, `DownloadArchive`, `FetchSums`, `CheckSignature`, `CheckDigest` with `Uncovered` | the three download strategies; a registry goes metadata, archive, digest, the others archive, sums, signature, digest |
| `StrategyFails` | the `catch` of `reverifyUnmarkedCacheEntry` on a hit; plain failure on a miss |
| `ExtractZip`, `CacheClear`, `CopyStarts`, `CopyEnds`, `MarkComplete` | `extractZip` and `cacheDir` of tool-lib, file operation by file operation |
| `LocatePacker`, `CheckRecord`, `CompareRelease`, `HashBinary`, `RenameRecord` | `findPackerExecutable`, `verifyCachedBinaryHash`, `reverifyUnmarkedCacheEntry`, `recordCachedBinaryHash` |
| `Finish` | `prependPath` and `packer version` |
| `Kill`, `DamageBinary`, `DamageRecord`, `DeleteEntry` | the environment |

`Faults` selects what the environment may do: `network` (an error or timeout of
any request), `withheld` (a 404 where the code tells it apart, or a document
without the entry), `content` (something other than the release is served, each
request independently), `disk`, `kill` (between any two steps), `damage` (the
cached files change while no run is active).

Where runs overlap, `CacheClear` of one removes the directory that another is filling: the
other's copy is then written to no avail, which `copies` says. Where two copies of the
executable are under way in one directory, the one that ends last stands.

What is abstracted: contents are model values and stand for their own SHA-256;
an archive stands for the binary it unpacks to; the OpenPGP check is "HashiCorp
signed this document", which only a document that names the genuine digest, or
does not list the archive at all, can satisfy; URLs, hosts, platform strings and
version strings are left out; `version` is fixed, because each version has an
entry of its own.

### PackerTask

One process from `run()` to its end. `pc` follows `index.ts`, `execute()` and the
command methods; `Script[scheme]` is the sequence of what each provider handler
does, in the order of its statements, as a list of step kinds (`require`,
`probe`, `private`, `mint`, `exchange`, `write`, `neutralize`, `configure`,
`inject`). JavaScript runs to the next `await`, so `Interrupt` (SIGTERM,
SIGINT) and `Uncaught` are enabled at awaits only, while `Lost` (SIGKILL, loss
of the machine) may happen between any two steps. The secure var file is
downloaded by a library while the run awaits it, which is why `arrived` is an
await with the file already on disk. `PlantSymlink` is what a symlink on an output
path while packer runs looks like to `isWithinWorkingDirectory`.

Left out of this module: the names of variables (`ProviderIdentity` has them), the
order of arguments, Packer's own behaviour beyond exiting with a code, and the
wording of anything. `writeSecretFile` of the task library is taken to write the
file wholly or not at all.

### VerifiedStore and CredentialCustody

What the two tasks promise, without how. `VerifiedStore` is a slot with a seal and
jobs that use what the slot holds: only vouched contents are sealed, only an
unsealed slot is filled, and a job that insists on verification uses something
vouched unless it was excused, which a job that insists on the network never is.
`CredentialCustody` has credential files and variables, one worker, and a custody
that ends by a release of everything at once or by the loss of the process.

The refinement mappings are the `INSTANCE`s at the end of `PackerInstaller` and
`PackerTask`. The slot is `binary` and the seal is the record where it is well
formed; the jobs are the runs, `State(a)` says whether one is waiting, working, done
or failed, `strict` are the runs with `requireChecksum`, `online` those with
`requireOnlineReverification`, and `excused` those that warned that they go on with
an unverified hit. Credential files are `files` but the secure var file, the
variables are there when `env` holds `credential`, custody is open until cleanup has
run, and `Worker` is packer as the task knows it: a task that ends on a signal
abandons packer with its own end. The secure var file is outside custody, since
finding 4 shows it is not always released.

### ProviderIdentity

One run's environment by name. `scheme` is the service connection's, `declared` the
variables the template declares; `inherited` and `injected` are the variables set by
the agent or the passthrough input, and by the handler. `PassthroughLine` is
`applyPassthroughEnvironmentVariables` for one line of `environmentVariables`; `AzureBegin`,
`AzureMsi`, `AzureProbe`, `AzureWif`, `AzureSp`, `AwsStatic`, `AwsWif`, `Gcp`, `OciKey`,
`OciWif`, `VSphereInject` and `VSphereOptOut` are the branches of the handlers: what
each deletes and sets, in its order (`Replace(cleared, set)`); `AssertTemplateDeclares`
is the `packer inspect` probe and `applyProviderVarArgs` the `-var` on the command line.

`AzureIdentity`, `AwsIdentity`, `GoogleIdentity`, `OciIdentity` and `VSphereIdentity` say
what packer's plugins make of such an environment, in the precedence that the
handlers' comments describe. They are outside the repository and marked external.
A value is known by who set it; groups of variables that are always
deleted together are one name (`OCI_CLI_*`).

### Release

`main` and `branch` are trees of tasks; a task is a version and six parts. All but `rest`
(tests, development) ship (`Shipped`, after `SHIP_PATTERNS` of `package-contents.js`): the
source, `task.json`, the declared and the locked production dependencies, and `assets`, which
is whatever else is packaged: strings, icons, the task's own scripts and documents, the other
fields of `package.json` and `package-lock.json`. The analysis does not look at `assets`
(`Unseen`): a change of them counts as no change. `First` is the first release. `FeatureMerge` merges a pull request that `check-versions.js` let
through; `ReleasePlease` opens the release pull request or force-pushes it after main
moved; `AutoBump` is `release-pr-minor-bumps.yml` running `bump-minor-versions.js`;
`Gate` is the required check on the merge ref; `MergeRelease` merges and tags;
`Guard` is the tag-time job of `release.yml` and `Publish` its last. `Changed`,
`NeedsBump`, `resolvePrevRef` and `bumpFile` are the analysis that all layers share.

`MergeRelease` needs a green verdict, or an administrator (`Overrides`). Nothing repeats the
verdict when main moves, and that a pull request be up to date is a setting of GitHub that
the repository does not state, so a merge on a main that has moved is an ordinary step. The
history variable `unchecked` says that some release was not what the check had judged, by
such a merge or by an override; `timely` holds the tags that the guard let through while
they were the newest, since the guard of a tag that is run late compares with a newer one.
A task that is added or removed is not modelled (an added one has nothing to bump), nor is
the text of `task.json`, nor what compiling the same source with another compiler changes.

### Package

Paths are sequences of names, a tree gives each path a kind (absent, file, symlink,
other). `classify` is `package-contents.js`'s with small sets in place of the patterns.
`Check` is `check-package-composition.js` together with the floor under the number
of tasks; `OverrideOK` is the publish-identity check. `Prepare` makes a machine's tree
out of the reviewed one and what the machine adds; `Clear`, `CopyTasks`, `RefuseStrays`,
`CopyRootDirs`, `CopyRootAssets` and `AssertOutput` are `copy-build.js` in its order, with
`Kill` between any two; `CreateExtension` is `tfx` (external): it packages what the
manifest names, with an override's words where it has any. A directory in the place of
a root asset makes the copy throw, which is a `Kill`. The check also wants the manifest
itself to be readable, and no empty path in it, which the composition passes over.

Not modelled: a symlink in place of `images/` or `Tasks/` itself, an untracked
directory among the tasks (the tree is by files), the wording of the manifest
beyond its paths, `public` and `galleryFlags`. Root assets are taken to be tracked.
`OnlyAdds` says that the machine removes nothing that is tracked; what fails without
it is in section 4.

## 3. Runs

| Run | Bounds | Question and result |
|---|---|---|
| `PackerInstaller_seq` | 1 agent, every policy the code tells apart (the re-verification toggles are read under `requireChecksum` only, and the registry does not read `requireGpgSignature`), every fault, 2 binaries | passes: any number of runs in sequence, over an entry that survives them; a refinement of `VerifiedStore` |
| `PackerInstaller_heal` | 1 agent, default toggles, no faults, `BusySpec` | passes: a torn sidecar is replaced |
| `PackerInstaller_ends` | 2 overlapping agents, a strict and a permissive mirror policy, disk and network faults, `FairSpec` | passes: each run ends |
| `PackerInstaller_policy_mix` | 1 agent, a strict and a permissive policy per source, content faults | violated, see findings |
| `PackerInstaller_withheld` | 1 agent, default toggles, withheld documents | violated, see findings |
| `PackerInstaller_shared` | 2 overlapping agents, a strict and a permissive mirror policy, content and withheld faults, 2 binaries | violated, see findings |
| `PackerTask_all` | every command, every scheme, every input, failing deletions, `FairSpec` | passes; a refinement of `CredentialCustody` |
| `PackerTask_secure_file` | `build` with the AWS federated scheme | violated, see findings |
| `ProviderIdentity_all` | every scheme; every subset of the provider's variables inherited; templates that declare everything, all but one variable, nothing, or only client id and subscription | passes |
| `Release_all` | 1 task at 1.0, a change of each of the six parts on its own and its revert, versions an author may write with and without a new Major, overrides of the check, 3 merges, 3 tags (the first release and two more) | passes: safety, and liveness of the release pull request |
| `Release_bypass` | the same; whatever was merged, for the releases that the guard let through in time | violated, see findings |
| `Package_all` | trees that differ from a sound one at one path, or at one and the notices; 2 tasks; machines that add one or two files or links; sound and unsound manifests and overrides | passes; `MCOnlyAdds` says that its machines only add |

The bounds are enough for these questions. Nothing in `PackerInstaller` counts, so
its state space is finite without any bound on the number of runs, requests or
crashes. Two binaries (the genuine one and another) are what the digest
comparison can tell apart, and one agent already runs any number of runs, each
with a policy of its own; a second agent adds only the overlap, which the
theorems exclude by `~Concurrent` and which `PackerInstaller_shared` and
`PackerInstaller_ends` examine. The latter has two policies and the failures of
network and disk only; for the others, the half of its question that is safety is
the theorem `RunsOnlyMoveForward`. `PackerTask` is one run, and a provider script
has at most ten steps (`MaxStep`). `ProviderIdentity` leaves three of the names out of
the inherited ones, each of which the code and the plugins treat exactly like one
that is in. Three tags are what `Release` needs for a baseline that is not the last
published one (finding 5 needs exactly that), and three merges put one before the
branch is computed, one after the bump and one after the check. In `Package` one wrong path
shows what each rule does on its own; pairs are there where two rules meet
(the notices with bundled dependencies, dev-only names with the manifest).

### What the properties say

Installer:
`RecordIsVouched` (a usable sidecar names a binary some run verified),
`StrictRunIsVouched` and `OnlineRunIsVouched` (what `requireChecksum` buys, without and
with `requireOnlineReverification`), `SilentInstallIsSigned` (no warning means
signature), `MirrorNeedsBothTogglesOff`, `ForcedRunChecksOnline`, `NoFalseAlarm` (a
mismatch is reported only for a binary that really changed, so no crash or
torn sidecar bricks a version), `ContradictedRunNeverDegrades`, `HitKeepsEntry`,
`TornRecordHeals`, `RunEnds`, `ImplementsStore`, and `TrustInvariant`, the inductive
invariant.

"Vouched" is deliberately weaker than "genuine": without a signature the
checksum document is whatever the mirror or registry says, and the code does not
claim more.

Task: `NoCredentialFileLeft`, `PackerKeepsItsCredentials`, `SuccessIsPackersSuccess`,
`FailedBuildPublishes`, `NoWriteOutside`, `ProbeBeforeInjection`, `TokenAfterValidation`,
`RunEnds`, `ImplementsCustody`, and `TaskInvariant`, the inductive invariant.

Identity: `ConnectionIdentity` (packer works as the service connection or refuses; the two
residues are those the code documents), `FallbackIsAnnounced` (the machine's
identity never stands in silently), `InheritanceIsHarmless` (no inherited variable
breaks a run), `CredentialGoesHome` (no inherited login endpoint, no vCenter without TLS
verification but a private one that asked for it).

Release: `NoStaleCode` (two publications that share a version agree in what ships but
`assets`, in either of two cases: every release was what the check had judged; or, whatever
was merged past the check or onto a main that had moved, the guard let each release after
the first of the two through while it was the newest), `VersionsNeverGoBack`, `OneBumpIsEnough` (where no new
Major restarted a Minor, one run of the bump script satisfies the analysis),
`ReleaseBecomesMergeable`.

Package: `NothingUnvettedShips` (wherever the composition was killed), `VsixKeepsItsPromises`
(what the listing and the contributions name is inside), `RefusalIsExplained` (check and
composition disagree for a reason, and the reasons are listed), `NoAccidentalListing`.

Every property is paired with a faulty variant of one definition (`PROJECT.json`,
`mutants`; the operators marked "Faulty variant" in the modules): with that
definition in place of the code's, TLC finds the property violated.

### Fairness

`PackerInstaller!FairSpec` gives each run weak fairness of its own steps: Node's
event loop runs every continuation that is ready, and every request of the
installer carries a timeout. The environment (faults, new runs, damage) has no
fairness, except in `BusySpec`, where agents keep being given runs.
`PackerTask!FairSpec` is weak fairness of the run; it assumes that an awaited
request settles and that packer itself exits, since the task puts no timeout on
the packer process. Nothing makes signals or the loss of the machine happen.

`Release!Spec` has weak fairness of the workflows that a push to the release branch
starts: release-please when main moved under an open pull request, the bump, and
the check. Nothing makes anybody merge, tag or publish, and main may rest. The
workflow for bumps is one step, because a push to a branch that moved is refused.

`PackerTask` configurations set `CHECK_DEADLOCK FALSE`: a run ends and the process is gone.
So do those of `ProviderIdentity`, one run as well, and of `Release`, whose commits and
tags are bounded. A machine can always be prepared again, so `Package` never deadlocks.
The installer never deadlocks, since an idle agent can always be given a run.

## 4. Findings

Each is a statement of the repository's own comments, tests or documents that a
run violates; `PROJECT.json` quotes them.

1. `PackerInstaller_policy_mix`: the record does not say how the binary was
   verified (`packer-installer.ts:296` after a fresh install, `:808` after a
   re-verification, as in TLC's trace), so a checksum-only install from a registry
   satisfies a later run with `requireGpgSignature`, silently.
2. `PackerInstaller_shared`: the record is computed from the file in the cache
   and not from the verified archive. On a shared tool directory a permissive run
   that was served something else, without a checksum for it, may cache that
   after the strict run cached what it verified, and the strict run's record then
   vouches for it. `StrictRunRecordsVouched` sets the digest of a half-copied file
   aside, which two strict runs reach as well (below).
3. `PackerInstaller_withheld`: a 404 for HashiCorp's `SHA256SUMS` is not a
   verification failure, so a cache hit degrades where the comment says
   withholding fails closed. (A mirror's 404 does fail closed.)
4. `PackerTask_secure_file`: the secure var file is on disk before
   `setSecureFileId` is called, so a signal during the download, or an error while
   tightening or masking, leaves it behind.
5. `Release_bypass`: the tag-time guard compares with the newest tag, published or not.
   A release that an administrator merged past the check, and that the guard did not let
   through, is the baseline of the next one, which is let through with the number and the
   changed code. Both releases that were published passed the guard in time.

Observed while modelling, and not the subject of a run:

- An archive that no checksum covers is rejected outside the discard wrapper and
  stays in the temp directory.
- The AWS and GCP federated handlers request a token before they validate inputs that
  can still reject the run; comments in the Azure and OCI handlers explain why those do not.
- `check-minor-bumps.js` calls a task unchanged when "nothing that ships changed since the last
  release" (:148), and looks at `src`, `task.json` and the production dependencies only. The
  package also holds the task's strings, icons, scripts and documents, and all of
  `package.json` and `package-lock.json` (`package-contents.js` 146-158). A release that changes
  only those needs no new Minor, and agents that have the task keep the old ones. The
  properties about stale code are about the rest.
- A guard that is run for an older tag, by hand or late, compares with the newest tag and not
  with the release before. It may let a tag through that it would have refused in time;
  `NoStaleCode` covers such a tag only if the required check had judged it.
- A required check is not repeated when main moves, so a release that is merged then may not be
  what was judged. Until then only the guard stands behind it.
- The composition check is silent where the composition refuses: a special file under
  `images/`, a directory the manifest names that holds only dev-only files, and a link or a
  special file, tracked or not, in a task directory under a dev-only name
  (`Tasks/X/coverage`), which the packager walks and the check's walk of `Tasks/` does not
  enter. `Unforeseen` names the three; none can be left out. The check also refuses a
  nested `task.json` that the composition would ship.
- `copy-build.js` looks for what `files[]` and the listing name, and not for the task
  behind each contribution. Where `files[]` names `Tasks` as a whole, a machine on which a
  tracked task directory is gone composes a package whose manifest contributes a task
  that is not inside. `VsixKeepsItsPromises` is therefore proved with `OnlyAdds`.
- `galleryFlags` in the base manifest is read by no check; `NoAccidentalListing` says so.
- A file system error that is thrown out of `copy-build.js` leaves a partial `./build`, as a
  kill does; only collected refusals remove it.
- After a Major restarted the Minor, one run of the bump script may not be enough and a second one bumps
  again; the script's comment says that a second run makes no further change
  (`bump-minor-versions.js:18`). `OneBumpIsEnough` has the condition under which it
  does not, and `ReleaseBecomesMergeable` holds without it, since every push runs the
  script again.
- Two runs that overlap on one tool directory hurt each other even where both demand
  checksums: one may record the digest of a file that the other is still copying, or find a
  good record beside such a file, and report a tampered binary. The version then fails
  until the entry is deleted, or the second copy ends. What cannot happen to them is
  the subject of `OverlapIsHarmlessToStrictRuns`.

## 5. Proofs

`PackerInstallerProofs` proves, for every set of agents, policies, faults and
binaries, under the assumptions `ConstantsAssumption` and `DistinctValues` of
`PackerInstaller`:

- `TypeCorrect`: `Spec => []TypeOK`, with overlapping runs too;
- with `~Concurrent`: `TrustHolds` (`TrustInvariant`), and from it `RecordsAreVouched`,
  `StrictRunsAreVouched`, `OnlineRunsAreVouched`, and `HitsKeepTheEntry` (an action property).

`~Concurrent` is a real hypothesis: finding 2 is the counterexample without it. What is left
when runs do overlap is proved beside it:

- `OwnTrustHolds`, without any hypothesis: the part of `TrustInvariant` that speaks of a
  run's own variables (`OwnTrust`). A run takes for verified only what it matched itself;
- `OverlapIsHarmlessToStrictRuns`, where every policy has `requireChecksum`: a record names,
  and a run that did not degrade uses, a vouched binary or `Partial`, a file that was still
  being copied, and no run is about to record a whole binary that nobody verified
  (`StrictRunRecordsVouched`). So finding 2 takes a permissive run. Its invariant `SharedInvariant` says that an entry
  that is not complete was filled by such runs only, and that it stays so for every run
  that missed it: nobody else can change the entry while a run is active;
- `RunsOnlyMoveForward`: `Rank`, the number of steps a run has left at most, goes down
  with each of its steps and never up, so a run takes at most 18. It needs
  `OwnTrust`: a hit and a miss pass `locate` at different times. This is the half of
  `RunEnds` that does not depend on fairness.

None of the three trust invariants is inductive. That the record is vouched for
depends on the binary being vouched for when `HashBinary` reads it, which depends,
on a miss, on the archive that `CopyEnds` put there, on `verified` saying of this
archive what the digest check found, and on nobody else touching the entry
meanwhile; on a hit it depends on the comparison with a verified archive.
`TrustInvariant` names these: `Alone` (at most one active run), `VerifiedMeansVouched`,
`StepsFitTheRun` (which branch of the code leads to which step), `BinaryFitsTheRun` (its copy
is still there, and is what it says)
and `EndIsVouched`. The argument is by action: `StepKeepsTrust` for the run that
moves, `OtherRunsKeepTrust` for the runs that do not (they are not active, and what
they claim is about their own locals and about `vouched`, which only grows),
`StartKeepsTrust`, and `EnvironmentKeepsTrust` (damage can tear or delete the record
but not invent a digest).

`PackerTaskProofs` proves, for every set of commands and schemes and whether or
not deletions may fail, under `InputsAssumption` of `PackerTask`:

- `TypeCorrect` and `TaskHolds` (`TaskInvariant`);
- from them every safety property of `PackerTask_all`: `CredentialFilesAreRemoved`,
  `PackerHasItsCredentials`, `SuccessIsEarned`, `FailedBuildsPublish`, `WritesStayInside`,
  `ProbesSeeNoCredential` and `TokensComeAfterValidation`;
- `RunsOnlyMoveForward`: every step, also a signal's or a failure's, lowers `Rank`, so a run
  takes at most 21.

The number of schemes and commands is finite and `PackerTask_all` covers all of them, so
what the proof adds is the argument. The properties speak about the end of a run,
and `TaskInvariant` says what each position of the run must already have for
that end to be clean: `RunFits` (the command handler is
registered at every step that a signal can interrupt, a run in its first part
issued nothing), `FilesFit` (a secret file is tracked
from the step that writes it until cleanup), `ProviderFits` (what is on disk, in the
environment and issued is what the script's steps so far say) and `PackerFits`. Types
alone are not inductive either: `UseSecureFile` tracks the secure var file, so
`FileArrived` says that it is on disk by then. Two facts depend on the scripts and are
lemmas about them: `ChecksPrecedeTokens` (Azure and OCI check nothing once a token is
issued) and `ProbesPrecedeInjections`.

`PackerInstallerEvidence` proves the rest of the safety of `PackerInstaller_seq`, with
`~Concurrent` but for the last: `SilentInstallsAreSigned`, `MirrorsNeedBothTogglesOff`,
`ForcedRunsCheckOnline`, `AlarmsAreTrue` (`NoFalseAlarm`) and `ContradictionsEndTheRun`. Its
invariant `EvidenceInvariant` rests on `TrustInvariant`. `ArchiveIsShown` carries the
signature from the step that checks it, over the digest, to the end of a fresh install;
`EntryIsArchive` says that the binary stays the archive that was verified, and that the
record goes before the binary does; `HitIsCompared` carries the comparison of a forced
run; `RecordIsOfBinary` is why no alarm is false: a record that differs from the binary
means that the binary was changed from outside after `CopyEnds`.

`PackerInstallerRefinement` proves, with `~Concurrent`, `RefinesStore` (`Spec =>
ImplementsStore`). Steps are mapped under `Mappable`, which adds to `TrustInvariant` that an
archive is at hand wherever one is used and that the record is missing while the
entry is copied. Each action has a lemma that names the step of the store it is, or
says that it is none.

`PackerTaskRefinement` proves `RefinesCustody` (`Spec => ImplementsCustody`) the same way; what
it adds is that packer runs where the run waits for it and that no deletion
has failed before cleanup.

`ProviderIdentityProofs` proves, under `ConfigurationAssumption` (any schemes, any inherited
names, any templates), `TypeCorrect` and the four properties of `ProviderIdentity_all`. The
argument is `IdentityIsSettled`: when packer starts, what each handler deletes is
gone and what it sets is set (`Settled`, by provider), and the way there keeps the part
already done (`StageFits`). The properties then follow from `Settled` alone, by the
plugins' order of precedence.

`ReleaseProofs` proves, under `ReleaseAssumption`, for any number of tasks, commits and tags,
`TypeCorrect`, `NoStaleCodeHolds`, `VersionsNeverGoBackHolds` and `OneBumpIsEnoughHolds`. `NoStaleCode` compares any two
publications and the check and the guard only neighbours: `PassesTransitive` bridges them,
`PassingShipsTheSame` says what a passed comparison is worth (all of `Shipped \ Unseen`), and
`TagsAreFresh` in `ReleaseInvariant` carries it, for tags the check has judged and for tags the
guard let through in time. `MergeReleaseIsFresh` is the step that adds a tag, `GuardKeepsFresh`
the one that makes a tag timely, which is worth something only because the tag before
it was then the baseline. `BranchOnlyBumps` and `GateIsAboutBranch`
say that the merge of an up-to-date branch is what was checked. `NewestIsNotAhead` says that
the newest tag is not above main or the base of the branch, so a Minor that is not above
it, with the same Major, equals it, and one step is enough.

`PackageProofs` proves, under `PackageAssumption`, for any files, names, manifests and machines,
`TypeCorrect` and `NothingUnvettedShipsHolds`, from `CompositionIsVetted`: everything in `./build`
passed the rules at every moment, also in an earlier, killed composition, and in one that
runs it is of the tree at hand. `ListingsAreMeant` (`NoAccidentalListing`) only needs what
the publish-identity check says of an override (`AcceptedOverride`).

Two more results hold where the machine only adds to the tracked tree (`OnlyAdds`, a
hypothesis of the theorems, which the instance of `Package_all` satisfies):
`VsixKeepsItsPromisesHolds` and `RefusalIsExplainedHolds`. Both compare two walks of two trees,
the check's of the reviewed one and the packager's of the machine's. The invariant `ReviewInv`
follows the composition instead of its end: `TasksTaken`, `RootDirsTaken` and `RootAssetsTaken`
say which files are in `./build` once a step is past unless something was refused,
`ComposedIsWhole` that a composition that ran to its end refused nothing, and
`RefusalsExplained` that whatever was refused up to now has one of the reasons. The last step,
`AssertOutput`, is where they meet (`PackagingKeepsPromises`, and the lemmas whose names
end in `RefusalExplained`, one per step that refuses): a path the manifest names exists in the
reviewed tree and lies where the packager copies from, hence beneath it a file was
taken, or all of it is dev-only, which is a gap of the check.

Model-checked only: the liveness properties `TornRecordHeals`, both `RunEnds` and
`ReleaseBecomesMergeable`, because liveness under fairness, and that a step is
enabled, are out of the prover's reach.

## 6. Plan

Done: the two tasks with their abstract specifications and refinement proofs, the
identity of every provider scheme, the release and the packaging; every safety and action
property that a run checks is also a theorem. Left, in order:

1. `Egress`: host authorization per redirect hop and which header or user-info
   travels.
2. `SecretMasking` and `PathContainment`: the masking scanner against a reference
   definition, path containment over a small file system with symlinks, as operators
   over bounded inputs; `parseSha256` and output sanitising with them.
3. The rules of `check-shared-modules.js`, where they are more than comparisons.

## 7. Not modelled, and why

- `hashicorp-gpg-key.ts`: constant data. `credential-guards.ts` patterns: data; their
  outcome is the accept-or-reject choice of the check steps.
- Code outside `src/` that the tasks and scripts call (tool-lib's `cacheDir`, the task
  core's download and discard helpers, the secure-file helper, `tfx`, packer's plugins) is
  modelled from how it is used here and marked external in `PROJECT.json`.
- `check-shared-modules.js` and the smoke check: static comparisons of files and the
  start of compiled code, without state. The workflows' signing, builds and other checks:
  configuration.
- The order and form of command-line arguments, the parsing of release listings and
  of packer's manifest, and version patterns: data, which no property here tells apart.
- A SIGKILL leaves credential files behind. The code says so (`index.ts` 19-35) and the
  model agrees: `NoCredentialFileLeft` is about every other end.
- An archive that holds no packer executable is cached before it is looked into,
  and the version then fails until somebody deletes the entry. The model has that
  state; the code promises nothing about it.
