------------------------------ MODULE PackerTask ------------------------------
(***************************************************************************)
(* PipelinePacker@1: one run of the task process, from index.ts's run()    *)
(* through ParentCommandHandler.execute to the end of the process, for     *)
(* every packer command and every way a provider handler obtains           *)
(* credentials.                                                            *)
(*                                                                         *)
(* JavaScript runs a step without interruption up to its next await, so a  *)
(* signal listener or an unhandled error gets its turn only while the run  *)
(* awaits something.  SIGKILL and the loss of the machine do not wait.     *)
(*                                                                         *)
(* A provider handler is the sequence of its steps (Script).  A file is    *)
(* named by the step that writes it; the secure var file, which is         *)
(* downloaded before the handler runs, is file 0.                          *)
(***************************************************************************)
EXTENDS Naturals, Sequences

CONSTANTS
  Commands,       \* the packer commands the run may be asked for
  Schemes,        \* the authentication schemes it may be configured with
  DeletionsFail   \* may the deletion of a file fail?

AllCommands == {"init", "validate", "build", "fmt", "inspect", "console",
                "fix", "hcl2_upgrade", "plugins", "version", "custom"}

\* What each provider handler does, in its order.
\*   require     check inputs and service-connection fields; may reject
\*   probe       ask packer inspect for a variable declaration; may reject
\*   private     resolve the vCenter host; may reject
\*   mint        have Azure DevOps issue an OIDC token
\*   exchange    trade it for an OCI session token
\*   write       write and track a 0600 credential file
\*   neutralize  delete inherited variables that select another identity
\*   configure   set a tracked variable that is no credential, if it has a
\*               value
\*   inject      set the tracked credential variables
AzureMsi == <<"require", "configure", "neutralize">>

\* Faulty variant: the variables are set before the template is probed, and
\* the token is issued before the tenant is read.
AzureWifInjectsEarly == <<"require", "configure", "neutralize", "mint",
                          "require", "neutralize", "inject", "probe">>

AzureWif == <<"require", "configure", "neutralize", "require", "probe",
              "mint", "neutralize", "inject">>

AzureSp == <<"require", "configure", "neutralize", "require", "probe",
             "neutralize", "inject">>

AwsStatic == <<"require", "neutralize", "inject", "require", "configure">>

AwsWif == <<"require", "mint", "write", "neutralize", "require", "inject",
            "require", "configure", "require", "configure">>

GcpKey == <<"require", "write", "neutralize", "inject">>

GcpWif == <<"require", "mint", "write", "require", "write", "neutralize",
            "inject">>

OciKey == <<"require", "write", "require", "neutralize", "inject">>

OciWif == <<"require", "mint", "exchange", "write", "write", "write",
            "neutralize", "inject">>

VSphere == <<"require", "neutralize", "inject">>

VSphereNoTls == <<"require", "inject", "private", "configure">>

Script ==
  [none |-> << >>,
   azureMsi |-> AzureMsi, azureWif |-> AzureWif, azureSp |-> AzureSp,
   awsStatic |-> AwsStatic, awsWif |-> AwsWif,
   gcpKey |-> GcpKey, gcpWif |-> GcpWif,
   ociKey |-> OciKey, ociWif |-> OciWif,
   vsphere |-> VSphere, vsphereNoTls |-> VSphereNoTls]

ASSUME InputsAssumption ==
  /\ Commands \subseteq AllCommands
  /\ Schemes \subseteq DOMAIN Script
  /\ DeletionsFail \in BOOLEAN

TakesVariables == {"validate", "build", "custom"}
Authenticates == TakesVariables \cup {"console"}

MaxStep == 10
SecureFile == 0
Files == 0..MaxStep

-----------------------------------------------------------------------------
VARIABLES
  command, scheme,  \* inputs
  secureInput,      \* input secureVarsFile is set
  outputInput,      \* inputs manifestFile, fixOutputFile, hclOutputFile
  pc,               \* where run() is
  step,             \* next step of the provider handler
  active,           \* ParentCommandHandler.activeHandler is set
  files,            \* secret files on disk
  tracked,          \* those TempSecretFileManager knows of
  env,              \* tracked environment variables that are set
  child,            \* the packer process of the command
  code,             \* its exit code
  escaped,          \* the output path leads out of the working directory
  outputs,          \* what the run published
  outcome,          \* of execute(): does it return or throw?
  result,           \* tasks.setResult
  process,          \* the task process
  \* History, read by the properties only.
  stuck,            \* files whose deletion failed, with a warning
  minted,           \* an OIDC token was issued
  rejected          \* the run was rejected for its configuration

inputs == <<command, scheme, secureInput, outputInput>>
secrets == <<files, tracked, env, stuck>>
effects == <<child, code, escaped, outputs>>
vars == <<inputs, pc, step, active, secrets, effects, outcome, result, process,
          minted, rejected>>

Labels == {"dispatch", "prepare", "download", "arrived", "provider", "spawn",
           "executing", "after", "finally", "report", "ended"}

TypeOK ==
  /\ command \in Commands /\ scheme \in Schemes \cup {"none"}
  /\ secureInput \in BOOLEAN /\ outputInput \in BOOLEAN
  /\ pc \in Labels
  /\ step \in 1..MaxStep + 1
  /\ active \in BOOLEAN
  /\ files \subseteq Files /\ tracked \subseteq files /\ stuck \subseteq files
  /\ env \subseteq {"passthrough", "githubToken", "configuration", "credential"}
  /\ child \in {"none", "running", "exited"}
  /\ code \in {"none", "zero", "nonzero"}
  /\ escaped \in BOOLEAN
  /\ outputs \subseteq {"build", "fixed"}
  /\ outcome \in {"returns", "throws"}
  /\ result \in {"none", "Succeeded", "Failed"}
  /\ process \in {"running", "exited", "signalled", "lost"}
  /\ minted \in BOOLEAN /\ rejected \in BOOLEAN

\* Only an authenticating command calls a provider handler, and only a
\* command that takes variables downloads the secure var file.
Init ==
  /\ command \in Commands
  /\ scheme \in (IF command \in Authenticates THEN Schemes ELSE {"none"})
  /\ secureInput \in (IF command \in TakesVariables THEN BOOLEAN ELSE {FALSE})
  /\ outputInput \in BOOLEAN
  /\ pc = "dispatch" /\ step = 1 /\ active = FALSE
  /\ files = {} /\ tracked = {} /\ env = {} /\ stuck = {}
  /\ child = "none" /\ code = "none" /\ escaped = FALSE /\ outputs = {}
  /\ outcome = "returns" /\ result = "none" /\ process = "running"
  /\ minted = FALSE /\ rejected = FALSE

-----------------------------------------------------------------------------
\* execute() up to the first await.

Throw == pc' = "finally" /\ outcome' = "throws"

Reject == Throw /\ rejected' = TRUE

Continue(label) == pc' = label /\ UNCHANGED outcome

Dispatch ==
  /\ pc = "dispatch"
  /\ \/ /\ pc' = "report" /\ outcome' = "throws"      \* unknown provider
        /\ rejected' = TRUE
        /\ UNCHANGED <<active, env>>
     \/ /\ active' = TRUE
        /\ env' \in SUBSET {"passthrough"}
        /\ Continue("prepare") /\ UNCHANGED rejected
     \/ /\ active' = TRUE                             \* a refused passthrough
        /\ env' \in SUBSET {"passthrough"}            \* line, or command
        /\ Reject
  /\ UNCHANGED <<inputs, step, files, tracked, stuck, effects, result, process,
                 minted>>

\* The command's own arguments and their validation.
Prepare ==
  /\ pc = "prepare"
  /\ \/ /\ Continue(CASE secureInput -> "download"
                      [] ~secureInput /\ command \in Authenticates -> "provider"
                      [] OTHER -> "spawn")
        /\ env' \in (IF command = "init" THEN {env, env \cup {"githubToken"}}
                                         ELSE {env})
        /\ UNCHANGED rejected
     \/ Reject /\ UNCHANGED env
  /\ UNCHANGED <<inputs, step, active, files, tracked, stuck, effects, result,
                 process, minted>>

-----------------------------------------------------------------------------
\* applyVarArgs: the secure var file.

\* The library writes the file while the run awaits it, or fails.
DownloadSecureFile ==
  /\ pc = "download"
  /\ \/ /\ files' = files \cup {SecureFile}
        /\ Continue("arrived")
     \/ /\ Throw
        /\ UNCHANGED files
  /\ UNCHANGED <<inputs, step, active, tracked, env, stuck, effects, result,
                 process, minted, rejected>>

\* Tighten its permissions, mask its values, record it for cleanup, then
\* check that every variable file lies in the working directory.
UseSecureFile ==
  /\ pc = "arrived"
  /\ \/ Throw /\ UNCHANGED <<tracked, rejected>>
     \/ /\ tracked' = tracked \cup {SecureFile}
        /\ \/ Continue("provider") /\ UNCHANGED rejected
           \/ Reject
  /\ UNCHANGED <<inputs, step, active, files, env, stuck, effects, result,
                 process, minted>>

-----------------------------------------------------------------------------
\* handleProvider, one step of the script at a time.

AtStep(kind) ==
  pc = "provider" /\ step <= Len(Script[scheme]) /\ Script[scheme][step] = kind

NextStep == step' = step + 1 /\ UNCHANGED <<pc, outcome>>

\* A check of inputs, or one that needs an answer from outside.
CheckStep ==
  /\ AtStep("require") \/ AtStep("probe") \/ AtStep("private")
  /\ \/ NextStep /\ UNCHANGED rejected
     \/ Reject /\ UNCHANGED step
  /\ UNCHANGED <<inputs, active, secrets, effects, result, process, minted>>

RequestToken ==
  /\ AtStep("mint") \/ AtStep("exchange")
  /\ \/ NextStep /\ minted' = TRUE
     \/ Throw /\ UNCHANGED <<step, minted>>
  /\ UNCHANGED <<inputs, active, secrets, effects, result, process, rejected>>

\* Faulty variant: a handler writes its file without recording it.
WriteSecretFileUntracked ==
  /\ AtStep("write")
  /\ NextStep
  /\ files' = files \cup {step}
  /\ UNCHANGED <<inputs, active, tracked, env, stuck, effects, result, process,
                 minted, rejected>>

\* writeTracked: write, then push the path.
WriteSecretFile ==
  /\ AtStep("write")
  /\ \/ NextStep /\ files' = files \cup {step} /\ tracked' = tracked \cup {step}
     \/ Throw /\ UNCHANGED <<step, files, tracked>>
  /\ UNCHANGED <<inputs, active, env, stuck, effects, result, process, minted,
                 rejected>>

SetVariables ==
  /\ \/ AtStep("neutralize") /\ UNCHANGED env
     \/ AtStep("configure") /\ env' \in {env, env \cup {"configuration"}}
     \/ AtStep("inject") /\ env' = env \cup {"credential"}
  /\ NextStep
  /\ UNCHANGED <<inputs, active, files, tracked, stuck, effects, result,
                 process, minted, rejected>>

ProviderDone ==
  /\ pc = "provider" /\ step > Len(Script[scheme])
  /\ Continue("spawn")
  /\ UNCHANGED <<inputs, step, active, secrets, effects, result, process,
                 minted, rejected>>

-----------------------------------------------------------------------------
\* The packer process.

\* Faulty variant: execute() does not await the command it started.
SpawnPackerUnawaited ==
  /\ pc = "spawn"
  /\ child' = "running"
  /\ Continue("finally")
  /\ UNCHANGED <<inputs, step, active, secrets, code, escaped, outputs, result,
                 process, minted, rejected>>

\* execAsync starts packer, or fails to: say, no such working directory.
SpawnPacker ==
  /\ pc = "spawn"
  /\ \/ child' = "running" /\ Continue("executing")
     \/ Throw /\ UNCHANGED child
  /\ UNCHANGED <<inputs, step, active, secrets, code, escaped, outputs, result,
                 process, minted, rejected>>

\* Faulty variant: only fix looks at the exit code itself.
IgnoresReturnCodeInFix == command = "fix" /\ outputInput

\* A build, or a fix that keeps its output, looks at the exit code itself;
\* anywhere else a non-zero code rejects the await.
IgnoresReturnCode == command = "build" \/ (command = "fix" /\ outputInput)

WorksOnOutput ==
  IgnoresReturnCode \/ (command = "hcl2_upgrade" /\ outputInput)

PackerExits ==
  /\ pc = "executing"
  /\ child' = "exited"
  /\ \/ /\ code' = "zero" /\ Continue(IF WorksOnOutput THEN "after" ELSE "finally")
     \/ /\ code' = "nonzero"
        /\ IF IgnoresReturnCode THEN Continue("after") ELSE Throw
  /\ UNCHANGED <<inputs, step, active, secrets, escaped, outputs, result,
                 process, minted, rejected>>

\* Faulty variant: the exit code that was ignored is never looked at again.
AfterPackerForgetsCode ==
  /\ pc = "after"
  /\ outputs' = IF command = "build" /\ outputInput /\ ~escaped THEN {"build"} ELSE {}
  /\ Continue("finally")
  /\ UNCHANGED <<inputs, step, active, secrets, child, code, escaped, result,
                 process, minted, rejected>>

\* Faulty variant: fix relies on the path check made before packer ran.
AfterPackerUnchecked ==
  /\ pc = "after"
  /\ outputs' \in (IF command = "fix" THEN {{}, {"fixed"}}
                   ELSE {IF command = "build" /\ outputInput THEN {"build"} ELSE {}})
  /\ IF code = "zero" THEN Continue("finally") ELSE Throw
  /\ UNCHANGED <<inputs, step, active, secrets, child, code, escaped, result,
                 process, minted, rejected>>

\* What the command does with packer's output.  A build publishes whatever
\* the manifest holds and only then fails; fix checks the path again, writes
\* the template, if packer printed one, and only then fails.
AfterPacker ==
  /\ pc = "after"
  /\ \/ /\ command = "build"
        /\ outputs' = IF outputInput /\ ~escaped THEN {"build"} ELSE {}
        /\ IF code = "zero" THEN Continue("finally") ELSE Throw
     \/ /\ command = "fix" /\ ~escaped
        /\ outputs' \in {{}, {"fixed"}}
        /\ IF code = "zero" THEN Continue("finally") ELSE Throw
     \/ /\ command = "hcl2_upgrade" /\ ~escaped
        /\ Continue("finally")
        /\ UNCHANGED outputs
     \/ /\ command # "build" /\ escaped
        /\ Throw
        /\ UNCHANGED outputs
  /\ UNCHANGED <<inputs, step, active, secrets, child, code, escaped, result,
                 process, minted, rejected>>

-----------------------------------------------------------------------------
\* The end of the run.

\* Faulty variant: the list of tracked files is not cleared.
CleanupTempFilesRemembers ==
  /\ stuck' = stuck
  /\ files' = files \ tracked
  /\ tracked' = tracked

\* TempSecretFileManager.cleanup: every tracked file is scrubbed and deleted;
\* a deletion that fails is warned about and forgotten.
CleanupTempFiles ==
  /\ stuck' \in {stuck \cup failed : failed \in
                   IF DeletionsFail THEN SUBSET (tracked \cap files) ELSE {{}}}
  /\ files' = files \ (tracked \ stuck')
  /\ tracked' = {}

\* The finally block of execute().
Finally ==
  /\ pc = "finally"
  /\ CleanupTempFiles
  /\ env' = {}
  /\ active' = FALSE
  /\ Continue("report")
  /\ UNCHANGED <<inputs, step, effects, result, process, minted, rejected>>

\* Faulty variant: an error of execute() is not reported.
ReportSuccessOnly ==
  /\ pc = "report"
  /\ result' = IF outcome = "returns" THEN "Succeeded" ELSE result
  /\ process' = "exited"
  /\ Continue("ended")
  /\ UNCHANGED <<inputs, step, active, secrets, effects, minted, rejected>>

Report ==
  /\ pc = "report"
  /\ result' = IF outcome = "returns" THEN "Succeeded" ELSE "Failed"
  /\ process' = "exited"
  /\ Continue("ended")
  /\ UNCHANGED <<inputs, step, active, secrets, effects, minted, rejected>>

-----------------------------------------------------------------------------
\* Abnormal termination.

Awaiting ==
  \/ pc \in {"download", "arrived", "executing"}
  \/ AtStep("probe") \/ AtStep("private") \/ AtStep("mint") \/ AtStep("exchange")

\* Faulty variant: the signal handlers only clear the environment.
EmergencyCleanupOfVariables ==
  /\ env' = {}
  /\ UNCHANGED <<files, tracked, stuck>>
  /\ Continue("ended")

EmergencyCleanup ==
  /\ env' = {}
  /\ IF active THEN CleanupTempFiles ELSE UNCHANGED <<files, tracked, stuck>>
  /\ Continue("ended")

\* SIGTERM or SIGINT: clean up, then die of the signal.  No result is set.
Interrupt ==
  /\ Awaiting
  /\ EmergencyCleanup
  /\ process' = "signalled"
  /\ UNCHANGED <<inputs, step, active, effects, result, minted, rejected>>

\* uncaughtException or unhandledRejection.
Uncaught ==
  /\ Awaiting
  /\ EmergencyCleanup
  /\ result' = "Failed"
  /\ process' = "exited"
  /\ UNCHANGED <<inputs, step, active, effects, minted, rejected>>

\* SIGKILL, out of memory, or the machine is gone: nothing runs any more.
Lost ==
  /\ pc # "ended"
  /\ process' = "lost"
  /\ Continue("ended")
  /\ UNCHANGED <<inputs, step, active, secrets, effects, result, minted, rejected>>

\* While packer runs, a symlink appears on the output path.
PlantSymlink ==
  /\ pc = "executing" /\ outputInput /\ ~escaped
  /\ escaped' = TRUE
  /\ UNCHANGED <<inputs, pc, step, active, secrets, child, code, outputs,
                 outcome, result, process, minted, rejected>>

Run ==
  \/ Dispatch \/ Prepare \/ DownloadSecureFile \/ UseSecureFile
  \/ CheckStep \/ RequestToken \/ WriteSecretFile \/ SetVariables \/ ProviderDone
  \/ SpawnPacker \/ PackerExits \/ AfterPacker
  \/ Finally \/ Report

Next == Run \/ Interrupt \/ Uncaught \/ Lost \/ PlantSymlink

Spec == Init /\ [][Next]_vars

\* An await settles and the run continues; packer itself exits.
FairSpec == Spec /\ WF_vars(Run)

-----------------------------------------------------------------------------
\* Safety.

\* However the run ends short of SIGKILL, no credential file a handler wrote
\* stays on disk, except one whose deletion failed with a warning
\* (index.ts 25-59, EntryPointSignalsL0).
NoCredentialFileLeft ==
  process \in {"exited", "signalled"} => files \ {SecureFile} \subseteq stuck

\* Cleanup never runs under packer: while the command's packer process runs
\* and the task awaits it, every file the handler wrote is on disk, the
\* secure var file too, and the credential variables are set.
PackerKeepsItsCredentials ==
  (child = "running" /\ process = "running") =>
    /\ {i \in 1..Len(Script[scheme]) : Script[scheme][i] = "write"} \subseteq files
    /\ secureInput => SecureFile \in files
    /\ (\E i \in 1..Len(Script[scheme]) : Script[scheme][i] = "inject")
         => "credential" \in env

\* The task succeeds only if packer ran and exited with zero, also for the
\* commands that take the exit code into their own hands (#202, #203).
SuccessIsPackersSuccess ==
  result = "Succeeded" => child = "exited" /\ code = "zero"

\* A build that ran to its end publishes its outputs even when it failed, so
\* that a later step can remove what it left behind (#202, 537-549).
FailedBuildPublishes ==
  (command = "build" /\ child = "exited" /\ result # "none" /\ outputInput /\ ~escaped)
    => "build" \in outputs

\* fix never writes through a symlink that appeared while packer ran (#110).
NoWriteOutside == "fixed" \in outputs => ~escaped

\* packer inspect echoes the values of variables, so the probe runs before
\* any credential is injected (284, "Callers must also run it BEFORE
\* injecting").
ProbeBeforeInjection == AtStep("probe") => "credential" \notin env

\* The Azure and OCI handlers issue a token only after every check that may
\* reject the run (azure-packer-command-handler.ts 148-152,
\* oci-packer-command-handler.ts 187-190).
TokenAfterValidation ==
  rejected /\ scheme \in {"azureWif", "ociWif"} => ~minted

-----------------------------------------------------------------------------
\* The inductive strengthening of these properties.

Early == {"dispatch", "prepare", "download", "arrived"}
Closing == {"finally", "report", "ended"}

\* The handler has done a step of this kind.
Did(kind) ==
  \E i \in 1..Len(Script[scheme]) : i < step /\ Script[scheme][i] = kind

\* Where the run is, and what cannot have happened there yet.
RunFits ==
  /\ (process = "running") <=> (pc # "ended")
  /\ pc \notin {"dispatch", "report", "ended"} => active
  /\ pc \in Early => step = 1 /\ ~minted /\ "credential" \notin env
  /\ pc \in {"spawn", "executing"} => step > Len(Script[scheme])
  /\ command \notin Authenticates => scheme = "none" /\ ~secureInput
  /\ rejected => pc \in Closing
  /\ result # "none" => pc = "ended"

\* Every secret file is tracked until cleanup, and none is afterwards.
FilesFit ==
  /\ pc # "ended" => files \ {SecureFile} \subseteq tracked \cup stuck
  /\ pc = "dispatch" => files = {}
  /\ pc = "report" => tracked = {}
  /\ pc = "arrived" => SecureFile \in files
  /\ secureInput /\ pc \in {"provider", "spawn", "executing"}
       => SecureFile \in files

\* What the handler did so far is what its script says.
ProviderFits ==
  /\ pc \in {"provider", "spawn", "executing"} =>
       /\ \A i \in 1..Len(Script[scheme]) :
            i < step /\ Script[scheme][i] = "write" => i \in files
       /\ Did("inject") => "credential" \in env
  /\ pc = "provider" =>
       /\ "credential" \in env => Did("inject")
       /\ minted => Did("mint") \/ Did("exchange")

\* Where packer is, and what became of its exit code.
PackerFits ==
  /\ child = "running" /\ pc # "ended" => pc = "executing"
  /\ child = "exited" => pc \in Closing \cup {"after"}
  /\ outputs # {} => pc \in Closing
  /\ pc = "after" => child = "exited" /\ (code = "zero" \/ IgnoresReturnCode)
  /\ pc \in {"finally", "report"} =>
       /\ outcome = "returns" => child = "exited" /\ code = "zero"
       /\ (command = "build" /\ child = "exited" /\ outputInput /\ ~escaped)
            => "build" \in outputs

\* What holds between any two steps of a run: its position, its secret files,
\* the work of its provider handler and the fate of its packer process fit
\* together, so that every end of the run is a clean one.
TaskInvariant ==
  /\ RunFits /\ FilesFit /\ ProviderFits /\ PackerFits
  /\ NoCredentialFileLeft /\ SuccessIsPackersSuccess /\ FailedBuildPublishes
  /\ NoWriteOutside /\ TokenAfterValidation

-----------------------------------------------------------------------------
\* The abstract specification.

\* Packer, as long as the task is there to wait for it.
Worker ==
  CASE child = "none" -> "none"
    [] child = "running" /\ process = "running" -> "working"
    [] OTHER -> "gone"

Custody ==
  INSTANCE CredentialCustody WITH
    files <- files \ {SecureFile},
    injected <- "credential" \in env,
    worker <- Worker,
    open <- pc \notin {"report", "ended"},
    stuck <- stuck \ {SecureFile}

\* Every step of a run is a step of the custody of its credentials or leaves
\* it alone: all of them exist before packer starts, none goes while it
\* works, and every end but the loss of the process releases all of them at
\* once (index.ts 25-59, parent-handler.ts 13-34).
ImplementsCustody == Custody!Spec

-----------------------------------------------------------------------------
\* Liveness, under FairSpec: the run ends, with a result unless it was
\* killed by a signal.
RunEnds == <>(process # "running" /\ (process = "exited" => result # "none"))

-----------------------------------------------------------------------------
\* What the repository says of the program and the program does not do.

\* The secure var file is removed like every other secret file ("Records the
\* downloaded secure var file so cleanup can delete it too",
\* temp-secret-file-manager.ts:57).
NoSecureFileLeft ==
  process \in {"exited", "signalled"} => (SecureFile \in files => SecureFile \in stuck)

=============================================================================
