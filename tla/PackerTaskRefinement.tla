------------------------- MODULE PackerTaskRefinement -------------------------
(***************************************************************************)
(* PackerTask implements CredentialCustody, for every set of commands and  *)
(* authentication schemes: each step of a run is one step of the custody   *)
(* of its credentials, or none.                                            *)
(***************************************************************************)
EXTENDS PackerTaskProofs

-----------------------------------------------------------------------------
\* What the mapping needs beyond the invariant of the run: packer is running
\* where the run waits for it, and no deletion failed before cleanup.
CustodyFits ==
  /\ pc = "executing" => child = "running"
  /\ pc \notin {"report", "ended"} => stuck = {}

\* It holds as long as the run's own invariant does.
LEMMA CustodyStaysFit ==
  ASSUME TypeOK, RunFits, CustodyFits, [Next]_vars
  PROVE  CustodyFits'
<1> USE DEF CustodyFits, inputs, secrets, effects, Continue, Throw, Reject,
           NextStep
<1>1. CASE Dispatch
  BY <1>1 DEF Dispatch
<1>2. CASE Prepare
  BY <1>2 DEF Prepare
<1>3. CASE DownloadSecureFile \/ UseSecureFile
  BY <1>3 DEF DownloadSecureFile, UseSecureFile
<1>4. CASE CheckStep \/ RequestToken \/ WriteSecretFile \/ SetVariables
  BY <1>4 DEF CheckStep, RequestToken, WriteSecretFile, SetVariables, AtStep
<1>5. CASE ProviderDone \/ SpawnPacker
  BY <1>5 DEF ProviderDone, SpawnPacker
<1>6. CASE PackerExits \/ AfterPacker
  BY <1>6 DEF PackerExits, AfterPacker
<1>7. CASE Finally
  BY <1>7 DEF Finally
<1>8. CASE Report \/ Lost
  BY <1>8 DEF Report, Lost
<1>9. CASE Interrupt \/ Uncaught
  BY <1>9 DEF Interrupt, Uncaught, EmergencyCleanup
<1>10. CASE PlantSymlink \/ UNCHANGED vars
  BY <1>10 DEF PlantSymlink, vars
<1> QED
  BY <1>1, <1>2, <1>3, <1>4, <1>5, <1>6, <1>7, <1>8, <1>9, <1>10 DEF Next, Run

\* The invariant under which steps are mapped.
Mappable == TypeOK /\ TaskInvariant /\ CustodyFits

\* Every reachable state is mappable.
LEMMA AlwaysMappable == Spec => []Mappable
<1>1. Init => CustodyFits
  BY DEF Init, CustodyFits
<1>2. TypeOK /\ TaskInvariant /\ CustodyFits /\ [Next]_vars => CustodyFits'
  BY CustodyStaysFit DEF TaskInvariant
<1> QED
  BY <1>1, <1>2, TypeCorrect, TaskHolds, PTL DEF Spec, Mappable

-----------------------------------------------------------------------------
\* The steps of a run as steps of custody.

\* Before packer is started custody sees no worker.
LEMMA NoWorkerYet ==
  ASSUME Mappable, pc \notin {"executing", "after"} \cup Closing
  PROVE  child = "none" /\ Worker = "none" /\ process = "running"
  BY DEF Mappable, TaskInvariant, RunFits, PackerFits, TypeOK, Worker, Closing

\* A file that a handler writes is added, and a failed write is no step.
LEMMA WritesAreAdditions ==
  ASSUME Mappable, WriteSecretFile
  PROVE  (\E f \in Files : Custody!AddFile(f)) \/ UNCHANGED Custody!vars
<1>1. Worker = "none" /\ pc = "provider"
  BY NoWorkerYet DEF WriteSecretFile, AtStep, Closing
<1>2. step \in 1..MaxStep /\ step \in Files /\ step # SecureFile
  BY CurrentStep DEF WriteSecretFile, Mappable, SecureFile
<1>3. UNCHANGED <<env, stuck, child, process>>
  BY DEF WriteSecretFile, secrets, effects
<1>4. Worker' = Worker
  BY <1>3 DEF Worker
<1>5. CASE NextStep /\ files' = files \cup {step}
  <2>1. files' \ {SecureFile} = (files \ {SecureFile}) \cup {step}
    BY <1>2, <1>5
  <2>2. pc' = "provider"
    BY <1>1, <1>5 DEF NextStep
  <2>3. Custody!AddFile(step)
    BY <1>1, <1>3, <1>4, <2>1, <2>2 DEF Custody!AddFile, Custody!Preparing
  <2> QED
    BY <1>2, <2>3
<1>6. CASE Throw /\ UNCHANGED files
  BY <1>1, <1>3, <1>4, <1>6 DEF Throw, Custody!vars
<1> QED
  BY <1>5, <1>6 DEF WriteSecretFile

\* Injection adds the variables, and other variables are no credentials.
LEMMA InjectionsAreAdditions ==
  ASSUME Mappable, SetVariables
  PROVE  Custody!AddVariables \/ UNCHANGED Custody!vars
<1>1. Worker = "none" /\ pc = "provider" /\ pc' = "provider"
  BY NoWorkerYet DEF SetVariables, AtStep, Closing, NextStep
<1>2. UNCHANGED <<files, stuck, child, process>>
  BY DEF SetVariables, effects
<1>3. Worker' = Worker
  BY <1>2 DEF Worker
<1>4. CASE env' = env \cup {"credential"}
  BY <1>1, <1>2, <1>3, <1>4 DEF Custody!AddVariables, Custody!Preparing
<1>5. CASE env' \in {env, env \cup {"configuration"}}
  BY <1>1, <1>2, <1>3, <1>5 DEF Custody!vars
<1> QED
  BY <1>4, <1>5 DEF SetVariables

\* Packer starts and stops.
LEMMA PackerIsTheWorker ==
  ASSUME Mappable, SpawnPacker \/ PackerExits
  PROVE  Custody!Start \/ Custody!Stop \/ UNCHANGED Custody!vars
<1>1. CASE SpawnPacker
  <2>1. Worker = "none" /\ child = "none" /\ process = "running" /\ pc = "spawn"
    BY <1>1, NoWorkerYet DEF SpawnPacker, Closing
  <2>2. UNCHANGED <<files, env, stuck, process>> /\ pc' \in {"executing", "finally"}
    BY <1>1 DEF SpawnPacker, secrets, Continue, Throw
  <2>3. CASE child' = "running"
    <3>1. Worker' = "working"
      BY <2>1, <2>2, <2>3 DEF Worker
    <3> QED
      BY <2>1, <2>2, <3>1 DEF Custody!Start, Custody!Preparing
  <2>4. CASE UNCHANGED child
    <3>1. Worker' = Worker
      BY <2>2, <2>4 DEF Worker
    <3> QED
      BY <2>1, <2>2, <3>1 DEF Custody!vars
  <2> QED
    BY <1>1, <2>3, <2>4 DEF SpawnPacker
<1>2. CASE PackerExits
  <2>1. child = "running" /\ process = "running" /\ pc = "executing"
    BY <1>2 DEF PackerExits, Mappable, CustodyFits, TaskInvariant, RunFits
  <2>2. /\ UNCHANGED <<files, env, stuck, process>> /\ child' = "exited"
        /\ pc' \in {"after", "finally"}
    BY <1>2 DEF PackerExits, secrets, Continue, Throw
  <2>3. Worker = "working" /\ Worker' = "gone"
    BY <2>1, <2>2 DEF Worker
  <2> QED
    BY <2>1, <2>2, <2>3 DEF Custody!Stop
<1> QED
  BY <1>1, <1>2

\* Cleanup leaves exactly the credential files it could not delete.
LEMMA CleanupReleases ==
  ASSUME Mappable, CleanupTempFiles, pc \notin {"report", "ended"}
  PROVE  /\ files' \ {SecureFile} = stuck' \ {SecureFile}
         /\ files' \ {SecureFile} \in SUBSET (files \ {SecureFile})
<1>1. stuck = {} /\ files \ {SecureFile} \subseteq tracked
  BY DEF Mappable, CustodyFits, TaskInvariant, FilesFit
<1>2. stuck' \subseteq files /\ files' = files \ (tracked \ stuck')
  BY <1>1 DEF CleanupTempFiles
<1> QED
  BY <1>1, <1>2

\* The finally block releases with packer gone or never started.
LEMMA FinallyReleases ==
  ASSUME Mappable, Finally
  PROVE  Custody!Release
<1>1. pc = "finally" /\ pc' = "report" /\ env' = {} /\ CleanupTempFiles
      /\ UNCHANGED <<child, process>>
  BY DEF Finally, Continue, effects
<1>2. Worker' = Worker /\ Worker # "working"
  BY <1>1 DEF Worker, Mappable, TaskInvariant, PackerFits
<1>3. /\ files' \ {SecureFile} = stuck' \ {SecureFile}
      /\ files' \ {SecureFile} \in SUBSET (files \ {SecureFile})
  BY <1>1, CleanupReleases
<1>4. Custody!Dismiss
  BY <1>2 DEF Custody!Dismiss
<1>5. \E failed \in SUBSET (files \ {SecureFile}) :
        files' \ {SecureFile} = failed /\ stuck' \ {SecureFile} = failed
  BY <1>3, Zenon
<1>6. "credential" \notin env'
  BY <1>1
<1> QED
  BY <1>1, <1>4, <1>5, <1>6 DEF Custody!Release

\* So does a signal or an uncaught error, abandoning packer if it runs.
LEMMA EmergenciesRelease ==
  ASSUME Mappable, Interrupt \/ Uncaught
  PROVE  Custody!Release
<1>1. /\ Awaiting /\ EmergencyCleanup /\ child' = child
      /\ process' \in {"signalled", "exited"}
  BY DEF Interrupt, Uncaught, effects
<1>2. pc \notin {"dispatch", "report", "ended"}
  BY <1>1 DEF Awaiting, AtStep
<1>3. active /\ process = "running"
  BY <1>2 DEF Mappable, TaskInvariant, RunFits
<1>4. pc' = "ended" /\ env' = {} /\ CleanupTempFiles
  BY <1>1, <1>3 DEF EmergencyCleanup, Continue
<1>5. /\ files' \ {SecureFile} = stuck' \ {SecureFile}
      /\ files' \ {SecureFile} \in SUBSET (files \ {SecureFile})
  BY <1>2, <1>4, CleanupReleases
<1>6. Custody!Dismiss
  BY <1>1, <1>3 DEF Custody!Dismiss, Worker
<1>7. \E failed \in SUBSET (files \ {SecureFile}) :
        files' \ {SecureFile} = failed /\ stuck' \ {SecureFile} = failed
  BY <1>5, Zenon
<1>8. "credential" \notin env'
  BY <1>4
<1> QED
  BY <1>2, <1>4, <1>6, <1>7, <1>8 DEF Custody!Release

\* The loss of the process ends custody, unless it had ended before.
LEMMA LossEndsCustody ==
  ASSUME Mappable, Lost
  PROVE  Custody!Lose \/ UNCHANGED Custody!vars
<1>1. /\ pc' = "ended" /\ process' = "lost" /\ process = "running"
      /\ UNCHANGED <<files, env, stuck, child>>
  BY DEF Lost, Continue, secrets, effects, Mappable, TaskInvariant, RunFits
<1>2. Custody!Dismiss
  BY <1>1 DEF Custody!Dismiss, Worker
<1>3. CASE pc = "report"
  <2>1. child # "running"
    BY <1>3 DEF Mappable, TaskInvariant, PackerFits
  <2>2. Worker' = Worker
    BY <1>1, <2>1 DEF Worker
  <2> QED
    BY <1>1, <1>3, <2>2 DEF Custody!vars
<1>4. CASE pc # "report"
  BY <1>1, <1>2, <1>4 DEF Custody!Lose, Lost
<1> QED
  BY <1>3, <1>4

\* A run that is refused before it starts releases nothing.
LEMMA DispatchIsNoStep ==
  ASSUME Mappable, Dispatch
  PROVE  Custody!Release \/ UNCHANGED Custody!vars
<1>1. pc = "dispatch" /\ UNCHANGED <<files, stuck, child, process>>
  BY DEF Dispatch, effects
<1>2. files = {} /\ stuck = {} /\ "credential" \notin env
  BY <1>1 DEF Mappable, TaskInvariant, FilesFit, RunFits, CustodyFits, Early
<1>3. Worker' = Worker /\ Worker = "none"
  BY <1>1, NoWorkerYet DEF Worker, Closing
<1>4. CASE pc' = "report" /\ env' = env
  <2>1. Custody!Dismiss
    BY <1>3 DEF Custody!Dismiss
  <2>2. files' \ {SecureFile} = {} /\ stuck' \ {SecureFile} = {}
    BY <1>1, <1>2
  <2> QED
    BY <1>1, <1>2, <1>4, <2>1, <2>2 DEF Custody!Release
<1>5. CASE pc' \in {"prepare", "finally"} /\ env' \in SUBSET {"passthrough"}
  BY <1>1, <1>2, <1>3, <1>5 DEF Custody!vars
<1> QED
  BY <1>1, <1>4, <1>5 DEF Dispatch, Continue, Reject, Throw

\* The steps that touch no credential.
LEMMA OtherStepsAreNone ==
  ASSUME Mappable,
         \/ Prepare \/ DownloadSecureFile \/ UseSecureFile \/ CheckStep
         \/ RequestToken \/ ProviderDone \/ AfterPacker \/ PlantSymlink
  PROVE  UNCHANGED Custody!vars
<1>1. UNCHANGED <<child, process, stuck>> /\ files' \ {SecureFile} = files \ {SecureFile}
  BY DEF Prepare, DownloadSecureFile, UseSecureFile, CheckStep, RequestToken,
         ProviderDone, AfterPacker, PlantSymlink, effects, secrets
<1>2. ("credential" \in env') = ("credential" \in env)
  BY DEF Prepare, DownloadSecureFile, UseSecureFile, CheckStep, RequestToken,
         ProviderDone, AfterPacker, PlantSymlink, secrets
<1>3. pc \notin {"report", "ended"} /\ pc' \notin {"report", "ended"}
  BY DEF Prepare, DownloadSecureFile, UseSecureFile, CheckStep, RequestToken,
         ProviderDone, AfterPacker, PlantSymlink, AtStep, Continue, Throw,
         Reject, NextStep
<1>4. Worker' = Worker
  BY <1>1 DEF Worker
<1> QED
  BY <1>1, <1>2, <1>3, <1>4 DEF Custody!vars

\* Reporting the result comes after custody.
LEMMA ReportIsNoStep ==
  ASSUME Mappable, Report
  PROVE  UNCHANGED Custody!vars
<1>1. /\ pc = "report" /\ pc' = "ended" /\ child # "running"
      /\ UNCHANGED <<files, env, stuck, child>>
  BY DEF Report, Continue, secrets, effects, Mappable, TaskInvariant, PackerFits
<1>2. Worker' = Worker
  BY <1>1 DEF Worker
<1> QED
  BY <1>1, <1>2 DEF Custody!vars

\* A run implements the custody of its credentials: whichever command,
\* provider and failure, they are complete before packer starts, stay while
\* it works and are released at once.
THEOREM RefinesCustody == Spec => ImplementsCustody
<1>1. Init => Custody!Init
  BY DEF Init, Custody!Init, Worker
<1>2. Mappable /\ [Next]_vars => [Custody!Next]_(Custody!vars)
  <2> SUFFICES ASSUME Mappable, [Next]_vars
               PROVE  Custody!Next \/ UNCHANGED Custody!vars
    OBVIOUS
  <2>1. CASE WriteSecretFile
    BY <2>1, WritesAreAdditions DEF Custody!Next
  <2>2. CASE SetVariables
    BY <2>2, InjectionsAreAdditions DEF Custody!Next
  <2>3. CASE SpawnPacker \/ PackerExits
    BY <2>3, PackerIsTheWorker DEF Custody!Next
  <2>4. CASE Finally \/ Interrupt \/ Uncaught
    BY <2>4, FinallyReleases, EmergenciesRelease DEF Custody!Next
  <2>5. CASE Lost
    BY <2>5, LossEndsCustody DEF Custody!Next
  <2>6. CASE Dispatch
    BY <2>6, DispatchIsNoStep DEF Custody!Next
  <2>7. CASE Report
    BY <2>7, ReportIsNoStep
  <2>8. CASE UNCHANGED vars
    BY <2>8 DEF vars, secrets, effects, Custody!vars, Worker
  <2>9. CASE \/ Prepare \/ DownloadSecureFile \/ UseSecureFile \/ CheckStep
             \/ RequestToken \/ ProviderDone \/ AfterPacker \/ PlantSymlink
    BY <2>9, OtherStepsAreNone
  <2> QED
    BY <2>1, <2>2, <2>3, <2>4, <2>5, <2>6, <2>7, <2>8, <2>9 DEF Next, Run
<1> QED
  BY <1>1, <1>2, AlwaysMappable, PTL DEF Spec, ImplementsCustody, Custody!Spec

=============================================================================
