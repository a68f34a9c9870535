--------------------------- MODULE PackerTaskProofs ---------------------------
(***************************************************************************)
(* What holds of PackerTask for every set of commands and authentication   *)
(* schemes, whether or not deletions may fail: type correctness, that      *)
(* every end of a run short of SIGKILL is a clean one, and that every step *)
(* brings the run nearer to its end.                                       *)
(***************************************************************************)
EXTENDS PackerTask, TLAPS

-----------------------------------------------------------------------------
\* The scripts.

\* The scheme of a run is one of the scripts.
LEMMA SchemeHasScript ==
  ASSUME TypeOK
  PROVE  scheme \in DOMAIN Script
  BY InputsAssumption DEF TypeOK, Script

\* No script is longer than MaxStep, and its steps are those of a sequence.
LEMMA ScriptsAreShort ==
  ASSUME NEW s \in DOMAIN Script
  PROVE  Len(Script[s]) \in 0..MaxStep
  BY DEF Script, MaxStep, AzureMsi, AzureWif, AzureSp, AwsStatic, AwsWif,
         GcpKey, GcpWif, OciKey, OciWif, VSphere, VSphereNoTls

\* The Azure and OCI handlers check nothing once they issued a token.
LEMMA ChecksPrecedeTokens ==
  ASSUME NEW s \in {"azureWif", "ociWif"},
         NEW i \in 1..Len(Script[s]), NEW j \in 1..Len(Script[s]),
         Script[s][i] \in {"mint", "exchange"},
         Script[s][j] \in {"require", "probe", "private"}
  PROVE  j < i
<1>1. CASE s = "azureWif"
  <2>1. Script[s] = AzureWif
    BY <1>1 DEF Script
  <2>2. Len(AzureWif) = 8 /\ i \in 1..8 /\ j \in 1..8
    BY <2>1 DEF AzureWif
  <2>3. AzureWif[i] \in {"mint", "exchange"} => i = 6
    BY <2>2 DEF AzureWif
  <2>4. AzureWif[j] \in {"require", "probe", "private"} => j \in {1, 4, 5}
    BY <2>2 DEF AzureWif
  <2> QED
    BY <2>1, <2>3, <2>4
<1>2. CASE s = "ociWif"
  <2>1. Script[s] = OciWif
    BY <1>2 DEF Script
  <2>2. Len(OciWif) = 8 /\ i \in 1..8 /\ j \in 1..8
    BY <2>1 DEF OciWif
  <2>3. OciWif[i] \in {"mint", "exchange"} => i \in {2, 3}
    BY <2>2 DEF OciWif
  <2>4. OciWif[j] \in {"require", "probe", "private"} => j = 1
    BY <2>2 DEF OciWif
  <2> QED
    BY <2>1, <2>3, <2>4
<1> QED
  BY <1>1, <1>2

-----------------------------------------------------------------------------
\* Types.

\* TypeOK in five parts, which most steps leave alone but for one or two.
InputsOK ==
  /\ command \in Commands /\ scheme \in Schemes \cup {"none"}
  /\ secureInput \in BOOLEAN /\ outputInput \in BOOLEAN

ControlOK ==
  /\ pc \in Labels
  /\ active \in BOOLEAN
  /\ outcome \in {"returns", "throws"}
  /\ result \in {"none", "Succeeded", "Failed"}
  /\ process \in {"running", "exited", "signalled", "lost"}
  /\ minted \in BOOLEAN /\ rejected \in BOOLEAN

StepOK == step \in 1..MaxStep + 1

SecretsOK ==
  /\ files \subseteq Files /\ tracked \subseteq files /\ stuck \subseteq files
  /\ env \subseteq {"passthrough", "githubToken", "configuration", "credential"}

EffectsOK ==
  /\ child \in {"none", "running", "exited"}
  /\ code \in {"none", "zero", "nonzero"}
  /\ escaped \in BOOLEAN
  /\ outputs \subseteq {"build", "fixed"}

\* The whole has its parts.
LEMMA TypeParts ==
  ASSUME TypeOK
  PROVE  InputsOK /\ ControlOK /\ StepOK /\ SecretsOK /\ EffectsOK
  BY DEF TypeOK, InputsOK, ControlOK, StepOK, SecretsOK, EffectsOK

\* The parts make up the whole.
LEMMA PartsMakeType ==
  ASSUME InputsOK, ControlOK, StepOK, SecretsOK, EffectsOK
  PROVE  TypeOK
  BY DEF TypeOK, InputsOK, ControlOK, StepOK, SecretsOK, EffectsOK

\* And so they do after a step.
LEMMA PartsMakeTypeNext ==
  ASSUME InputsOK', ControlOK', StepOK', SecretsOK', EffectsOK'
  PROVE  TypeOK'
  BY DEF TypeOK, InputsOK, ControlOK, StepOK, SecretsOK, EffectsOK

\* The inputs of a run never change.
LEMMA InputsStay == ASSUME [Next]_vars PROVE UNCHANGED inputs
  BY DEF Next, Run, vars, Dispatch, Prepare, DownloadSecureFile, UseSecureFile,
         CheckStep, RequestToken, WriteSecretFile, SetVariables, ProviderDone,
         SpawnPacker, PackerExits, AfterPacker, Finally, Report, Interrupt,
         Uncaught, Lost, PlantSymlink

\* Inputs that are left alone keep their types.
LEMMA UnchangedInputs == ASSUME InputsOK, UNCHANGED inputs PROVE InputsOK'
  BY DEF InputsOK, inputs

\* So does the step,
LEMMA UnchangedStep == ASSUME StepOK, UNCHANGED step PROVE StepOK'
  BY DEF StepOK

\* what is known of secrets,
LEMMA UnchangedSecrets == ASSUME SecretsOK, UNCHANGED secrets PROVE SecretsOK'
  BY DEF SecretsOK, secrets

\* and packer's state with its outputs.
LEMMA UnchangedEffects == ASSUME EffectsOK, UNCHANGED effects PROVE EffectsOK'
  BY DEF EffectsOK, effects

\* A run starts with its variables of their types.
LEMMA InitTypeOK == ASSUME Init PROVE TypeOK
<1>1. InputsOK
  BY DEF Init, InputsOK
<1>2. ControlOK
  BY DEF Init, ControlOK, Labels
<1>3. StepOK
  BY DEF Init, StepOK, MaxStep
<1>4. SecretsOK
  BY DEF Init, SecretsOK
<1>5. EffectsOK
  BY DEF Init, EffectsOK
<1> QED
  BY <1>1, <1>2, <1>3, <1>4, <1>5, PartsMakeType

\* Removing the tracked files keeps what is known about files.
LEMMA CleanupTypeOK ==
  ASSUME TypeOK, CleanupTempFiles
  PROVE  /\ files' \subseteq Files
         /\ tracked' = {}
         /\ stuck \subseteq stuck' /\ stuck' \subseteq files'
         /\ files' \subseteq files
         /\ files' \cap tracked \subseteq stuck'
<1>1. stuck' \subseteq stuck \cup (tracked \cap files) /\ stuck \subseteq stuck'
  BY DEF CleanupTempFiles
<1>2. files' = files \ (tracked \ stuck') /\ tracked' = {}
  BY DEF CleanupTempFiles
<1> QED
  BY <1>1, <1>2 DEF TypeOK

\* An emergency does what the end of the run does, or nothing.
LEMMA EmergencyTypeOK ==
  ASSUME TypeOK, EmergencyCleanup
  PROVE  SecretsOK' /\ pc' = "ended" /\ outcome' = outcome
  BY CleanupTypeOK DEF EmergencyCleanup, TypeOK, SecretsOK, Continue

\* The handler's current step is a step number, and so is the next.
LEMMA CurrentStep ==
  ASSUME TypeOK, NEW kind, AtStep(kind)
  PROVE  /\ step \in 1..Len(Script[scheme]) /\ step \in 1..MaxStep
         /\ step \in Files /\ step + 1 \in 1..MaxStep + 1
         /\ Len(Script[scheme]) \in Nat
  BY SchemeHasScript, ScriptsAreShort DEF TypeOK, AtStep, MaxStep, Files

\* The secure var file has a name.
LEMMA SecureFileIsFile == SecureFile \in Files
  BY DEF SecureFile, Files, MaxStep

\* The secure var file is on disk when the run comes to use it.
FileArrived == pc = "arrived" => SecureFile \in files

\* Every step of a run keeps the types, action by action.
LEMMA RunTypeOK ==
  ASSUME TypeOK, FileArrived, Run
  PROVE  TypeOK'
<1>0. InputsOK /\ ControlOK /\ StepOK /\ SecretsOK /\ EffectsOK
  BY TypeParts
<1>i. InputsOK'
  BY <1>0, InputsStay, UnchangedInputs DEF Next
<1> SUFFICES ControlOK' /\ StepOK' /\ SecretsOK' /\ EffectsOK'
  BY <1>i, PartsMakeTypeNext
<1> USE <1>0 DEF Continue, Throw, Reject, NextStep
<1>1. CASE Dispatch
  <2>1. ControlOK'
    BY <1>1 DEF Dispatch, ControlOK, Labels
  <2>2. StepOK'
    BY <1>1, UnchangedStep DEF Dispatch
  <2>3. SecretsOK'
    BY <1>1 DEF Dispatch, SecretsOK
  <2>4. EffectsOK'
    BY <1>1, UnchangedEffects DEF Dispatch
  <2> QED
    BY <2>1, <2>2, <2>3, <2>4
<1>2. CASE Prepare
  <2>1. ControlOK'
    BY <1>2 DEF Prepare, ControlOK, Labels
  <2>2. StepOK'
    BY <1>2, UnchangedStep DEF Prepare
  <2>3. SecretsOK'
    BY <1>2 DEF Prepare, SecretsOK
  <2>4. EffectsOK'
    BY <1>2, UnchangedEffects DEF Prepare
  <2> QED
    BY <2>1, <2>2, <2>3, <2>4
<1>3. CASE DownloadSecureFile
  <2>1. ControlOK'
    BY <1>3 DEF DownloadSecureFile, ControlOK, Labels
  <2>2. StepOK'
    BY <1>3, UnchangedStep DEF DownloadSecureFile
  <2>3. SecretsOK'
    BY <1>3, SecureFileIsFile DEF DownloadSecureFile, SecretsOK
  <2>4. EffectsOK'
    BY <1>3, UnchangedEffects DEF DownloadSecureFile
  <2> QED
    BY <2>1, <2>2, <2>3, <2>4
<1>4. CASE UseSecureFile
  <2>1. ControlOK'
    BY <1>4 DEF UseSecureFile, ControlOK, Labels
  <2>2. StepOK'
    BY <1>4, UnchangedStep DEF UseSecureFile
  <2>3. SecretsOK'
    BY <1>4, SecureFileIsFile DEF UseSecureFile, SecretsOK, FileArrived
  <2>4. EffectsOK'
    BY <1>4, UnchangedEffects DEF UseSecureFile
  <2> QED
    BY <2>1, <2>2, <2>3, <2>4
<1>5. CASE CheckStep
  <2>s. step \in Files /\ step + 1 \in 1..MaxStep + 1
    BY <1>5, CurrentStep DEF CheckStep
  <2>1. ControlOK'
    BY <1>5 DEF CheckStep, ControlOK, Labels, AtStep
  <2>2. StepOK'
    BY <1>5, <2>s DEF CheckStep, StepOK
  <2>3. SecretsOK'
    BY <1>5, UnchangedSecrets DEF CheckStep
  <2>4. EffectsOK'
    BY <1>5, UnchangedEffects DEF CheckStep
  <2> QED
    BY <2>1, <2>2, <2>3, <2>4
<1>6. CASE RequestToken
  <2>s. step \in Files /\ step + 1 \in 1..MaxStep + 1
    BY <1>6, CurrentStep DEF RequestToken
  <2>1. ControlOK'
    BY <1>6 DEF RequestToken, ControlOK, Labels, AtStep
  <2>2. StepOK'
    BY <1>6, <2>s DEF RequestToken, StepOK
  <2>3. SecretsOK'
    BY <1>6, UnchangedSecrets DEF RequestToken
  <2>4. EffectsOK'
    BY <1>6, UnchangedEffects DEF RequestToken
  <2> QED
    BY <2>1, <2>2, <2>3, <2>4
<1>7. CASE WriteSecretFile
  <2>s. step \in Files /\ step + 1 \in 1..MaxStep + 1
    BY <1>7, CurrentStep DEF WriteSecretFile
  <2>1. ControlOK'
    BY <1>7 DEF WriteSecretFile, ControlOK, Labels, AtStep
  <2>2. StepOK'
    BY <1>7, <2>s DEF WriteSecretFile, StepOK
  <2>3. SecretsOK'
    BY <1>7, <2>s DEF WriteSecretFile, SecretsOK
  <2>4. EffectsOK'
    BY <1>7, UnchangedEffects DEF WriteSecretFile
  <2> QED
    BY <2>1, <2>2, <2>3, <2>4
<1>8. CASE SetVariables
  <2>s. step \in Files /\ step + 1 \in 1..MaxStep + 1
    BY <1>8, CurrentStep DEF SetVariables
  <2>1. ControlOK'
    BY <1>8 DEF SetVariables, ControlOK, Labels, AtStep
  <2>2. StepOK'
    BY <1>8, <2>s DEF SetVariables, StepOK
  <2>3. SecretsOK'
    BY <1>8 DEF SetVariables, SecretsOK
  <2>4. EffectsOK'
    BY <1>8, UnchangedEffects DEF SetVariables
  <2> QED
    BY <2>1, <2>2, <2>3, <2>4
<1>9. CASE ProviderDone
  <2>1. ControlOK'
    BY <1>9 DEF ProviderDone, ControlOK, Labels
  <2>2. StepOK'
    BY <1>9, UnchangedStep DEF ProviderDone
  <2>3. SecretsOK'
    BY <1>9, UnchangedSecrets DEF ProviderDone
  <2>4. EffectsOK'
    BY <1>9, UnchangedEffects DEF ProviderDone
  <2> QED
    BY <2>1, <2>2, <2>3, <2>4
<1>10. CASE SpawnPacker
  <2>1. ControlOK'
    BY <1>10 DEF SpawnPacker, ControlOK, Labels
  <2>2. StepOK'
    BY <1>10, UnchangedStep DEF SpawnPacker
  <2>3. SecretsOK'
    BY <1>10, UnchangedSecrets DEF SpawnPacker
  <2>4. EffectsOK'
    BY <1>10 DEF SpawnPacker, EffectsOK
  <2> QED
    BY <2>1, <2>2, <2>3, <2>4
<1>11. CASE PackerExits
  <2>1. ControlOK'
    BY <1>11 DEF PackerExits, ControlOK, Labels
  <2>2. StepOK'
    BY <1>11, UnchangedStep DEF PackerExits
  <2>3. SecretsOK'
    BY <1>11, UnchangedSecrets DEF PackerExits
  <2>4. EffectsOK'
    BY <1>11 DEF PackerExits, EffectsOK
  <2> QED
    BY <2>1, <2>2, <2>3, <2>4
<1>12. CASE AfterPacker
  <2>1. ControlOK'
    BY <1>12 DEF AfterPacker, ControlOK, Labels
  <2>2. StepOK'
    BY <1>12, UnchangedStep DEF AfterPacker
  <2>3. SecretsOK'
    BY <1>12, UnchangedSecrets DEF AfterPacker
  <2>4. EffectsOK'
    BY <1>12 DEF AfterPacker, EffectsOK
  <2> QED
    BY <2>1, <2>2, <2>3, <2>4
<1>13. CASE Finally
  <2>1. ControlOK'
    BY <1>13 DEF Finally, ControlOK, Labels
  <2>2. StepOK'
    BY <1>13, UnchangedStep DEF Finally
  <2>3. SecretsOK'
    BY <1>13, CleanupTypeOK DEF Finally, SecretsOK
  <2>4. EffectsOK'
    BY <1>13, UnchangedEffects DEF Finally
  <2> QED
    BY <2>1, <2>2, <2>3, <2>4
<1>14. CASE Report
  <2>1. ControlOK'
    BY <1>14 DEF Report, ControlOK, Labels
  <2>2. StepOK'
    BY <1>14, UnchangedStep DEF Report
  <2>3. SecretsOK'
    BY <1>14, UnchangedSecrets DEF Report
  <2>4. EffectsOK'
    BY <1>14, UnchangedEffects DEF Report
  <2> QED
    BY <2>1, <2>2, <2>3, <2>4
<1> QED
  BY <1>1, <1>2, <1>3, <1>4, <1>5, <1>6, <1>7,
     <1>8, <1>9, <1>10, <1>11, <1>12, <1>13, <1>14 DEF Run

\* So do the ends of a run that it did not choose, and the world outside it.
LEMMA OtherTypeOK ==
  ASSUME TypeOK, Interrupt \/ Uncaught \/ Lost \/ PlantSymlink \/ UNCHANGED vars
  PROVE  TypeOK'
<1>0. InputsOK /\ ControlOK /\ StepOK /\ SecretsOK /\ EffectsOK
  BY TypeParts
<1>i. InputsOK' /\ StepOK'
  <2>1. UNCHANGED <<inputs, step>>
    BY DEF Interrupt, Uncaught, Lost, PlantSymlink, vars
  <2> QED
    BY <1>0, <2>1, UnchangedInputs, UnchangedStep
<1> SUFFICES ControlOK' /\ SecretsOK' /\ EffectsOK'
  BY <1>i, PartsMakeTypeNext
<1> USE <1>0
<1>1. CASE Interrupt \/ Uncaught
  <2>1. EmergencyCleanup /\ UNCHANGED <<active, effects, minted, rejected>>
    BY <1>1 DEF Interrupt, Uncaught
  <2>2. SecretsOK' /\ pc' = "ended" /\ outcome' = outcome
    BY <2>1, EmergencyTypeOK
  <2>3. process' \in {"signalled", "exited"} /\ result' \in {result, "Failed"}
    BY <1>1 DEF Interrupt, Uncaught
  <2>4. ControlOK'
    BY <2>1, <2>2, <2>3 DEF ControlOK, Labels
  <2> QED
    BY <2>1, <2>2, <2>4, UnchangedEffects
<1>2. CASE Lost
  BY <1>2, UnchangedSecrets, UnchangedEffects
  DEF Lost, ControlOK, Labels, Continue
<1>3. CASE PlantSymlink
  <2>1. ControlOK' /\ EffectsOK'
    BY <1>3 DEF PlantSymlink, ControlOK, EffectsOK
  <2> QED
    BY <1>3, <2>1, UnchangedSecrets DEF PlantSymlink
<1>4. CASE UNCHANGED vars
  BY <1>4 DEF vars, ControlOK, SecretsOK, EffectsOK, secrets, effects
<1> QED
  BY <1>1, <1>2, <1>3, <1>4

\* The secure var file stays until cleanup.
LEMMA FileArrives ==
  ASSUME FileArrived, [Next]_vars
  PROVE  FileArrived'
<1> SUFFICES ASSUME pc' = "arrived" PROVE SecureFile \in files'
  BY DEF FileArrived
<1>1. DownloadSecureFile \/ PlantSymlink \/ UNCHANGED vars
  BY DEF Next, Run, Dispatch, Prepare, DownloadSecureFile, UseSecureFile,
         CheckStep, RequestToken, WriteSecretFile, SetVariables, ProviderDone,
         SpawnPacker, PackerExits, AfterPacker, Finally, Report, Interrupt,
         Uncaught, Lost, PlantSymlink, EmergencyCleanup, Continue, Throw,
         Reject, NextStep, AtStep
<1> QED
  BY <1>1 DEF DownloadSecureFile, Continue, Throw, PlantSymlink, secrets, vars,
              FileArrived

\* Every variable keeps its type; in particular only files that are on disk
\* are tracked.
THEOREM TypeCorrect == Spec => []TypeOK
<1>1. Init => TypeOK /\ FileArrived
  BY InitTypeOK DEF Init, FileArrived
<1>2. TypeOK /\ FileArrived /\ [Next]_vars => (TypeOK /\ FileArrived)'
  BY RunTypeOK, OtherTypeOK, FileArrives DEF Next
<1> QED
  BY <1>1, <1>2, PTL DEF Spec

\* A run that does not authenticate has no handler to run.
LEMMA NothingToDo == Len(Script["none"]) = 0
  BY DEF Script

-----------------------------------------------------------------------------
\* The position of the run, its files, its provider handler and packer.

\* The position of the run stays consistent with its other state.
LEMMA RunStaysFit ==
  ASSUME TypeOK, RunFits, [Next]_vars
  PROVE  RunFits'
<1> USE DEF RunFits, Early, Closing, inputs, secrets, effects, Continue,
           Throw, Reject, NextStep
<1>1. CASE Dispatch
  BY <1>1 DEF Dispatch
<1>2. CASE Prepare
  BY <1>2, NothingToDo DEF Prepare
<1>3. CASE DownloadSecureFile
  BY <1>3 DEF DownloadSecureFile
<1>4. CASE UseSecureFile
  BY <1>4 DEF UseSecureFile
<1>5. CASE CheckStep
  BY <1>5 DEF CheckStep, AtStep
<1>6. CASE RequestToken
  BY <1>6 DEF RequestToken, AtStep
<1>7. CASE WriteSecretFile
  BY <1>7 DEF WriteSecretFile, AtStep
<1>8. CASE SetVariables
  BY <1>8 DEF SetVariables, AtStep
<1>9. CASE ProviderDone
  BY <1>9 DEF ProviderDone
<1>10. CASE SpawnPacker
  BY <1>10 DEF SpawnPacker
<1>11. CASE PackerExits
  BY <1>11 DEF PackerExits
<1>12. CASE AfterPacker
  BY <1>12 DEF AfterPacker
<1>13. CASE Finally
  BY <1>13 DEF Finally, CleanupTempFiles
<1>14. CASE Report
  BY <1>14 DEF Report
<1>15. CASE Interrupt
  BY <1>15 DEF Interrupt, EmergencyCleanup, CleanupTempFiles, Awaiting, AtStep
<1>16. CASE Uncaught
  BY <1>16 DEF Uncaught, EmergencyCleanup, CleanupTempFiles, Awaiting, AtStep
<1>17. CASE Lost
  BY <1>17 DEF Lost
<1>18. CASE PlantSymlink
  BY <1>18 DEF PlantSymlink
<1>19. CASE UNCHANGED vars
  BY <1>19 DEF vars
<1> QED
  BY <1>1, <1>2, <1>3, <1>4, <1>5, <1>6, <1>7, <1>8, <1>9, <1>10,
     <1>11, <1>12, <1>13, <1>14, <1>15, <1>16, <1>17, <1>18, <1>19 DEF Next, Run

\* Secret files stay tracked until cleanup, which leaves none tracked.
LEMMA FilesStayFit ==
  ASSUME TypeOK, RunFits, FilesFit, [Next]_vars
  PROVE  FilesFit'
<1> USE DEF FilesFit, inputs, secrets, effects, Continue, Throw, Reject,
           NextStep
<1>1. CASE Dispatch
  BY <1>1 DEF Dispatch, TypeOK
<1>2. CASE Prepare
  BY <1>2 DEF Prepare
<1>3. CASE DownloadSecureFile
  BY <1>3 DEF DownloadSecureFile
<1>4. CASE UseSecureFile
  BY <1>4 DEF UseSecureFile
<1>5. CASE CheckStep
  BY <1>5 DEF CheckStep, AtStep
<1>6. CASE RequestToken
  BY <1>6 DEF RequestToken, AtStep
<1>7. CASE WriteSecretFile
  BY <1>7 DEF WriteSecretFile, AtStep
<1>8. CASE SetVariables
  BY <1>8 DEF SetVariables, AtStep
<1>9. CASE ProviderDone
  BY <1>9 DEF ProviderDone
<1>10. CASE SpawnPacker
  BY <1>10 DEF SpawnPacker
<1>11. CASE PackerExits
  BY <1>11 DEF PackerExits
<1>12. CASE AfterPacker
  BY <1>12 DEF AfterPacker
<1>13. CASE Finally
  BY <1>13, CleanupTypeOK DEF Finally, CleanupTempFiles
<1>14. CASE Report
  BY <1>14 DEF Report
<1>15. CASE Interrupt
  BY <1>15 DEF Interrupt, EmergencyCleanup, CleanupTempFiles, Awaiting, AtStep
<1>16. CASE Uncaught
  BY <1>16 DEF Uncaught, EmergencyCleanup, CleanupTempFiles, Awaiting, AtStep
<1>17. CASE Lost
  BY <1>17 DEF Lost
<1>18. CASE PlantSymlink
  BY <1>18 DEF PlantSymlink
<1>19. CASE UNCHANGED vars
  BY <1>19 DEF vars
<1> QED
  BY <1>1, <1>2, <1>3, <1>4, <1>5, <1>6, <1>7, <1>8, <1>9, <1>10,
     <1>11, <1>12, <1>13, <1>14, <1>15, <1>16, <1>17, <1>18, <1>19 DEF Next, Run

\* Packer's state stays consistent with the position of the run.
LEMMA PackerStaysFit ==
  ASSUME TypeOK, RunFits, PackerFits, [Next]_vars
  PROVE  PackerFits'
<1> USE DEF PackerFits, Closing, inputs, secrets, effects, IgnoresReturnCode,
           WorksOnOutput, Continue, Throw, Reject, NextStep
<1>1. CASE Dispatch
  BY <1>1 DEF Dispatch
<1>2. CASE Prepare
  BY <1>2 DEF Prepare
<1>3. CASE DownloadSecureFile
  BY <1>3 DEF DownloadSecureFile
<1>4. CASE UseSecureFile
  BY <1>4 DEF UseSecureFile
<1>5. CASE CheckStep
  BY <1>5 DEF CheckStep, AtStep
<1>6. CASE RequestToken
  BY <1>6 DEF RequestToken, AtStep
<1>7. CASE WriteSecretFile
  BY <1>7 DEF WriteSecretFile, AtStep
<1>8. CASE SetVariables
  BY <1>8 DEF SetVariables, AtStep
<1>9. CASE ProviderDone
  BY <1>9 DEF ProviderDone
<1>10. CASE SpawnPacker
  BY <1>10 DEF SpawnPacker
<1>11. CASE PackerExits
  BY <1>11 DEF PackerExits
<1>12. CASE AfterPacker
  BY <1>12 DEF AfterPacker
<1>13. CASE Finally
  BY <1>13 DEF Finally, CleanupTempFiles
<1>14. CASE Report
  BY <1>14 DEF Report
<1>15. CASE Interrupt
  BY <1>15 DEF Interrupt, EmergencyCleanup, CleanupTempFiles, Awaiting, AtStep
<1>16. CASE Uncaught
  BY <1>16 DEF Uncaught, EmergencyCleanup, CleanupTempFiles, Awaiting, AtStep
<1>17. CASE Lost
  BY <1>17 DEF Lost
<1>18. CASE PlantSymlink
  BY <1>18 DEF PlantSymlink
<1>19. CASE UNCHANGED vars
  BY <1>19 DEF vars
<1> QED
  BY <1>1, <1>2, <1>3, <1>4, <1>5, <1>6, <1>7, <1>8, <1>9, <1>10,
     <1>11, <1>12, <1>13, <1>14, <1>15, <1>16, <1>17, <1>18, <1>19 DEF Next, Run

\* The handler's script has a length.
LEMMA ScriptHasLength == ASSUME TypeOK PROVE Len(Script[scheme]) \in Nat
  BY SchemeHasScript, ScriptsAreShort DEF MaxStep

\* Before its first step the handler has done nothing.
LEMMA NothingDone == ASSUME TypeOK, step = 1, NEW kind PROVE ~Did(kind)
  BY ScriptHasLength DEF Did

\* What the handler did before a step it has done after it, and that step too.
LEMMA DidGrows ==
  ASSUME TypeOK, UNCHANGED scheme, NEW kind,
         AtStep(kind), step' = step + 1, NEW other
  PROVE  Did(other)' <=> Did(other) \/ other = kind
<1>1. step \in 1..Len(Script[scheme]) /\ Len(Script[scheme]) \in Nat
  BY CurrentStep
<1>2. Script[scheme][step] = kind
  BY DEF AtStep
<1> QED
  BY <1>1, <1>2 DEF Did

\* As long as the handler does nothing, it did what it had done.
LEMMA DidStays ==
  ASSUME UNCHANGED <<scheme, step>>, NEW kind
  PROVE  Did(kind)' <=> Did(kind)
  BY DEF Did

\* What the handler has written is on disk.
FilesWritten ==
  \A i \in 1..Len(Script[scheme]) :
    i < step /\ Script[scheme][i] = "write" => i \in files

\* A step that writes its file if it should keeps it that way.
LEMMA FilesStayWritten ==
  ASSUME TypeOK, FilesWritten, UNCHANGED scheme, NEW kind,
         AtStep(kind), step' = step + 1,
         files \subseteq files', kind = "write" => step \in files'
  PROVE  FilesWritten'
<1>1. step \in 1..Len(Script[scheme]) /\ Len(Script[scheme]) \in Nat
  BY CurrentStep
<1>2. Script[scheme][step] = kind
  BY DEF AtStep
<1> SUFFICES ASSUME NEW i \in 1..Len(Script[scheme]),
                    i < step + 1, Script[scheme][i] = "write"
             PROVE  i \in files'
  BY DEF FilesWritten
<1>3. CASE i = step
  BY <1>2, <1>3
<1>4. CASE i < step
  BY <1>4 DEF FilesWritten
<1> QED
  BY <1>1, <1>3, <1>4

\* What the handler has done stays what its script says.
LEMMA ProviderStaysFit ==
  ASSUME TypeOK, RunFits, ProviderFits, [Next]_vars
  PROVE  ProviderFits'
<1> USE DEF inputs, secrets, effects, Continue, Throw, Reject, NextStep
<1>s. UNCHANGED scheme
  BY InputsStay
\* There is nothing to show once the handler and packer are done.
<1>a. ASSUME pc' \notin {"provider", "spawn", "executing"} PROVE ProviderFits'
  BY <1>a DEF ProviderFits
\* The handler starts at its first step.
<1>b. ASSUME pc \in Early, UNCHANGED <<step, minted>>,
             "credential" \in env' => "credential" \in env
      PROVE  ProviderFits'
  <2>1. step' = 1 /\ step = 1 /\ ~minted' /\ "credential" \notin env'
    BY <1>b DEF RunFits
  <2>2. ASSUME NEW kind PROVE ~Did(kind)'
    BY <1>s, <2>1, NothingDone, DidStays
  <2>3. \A i \in 1..Len(Script[scheme]) : ~(i < 1)
    BY ScriptHasLength
  <2> QED
    BY <1>s, <2>1, <2>2, <2>3 DEF ProviderFits
\* It ends, or packer is started.
<1>c. ASSUME pc \in {"provider", "spawn", "executing"},
             pc' \in {pc, "spawn", "executing"},
             UNCHANGED <<step, files, env, minted>>
      PROVE  ProviderFits'
  <2>1. ASSUME NEW kind PROVE Did(kind)' <=> Did(kind)
    BY <1>s, <1>c, DidStays
  <2> QED
    BY <1>s, <1>c, <2>1 DEF ProviderFits
\* It takes a step.
<1>d. ASSUME NEW kind, AtStep(kind), NextStep, files \subseteq files',
             kind = "write" => step \in files',
             "credential" \in env' <=> "credential" \in env \/ kind = "inject",
             minted' <=> minted \/ kind \in {"mint", "exchange"}
      PROVE  ProviderFits'
  <2>1. pc = "provider" /\ pc' = "provider"
    BY <1>d DEF AtStep
  <2>2. ASSUME NEW other PROVE Did(other)' <=> Did(other) \/ other = kind
    BY <1>s, <1>d, DidGrows
  <2>3. FilesWritten'
    BY <1>s, <1>d, <2>1, FilesStayWritten DEF ProviderFits, FilesWritten
  <2> QED
    BY <1>d, <2>1, <2>2, <2>3 DEF ProviderFits, FilesWritten
<1>1. CASE Dispatch
  BY <1>1, <1>a DEF Dispatch
<1>2. CASE Prepare
  BY <1>2, <1>b DEF Prepare, Early
<1>3. CASE DownloadSecureFile
  BY <1>3, <1>a DEF DownloadSecureFile
<1>4. CASE UseSecureFile
  BY <1>4, <1>b DEF UseSecureFile, Early
<1>5. CASE CheckStep
  BY <1>5, <1>a, <1>d DEF CheckStep
<1>6. CASE RequestToken
  BY <1>6, <1>a, <1>d DEF RequestToken
<1>7. CASE WriteSecretFile
  BY <1>7, <1>a, <1>d DEF WriteSecretFile
<1>8. CASE SetVariables
  BY <1>8, <1>d DEF SetVariables
<1>9. CASE ProviderDone
  BY <1>9, <1>c DEF ProviderDone
<1>10. CASE SpawnPacker
  BY <1>10, <1>a, <1>c DEF SpawnPacker
<1>11. CASE PackerExits
  BY <1>11, <1>a DEF PackerExits
<1>12. CASE AfterPacker
  BY <1>12, <1>a DEF AfterPacker
<1>13. CASE Finally
  BY <1>13, <1>a DEF Finally
<1>14. CASE Report
  BY <1>14, <1>a DEF Report
<1>15. CASE Interrupt
  BY <1>15, <1>a DEF Interrupt, EmergencyCleanup
<1>16. CASE Uncaught
  BY <1>16, <1>a DEF Uncaught, EmergencyCleanup
<1>17. CASE Lost
  BY <1>17, <1>a DEF Lost
<1>18. CASE PlantSymlink
  BY <1>18, <1>c DEF PlantSymlink
<1>19. CASE UNCHANGED vars
  BY <1>19, <1>a, <1>c DEF vars
<1> QED
  BY <1>1, <1>2, <1>3, <1>4, <1>5, <1>6, <1>7, <1>8, <1>9, <1>10,
     <1>11, <1>12, <1>13, <1>14, <1>15, <1>16, <1>17, <1>18, <1>19 DEF Next, Run

\* An Azure or OCI run that issued a token is not rejected any more.
LEMMA TokensStayLate ==
  ASSUME TypeOK, RunFits, ProviderFits, TokenAfterValidation, [Next]_vars
  PROVE  TokenAfterValidation'
<1> USE DEF TokenAfterValidation, RunFits, Early, Closing, inputs, secrets,
           effects, Continue, Throw, Reject, NextStep
<1>1. CASE Dispatch
  BY <1>1 DEF Dispatch
<1>2. CASE Prepare
  BY <1>2 DEF Prepare
<1>3. CASE DownloadSecureFile
  BY <1>3 DEF DownloadSecureFile
<1>4. CASE UseSecureFile
  BY <1>4 DEF UseSecureFile
<1>5. CASE CheckStep
  <2>1. pc = "provider" /\ ~rejected
    BY <1>5 DEF CheckStep, AtStep
  <2>2. UNCHANGED <<scheme, minted>>
    BY <1>5 DEF CheckStep
  <2>3. SUFFICES ASSUME scheme \in {"azureWif", "ociWif"}, minted PROVE FALSE
    BY <2>1, <2>2
  <2>4. step \in 1..Len(Script[scheme]) /\ Len(Script[scheme]) \in Nat
    BY <1>5, CurrentStep DEF CheckStep
  <2>5. PICK i \in 1..Len(Script[scheme]) :
          i < step /\ Script[scheme][i] \in {"mint", "exchange"}
    BY <2>1, <2>3 DEF ProviderFits, Did
  <2>6. Script[scheme][step] \in {"require", "probe", "private"}
    BY <1>5 DEF CheckStep, AtStep
  <2>7. step < i
    BY <2>3, <2>4, <2>5, <2>6, ChecksPrecedeTokens
  <2> QED
    BY <2>4, <2>5, <2>7
<1>6. CASE RequestToken
  BY <1>6 DEF RequestToken, AtStep
<1>7. CASE WriteSecretFile
  BY <1>7 DEF WriteSecretFile, AtStep
<1>8. CASE SetVariables
  BY <1>8 DEF SetVariables, AtStep
<1>9. CASE ProviderDone
  BY <1>9 DEF ProviderDone
<1>10. CASE SpawnPacker
  BY <1>10 DEF SpawnPacker
<1>11. CASE PackerExits
  BY <1>11 DEF PackerExits
<1>12. CASE AfterPacker
  BY <1>12 DEF AfterPacker
<1>13. CASE Finally
  BY <1>13 DEF Finally, CleanupTempFiles
<1>14. CASE Report
  BY <1>14 DEF Report
<1>15. CASE Interrupt
  BY <1>15 DEF Interrupt, EmergencyCleanup, CleanupTempFiles, Awaiting, AtStep
<1>16. CASE Uncaught
  BY <1>16 DEF Uncaught, EmergencyCleanup, CleanupTempFiles, Awaiting, AtStep
<1>17. CASE Lost
  BY <1>17 DEF Lost
<1>18. CASE PlantSymlink
  BY <1>18 DEF PlantSymlink
<1>19. CASE UNCHANGED vars
  BY <1>19 DEF vars
<1> QED
  BY <1>1, <1>2, <1>3, <1>4, <1>5, <1>6, <1>7, <1>8, <1>9, <1>10,
     <1>11, <1>12, <1>13, <1>14, <1>15, <1>16, <1>17, <1>18, <1>19 DEF Next, Run

\* Every end of a run is a clean one.
LEMMA EndsStayClean ==
  ASSUME TypeOK, RunFits, FilesFit, PackerFits,
         NoCredentialFileLeft, SuccessIsPackersSuccess, FailedBuildPublishes,
         NoWriteOutside, [Next]_vars
  PROVE  (/\ NoCredentialFileLeft /\ SuccessIsPackersSuccess
          /\ FailedBuildPublishes /\ NoWriteOutside)'
<1> USE DEF NoCredentialFileLeft, SuccessIsPackersSuccess, FailedBuildPublishes,
           NoWriteOutside, RunFits, FilesFit, PackerFits, Closing, inputs,
           secrets, effects, Continue, Throw, Reject, NextStep
<1>1. CASE Dispatch
  BY <1>1 DEF Dispatch
<1>2. CASE Prepare
  BY <1>2 DEF Prepare
<1>3. CASE DownloadSecureFile
  BY <1>3 DEF DownloadSecureFile
<1>4. CASE UseSecureFile
  BY <1>4 DEF UseSecureFile
<1>5. CASE CheckStep
  BY <1>5 DEF CheckStep, AtStep
<1>6. CASE RequestToken
  BY <1>6 DEF RequestToken, AtStep
<1>7. CASE WriteSecretFile
  BY <1>7 DEF WriteSecretFile, AtStep
<1>8. CASE SetVariables
  BY <1>8 DEF SetVariables, AtStep
<1>9. CASE ProviderDone
  BY <1>9 DEF ProviderDone
<1>10. CASE SpawnPacker
  BY <1>10 DEF SpawnPacker
<1>11. CASE PackerExits
  BY <1>11 DEF PackerExits
<1>12. CASE AfterPacker
  BY <1>12 DEF AfterPacker
<1>13. CASE Finally
  BY <1>13 DEF Finally, CleanupTempFiles
<1>14. CASE Report
  BY <1>14 DEF Report
<1>15. CASE Interrupt
  BY <1>15 DEF Interrupt, EmergencyCleanup, CleanupTempFiles, Awaiting, AtStep
<1>16. CASE Uncaught
  BY <1>16 DEF Uncaught, EmergencyCleanup, CleanupTempFiles, Awaiting, AtStep
<1>17. CASE Lost
  BY <1>17 DEF Lost
<1>18. CASE PlantSymlink
  BY <1>18 DEF PlantSymlink
<1>19. CASE UNCHANGED vars
  BY <1>19 DEF vars
<1> QED
  BY <1>1, <1>2, <1>3, <1>4, <1>5, <1>6, <1>7, <1>8, <1>9, <1>10,
     <1>11, <1>12, <1>13, <1>14, <1>15, <1>16, <1>17, <1>18, <1>19 DEF Next, Run

-----------------------------------------------------------------------------
\* The invariant, and what it says of a run.

\* A run starts with nothing done.
LEMMA InitTaskInvariant == ASSUME Init PROVE TaskInvariant
<1>1. RunFits /\ FilesFit
  BY DEF Init, RunFits, FilesFit, Early, Closing, TakesVariables, Authenticates
<1>2. ProviderFits /\ PackerFits
  BY DEF Init, ProviderFits, PackerFits, Closing
<1>3. /\ NoCredentialFileLeft /\ SuccessIsPackersSuccess /\ FailedBuildPublishes
      /\ NoWriteOutside /\ TokenAfterValidation
  BY DEF Init, NoCredentialFileLeft, SuccessIsPackersSuccess,
         FailedBuildPublishes, NoWriteOutside, TokenAfterValidation
<1> QED
  BY <1>1, <1>2, <1>3 DEF TaskInvariant

\* What holds between any two steps of a run: its position, its secret files,
\* its provider handler and its packer process fit together.
THEOREM TaskHolds == Spec => []TaskInvariant
<1>1. Init => TaskInvariant
  BY InitTaskInvariant
<1>2. TypeOK /\ TaskInvariant /\ [Next]_vars => TaskInvariant'
  BY RunStaysFit, FilesStayFit, PackerStaysFit, ProviderStaysFit,
     TokensStayLate, EndsStayClean DEF TaskInvariant
<1> QED
  BY <1>1, <1>2, TypeCorrect, PTL DEF Spec

\* However the run ends short of SIGKILL, no credential file a handler wrote
\* stays on disk, except one whose deletion failed with a warning.
THEOREM CredentialFilesAreRemoved == Spec => []NoCredentialFileLeft
<1>1. TaskInvariant => NoCredentialFileLeft
  BY DEF TaskInvariant
<1> QED
  BY <1>1, TaskHolds, PTL

\* Cleanup never runs under packer: while the command's packer process runs
\* and the task awaits it, every file the handler wrote is on disk and the
\* credential variables are set.
THEOREM PackerHasItsCredentials == Spec => []PackerKeepsItsCredentials
<1>1. TypeOK /\ TaskInvariant => PackerKeepsItsCredentials
  <2> SUFFICES ASSUME TypeOK, TaskInvariant,
                      child = "running", process = "running"
               PROVE  PackerKeepsItsCredentials
    BY DEF PackerKeepsItsCredentials
  <2>1. pc = "executing"
    BY DEF TaskInvariant, RunFits, PackerFits
  <2>2. /\ \A i \in 1..Len(Script[scheme]) : i < step
        /\ secureInput => SecureFile \in files
    BY <2>1, ScriptHasLength DEF TaskInvariant, RunFits, FilesFit, TypeOK, MaxStep
  <2> QED
    BY <2>1, <2>2 DEF TaskInvariant, ProviderFits, Did, PackerKeepsItsCredentials
<1> QED
  BY <1>1, TypeCorrect, TaskHolds, PTL

\* The task succeeds only if packer ran and exited with zero.
THEOREM SuccessIsEarned == Spec => []SuccessIsPackersSuccess
<1>1. TaskInvariant => SuccessIsPackersSuccess
  BY DEF TaskInvariant
<1> QED
  BY <1>1, TaskHolds, PTL

\* A build that ran to its end publishes its outputs even when it failed.
THEOREM FailedBuildsPublish == Spec => []FailedBuildPublishes
<1>1. TaskInvariant => FailedBuildPublishes
  BY DEF TaskInvariant
<1> QED
  BY <1>1, TaskHolds, PTL

\* No fix writes through a symlink that appeared while packer ran.
THEOREM WritesStayInside == Spec => []NoWriteOutside
<1>1. TaskInvariant => NoWriteOutside
  BY DEF TaskInvariant
<1> QED
  BY <1>1, TaskHolds, PTL

\* In every script the probe comes before the credentials.
LEMMA ProbesPrecedeInjections ==
  ASSUME NEW s \in DOMAIN Script,
         NEW i \in 1..Len(Script[s]), NEW j \in 1..Len(Script[s]),
         Script[s][i] = "inject", Script[s][j] = "probe"
  PROVE  j < i
<1>1. CASE s = "azureWif"
  <2>1. Script[s] = AzureWif /\ Len(AzureWif) = 8
    BY <1>1 DEF Script, AzureWif
  <2> QED
    BY <2>1 DEF AzureWif
<1>2. CASE s = "azureSp"
  <2>1. Script[s] = AzureSp /\ Len(AzureSp) = 7
    BY <1>2 DEF Script, AzureSp
  <2> QED
    BY <2>1 DEF AzureSp
<1>3. CASE s \notin {"azureWif", "azureSp"}
  <2>1. Script[s] \in {<< >>, AzureMsi, AwsStatic, AwsWif, GcpKey, GcpWif,
                       OciKey, OciWif, VSphere, VSphereNoTls}
    BY <1>3 DEF Script
  <2>2. Script[s][j] # "probe"
    BY <2>1 DEF AzureMsi, AwsStatic, AwsWif, GcpKey, GcpWif, OciKey, OciWif,
                VSphere, VSphereNoTls
  <2> QED
    BY <2>2
<1> QED
  BY <1>1, <1>2, <1>3

\* packer inspect, which echoes the values of variables, never runs with a
\* credential in the environment.
THEOREM ProbesSeeNoCredential == Spec => []ProbeBeforeInjection
<1>1. TypeOK /\ TaskInvariant => ProbeBeforeInjection
  <2> SUFFICES ASSUME TypeOK, TaskInvariant,
                      AtStep("probe"), "credential" \in env
               PROVE  FALSE
    BY DEF ProbeBeforeInjection
  <2>1. step \in 1..Len(Script[scheme]) /\ Script[scheme][step] = "probe"
    BY CurrentStep DEF AtStep
  <2>2. PICK i \in 1..Len(Script[scheme]) : i < step /\ Script[scheme][i] = "inject"
    BY DEF AtStep, TaskInvariant, ProviderFits, Did
  <2>3. step < i
    BY <2>1, <2>2, SchemeHasScript, ProbesPrecedeInjections
  <2> QED
    BY <2>1, <2>2, <2>3, CurrentStep
<1> QED
  BY <1>1, TypeCorrect, TaskHolds, PTL

\* The Azure and OCI handlers issue a token only after every check that may
\* reject the run.
THEOREM TokensComeAfterValidation == Spec => []TokenAfterValidation
<1>1. TaskInvariant => TokenAfterValidation
  BY DEF TaskInvariant
<1> QED
  BY <1>1, TaskHolds, PTL

-----------------------------------------------------------------------------
\* Progress.

\* How far a run is from its end: the steps that are left to it at most.
Rank ==
  CASE pc = "dispatch"  -> 21
    [] pc = "prepare"   -> 20
    [] pc = "download"  -> 19
    [] pc = "arrived"   -> 18
    [] pc = "provider"  -> 7 + (MaxStep + 1 - step)
    [] pc = "spawn"     -> 6
    [] pc = "executing" -> IF escaped THEN 4 ELSE 5
    [] pc = "after"     -> 3
    [] pc = "finally"   -> 2
    [] pc = "report"    -> 1
    [] pc = "ended"     -> 0

\* Whatever happens brings the run nearer to its end, whichever its command and
\* provider: no handler, failure, signal or cleanup leads it back, and a run
\* takes at most 21 steps (index.ts 63-72, parent-handler.ts 13-34).
THEOREM RunsOnlyMoveForward == Spec => [][Rank' < Rank]_vars
<1>1. TypeOK /\ [Next]_vars => [Rank' < Rank]_vars
  <2> SUFFICES ASSUME TypeOK, Next
               PROVE  Rank' < Rank
    OBVIOUS
  <2>2. step \in Nat /\ 7 + (MaxStep + 1 - step) \in 7 .. 17
    BY DEF TypeOK, MaxStep
  <2> USE DEF TypeOK, Rank, Labels, Continue, Throw, Reject
  <2>3. CASE Dispatch \/ Prepare \/ DownloadSecureFile \/ UseSecureFile
    BY <2>2, <2>3 DEF Dispatch, Prepare, DownloadSecureFile, UseSecureFile, MaxStep
  <2>4. CASE CheckStep \/ RequestToken \/ WriteSecretFile \/ SetVariables \/ ProviderDone
    BY <2>2, <2>4 DEF CheckStep, RequestToken, WriteSecretFile, SetVariables, ProviderDone,
                      AtStep, NextStep, MaxStep
  <2>5. CASE SpawnPacker \/ PackerExits \/ AfterPacker
    BY <2>5 DEF SpawnPacker, PackerExits, AfterPacker
  <2>6. CASE Finally \/ Report
    BY <2>6 DEF Finally, Report
  <2>7. CASE Interrupt \/ Uncaught \/ Lost
    BY <2>2, <2>7 DEF Interrupt, Uncaught, Lost, EmergencyCleanup, Awaiting, AtStep
  <2>8. CASE PlantSymlink
    BY <2>8 DEF PlantSymlink
  <2> QED
    BY <2>3, <2>4, <2>5, <2>6, <2>7, <2>8 DEF Next, Run
<1> QED
  BY <1>1, TypeCorrect, PTL DEF Spec

=============================================================================
