---------------------- MODULE PackerInstallerRefinement ----------------------
(***************************************************************************)
(* PackerInstaller implements VerifiedStore when runs do not overlap, for  *)
(* every set of agents, policies, faults and binaries: each step of a run  *)
(* or of its environment is one step of the store, or none.                *)
(***************************************************************************)
EXTENDS PackerInstallerProofs

-----------------------------------------------------------------------------
\* What the mapping needs beyond the invariant of the runs.

\* There is an archive wherever it is used.
HasArchive(a) ==
  pc[a] \in {"sums", "signature", "digest", "extract"} \/ Caching(a)
    => zip[a] \in Archives

\* The slot is unsealed while it is filled.
SlotIsOpen(a) == pc[a] \in {"copy", "copying"} => record = Missing

Fits(a) == HasArchive(a) /\ SlotIsOpen(a)

\* A step of a run keeps both.
LEMMA StepKeepsFit ==
  ASSUME TypeOK, NEW a \in Agents, Fits(a), Step(a)
  PROVE  Fits(a)'
<1> USE DEF TypeOK, Fits, HasArchive, SlotIsOpen, Caching, Goto, Fail, Warn,
            entryVars, inputVars, localVars, trustVars
<1>1. CASE ResolveVersion(a) \/ FindLocalTool(a)
  BY <1>1 DEF ResolveVersion, FindLocalTool, FirstStep
<1>2. CASE RegistryMetadata(a)
  BY <1>2 DEF RegistryMetadata, StrategyFails
<1>3. CASE DownloadArchive(a)
  BY <1>3, ServedTypeOK DEF DownloadArchive, StrategyFails
<1>4. CASE FetchSums(a)
  BY <1>4 DEF FetchSums, Uncovered, StrategyFails, Discard
<1>5. CASE CheckSignature(a)
  BY <1>5 DEF CheckSignature, StrategyFails, Discard
<1>6. CASE CheckDigest(a)
  BY <1>6 DEF CheckDigest, DigestMatches, DigestDiffers, DigestUnreadable,
              Uncovered, StrategyFails, Discard
<1>7. CASE ExtractZip(a)
  BY <1>7 DEF ExtractZip
<1>8. CASE CacheClear(a)
  BY <1>8 DEF CacheClear
<1>9. CASE CopyStarts(a) \/ CopyEnds(a) \/ MarkComplete(a)
  BY <1>9 DEF CopyStarts, CopyEnds, MarkComplete
<1>10. CASE LocatePacker(a)
  BY <1>10 DEF LocatePacker
<1>11. CASE CheckRecord(a) \/ CompareRelease(a)
  BY <1>11 DEF CheckRecord, CompareRelease, FirstStep
<1>12. CASE HashBinary(a) \/ RenameRecord(a) \/ Finish(a)
  BY <1>12 DEF HashBinary, RenameRecord, Finish
<1> QED
  BY <1>1, <1>2, <1>3, <1>4, <1>5, <1>6, <1>7, <1>8, <1>9, <1>10, <1>11,
     <1>12 DEF Step

\* A run at rest needs neither.
LEMMA RestFits == ASSUME NEW a \in Agents, ~Active(a) PROVE Fits(a)
  BY DEF Active, Ended, Fits, HasArchive, SlotIsOpen, Caching

\* The invariant under which steps are mapped.
Mappable == TypeOK /\ TrustInvariant /\ \A a \in Agents : Fits(a)

\* Every reachable state is mappable, as long as runs do not overlap.
LEMMA AlwaysMappable ==
  ASSUME ~Concurrent
  PROVE  Spec => []Mappable
<1>1. Init => \A a \in Agents : Fits(a)
  BY DEF Init, Fits, HasArchive, SlotIsOpen, Caching
<1>2. /\ TypeOK /\ TrustInvariant /\ (\A a \in Agents : Fits(a))
      /\ TypeOK' /\ TrustInvariant' /\ [Next]_vars
      => (\A a \in Agents : Fits(a))'
  <2> SUFFICES ASSUME TypeOK, TrustInvariant, \A a \in Agents : Fits(a),
                      TrustInvariant', [Next]_vars
               PROVE  \A a \in Agents : Fits(a)'
    OBVIOUS
  <2>1. ASSUME NEW a \in Agents, Step(a)
        PROVE  \A b \in Agents : Fits(b)'
    <3>1. Active(a) /\ OthersKeep(a)
      BY <2>1, StepIsActive, StepKeepsOthers
    <3>2. ASSUME NEW b \in Agents \ {a}
          PROVE  ~Active(b)'
      BY <3>1 DEF TrustInvariant, Alone, OthersKeep, Active
    <3>3. ASSUME NEW b \in Agents \ {a}
          PROVE  Fits(b)'
      BY <3>2 DEF Active, Ended, Fits, HasArchive, SlotIsOpen, Caching
    <3> QED
      BY <2>1, <3>3, StepKeepsFit
  <2>2. ASSUME NEW a \in Agents, NEW p \in Policies, Start(a, p)
        PROVE  \A b \in Agents : Fits(b)'
    <3>1. \A b \in Agents : pc'[b] = "resolve" \/ pc'[b] = pc[b]
      BY <2>2 DEF Start, Goto, TypeOK
    <3>2. \A b \in Agents : ~Active(b)
      BY <2>2 DEF Start
    <3> QED
      BY <3>1, <3>2 DEF Active, Ended, Fits, HasArchive, SlotIsOpen, Caching
  <2>3. CASE Environment
    <3>1. ASSUME NEW a \in Agents, Kill(a)
          PROVE  \A b \in Agents : Fits(b)'
      BY <3>1 DEF Kill, Fail, Goto, entryVars, localVars, TypeOK, Fits,
                  HasArchive, SlotIsOpen, Caching
    <3>2. CASE DamageBinary \/ DamageRecord \/ DeleteEntry
      <4>1. UNCHANGED pc /\ \A b \in Agents : ~Active(b)
        BY <3>2 DEF DamageBinary, DamageRecord, DeleteEntry, AtRest
      <4> QED
        BY <4>1 DEF Active, Ended, Fits, HasArchive, SlotIsOpen, Caching
    <3> QED
      BY <2>3, <3>1, <3>2 DEF Environment
  <2>4. CASE UNCHANGED vars
    BY <2>4 DEF vars, entryVars, localVars, Fits, HasArchive, SlotIsOpen, Caching
  <2> QED
    BY <2>1, <2>2, <2>3, <2>4 DEF Next
<1> QED
  BY <1>1, <1>2, TypeCorrect, TrustHolds, PTL DEF Spec, Mappable

-----------------------------------------------------------------------------
\* Shapes of steps, and what they are to the store.

storeVars == <<binary, record, vouched>>

StoreRests == UNCHANGED <<Store!store, Store!jobs>>

\* A run that goes on, without a new excuse, is no step of the store.
LEMMA GoingOnIsNoStep ==
  ASSUME TypeOK, NEW a \in Agents, Active(a), NEW label, Goto(a, label),
         label \notin Ended, UNCHANGED <<storeVars, policy, ran>>,
         \/ UNCHANGED warned
         \/ Warn(a, "unverified") \/ Warn(a, "checksumOnly")
  PROVE  StoreRests
<1>1. \A b \in Agents : State(b)' = State(b)
  BY DEF TypeOK, State, Active, Ended, Goto
<1>2. \A b \in Agents : Degraded(b)' = Degraded(b)
  BY DEF TypeOK, Degraded, Warn
<1> QED
  BY <1>1, <1>2 DEF storeVars, StoreRests, Store!store, Store!jobs, WellFormed

\* A run that fails, and does nothing else, abandons its job.
LEMMA FailingIsAbandoning ==
  ASSUME TypeOK, NEW a \in Agents, Active(a), NEW kind, Fail(a, kind),
         UNCHANGED <<storeVars, policy, warned, ran>>
  PROVE  Store!Abandon(a)
<1>1. State(a) = "working" /\ State(a)' = "failed"
  BY DEF TypeOK, State, Active, Ended, Fail, Goto
<1>2. \A b \in Agents \ {a} : State(b)' = State(b)
  BY DEF TypeOK, State, Fail, Goto
<1>3. [b \in Agents |-> State(b)'] =
        [[b \in Agents |-> State(b)] EXCEPT ![a] = "failed"]
  BY <1>1, <1>2
<1> QED
  BY <1>1, <1>3 DEF storeVars, Store!Abandon, Store!Working, Store!store,
                    WellFormed, Degraded

\* A strategy that fails abandons the job or excuses it.
LEMMA StrategyFailingIsAStep ==
  ASSUME TypeOK, NEW a \in Agents, Active(a),
         NEW kind \in {"unreachable", "disk", "verification"},
         StrategyFails(a, kind), UNCHANGED <<storeVars, policy, ran>>
  PROVE  Store!Abandon(a) \/ Store!Excuse(a)
<1>1. CASE Fail(a, kind) /\ UNCHANGED warned
  BY <1>1, FailingIsAbandoning
<1>2. CASE /\ Goto(a, "finish") /\ Warn(a, kind)
           /\ kind # "verification" /\ ~policy[a].requireOnline
  <2>1. State(a) = "working" /\ \A b \in Agents : State(b)' = State(b)
    BY <1>2 DEF TypeOK, State, Active, Ended, Goto
  <2>2. Degraded(a)' /\ \A b \in Agents \ {a} : Degraded(b)' = Degraded(b)
    BY <1>2 DEF TypeOK, Degraded, Warn
  <2>3. {b \in Agents : Degraded(b)'} = {b \in Agents : Degraded(b)} \cup {a}
    BY <2>2
  <2> QED
    BY <1>2, <2>1, <2>3 DEF storeVars, Store!Excuse, Store!Working, Store!store,
                            WellFormed
<1> QED
  BY <1>1, <1>2 DEF StrategyFails

\* An archive without a checksum goes on, or has the strategy fail.
LEMMA UncoveredIsAStep ==
  ASSUME TypeOK, NEW a \in Agents, Active(a), Uncovered(a),
         UNCHANGED <<storeVars, policy, ran>>
  PROVE  StoreRests \/ Store!Abandon(a) \/ Store!Excuse(a)
<1>1. CASE MayInstallUncovered(a)
  <2>1. Goto(a, "extract") /\ Warn(a, "unverified")
    BY <1>1 DEF Uncovered
  <2> QED
    BY <2>1, GoingOnIsNoStep DEF Ended
<1>2. CASE ~MayInstallUncovered(a)
  BY <1>2, StrategyFailingIsAStep DEF Uncovered
<1> QED
  BY <1>1, <1>2

-----------------------------------------------------------------------------
\* The steps of a run as steps of the store.

StoreStep(a) ==
  \/ StoreRests \/ Store!Begin(a) \/ Store!Excuse(a) \/ Store!Use(a)
  \/ Store!Abandon(a) \/ Store!Empty
  \/ \E c \in Archives \cup {Partial} :
       Store!Vouch(c) \/ Store!Fill(c) \/ Store!Seal(c)

\* The download strategies go on, fail, or vouch for the archive.
LEMMA StrategiesAreSteps ==
  ASSUME TypeOK, NEW a \in Agents,
         \/ RegistryMetadata(a) \/ DownloadArchive(a) \/ FetchSums(a)
         \/ CheckSignature(a) \/ CheckDigest(a)
  PROVE  StoreStep(a)
<1>1. Active(a) /\ UNCHANGED <<binary, record, policy, ran>>
  BY DEF RegistryMetadata, DownloadArchive, FetchSums, CheckSignature,
         CheckDigest, Active, Ended, entryVars, inputVars
<1>2. CASE CheckDigest(a) /\ DigestMatches(a)
  <2>1. zip[a] \in Archives /\ vouched' = vouched \cup {zip[a]}
    BY <1>2 DEF DigestMatches
  <2>2. \A b \in Agents : State(b)' = State(b)
    BY <1>1, <1>2 DEF TypeOK, DigestMatches, State, Active, Ended, Goto
  <2>3. \A b \in Agents : Degraded(b)' = Degraded(b)
    BY <1>2 DEF TypeOK, DigestMatches, Degraded, Warn
  <2>4. State(a) = "working"
    BY <1>1 DEF State, Active, Ended
  <2>5. Store!Vouch(zip[a])
    BY <1>1, <2>1, <2>2, <2>3, <2>4
       DEF Store!Vouch, Store!Working, Store!jobs, WellFormed
  <2> QED
    BY <2>1, <2>5 DEF StoreStep
<1>3. CASE ~(CheckDigest(a) /\ DigestMatches(a))
  <2>1. UNCHANGED storeVars
    BY <1>1, <1>3 DEF RegistryMetadata, DownloadArchive, FetchSums,
       CheckSignature, CheckDigest, DigestDiffers, DigestUnreadable, trustVars,
       storeVars
  <2>2. \/ \E kind \in {"unreachable", "disk", "verification"} :
             StrategyFails(a, kind)
        \/ Uncovered(a)
        \/ /\ \E label \in {"download", "sums", "signature", "digest"} :
                Goto(a, label)
           /\ UNCHANGED warned \/ Warn(a, "checksumOnly")
    BY <1>3 DEF RegistryMetadata, DownloadArchive, FetchSums, CheckSignature,
                CheckDigest, DigestDiffers, DigestUnreadable
  <2>3. CASE \E kind \in {"unreachable", "disk", "verification"} :
               StrategyFails(a, kind)
    BY <1>1, <2>1, <2>3, StrategyFailingIsAStep DEF StoreStep
  <2>4. CASE Uncovered(a)
    BY <1>1, <2>1, <2>4, UncoveredIsAStep DEF StoreStep
  <2>5. CASE /\ \E label \in {"download", "sums", "signature", "digest"} :
                  Goto(a, label)
             /\ UNCHANGED warned \/ Warn(a, "checksumOnly")
    BY <1>1, <2>1, <2>5, GoingOnIsNoStep DEF StoreStep, Ended
  <2> QED
    BY <2>2, <2>3, <2>4, <2>5
<1> QED
  BY <1>2, <1>3

\* The steps that leave the entry alone go on or fail.
LEMMA LookingStepsAreSteps ==
  ASSUME TypeOK, NEW a \in Agents,
         \/ ResolveVersion(a) \/ FindLocalTool(a) \/ ExtractZip(a)
         \/ MarkComplete(a) \/ LocatePacker(a) \/ CheckRecord(a)
         \/ CompareRelease(a) \/ HashBinary(a)
  PROVE  StoreStep(a)
<1>1. Active(a) /\ UNCHANGED <<storeVars, policy, warned, ran>>
  BY DEF ResolveVersion, FindLocalTool, ExtractZip, MarkComplete, LocatePacker,
         CheckRecord, CompareRelease, HashBinary, Active, Ended, entryVars,
         inputVars, trustVars, storeVars
<1>2. (\E kind : Fail(a, kind)) \/ \E label : Goto(a, label) /\ label \notin Ended
  BY DEF ResolveVersion, FindLocalTool, ExtractZip, MarkComplete, LocatePacker,
         CheckRecord, CompareRelease, HashBinary, FirstStep, Ended
<1> QED
  BY <1>1, <1>2, GoingOnIsNoStep, FailingIsAbandoning DEF StoreStep

\* Caching empties the slot and fills it.
LEMMA CachingIsEmptyingAndFilling ==
  ASSUME Mappable, NEW a \in Agents,
         CacheClear(a) \/ CopyStarts(a) \/ CopyEnds(a)
  PROVE  StoreStep(a)
<1>1. TypeOK /\ Fits(a)
  BY DEF Mappable
<1>2. Active(a) /\ UNCHANGED <<policy, warned, vouched, ran>>
  BY DEF CacheClear, CopyStarts, CopyEnds, Active, Ended, inputVars, trustVars
<1>3. State(a) = "working"
  BY <1>2 DEF State, Active, Ended
<1>4. CASE \E kind : Fail(a, kind) /\ UNCHANGED <<binary, record>>
  BY <1>1, <1>2, <1>4, FailingIsAbandoning DEF StoreStep, storeVars
<1>5. CASE \E label \in {"copy", "copying", "mark"} : Goto(a, label)
  <2>1. \A b \in Agents : State(b)' = State(b)
    BY <1>1, <1>2, <1>5 DEF TypeOK, State, Active, Ended, Goto
  <2>2. UNCHANGED Store!jobs
    BY <1>2, <2>1 DEF Store!jobs, Degraded
  <2>3. CASE CacheClear(a)
    <3>1. binary' = Missing /\ record' = Missing
      BY <1>1, <1>5, <2>3 DEF CacheClear, Fail, Goto, TypeOK
    <3>2. Store!Empty
      BY <1>2, <1>3, <2>2, <3>1 DEF Store!Empty, Store!Working, WellFormed
    <3> QED
      BY <3>2 DEF StoreStep
  <2>4. CASE CopyStarts(a) \/ CopyEnds(a)
    <3>1. record = Missing /\ zip[a] \in Archives
      BY <1>1, <2>4 DEF Fits, HasArchive, SlotIsOpen, CopyStarts, CopyEnds, Caching
    <3>2. pc[a] = "copying" => a \in copies
      BY DEF Mappable, TrustInvariant, Trust, BinaryFitsTheRun
    <3>3. record' = record /\ binary' \in Archives \cup {Partial}
      BY <1>1, <1>5, <2>4, <3>1, <3>2
         DEF CopyStarts, CopyEnds, entryVars, Archives, Fail, Goto, TypeOK
    <3>4. Store!Fill(binary')
      BY <1>2, <1>3, <2>2, <3>1, <3>3 DEF Store!Fill, Store!Working, WellFormed
    <3> QED
      BY <3>3, <3>4 DEF StoreStep
  <2> QED
    BY <2>3, <2>4
<1> QED
  BY <1>4, <1>5 DEF CacheClear, CopyStarts, CopyEnds, entryVars

\* Renaming the record seals what is vouched for.
LEMMA RecordingIsSealing ==
  ASSUME Mappable, NEW a \in Agents, RenameRecord(a)
  PROVE  StoreStep(a)
<1>1. TypeOK /\ Active(a) /\ Goto(a, "finish")
      /\ UNCHANGED <<policy, warned, vouched, binary, ran>>
  BY DEF Mappable, RenameRecord, Active, Ended, inputVars, trustVars
<1>2. CASE record' = record
  BY <1>1, <1>2, GoingOnIsNoStep DEF StoreStep, storeVars, Ended
<1>3. CASE record' = digest[a]
  <2>1. digest[a] \in vouched /\ digest[a] \in Archives
    BY DEF RenameRecord, Mappable, TrustInvariant, Trust, BinaryFitsTheRun, TypeOK
  <2>2. WellFormed(digest[a])
    BY <2>1, DistinctValues DEF WellFormed, Archives
  <2>3. State(a) = "working" /\ \A b \in Agents : State(b)' = State(b)
    BY <1>1 DEF TypeOK, State, Active, Ended, Goto
  <2>4. UNCHANGED Store!jobs
    BY <1>1, <2>3 DEF Store!jobs, Degraded
  <2>5. Store!Seal(digest[a])
    BY <1>1, <1>3, <2>1, <2>2, <2>3, <2>4 DEF Store!Seal, Store!Working, WellFormed
  <2> QED
    BY <2>1, <2>5 DEF StoreStep
<1> QED
  BY <1>2, <1>3 DEF RenameRecord

\* A run that ends well uses the binary.
LEMMA FinishingIsUsing ==
  ASSUME Mappable, NEW a \in Agents, Finish(a)
  PROVE  StoreStep(a)
<1>1. TypeOK /\ Active(a) /\ pc[a] = "finish"
      /\ UNCHANGED <<storeVars, policy, warned>>
  BY DEF Mappable, Finish, Active, Ended, inputVars, trustVars, entryVars,
         storeVars
<1>2. CASE ran' = [ran EXCEPT ![a] = binary] /\ Goto(a, "done")
  <2>1. State(a) = "working" /\ State(a)' = "done"
    BY <1>1, <1>2 DEF TypeOK, State, Goto
  <2>2. \A b \in Agents \ {a} : State(b)' = State(b)
    BY <1>1, <1>2 DEF TypeOK, State, Goto
  <2>3. [b \in Agents |-> State(b)'] =
          [[b \in Agents |-> State(b)] EXCEPT ![a] = "done"]
    BY <2>1, <2>2
  <2>4. policy[a].requireChecksum /\ ~Degraded(a) => binary \in vouched
    BY <1>1 DEF Mappable, TrustInvariant, Trust, EndIsVouched
  <2>5. Store!Use(a)
    BY <1>1, <1>2, <2>1, <2>3, <2>4
       DEF Store!Use, Store!Working, Store!store, storeVars, WellFormed, Degraded
  <2> QED
    BY <2>5 DEF StoreStep
<1>3. CASE Fail(a, "exec") /\ UNCHANGED ran
  BY <1>1, <1>3, FailingIsAbandoning DEF StoreStep
<1> QED
  BY <1>2, <1>3 DEF Finish

\* A new run begins a job.
LEMMA StartingIsBeginning ==
  ASSUME TypeOK, NEW a \in Agents, NEW p \in Policies, Start(a, p)
  PROVE  Store!Begin(a)
<1>1. /\ pc' = [pc EXCEPT ![a] = "resolve"] /\ ~Active(a)
      /\ policy' = [policy EXCEPT ![a] = p]
      /\ warned' = [warned EXCEPT ![a] = {}]
      /\ ran' = [ran EXCEPT ![a] = Missing]
      /\ UNCHANGED storeVars
  BY DEF Start, Goto, entryVars, storeVars
<1>2. State(a) # "working" /\ State(a)' = "working"
  BY <1>1 DEF TypeOK, State, Active, Ended
<1>3. \A b \in Agents \ {a} : State(b)' = State(b)
  BY <1>1 DEF TypeOK, State
<1>4. [b \in Agents |-> State(b)'] =
        [[b \in Agents |-> State(b)] EXCEPT ![a] = "working"]
  BY <1>2, <1>3
<1>5. \A b \in Agents \ {a} : policy'[b] = policy[b] /\ Degraded(b)' = Degraded(b)
  BY <1>1 DEF TypeOK, Degraded
<1>6. ~Degraded(a)'
  BY <1>1 DEF TypeOK, Degraded
<1>7. LET S == {b \in Agents : policy[b].requireChecksum} IN
      {b \in Agents : policy'[b].requireChecksum} \in {S \cup {a}, S \ {a}}
  BY <1>5
<1>8. LET S == {b \in Agents : policy[b].requireOnline} IN
      {b \in Agents : policy'[b].requireOnline} \in {S \cup {a}, S \ {a}}
  BY <1>5
<1>9. {b \in Agents : Degraded(b)'} = {b \in Agents : Degraded(b)} \ {a}
  BY <1>5, <1>6
<1> QED
  BY <1>1, <1>2, <1>4, <1>7, <1>8, <1>9
     DEF Store!Begin, Store!Working, Store!store, storeVars, WellFormed

\* A killed run abandons its job, and the rest is damage.
LEMMA EnvironmentIsDamage ==
  ASSUME TypeOK, Environment
  PROVE  (\E a \in Agents : Store!Abandon(a)) \/ Store!Damage
<1>1. ASSUME NEW a \in Agents, Kill(a)
      PROVE  Store!Abandon(a)
  BY <1>1, FailingIsAbandoning
     DEF Kill, entryVars, inputVars, trustVars, storeVars
<1>2. CASE DamageBinary \/ DamageRecord \/ DeleteEntry
  <2>1. \A b \in Agents : ~Active(b) /\ State(b)' = State(b)
    BY <1>2 DEF DamageBinary, DamageRecord, DeleteEntry, AtRest, State
  <2>2. \A b \in Agents : State(b) # "working"
    BY <2>1 DEF State, Active, Ended, TypeOK
  <2>3. UNCHANGED <<policy, warned, vouched, ran>>
    BY <1>2 DEF DamageBinary, DamageRecord, DeleteEntry, inputVars, trustVars
  <2>4. UNCHANGED Store!jobs
    BY <2>1, <2>3 DEF Store!jobs, Degraded
  <2>5. binary' \in Archives \cup {Partial, Missing}
        /\ record' \in {record, Missing, Torn}
    BY <1>2 DEF DamageBinary, DamageRecord, DeleteEntry, TypeOK, Archives
  <2> QED
    BY <2>2, <2>3, <2>4, <2>5 DEF Store!Damage, Store!Working, WellFormed
<1> QED
  BY <1>1, <1>2 DEF Environment

\* The installer implements the verified store: whatever runs are configured
\* with and however they end, only what was vouched for is sealed, a sealed
\* slot is not refilled, and a strict job uses nothing else unexcused.
THEOREM RefinesStore ==
  ASSUME ~Concurrent
  PROVE  Spec => ImplementsStore
<1>1. Init => Store!Init
  <2> SUFFICES ASSUME Init PROVE Store!Init
    OBVIOUS
  <2>1. \A a \in Agents : State(a) = "waiting" /\ ~Degraded(a)
    BY DEF Init, State, Degraded
  <2>2. ~WellFormed(record) /\ binary \in Archives \cup {Partial, Missing}
    BY DEF Init, WellFormed, Archives
  <2> QED
    BY <2>1, <2>2 DEF Store!Init, Init
<1>2. Mappable /\ [Next]_vars => [Store!Next]_<<Store!store, Store!jobs>>
  <2> SUFFICES ASSUME Mappable, [Next]_vars
               PROVE  Store!Next \/ StoreRests
    BY DEF StoreRests
  <2>1. TypeOK
    BY DEF Mappable
  <2>2. ASSUME NEW a \in Agents, Step(a)
        PROVE  Store!Next \/ StoreRests
    <3>1. StoreStep(a)
      BY <2>1, <2>2, StrategiesAreSteps, LookingStepsAreSteps,
         CachingIsEmptyingAndFilling, RecordingIsSealing, FinishingIsUsing
         DEF Step
    <3> QED
      BY <3>1 DEF StoreStep, Store!Next
  <2>3. ASSUME NEW a \in Agents, NEW p \in Policies, Start(a, p)
        PROVE  Store!Next
    BY <2>1, <2>3, StartingIsBeginning DEF Store!Next
  <2>4. CASE Environment
    BY <2>1, <2>4, EnvironmentIsDamage DEF Store!Next
  <2>5. CASE UNCHANGED vars
    BY <2>5 DEF vars, entryVars, inputVars, trustVars, StoreRests, Store!store,
                Store!jobs, State, Degraded, WellFormed
  <2> QED
    BY <2>2, <2>3, <2>4, <2>5 DEF Next
<1> QED
  BY <1>1, <1>2, AlwaysMappable, PTL DEF Spec, ImplementsStore, Store!Spec

=============================================================================
