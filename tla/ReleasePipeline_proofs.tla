------------------------ MODULE ReleasePipeline_proofs ------------------------
(***************************************************************************)
(* For any number of releases, preparers, operators, workers and attempts, *)
(* and any contents of the archive: a version is only registered from an   *)
(* intact publication of a dataset that passed without warnings, a run     *)
(* that succeeds leaves all its results and one version behind, and what   *)
(* holds of the registry by itself holds of it in the pipeline.            *)
(*                                                                         *)
(* The argument has three parts.  Every step of the pipeline is, for the   *)
(* registry, one of its own or none.  The publication is written once, so  *)
(* what the training found of it stays true.  And a run's results only     *)
(* accumulate, so each task finds what the tasks before it have left.      *)
(***************************************************************************)
EXTENDS ReleasePipeline, ModelRegistry_proofs

Running == dag.task # "none" => dag.release \in Releases /\ dag.release \in started

(* Every step of the release pipeline is a step of the registry.           *)
LEMMA PipelineUsesRegistry ==
    ASSUME Running, [Next]_allVars
    PROVE  [RegistryNext]_registryVars
<1>1. CASE UNCHANGED allVars
  BY <1>1 DEF allVars, vars, registryVars
<1>2. CASE EngineerActs \/ FilesDamaged \/ RunStarts \/ SchedulerPrepares \/ ReviewerActs
  BY <1>2 DEF EngineerActs, FilesDamaged, RunStarts, StartRun, SchedulerPrepares,
              ReviewerActs, SetGranted, registryVars
<1>3. CASE OperatorOrWorker
  BY <1>3 DEF OperatorOrWorker, RegistryNext
<1>4. CASE RegistrationStep
  BY <1>4 DEF RegistrationStep, RegistryNext
<1>5. CASE PipelineStep
  <2>1. CASE StartRegisterTask
    BY <2>1 DEF StartRegisterTask, InTask, Running, RegistryNext
  <2>2. CASE EndRegisterTask
    BY <2>2 DEF EndRegisterTask, RegistryNext
  <2>3. CASE ~StartRegisterTask /\ ~EndRegisterTask
    BY <1>5, <2>3
       DEF PipelineStep, StartPrepareTask, EndPrepareTask, RegisterTaskRefused,
           StartPublishingTask, PublishResult, LogRuns, EndComparison,
           FinishPublishingTask, PublishingTaskFails, Review, ReviewTimesOut
  <2> QED
    BY <2>1, <2>2, <2>3
<1> QED
  BY <1>1, <1>2, <1>3, <1>4, <1>5 DEF Next

-----------------------------------------------------------------------------
(* The data.                                                               *)

Publishable == {"PASSED", "PASSED_WITH_WARNINGS"}

DataInv ==
    /\ DataTypeOK
    /\ \A p \in Preparers : At(p, "stage") => ValidationStatus(source) \in Publishable
    /\ interim # Unpublished =>
          interim.status = ValidationStatus(source) /\ interim.status \in Publishable

(* What a step may do to the publication and to the source it comes from.  *)
InterimStays ==
    /\ source' = source
    /\ interim # Unpublished =>
          /\ interim' # Unpublished
          /\ interim'.status = interim.status
          /\ interim'.intact => interim.intact

DataNext ==
    \/ \E force \in BOOLEAN : Download(force)
    \/ DamagePublication
    \/ \E p \in Preparers : \/ \E allow \in BOOLEAN : StartPreparing(p, allow)
                            \/ Prepare(p)
                            \/ EndPreparing(p)
    \/ UNCHANGED dataVars

(* A validation ends in FAILED or in a status that can be published.       *)
LEMMA StatusIsOneOf ==
    \A s : ValidationStatus(s) \in {"FAILED"} \cup Publishable
BY DEF ValidationStatus, Publishable

(* The pipeline and its people touch the dataset only through its own      *)
(* operations.                                                             *)
LEMMA PipelineUsesData ==
    ASSUME [Next]_allVars
    PROVE  DataNext
<1>1. CASE UNCHANGED allVars
  BY <1>1 DEF allVars, vars, DataNext
<1>2. CASE EngineerActs \/ FilesDamaged
  BY <1>2 DEF EngineerActs, FilesDamaged, Engineers, DataNext
<1>3. Scheduler \in Preparers
  BY PipelineAssumption, PreparerAssumption
<1>4. CASE SchedulerPrepares
  BY <1>3, <1>4 DEF SchedulerPrepares, DataNext
<1>5. CASE RunStarts \/ ReviewerActs \/ OperatorOrWorker \/ RegistrationStep
  BY <1>5 DEF RunStarts, StartRun, ReviewerActs, SetGranted, OperatorOrWorker,
              RegistrationStep, DataNext
<1>6. CASE PipelineStep
  <2>1. CASE StartPrepareTask
    BY <1>3, <2>1 DEF StartPrepareTask, DataNext
  <2>2. CASE EndPrepareTask
    BY <1>3, <2>2 DEF EndPrepareTask, DataNext
  <2>3. CASE ~StartPrepareTask /\ ~EndPrepareTask
    BY <1>6, <2>3
       DEF PipelineStep, StartRegisterTask, RegisterTaskRefused, EndRegisterTask,
           StartPublishingTask, PublishResult, LogRuns, EndComparison,
           FinishPublishingTask, PublishingTaskFails, Review, ReviewTimesOut, DataNext
  <2> QED
    BY <2>1, <2>2, <2>3
<1> QED
  BY <1>1, <1>2, <1>4, <1>5, <1>6 DEF Next

(* A preparer goes on, and nothing it shares with the others changes.      *)
LEMMA PreparerMoves ==
    ASSUME DataInv, NEW p \in Preparers,
           NEW to \in {"idle", "extract", "stage_raw", "validate", "stage", "ok", "error"},
           NEW allow \in BOOLEAN,
           preparer' = [preparer EXCEPT ![p] = [pc |-> to, allow |-> allow]],
           to = "stage" => ValidationStatus(source) \in Publishable,
           archive' \in {"none", "pinned", "other"}, raw' \in BOOLEAN,
           quarantine' \in {"none", "FAILED", "PASSED_WITH_WARNINGS"},
           UNCHANGED <<source, interim>>
    PROVE  DataInv' /\ InterimStays
<1>1. preparer' \in [Preparers -> [pc : {"idle", "extract", "stage_raw", "validate", "stage",
                                         "ok", "error"}, allow : BOOLEAN]]
  BY DEF DataInv, DataTypeOK
<1>2. DataTypeOK'
  BY <1>1 DEF DataInv, DataTypeOK
<1>3. \A q \in Preparers :
          (preparer'[q].pc = "stage") => ValidationStatus(source) \in Publishable
  BY DEF DataInv, DataTypeOK, At
<1> QED
  BY <1>2, <1>3 DEF DataInv, InterimStays, At

(* A preparer that moves without publishing keeps the dataset's            *)
(* invariant.                                                              *)
LEMMA GoMoves ==
    ASSUME DataInv, NEW p \in Preparers,
           NEW to \in {"extract", "stage_raw", "validate", "stage", "ok", "error"},
           Go(p, to),
           to = "stage" => ValidationStatus(source) \in Publishable,
           archive' \in {"none", "pinned", "other"}, raw' \in BOOLEAN,
           quarantine' \in {"none", "FAILED", "PASSED_WITH_WARNINGS"},
           UNCHANGED <<source, interim>>
    PROVE  DataInv' /\ InterimStays
<1>1. PICK old \in [pc : {"idle", "extract", "stage_raw", "validate", "stage", "ok", "error"},
                    allow : BOOLEAN] : old = preparer[p]
  BY DEF DataInv, DataTypeOK
<1>2. preparer' = [preparer EXCEPT ![p] = [pc |-> to, allow |-> old.allow]]
  <2>1. [old EXCEPT !.pc = to] = [pc |-> to, allow |-> old.allow]
    OBVIOUS
  <2> QED
    BY <1>1, <2>1 DEF Go
<1> QED
  BY <1>1, <1>2, PreparerMoves

(* Every step of prepare_fd001 keeps the dataset's invariant and any       *)
(* publication.                                                            *)
LEMMA PrepareKeepsData ==
    ASSUME DataInv, NEW p \in Preparers, Prepare(p)
    PROVE  DataInv' /\ InterimStays
<1> USE DEF Publishable
<1>1. /\ archive \in {"none", "pinned", "other"} /\ raw \in BOOLEAN
      /\ quarantine \in {"none", "FAILED", "PASSED_WITH_WARNINGS"}
  BY DEF DataInv, DataTypeOK
<1>2. CASE Extract(p)
  <2>1. PICK to \in {"error", "validate", "stage_raw"} : Go(p, to)
    BY <1>2 DEF Extract
  <2> QED
    BY <1>1, <1>2, <2>1, GoMoves DEF Extract
<1>3. CASE PublishRaw(p)
  <2>1. PICK to \in {"error", "validate"} : Go(p, to)
    BY <1>3 DEF PublishRaw
  <2>2. raw' \in BOOLEAN /\ UNCHANGED <<source, archive, interim, quarantine>>
    BY <1>3 DEF PublishRaw
  <2> QED
    BY <1>1, <2>1, <2>2, GoMoves
<1>4. CASE Validate(p)
  <2>1. PICK to \in {"ok", "error", "stage"} :
            /\ Go(p, to)
            /\ to = "stage" => ~Blocked(ValidationStatus(source), preparer[p].allow)
            /\ \/ UNCHANGED quarantine
               \/ /\ Blocked(ValidationStatus(source), preparer[p].allow)
                  /\ quarantine' = ValidationStatus(source)
    BY <1>4 DEF Validate
  <2>2. to = "stage" => ValidationStatus(source) \in Publishable
    BY <2>1, StatusIsOneOf DEF Blocked
  <2>3. quarantine' \in {"none", "FAILED", "PASSED_WITH_WARNINGS"}
    BY <1>1, <2>1 DEF Blocked
  <2>4. UNCHANGED <<source, archive, raw, interim>>
    BY <1>4 DEF Validate
  <2> QED
    BY <1>1, <2>1, <2>2, <2>3, <2>4, GoMoves
<1>5. CASE Publish(p) /\ interim # Unpublished
  <2>1. Go(p, "error") /\ UNCHANGED <<source, archive, raw, interim, quarantine>>
    BY <1>5 DEF Publish
  <2> QED
    BY <1>1, <2>1, GoMoves
<1>6. CASE Publish(p) /\ interim = Unpublished
  <2>1. /\ interim' = [status |-> ValidationStatus(source), intact |-> TRUE]
        /\ Go(p, "ok") /\ UNCHANGED <<source, archive, raw, quarantine>>
        /\ ValidationStatus(source) \in Publishable
    BY <1>6 DEF Publish, DataInv
  <2>2. interim' \in [status : {"none", "PASSED", "PASSED_WITH_WARNINGS"}, intact : BOOLEAN]
    BY <2>1
  <2>3. preparer' \in [Preparers -> [pc : {"idle", "extract", "stage_raw", "validate", "stage",
                                           "ok", "error"}, allow : BOOLEAN]]
    BY <2>1 DEF Go, DataInv, DataTypeOK
  <2>4. \A q \in Preparers :
            (preparer'[q].pc = "stage") => ValidationStatus(source) \in Publishable
    BY <2>1
  <2>5. DataTypeOK'
    BY <2>1, <2>2, <2>3 DEF DataInv, DataTypeOK
  <2> QED
    BY <1>6, <2>1, <2>4, <2>5 DEF DataInv, InterimStays, At
<1>7. CASE PreparerFails(p)
  BY <1>1, <1>7, GoMoves DEF PreparerFails
<1> QED
  BY <1>2, <1>3, <1>4, <1>5, <1>6, <1>7 DEF Prepare

(* The publication is written once, by a preparer that found the dataset   *)
(* publishable, and is only ever damaged afterwards.                       *)
LEMMA DataStays ==
    ASSUME DataInv, DataNext
    PROVE  DataInv' /\ InterimStays
<1>1. /\ archive \in {"none", "pinned", "other"} /\ raw \in BOOLEAN
      /\ quarantine \in {"none", "FAILED", "PASSED_WITH_WARNINGS"}
  BY DEF DataInv, DataTypeOK
<1>2. ASSUME NEW force \in BOOLEAN, Download(force) PROVE DataInv' /\ InterimStays
  BY <1>2 DEF Download, DataInv, DataTypeOK, InterimStays, At
<1>3. CASE DamagePublication
  <2>1. PICK old \in [status : {"none", "PASSED", "PASSED_WITH_WARNINGS"}, intact : BOOLEAN] :
            old = interim
    BY DEF DataInv, DataTypeOK
  <2>2. interim' = [status |-> old.status, intact |-> FALSE] /\ old.intact
    BY <1>3, <2>1 DEF DamagePublication
  <2>3. old.status \in Publishable /\ old.status = ValidationStatus(source)
    BY <2>1, <2>2 DEF DataInv, Unpublished
  <2>4. DataTypeOK'
    BY <1>3, <2>2 DEF DamagePublication, DataInv, DataTypeOK
  <2>5. interim' # Unpublished
    BY <2>2, <2>3 DEF Unpublished, Publishable
  <2> QED
    BY <1>3, <2>1, <2>2, <2>3, <2>4, <2>5 DEF DamagePublication, DataInv, InterimStays, At
<1>4. ASSUME NEW p \in Preparers, NEW allow \in BOOLEAN, StartPreparing(p, allow)
      PROVE  DataInv' /\ InterimStays
  BY <1>1, <1>4, PreparerMoves DEF StartPreparing
<1>5. ASSUME NEW p \in Preparers, EndPreparing(p) PROVE DataInv' /\ InterimStays
  BY <1>1, <1>5, PreparerMoves DEF EndPreparing, Idle
<1>6. CASE UNCHANGED dataVars
  BY <1>6 DEF dataVars, DataInv, DataTypeOK, InterimStays, At
<1> QED
  BY <1>2, <1>3, <1>4, <1>5, <1>6, PrepareKeepsData DEF DataNext

(* Data that a model can be trained on is a dataset without warnings.      *)
LEMMA TrainableIsPassed ==
    ASSUME DataInv, Trainable
    PROVE  interim # Unpublished /\ interim.status = "PASSED"
<1>1. interim # Unpublished
  BY DEF Trainable, Unpublished
<1>2. interim.status = ValidationStatus(source) /\ ValidationStatus(source) \in Publishable
  BY <1>1 DEF DataInv
<1>3. \A s \in Splits : ~Errors(source[s])
  BY <1>2 DEF ValidationStatus, Publishable
<1>4. \A s \in Splits : ~Warnings(source[s])
  BY <1>3 DEF Trainable, Errors, Warnings
<1>5. ValidationStatus(source) # "PASSED_WITH_WARNINGS"
  BY <1>4 DEF ValidationStatus
<1> QED
  BY <1>1, <1>2, <1>5 DEF Publishable

-----------------------------------------------------------------------------
(* What is built.                                                          *)

Trained(r) == r \in artifacts["train"] /\ (tracking => r \in tracked)

(* A run that has come to a task has the results of the tasks before.      *)
Reached(r, task) ==
    /\ task \in {"package", "register", "benchmark", "review", "none"} => Trained(r)
    /\ task \in {"register", "benchmark", "review", "none"} => r \in artifacts["package"]
    /\ task \in {"benchmark", "review", "none"} => VersionsOf(r) # {}
    /\ task \in {"review", "none"} => r \in artifacts["benchmark"]

DagReached ==
    /\ Running
    /\ dag.task # "none" => Reached(dag.release, dag.task)

StepReached ==
    /\ InTask("train", "publish") => interim # Unpublished /\ interim.status = "PASSED"
    /\ InTask("package", "publish") => dag.release \in artifacts["train"]
    /\ InTask("train", "log") \/ InTask("train", "end") => dag.release \in artifacts["train"]
    /\ InTask("train", "finish") => Trained(dag.release)
    /\ InTask("package", "finish") => dag.release \in artifacts["package"]
    /\ InTask("benchmark", "finish") => dag.release \in artifacts["benchmark"]

RegistrationServes ==
    /\ registration.pc # "idle" =>
          /\ InTask("register", "running")
          /\ registration.release = dag.release
          /\ dag.release \in artifacts["package"]
    /\ registration.pc = "ok" => VersionsOf(registration.release) # {}
    /\ registration.pc \in {"finish", "undo"} =>
          registration.version \in VersionsOf(registration.release)

ResultsSound ==
    /\ artifacts["package"] \subseteq artifacts["train"]
    /\ artifacts["train"] # {} => interim # Unpublished /\ interim.status = "PASSED"
    /\ \A v \in DOMAIN versions : versions[v].release \in artifacts["package"]
    /\ \A r \in succeeded : Reached(r, "none")

BuildInv ==
    /\ PipelineTypeOK
    /\ DagReached
    /\ StepReached
    /\ RegistrationServes
    /\ ResultsSound

ReleaseInv == RegistryInv /\ Unique /\ AliasesStand /\ DataInv /\ BuildInv

(* Results only accumulate.                                                *)
ResultsGrow ==
    /\ \A t \in Publishing : artifacts[t] \subseteq artifacts'[t]
    /\ tracked \subseteq tracked'
    /\ tracking' = tracking
    /\ \A r : VersionsOf(r) \subseteq VersionsOf(r)'

(* What a run has behind it stays there, since results only accumulate.    *)
LEMMA ReachedStays ==
    ASSUME ResultsGrow, NEW r, NEW task, Reached(r, task)
    PROVE  Reached(r, task)'
BY DEF ResultsGrow, Reached, Trained, Publishing

(* The versions: the registration adds one of its own release, and nothing *)
(* else changes what release a version is of.                              *)
LEMMA VersionsGrow ==
    ASSUME RegistryInv, [RegistryNext]_registryVars
    PROVE  /\ \A r : VersionsOf(r) \subseteq VersionsOf(r)'
           /\ \A v \in DOMAIN versions' :
                 \/ v \in DOMAIN versions /\ versions'[v].release = versions[v].release
                 \/ registration.pc = "create" /\ versions'[v].release = registration.release
<1>1. CASE \E to \in {"finish", "undo"} : CreateVersion(to)
  <2> DEFINE new == CandidateVersion(registration.release)
  <2>1. versions' = Append(versions, new) /\ registration.pc = "create"
    BY <1>1 DEF CreateVersion
  <2>2. new.release = registration.release
    BY DEF CandidateVersion
  <2>3. PICK n \in Nat : n = Len(versions) /\ DOMAIN versions = 1 .. n
    BY DEF RegistryInv, TypeOK
  <2> HIDE DEF new
  <2>4. /\ DOMAIN versions' = 1 .. n + 1 /\ versions'[n + 1] = new
        /\ \A v \in 1 .. n : versions'[v] = versions[v]
    BY <2>1, <2>3 DEF RegistryInv, TypeOK
  <2>5. \A v \in 1 .. n + 1 : v \in 1 .. n \/ v = n + 1
    BY <2>3
  <2>6. \A v \in 1 .. n : v \in 1 .. n + 1
    BY <2>3
  <2> QED
    BY <2>1, <2>2, <2>3, <2>4, <2>5, <2>6 DEF VersionsOf
<1>2. CASE ~\E to \in {"finish", "undo"} : CreateVersion(to)
  <2>1. /\ DOMAIN versions' = DOMAIN versions
        /\ \A v \in DOMAIN versions : versions'[v].release = versions[v].release
    BY <1>2, VersionSteps, ReleasesStay
  <2> QED
    BY <2>1 DEF VersionsOf
<1> QED
  BY <1>1, <1>2

(* A step that leaves the run and its registration where they are.         *)
LEMMA BuildStands ==
    ASSUME BuildInv, InterimStays, ResultsGrow,
           UNCHANGED <<dag, started, succeeded, artifacts, tracked, registration>>,
           granted' \in BOOLEAN,
           \A v \in DOMAIN versions' :
               v \in DOMAIN versions /\ versions'[v].release = versions[v].release
    PROVE  BuildInv'
<1>1. PipelineTypeOK'
  BY DEF BuildInv, PipelineTypeOK, ResultsGrow
<1>2. DagReached'
  BY ReachedStays DEF BuildInv, DagReached, Running
<1>3. StepReached'
  BY DEF BuildInv, StepReached, InTask, InterimStays, Trained, ResultsGrow
<1>4. RegistrationServes'
  BY DEF BuildInv, RegistrationServes, InTask, ResultsGrow
<1>5. ResultsSound'
  BY ReachedStays DEF BuildInv, ResultsSound, InterimStays
<1> QED
  BY <1>1, <1>2, <1>3, <1>4, <1>5 DEF BuildInv

(* A step of the registration keeps what runs and results promise.         *)
LEMMA RegistrationStepBuilds ==
    ASSUME RegistryInv, BuildInv, InterimStays, ResultsGrow, RegistrationStep,
           \A v \in DOMAIN versions' :
              \/ v \in DOMAIN versions /\ versions'[v].release = versions[v].release
              \/ registration.pc = "create" /\ versions'[v].release = registration.release
    PROVE  BuildInv'
<1>1. UNCHANGED pipelineVars /\ Register
  BY DEF RegistrationStep
<1>2. UNCHANGED <<dag, started, succeeded, artifacts, tracked, granted, tracking>>
  BY <1>1 DEF pipelineVars, resultVars, settingVars
<1>3. registration \in Registration
  BY DEF RegistryInv, TypeOK
<1>4. PipelineTypeOK'
  BY <1>2 DEF BuildInv, PipelineTypeOK
<1>5. DagReached'
  BY <1>2, ReachedStays DEF BuildInv, DagReached, Running
<1>6. StepReached'
  BY <1>2 DEF BuildInv, StepReached, InTask, InterimStays, Trained
<1>7. /\ registration.pc # "idle"
      /\ InTask("register", "running")
      /\ registration.release = dag.release
      /\ dag.release \in artifacts["package"]
  <2>1. registration.pc # "idle"
    BY <1>1 DEF Register, FindRelease, CreateVersion, FinishSource, MarkSourceFailed,
                RegistrationBreaks
  <2> QED
    BY <2>1 DEF BuildInv, RegistrationServes
<1>8. registration'.release = registration.release
  <2>1. CASE FindRelease
    BY <1>3, <2>1 DEF FindRelease, Registration
  <2>2. CASE \E to \in {"finish", "undo"} : CreateVersion(to)
    BY <1>3, <2>2 DEF CreateVersion, Registration
  <2>3. CASE \/ \E to \in {"ok", "undo"} : FinishSource(to)
             \/ MarkSourceFailed
             \/ \E to \in {"undo", "error"} : RegistrationBreaks(to)
    BY <1>3, <2>3 DEF FinishSource, MarkSourceFailed, RegistrationBreaks, Registration
  <2> QED
    BY <1>1, <2>1, <2>2, <2>3 DEF Register
<1>9. /\ registration'.pc = "ok" => VersionsOf(registration.release)' # {}
      /\ registration'.pc \in {"finish", "undo"} =>
            registration'.version \in VersionsOf(registration.release)'
  <2>1. CASE FindRelease
    <3>1. PICK pc : pc = CASE Cardinality(Found(registration.release)) = 0 -> "create"
                           [] Cardinality(Found(registration.release)) = 1 -> "ok"
                           [] OTHER -> "error"
      OBVIOUS
    <3>2. registration' = [registration EXCEPT !.pc = pc]
      BY <2>1, <3>1 DEF FindRelease
    <3>3. registration'.pc = pc
      BY <1>3, <3>2 DEF Registration
    <3>4. pc \in {"create", "ok", "error"}
      BY <3>1
    <3>5. pc = "ok" => Cardinality(VersionsOf(registration.release)) = 1
      BY <3>1 DEF Found
    <3>6. pc = "ok" => VersionsOf(registration.release) # {}
      BY <3>5, FS_EmptySet
    <3> QED
      BY <1>8, <3>3, <3>4, <3>6 DEF ResultsGrow
  <2>2. ASSUME NEW to \in {"finish", "undo"}, CreateVersion(to)
        PROVE  /\ registration'.pc = to
               /\ registration'.version \in VersionsOf(registration.release)'
    <3> DEFINE new == CandidateVersion(registration.release)
    <3>1. /\ versions' = Append(versions, new)
          /\ registration' = [registration EXCEPT !.pc = to, !.version = Len(versions) + 1]
      BY <2>2 DEF CreateVersion
    <3>2. registration'.pc = to /\ registration'.version = Len(versions) + 1
      BY <1>3, <3>1 DEF Registration
    <3>3. new.release = registration.release
      BY DEF CandidateVersion
    <3> HIDE DEF new
    <3>4. Len(versions) + 1 \in DOMAIN versions' /\ versions'[Len(versions) + 1] = new
      BY <3>1 DEF RegistryInv, TypeOK
    <3> QED
      BY <1>8, <3>2, <3>3, <3>4 DEF VersionsOf
  <2>3. CASE \/ \E to \in {"ok", "undo"} : FinishSource(to)
             \/ MarkSourceFailed
             \/ \E to \in {"undo", "error"} : RegistrationBreaks(to)
    <3>1. PICK to \in {"ok", "undo", "error"} :
              /\ registration' = [registration EXCEPT !.pc = to]
              /\ to \in {"ok", "undo"} => registration.pc \in {"finish", "undo"}
      BY <2>3 DEF FinishSource, MarkSourceFailed, RegistrationBreaks
    <3>2. registration'.pc = to /\ registration'.version = registration.version
      BY <1>3, <3>1 DEF Registration
    <3>3. to \in {"ok", "undo"} =>
              registration.version \in VersionsOf(registration.release)
      BY <3>1 DEF BuildInv, RegistrationServes
    <3> QED
      BY <1>8, <3>2, <3>3 DEF ResultsGrow
  <2> QED
    BY <1>1, <2>1, <2>2, <2>3 DEF Register
<1>10. RegistrationServes'
  BY <1>2, <1>7, <1>8, <1>9 DEF RegistrationServes, InTask, VersionsOf
<1>11. ResultsSound'
  BY <1>2, <1>7, ReachedStays DEF BuildInv, ResultsSound, InterimStays
<1> QED
  BY <1>4, <1>5, <1>6, <1>10, <1>11 DEF BuildInv

-----------------------------------------------------------------------------
(* The tasks.                                                              *)

DagType ==
    [release : Releases \cup {NoRelease}, task : Tasks \cup {"none"}, tries : 0..Tries,
     step : {"queued", "running", "publish", "log", "end", "finish"}]

Queued ==
    /\ dag \in DagType
    /\ dag.step = "queued"
    /\ dag.task \in Tasks
    /\ dag.tries > 0
    /\ dag.release \in Releases
    /\ dag.release \in started
    /\ Reached(dag.release, dag.task)

(* A task is queued, or the run is over: nothing is half done.             *)
LEMMA QueuedBuilds ==
    ASSUME BuildInv, InterimStays,
           UNCHANGED <<versions, artifacts, tracked, granted, tracking>>,
           registration'.pc = "idle", dag' = NoRun \/ Queued',
           started' \subseteq Releases, started \subseteq started',
           succeeded' \subseteq started',
           \A r \in succeeded' : r \in succeeded \/ Reached(r, "none")
    PROVE  BuildInv'
<1>1. ResultsGrow
  BY DEF ResultsGrow, VersionsOf
<1>2. dag' \in DagType /\ (dag'.task # "none" => dag'.tries > 0)
  <2>1. NoRun \in DagType /\ NoRun.task = "none"
    BY PipelineAssumption DEF NoRun, DagType
  <2> QED
    BY <2>1 DEF Queued
<1>3. PipelineTypeOK'
  BY <1>2 DEF BuildInv, PipelineTypeOK, DagType
<1>4. dag'.step = "queued" /\ (dag'.task # "none" => Queued')
  BY DEF NoRun, Queued
<1>5. DagReached'
  BY <1>4 DEF DagReached, Running, Queued
<1>6. StepReached'
  BY <1>4 DEF StepReached, InTask
<1>7. RegistrationServes'
  BY DEF RegistrationServes
<1>8. \A r \in succeeded' : Reached(r, "none")'
  BY <1>1, ReachedStays DEF BuildInv, ResultsSound
<1>9. ResultsSound'
  BY <1>8 DEF BuildInv, ResultsSound, InterimStays
<1> QED
  BY <1>3, <1>5, <1>6, <1>7, <1>9 DEF BuildInv

(* A task that fails keeps what runs and results promise.                  *)
LEMMA FailedBuilds ==
    ASSUME BuildInv, InterimStays,
           UNCHANGED <<versions, started, artifacts, tracked, granted, tracking>>,
           registration'.pc = "idle", dag.task # "none", TaskFails
    PROVE  BuildInv'
<1>1. PICK old \in DagType : old = dag
  BY DEF BuildInv, PipelineTypeOK, DagType
<1>2. old.tries \in Nat /\ old.tries <= Tries /\ Tries \in Nat
  BY PipelineAssumption DEF DagType
<1>3. CASE dag' = NoRun
  BY <1>3, QueuedBuilds DEF TaskFails, BuildInv, PipelineTypeOK
<1>4. CASE dag' # NoRun
  <2> DEFINE new == [old EXCEPT !.tries = old.tries - 1, !.step = "queued"]
  <2>1. dag' = new /\ old.tries > 1
    BY <1>1, <1>4 DEF TaskFails
  <2>2. new \in DagType /\ new.tries > 0
    <3>1. PICK left : left = old.tries - 1 /\ left \in 0 .. Tries /\ left > 0
      BY <1>2, <2>1
    <3>2. new.tries = left /\ [old EXCEPT !.tries = left, !.step = "queued"] \in DagType
      BY <3>1 DEF DagType
    <3> QED
      BY <3>1, <3>2
  <2>3. new.step = "queued" /\ new.release = old.release /\ new.task = old.task
    BY DEF DagType
  <2> HIDE DEF new
  <2>4. Reached(new.release, new.task)'
    BY <1>1, <2>1, <2>3 DEF BuildInv, DagReached, Reached, Trained, VersionsOf
  <2>5. old.task \in Tasks /\ old.release \in Releases /\ old.release \in started
    BY <1>1 DEF BuildInv, DagReached, Running, DagType
  <2>6. Queued'
    BY <2>1, <2>2, <2>3, <2>4, <2>5 DEF Queued
  <2> QED
    BY <2>6, QueuedBuilds DEF TaskFails, BuildInv, PipelineTypeOK
<1> QED
  BY <1>3, <1>4

(* A task that succeeds hands its run to the next task with all that one   *)
(* builds on.                                                              *)
LEMMA SucceededBuilds ==
    ASSUME BuildInv, InterimStays,
           UNCHANGED <<versions, started, artifacts, tracked, granted, tracking>>,
           registration'.pc = "idle", dag.task # "none", TaskSucceeds,
           Reached(dag.release, NextTask[dag.task])
    PROVE  BuildInv'
<1>1. PICK old \in DagType : old = dag
  BY DEF BuildInv, PipelineTypeOK, DagType
<1>2. old.task \in Tasks /\ old.release \in Releases /\ old.release \in started
  BY <1>1 DEF BuildInv, DagReached, Running, DagType
<1>3. CASE old.task = "review"
  <2>1. dag' = NoRun /\ succeeded' = succeeded \cup {old.release}
    BY <1>1, <1>3 DEF TaskSucceeds
  <2>2. Reached(old.release, "none")
    BY <1>1, <1>3 DEF NextTask
  <2> QED
    BY <1>2, <2>1, <2>2, QueuedBuilds DEF BuildInv, PipelineTypeOK
<1>4. CASE old.task # "review"
  <2> DEFINE new == [old EXCEPT !.task = NextTask[old.task], !.tries = Tries,
                                !.step = "queued"]
  <2>1. dag' = new /\ UNCHANGED succeeded
    BY <1>1, <1>4 DEF TaskSucceeds
  <2>2. NextTask[old.task] \in Tasks
    BY <1>2, <1>4 DEF NextTask, Tasks
  <2>3. new \in DagType /\ new.tries > 0
    <3>1. Tries \in 0 .. Tries /\ Tries > 0
      BY PipelineAssumption
    <3>2. PICK task \in Tasks : task = NextTask[old.task]
      BY <2>2
    <3>3. [old EXCEPT !.task = task, !.tries = Tries, !.step = "queued"] \in DagType
      BY <3>1 DEF DagType
    <3>4. new.tries = Tries
      BY DEF DagType
    <3> QED
      BY <3>1, <3>2, <3>3, <3>4
  <2>4. new.step = "queued" /\ new.release = old.release /\ new.task = NextTask[old.task]
    BY DEF DagType
  <2> HIDE DEF new
  <2>5. Reached(new.release, new.task)'
    BY <1>1, <2>1, <2>4 DEF Reached, Trained, VersionsOf
  <2>6. Queued'
    BY <1>2, <2>1, <2>2, <2>3, <2>4, <2>5 DEF Queued
  <2> QED
    BY <2>1, <2>6, QueuedBuilds DEF BuildInv, PipelineTypeOK
<1> QED
  BY <1>3, <1>4

(* The task goes on to its next step.                                      *)
LEMMA StepBuilds ==
    ASSUME BuildInv, InterimStays, ResultsGrow,
           UNCHANGED <<versions, started, succeeded, granted, tracking>>,
           NEW to \in {"running", "publish", "log", "end", "finish"},
           dag' = [dag EXCEPT !.step = to], dag.task # "none",
           artifacts' \in [Publishing -> SUBSET Releases], tracked' \subseteq Releases,
           StepReached', RegistrationServes',
           artifacts'["package"] \subseteq artifacts'["train"],
           artifacts'["train"] # {} => interim # Unpublished /\ interim.status = "PASSED"
    PROVE  BuildInv'
<1>1. PICK old \in DagType : old = dag
  BY DEF BuildInv, PipelineTypeOK, DagType
<1>2. /\ dag' \in DagType /\ dag'.task = old.task /\ dag'.release = old.release
      /\ dag'.tries = old.tries
  BY <1>1 DEF DagType
<1>3. PipelineTypeOK'
  BY <1>1, <1>2 DEF BuildInv, PipelineTypeOK, DagType
<1>4. DagReached'
  BY <1>1, <1>2, ReachedStays DEF BuildInv, DagReached, Running
<1>5. ResultsSound'
  <2>1. \A v \in DOMAIN versions : versions[v].release \in artifacts'["package"]
    BY DEF BuildInv, ResultsSound, ResultsGrow, Publishing
  <2>2. \A r \in succeeded : Reached(r, "none")'
    BY ReachedStays DEF BuildInv, ResultsSound
  <2> QED
    BY <2>1, <2>2 DEF ResultsSound, InterimStays
<1> QED
  BY <1>3, <1>4, <1>5 DEF BuildInv

(* Outside the register task no registration is running.                   *)
LEMMA NotRegistering ==
    ASSUME BuildInv, ~InTask("register", "running")
    PROVE  registration.pc = "idle"
BY DEF BuildInv, RegistrationServes

(* A step within a task changes neither the task nor the release.          *)
LEMMA DagIsTyped ==
    ASSUME BuildInv, NEW to, dag' = [dag EXCEPT !.step = to]
    PROVE  dag'.step = to /\ dag'.task = dag.task /\ dag'.release = dag.release
<1>1. PICK old \in DagType : old = dag
  BY DEF BuildInv, PipelineTypeOK, DagType
<1> QED
  BY <1>1 DEF DagType

(* The prepare task keeps what runs and results promise.                   *)
LEMMA PrepareTaskBuilds ==
    ASSUME BuildInv, InterimStays, StartPrepareTask \/ EndPrepareTask
    PROVE  BuildInv'
<1>1. /\ UNCHANGED <<versions, started, artifacts, tracked, granted, tracking, registration>>
      /\ dag.task = "prepare"
  BY DEF StartPrepareTask, EndPrepareTask, InTask, registryVars, resultVars, settingVars
<1>2. registration.pc = "idle"
  BY <1>1, NotRegistering DEF InTask
<1>3. CASE StartPrepareTask
  <2>1. dag' = [dag EXCEPT !.step = "running"] /\ UNCHANGED succeeded
    BY <1>3 DEF StartPrepareTask, Step
  <2>2. dag'.step = "running"
    BY <2>1, DagIsTyped
  <2>3. StepReached'
    BY <2>2 DEF StepReached, InTask
  <2>4. RegistrationServes'
    BY <1>1, <1>2 DEF RegistrationServes
  <2>5. ResultsGrow
    BY <1>1 DEF ResultsGrow, VersionsOf
  <2> QED
    BY <1>1, <2>1, <2>3, <2>4, <2>5, StepBuilds DEF BuildInv, PipelineTypeOK, ResultsSound
<1>4. CASE EndPrepareTask
  <2>1. Reached(dag.release, NextTask[dag.task])
    BY <1>1 DEF NextTask, Reached
  <2>2. TaskSucceeds \/ TaskFails
    BY <1>4 DEF EndPrepareTask
  <2> QED
    BY <1>1, <1>2, <2>1, <2>2, SucceededBuilds, FailedBuilds
<1> QED
  BY <1>3, <1>4

(* The register task keeps what runs and results promise: its success is   *)
(* the registration's.                                                     *)
LEMMA RegisterTaskBuilds ==
    ASSUME RegistryInv, BuildInv, InterimStays,
           StartRegisterTask \/ RegisterTaskRefused \/ EndRegisterTask
    PROVE  BuildInv'
<1>1. /\ UNCHANGED <<versions, started, artifacts, tracked, granted, tracking>>
      /\ dag.task = "register"
  BY DEF StartRegisterTask, StartRegistration, RegisterTaskRefused, EndRegisterTask,
         EndRegistration, InTask, registryVars, resultVars, settingVars
<1>2. CASE StartRegisterTask
  <2>1. /\ dag' = [dag EXCEPT !.step = "running"] /\ UNCHANGED succeeded
        /\ dag.release \in artifacts["package"]
        /\ registration' = [pc |-> "find", release |-> dag.release, version |-> 0]
    BY <1>2 DEF StartRegisterTask, StartRegistration, Step
  <2>2. dag'.step = "running" /\ dag'.task = "register" /\ dag'.release = dag.release
    BY <1>1, <2>1, DagIsTyped
  <2>3. StepReached'
    BY <2>2 DEF StepReached, InTask
  <2>4. RegistrationServes'
    BY <1>1, <2>1, <2>2 DEF RegistrationServes, InTask
  <2>5. ResultsGrow
    BY <1>1 DEF ResultsGrow, VersionsOf
  <2> QED
    BY <1>1, <2>1, <2>3, <2>4, <2>5, StepBuilds DEF BuildInv, PipelineTypeOK, ResultsSound
<1>3. CASE RegisterTaskRefused
  <2>1. registration.pc = "idle" /\ UNCHANGED registration
    BY <1>3, NotRegistering DEF RegisterTaskRefused, InTask, registryVars
  <2> QED
    BY <1>1, <1>3, <2>1, FailedBuilds DEF RegisterTaskRefused
<1>4. CASE EndRegisterTask
  <2>1. registration'.pc = "idle"
    BY <1>4 DEF EndRegisterTask, EndRegistration, NoRegistration
  <2>2. CASE registration.pc = "ok"
    <3>1. VersionsOf(dag.release) # {} /\ dag.release \in artifacts["package"]
      BY <2>2 DEF BuildInv, RegistrationServes
    <3>2. Reached(dag.release, NextTask[dag.task])
      BY <1>1, <3>1 DEF NextTask, Reached, BuildInv, DagReached
    <3>3. TaskSucceeds
      BY <1>4, <2>2 DEF EndRegisterTask
    <3> QED
      BY <1>1, <2>1, <3>2, <3>3, SucceededBuilds
  <2>3. CASE registration.pc # "ok"
    <3>1. TaskFails
      BY <1>4, <2>3 DEF EndRegisterTask
    <3> QED
      BY <1>1, <2>1, <3>1, FailedBuilds
  <2> QED
    BY <2>2, <2>3
<1> QED
  BY <1>2, <1>3, <1>4

(* The review keeps what runs and results promise.                         *)
LEMMA ReviewBuilds ==
    ASSUME BuildInv, InterimStays, Review \/ ReviewTimesOut
    PROVE  BuildInv'
<1>1. /\ UNCHANGED <<versions, started, artifacts, tracked, granted, tracking, registration>>
      /\ dag.task = "review"
  BY DEF Review, ReviewTimesOut, InTask, registryVars, resultVars, settingVars
<1>2. registration.pc = "idle"
  BY <1>1, NotRegistering DEF InTask
<1>3. CASE Review
  <2>1. Reached(dag.release, NextTask[dag.task])
    BY <1>1 DEF NextTask, Reached, BuildInv, DagReached
  <2> QED
    BY <1>1, <1>2, <1>3, <2>1, SucceededBuilds DEF Review
<1>4. CASE ReviewTimesOut
  BY <1>1, <1>2, <1>4, QueuedBuilds DEF ReviewTimesOut, BuildInv, PipelineTypeOK
<1> QED
  BY <1>3, <1>4

(* A new run starts with a release that has no results yet.                *)
LEMMA RunStartsBuilds ==
    ASSUME BuildInv, InterimStays, RunStarts
    PROVE  BuildInv'
<1>1. PICK r \in Releases : StartRun(r)
  BY DEF RunStarts, StartRun
<1>2. /\ UNCHANGED <<versions, artifacts, tracked, granted, tracking, registration, succeeded>>
      /\ dag.task = "none" /\ started' = started \cup {r}
      /\ dag' = [release |-> r, task |-> "prepare", tries |-> Tries, step |-> "queued"]
  BY <1>1 DEF StartRun, NoRun, registryVars, resultVars, settingVars
<1>3. registration.pc = "idle"
  BY <1>2, NotRegistering DEF InTask
<1>4. Tries \in 0 .. Tries /\ Tries > 0
  BY PipelineAssumption
<1>5. Queued'
  BY <1>2, <1>4 DEF Queued, DagType, Tasks, Reached
<1> QED
  BY <1>2, <1>3, <1>5, QueuedBuilds DEF BuildInv, PipelineTypeOK

(* Training, packaging and benchmarking keep what runs and results         *)
(* promise.                                                                *)
LEMMA PublishingBuilds ==
    ASSUME DataInv, BuildInv, InterimStays,
           \/ StartPublishingTask \/ PublishResult \/ LogRuns \/ EndComparison
           \/ FinishPublishingTask \/ PublishingTaskFails
    PROVE  BuildInv'
<1>1. /\ UNCHANGED <<versions, started, granted, tracking, registration>>
      /\ dag.task \in Publishing
  BY DEF StartPublishingTask, PublishResult, LogRuns, EndComparison, FinishPublishingTask,
         PublishingTaskFails, InTask, Publishing, registryVars, resultVars, settingVars
<1>2. dag.task \in {"train", "package", "benchmark"} /\ dag.task # "none"
  BY <1>1 DEF Publishing
<1>3. registration.pc = "idle" /\ RegistrationServes'
  <2>1. registration.pc = "idle"
    BY <1>2, NotRegistering DEF InTask
  <2> QED
    BY <1>1, <2>1 DEF RegistrationServes
<1>4. /\ artifacts \in [Publishing -> SUBSET Releases] /\ tracked \subseteq Releases
      /\ artifacts["package"] \subseteq artifacts["train"]
      /\ artifacts["train"] # {} => interim # Unpublished /\ interim.status = "PASSED"
      /\ dag.release \in Releases
      /\ Reached(dag.release, dag.task)
  BY <1>2 DEF BuildInv, PipelineTypeOK, ResultsSound, DagReached, Running
<1>5. ASSUME UNCHANGED <<artifacts, tracked>> PROVE ResultsGrow
  BY <1>1, <1>5 DEF ResultsGrow, VersionsOf
<1>6. CASE StartPublishingTask
  <2>1. UNCHANGED <<artifacts, tracked>>
    BY <1>6 DEF StartPublishingTask, resultVars
  <2>2. CASE TaskFails
    BY <1>1, <1>2, <1>3, <2>1, <2>2, FailedBuilds
  <2>3. CASE ~TaskFails
    <3>1. /\ dag' = [dag EXCEPT !.step = "publish"] /\ UNCHANGED succeeded
          /\ Needs(dag.task, dag.release)
      BY <1>6, <2>3 DEF StartPublishingTask, Step
    <3>2. dag'.step = "publish" /\ dag'.task = dag.task /\ dag'.release = dag.release
      BY <3>1, DagIsTyped
    <3>3. dag.task = "train" => interim # Unpublished /\ interim.status = "PASSED"
      BY <3>1, TrainableIsPassed DEF Needs
    <3>4. dag.task = "package" => dag.release \in artifacts["train"]
      BY <3>1 DEF Needs
    <3>5. StepReached'
      BY <2>1, <3>2, <3>3, <3>4 DEF StepReached, InTask, InterimStays
    <3> QED
      BY <1>1, <1>2, <1>3, <1>4, <1>5, <2>1, <3>1, <3>5, StepBuilds
  <2> QED
    BY <2>2, <2>3
<1>7. CASE PublishResult
  <2>1. PICK to \in {"log", "finish"} :
            /\ dag' = [dag EXCEPT !.step = to]
            /\ to = IF dag.task = "train" /\ tracking THEN "log" ELSE "finish"
    BY <1>7 DEF PublishResult, Step
  <2>2. /\ dag.step = "publish" /\ UNCHANGED <<succeeded, tracked>>
        /\ artifacts' = [artifacts EXCEPT ![dag.task] = @ \cup {dag.release}]
    BY <1>7 DEF PublishResult
  <2>3. dag'.step = to /\ dag'.task = dag.task /\ dag'.release = dag.release
    BY <2>1, DagIsTyped
  <2>4. /\ artifacts' \in [Publishing -> SUBSET Releases]
        /\ \A t \in Publishing :
              artifacts'[t] = IF t = dag.task THEN artifacts[t] \cup {dag.release}
                                              ELSE artifacts[t]
    BY <1>1, <1>4, <2>2
  <2>5. ResultsGrow
    BY <1>1, <2>2, <2>4 DEF ResultsGrow, VersionsOf
  <2>6. /\ dag.task = "train" => interim # Unpublished /\ interim.status = "PASSED"
        /\ dag.task = "package" => dag.release \in artifacts["train"]
    BY <2>2 DEF BuildInv, StepReached, InTask
  <2>7. /\ artifacts'["package"] \subseteq artifacts'["train"]
        /\ artifacts'["train"] # {} => interim # Unpublished /\ interim.status = "PASSED"
    BY <1>4, <2>4, <2>6 DEF Publishing
  <2>8. dag.release \in artifacts'[dag.task]
    BY <1>1, <2>4
  <2>9. StepReached'
    BY <1>1, <2>1, <2>3, <2>8 DEF StepReached, InTask, Trained
  <2> QED
    BY <1>1, <1>2, <1>3, <2>1, <2>2, <1>4, <2>4, <2>5, <2>7, <2>9, StepBuilds
<1>8. CASE LogRuns
  <2>1. /\ dag' = [dag EXCEPT !.step = "end"] /\ dag.task = "train" /\ dag.step = "log"
        /\ UNCHANGED <<succeeded, artifacts, tracked>>
    BY <1>8 DEF LogRuns, InTask, Step, resultVars
  <2>2. dag'.step = "end" /\ dag'.task = dag.task /\ dag'.release = dag.release
    BY <2>1, DagIsTyped
  <2>3. StepReached'
    BY <2>1, <2>2 DEF StepReached, InTask, BuildInv
  <2> QED
    BY <1>1, <1>2, <1>3, <1>4, <1>5, <2>1, <2>3, StepBuilds
<1>9. CASE EndComparison
  <2>1. /\ dag' = [dag EXCEPT !.step = "finish"] /\ dag.task = "train" /\ dag.step = "end"
        /\ tracked' = tracked \cup {dag.release} /\ UNCHANGED <<succeeded, artifacts>>
    BY <1>9 DEF EndComparison, InTask, Step
  <2>2. dag'.step = "finish" /\ dag'.task = dag.task /\ dag'.release = dag.release
    BY <2>1, DagIsTyped
  <2>3. dag.release \in artifacts["train"]
    BY <2>1 DEF BuildInv, StepReached, InTask
  <2>4. StepReached'
    BY <2>1, <2>2, <2>3 DEF StepReached, InTask, Trained
  <2>5. ResultsGrow
    BY <1>1, <2>1 DEF ResultsGrow, VersionsOf
  <2> QED
    BY <1>1, <1>2, <1>3, <1>4, <2>1, <2>4, <2>5, StepBuilds
<1>10. CASE FinishPublishingTask
  <2>1. /\ dag.step = "finish" /\ TaskSucceeds /\ UNCHANGED <<artifacts, tracked>>
    BY <1>10 DEF FinishPublishingTask, resultVars
  <2>2. CASE dag.task = "train"
    BY <1>1, <1>2, <1>3, <2>1, <2>2, SucceededBuilds
       DEF BuildInv, StepReached, InTask, Reached, NextTask
  <2>3. CASE dag.task = "package"
    BY <1>1, <1>2, <1>3, <1>4, <2>1, <2>3, SucceededBuilds
       DEF BuildInv, StepReached, InTask, Reached, NextTask
  <2>4. CASE dag.task = "benchmark"
    BY <1>1, <1>2, <1>3, <1>4, <2>1, <2>4, SucceededBuilds
       DEF BuildInv, StepReached, InTask, Reached, NextTask
  <2> QED
    BY <1>2, <2>2, <2>3, <2>4
<1>11. CASE PublishingTaskFails
  <2>1. TaskFails /\ UNCHANGED <<artifacts, tracked>>
    BY <1>11 DEF PublishingTaskFails, resultVars
  <2> QED
    BY <1>1, <1>2, <1>3, <2>1, FailedBuilds
<1> QED
  BY <1>6, <1>7, <1>8, <1>9, <1>10, <1>11

(* The steps that leave the run alone: preparers, operators and workers.   *)
LEMMA OthersBuild ==
    ASSUME RegistryInv, BuildInv, InterimStays, [Next]_allVars,
           ~PipelineStep, ~RegistrationStep, ~RunStarts
    PROVE  BuildInv'
<1>1. /\ UNCHANGED <<dag, started, succeeded, artifacts, tracked, tracking, registration>>
      /\ granted' = granted \/ granted' \in BOOLEAN
  <2>1. CASE UNCHANGED allVars
    BY <2>1 DEF allVars, vars, registryVars, pipelineVars, resultVars, settingVars
  <2>2. CASE EngineerActs \/ FilesDamaged \/ SchedulerPrepares
    BY <2>2 DEF EngineerActs, FilesDamaged, SchedulerPrepares, registryVars, pipelineVars,
                resultVars, settingVars
  <2>3. CASE ReviewerActs
    BY <2>3 DEF ReviewerActs, SetGranted, registryVars, resultVars
  <2>4. CASE OperatorOrWorker
    BY <2>4, OperatorsLeaveRegistration
       DEF OperatorOrWorker, pipelineVars, resultVars, settingVars
  <2> QED
    BY <2>1, <2>2, <2>3, <2>4 DEF Next
<1>2. Running
  BY DEF BuildInv, DagReached
<1>3. /\ \A r : VersionsOf(r) \subseteq VersionsOf(r)'
      /\ \A v \in DOMAIN versions' :
            \/ v \in DOMAIN versions /\ versions'[v].release = versions[v].release
            \/ registration.pc = "create" /\ versions'[v].release = registration.release
  BY <1>2, PipelineUsesRegistry, VersionsGrow
<1>4. ResultsGrow
  BY <1>1, <1>3 DEF ResultsGrow
<1>5. \A v \in DOMAIN versions' :
          v \in DOMAIN versions /\ versions'[v].release = versions[v].release
  <2>1. ~\E to \in {"finish", "undo"} : CreateVersion(to)
    <3> SUFFICES ASSUME NEW to \in {"finish", "undo"}, CreateVersion(to) PROVE FALSE
      OBVIOUS
    <3>1. registration'.pc = to /\ registration.pc = "create"
      BY DEF CreateVersion, RegistryInv, TypeOK, Registration
    <3> QED
      BY <1>1, <3>1
  <2>2. /\ DOMAIN versions' = DOMAIN versions
        /\ \A v \in DOMAIN versions : versions'[v].release = versions[v].release
    BY <1>2, <2>1, PipelineUsesRegistry, VersionSteps, ReleasesStay
  <2> QED
    BY <2>2
<1> QED
  BY <1>1, <1>4, <1>5, BuildStands DEF BuildInv, PipelineTypeOK

(* Every step of the whole pipeline keeps the invariant and any            *)
(* publication.                                                            *)
LEMMA ReleaseStepKeeps ==
    ASSUME ReleaseInv, [Next]_allVars
    PROVE  ReleaseInv' /\ InterimStays
<1>1. Running
  BY DEF ReleaseInv, BuildInv, DagReached
<1>2. [RegistryNext]_registryVars
  BY <1>1, PipelineUsesRegistry
<1>3. RegistryInv' /\ Unique' /\ AliasesStand'
  BY <1>2, RegistryStepKeeps, UniqueStays, StandStays DEF ReleaseInv, RegistryInv
<1>4. DataInv' /\ InterimStays
  BY PipelineUsesData, DataStays DEF ReleaseInv
<1>5. BuildInv'
  <2>1. CASE RegistrationStep
    <3>1. UNCHANGED <<artifacts, tracked, tracking>>
      BY <2>1 DEF RegistrationStep, pipelineVars, resultVars, settingVars
    <3>2. ResultsGrow
      BY <1>2, <3>1, VersionsGrow DEF ResultsGrow, ReleaseInv
    <3> QED
      BY <1>2, <1>4, <2>1, <3>2, VersionsGrow, RegistrationStepBuilds DEF ReleaseInv
  <2>2. CASE RunStarts
    BY <1>4, <2>2, RunStartsBuilds DEF ReleaseInv
  <2>3. CASE PipelineStep
    BY <1>4, <2>3, PrepareTaskBuilds, RegisterTaskBuilds, PublishingBuilds, ReviewBuilds
       DEF ReleaseInv, PipelineStep
  <2>4. CASE ~RegistrationStep /\ ~RunStarts /\ ~PipelineStep
    BY <1>4, <2>4, OthersBuild DEF ReleaseInv
  <2> QED
    BY <2>1, <2>2, <2>3, <2>4
<1> QED
  BY <1>3, <1>4, <1>5 DEF ReleaseInv

-----------------------------------------------------------------------------
(* The starting situations.                                                *)

LEMMA EmptyStarts == EmptyStart => ReleaseInv
<1> SUFFICES ASSUME EmptyStart PROVE ReleaseInv
  OBVIOUS
<1> USE DEF EmptyStart
<1>1. RegistryInv
  BY RegistryStarts
<1>2. Unique /\ AliasesStand
  BY DEF RegistryInit, Unique, AliasesStand, NoRegistration, NoCommand
<1>3. DataInv
  BY DEF NothingPrepared, DataInv, DataTypeOK, Unpublished, Idle, At
<1>4. NoRun \in DagType
  BY PipelineAssumption DEF NoRun, DagType
<1>5. PipelineTypeOK
  BY <1>4 DEF NothingBuilt, PipelineTypeOK, DagType, NoRun
<1>6. DagReached /\ StepReached /\ ResultsSound
  BY DEF NothingBuilt, NoRun, DagReached, Running, StepReached, InTask, ResultsSound,
         Publishing, RegistryInit
<1>7. RegistrationServes
  BY DEF RegistryInit, NoRegistration, RegistrationServes
<1> QED
  BY <1>1, <1>2, <1>3, <1>5, <1>6, <1>7 DEF ReleaseInv, BuildInv

(* Release 1 is the champion and release 2 is being promoted.              *)
LEMMA ChampionVersions ==
    ASSUME ChampionStart
    PROVE  /\ versions \in Seq(Version) /\ Len(versions) = 2 /\ DOMAIN versions = {1, 2}
           /\ versions[1].release = 1 /\ versions[2].release = 2
           /\ versions[1].approved /\ versions[2].approved
           /\ versions[1].approval_run = 1 /\ versions[2].approval_run = 3
           /\ versions[1].promotion_run = 2 /\ versions[2].promotion_run = 0
<1>1. /\ {1, 2} \subseteq Releases /\ {0, 1, 2, 3} \subseteq DecisionIds
      /\ "FINISHED" \in RunStatus /\ "RUNNING" \in RunStatus
  BY RegistryAssumption, ReleaseAssumption DEF DecisionIds, RunStatus
<1> DEFINE v1 == [CandidateVersion(1) EXCEPT
                    !.source = "FINISHED", !.approved = TRUE, !.approval_run = 1,
                    !.approval_sha = 1, !.promotion_run = 2, !.promotion_sha = 2]
           v2 == [CandidateVersion(2) EXCEPT
                    !.source = "FINISHED", !.approved = TRUE, !.approval_run = 3,
                    !.approval_sha = 3]
<1>2. v1 \in Version /\ v2 \in Version
  BY <1>1 DEF CandidateVersion, Version
<1>3. /\ v1.release = 1 /\ v1.approved /\ v1.approval_run = 1 /\ v1.promotion_run = 2
      /\ v2.release = 2 /\ v2.approved /\ v2.approval_run = 3 /\ v2.promotion_run = 0
  BY DEF CandidateVersion
<1>4. versions = <<v1, v2>>
  BY DEF ChampionStart
<1> HIDE DEF v1, v2
<1> QED
  BY <1>2, <1>3, <1>4

(* The decisions of the second starting situation, one by one.             *)
LEMMA ChampionDecisions ==
    ASSUME ChampionStart
    PROVE  /\ decisions \in Seq(Decision) /\ Len(decisions) = 4 /\ DOMAIN decisions = 1 .. 4
           /\ ConcludedIn(decisions, 1, "approval", 1)
           /\ ConcludedIn(decisions, 2, "promotion", 1) /\ decisions[2].approval = 1
           /\ ConcludedIn(decisions, 3, "approval", 2)
           /\ RecordIn(decisions, 4, "promotion", 2) /\ decisions[4].approval = 3
           /\ decisions[4].status = "RUNNING"
<1>1. /\ {0, 1, 2} \subseteq VersionIds /\ {0, 1, 2, 3} \subseteq DecisionIds
      /\ "FINISHED" \in RunStatus /\ "RUNNING" \in RunStatus
  BY RegistryAssumption, ReleaseAssumption DEF DecisionIds, VersionIds, RunStatus
<1>2. \A kind \in {"approval", "promotion"}, v \in {1, 2}, a \in {0, 1, 3} :
          /\ NewDecision(kind, v, a) \in Decision
          /\ NewDecision(kind, v, a).kind = kind /\ NewDecision(kind, v, a).version = v
          /\ NewDecision(kind, v, a).approval = a
          /\ NewDecision(kind, v, a).status = "RUNNING"
  BY <1>1 DEF NewDecision, Decision
<1>3. \A kind \in {"approval", "promotion"}, v \in {1, 2}, a \in {0, 1, 3} :
          /\ Concluded(kind, v, a) \in Decision
          /\ Concluded(kind, v, a).kind = kind /\ Concluded(kind, v, a).version = v
          /\ Concluded(kind, v, a).approval = a /\ Concluded(kind, v, a).concluded
  BY <1>1 DEF NewDecision, Concluded, Decision
<1>4. PICK d1 \in Decision, d2 \in Decision, d3 \in Decision, d4 \in Decision :
          /\ d1 = Concluded("approval", 1, 0) /\ d2 = Concluded("promotion", 1, 1)
          /\ d3 = Concluded("approval", 2, 0) /\ d4 = NewDecision("promotion", 2, 3)
  BY <1>2, <1>3
<1>5. decisions = <<d1, d2, d3, d4>>
  BY <1>4 DEF ChampionStart
<1>6. /\ decisions \in Seq(Decision) /\ Len(decisions) = 4 /\ DOMAIN decisions = 1 .. 4
      /\ decisions[1] = d1 /\ decisions[2] = d2 /\ decisions[3] = d3 /\ decisions[4] = d4
  BY <1>5
<1> QED
  BY <1>2, <1>3, <1>4, <1>6 DEF ConcludedIn, RecordIn

(* The second starting situation is one the registry can be in: its        *)
(* invariants hold.                                                        *)
LEMMA ChampionRegistry == ChampionStart => RegistryInv /\ Unique /\ AliasesStand
<1> SUFFICES ASSUME ChampionStart PROVE RegistryInv /\ Unique /\ AliasesStand
  OBVIOUS
<1>1. /\ versions \in Seq(Version) /\ Len(versions) = 2 /\ DOMAIN versions = {1, 2}
      /\ versions[1].release = 1 /\ versions[2].release = 2
      /\ versions[1].approved /\ versions[2].approved
      /\ versions[1].approval_run = 1 /\ versions[2].approval_run = 3
      /\ versions[1].promotion_run = 2 /\ versions[2].promotion_run = 0
  BY ChampionVersions
<1>2. /\ decisions \in Seq(Decision) /\ Len(decisions) = 4 /\ DOMAIN decisions = 1 .. 4
      /\ ConcludedIn(decisions, 1, "approval", 1)
      /\ ConcludedIn(decisions, 2, "promotion", 1) /\ decisions[2].approval = 1
      /\ ConcludedIn(decisions, 3, "approval", 2)
      /\ RecordIn(decisions, 4, "promotion", 2) /\ decisions[4].approval = 3
      /\ decisions[4].status = "RUNNING"
  BY ChampionDecisions
<1>3. /\ {0, 1, 2} \subseteq VersionIds /\ {0, 1, 2, 3, 4} \subseteq DecisionIds
      /\ 2 <= MaxVersions /\ 4 <= MaxDecisions
  BY RegistryAssumption, ReleaseAssumption DEF DecisionIds, VersionIds
<1>4. /\ SoundIn(versions, decisions, 1) /\ SoundIn(versions, decisions, 2)
  BY <1>1, <1>2 DEF SoundIn
<1>5. TablesSound(versions, decisions)
  <2>1. \A v \in {1, 2} : VersionSound(versions, decisions, v)
    BY <1>1, <1>2 DEF VersionSound, ConcludedIn
  <2>2. \A d \in 1 .. 4 : d = 1 \/ d = 2 \/ d = 3 \/ d = 4
    OBVIOUS
  <2>3. DecisionSound(decisions, 1) /\ DecisionSound(decisions, 2)
    BY <1>2 DEF DecisionSound, ConcludedIn, RecordIn
  <2>4. DecisionSound(decisions, 3) /\ DecisionSound(decisions, 4)
    BY <1>2 DEF DecisionSound, ConcludedIn, RecordIn
  <2> QED
    BY <1>1, <1>2, <2>1, <2>2, <2>3, <2>4 DEF TablesSound
<1> DEFINE promoting == [pc |-> "set_previous", version |-> 2, run |-> 4, approval |-> 3,
                         old_champion |-> 1, old_previous |-> 0, undisturbed |-> TRUE]
<1>6. \A o \in Operators : command[o] = NoCommand \/ command[o] = promoting
  BY DEF ChampionStart
<1>7. promoting \in Command /\ NoCommand \in Command
  BY <1>3 DEF Command, NoCommand, PromotionWrites
<1>8. Knows(versions, decisions, promoting) /\ Stands(alias, promoting)
  <2>1. Knows(versions, decisions, promoting)
    BY <1>1, <1>2, <1>4 DEF Knows, Late, PromotionWrites, Compensations, ApprovalCalls,
                            PromotionReads
  <2>2. alias["champion"] = 1 /\ alias["previous"] = 0
    BY DEF ChampionStart
  <2> QED
    BY <2>1, <2>2 DEF Stands, AsFound, AsMoved, PreviousStands, Tagging, Displaced
<1>9. Knows(versions, decisions, NoCommand) /\ ~NoCommand.undisturbed
  BY IdleKnows DEF NoCommand
<1>10. command \in [Operators -> Command]
  BY <1>6, <1>7 DEF ChampionStart
<1>11. alias \in [Aliases -> VersionIds]
       /\ \A a \in Aliases : alias[a] # 0 => SoundIn(versions, decisions, alias[a])
  BY <1>3, <1>4 DEF ChampionStart, Aliases
<1>12. worker \in [Workers -> Resolution] /\ \A w \in Workers : Resolved(decisions, worker[w])
  BY NothingResolved DEF ChampionStart
<1>13. registration \in Registration /\ RegistrationKnows(versions, registration)
  BY <1>3 DEF ChampionStart, NoRegistration, Registration, RegistrationKnows
<1> HIDE DEF promoting
<1>14. RegistryInv
  BY <1>1, <1>2, <1>3, <1>5, <1>6, <1>8, <1>9, <1>10, <1>11, <1>12, <1>13
     DEF RegistryInv, TypeOK
<1>15. Unique
  <2>1. registration.pc = "idle"
    BY DEF ChampionStart, NoRegistration
  <2>2. \A u, v \in {1, 2} : versions[u].release = versions[v].release => u = v
    BY <1>1
  <2> QED
    BY <1>1, <2>1, <2>2 DEF Unique
<1>16. AliasesStand
  BY <1>6, <1>8, <1>9 DEF AliasesStand
<1> QED
  BY <1>14, <1>15, <1>16

(* The second starting situation satisfies the invariant.                  *)
LEMMA ChampionStarts == ChampionStart => ReleaseInv
<1> SUFFICES ASSUME ChampionStart PROVE ReleaseInv
  OBVIOUS
<1>1. {1, 2} \subseteq Releases
  BY ReleaseAssumption
<1>2. DataInv
  BY DEF ChampionStart, DataInv, DataTypeOK, Idle, At, Publishable
<1>3. NoRun \in DagType
  BY PipelineAssumption DEF NoRun, DagType
<1>4. PipelineTypeOK
  BY <1>1, <1>3 DEF ChampionStart, PipelineTypeOK, DagType, NoRun
<1>5. DagReached /\ StepReached
  BY DEF ChampionStart, NoRun, DagReached, Running, StepReached, InTask
<1>6. /\ DOMAIN versions = {1, 2} /\ versions[1].release = 1 /\ versions[2].release = 2
  BY ChampionVersions
<1>7. 1 \in VersionsOf(1) /\ 2 \in VersionsOf(2)
  BY <1>6 DEF VersionsOf
<1>8. ResultsSound
  <2>1. /\ \A t \in Publishing : artifacts[t] = {1, 2}
        /\ tracked = {1, 2} /\ succeeded = {1, 2}
        /\ interim = [status |-> "PASSED", intact |-> TRUE]
    BY DEF ChampionStart
  <2>2. \A r \in {1, 2} : Reached(r, "none")
    BY <1>7, <2>1 DEF Reached, Trained, Publishing
  <2> QED
    BY <1>6, <2>1, <2>2 DEF ResultsSound, Publishing, Unpublished
<1>9. RegistrationServes
  BY DEF ChampionStart, NoRegistration, RegistrationServes
<1> QED
  BY <1>2, <1>4, <1>5, <1>8, <1>9, ChampionRegistry DEF ReleaseInv, BuildInv

(* The invariant of the whole pipeline: those of the registry and of the   *)
(* dataset, and that every result and version of a run rests on the ones   *)
(* before.                                                                 *)
THEOREM ReleaseInvariant == Spec => []ReleaseInv
<1>1. Init => ReleaseInv
  BY EmptyStarts, ChampionStarts DEF Init
<1>2. ReleaseInv /\ [Next]_allVars => ReleaseInv'
  BY ReleaseStepKeeps
<1> QED
  BY <1>1, <1>2, PTL DEF Spec

(* The variables of the release pipeline keep their types.                 *)
THEOREM ReleaseTypes == Spec => []AllTypesOK
<1>1. ReleaseInv => AllTypesOK
  BY DEF ReleaseInv, RegistryInv, DataInv, BuildInv, AllTypesOK
<1> QED
  BY <1>1, ReleaseInvariant, PTL

(* A version is only registered from a sound publication of a dataset      *)
(* without warnings, through a training run and a package of its own       *)
(* release: no order of racing preparers, retries, kills and lost answers  *)
(* registers anything else (rul_training_pipeline.py).                     *)
THEOREM OnlySoundDataIsRegistered == Spec => []RegisteredFromSoundData
<1>1. ReleaseInv => RegisteredFromSoundData
  BY DEF ReleaseInv, BuildInv, ResultsSound, RegisteredFromSoundData
<1> QED
  BY <1>1, ReleaseInvariant, PTL

(* A run that ended in success left every result and exactly one version   *)
(* behind, however many attempts its tasks took.                           *)
THEOREM SuccessIsComplete == Spec => []SucceededIsComplete
<1>1. ASSUME ReleaseInv PROVE SucceededIsComplete
  <2> SUFFICES ASSUME NEW r \in succeeded
               PROVE  /\ \A t \in Publishing : r \in artifacts[t]
                      /\ tracking => r \in tracked
                      /\ Cardinality(VersionsOf(r)) = 1
    BY DEF SucceededIsComplete
  <2>1. Reached(r, "none") /\ Unique
    BY <1>1 DEF ReleaseInv, BuildInv, ResultsSound
  <2>2. PICK v : v \in VersionsOf(r)
    BY <2>1 DEF Reached
  <2>3. VersionsOf(r) = {v}
    BY <2>1, <2>2 DEF Unique, VersionsOf
  <2> QED
    BY <2>1, <2>3, FS_Singleton DEF Reached, Trained, Publishing
<1> QED
  BY <1>1, ReleaseInvariant, PTL

(* The publication is immutable: racing or repeated preparers never        *)
(* replace it, whatever state its files are in (prepare_fd001).            *)
THEOREM PublicationIsImmutable == Spec => PublishedOnce
<1>1. ReleaseInv /\ [Next]_allVars =>
          [interim # Unpublished =>
              /\ interim'.status = interim.status
              /\ interim'.intact => interim.intact]_dataVars
  BY ReleaseStepKeeps DEF InterimStays
<1> QED
  BY <1>1, ReleaseInvariant, PTL DEF Spec, PublishedOnce

(* What holds of the registry by itself holds of it in the pipeline, where *)
(* registrations come from retried tasks (register_candidate,              *)
(* promote_approved_model, resolve_champion).                              *)
THEOREM PipelineKeepsRegistry ==
    Spec => [](OneVersionPerRelease /\ AliasesApproved /\ ServedIsDecided
                  /\ PromotionAllOrNothing)
<1>1. ReleaseInv => OneVersionPerRelease /\ AliasesApproved /\ ServedIsDecided
                       /\ PromotionAllOrNothing
  BY RegistryInvImplies, UniqueMeansOne, StandMeansAllOrNothing DEF ReleaseInv
<1> QED
  BY <1>1, ReleaseInvariant, PTL

-----------------------------------------------------------------------------
(* The gates.  What validate_fd001 lets through is a whole dataset, and    *)
(* the source it was judged by never changes.                              *)

(* In 1 .. size, the number at place n is n.                               *)
LEMMA NthOfInterval ==
    ASSUME NEW size \in Nat, NEW n \in 1..size
    PROVE  Nth(1..size, n) = n
<1>1. \A i \in 1..size : Cardinality({j \in 1..size : j <= i}) = i
  <2> TAKE i \in 1..size
  <2>1. {j \in 1..size : j <= i} = 1..i
    OBVIOUS
  <2>2. Cardinality(1..i) = i
    BY FS_Interval
  <2> QED
    BY <2>1, <2>2
<1> QED
  BY <1>1 DEF Nth

(* Lines that pass the structure gate all are rows of an expected engine,  *)
(* whose cycles are complete.                                              *)
LEMMA GateOfSplit ==
    ASSUME NEW lines \in Seq(TelemetryLine), NEW split \in Splits,
           ~Errors(lines), WellStructured(lines, split)
    PROVE  /\ Rows(lines) = DOMAIN lines
           /\ \A i \in DOMAIN lines : lines[i].engine \in 1..EngineCount[split]
           /\ \A e \in 1..EngineCount[split] :
                 /\ CyclesOf(lines, e) # {}
                 /\ \A c \in 1..FinalCycle(lines, e) :
                       Cardinality({i \in DOMAIN lines :
                           lines[i].engine = e /\ lines[i].cycle = c}) = 1
<1>1. Rows(lines) = DOMAIN lines
  BY DEF Rows, Errors
<1>2. EnginesOf(lines) = 1..EngineCount[split]
  BY DEF WellStructured
<1>3. \A i \in DOMAIN lines : lines[i].engine \in 1..EngineCount[split]
  BY <1>1, <1>2 DEF EnginesOf
<1>4. ASSUME NEW e \in 1..EngineCount[split]
      PROVE  CyclesOf(lines, e) # {}
  <2>1. PICK i \in Rows(lines) : lines[i].engine = e
    BY <1>2 DEF EnginesOf
  <2>2. lines[i].cycle \in CyclesOf(lines, e)
    BY <2>1 DEF CyclesOf, RowsOfEngine
  <2> QED
    BY <2>2
<1>5. ASSUME NEW e \in 1..EngineCount[split], NEW c \in 1..FinalCycle(lines, e)
      PROVE  Cardinality({i \in DOMAIN lines :
                 lines[i].engine = e /\ lines[i].cycle = c}) = 1
  <2>1. c \in CyclesOf(lines, e)
    BY <1>2 DEF WellStructured, Contiguous
  <2>2. PICK i \in Rows(lines) : lines[i].engine = e /\ lines[i].cycle = c
    BY <2>1 DEF CyclesOf, RowsOfEngine
  <2>3. {j \in DOMAIN lines : lines[j].engine = e /\ lines[j].cycle = c} = {i}
    BY <1>1, <2>2 DEF WellStructured
  <2> QED
    BY <2>3, FS_Singleton
<1> QED
  BY <1>1, <1>3, <1>4, <1>5

(* A label file that passes its gate has one value per engine, and gives   *)
(* the engine of each place the value on the line of that place.           *)
LEMMA GateOfLabels ==
    ASSUME NEW rul \in Seq(Int), NEW test,
           ~RulErrors(rul, test), EnginesOf(test) = 1..EngineCount["test"]
    PROVE  /\ DOMAIN rul = 1..EngineCount["test"]
           /\ \A e \in 1..EngineCount["test"] :
                 /\ Labels(rul, test)[e].engine = e
                 /\ Labels(rul, test)[e].additional = rul[e]
<1> DEFINE count == EngineCount["test"]
<1>1. count \in Nat
  BY EngineCountAssumption
<1>2. PICK size \in Nat : DOMAIN rul = 1..size
  OBVIOUS
<1>3. RulValues(rul) = 1..size
  <2>1. \A i \in 1..size : rul[i] \in Int /\ ~(rul[i] <= 0)
    BY <1>2 DEF RulErrors
  <2>2. \A i \in 1..size : rul[i] > 0
    BY <2>1
  <2> QED
    BY <1>2, <2>2 DEF RulValues
<1>4. Cardinality(1..size) = size /\ Cardinality(1..count) = count
  <2> HIDE DEF count
  <2>1. \A k \in Nat : Cardinality(1..k) = k
    <3> TAKE k \in Nat
    <3>1. 1 \in Int /\ k \in Int
      OBVIOUS
    <3> QED
      BY <3>1, FS_Interval
  <2> QED
    BY <1>1, <2>1
<1>5. LabelCountMatches(rul, test)
  BY DEF RulErrors
<1>6. size = count
  BY <1>3, <1>4, <1>5 DEF LabelCountMatches
<1>7. ASSUME NEW e \in 1..count
      PROVE  /\ Labels(rul, test)[e].engine = e
             /\ Labels(rul, test)[e].additional = rul[e]
  <2>1. Nth(1..count, e) = e
    BY <1>1, NthOfInterval
  <2>2. Labels(rul, test)[e] =
          [engine |-> e, final_cycle |-> FinalCycle(test, e), additional |-> rul[e]]
    BY <1>3, <1>4, <1>5, <1>6, <2>1 DEF Labels
  <2> QED
    BY <2>2
<1> QED
  BY <1>2, <1>6, <1>7

(* However preparers race, are killed and repeated, what is published is a *)
(* whole dataset with each label at its engine (validate_fd001).           *)
THEOREM PublicationsAreSound == Spec => []PublicationSound
<1>1. Init => source \in Source
  BY SourcesAssumption DEF Init, EmptyStart, ChampionStart
<1>2. ReleaseInv /\ source \in Source /\ [Next]_allVars => (source \in Source)'
  BY ReleaseStepKeeps DEF InterimStays
<1>3. ReleaseInv /\ source \in Source => PublicationSound
  <2> SUFFICES ASSUME ReleaseInv, source \in Source, interim # Unpublished
               PROVE  PublicationSound
    BY DEF PublicationSound
  <2>1. ValidationStatus(source) # "FAILED"
    BY DEF ReleaseInv, DataInv, Publishable
  <2>2. /\ \A s \in Splits : ~Errors(source[s]) /\ WellStructured(source[s], s)
        /\ ~RulErrors(source.rul, source["test"])
    BY <2>1 DEF ValidationStatus
  <2>3. /\ \A s \in Splits : source[s] \in Seq(TelemetryLine)
        /\ source.rul \in Seq(Int)
    BY DEF Source, Splits
  <2>4. \A s \in Splits :
           /\ Rows(source[s]) = DOMAIN source[s]
           /\ \A i \in DOMAIN source[s] : source[s][i].engine \in 1..EngineCount[s]
           /\ \A e \in 1..EngineCount[s] :
                 /\ CyclesOf(source[s], e) # {}
                 /\ \A c \in 1..FinalCycle(source[s], e) :
                       Cardinality({i \in DOMAIN source[s] :
                           source[s][i].engine = e /\ source[s][i].cycle = c}) = 1
    <3> TAKE s \in Splits
    <3> DEFINE lines == source[s]
    <3>1. lines \in Seq(TelemetryLine) /\ ~Errors(lines) /\ WellStructured(lines, s)
      BY <2>2, <2>3
    <3> HIDE DEF lines
    <3>2. /\ Rows(lines) = DOMAIN lines
          /\ \A i \in DOMAIN lines : lines[i].engine \in 1..EngineCount[s]
          /\ \A e \in 1..EngineCount[s] :
                /\ CyclesOf(lines, e) # {}
                /\ \A c \in 1..FinalCycle(lines, e) :
                      Cardinality({i \in DOMAIN lines :
                          lines[i].engine = e /\ lines[i].cycle = c}) = 1
      BY <3>1, GateOfSplit
    <3> QED
      BY <3>2 DEF lines
  <2>5. /\ DOMAIN source.rul = 1..EngineCount["test"]
        /\ \A e \in 1..EngineCount["test"] :
              /\ Labels(source.rul, source["test"])[e].engine = e
              /\ Labels(source.rul, source["test"])[e].additional = source.rul[e]
    <3> DEFINE rul == source.rul
               test == source["test"]
    <3>1. /\ rul \in Seq(Int) /\ ~RulErrors(rul, test)
          /\ EnginesOf(test) = 1..EngineCount["test"]
      BY <2>2, <2>3 DEF WellStructured, Splits
    <3> HIDE DEF rul, test
    <3>2. /\ DOMAIN rul = 1..EngineCount["test"]
          /\ \A e \in 1..EngineCount["test"] :
                /\ Labels(rul, test)[e].engine = e
                /\ Labels(rul, test)[e].additional = rul[e]
      BY <3>1, GateOfLabels
    <3> QED
      BY <3>2 DEF rul, test
  <2> QED
    BY <2>4, <2>5 DEF PublicationSound
<1> QED
  BY <1>1, <1>2, <1>3, ReleaseInvariant, PTL DEF Spec

===============================================================================
