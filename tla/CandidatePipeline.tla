------------------------- MODULE CandidatePipeline -------------------------
(***************************************************************************)
(* The Airflow DAG of airflow/dags/rul_training_pipeline.py and the        *)
(* commands of cli.py it runs, over the dataset, the local artifact        *)
(* directories and the model registry: prepare, train-compare,             *)
(* package-candidate, register-candidate, benchmark-candidate and the wait *)
(* for a human approval.                                                   *)
(*                                                                         *)
(* max_active_runs is 1.  A task that exits with an error, or is killed at *)
(* any point, is tried again; what an earlier attempt has published is     *)
(* immutable, so a later attempt that finds it fails.                      *)
(***************************************************************************)
EXTENDS DatasetPublication, ModelRegistry

CONSTANTS
    Scheduler,  \* the preparer that is the DAG's task
    Tries,      \* attempts per task: one and the retries
    Unnameable  \* releases the name checks of train and package refuse:
                \* RUN_KEY keeps the "+" of a scheduled or manual run_id

ASSUME PipelineAssumption ==
    /\ Scheduler \in Unattended
    /\ Tries \in Nat \ {0}
    /\ Unnameable \subseteq Releases

VARIABLES
    dag,       \* the active run: its release, task, attempts left and step
    started,   \* releases of the runs so far (run_id names both)
    succeeded, \* releases whose run ended in success
    artifacts, \* the immutable results of each publishing task
    tracked,   \* runs whose MLflow comparison run is FINISHED
    granted,   \* Variable fd001_rul_approval_granted
    tracking   \* PM_MLFLOW_TRACKING_URI is set (never changes)

resultVars == <<artifacts, tracked>>
settingVars == <<granted, tracking>>
pipelineVars == <<dag, started, succeeded, resultVars, settingVars>>

vars == <<dataVars, registryVars, pipelineVars>>

Tasks == {"prepare", "train", "package", "register", "benchmark", "review"}

Publishing == {"train", "package", "benchmark"}

NextTask ==
    [prepare |-> "train", train |-> "package", package |-> "register",
     register |-> "benchmark", benchmark |-> "review", review |-> "none"]

NoRun == [release |-> NoRelease, task |-> "none", tries |-> 0, step |-> "queued"]

PipelineTypeOK ==
    /\ dag \in [release : Releases \cup {NoRelease}, task : Tasks \cup {"none"},
                tries : 0..Tries,
                step : {"queued", "running", "publish", "log", "end", "finish"}]
    /\ started \subseteq Releases
    /\ succeeded \subseteq started
    /\ artifacts \in [Publishing -> SUBSET Releases]
    /\ tracked \subseteq Releases
    /\ granted \in BOOLEAN
    /\ tracking \in BOOLEAN
    /\ dag.task # "none" => dag.tries > 0

NothingBuilt ==
    /\ dag = NoRun
    /\ started = {}
    /\ succeeded = {}
    /\ artifacts = [t \in Publishing |-> {}]
    /\ tracked = {}
    /\ granted = FALSE
    /\ tracking \in BOOLEAN

-----------------------------------------------------------------------------
InTask(task, step) == dag.task = task /\ dag.step = step

Step(step) == dag' = [dag EXCEPT !.step = step]

(* The task's command exited with 0; review is the last one.               *)
TaskSucceeds ==
    IF dag.task = "review"
      THEN dag' = NoRun /\ succeeded' = succeeded \cup {dag.release}
      ELSE /\ dag' = [dag EXCEPT !.task = NextTask[dag.task],
                                 !.tries = Tries, !.step = "queued"]
           /\ UNCHANGED succeeded

(* Mutant of TaskFails: the attempts are not counted down.                 *)
TaskAlwaysRetried == dag' = [dag EXCEPT !.step = "queued"] /\ UNCHANGED succeeded

(* Mutant of TaskFails: one retry too many.                                *)
TaskRetriedOnceMore ==
    /\ dag' = IF dag.tries > 0
                THEN [dag EXCEPT !.tries = dag.tries - 1, !.step = "queued"]
                ELSE NoRun
    /\ UNCHANGED succeeded

(* The attempt failed; after the last one the run fails.                   *)
TaskFails ==
    /\ dag' = IF dag.tries > 1
                THEN [dag EXCEPT !.tries = dag.tries - 1, !.step = "queued"]
                ELSE NoRun
    /\ UNCHANGED succeeded

StartRun(r) ==
    /\ dag = NoRun
    /\ r \in Releases \ started
    /\ dag' = [release |-> r, task |-> "prepare", tries |-> Tries, step |-> "queued"]
    /\ started' = started \cup {r}
    /\ UNCHANGED <<dataVars, registryVars, succeeded, resultVars, settingVars>>

-----------------------------------------------------------------------------
(* prepare_dataset and register_candidate wait for the exit code of what   *)
(* their modules describe.                                                 *)

StartPrepareTask ==
    /\ InTask("prepare", "queued")
    /\ StartPreparing(Scheduler, FALSE)
    /\ Step("running")
    /\ UNCHANGED <<registryVars, started, succeeded, resultVars, settingVars>>

EndPrepareTask ==
    /\ InTask("prepare", "running")
    /\ EndPreparing(Scheduler)
    /\ IF At(Scheduler, "ok") THEN TaskSucceeds ELSE TaskFails
    /\ UNCHANGED <<registryVars, started, resultVars, settingVars>>

StartRegisterTask ==
    /\ InTask("register", "queued")
    /\ tracking
    /\ dag.release \in artifacts["package"]
    /\ StartRegistration(dag.release)
    /\ Step("running")
    /\ UNCHANGED <<dataVars, started, succeeded, resultVars, settingVars>>

(* Without a tracking URI, or a package that passes its checks.            *)
RegisterTaskRefused ==
    /\ InTask("register", "queued")
    /\ ~tracking \/ dag.release \notin artifacts["package"]
    /\ TaskFails
    /\ UNCHANGED <<dataVars, registryVars, started, resultVars, settingVars>>

(* Mutant of EndRegisterTask: the script goes on after a failed command.   *)
RegisterExitIgnored ==
    /\ InTask("register", "running")
    /\ EndRegistration
    /\ TaskSucceeds
    /\ UNCHANGED <<dataVars, started, resultVars, settingVars>>

EndRegisterTask ==
    /\ InTask("register", "running")
    /\ EndRegistration
    /\ IF registration.pc = "ok" THEN TaskSucceeds ELSE TaskFails
    /\ UNCHANGED <<dataVars, started, resultVars, settingVars>>

-----------------------------------------------------------------------------
(* train_and_compare, package_candidate and benchmark_candidate: what they *)
(* need, and the result they refuse to overwrite.                          *)

(* _validate_run_name, and the same check of a model release.              *)
Nameable(r) == r \notin Unnameable

(* Mutant of Needs: trains on whatever is in the interim directory.        *)
NeedsFiles(task, r) ==
    CASE task = "train"   -> interim # Unpublished
      [] task = "package" -> r \in artifacts["train"]
      [] OTHER            -> r \in artifacts["package"]

Needs(task, r) ==
    CASE task = "train"   -> Nameable(r) /\ Trainable
      [] task = "package" -> Nameable(r) /\ r \in artifacts["train"]
      [] OTHER            -> r \in artifacts["package"]

StartPublishingTask ==
    /\ dag.task \in Publishing
    /\ dag.step = "queued"
    /\ IF Needs(dag.task, dag.release) /\ dag.release \notin artifacts[dag.task]
         THEN Step("publish") /\ UNCHANGED succeeded
         ELSE TaskFails
    /\ UNCHANGED <<dataVars, registryVars, started, resultVars, settingVars>>

(* The staged result is renamed into place.                                *)
PublishResult ==
    /\ dag.task \in Publishing
    /\ dag.step = "publish"
    /\ artifacts' = [artifacts EXCEPT ![dag.task] = @ \cup {dag.release}]
    /\ Step(IF dag.task = "train" /\ tracking THEN "log" ELSE "finish")
    /\ UNCHANGED <<dataVars, registryVars, started, succeeded, tracked, settingVars>>

(* log_candidate_runs and log_training_report: child runs, parameters and  *)
(* files of the parent run that start_comparison_run has created.          *)
LogRuns ==
    /\ InTask("train", "log")
    /\ Step("end")
    /\ UNCHANGED <<dataVars, registryVars, started, succeeded, resultVars, settingVars>>

(* start_comparison_run ends the parent run; that of an attempt that fails *)
(* ends as FAILED, or, killed, is RUNNING for good.                        *)
EndComparison ==
    /\ InTask("train", "end")
    /\ tracked' = tracked \cup {dag.release}
    /\ Step("finish")
    /\ UNCHANGED <<dataVars, registryVars, started, succeeded, artifacts, settingVars>>

FinishPublishingTask ==
    /\ dag.task \in Publishing
    /\ dag.step = "finish"
    /\ TaskSucceeds
    /\ UNCHANGED <<dataVars, registryVars, started, resultVars, settingVars>>

(* An exception, a lost MLflow answer, or a kill, before or after the      *)
(* result is in place.                                                     *)
PublishingTaskFails ==
    /\ dag.task \in Publishing
    /\ dag.step \in {"publish", "log", "end", "finish"}
    /\ TaskFails
    /\ UNCHANGED <<dataVars, registryVars, started, resultVars, settingVars>>

-----------------------------------------------------------------------------
(* manual_approval_required: a sensor on one global variable, which an     *)
(* operator sets, and which no task resets.                                *)

SetGranted(value) ==
    /\ granted' = value
    /\ UNCHANGED <<dataVars, registryVars, dag, started, succeeded, resultVars, tracking>>

Review ==
    /\ InTask("review", "queued")
    /\ granted
    /\ TaskSucceeds
    /\ UNCHANGED <<dataVars, registryVars, started, resultVars, settingVars>>

(* A sensor that times out fails the run without another attempt.          *)
ReviewTimesOut ==
    /\ InTask("review", "queued")
    /\ dag' = NoRun
    /\ UNCHANGED <<dataVars, registryVars, started, succeeded, resultVars, settingVars>>

-----------------------------------------------------------------------------
PipelineStep ==
    \/ StartPrepareTask \/ EndPrepareTask
    \/ StartRegisterTask \/ RegisterTaskRefused \/ EndRegisterTask
    \/ StartPublishingTask \/ PublishResult \/ LogRuns \/ EndComparison
    \/ FinishPublishingTask \/ PublishingTaskFails
    \/ Review \/ ReviewTimesOut

(* The registration, and the preparation, that the running task waits for. *)
RegistrationStep == Register /\ UNCHANGED <<dataVars, pipelineVars>>

SchedulerPrepares == Prepare(Scheduler) /\ UNCHANGED <<registryVars, pipelineVars>>

(* A version comes from a sound publication of a dataset without warnings, *)
(* through a training run and a package of its own release: no order of    *)
(* racing preparers, retries and crashes registers anything else.          *)
RegisteredFromSoundData ==
    \A v \in DOMAIN versions :
        /\ versions[v].release \in artifacts["package"] \cap artifacts["train"]
        /\ interim.status = "PASSED"

(* A run that ended in success left every result and exactly one version   *)
(* behind, however many attempts its tasks took.                           *)
SucceededIsComplete ==
    \A r \in succeeded :
        /\ \A t \in Publishing : r \in artifacts[t]
        /\ tracking => r \in tracked
        /\ Cardinality(VersionsOf(r)) = 1

(* Every run ends, so the next scheduled run is not held back forever by   *)
(* max_active_runs.                                                        *)
EveryRunEnds == dag # NoRun ~> dag = NoRun

=============================================================================
