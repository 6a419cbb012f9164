# Predictive Maintenance Platform: TLA+ models and proofs

This directory models the platform's event path, its model-release path and its
operational side, model-checks them with TLC and proves their central safety
properties with TLAPS. Paths below are relative to the
Python package `src/predictive_maintenance/` of the repository unless they say
otherwise.

## 1. The system

Telemetry of turbofan engines arrives at an HTTP gateway, is published to a
Kafka-compatible broker, staged and reordered by a streaming worker, and stored
in PostgreSQL together with a remaining-useful-life (RUL) prediction and the
alerts it raises. Around this path, models are trained, registered, approved and
promoted in MLflow, and a scheduled job watches quality and asks for retraining.

| Component | State it keeps | Operations | Talks to |
| --- | --- | --- | --- |
| Gateway (`api/app.py`) | none | accept an event, transition an alert, read models | broker or database |
| Producer (`streaming/producer.py`) | none | publish and wait for the acknowledgement; publish a dead letter | broker |
| Broker (external) | topic, group offset, dead-letter topic | append, poll, commit | |
| Worker (`streaming/consumer.py`) | position; the reorder buffer of one recovery | `consume_once`, `recover_pending` | broker, database |
| Reorder buffer (`streaming/reorder.py`) | per engine: newest cycle, pending events | `observe`, `flush` | in the worker |
| Event store (`storage/database.py`) | `pending_event`, `telemetry_event`, `data_quality_issue` | stage, persist, record an issue, delete a staged row | one transaction each |
| Inference (`inference/*.py`, `features/`) | the loaded release | decide a prediction | the worker's transaction |
| Predictions (`storage/predictions.py`) | `prediction` | idempotent insert | the same transaction |
| Alerts (`storage/alerts.py`) | `alert`, `audit_event` | refresh from a prediction (same transaction), versioned human transitions | gateway, worker |
| Read models (`storage/operational.py`, `storage/model_performance.py`) | none | health status, summaries | database |
| Model release (`training/registry.py`, `approval.py`, `promotion.py`, `package.py`) | MLflow versions, tags, aliases, runs | register, approve, promote, roll back | MLflow, call by call |
| Champion resolution (`inference/registry.py`, `artifacts.py`) | artifact cache | resolve, verify, cache | MLflow |
| Monitoring (`monitoring/*.py`, `airflow/dags/monitoring_pipeline.py`) | report files, latch file | evaluate checks, retraining policy, trigger | database, files, Airflow |
| Data (`data/*.py`) | versioned directories | download, extract, prepare, validate | files |
| Training (`training/train.py`, ...) | run directories, MLflow runs | fit, evaluate, track | files, MLflow |
| Candidate pipeline (`airflow/dags/rul_training_pipeline.py`, `cli.py`) | task states, an approval variable | run the commands in order, with attempts | data, training, release |

### Hard behaviours

* The worker's steps are separate transactions and broker calls: *stage, commit
  offset, process, record warning, delete staged row*. A crash may fall between
  any two, and a database acknowledgement may be lost after a commit.
* `recover_pending` runs before every poll and rebuilds the reorder buffer from
  the staged rows each time. One row that cannot be processed stops the topic: a
  prediction that conflicts, an event the model raises on, one PostgreSQL refuses.
* Producers repeat messages, the broker does not deduplicate, and two messages
  of one identity may differ in content.
* An event waits for a newer cycle to move the watermark. If none comes, only an
  idle clock releases it, with a warning that changes its prediction.
* Predictions are immutable: a repeated event must reproduce its prediction
  exactly, although the flags depend on the tables' current contents.
* Alert rows are written by predictions and by operators.
* Registration, approval and promotion are sequences of remote calls without a
  transaction: any call may fail, lose its answer, or be the last one of its
  process, and two people may run two of them at once. Workers read the outcome
  in several calls while it changes.
* A task of a pipeline is tried again after its earlier attempt has published
  half of its results, which are immutable.
* Requests are transactions of several statements at READ COMMITTED: what one
  read may be old when it inserts. The read models' statements see different states.
* The monitoring job writes its files in place, and the request for a new
  candidate is a file and a remote call that may be separated by a kill.

`PROJECT.json` lists these as hazards, each at its line, with the properties
that cover them.

### What makes each component correct

* *Reorder buffer*: nothing ripe is held; nothing is handed out twice; hand-outs
  are in cycle order, or out of order by at most the window after a flush.
* *Worker*: an acknowledged message is never lost; every message is eventually
  settled; an event never overtakes an older staged cycle of its engine.
* *Store and inference*: one row per identity, whose content never changes; one
  prediction per row that agrees with its issues; warnings are not lost.
* *Alerts*: one active alert per key; a closed alert stays closed; a
  human never acts on a version he has not seen; the audit trail explains every state.
* *Concurrent requests*: answered as if each had been one step; a gap is missed
  only for a reason that can be named; predictions agree with rows and issues.
* *Dataset*: what is published passed the gates, has every record and the right
  labels, and is never replaced.
* *Candidate pipeline*: what is registered came from a sound publication; a run
  that succeeded is complete; every run ends.
* *Model release*: aliases name approved versions; a promotion nobody interfered
  with is all or nothing; a release has one version; what is served was decided.
* *Read models*: the parts of an answer fit together and two views agree.
* *Monitoring*: a candidate is requested once, and only after failing twice; the
  job recovers from what makes it raise.

## 2. Modules

| Module | Models | Uses |
| --- | --- | --- |
| `EventTimeReorder` | one engine's buffer as operators on a record | |
| `ReorderBuffer` | the class used freely, with histories of what it answered | `EventTimeReorder` |
| `TelemetryStore` | the tables and the processing transaction | |
| `DurableIngest` | abstract: what a producer is promised | |
| `TelemetryConsumer` | the worker, the broker and the clock around the store | `EventTimeReorder`, `TelemetryStore`, refines `DurableIngest` |
| `AlertLifecycle` | the alert table, its audit trail and the operators | |
| `EventRegister` | abstract: what concurrent requests are promised | |
| `IngestTransactions` | the store's transaction, statement by statement, for many clients | `TelemetryStore`, refines `EventRegister` |
| `OperationalReads` | fleet view, equipment detail, health | `TelemetryStore` |
| `Monitoring` | the monitoring DAG, its files, policy and latch | `TelemetryStore` |
| `Operations` | the last three over one store | `IngestTransactions`, `OperationalReads`, `Monitoring` |
| `DatasetValidation` | the publication gates as operators on file contents | |
| `DatasetPublication` | download, extraction, publication by several preparers | `DatasetValidation` |
| `ModelRegistry` | MLflow's registry, register, approve, promote, resolve | |
| `CandidatePipeline` | the training DAG and its commands | `DatasetPublication`, `ModelRegistry` |
| `ReleasePipeline` | pipeline, engineers, operators and workers together | `CandidatePipeline` |
| `MCReorderBuffer`, `MCTelemetryConsumer`, `MCAlertLifecycle`, `MCOperations`, `MCReleasePipeline` | the instances TLC checks | |
| `TelemetryStore_proofs` | lemmas: what one processing transaction does | `TelemetryStore` |
| `TelemetryConsumer_proofs`, `ConsumerRecovery_proofs` | theorems: durability and refinement; what one recovery guarantees | `TelemetryConsumer` |
| `ReorderBuffer_proofs`, `AlertLifecycle_proofs`, `Operations_proofs`, `ModelRegistry_proofs`, `ReleasePipeline_proofs` | theorems about the module they are named for and what it is composed of | |

### EventTimeReorder, ReorderBuffer

`_EngineBuffer` is the record `[max_cycle, pending]`; `max_cycle = 0` stands for
`None`. `observe()` is split into what it releases (`ObserveReleases`) and what it
leaves (`ObserveLeaves`), `flush()` likewise. A release is a set; the cycles in it
are distinct, and `Earliest` picks the next one, which is the sorted tuple of the
code. `ReorderBuffer` needs the whole tuple, `InCycleOrder`: an arrangement of the
released events in which cycles do not decrease; that it exists for every finite
set is a lemma (`Sortable`). There, `released`, `refused` and `flushed` are histories that
only the properties read.

### TelemetryStore

One variable per table or column that matters. `Persist` is one committed
transaction: `InsertEvent`, `RepeatEvent` and `RefuseEvent` are the outcomes
INSERTED, DUPLICATE and CONFLICT of `persist_telemetry_event_transaction`, with
the prediction that `TransactionalInferenceProcessor.process` adds to the first
two. Quality flags are sequences, because `_matches_existing` compares them as
lists: a new event's flags end with `cycle_gap`, a repeated event's begin with
the stored issues in alphabetic order. `PredictionConflicts` is the case in which
the processor raises and nothing commits; `ModelFails` is the other one, in which
`InferenceWorker.process` raises `InferenceExecutionError`. The features are a function
of the event, so the model fails on the events of the constant `Unpredictable` at every
attempt; a failure that passes is one of the consumer's crashes. `ProcessingRaises`
guards both outcomes that score. Abstracted: measurements and every
other payload field become `content`; the RUL is a function of event and release,
so it cannot distinguish two predictions of one event; one release is loaded, so
a prediction is identified by its event.

### TelemetryConsumer

`pc` is the worker's place in `consume_once` and `recover_pending`:

    load -> scan <-> process -> [record ->] delete     recover_pending
    poll -> stage -> commit -> load                    a valid message
    poll -> dead_letter -> acknowledge -> load         an invalid message

| Action | Code |
| --- | --- |
| `Publish` | `RedpandaEventSink.persist`, and the gateway repeating it |
| `Load`, `ObserveRow` | the loop over `load_pending_events` |
| `FlushIdle`, `KeepWaiting` | the loop over idle engines |
| `Process` | one successful `_process_released_event` |
| `Record` | `record_ordering_window_expired_issue` |
| `Delete` | `delete_pending_event` |
| `Recovered` | return from `recover_pending`, before or after the poll (`polled`) |
| `PollTimeout`, `PollMessage` | `poll` returning nothing or a message |
| `Stage`, `Commit` | `persist_pending_event`, the offset commit |
| `PublishDeadLetter`, `Acknowledge` | the invalid branch |
| `Crash` | a kill, or an exception escaping to the supervisor, which restarts the process |
| `UnretriedError` | an error `_process_with_retry` does not catch and that comes back at every attempt (`OperationRaises`): `PredictionPersistenceError`, `InferenceExecutionError`, or a `DataError` of the staging insert |
| `RetryRolledBack`, `RetryProcessed`, `RetryStaged`, `RetriesExhausted` | `_process_with_retry` on a transient error whose transaction rolled back or had committed |
| `BecomeIdle` | `reorder_idle_flush_seconds` pass for an engine's newest staged row |

The elapsed time is abstracted to the set `idle`, which an engine joins when its
newest staged row is old enough and leaves when a new row is staged. The order of
staged rows with equal engine and cycle is open in the SQL and open in the model
(`FirstRows`).

The message type does not bound engine and cycle from above, the columns do. Events
that are valid for the one and not for the other are the constant `Unstorable`: their staging raises at every attempt, so the worker is
restarted in front of the same message. Elsewhere every event can be stored.

### DurableIngest

Messages are accepted, acknowledged in order, and each has a fate: *queued*,
*dead*, *held* or *settled*. Settling an event settles all its accepted copies at
once. The refinement mapping `Fate` computes the fate from the offset, the staged
and the stored identities; a message that is acknowledged and nowhere is *lost*,
which `DurableIngest` does not know.

### AlertLifecycle

The alerts of one deduplication key are a sequence, oldest first. `Evaluate` is
`persist_prediction_alerts_transaction`: each decision is an upsert whose conflict
target is the partial unique index (`Conflicting`). Any prediction may be evaluated
again, because the processor persists alerts for a repeated event too
(`RepeatEvent` of `TelemetryStore`). `Read` is an operator loading an alert;
`Transition` is `transition_alert` with the version he read, answered or with the
answer lost. Refused requests (409) change nothing and are not steps. Each writer
holds the row lock to its commit and an operator's transaction touches one alert,
so transactions are single steps; two worker transactions waiting for each other's
rows are not modelled. The flags of a prediction are taken without their
`:` suffix; two flags that differ only there refresh the alert once, not twice.

### EventRegister, IngestTransactions

`persist_telemetry_event_transaction` again, but for clients that run it at once:
requests of the API that writes to PostgreSQL directly, or workers of one group
whose processor scores the event in the same transaction (`Inference`).

    idle -> read -> insert -> inserted -> CommitInsert          INSERTED
                           -> lookup -> CommitRepeat            DUPLICATE
                                     -> CommitRefusal           CONFLICT
    record -> RecordExpired or FailToRecord            after an idle flush

`ReadLatestCycle` is `SELECT max(cycle)`, `InsertRow` is `INSERT ... ON CONFLICT
DO NOTHING`, which waits (`KeyFree`) for another transaction that has inserted the
identity and not ended; `Rollback` is a failed statement (an insert PostgreSQL refuses included), a dead
process, a failing model or a conflicting prediction. `Request` carries whether the
worker passes `ordering_window_expired`: the row and its prediction are then degraded
without any issue, and only a second transaction writes one, `RecordExpired`, unless
the worker dies before it (`FailToRecord`; the event is still staged). The flag is free
in each request, because workers of one group share `pending_event` and one may flush
what the other releases in order. Statements after which nothing the transaction reads can
change are merged with its commit. `answer` is what the last step answered, or
nothing when the answer was lost; a client keeps no other memory. `EventRegister`
says what that must look like: rows appear once, are never replaced, and every
answer is true when it is given. `openers` is a history for `GapAccountable`.

### OperationalReads

`load_equipment_detail` is three steps, one per group of statements whose results
can differ (`ReadCurrent`, `ReadLastValid`, `ReadIssues`), with commits between
them. `load_fleet_health` is one statement, so it is an operator on the current
tables, and `FleetAgreesWithDetail` compares it with what a detail that is begun
now would show. A detail lists every open issue of the engine: gaps, flushes and
refused copies. A flush's issue is listed for the engine of the stored row, the code
writes the engine of the flushed copy; they differ only for a copy that changed its
engine. `Health` is `_derive_health_status`; whether a timestamp is stale
is a choice. Timestamps of events are data that need not follow the cycles.

### Monitoring, Operations

The DAG's two tasks, file operation by file operation:

    load -> latest -> fill -> history -> append        run_monitoring_job
    decide -> latch -> trigger                         request_candidate_if_needed

`write_text` empties a file and then fills it, so `latest.json` can be *partial*
(the API answers 503) and a history file can stay empty for good (`torn`). A report
is the set of its failed checks. `Load` raises when the issues of a window
outnumber its events (`Countable`) or a measurement is null (`Convertible`).
`TaskDies` is a kill, with or without an attempt left. The time window is the
events and the issues of all three types of this window and the events of the one
before, and moves as a
whole (`WindowMoves`): single rows leaving it one by one would change the counts
more gradually, in the same directions. `Drill` is the readme's exercise of the
retraining path by hand (a report put into the history, the second task repeated);
without it no failing check the policy knows ever occurs, see 6.

`Operations` composes the three over one store. To keep the product small the DAG
is either paused, when two clients race and one detail is read beside a client, or
scheduled, when clients ingest one at a time between runs. `Watched`, `Troubled`
and `Failing` limit which events a scheduled half sees: events that make the job
raise come while no check has failed, and failed checks while there are no such
events. `Flushed` bounds which events an idle flush may release.

### DatasetValidation, DatasetPublication

A telemetry line is `[engine, cycle, fault]`, a RUL line an integer. The frame is
the set of the numbers of the lines that are kept (`Rows`, `RulValues`), so that
repeated lines stay apart; `FinalCycle` is `max(cycles)`, and `Nth` gives the n-th
label to the n-th engine as `zip(..., strict=True)` does. None of it is recursive,
so the gates can be reasoned about.
`ValidationStatus` is `validate_fd001`. `DatasetPublication` has `prepare_fd001`
for several preparers: `Extract`, `PublishRaw`, `Validate`, `Publish`, with
`PreparerFails` for a kill anywhere. The staged directory is private until its
rename, and a rename onto an existing directory raises. A dataset with warnings can
be published with `--allow-warnings`, and the training then refuses the rows with
missing sensors (`Trainable`).

### ModelRegistry

| Actions | Code |
| --- | --- |
| `StartRegistration`, `FindRelease`, `CreateVersion`, `FinishSource`, `MarkSourceFailed` | `register_candidate` |
| `BeginApproval`, `TagApprovalRun`, `TagApprovalRecord`, `TagApproved`, `FinishApproval`, `FailApproval` | `approve_candidate` |
| `BeginPromotion` ... `FinishPromotion` | `promote_approved_model` |
| `RestoreChampion`, `RestorePrevious`, `FailPromotion` | its exception handler |
| `ResolveAlias`, `VerifyChain`, `LoadPackage`, `WorkerRestarts` | `resolve_champion` and the artifact cache |

Each write either answers or loses its answer after its effect (`Answered`);
`CallFails` is a call without effect, `Kill` a process that ends. The handlers run
in both cases but the kill. Steps that only feed records nobody reads again, or
touch an object nobody refers to yet, are merged with the step before. A decision
record's checksum contains its timestamp and is as unique as its run, so it is
modelled by the run's number. `concluded` and `undisturbed` are histories.

### CandidatePipeline, ReleasePipeline

`dag` is the active run's release, task, attempts left and step; `max_active_runs`
is 1. The prepare and register tasks run the operations of the modules above and
take their exit code; train, package and benchmark refuse to overwrite a result
(`Publishing`), rename it into place, and may fail before or after; `train` then
logs to MLflow if there is a tracking URI. The approval task is a sensor on one
global variable that nobody resets. `train` and `package` refuse the names of the
runs in `Unnameable`: `RUN_KEY` replaces `/` and `:` in the DAG's run id but keeps the
`+` of the time zone in a scheduled or manually triggered one, which
`_validate_run_name` rejects, so such a run fails at `train` in every attempt; the
run id the monitoring DAG chooses (`monitoring-retraining-...`) is free of it. `ReleasePipeline` adds the people: an engineer
who prepares data by hand, a reviewer, operators who approve and promote, and a
worker that resolves and serves.

## 3. Runs

| Run | Question | Bounds | Result |
| --- | --- | --- | --- |
| `ReorderBuffer` | Is the buffer correct for any caller? | 1 engine (engines are independent), cycles 1..5, window 2, 4 observed events | holds, 5.6k states |
| `ConsumerStorage` | Does the worker keep and settle everything? | 4 valid events (changed content, a gap, a second engine) and an invalid message, 3 publications with repetition, 1 fault, 1 retry | holds, 128k states |
| `ConsumerOrdering` | Does anything overtake? | 4 events on one engine, two of them of one cycle, 4 publications, 1 fault, no retry left | holds, 94k states |
| `ConsumerInference` | Do predictions agree with events, and what can block the worker? | as `ConsumerStorage` without the invalid message, with inference; the event of cycle 4 has unusable measurements, the model fails on the changed content, PostgreSQL refuses a fifth event | holds, 78k states |
| `ConsumerCrashRetry` | Is a retry after a crash a safe duplicate? | 2 events, 1 crash | violated, see 6 |
| `ConsumerPoison` | Does the topic always drain? | 2 events, 4 publications, no fault | violated, see 6 |
| `ConsumerChangedContent` | Is changed content always reported? | 4 events, 2 publications, no fault | violated, see 6 |
| `AlertLifecycle` | Do predictions and operators keep the alert table right? | 3 predictions (warning, critical, withheld with a flag), 2 operators (symmetric), 3 evaluations | holds, 1.8M states |
| `AlertReplay` | Can a replay open a second alert? | 1 prediction, 1 operator, 2 evaluations | violated, see 6 |
| `ReleasePipeline` | Does the way from the source files to the served champion keep its promises? | all one-line edits of a source of 2 + 2 engines, 1 engineer, 2 attempts per task, 3 releases of which the last has a name that is refused, 2 operators, 1 worker, 2 further decisions | holds, 430k states |
| `Operations` | Do concurrent requests, reads and the monitoring job fit together? | 5 events of one engine (changed content, a gap, one between, a null), two of which may be flushed as idle, 2 clients, 2 reports in the history | holds, 2.1M states |
| `Retraining` | Does a sustained failure request a candidate? | as `Operations`, without drills | violated, see 6 |

Why the bounds are enough: the window is two cycles, so cycles 1 and 4 are the
smallest pair in which one event pushes another over the watermark *and* leaves a
gap, and cycles 1, 1, 2, 4 the smallest set with a tie and a chain of releases.
Three publications allow an event, its changed or repeated copy, and a later
event that releases it. One fault may fall at any step; a second fault would meet
the state a restart leaves, which has nothing in memory that the first one had
not. Three evaluations are the fewest that open an alert, open a new one after it
was closed, and refresh that one. Names of bounds: `MaxEvaluations`, `MaxPublished`, `MaxFaults`, `MaxRetryAttempts`,
`MaxObserved`, `MaxVersions`, `MaxDecisions`, `NewDecisions`, `Tries` (the code
has three attempts, two already separate a retry from the last attempt),
`HistoryBound` (the policy reads two reports), `RequestBound` (a third request is
like a second). Deadlock checking is on in every run but `ReleasePipeline`, where
everybody may be done (`CHECK_DEADLOCK FALSE`).

`ReleasePipeline` starts either from nothing (`EmptyStart`), where one pipeline
takes any source to a registered version that operators then approve and promote,
or with release 1 as champion and release 2 being promoted by one operator
(`ChampionStart`), where a second operator acts against that promotion. Limits, all
named in the module: a source no run can be trained on is only tried with tracking
on; the engineer starts only while nothing is published (later he would change
nothing); files are damaged only before they are used; runs start while the
registry is empty; operators and workers act while the engineer and the run are
idle, with whose last tasks they share nothing, and only beside a first run; no
command begins once its decisions would exceed `NewDecisions`; the promoter of the
second situation starts no other command; the reviewer sets the variable during a
review. Two decisions are what a first approval with its promotion takes, and what
a rival of a running promotion can add to it. They are too few for two racing
approvals *and* a promotion of their result; that case rests on the theorems
`AliasesStayApproved` and `ServedVersionsAreDecided`, which have no such bound.

`Operations` has the smallest set of events in which one identity has two contents,
one event leaves a gap, another closes it late, one cannot be scored, one has a
null. The events that may be flushed are the one with the gap, whose two flags can
come in both orders, and the copy with the other content. `Unpredictable` is empty
there: the only thing a failing model does to a request is its rollback, which any
request may have anyway. Two clients suffice for the races, since a statement waits for at most one
other transaction.

Each property has a mutant: an operator such as `DeleteEngine` or
`OutcomeByDigest`, defined just before the operator it would replace and marked
*Mutant of*, that breaks the property in its run. No specification uses them.

### Properties worth knowing

* `NothingLost`: the durability promise across every crash point.
* `ImplementsIngest`, `ImplementsFairIngest`: the worker refines `DurableIngest`.
* `EverythingSettles`: although recovery starts from scratch each time.
* `NeverOvertakes`: an action property about *storing*, not about the buffer. Its
  exception, one event per cycle and recovery, is what the code's dictionary does.
* `ScoredConsistently`: each stored event has one prediction whose flags agree
  with the quality columns *now*, after any number of retries.
* `WarningNotLost`: a prediction flagged by an idle flush is not left without the
  recorded warning: its event stays staged until the warning is written.
* `ActedOnSeen`: the version check covers refreshes by predictions, not only other
  operators: the row changed is the row the operator saw.
* `AuditExplainsState`: the audit events of an alert are a path to its state at
  growing versions, although only some of the versions are human.
* `OnlyErrorsBlock`: with inference the worker settles everything unless an operation
  keeps raising one of the errors it does not retry: a conflicting prediction, a model
  that fails on the event, an event PostgreSQL refuses. Each of the three does occur
  in the run; nothing else blocks.
* `ScoredAsStored`: two workers on one event, one of which flushes it, leave a
  prediction whose gap flag agrees with the gap issue and whose quality flags agree
  with the row's status, or one of them is rolled back.
* `GapAccountable`: what `max(cycle)` at READ COMMITTED still guarantees: an event
  without a gap issue has a neighbour, or its transaction found no row of its engine.
* `ImplementsRegister`: no interleaving of statements shows through the answers.
* `DetailCoherent`: holds although the statements are not one snapshot, because
  they read in an order in which rows and issues can only have been added. A health
  that is reduced by a gap comes with that gap's issue. The one by a flush need not:
  its issue is committed after the prediction, or never by a worker that dies, and the
  property says that this is the only exception.
* `ServedIsDecided`: across a champion that moves, tags that two promotions mix,
  runs that are ended twice and workers that read it all call by call.
* `PromotionAllOrNothing`: about promotions during which nobody else moved an alias
  and no restore failed; for the others `AliasesApproved` is what remains.
* `SucceededIsComplete`: over attempts that died after half of their effect.
* `WorkersServe`: once a champion's decisions are complete and stay so.
* `MonitoringResumes`: the job's exceptions pass with the window; the exception is a
  torn history file, which nothing repairs.

### Fairness

`Fairness` is weak fairness of the worker as a whole (its supervisor restarts it
and `run()` loops forever), strong fairness of `PollMessage` (a poll that times
out while messages are available does not do so forever), and weak fairness of
`BecomeIdle` (time passes). Crashes, retries and publications are not fair, and
crashes are bounded by `MaxFaults`: a worker that crashes forever drains nothing.

`PipelineFairness` is weak fairness of the run's own steps (Airflow executes and
retries its tasks and pokes the sensor, which times out), of the preparations and of
the registration. `ServingFairness` is strong fairness of each step of a worker's
resolution: calls may fail again and again, not forever, and compose restarts the
process (`compose.staging.yaml` at the repository root, `restart: unless-stopped`).
`MonitoringFairness` is weak fairness of the scheduled run and strong fairness of
`WindowMoves`: time passes also for a window, between runs. Deaths of tasks, drills,
operators and requests are not fair; `MonitoringResumes` is conditional on tasks not
dying forever.

## 4. Proofs

All theorems hold for every set of events, clients, releases, operators, workers,
preparers and sources, every window, every number of attempts and every bound.
Assumptions: the named `ASSUME`s (events are records with positive engine and
cycle; malformed values are not events; model values that stand for nothing are not
members; bounds are naturals; the starting situations fit into them; a source is
three files of lines), which TLC evaluates in the runs. Every safety invariant and
action property of the passing runs is the statement of a theorem.

| Theorem | Statement |
| --- | --- |
| `Invariance` | `Spec => []IInv` |
| `TypeCorrect` | `Spec => []TypeOK` |
| `Durability` | `Spec => []NothingLost` |
| `Idempotence` | `Spec => []OriginalPreserved` |
| `Refinement` | `Spec => ImplementsIngest` |
| `EventTimeOrder` | worker: `Spec => NeverOvertakes` |
| `ConsistentScores`, `WarningKept` | worker: `Spec => []ScoredConsistently`, `Spec => []WarningNotLost` |
| `ReorderBuffer_proofs!Invariance`, `TypeCorrect` | buffer: `Spec => []IInv`, `Spec => []TypeOK` |
| `NothingRipeHeld`, `NeverHandedOutAgain` | buffer: `Spec => []OnlyUnripeHeld`, `Spec => []HandedOutOnce` |
| `ReleaseOrder`, `BoundedDisorder` | buffer: `Spec => []ReleasedInOrder`, `Spec => []DisorderBounded` |
| `Deduplication` | alerts: `Spec => []OneActivePerKey` |
| `OptimisticConcurrency` | alerts: `Spec => ActedOnSeen` |
| `History` | alerts: `Spec => ClosedForGood` |
| `AuditTrail` | alerts: `Spec => []AuditExplainsState` |
| `AlertLifecycle_proofs!Invariance`, `TypeCorrect` | alerts: `Spec => []IInv`, `Spec => []TypeOK` |
| `IngestInvariant`, `IngestImplementsRegister` | clients alone: `IngestSpec => []IngestInv`, `IngestSpec => ImplementsRegister` |
| `OperationsKeepIngest`, `OperationsImplementRegister` | operations: `Spec => []IngestInv`, `Spec => ImplementsRegister` |
| `OperationsAccountForGaps`, `OperationsScoreAsStored` | `Spec => []GapAccountable`, `Spec => []ScoredAsStored` |
| `RequestInvariant`, `OneRequest`, `RequestsAreDue` | `Spec => []RequestInv`, `Spec => []RequestedOnce`, `Spec => OnlyRepeatedFailuresRequest` |
| `ReadsInvariant`, `DetailsFit`, `FleetShowsDetail` | `Spec => []ReadsInv`, `Spec => []DetailCoherent`, `Spec => []FleetAgreesWithDetail` |
| `Operations_proofs!TypeCorrect` | `Spec => []OperationsTypeOK` |
| `RegistryInvariant`, `RegistryTypes` | registry alone: `RegistrySpec => []RegistryInv`, `[]TypeOK` |
| `AliasesStayApproved`, `ServedVersionsAreDecided`, `PromotionsRestOnApprovals` | `RegistrySpec => []AliasesApproved`, `[]ServedIsDecided`, `[]PromotedOnConcludedApproval` |
| `ReleasesHaveOneVersion`, `PromotionsAreAllOrNothing` | `RegistrySpec => []OneVersionPerRelease`, `[]PromotionAllOrNothing` |
| `ReleaseInvariant`, `ReleaseTypes` | whole pipeline: `Spec => []ReleaseInv`, `[]AllTypesOK` |
| `PublicationsAreSound`, `PublicationIsImmutable` | `Spec => []PublicationSound`, `Spec => PublishedOnce` |
| `OnlySoundDataIsRegistered`, `SuccessIsComplete` | `Spec => []RegisteredFromSoundData`, `[]SucceededIsComplete` |
| `PipelineKeepsRegistry` | `Spec => []` of the registry's four safety properties |

*Argument.* `NothingLost` is not inductive: moving the offset is safe because the
message in hand was staged one step before, and deleting a staged row is safe
because its event was stored one or two steps before. `HandInv` says what the
worker knows at each `pc` (the message in hand is valid or not, staged or not;
the current event is stored), and `IInv` is `TypeOK /\ HandInv /\ NothingLost /\
OriginalPreserved`. The type invariant needs `HandInv` too: the offset stays
within the log because `commit` is only reached with a message. There is one
lemma per action. `TelemetryStore_proofs` isolates what a transaction does:
`PersistType`, `PersistStores` (what was stored stays, and the event's identity
joins it), `PersistKeepsOneRow`.

*Refinement.* Under `IInv` the mapping never yields *lost*, so a fate depends on
the log, the offset and the stored identities alone (`FateIsKnown`). Publishing
is `Accept`, moving the offset is `AcknowledgeNext`, storing a new identity is
`Settle` or invisible when none of its copies is held, and every other step,
crashes included, is a stutter.

*Recovery.* What one `recover_pending` does depends on where each staged row is
meanwhile. `HeldInv`: in the rows still to be observed, in its engine's buffer, among
the released events, or in hand, and in one of them only; staged identities are
unique. From it:

* `NeverOvertakes` follows from `OrderInv`. The rows come sorted, so no row is older
  than what its buffer has seen and none is ever *late*; what is buffered is newer
  than what was released, and what is still to be observed is no older. The
  exception of the property is the clause `StoodFor`: a row the buffer called a
  duplicate has another event of its cycle buffered, released or handled.
* `ScoredConsistently` needs `ScoreInv`: quality columns and issues exist for stored
  events only, so a first copy is scored with exactly what its own transaction and
  its flush say, and a repeated copy with what is stored, or it conflicts.
* `WarningNotLost` needs `WarningInv`: an unrecorded warning is of a stored event that
  is still staged, and when a row is about to be deleted its event has none.

*Buffer.* What the properties say of past hand-outs is not inductive: the next call
may hand out anything the buffer holds. `HistoryInv` compares the history with what
the code keeps: no event is newer than `max_cycle`, and without a flush everything
handed out is behind the watermark. Then what is admitted or ripens is ahead of the
history; after a flush it is at most the window behind `max_cycle`, which bounds the
disorder. `CallsInv` (calls are numbered without gaps) makes an observed event new.

*Alerts.* That equal versions mean equal rows is not in the alert table alone: the
invariant `ViewsOnce` ties every view an operator still holds to the current row
(an older version, or the row itself), and every writer adds one to the version.
`ClosedIsResolved` (the state and `resolved_at` agree) is what makes an allowed
action miss closed rows. `UpsertedRows` states what one upsert does to a key. The
trail's invariant needs beside itself that an audit event is of an alert that exists
(`AuditOfAlerts`): a new alert is explained by an empty history. An upsert leaves state
and acknowledgement alone and lets the version grow (`UpsertedHistory`); a transition
appends the one event that leads from the old state to the new (`ViewsOnce` says
that the operator's view is the row).

*Concurrent requests.* `IngestInv` says what a transaction knows at its statement:
a key it has inserted and not committed is nobody else's (`KeysHeld`), a key it
found in use stays in use (`KeysFound`), and the row that told it there is no gap is
still there (`GapsKnown`). With them each statement is one step of `EventRegister`
or invisible. That predictions agree with rows and issues needs the tables to agree
with each other first (`TablesAgree`: gap issues are of degraded rows, all issues of
stored ones; a degraded row may have no issue, until a flush is recorded);
`QualityFlagged` turns the list of a prediction's flags into the set the property speaks
of. Reads and the monitoring job change none of
these tables, so `Operations` inherits all of it.

*Reads.* The statements of a detail see different tables, but these only grow, in an
order: the detail's issues are read last. `DetailInv` says per statement what has
been read and what of it is still true; `StoredWell` that no prediction is degraded
without its row, and that cycles and timestamps are bounded, so that a latest row
exists (`LatestRowIsLatest`). The clients' statements keep both.

*Requests for a candidate.* `RequestInv`: before the latch nothing was requested;
between latch and trigger the latch is set, nothing was requested and the history
still fails twice. A task that dies with its latch set finds it in its next attempt.

*Registry.* The tables `versions` and `decisions` only grow in what matters
(`Grows`: versions stay, an approval stays, a concluded decision stays concluded),
so a fact about them that a command or a worker has verified stays true whoever acts
next. `RegistryInv` collects these facts per program counter (`Knows`, `Resolved`)
as operators on the tables' contents; each action needs one lemma about itself and
none about the others. `Unique` adds that a registration about to create a version
has found none, which only it could change. `AliasesStand` adds what an undisturbed
promotion knows of the aliases at each of its calls, from which all or nothing
follows.

*Pipeline.* `ReleaseInv` joins the registry's invariants with the dataset's (a
publication is written once, with a status that can be published) and the run's: a
task has behind it the results of all tasks before (`Reached`), which accumulate and
are never removed. Each step of the pipeline is a step of the registry or leaves it
alone, so the registry's theorems carry over.

*Gates.* A publication's status is that of the source, which never changes, so
`PublicationSound` is a fact about sources that pass `validate_fd001`: `GateOfSplit`
(all lines are rows of an expected engine, and each cycle up to its last occurs in
exactly one line) and `GateOfLabels` (one positive label per engine, the n-th line for
engine n, because in `1..n` the number at place n is n).

*Only model-checked:* the liveness properties `EverythingSettles`,
`OnlyErrorsBlock`, `ImplementsFairIngest` (its safety is `Refinement`), `EveryRunEnds`,
`WorkersServe` and `MonitoringResumes`: they need fairness and `ENABLED`, which
the prover does not reason about. The five disagreements of section 6 are counterexamples on
small instances and need no proof.

## 5. Not modelled

* Two workers on one staging table: their transactions race in
  `IngestTransactions`, but that one deletes a row the other has in its buffer, or
  overtakes the other's cycle, is not modelled; `TelemetryConsumer` has one worker.
* Two registrations of one release at once: the pipeline runs one at a time, and two
  command lines are left to their users.
* The API gateway writing directly while a worker stores the same engine: the two
  are variants of one deployment (`Inference`).
* A late event is stored like any other. The architecture document wants a
  correction policy for it; there is no code to model.
* Alerts are not part of `TelemetryStore`: nothing there reads them. Deadlocks
  between two transactions over alert rows are left to PostgreSQL.
* The artifact cache on disk, the prediction history and summary queries, the
  contents of packages, records and reports, the numerical training and drift code.
* Metrics, logging, the dashboard, the migrations and argument parsing have no
  control worth modelling.

The broker, the database, the file system and MLflow appear only through what the
code does with them: an appended message stays, a transaction is atomic, a rename
happens or does not, a call may lose its answer.

## 6. Disagreements with the documentation

* **A retry is not a safe duplicate** (`ConsumerCrashRetry`). A new event's flags
  are the caller's, then `cycle_gap`; a repeated event's are the stored issues,
  then the caller's. After an idle flush of an event with a gap, a crash before
  the staged row is deleted makes the second attempt compute other flags,
  `_matches_existing` compares lists, and the processor raises. Phase 5 promises
  "telemetry and prediction uniqueness constraints turn the retry into a safe
  duplicate".
* **Such an event blocks the worker for good** (`ConsumerPoison`). The exception
  leaves `recover_pending`, which runs before every poll. No crash is needed: a
  second copy published after the flush suffices. Phase 3 promises "Quarantine or
  dead-letter without blocking a partition forever". An event the model fails on, and
  one PostgreSQL refuses, block the worker in the same way (`OnlyErrorsBlock` names all
  three); the run shows the one that needs no unusual event.
* **Changed content may vanish** (`ConsumerChangedContent`). `persist_pending_event`
  ignores a second message of a staged identity whatever its content, and its
  offset is committed. The readme promises `CONFLICT`.
* **A retry can duplicate an alert** (`AlertReplay`). The processor persists alerts
  whether the prediction is new or a duplicate. If an operator closed the alert in
  between, the partial index no longer holds it, and the same event opens a second
  one. Phase 3 promises that retries "cannot create duplicate predictions or alerts".
* **Sustained failures request nothing** (`Retraining`). Reports name the failing
  check `model_mae_degradation:<release>`; the policy looks for
  `model_mae_degradation` exactly, and the drift checks it also knows are at worst
  warnings. However many windows fail, no candidate is requested, although the DAG
  says "Trigger candidate training once for a sustained failure sequence" and the
  readme that two consecutive failed windows request a run. `RequestedOnce` and
  `OnlyRepeatedFailuresRequest` are therefore checked with drills, in which a report
  with the name the policy knows is put into the history.

## 7. Plan

Done: the event path, alerts, concurrent ingestion, reads, monitoring, dataset,
candidate pipeline, registry and release, with the proofs of section 4. What would
come next:

1. Two workers in `TelemetryConsumer`, to say what overtaking and deletion do to
   `NeverOvertakes` and `WarningNotLost`, whose proofs use that only this worker
   deletes staged rows.
2. A theorem that joins buffer and worker: `recover_pending` uses `observe` and `flush`
   as one of the callers of `ReorderBuffer`, whose promises it then inherits.
3. For the liveness properties, the safety part of their arguments: what a recovery
   has left to do decreases with each of its steps.
