------------------------------ MODULE Monitoring ------------------------------
(***************************************************************************)
(* The scheduled monitoring run (airflow/dags/monitoring_pipeline.py): its *)
(* first task writes a report of the trailing window (monitoring/job.py),  *)
(* its second asks for a retraining candidate when the reports in the      *)
(* history say so.  Airflow repeats a task that failed or was killed, or   *)
(* gives the run up; the next run starts afresh.                           *)
(*                                                                         *)
(* Of a report, the failed checks matter: no other status starts anything. *)
(* The rates of build_operational_checks are in it for people to read.     *)
(***************************************************************************)
EXTENDS TelemetryStore

CONSTANTS
    NullMeasured, \* events with a measurement that is null
    Drills        \* the failed checks a report put into the history by hand has

ASSUME NullAssumption == NullMeasured \subseteq Unscorable

Degradation == "model_mae_degradation"
DegradationOfRelease == "model_mae_degradation:release"

(* The checks that can fail at all: those of the rates, which no one looks *)
(* for, are left out, and a drifted feature is only ever a warning.        *)
FailedChecks == SUBSET {Degradation, DegradationOfRelease}

ASSUME DrillAssumption == Drills \subseteq FailedChecks

VARIABLES
    scheduled,   \* the DAG is not paused
    window,      \* what was ingested in this window and in the one before
    degraded_mae, \* the outcomes recorded in this window fail the MAE check
    run,         \* the step the scheduled run is at, and its report
    history,     \* the failed checks of the newest reports, newest last
    torn,        \* a report in the history has no content
    latest,      \* latest.json, which the API serves
    latch,       \* retraining-request.json exists
    requested    \* candidate runs triggered

monitoringVars ==
    <<scheduled, window, degraded_mae, run, history, torn, latest, latch, requested>>

ReportVars == <<history, torn, latest>>

(* Bounds: the policy looks at two reports; a third request is like a      *)
(* second.                                                                 *)
HistoryBound == 2
RequestBound == 2

ReportSteps == {"load", "latest", "fill", "history", "append"}
RequestSteps == {"decide", "latch", "trigger"}

MonitoringTypeOK ==
    /\ window \in [recent : SUBSET EventIds, reference : SUBSET EventIds,
                   issues : SUBSET AnyIssue]
    /\ degraded_mae \in BOOLEAN
    /\ run \in [pc : {"idle", "done"} \cup ReportSteps \cup RequestSteps,
                report : FailedChecks]
    /\ history \in UNION {[1 .. n -> FailedChecks] : n \in 0 .. HistoryBound}
    /\ latest \in {"missing", "partial", "complete"}
    /\ scheduled \in BOOLEAN /\ torn \in BOOLEAN /\ latch \in BOOLEAN
    /\ requested \in 0 .. RequestBound

MonitoringInit ==
    /\ scheduled \in BOOLEAN
    /\ window = [recent |-> {}, reference |-> {}, issues |-> {}]
    /\ degraded_mae = FALSE
    /\ run = [pc |-> "idle", report |-> {}]
    /\ history = <<>>
    /\ latest = "missing"
    /\ torn = FALSE
    /\ latch = FALSE
    /\ requested = 0

-----------------------------------------------------------------------------
(* The surroundings: rows are added, outcomes observed, and time passes.   *)

WindowFollowsStore ==
    window' = [window EXCEPT
        !.recent = @ \cup (StoredIds' \ StoredIds),
        !.issues = @ \cup (IssueRows' \ IssueRows)]

(* record_prediction_outcome, of predictions with a value.  A later        *)
(* outcome of a prediction replaces the one before; no data is a pass.     *)
RecordOutcome ==
    /\ \E p \in predictions : p.status # "withheld"
    /\ degraded_mae' \in BOOLEAN
    /\ UNCHANGED <<scheduled, window, run, ReportVars, latch, requested>>

(* Mutant of NextWindow: the issues are counted with no lower bound.       *)
NextWindowOfAllIssues ==
    [recent |-> {}, reference |-> window.recent, issues |-> window.issues]

NextWindow == [recent |-> {}, reference |-> window.recent, issues |-> {}]

(* 24 hours pass without an event.                                         *)
WindowMoves ==
    /\ run.pc \in {"idle", "done"}
    /\ window' = NextWindow
    /\ degraded_mae' = FALSE
    /\ UNCHANGED <<scheduled, run, ReportVars, latch, requested>>

-----------------------------------------------------------------------------
(* The first task: run_monitoring_job.                                     *)

At(pc) == run.pc = pc
Goto(pc) == run' = [run EXCEPT !.pc = pc]

StartRun ==
    /\ scheduled
    /\ run.pc \in {"idle", "done"}
    /\ run' = [pc |-> "load", report |-> {}]
    /\ UNCHANGED <<scheduled, window, degraded_mae, ReportVars, latch, requested>>

(* evaluate_rate raises unless 0 <= numerator <= denominator.              *)
Countable == Cardinality(window.issues) <= Cardinality(window.recent)

(* load_sensor_windows raises on a null: float(None).                      *)
Convertible ==
    \A m \in NullMeasured \cap telemetry :
        m.event_id \notin window.recent \cup window.reference

MaeCheck == IF degraded_mae THEN {DegradationOfRelease} ELSE {}

Load ==
    /\ At("load")
    /\ Countable /\ Convertible
    /\ run' = [pc |-> "latest", report |-> MaeCheck]
    /\ UNCHANGED <<scheduled, window, degraded_mae, ReportVars, latch, requested>>

(* output_path.write_text empties the file, then writes it.                *)
EmptyLatest ==
    /\ At("latest") /\ Goto("fill")
    /\ latest' = "partial"
    /\ UNCHANGED <<scheduled, window, degraded_mae, history, torn, latch, requested>>

FillLatest ==
    /\ At("fill") /\ Goto("history")
    /\ latest' = "complete"
    /\ UNCHANGED <<scheduled, window, degraded_mae, history, torn, latch, requested>>

CreateHistoryFile ==
    /\ At("history") /\ Goto("append")
    /\ UNCHANGED <<scheduled, window, degraded_mae, ReportVars, latch, requested>>

Newest(reports) ==
    IF Len(reports) <= HistoryBound THEN reports
    ELSE SubSeq(reports, Len(reports) - HistoryBound + 1, Len(reports))

FillHistoryFile ==
    /\ At("append")
    /\ run' = [pc |-> "decide", report |-> {}]
    /\ history' = Newest(Append(history, run.report))
    /\ UNCHANGED <<scheduled, window, degraded_mae, torn, latest, latch, requested>>

-----------------------------------------------------------------------------
(* The second task: request_candidate_if_needed.                           *)

(* evaluate_retraining_policy's check_names; the prefix "feature_drift:"   *)
(* it also accepts names no check that fails.                              *)
CheckNames == {Degradation}

FailedWindow(report) == report \cap CheckNames # {}

(* Mutant of RequestDue: one window is enough.                             *)
RequestDueAtOnce == history # <<>> /\ FailedWindow(history[Len(history)])

(* required_failed_windows = 2 of the newest reports, in a row.            *)
RequestDue ==
    /\ Len(history) >= 2
    /\ \A i \in Len(history) - 1 .. Len(history) : FailedWindow(history[i])

(* Mutant of AlreadyRequested: the latch is not looked at.                 *)
NeverRequested == FALSE

AlreadyRequested == latch

(* evaluate_report_history cannot read a report without content.           *)
Decide ==
    /\ At("decide")
    /\ ~torn
    /\ Goto(IF RequestDue /\ ~AlreadyRequested THEN "latch" ELSE "done")
    /\ UNCHANGED <<scheduled, window, degraded_mae, ReportVars, latch, requested>>

WriteLatch ==
    /\ At("latch") /\ Goto("trigger")
    /\ latch' = TRUE
    /\ UNCHANGED <<scheduled, window, degraded_mae, ReportVars, requested>>

TriggerCandidate ==
    /\ At("trigger") /\ Goto("done")
    /\ requested < RequestBound /\ requested' = requested + 1
    /\ UNCHANGED <<scheduled, window, degraded_mae, ReportVars, latch>>

-----------------------------------------------------------------------------
Raises ==
    \/ At("load") /\ ~(Countable /\ Convertible)
    \/ At("decide") /\ torn

(* The step raises in every attempt, and the run is given up.              *)
RunFails ==
    /\ Raises
    /\ Goto("idle")
    /\ UNCHANGED <<scheduled, window, degraded_mae, ReportVars, latch, requested>>

(* The process of a task dies, or a write or the trigger fails, with or    *)
(* without an attempt left; a trigger may have been made by then.  A       *)
(* history file that was just created stays empty for good.                *)
TaskDies ==
    /\ ~Raises
    /\ \/ run.pc \in ReportSteps /\ run' \in [pc : {"load", "idle"}, report : {{}}]
       \/ run.pc \in RequestSteps /\ run' \in [pc : {"decide", "idle"}, report : {{}}]
    /\ torn' = (torn \/ At("append"))
    /\ \/ requested' = requested
       \/ At("trigger") /\ requested < RequestBound /\ requested' = requested + 1
    /\ UNCHANGED <<scheduled, window, degraded_mae, history, latest, latch>>

(* Somebody exercises the retraining path by hand (readme.md 50-54 tells   *)
(* of it): puts a report into the history, and may then have Airflow       *)
(* repeat the second task alone; a run would add a report of its own.      *)
Drill ==
    /\ run.pc \in {"idle", "done"}
    /\ \E report \in Drills : history' = Newest(Append(history, report))
    /\ \/ run' = run
       \/ run' = [pc |-> "decide", report |-> {}]
    /\ UNCHANGED <<scheduled, window, degraded_mae, torn, latest, latch, requested>>

(* GET /v1/monitoring/report: 404, 503 or the report.                      *)
ReportAnswer ==
    CASE latest = "missing" -> 404 [] latest = "partial" -> 503 [] OTHER -> 200

RunAdvances ==
    \/ StartRun \/ Load \/ EmptyLatest \/ FillLatest \/ CreateHistoryFile
    \/ FillHistoryFile \/ Decide \/ WriteLatch \/ TriggerCandidate \/ RunFails

ScheduledRun == RunAdvances \/ TaskDies

(* Airflow starts a run every fifteen minutes and executes its tasks; the  *)
(* window trails the clock, and runs end in between.                       *)
MonitoringFairness ==
    /\ WF_monitoringVars(RunAdvances)
    /\ SF_monitoringVars(scheduled /\ WindowMoves)

-----------------------------------------------------------------------------
(* However often the request task is killed and repeated, one candidate    *)
(* run is triggered (the latch is written before, monitoring_pipeline.py   *)
(* 26-46).                                                                 *)
RequestedOnce == requested <= 1

(* A candidate is only asked for when the two newest reports, of two runs  *)
(* or drills, both failed a check of the policy, whatever was killed and   *)
(* repeated in between.                                                    *)
FailingTwice ==
    /\ Len(history) = HistoryBound
    /\ \A i \in DOMAIN history :
          \E check \in history[i] : check \in {Degradation, DegradationOfRelease}

OnlyRepeatedFailuresRequest == [][requested' # requested => FailingTwice]_requested

(* The job raises while a null measurement is in its windows or while the  *)
(* issues outnumber the events of its window.  Both pass with time: unless *)
(* tasks go on dying or being repeated by hand, or one left an empty file  *)
(* in the history, which fails every later run, reports are served and     *)
(* runs succeed again.                                                     *)
MonitoringResumes ==
    scheduled /\ <>[][~(TaskDies \/ Drill)]_monitoringVars
        => []<>(At("done") /\ ReportAnswer = 200) \/ <>torn

(* What the DAG says of itself: sustained failures request a candidate.    *)
SustainedFailureRequests == At("done") /\ FailingTwice => latch

=============================================================================
