--------------------------- MODULE OperationalReads ---------------------------
(***************************************************************************)
(* storage/operational.py: the fleet view, one statement for all engines,  *)
(* and the equipment detail, whose statements each see a later state of    *)
(* the tables.  Alerts are in AlertLifecycle.                              *)
(***************************************************************************)
EXTENDS TelemetryStore

CONSTANT Timestamp \* event_timestamp of each event

ASSUME TimestampAssumption ==
    /\ Timestamp \in [Message -> Nat]
    /\ \A m, n \in Message : Timestamp[m] = Timestamp[n] => m = n

VARIABLE detail \* the equipment detail being read, for one engine

EngineRows(e) == {t \in telemetry : t.engine_id = e}

Scored(t) == \E p \in predictions : p.event_id = t.event_id

PredictionsOf(t) == {p \in predictions : p.event_id = t.event_id}

(* Mutant of LatestRow: the newest timestamp, whatever its cycle.          *)
NewestRow(e) ==
    CHOOSE t \in EngineRows(e) : \A u \in EngineRows(e) : Timestamp[t] >= Timestamp[u]

(* ORDER BY cycle DESC, event_timestamp DESC.                              *)
LatestRow(e) ==
    CHOOSE t \in EngineRows(e) :
        \A u \in EngineRows(e) :
            t.cycle > u.cycle \/ (t.cycle = u.cycle /\ Timestamp[t] >= Timestamp[u])

(* Rows the CTE latest_prediction may choose: generated_at breaks ties.    *)
NewestScored(e) ==
    {t \in EngineRows(e) : Scored(t) /\ \A u \in EngineRows(e) : Scored(u) => t.cycle >= u.cycle}

(* LEFT JOIN latest_prediction ON p.event_id = e.event_id.                 *)
FleetPrediction(e, newest) ==
    {p \in predictions : p.event_id = newest.event_id /\ p.event_id = LatestRow(e).event_id}

Valid(p) == p.status \in {"available", "degraded"}

ValidRows(e) == {t \in EngineRows(e) : \E p \in PredictionsOf(t) : Valid(p)}

(* _derive_health_status, of none or one prediction.                       *)
Health(prediction, stale) ==
    IF prediction = {} THEN "unavailable"
    ELSE IF \E p \in prediction : p.status = "withheld" THEN "withheld"
    ELSE IF stale THEN "stale"
    ELSE IF \E p \in prediction : p.status = "degraded" THEN "degraded"
    ELSE "current"

(* Mutant of ListedIssues: only those of the event that is latest now.     *)
IssuesOfLatest(e) ==
    {row \in IssueRows : row[2] = LatestRow(e).event_id}

(* The open issues of the engine: a refused copy's are of the engine it    *)
(* names, the others of the stored event's.                                *)
ListedIssues(e) ==
    LET ids == {t.event_id : t \in EngineRows(e)} IN
    {row \in IssueRows :
        IF row[1] = "conflicting_duplicate" THEN row[2].engine_id = e ELSE row[2] \in ids}

-----------------------------------------------------------------------------
(* load_equipment_detail.  latest, prediction and last_valid are sets of   *)
(* at most one element.                                                    *)

NoDetail ==
    [pc |-> "idle", latest |-> {}, prediction |-> {}, last_valid |-> {},
     issues |-> {}, health |-> "unavailable"]

DetailTypeOK ==
    detail \in [pc : {"idle", "last_valid", "issues", "done"},
                latest : SUBSET Message, prediction : SUBSET PredictionRow,
                last_valid : SUBSET Message, issues : SUBSET AnyIssue,
                health : {"unavailable", "withheld", "stale", "degraded", "current"}]

(* An engine without telemetry is answered with 404.                       *)
ReadCurrent(e) ==
    /\ detail.pc = "idle"
    /\ EngineRows(e) # {}
    /\ detail' = [NoDetail EXCEPT
           !.pc = "last_valid",
           !.latest = {LatestRow(e)},
           !.prediction = PredictionsOf(LatestRow(e))]
    /\ UNCHANGED storeVars

Subject == {t.engine_id : t \in detail.latest}

ReadLastValid ==
    /\ detail.pc = "last_valid"
    /\ \E e \in Subject :
          \/ ValidRows(e) = {} /\ detail' = [detail EXCEPT !.pc = "issues"]
          \/ \E t \in ValidRows(e) :
                /\ \A u \in ValidRows(e) : t.cycle >= u.cycle
                /\ detail' = [detail EXCEPT !.pc = "issues", !.last_valid = {t}]
    /\ UNCHANGED storeVars

ReadIssues ==
    /\ detail.pc = "issues"
    /\ \E e \in Subject, stale \in BOOLEAN :
          detail' = [detail EXCEPT !.pc = "done", !.issues = ListedIssues(e),
                                   !.health = Health(detail.prediction, stale)]
    /\ UNCHANGED storeVars

Answered == detail.pc = "done" /\ detail' = NoDetail /\ UNCHANGED storeVars

ReadDetail == (\E e \in Engines : ReadCurrent(e)) \/ ReadLastValid \/ ReadIssues \/ Answered

-----------------------------------------------------------------------------
(* The parts of one answer, read at different times, fit together: a       *)
(* latest prediction with a value is not newer than the last valid one, a  *)
(* gap it is flagged with is among the issues, and its health is reduced   *)
(* for no other reason than such a gap or the flush of its event.  The     *)
(* flush's own issue may be missing: it is written after the prediction is *)
(* committed (consumer.py 205-216), and not at all by a worker that dies.  *)
DetailCoherent ==
    detail.pc = "done" =>
        \A t \in detail.latest, p \in detail.prediction :
            LET gap_listed == <<"cycle_gap", t.event_id>> \in detail.issues IN
            /\ Valid(p) => \E u \in detail.last_valid : u.cycle >= t.cycle
            /\ "cycle_gap" \in FlagsOf(p) => gap_listed
            /\ detail.health = "degraded" =>
                  gap_listed \/ "ordering_window_expired" \in FlagsOf(p)

(* While the engine's cycles are distinct, the fleet view and the detail   *)
(* show the same prediction for an engine (load_fleet_health takes the     *)
(* latest event and the latest scored event apart, and joins them).        *)
FleetAgreesWithDetail ==
    \A e \in Engines :
        (\A t, u \in EngineRows(e) : t.cycle = u.cycle => t = u) =>
            \A newest \in NewestScored(e) :
                FleetPrediction(e, newest) = PredictionsOf(LatestRow(e))

=============================================================================
