---------------------------- MODULE AlertLifecycle ----------------------------
(***************************************************************************)
(* The alert table (storage/alerts.py) between its two kinds of writers:   *)
(* the worker, whose processing transaction ends with                      *)
(* persist_prediction_alerts_transaction, and operators, who read an alert *)
(* through the gateway and later act on it with transition_alert.          *)
(*                                                                         *)
(* The worker may evaluate a prediction again, since it commits the same   *)
(* transaction for a repeated event (RepeatEvent of TelemetryStore).  Row  *)
(* locks (ON CONFLICT DO UPDATE, FOR UPDATE) serialise the writers of an   *)
(* alert, so each transaction is one step; what an operator read before is *)
(* as old as the steps since.                                              *)
(***************************************************************************)
EXTENDS Integers, Sequences, FiniteSets

CONSTANTS
    Prediction,         \* the persisted predictions
    WarningRul,         \* AlertPolicy; None is -1, which no RUL is below
    CriticalRul,
    DataQualityAlerts,
    Operators,
    NoOne,              \* NULL in acknowledged_by
    NoView,             \* an operator who has read nothing
    MaxEvaluations      \* bound: alert evaluations

ASSUME AlertAssumption ==
    /\ \A p \in Prediction :
          DOMAIN p = {"event_id", "engine_id", "status", "estimated_rul",
                      "quality_flags"}
    /\ WarningRul \in Int /\ CriticalRul \in Int
    /\ WarningRul # -1 => CriticalRul <= WarningRul
    /\ DataQualityAlerts \in BOOLEAN
    /\ NoOne \notin Operators
    /\ MaxEvaluations \in Nat

(* deduplication_key.                                                      *)
Keys ==
    UNION {{[alert_type |-> "DATA_QUALITY", engine_id |-> p.engine_id, flag |-> f] :
                f \in p.quality_flags} : p \in Prediction}
    \cup {[alert_type |-> "EQUIPMENT_RISK", engine_id |-> p.engine_id, flag |-> "none"] :
                p \in Prediction}

VARIABLES
    alerts,      \* [Keys -> sequence of rows]: the alerts of a key, oldest first;
                 \* <<key, number>> stands for alert_id
    audit,       \* audit_event: the rows of human actions, in order
    views,       \* [Operators -> the alert an operator has in front of him]
    evaluations  \* predictions evaluated so far (bounds the model)

vars == <<alerts, audit, views, evaluations>>

Init ==
    /\ alerts = [k \in Keys |-> <<>>]
    /\ audit = <<>>
    /\ views = [o \in Operators |-> NoView]
    /\ evaluations = 0

-----------------------------------------------------------------------------
(* persist_prediction_alerts_transaction.                                  *)

CriticalFlags == {"invalid_data_quality", "incompatible_schema", "feature_build_error"}

(* The severity a prediction decides for an alert key, or "NONE".          *)
QualitySeverity(p, flag) ==
    IF ~DataQualityAlerts \/ flag \notin p.quality_flags THEN "NONE"
    ELSE IF flag \in CriticalFlags THEN "CRITICAL" ELSE "WARNING"

RiskSeverity(p) ==
    IF p.status = "withheld" THEN "NONE"
    ELSE IF p.estimated_rul <= CriticalRul THEN "CRITICAL"
    ELSE IF p.estimated_rul <= WarningRul THEN "WARNING" ELSE "NONE"

Severity(p, key) ==
    IF key.engine_id # p.engine_id THEN "NONE"
    ELSE IF key.alert_type = "DATA_QUALITY" THEN QualitySeverity(p, key.flag)
    ELSE RiskSeverity(p)

Opened(p, severity) ==
    [state |-> "open", severity |-> severity, source_event_id |-> p.event_id,
     acknowledged_by |-> NoOne, resolved |-> FALSE, version |-> 1]

(* Mutant of Refreshed: the refresh is not a new version.                  *)
RefreshedQuietly(row, p, severity) ==
    [row EXCEPT !.severity = severity, !.source_event_id = p.event_id]

(* Mutant of Refreshed: the refresh opens the alert again.                 *)
RefreshedReopening(row, p, severity) ==
    [row EXCEPT !.state = "open", !.severity = severity,
                !.source_event_id = p.event_id, !.version = @ + 1]

(* The refresh leaves the state, and who acknowledged it, alone.           *)
Refreshed(row, p, severity) ==
    [row EXCEPT !.severity = severity, !.source_event_id = p.event_id,
                !.version = @ + 1]

(* Mutants of Conflicting: acknowledged alerts do not count as active;     *)
(* closed ones do.                                                         *)
ConflictingOpen(row) == row.state = "open"
ConflictingAny(row) == TRUE

(* ON CONFLICT (deduplication_key) WHERE resolved_at IS NULL.              *)
Conflicting(row) == ~row.resolved

Upserted(rows, p, severity) ==
    IF severity = "NONE" THEN rows
    ELSE IF \E n \in DOMAIN rows : Conflicting(rows[n])
    THEN [n \in DOMAIN rows |->
            IF Conflicting(rows[n]) THEN Refreshed(rows[n], p, severity) ELSE rows[n]]
    ELSE Append(rows, Opened(p, severity))

Evaluate(p) ==
    /\ evaluations < MaxEvaluations
    /\ evaluations' = evaluations + 1
    /\ alerts' = [k \in Keys |-> Upserted(alerts[k], p, Severity(p, k))]
    /\ UNCHANGED <<audit, views>>

-----------------------------------------------------------------------------
(* Operators.                                                              *)

View(key, number) == [key |-> key, number |-> number, row |-> alerts[key][number]]

Read(o) ==
    /\ \E key \in Keys : \E number \in DOMAIN alerts[key] :
          views' = [views EXCEPT ![o] = View(key, number)]
    /\ UNCHANGED <<alerts, audit, evaluations>>

NewState == [acknowledge |-> "acknowledged", dismiss |-> "dismissed",
             resolve |-> "resolved"]

Actions == DOMAIN NewState

(* Mutant of Allowed: only what would change nothing is refused.           *)
AllowedWheneverNew(state, action) == NewState[action] # state

(* _next_state.                                                            *)
Allowed(state, action) ==
    \/ state = "open"
    \/ state = "acknowledged" /\ action # "acknowledge"

Transitioned(row, o, action) ==
    [row EXCEPT !.state = NewState[action],
                !.acknowledged_by = IF action = "acknowledge" THEN o ELSE @,
                !.resolved = @ \/ action \in {"dismiss", "resolve"},
                !.version = @ + 1]

AuditEvent(view, row, o, action) ==
    [key |-> view.key, number |-> view.number, actor |-> o,
     old_state |-> row.state, new_state |-> NewState[action],
     old_version |-> row.version, new_version |-> row.version + 1]

(* transition_alert: refused without a trace if the version is not the one *)
(* the operator read (409) or the state does not allow the action.  The    *)
(* answer shows the new row, unless it is lost.                            *)
Transition(o, action) ==
    /\ views[o] # NoView
    /\ LET view == views[o]
           row  == alerts[view.key][view.number]
       IN  /\ row.version = view.row.version
           /\ Allowed(row.state, action)
           /\ alerts' = [alerts EXCEPT ![view.key][view.number] =
                                            Transitioned(row, o, action)]
           /\ audit' = Append(audit, AuditEvent(view, row, o, action))
           /\ \/ UNCHANGED views
              \/ views' = [views EXCEPT ![o].row = Transitioned(row, o, action)]
    /\ UNCHANGED evaluations

Next ==
    \/ \E p \in Prediction : Evaluate(p)
    \/ \E o \in Operators : Read(o)
    \/ \E o \in Operators, action \in Actions : Transition(o, action)

Spec == Init /\ [][Next]_vars

-----------------------------------------------------------------------------
EventIds == {p.event_id : p \in Prediction}

Row ==
    [state : {"open", "acknowledged", "dismissed", "resolved"},
     severity : {"WARNING", "CRITICAL"},
     source_event_id : EventIds,
     acknowledged_by : Operators \cup {NoOne},
     resolved : BOOLEAN,
     version : Nat \ {0}]

AuditRow ==
    [key : Keys, number : Nat \ {0}, actor : Operators,
     old_state : {"open", "acknowledged"},
     new_state : {"acknowledged", "dismissed", "resolved"},
     old_version : Nat \ {0}, new_version : Nat \ {0}]

TypeOK ==
    /\ alerts \in [Keys -> Seq(Row)]
    /\ audit \in Seq(AuditRow)
    /\ \A o \in Operators :
          \/ views[o] = NoView
          \/ /\ views[o] \in [key : Keys, number : Nat \ {0}, row : Row]
             /\ views[o].number \in DOMAIN alerts[views[o].key]
    /\ DOMAIN views = Operators
    /\ evaluations \in 0..MaxEvaluations

(* Deduplication: whatever predictions and operators do, in whatever       *)
(* order, a key has at most one active alert.                              *)
OneActivePerKey ==
    \A k \in Keys : \A i, j \in DOMAIN alerts[k] :
        ~alerts[k][i].resolved /\ ~alerts[k][j].resolved => i = j

(* "Optimistic concurrency uses a record version so simultaneous human     *)
(* updates cannot silently overwrite one another"                          *)
(* (03-production-architecture.md): an action is only ever applied to the  *)
(* row its operator saw, neither changed by another operator nor made more *)
(* severe by a prediction in between.                                      *)
ActedOnSeen ==
    [][\A n \in DOMAIN audit' \ DOMAIN audit :
          LET event == audit'[n]
          IN  /\ views[event.actor].key = event.key
              /\ views[event.actor].number = event.number
              /\ alerts[event.key][event.number] = views[event.actor].row]_vars

(* A closed alert is history: no later prediction or action changes it.    *)
ClosedForGood ==
    [][\A k \in Keys : \A n \in DOMAIN alerts[k] :
          alerts[k][n].resolved => alerts'[k][n] = alerts[k][n]]_vars

EventsOf(k, n) == {i \in DOMAIN audit : audit[i].key = k /\ audit[i].number = n}

(* The newest of some audit events led to this state, at most at this      *)
(* version; with none of them, an alert is still open.                     *)
LeadTo(events, state, version) ==
    IF events = {} THEN state = "open"
    ELSE \E last \in events :
            /\ \A i \in events : i <= last
            /\ audit[last].new_state = state
            /\ audit[last].new_version <= version

(* "Alert state changes update the current alert row and append an audit   *)
(* event in one transaction" (03-production-architecture.md): an alert's   *)
(* audit events form a path from "open" to its state, at growing versions; *)
(* in particular only a human ever closes an alert.                        *)
AuditExplainsState ==
    \A k \in Keys : \A n \in DOMAIN alerts[k] :
        LET row    == alerts[k][n]
            events == EventsOf(k, n)
        IN  /\ LeadTo(events, row.state, row.version)
            /\ \A i \in events :
                  LeadTo({j \in events : j < i}, audit[i].old_state, audit[i].old_version)
            /\ row.resolved <=> row.state \in {"dismissed", "resolved"}
            /\ row.acknowledged_by # NoOne <=>
                  \E i \in events : audit[i].new_state = "acknowledged"

(* "Retries are expected and cannot create duplicate predictions or        *)
(* alerts" (03-production-architecture.md): no event opens two alerts of   *)
(* one key.                                                                *)
NoDuplicateAlerts ==
    \A k \in Keys : \A i, j \in DOMAIN alerts[k] :
        alerts[k][i].source_event_id = alerts[k][j].source_event_id => i = j
=============================================================================
