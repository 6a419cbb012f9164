--------------------------- MODULE TelemetryStore ---------------------------
(***************************************************************************)
(* The tables an event's processing transaction touches, and that          *)
(* transaction: persist_telemetry_event_transaction (storage/database.py)  *)
(* followed, when inference is configured, by InferenceWorker.process and  *)
(* persist_prediction_transaction (TransactionalInferenceProcessor.process *)
(* in inference/processor.py).  PostgreSQL applies the transaction as one  *)
(* step; what its caller does around it is in TelemetryConsumer.           *)
(*                                                                         *)
(* Events are records.  payload_digest covers every field of an event, so  *)
(* "same digest" is equality of records; "content" stands for the          *)
(* measurements and all else two events of one identity can differ in.     *)
(***************************************************************************)
EXTENDS Integers, Sequences, FiniteSets

CONSTANTS
    Message,       \* the valid telemetry events of the instance
    Unscorable,    \* those whose measurements FeatureBuilder.build refuses
    Unpredictable, \* those on which the model raises or returns no valid RUL
    Inference      \* TRUE when the worker has an event processor

EventIds == {m.event_id : m \in Message}
Engines == {m.engine_id : m \in Message}

ASSUME StoreAssumption ==
    /\ \A m \in Message : DOMAIN m = {"event_id", "engine_id", "cycle", "content"}
    /\ \A m \in Message : m.engine_id \in Nat \ {0} /\ m.cycle \in Nat \ {0}
    /\ Unscorable \subseteq Message
    /\ Unpredictable \subseteq Message
    /\ Inference \in BOOLEAN

VARIABLES
    telemetry,       \* telemetry_event: the events inserted
    degraded,        \* ids of its rows whose quality_status is DEGRADED
    gap_issues,      \* data_quality_issue rows of type cycle_gap: event ids
    expired_issues,  \* ... of type ordering_window_expired: event ids
    conflict_issues, \* ... of type conflicting_duplicate: the refused events
    predictions      \* prediction, for the one release the worker has loaded

storeVars == <<telemetry, degraded, gap_issues, expired_issues,
               conflict_issues, predictions>>

Flag == {"ordering_window_expired", "cycle_gap", "feature_build_error"}

(* The RUL and the feature version are functions of the event and the      *)
(* release; data_quality_status follows from status.  Left are the fields  *)
(* on which two predictions of one event can differ.                       *)
PredictionRow ==
    [event_id : EventIds, status : {"available", "degraded", "withheld"},
     quality_flags : Seq(Flag)]

StoreInit ==
    /\ telemetry = {}
    /\ degraded = {}
    /\ gap_issues = {}
    /\ expired_issues = {}
    /\ conflict_issues = {}
    /\ predictions = {}

-----------------------------------------------------------------------------
(* What the transaction reads.                                             *)

StoredIds == {t.event_id : t \in telemetry}

(* Mutant of Outcome: compares contents and never looks for the identity.  *)
OutcomeByDigest(m) == IF m \in telemetry THEN "duplicate" ELSE "inserted"

Outcome(m) ==
    IF m.event_id \notin StoredIds THEN "inserted"
    ELSE IF m \in telemetry THEN "duplicate"
    ELSE "conflict"

(* previous_cycle IS NOT NULL and m.cycle > previous_cycle + 1, where      *)
(* previous_cycle is the engine's max(cycle).                              *)
HasGap(m) ==
    LET rows == {t \in telemetry : t.engine_id = m.engine_id}
    IN  rows # {} /\ \A t \in rows : m.cycle > t.cycle + 1

(* data_quality_issue, by the type of the issue.                           *)
IssueRows ==
    ({"cycle_gap"} \X gap_issues) \cup ({"ordering_window_expired"} \X expired_issues)
        \cup ({"conflicting_duplicate"} \X conflict_issues)

AnyIssue ==
    ({"cycle_gap", "ordering_window_expired"} \X EventIds)
        \cup ({"conflicting_duplicate"} \X Message)

FlagsOf(p) == {p.quality_flags[i] : i \in DOMAIN p.quality_flags}

(* Append flag to a list unless it is there already.                       *)
Extend(flags, wanted, flag) ==
    IF wanted /\ \A i \in DOMAIN flags : flags[i] # flag
    THEN Append(flags, flag) ELSE flags

(* The open issues of a stored event, ORDER BY issue_type.                 *)
StoredFlags(id) ==
    Extend(Extend(<<>>, id \in gap_issues, "cycle_gap"),
           id \in expired_issues, "ordering_window_expired")

(* The flags inference is given: the stored ones (none for a first copy,   *)
(* the issue table references telemetry_event), then the caller's, then    *)
(* the gap.  expired: the caller passed ("ordering_window_expired",).      *)
QualityFlags(m, expired) ==
    Extend(Extend(StoredFlags(m.event_id), expired, "ordering_window_expired"),
           HasGap(m), "cycle_gap")

IsDegraded(m, expired) ==
    m.event_id \in degraded \/ QualityFlags(m, expired) # <<>>

(* InferenceWorker.process raises InferenceExecutionError.  The features   *)
(* are a function of the event, so the model fails at every attempt; a     *)
(* failure that passes is among the consumer's crashes.                    *)
ModelFails(m) == Inference /\ m \in Unpredictable \ Unscorable

(* The row it returns otherwise: a feature-build error withholds the value. *)
Prediction(m, expired) ==
    LET flags == QualityFlags(m, expired)
    IN  IF m \in Unscorable
        THEN [event_id |-> m.event_id, status |-> "withheld",
              quality_flags |-> Extend(flags, TRUE, "feature_build_error")]
        ELSE [event_id |-> m.event_id,
              status |-> IF IsDegraded(m, expired) THEN "degraded" ELSE "available",
              quality_flags |-> flags]

(* Mutant of PredictionConflicts: compares the statuses alone.             *)
PredictionConflictsByStatus(m, expired) ==
    /\ Inference
    /\ Outcome(m) # "conflict"
    /\ \E p \in predictions :
          p.event_id = m.event_id /\ p.status # Prediction(m, expired).status

(* persist_prediction_transaction finds a row of this event that differs,  *)
(* and TransactionalInferenceProcessor.process raises: nothing commits.    *)
PredictionConflicts(m, expired) ==
    /\ Inference
    /\ Outcome(m) # "conflict"
    /\ \E p \in predictions :
          p.event_id = m.event_id /\ p # Prediction(m, expired)

(* The transaction is rolled back by an error that no retry gets past.     *)
ProcessingRaises(m, expired) ==
    \/ ModelFails(m) /\ Outcome(m) # "conflict"
    \/ PredictionConflicts(m, expired)

-----------------------------------------------------------------------------
(* What the transaction commits, by the outcome of the telemetry insert.   *)

Score(m, expired) ==
    predictions' = IF Inference THEN predictions \cup {Prediction(m, expired)}
                                ELSE predictions

InsertEvent(m, expired) ==
    /\ Outcome(m) = "inserted"
    /\ ~ProcessingRaises(m, expired)
    /\ telemetry' = telemetry \cup {m}
    /\ degraded' = IF IsDegraded(m, expired)
                   THEN degraded \cup {m.event_id} ELSE degraded
    /\ gap_issues' = IF HasGap(m) THEN gap_issues \cup {m.event_id} ELSE gap_issues
    /\ Score(m, expired)
    /\ UNCHANGED <<expired_issues, conflict_issues>>

RepeatEvent(m, expired) ==
    /\ Outcome(m) = "duplicate"
    /\ ~ProcessingRaises(m, expired)
    /\ Score(m, expired)
    /\ UNCHANGED <<telemetry, degraded, gap_issues, expired_issues, conflict_issues>>

(* The original row is preserved; one open issue per refused digest.       *)
RefuseEvent(m) ==
    /\ Outcome(m) = "conflict"
    /\ conflict_issues' = conflict_issues \cup {m}
    /\ UNCHANGED <<telemetry, degraded, gap_issues, expired_issues, predictions>>

Persist(m, expired) ==
    \/ InsertEvent(m, expired)
    \/ RepeatEvent(m, expired)
    \/ RefuseEvent(m)

(* record_ordering_window_expired_issue: a transaction of its own.         *)
RecordOrderingWindowExpired(m) ==
    /\ expired_issues' = expired_issues \cup {m.event_id}
    /\ UNCHANGED <<telemetry, degraded, gap_issues, conflict_issues, predictions>>

-----------------------------------------------------------------------------
StoreTypeOK ==
    /\ telemetry \subseteq Message
    /\ degraded \subseteq EventIds
    /\ gap_issues \subseteq EventIds
    /\ expired_issues \subseteq EventIds
    /\ conflict_issues \subseteq Message
    /\ predictions \subseteq PredictionRow

(* An identity has one row, whose content later copies never replace; a    *)
(* refused copy differs from the row it was refused for.                   *)
OriginalPreserved ==
    /\ \A s, t \in telemetry : s.event_id = t.event_id => s = t
    /\ \A c \in conflict_issues :
          \E t \in telemetry : t.event_id = c.event_id /\ t # c
=============================================================================
