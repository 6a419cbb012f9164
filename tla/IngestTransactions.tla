-------------------------- MODULE IngestTransactions --------------------------
(***************************************************************************)
(* persist_telemetry_event_transaction, statement by statement, run by     *)
(* several clients at once: requests of the API that writes to PostgreSQL  *)
(* directly (Inference = FALSE), or workers whose processor scores the     *)
(* event in the same transaction (Inference = TRUE) and which write the    *)
(* warning of an idle flush in a transaction of their own afterwards.      *)
(*                                                                         *)
(* PostgreSQL's default is READ COMMITTED: each statement sees what was    *)
(* committed before it began.  An insert waits for the transaction that    *)
(* holds its key.  The statements from the lookup on are merged with the   *)
(* commit: what they find of the event's row, its issues and its           *)
(* prediction decides the rest of the transaction.                         *)
(***************************************************************************)
EXTENDS TelemetryStore

CONSTANTS
    Clients, \* requests and workers
    NoEvent  \* no event in hand

ASSUME NoEventAssumption == NoEvent \notin Message

VARIABLES
    tx,     \* each client's transaction: its step and event, whether an idle
            \* flush released the event, and the gap it found
    answer, \* what the last step answered, if anything
    openers \* history: events whose transaction found no row of the engine

txVars == <<tx, answer, openers>>
ingestVars == <<storeVars, txVars>>

Transaction ==
    [pc : {"idle", "read", "insert", "inserted", "lookup", "record"},
     event : Message \cup {NoEvent}, expired : BOOLEAN, gap : BOOLEAN]

Answers ==
    {NoEvent} \cup
    [event : Message, outcome : {"failed", "inserted", "duplicate", "conflict"}]

NoTransaction == [pc |-> "idle", event |-> NoEvent, expired |-> FALSE, gap |-> FALSE]

IngestInit ==
    /\ StoreInit
    /\ tx = [c \in Clients |-> NoTransaction]
    /\ answer = NoEvent
    /\ openers = {}

-----------------------------------------------------------------------------
(* A request for m; expired: the worker passes its flag.            *)
(* Workers of one group share pending_event, so one may flush the event    *)
(* another releases in order.                                              *)
Request(c, m, expired) ==
    /\ tx[c].pc = "idle"
    /\ expired => Inference
    /\ tx' = [tx EXCEPT ![c] = [pc |-> "read", event |-> m, expired |-> expired,
                                gap |-> FALSE]]
    /\ answer' = NoEvent
    /\ UNCHANGED <<storeVars, openers>>

RowsOf(e) == {t \in telemetry : t.engine_id = e}

(* Mutant of GapFound: an off-by-one in the comparison.                    *)
GapOfTwo(m) ==
    RowsOf(m.engine_id) # {} /\ \A t \in RowsOf(m.engine_id) : m.cycle > t.cycle + 2

(* previous_cycle is not None and event.cycle > previous_cycle + 1.        *)
GapFound(m) == HasGap(m)

(* SELECT max(cycle).                                                      *)
ReadLatestCycle(c) ==
    /\ tx[c].pc = "read"
    /\ LET m == tx[c].event IN
         /\ tx' = [tx EXCEPT ![c].pc = "insert", ![c].gap = GapFound(m)]
         /\ openers' = IF RowsOf(m.engine_id) = {} THEN openers \cup {m} ELSE openers
    /\ answer' = NoEvent
    /\ UNCHANGED storeVars

(* Mutant of KeyFree: the insert does not wait for an uncommitted row.     *)
KeyAlwaysFree(c) == TRUE

KeyFree(c) ==
    \A d \in Clients :
        tx[d].pc = "inserted" => tx[d].event.event_id # tx[c].event.event_id

(* INSERT ... ON CONFLICT (event_id) DO NOTHING.                           *)
InsertRow(c) ==
    /\ tx[c].pc = "insert"
    /\ KeyFree(c)
    /\ tx' = [tx EXCEPT ![c].pc =
           IF tx[c].event.event_id \in StoredIds THEN "lookup" ELSE "inserted"]
    /\ answer' = NoEvent
    /\ UNCHANGED <<storeVars, openers>>

(* Mutant of EndTransaction: the event stays in hand.                      *)
EndTransactionInHand(c, outcome) ==
    /\ tx' = [tx EXCEPT ![c].pc = "idle"]
    /\ answer' = [event |-> tx[c].event, outcome |-> outcome]

(* The caller is told, unless the answer is lost after the commit.  It     *)
(* then records the flush, if any, whatever the outcome was.               *)
EndTransaction(c, outcome) ==
    /\ tx' = [tx EXCEPT ![c] =
           IF tx[c].expired THEN [tx[c] EXCEPT !.pc = "record"] ELSE NoTransaction]
    /\ answer' \in {NoEvent, [event |-> tx[c].event, outcome |-> outcome]}

(* The stored flags, the caller's, the gap's.                              *)
Flags(c) ==
    Extend(Extend(StoredFlags(tx[c].event.event_id), tx[c].expired, "ordering_window_expired"),
           tx[c].gap, "cycle_gap")

(* InferenceWorker.process, with what the transaction read.                *)
ScoreOf(c) ==
    LET m == tx[c].event IN
    IF m \in Unscorable
      THEN [event_id |-> m.event_id, status |-> "withheld",
            quality_flags |-> Extend(Flags(c), TRUE, "feature_build_error")]
      ELSE [event_id |-> m.event_id,
            status |-> IF m.event_id \in degraded \/ Flags(c) # <<>>
                         THEN "degraded" ELSE "available",
            quality_flags |-> Flags(c)]

ScoreEvent(c) ==
    predictions' = IF Inference THEN predictions \cup {ScoreOf(c)} ELSE predictions

CommitInsert(c) ==
    /\ tx[c].pc = "inserted"
    /\ ~ModelFails(tx[c].event)
    /\ LET id == tx[c].event.event_id IN
         /\ telemetry' = telemetry \cup {tx[c].event}
         /\ degraded' = IF tx[c].expired \/ tx[c].gap
                          THEN degraded \cup {id} ELSE degraded
         /\ gap_issues' = IF tx[c].gap THEN gap_issues \cup {id} ELSE gap_issues
    /\ ScoreEvent(c)
    /\ EndTransaction(c, "inserted")
    /\ UNCHANGED <<expired_issues, conflict_issues, openers>>

(* Mutant of ScoreConflicts: the first prediction of an event is enough.   *)
NoScoreConflicts(c) == FALSE

(* persist_prediction_transaction finds another prediction of the event.   *)
ScoreConflicts(c) ==
    /\ Inference
    /\ \E p \in predictions : p.event_id = tx[c].event.event_id /\ p # ScoreOf(c)

CommitRepeat(c) ==
    /\ tx[c].pc = "lookup"
    /\ tx[c].event \in telemetry
    /\ ~ModelFails(tx[c].event) /\ ~ScoreConflicts(c)
    /\ ScoreEvent(c)
    /\ EndTransaction(c, "duplicate")
    /\ UNCHANGED <<telemetry, degraded, gap_issues, expired_issues, conflict_issues, openers>>

CommitRefusal(c) ==
    /\ tx[c].pc = "lookup"
    /\ tx[c].event \notin telemetry
    /\ conflict_issues' = conflict_issues \cup {tx[c].event}
    /\ EndTransaction(c, "conflict")
    /\ UNCHANGED <<telemetry, degraded, gap_issues, expired_issues, predictions, openers>>

(* The process dies, a statement fails, the model fails, or                *)
(* PredictionPersistenceError is raised (ScoreConflicts): the transaction  *)
(* is rolled back.                                                         *)
Rollback(c) ==
    /\ tx[c].pc \notin {"idle", "record"}
    /\ tx' = [tx EXCEPT ![c] = NoTransaction]
    /\ answer' = [event |-> tx[c].event, outcome |-> "failed"]
    /\ UNCHANGED <<storeVars, openers>>

(* record_ordering_window_expired_issue: ON CONFLICT DO NOTHING.           *)
RecordExpired(c) ==
    /\ tx[c].pc = "record"
    /\ RecordOrderingWindowExpired(tx[c].event)
    /\ tx' = [tx EXCEPT ![c] = NoTransaction]
    /\ answer' = NoEvent
    /\ UNCHANGED openers

(* The worker dies before that; the event is still staged.                 *)
FailToRecord(c) ==
    /\ tx[c].pc = "record"
    /\ tx' = [tx EXCEPT ![c] = NoTransaction]
    /\ answer' = NoEvent
    /\ UNCHANGED <<storeVars, openers>>

Statement(c) ==
    \/ ReadLatestCycle(c)
    \/ InsertRow(c)
    \/ CommitInsert(c)
    \/ CommitRepeat(c)
    \/ CommitRefusal(c)
    \/ Rollback(c)
    \/ RecordExpired(c)
    \/ FailToRecord(c)

IngestNext ==
    \E c \in Clients :
        Statement(c) \/ \E m \in Message, expired \in BOOLEAN : Request(c, m, expired)

IngestSpec == IngestInit /\ [][IngestNext]_ingestVars

-----------------------------------------------------------------------------
IngestTypeOK ==
    /\ StoreTypeOK
    /\ tx \in [Clients -> Transaction]
    /\ \A c \in Clients : tx[c].pc = "idle" <=> tx[c].event = NoEvent
    /\ answer \in Answers
    /\ openers \subseteq Message

(* Concurrent, repeated, conflicting and aborted requests are answered as  *)
(* if each had been one step (ON CONFLICT, then the lookup, at database.py *)
(* 133-192): no identity is stored twice or replaced, no answer is wrong.  *)
Register == INSTANCE EventRegister WITH rows <- telemetry, refused <- conflict_issues

ImplementsRegister == Register!RegisterSpec

(* A gap is missed in silence only by transactions that found no row of    *)
(* the engine at all: any other event without a gap issue has a stored     *)
(* event at most one cycle before it (max(cycle) at database.py 127).      *)
GapAccountable ==
    \A m \in telemetry :
        m.event_id \notin gap_issues /\ m \notin openers =>
            \E t \in telemetry \ {m} :
                t.engine_id = m.engine_id /\ t.cycle >= m.cycle - 1

(* However two workers interleave on one event, released in order by one   *)
(* and flushed by the other, its prediction carries the gap flag exactly   *)
(* if its gap issue is open, and a flag of its quality exactly if its row  *)
(* is degraded.                                                            *)
ScoredAsStored ==
    \A p \in predictions :
        /\ "cycle_gap" \in FlagsOf(p) <=> p.event_id \in gap_issues
        /\ FlagsOf(p) \ {"feature_build_error"} # {} <=> p.event_id \in degraded

=============================================================================
