-------------------------- MODULE TelemetryConsumer --------------------------
(***************************************************************************)
(* The streaming worker (streaming/consumer.py) between the broker and the *)
(* database: consume_once() in an endless loop, restarted by its           *)
(* supervisor whenever an exception or a kill ends it.  Each action is one *)
(* database transaction, one broker call, or the in-memory work between    *)
(* two of them, so a crash may fall between any two.                       *)
(*                                                                         *)
(*   load -> scan <-> process -> [record ->] delete     recover_pending    *)
(*   poll -> stage -> commit -> load                    a valid message    *)
(*   poll -> dead_letter -> acknowledge -> load         an invalid one     *)
(***************************************************************************)
EXTENDS TelemetryStore, EventTimeReorder

CONSTANTS
    Malformed,         \* values TelemetryRequest.model_validate rejects
    Unstorable,        \* events it accepts and PostgreSQL refuses: an
                       \* integer beyond INTEGER, a NaN in a JSONB document
    NoEvent,           \* no event in hand
    MaxRetryAttempts,  \* settings.max_retry_attempts
    MaxPublished,      \* bound: messages ever published
    MaxFaults,         \* bound: crashes and transient database errors
    ClientRetries      \* TRUE when a message may be published repeatedly

ASSUME ConsumerAssumption ==
    /\ Malformed \cap Message = {}
    /\ Unstorable \subseteq Message
    /\ NoEvent \notin Message
    /\ MaxRetryAttempts \in Nat
    /\ MaxPublished \in Nat
    /\ MaxFaults \in Nat
    /\ ClientRetries \in BOOLEAN

VARIABLES
    \* the broker
    log,          \* the telemetry topic: one partition, messages in order
    committed,    \* the group's offset: messages of log acknowledged
    dead_letters, \* offsets with an entry in the dead-letter topic
    \* the database, besides the tables of TelemetryStore
    pending,      \* pending_event: the staged events
    idle,         \* engines whose newest staged row has been there for
                  \* reorder_idle_flush_seconds or longer
    \* the worker
    pc,           \* what it does next
    polled,       \* recover_pending runs after the poll, not before it
    rows,         \* rows load_pending_events returned, not observed yet
    buffers,      \* the reorder buffer of this recover_pending call
    unflushed,    \* engines whose idle time is still to be looked at
    released,     \* events released and not yet processed
    expired,      \* they come from an idle flush
    current,      \* event processed and not yet deleted from pending
    attempts,     \* failed attempts of the operation in _process_with_retry
    faults        \* crashes and transient errors so far (bounds the model)

brokerVars == <<log, committed, dead_letters>>
recoveryVars == <<rows, buffers, unflushed, released, expired, current>>
vars == <<brokerVars, storeVars, pending, idle, pc, polled, recoveryVars,
          attempts, faults>>

NoBuffers == [e \in Engines |-> EmptyBuffer]

Init ==
    /\ StoreInit
    /\ log = <<>>
    /\ committed = 0
    /\ dead_letters = {}
    /\ pending = {}
    /\ idle = {}
    /\ pc = "load"
    /\ polled = FALSE
    /\ rows = {}
    /\ buffers = NoBuffers
    /\ unflushed = {}
    /\ released = {}
    /\ expired = FALSE
    /\ current = NoEvent
    /\ attempts = 0
    /\ faults = 0

StagedIds == {m.event_id : m \in pending}

-----------------------------------------------------------------------------
(* Producers.  A gateway that saw no acknowledgement publishes again, and  *)
(* the broker does not deduplicate (RedpandaEventSink.persist).            *)
Publish(m) ==
    /\ Len(log) < MaxPublished
    /\ ClientRetries \/ \A o \in DOMAIN log : log[o] # m
    /\ log' = Append(log, m)
    /\ UNCHANGED <<committed, dead_letters, storeVars, pending, idle, pc, polled,
                   recoveryVars, attempts, faults>>

(* The clock: received_at of the engine's newest staged row falls          *)
(* reorder_idle_flush_seconds behind.                                      *)
BecomeIdle(e) ==
    /\ \E m \in pending : m.engine_id = e
    /\ e \notin idle
    /\ idle' = idle \cup {e}
    /\ UNCHANGED <<brokerVars, storeVars, pending, pc, polled, recoveryVars,
                   attempts, faults>>

-----------------------------------------------------------------------------
(* recover_pending.                                                        *)

(* Mutant of Load: the engines are not looked at for idleness.             *)
LoadWithoutFlush ==
    /\ pc = "load"
    /\ rows' = pending
    /\ buffers' = NoBuffers
    /\ unflushed' = {}
    /\ pc' = "scan"
    /\ UNCHANGED <<brokerVars, storeVars, pending, idle, polled, released, expired,
                   current, attempts, faults>>

Load ==
    /\ pc = "load"
    /\ rows' = pending
    /\ buffers' = NoBuffers
    /\ unflushed' = {m.engine_id : m \in pending}
    /\ pc' = "scan"
    /\ UNCHANGED <<brokerVars, storeVars, pending, idle, polled, released, expired,
                   current, attempts, faults>>

(* Mutant of FirstRows: the query has no ORDER BY.                         *)
UnorderedRows == rows

(* ORDER BY engine_id, cycle leaves the order of equal cycles open.        *)
FirstRows ==
    {m \in rows : \A n \in rows :
        \/ m.engine_id < n.engine_id
        \/ m.engine_id = n.engine_id /\ m.cycle <= n.cycle}

ObserveRow ==
    /\ pc = "scan"
    /\ released = {}
    /\ \E m \in FirstRows :
          LET buffer == buffers[m.engine_id]
          IN  /\ rows' = rows \ {m}
              /\ buffers' = [buffers EXCEPT ![m.engine_id] = ObserveLeaves(buffer, m)]
              /\ released' = ObserveReleases(buffer, m)
    /\ expired' = FALSE
    /\ pc' = IF released' = {} THEN "scan" ELSE "process"
    /\ UNCHANGED <<brokerVars, storeVars, pending, idle, polled, unflushed, current,
                   attempts, faults>>

(* After the rows, each engine's idle time is compared with                *)
(* reorder_idle_flush_seconds, in the order of the dictionary's insertion. *)
NextEngine(e) ==
    /\ pc = "scan"
    /\ rows = {} /\ released = {}
    /\ e \in unflushed /\ \A f \in unflushed : e <= f

FlushIdle(e) ==
    /\ NextEngine(e)
    /\ e \in idle
    /\ unflushed' = unflushed \ {e}
    /\ buffers' = [buffers EXCEPT ![e] = FlushLeaves(@)]
    /\ released' = FlushReleases(buffers[e])
    /\ expired' = TRUE
    /\ pc' = IF released' = {} THEN "scan" ELSE "process"
    /\ UNCHANGED <<brokerVars, storeVars, pending, idle, polled, rows, current,
                   attempts, faults>>

KeepWaiting(e) ==
    /\ NextEngine(e)
    /\ e \notin idle
    /\ unflushed' = unflushed \ {e}
    /\ UNCHANGED <<brokerVars, storeVars, pending, idle, pc, polled, rows, buffers,
                   released, expired, current, attempts, faults>>

(* _process_released_event: the processor gets the flush's flag; without   *)
(* a processor the flag is dropped.                                        *)
PassedFlag == expired /\ Inference

(* Mutant of Process: the flush's warning is never recorded.               *)
ProcessSilently ==
    /\ pc = "process"
    /\ \E m \in Earliest(released) :
          /\ Persist(m, PassedFlag)
          /\ released' = released \ {m}
          /\ current' = m
    /\ pc' = "delete"
    /\ attempts' = 0
    /\ UNCHANGED <<brokerVars, pending, idle, polled, rows, buffers, unflushed,
                   expired, faults>>

Process ==
    /\ pc = "process"
    /\ \E m \in Earliest(released) :
          /\ Persist(m, PassedFlag)
          /\ released' = released \ {m}
          /\ current' = m
    /\ pc' = IF expired THEN "record" ELSE "delete"
    /\ attempts' = 0
    /\ UNCHANGED <<brokerVars, pending, idle, polled, rows, buffers, unflushed,
                   expired, faults>>

Record ==
    /\ pc = "record"
    /\ RecordOrderingWindowExpired(current)
    /\ pc' = "delete"
    /\ UNCHANGED <<brokerVars, pending, idle, polled, recoveryVars, attempts, faults>>

(* Mutant of Delete: deletes by engine instead of by event.                *)
DeleteEngine ==
    /\ pc = "delete"
    /\ pending' = {m \in pending : m.engine_id # current.engine_id}
    /\ idle' = idle \cap {m.engine_id : m \in pending'}
    /\ current' = NoEvent
    /\ pc' = IF released = {} THEN "scan" ELSE "process"
    /\ UNCHANGED <<brokerVars, storeVars, polled, rows, buffers, unflushed,
                   released, expired, attempts, faults>>

Delete ==
    /\ pc = "delete"
    /\ pending' = {m \in pending : m.event_id # current.event_id}
    /\ idle' = idle \cap {m.engine_id : m \in pending'}
    /\ current' = NoEvent
    /\ pc' = IF released = {} THEN "scan" ELSE "process"
    /\ UNCHANGED <<brokerVars, storeVars, polled, rows, buffers, unflushed,
                   released, expired, attempts, faults>>

(* Mutant of Recovered: the two recoveries of consume_once are swapped.    *)
RecoveredSwapped ==
    /\ pc = "scan"
    /\ rows = {} /\ released = {} /\ unflushed = {}
    /\ buffers' = NoBuffers
    /\ expired' = FALSE
    /\ pc' = IF polled THEN "poll" ELSE "load"
    /\ polled' = FALSE
    /\ UNCHANGED <<brokerVars, storeVars, pending, idle, rows, unflushed, released,
                   current, attempts, faults>>

(* recover_pending returns: consume_once polls, or is over and run() calls *)
(* it again.                                                               *)
Recovered ==
    /\ pc = "scan"
    /\ rows = {} /\ released = {} /\ unflushed = {}
    /\ buffers' = NoBuffers
    /\ expired' = FALSE
    /\ pc' = IF polled THEN "load" ELSE "poll"
    /\ polled' = FALSE
    /\ UNCHANGED <<brokerVars, storeVars, pending, idle, rows, unflushed, released,
                   current, attempts, faults>>

-----------------------------------------------------------------------------
(* The rest of consume_once.  Every message is acknowledged before the     *)
(* next poll, so the position is always the committed offset.              *)

InHand == log[committed + 1]

PollTimeout ==
    /\ pc = "poll"
    /\ pc' = "load"
    /\ UNCHANGED <<brokerVars, storeVars, pending, idle, polled, recoveryVars,
                   attempts, faults>>

(* Mutant of PollMessage: an invalid message is acknowledged unpublished.  *)
PollMessageDropping ==
    /\ pc = "poll"
    /\ committed < Len(log)
    /\ pc' = IF InHand \in Message THEN "stage" ELSE "acknowledge"
    /\ UNCHANGED <<brokerVars, storeVars, pending, idle, polled, recoveryVars,
                   attempts, faults>>

PollMessage ==
    /\ pc = "poll"
    /\ committed < Len(log)
    /\ pc' = IF InHand \in Message THEN "stage" ELSE "dead_letter"
    /\ UNCHANGED <<brokerVars, storeVars, pending, idle, polled, recoveryVars,
                   attempts, faults>>

(* persist_pending_event: ON CONFLICT (event_id) DO NOTHING.  A new row    *)
(* has received_at = now().                                                *)
StageRow ==
    /\ InHand \notin Unstorable
    /\ IF InHand.event_id \in StagedIds
       THEN UNCHANGED <<pending, idle>>
       ELSE /\ pending' = pending \cup {InHand}
            /\ idle' = idle \ {InHand.engine_id}

Stage ==
    /\ pc = "stage"
    /\ StageRow
    /\ pc' = "commit"
    /\ attempts' = 0
    /\ UNCHANGED <<brokerVars, storeVars, polled, recoveryVars, faults>>

Commit ==
    /\ pc = "commit"
    /\ committed' = committed + 1
    /\ polled' = TRUE
    /\ pc' = "load"
    /\ UNCHANGED <<log, dead_letters, storeVars, pending, idle, recoveryVars,
                   attempts, faults>>

PublishDeadLetter ==
    /\ pc = "dead_letter"
    /\ dead_letters' = dead_letters \cup {committed + 1}
    /\ pc' = "acknowledge"
    /\ UNCHANGED <<log, committed, storeVars, pending, idle, polled, recoveryVars,
                   attempts, faults>>

Acknowledge ==
    /\ pc = "acknowledge"
    /\ committed' = committed + 1
    /\ pc' = "load"
    /\ UNCHANGED <<log, dead_letters, storeVars, pending, idle, polled, recoveryVars,
                   attempts, faults>>

-----------------------------------------------------------------------------
(* Failures.                                                               *)

(* The process ends and is started again: its memory is lost, and polling  *)
(* resumes at the committed offset.                                        *)
Restart ==
    /\ pc' = "load"
    /\ polled' = FALSE
    /\ rows' = {}
    /\ buffers' = NoBuffers
    /\ unflushed' = {}
    /\ released' = {}
    /\ expired' = FALSE
    /\ current' = NoEvent
    /\ attempts' = 0
    /\ UNCHANGED <<brokerVars, storeVars, pending, idle>>

(* A kill, or a passing failure of any call: the broker, the model, a      *)
(* database call outside _process_with_retry.                              *)
Crash ==
    /\ faults < MaxFaults
    /\ faults' = faults + 1
    /\ Restart

(* The operation in _process_with_retry fails whenever it is tried:        *)
(* InferenceExecutionError, PredictionPersistenceError, a DataError of the *)
(* insert.                                                                 *)
OperationRaises ==
    \/ /\ pc = "process"
       /\ \E m \in Earliest(released) : ProcessingRaises(m, PassedFlag)
    \/ pc = "stage" /\ InHand \in Unstorable

(* None of these is among the errors that are retried: it escapes, and the *)
(* transaction is rolled back.                                             *)
UnretriedError ==
    /\ OperationRaises
    /\ Restart
    /\ UNCHANGED faults

(* Mutant of Retry: one retry too many.                                    *)
RetryOnceMore ==
    /\ faults < MaxFaults
    /\ attempts <= MaxRetryAttempts
    /\ faults' = faults + 1
    /\ attempts' = attempts + 1
    /\ UNCHANGED <<brokerVars, pc, polled, recoveryVars>>

(* An OperationalError inside _process_with_retry: the transaction rolled  *)
(* back, or it committed and the acknowledgement was lost.  The operation  *)
(* is tried again until max_retry_attempts, then the error escapes (having *)
(* committed all the same, it escapes as Process or Stage and then Crash). *)
Retry ==
    /\ faults < MaxFaults
    /\ attempts < MaxRetryAttempts
    /\ faults' = faults + 1
    /\ attempts' = attempts + 1
    /\ UNCHANGED <<brokerVars, pc, polled, recoveryVars>>

RetryRolledBack ==
    /\ pc \in {"process", "stage"}
    /\ Retry
    /\ UNCHANGED <<storeVars, pending, idle>>

RetryProcessed ==
    /\ pc = "process"
    /\ \E m \in Earliest(released) : Persist(m, PassedFlag)
    /\ Retry
    /\ UNCHANGED <<pending, idle>>

RetryStaged ==
    /\ pc = "stage"
    /\ StageRow
    /\ Retry
    /\ UNCHANGED storeVars

RetriesExhausted ==
    /\ pc \in {"process", "stage"}
    /\ attempts = MaxRetryAttempts
    /\ faults < MaxFaults
    /\ faults' = faults + 1
    /\ Restart

-----------------------------------------------------------------------------
Recovery ==
    \/ Load
    \/ ObserveRow
    \/ \E e \in Engines : FlushIdle(e) \/ KeepWaiting(e)
    \/ Process
    \/ Record
    \/ Delete
    \/ Recovered

Consumption ==
    \/ PollTimeout
    \/ PollMessage
    \/ Stage
    \/ Commit
    \/ PublishDeadLetter
    \/ Acknowledge

Failure ==
    \/ Crash
    \/ UnretriedError
    \/ RetryRolledBack
    \/ RetryProcessed
    \/ RetryStaged
    \/ RetriesExhausted

Next ==
    \/ \E m \in Message \cup Malformed : Publish(m)
    \/ \E e \in Engines : BecomeIdle(e)
    \/ Recovery
    \/ Consumption
    \/ Failure

Spec == Init /\ [][Next]_vars

(* The worker runs (its supervisor restarts it), a message that stays      *)
(* available is polled rather than timed out on forever, and the clock     *)
(* advances.                                                               *)
Fairness ==
    /\ WF_vars(Recovery \/ Consumption \/ UnretriedError)
    /\ SF_vars(PollMessage)
    /\ \A e \in Engines : WF_vars(BecomeIdle(e))

FairSpec == Spec /\ Fairness

-----------------------------------------------------------------------------
BufferType == [max_cycle : Nat, pending : SUBSET Message]

BrokerTypeOK ==
    /\ log \in Seq(Message \cup Malformed)
    /\ committed \in 0..Len(log)
    /\ dead_letters \subseteq DOMAIN log

WorkerTypeOK ==
    /\ pc \in {"load", "scan", "process", "record", "delete",
              "poll", "stage", "commit", "dead_letter", "acknowledge"}
    /\ polled \in BOOLEAN
    /\ rows \subseteq Message
    /\ buffers \in [Engines -> BufferType]
    /\ unflushed \subseteq Engines
    /\ released \subseteq Message
    /\ expired \in BOOLEAN
    /\ current \in Message \cup {NoEvent}
    /\ attempts \in 0..MaxRetryAttempts

TypeOK ==
    /\ BrokerTypeOK
    /\ StoreTypeOK
    /\ pending \subseteq Message
    /\ idle \subseteq Engines
    /\ WorkerTypeOK
    /\ faults \in 0..MaxFaults

(* The durability promise ("commit offsets only after database             *)
(* persistence"): whatever was acknowledged to the broker survives the     *)
(* worker.  A valid event is staged or stored, through every crash between *)
(* staging, acknowledging, processing and deleting; an invalid one is in   *)
(* the dead-letter topic.                                                  *)
NothingLost ==
    \A o \in 1..committed :
        IF log[o] \in Message
        THEN log[o].event_id \in StagedIds \cup StoredIds
        ELSE o \in dead_letters

(* With inference, telemetry and predictions commit together: each stored  *)
(* event has exactly one prediction, whose flags and status are what the   *)
(* event's row and its issues say, however often it was retried.           *)
ScoredConsistently ==
    Inference =>
    /\ {p.event_id : p \in predictions} = StoredIds
    /\ \A p \in predictions :
          LET flags == {p.quality_flags[i] : i \in DOMAIN p.quality_flags}
          IN  /\ \A q \in predictions : p.event_id = q.event_id => p = q
              /\ "cycle_gap" \in flags <=> p.event_id \in gap_issues
              /\ flags \ {"feature_build_error"} # {} <=> p.event_id \in degraded

(* The warning of an idle flush is written after the transaction that used *)
(* its flag.  Until it is written the event stays staged, so a crash in    *)
(* between leaves no prediction flagged with a warning nobody recorded.    *)
WarningNotLost ==
    \A p \in predictions :
        (\E i \in DOMAIN p.quality_flags :
            p.quality_flags[i] = "ordering_window_expired")
        => p.event_id \in expired_issues \cup StagedIds

(* Event-time order: an event is stored ahead of an older staged event of  *)
(* its engine only if another event of that older cycle was handled in its *)
(* place (one recovery admits one event per cycle).                        *)
NeverOvertakes ==
    [][\A m \in telemetry' \ telemetry : \A n \in pending :
          n.engine_id = m.engine_id /\ n.cycle < m.cycle
          => \E t \in telemetry \cup conflict_issues :
                t.engine_id = n.engine_id /\ t.cycle = n.cycle]_vars

Settled(o) ==
    /\ o <= committed
    /\ log[o] \in Message => log[o].event_id \in StoredIds \ StagedIds

(* Every published message is eventually dealt with for good: acknowledged *)
(* and, if valid, processed and no longer staged, although the worker may  *)
(* crash and no later event may ever push the watermark past it.           *)
EverythingSettles ==
    \A o \in 1..MaxPublished : o <= Len(log) ~> Settled(o)

(* The worker never stops taking messages off the topic.                   *)
BacklogDrains ==
    \A o \in 1..MaxPublished : o <= Len(log) ~> o <= committed

(* "If the same event is processed after a crash between database commit   *)
(* and cleanup, telemetry and prediction uniqueness constraints turn the   *)
(* retry into a safe duplicate"                                            *)
(* (05-feature-generation-model-training-and-inference.md).                *)
RetryIsSafeDuplicate ==
    pc = "process" =>
        \A m \in Earliest(released) :
            m \in telemetry => ~PredictionConflicts(m, PassedFlag)

(* "Same identity with changed content: return CONFLICT and preserve the   *)
(* original row" (readme.md): every acknowledged content is staged, stored *)
(* or reported.                                                            *)
ChangedContentReported ==
    \A o \in 1..committed :
        log[o] \in Message =>
            log[o] \in pending \cup telemetry \cup conflict_issues

-----------------------------------------------------------------------------
(* The refinement mapping: what DurableIngest sees of the broker, the      *)
(* staging table and the store.  A message it could see "lost" has no      *)
(* fate DurableIngest allows.                                              *)
Fate(o) ==
    IF o > committed THEN "queued"
    ELSE IF log[o] \notin Message THEN IF o \in dead_letters THEN "dead" ELSE "lost"
    ELSE IF log[o].event_id \in StoredIds THEN "settled"
    ELSE IF log[o].event_id \in StagedIds THEN "held" ELSE "lost"

Ingest == INSTANCE DurableIngest
              WITH inbox <- log, fate <- [o \in DOMAIN log |-> Fate(o)]

(* The worker with its crashes, retries and redeliveries implements        *)
(* DurableIngest: ordered acknowledgement, nothing acknowledged is lost,   *)
(* an event settles once for all its copies.                               *)
ImplementsIngest == Ingest!IngestSafety

(* ... and, with fairness, every message is acknowledged and every held    *)
(* event settled.                                                          *)
ImplementsFairIngest == Ingest!IngestSpec

(* With inference the worker settles everything too, unless some operation *)
(* keeps raising an error that is not retried: a conflicting prediction, a *)
(* model that cannot score the event, an event PostgreSQL cannot store.    *)
(* There is no other way to get stuck.                                     *)
OnlyErrorsBlock == EverythingSettles \/ []<>OperationRaises
=============================================================================
