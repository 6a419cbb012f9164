----------------------- MODULE TelemetryConsumer_proofs -----------------------
(***************************************************************************)
(* Theorems about the streaming worker for every set of events, every      *)
(* lateness window and every bound on publications, retries and faults.    *)
(*                                                                         *)
(* NothingLost is not inductive: acknowledging a message is safe because   *)
(* it was staged one step earlier, and deleting a staged row is safe       *)
(* because its event was stored one or two steps earlier.  What the worker *)
(* knows at each of its steps is HandInv; with it and the types the        *)
(* invariant is inductive.  The last section proves that the worker        *)
(* implements DurableIngest.                                               *)
(***************************************************************************)
EXTENDS TelemetryConsumer, TelemetryStore_proofs

(* What the worker knows about the message or event in its hands.          *)
HandInv ==
    /\ pc \in {"stage", "commit"} => committed < Len(log) /\ InHand \in Message
    /\ pc = "commit" => InHand.event_id \in StagedIds \cup StoredIds
    /\ pc \in {"dead_letter", "acknowledge"} =>
          committed < Len(log) /\ InHand \notin Message
    /\ pc = "acknowledge" => committed + 1 \in dead_letters
    /\ pc \in {"record", "delete"} =>
          current \in Message /\ current.event_id \in StoredIds

IInv ==
    /\ TypeOK
    /\ HandInv
    /\ NothingLost
    /\ OriginalPreserved

-----------------------------------------------------------------------------
(* The reorder buffer.                                                     *)

LEMMA EmptyBufferType == NoBuffers \in [Engines -> BufferType]
BY DEF NoBuffers, EmptyBuffer, BufferType

(* Observing an event releases events that were observed, and keeps a      *)
(* buffer of events.                                                       *)
LEMMA ObserveType ==
    ASSUME NEW buffer \in BufferType, NEW m \in Message
    PROVE  /\ ObserveReleases(buffer, m) \subseteq Message
           /\ ObserveLeaves(buffer, m) \in BufferType
<1>1. Admit(buffer, m) \in BufferType
  BY StoreAssumption DEF Admit, BufferType
<1>2. ObserveReleases(buffer, m) \subseteq Message
  BY <1>1 DEF ObserveReleases, Ripe, BufferType
<1>3. ObserveLeaves(buffer, m) \in BufferType
  BY <1>1 DEF ObserveLeaves, Drop, BufferType
<1> QED
  BY <1>2, <1>3

(* flush() hands out messages and leaves a buffer.                         *)
LEMMA FlushType ==
    ASSUME NEW buffer \in BufferType
    PROVE  /\ FlushReleases(buffer) \subseteq Message
           /\ FlushLeaves(buffer) \in BufferType
BY DEF FlushReleases, FlushLeaves, Drop, BufferType

-----------------------------------------------------------------------------
(* Types.                                                                  *)

LEMMA InitType == Init => TypeOK
<1> SUFFICES ASSUME Init PROVE TypeOK
  OBVIOUS
<1>1. BrokerTypeOK
  BY DEF Init, BrokerTypeOK
<1>2. StoreTypeOK
  BY DEF Init, StoreInit, StoreTypeOK
<1>3. 0 \in 0..MaxRetryAttempts
  BY ConsumerAssumption
<1>4. WorkerTypeOK
  BY EmptyBufferType, <1>3 DEF Init, WorkerTypeOK
<1> QED
  BY <1>1, <1>2, <1>4, ConsumerAssumption DEF Init, TypeOK

(* Restarting the process is well typed.                                   *)
LEMMA RestartType ==
    ASSUME TypeOK, Restart, faults' \in 0..MaxFaults
    PROVE  TypeOK'
<1>1. BrokerTypeOK'
  BY DEF Restart, TypeOK, BrokerTypeOK, brokerVars
<1>2. StoreTypeOK'
  BY DEF Restart, storeVars, TypeOK, StoreTypeOK
<1>3. 0 \in 0..MaxRetryAttempts
  BY ConsumerAssumption
<1>4. WorkerTypeOK'
  BY EmptyBufferType, <1>3 DEF Restart, WorkerTypeOK
<1> QED
  BY <1>1, <1>2, <1>4 DEF Restart, TypeOK

(* A step that leaves the broker, the tables and the staged rows alone     *)
(* keeps what is said about them.                                          *)
LEMMA Frame ==
    ASSUME TypeOK, NothingLost, OriginalPreserved,
           UNCHANGED <<brokerVars, storeVars, pending>>
    PROVE  /\ BrokerTypeOK' /\ StoreTypeOK' /\ pending' \subseteq Message
           /\ NothingLost' /\ OriginalPreserved'
<1>1. BrokerTypeOK'
  BY DEF TypeOK, BrokerTypeOK, brokerVars
<1>2. StoreTypeOK' /\ pending' \subseteq Message
  BY DEF TypeOK, StoreTypeOK, storeVars
<1>3. NothingLost'
  BY DEF NothingLost, StagedIds, StoredIds, brokerVars, storeVars
<1>4. OriginalPreserved'
  BY DEF OriginalPreserved, storeVars
<1> QED
  BY <1>1, <1>2, <1>3, <1>4

-----------------------------------------------------------------------------
(* The steps of recover_pending keep the invariant.                        *)

LEMMA LoadKeeps == ASSUME IInv, Load PROVE IInv'
<1>1. /\ BrokerTypeOK' /\ StoreTypeOK' /\ pending' \subseteq Message
      /\ NothingLost' /\ OriginalPreserved'
  BY Frame DEF IInv, Load
<1>2. unflushed' \subseteq Engines
  BY DEF IInv, TypeOK, Load, Engines
<1>3. WorkerTypeOK'
  BY <1>2, EmptyBufferType DEF IInv, TypeOK, WorkerTypeOK, Load
<1>4. TypeOK'
  BY <1>1, <1>3 DEF IInv, TypeOK, Load
<1>5. HandInv'
  BY DEF HandInv, Load
<1> QED
  BY <1>1, <1>4, <1>5 DEF IInv

(* Observing a staged row keeps the invariant.                             *)
LEMMA ObserveRowKeeps == ASSUME IInv, ObserveRow PROVE IInv'
<1>1. /\ BrokerTypeOK' /\ StoreTypeOK' /\ pending' \subseteq Message
      /\ NothingLost' /\ OriginalPreserved'
  BY Frame DEF IInv, ObserveRow
<1>2. PICK m \in FirstRows :
          /\ rows' = rows \ {m}
          /\ buffers' = [buffers EXCEPT ![m.engine_id] =
                            ObserveLeaves(buffers[m.engine_id], m)]
          /\ released' = ObserveReleases(buffers[m.engine_id], m)
  BY DEF ObserveRow
<1>3. m \in Message /\ m.engine_id \in Engines
  BY DEF FirstRows, IInv, TypeOK, WorkerTypeOK, Engines
<1>4. buffers \in [Engines -> BufferType] /\ buffers[m.engine_id] \in BufferType
  BY <1>3 DEF IInv, TypeOK, WorkerTypeOK
<1>5. /\ released' \subseteq Message
      /\ ObserveLeaves(buffers[m.engine_id], m) \in BufferType
  BY <1>2, <1>3, <1>4, ObserveType
<1>6. buffers' \in [Engines -> BufferType]
  BY <1>2, <1>4, <1>5
<1>7. WorkerTypeOK'
  BY <1>2, <1>5, <1>6 DEF IInv, TypeOK, WorkerTypeOK, ObserveRow
<1>8. TypeOK'
  BY <1>1, <1>7 DEF IInv, TypeOK, ObserveRow
<1>9. HandInv'
  BY DEF HandInv, ObserveRow
<1> QED
  BY <1>1, <1>8, <1>9 DEF IInv

(* The flush of an idle engine keeps the invariant.                        *)
LEMMA FlushIdleKeeps ==
    ASSUME IInv, NEW e \in Engines, FlushIdle(e) PROVE IInv'
<1>1. /\ BrokerTypeOK' /\ StoreTypeOK' /\ pending' \subseteq Message
      /\ NothingLost' /\ OriginalPreserved'
  BY Frame DEF IInv, FlushIdle
<1>2. buffers \in [Engines -> BufferType] /\ buffers[e] \in BufferType
  BY DEF IInv, TypeOK, WorkerTypeOK
<1>3. released' \subseteq Message /\ FlushLeaves(buffers[e]) \in BufferType
  BY <1>2, FlushType DEF FlushIdle
<1>4. buffers' \in [Engines -> BufferType]
  BY <1>2, <1>3 DEF FlushIdle
<1>5. WorkerTypeOK'
  BY <1>3, <1>4 DEF IInv, TypeOK, WorkerTypeOK, FlushIdle
<1>6. TypeOK'
  BY <1>1, <1>5 DEF IInv, TypeOK, FlushIdle
<1>7. HandInv'
  BY DEF HandInv, FlushIdle
<1> QED
  BY <1>1, <1>6, <1>7 DEF IInv

(* Leaving an engine's buffer for the next recovery keeps the invariant.   *)
LEMMA KeepWaitingKeeps ==
    ASSUME IInv, NEW e \in Engines, KeepWaiting(e) PROVE IInv'
<1>1. /\ BrokerTypeOK' /\ StoreTypeOK' /\ pending' \subseteq Message
      /\ NothingLost' /\ OriginalPreserved'
  BY Frame DEF IInv, KeepWaiting
<1>2. WorkerTypeOK'
  BY DEF IInv, TypeOK, WorkerTypeOK, KeepWaiting
<1>3. TypeOK'
  BY <1>1, <1>2 DEF IInv, TypeOK, KeepWaiting
<1>4. HandInv'
  BY DEF HandInv, KeepWaiting, NextEngine
<1> QED
  BY <1>1, <1>3, <1>4 DEF IInv

(* The transaction of one released event: what was stored stays stored,    *)
(* and the event's identity joins it.                                      *)
LEMMA PersistKeeps ==
    ASSUME IInv, NEW m \in Message, NEW flag, Persist(m, flag),
           UNCHANGED <<brokerVars, pending>>
    PROVE  /\ BrokerTypeOK' /\ StoreTypeOK' /\ pending' \subseteq Message
           /\ NothingLost' /\ OriginalPreserved'
           /\ m.event_id \in StoredIds'
<1>1. BrokerTypeOK' /\ pending' \subseteq Message
  BY DEF IInv, TypeOK, BrokerTypeOK, brokerVars
<1>2. StoreTypeOK'
  BY PersistType DEF IInv, TypeOK
<1>3. StoredIds' = StoredIds \cup {m.event_id}
  BY PersistStores
<1>4. StagedIds' = StagedIds
  BY DEF StagedIds
<1>5. NothingLost'
  BY <1>3, <1>4 DEF IInv, NothingLost, brokerVars
<1>6. OriginalPreserved'
  BY PersistKeepsOneRow DEF IInv
<1> QED
  BY <1>1, <1>2, <1>3, <1>5, <1>6

(* The processing transaction keeps the invariant: the current event is    *)
(* stored from here on.                                                    *)
LEMMA ProcessKeeps == ASSUME IInv, Process PROVE IInv'
<1>1. PICK m \in Earliest(released) :
          Persist(m, PassedFlag) /\ released' = released \ {m} /\ current' = m
  BY DEF Process
<1>2. m \in Message
  BY DEF Earliest, IInv, TypeOK, WorkerTypeOK
<1>3. /\ BrokerTypeOK' /\ StoreTypeOK' /\ pending' \subseteq Message
      /\ NothingLost' /\ OriginalPreserved'
      /\ m.event_id \in StoredIds'
  BY <1>1, <1>2, PersistKeeps DEF Process
<1>4. 0 \in 0..MaxRetryAttempts
  BY ConsumerAssumption
<1>5. WorkerTypeOK'
  BY <1>1, <1>2, <1>4 DEF IInv, TypeOK, WorkerTypeOK, Process
<1>6. TypeOK'
  BY <1>3, <1>5 DEF IInv, TypeOK, Process
<1>7. HandInv'
  BY <1>1, <1>2, <1>3 DEF HandInv, Process
<1> QED
  BY <1>3, <1>6, <1>7 DEF IInv

(* Recording the ordering-window issue keeps the invariant.                *)
LEMMA RecordKeeps == ASSUME IInv, Record PROVE IInv'
<1>1. current \in Message /\ current.event_id \in EventIds
  BY DEF IInv, HandInv, Record, EventIds
<1>2. StoreTypeOK'
  BY <1>1 DEF IInv, TypeOK, StoreTypeOK, Record, RecordOrderingWindowExpired
<1>3. BrokerTypeOK'
  BY DEF IInv, TypeOK, BrokerTypeOK, Record, brokerVars
<1>4. WorkerTypeOK'
  BY DEF IInv, TypeOK, WorkerTypeOK, Record, recoveryVars
<1>5. TypeOK'
  BY <1>2, <1>3, <1>4 DEF IInv, TypeOK, Record
<1>6. StoredIds' = StoredIds /\ StagedIds' = StagedIds
  BY DEF Record, RecordOrderingWindowExpired, StoredIds, StagedIds
<1>7. HandInv'
  BY <1>6 DEF IInv, HandInv, Record, recoveryVars
<1>8. NothingLost'
  BY <1>6 DEF IInv, NothingLost, Record, brokerVars
<1>9. OriginalPreserved'
  BY DEF IInv, OriginalPreserved, Record, RecordOrderingWindowExpired
<1> QED
  BY <1>5, <1>7, <1>8, <1>9 DEF IInv

(* Deleting a staged row is safe because its identity is stored.           *)
LEMMA DeleteKeeps == ASSUME IInv, Delete PROVE IInv'
<1>1. current.event_id \in StoredIds
  BY DEF IInv, HandInv, Delete
<1>2. StoredIds' = StoredIds
  BY DEF Delete, storeVars, StoredIds
<1>3. StagedIds \ {current.event_id} \subseteq StagedIds'
  BY DEF Delete, StagedIds
<1>4. BrokerTypeOK' /\ StoreTypeOK' /\ pending' \subseteq Message
  BY DEF IInv, TypeOK, BrokerTypeOK, StoreTypeOK, Delete, brokerVars, storeVars
<1>5. WorkerTypeOK'
  BY DEF IInv, TypeOK, WorkerTypeOK, Delete
<1>6. TypeOK'
  BY <1>4, <1>5 DEF IInv, TypeOK, Delete
<1>7. HandInv'
  BY DEF HandInv, Delete
<1>8. NothingLost'
  BY <1>1, <1>2, <1>3 DEF IInv, NothingLost, Delete, brokerVars
<1>9. OriginalPreserved'
  BY DEF IInv, OriginalPreserved, Delete, storeVars
<1> QED
  BY <1>6, <1>7, <1>8, <1>9 DEF IInv

(* The end of a recovery keeps the invariant.                              *)
LEMMA RecoveredKeeps == ASSUME IInv, Recovered PROVE IInv'
<1>1. /\ BrokerTypeOK' /\ StoreTypeOK' /\ pending' \subseteq Message
      /\ NothingLost' /\ OriginalPreserved'
  BY Frame DEF IInv, Recovered
<1>2. WorkerTypeOK'
  BY EmptyBufferType DEF IInv, TypeOK, WorkerTypeOK, Recovered
<1>3. TypeOK'
  BY <1>1, <1>2 DEF IInv, TypeOK, Recovered
<1>4. HandInv'
  BY DEF HandInv, Recovered
<1> QED
  BY <1>1, <1>3, <1>4 DEF IInv

-----------------------------------------------------------------------------
(* Producers, the clock and the rest of consume_once.                      *)

LEMMA PublishKeeps ==
    ASSUME IInv, NEW m \in Message \cup Malformed, Publish(m) PROVE IInv'
<1>1. /\ log \in Seq(Message \cup Malformed) /\ committed \in 0..Len(log)
      /\ dead_letters \subseteq DOMAIN log
  BY DEF IInv, TypeOK, BrokerTypeOK
<1>2. /\ log' \in Seq(Message \cup Malformed) /\ Len(log') = Len(log) + 1
      /\ DOMAIN log \subseteq DOMAIN log'
      /\ \A o \in 1..Len(log) : log'[o] = log[o]
  BY <1>1 DEF Publish
<1>3. BrokerTypeOK'
  BY <1>1, <1>2 DEF BrokerTypeOK, Publish
<1>4. StoreTypeOK' /\ WorkerTypeOK'
  BY DEF IInv, TypeOK, StoreTypeOK, WorkerTypeOK, Publish, storeVars, recoveryVars
<1>5. TypeOK'
  BY <1>3, <1>4 DEF IInv, TypeOK, Publish
<1>6. StoredIds' = StoredIds /\ StagedIds' = StagedIds
  BY DEF Publish, storeVars, StoredIds, StagedIds
<1>7. committed < Len(log) => committed < Len(log') /\ InHand' = InHand
  BY <1>1, <1>2 DEF InHand, Publish
<1>8. HandInv'
  BY <1>6, <1>7 DEF IInv, HandInv, Publish, recoveryVars
<1>9. NothingLost'
  BY <1>1, <1>2, <1>6 DEF IInv, NothingLost, Publish
<1>10. OriginalPreserved'
  BY DEF IInv, OriginalPreserved, Publish, storeVars
<1> QED
  BY <1>5, <1>8, <1>9, <1>10 DEF IInv

(* The passing of time keeps the invariant.                                *)
LEMMA BecomeIdleKeeps ==
    ASSUME IInv, NEW e \in Engines, BecomeIdle(e) PROVE IInv'
<1>1. /\ BrokerTypeOK' /\ StoreTypeOK' /\ pending' \subseteq Message
      /\ NothingLost' /\ OriginalPreserved'
  BY Frame DEF IInv, BecomeIdle
<1>2. WorkerTypeOK'
  BY DEF IInv, TypeOK, WorkerTypeOK, BecomeIdle, recoveryVars
<1>3. TypeOK'
  BY <1>1, <1>2 DEF IInv, TypeOK, BecomeIdle
<1>4. HandInv'
  BY DEF IInv, HandInv, BecomeIdle, recoveryVars, brokerVars, storeVars,
         InHand, StagedIds, StoredIds
<1> QED
  BY <1>1, <1>3, <1>4 DEF IInv

(* A poll without a message keeps the invariant.                           *)
LEMMA PollTimeoutKeeps == ASSUME IInv, PollTimeout PROVE IInv'
<1>1. /\ BrokerTypeOK' /\ StoreTypeOK' /\ pending' \subseteq Message
      /\ NothingLost' /\ OriginalPreserved'
  BY Frame DEF IInv, PollTimeout
<1>2. WorkerTypeOK'
  BY DEF IInv, TypeOK, WorkerTypeOK, PollTimeout, recoveryVars
<1>3. TypeOK'
  BY <1>1, <1>2 DEF IInv, TypeOK, PollTimeout
<1>4. HandInv'
  BY DEF HandInv, PollTimeout
<1> QED
  BY <1>1, <1>3, <1>4 DEF IInv

(* A poll with a message keeps the invariant: the message in hand is the   *)
(* next of the log.                                                        *)
LEMMA PollMessageKeeps == ASSUME IInv, PollMessage PROVE IInv'
<1>1. /\ BrokerTypeOK' /\ StoreTypeOK' /\ pending' \subseteq Message
      /\ NothingLost' /\ OriginalPreserved'
  BY Frame DEF IInv, PollMessage
<1>2. WorkerTypeOK'
  BY DEF IInv, TypeOK, WorkerTypeOK, PollMessage, recoveryVars
<1>3. TypeOK'
  BY <1>1, <1>2 DEF IInv, TypeOK, PollMessage
<1>4. HandInv'
  BY DEF HandInv, PollMessage, InHand, brokerVars
<1> QED
  BY <1>1, <1>3, <1>4 DEF IInv

(* Staging leaves the message's identity among the staged ones.            *)
LEMMA StageRowStages ==
    ASSUME StageRow
    PROVE  StagedIds' = StagedIds \cup {InHand.event_id}
BY DEF StageRow, StagedIds

(* A committed staging keeps types, durability and idempotence.            *)
LEMMA StageRowKeeps ==
    ASSUME IInv, StageRow, InHand \in Message, UNCHANGED <<brokerVars, storeVars>>
    PROVE  /\ BrokerTypeOK' /\ StoreTypeOK'
           /\ pending' \subseteq Message /\ idle' \subseteq Engines
           /\ NothingLost' /\ OriginalPreserved'
<1>1. BrokerTypeOK' /\ StoreTypeOK'
  BY DEF IInv, TypeOK, BrokerTypeOK, StoreTypeOK, brokerVars, storeVars
<1>2. pending' \subseteq Message /\ idle' \subseteq Engines
  BY DEF IInv, TypeOK, StageRow
<1>3. StoredIds' = StoredIds
  BY DEF storeVars, StoredIds
<1>4. NothingLost'
  BY <1>3, StageRowStages DEF IInv, NothingLost, brokerVars
<1>5. OriginalPreserved'
  BY DEF IInv, OriginalPreserved, storeVars
<1> QED
  BY <1>1, <1>2, <1>4, <1>5

(* Staging keeps the invariant: the message in hand is staged from here    *)
(* on.                                                                     *)
LEMMA StageKeeps == ASSUME IInv, Stage PROVE IInv'
<1>1. committed < Len(log) /\ InHand \in Message
  BY DEF IInv, HandInv, Stage
<1>2. /\ BrokerTypeOK' /\ StoreTypeOK'
      /\ pending' \subseteq Message /\ idle' \subseteq Engines
      /\ NothingLost' /\ OriginalPreserved'
  BY <1>1, StageRowKeeps DEF Stage
<1>3. 0 \in 0..MaxRetryAttempts
  BY ConsumerAssumption
<1>4. WorkerTypeOK'
  BY <1>3 DEF IInv, TypeOK, WorkerTypeOK, Stage, recoveryVars
<1>5. TypeOK'
  BY <1>2, <1>4 DEF IInv, TypeOK, Stage
<1>6. InHand' = InHand /\ committed' = committed /\ log' = log
  BY DEF Stage, brokerVars, InHand
<1>7. HandInv'
  BY <1>1, <1>6, StageRowStages DEF HandInv, Stage
<1> QED
  BY <1>2, <1>5, <1>7 DEF IInv

(* The offset moves past a message that is staged or stored ...            *)
LEMMA CommitKeeps == ASSUME IInv, Commit PROVE IInv'
<1>1. /\ committed < Len(log) /\ log[committed + 1] \in Message
      /\ log[committed + 1].event_id \in StagedIds \cup StoredIds
  BY DEF IInv, HandInv, Commit, InHand
<1>2. /\ log \in Seq(Message \cup Malformed) /\ committed \in 0..Len(log)
      /\ dead_letters \subseteq DOMAIN log
  BY DEF IInv, TypeOK, BrokerTypeOK
<1>3. BrokerTypeOK'
  BY <1>1, <1>2 DEF BrokerTypeOK, Commit
<1>4. StoreTypeOK' /\ WorkerTypeOK'
  BY DEF IInv, TypeOK, StoreTypeOK, WorkerTypeOK, Commit, storeVars, recoveryVars
<1>5. TypeOK'
  BY <1>3, <1>4 DEF IInv, TypeOK, Commit
<1>6. HandInv'
  BY DEF HandInv, Commit
<1>7. StoredIds' = StoredIds /\ StagedIds' = StagedIds
  BY DEF Commit, storeVars, StoredIds, StagedIds
<1>8. NothingLost'
  BY <1>1, <1>2, <1>7 DEF IInv, NothingLost, Commit
<1>9. OriginalPreserved'
  BY DEF IInv, OriginalPreserved, Commit, storeVars
<1> QED
  BY <1>5, <1>6, <1>8, <1>9 DEF IInv

(* Publishing a dead letter keeps the invariant.                           *)
LEMMA PublishDeadLetterKeeps == ASSUME IInv, PublishDeadLetter PROVE IInv'
<1>1. committed < Len(log) /\ InHand \notin Message
  BY DEF IInv, HandInv, PublishDeadLetter
<1>2. /\ log \in Seq(Message \cup Malformed) /\ committed \in 0..Len(log)
      /\ dead_letters \subseteq DOMAIN log
  BY DEF IInv, TypeOK, BrokerTypeOK
<1>3. BrokerTypeOK'
  BY <1>1, <1>2 DEF BrokerTypeOK, PublishDeadLetter
<1>4. StoreTypeOK' /\ WorkerTypeOK'
  BY DEF IInv, TypeOK, StoreTypeOK, WorkerTypeOK, PublishDeadLetter, storeVars,
         recoveryVars
<1>5. TypeOK'
  BY <1>3, <1>4 DEF IInv, TypeOK, PublishDeadLetter
<1>6. HandInv'
  BY <1>1 DEF HandInv, PublishDeadLetter, InHand
<1>7. StoredIds' = StoredIds /\ StagedIds' = StagedIds
  BY DEF PublishDeadLetter, storeVars, StoredIds, StagedIds
<1>8. NothingLost'
  BY <1>7 DEF IInv, NothingLost, PublishDeadLetter
<1>9. OriginalPreserved'
  BY DEF IInv, OriginalPreserved, PublishDeadLetter, storeVars
<1> QED
  BY <1>5, <1>6, <1>8, <1>9 DEF IInv

(* ... or past an invalid one that is in the dead-letter topic.            *)
LEMMA AcknowledgeKeeps == ASSUME IInv, Acknowledge PROVE IInv'
<1>1. /\ committed < Len(log) /\ log[committed + 1] \notin Message
      /\ committed + 1 \in dead_letters
  BY DEF IInv, HandInv, Acknowledge, InHand
<1>2. /\ log \in Seq(Message \cup Malformed) /\ committed \in 0..Len(log)
      /\ dead_letters \subseteq DOMAIN log
  BY DEF IInv, TypeOK, BrokerTypeOK
<1>3. BrokerTypeOK'
  BY <1>1, <1>2 DEF BrokerTypeOK, Acknowledge
<1>4. StoreTypeOK' /\ WorkerTypeOK'
  BY DEF IInv, TypeOK, StoreTypeOK, WorkerTypeOK, Acknowledge, storeVars, recoveryVars
<1>5. TypeOK'
  BY <1>3, <1>4 DEF IInv, TypeOK, Acknowledge
<1>6. HandInv'
  BY DEF HandInv, Acknowledge
<1>7. StoredIds' = StoredIds /\ StagedIds' = StagedIds
  BY DEF Acknowledge, storeVars, StoredIds, StagedIds
<1>8. NothingLost'
  BY <1>1, <1>2, <1>7 DEF IInv, NothingLost, Acknowledge
<1>9. OriginalPreserved'
  BY DEF IInv, OriginalPreserved, Acknowledge, storeVars
<1> QED
  BY <1>5, <1>6, <1>8, <1>9 DEF IInv

-----------------------------------------------------------------------------
(* Crashes, escaping errors and retries.                                   *)

(* A restarted worker has nothing in its hands.                            *)
LEMMA RestartKeeps ==
    ASSUME IInv, Restart, faults' \in 0..MaxFaults PROVE IInv'
<1>1. /\ BrokerTypeOK' /\ StoreTypeOK' /\ pending' \subseteq Message
      /\ NothingLost' /\ OriginalPreserved'
  BY Frame DEF IInv, Restart
<1>2. TypeOK'
  BY RestartType DEF IInv
<1>3. HandInv'
  BY DEF HandInv, Restart
<1> QED
  BY <1>1, <1>2, <1>3 DEF IInv

(* A crash, a conflict and every kind of retry keep the invariant.         *)
LEMMA FailureKeeps == ASSUME IInv, Failure PROVE IInv'
<1>1. /\ MaxRetryAttempts \in Nat /\ MaxFaults \in Nat /\ faults \in 0..MaxFaults
      /\ attempts \in 0..MaxRetryAttempts
  BY ConsumerAssumption DEF IInv, TypeOK, WorkerTypeOK
<1>2. CASE Crash
  BY <1>1, <1>2, RestartKeeps DEF Crash
<1>3. CASE UnretriedError
  BY <1>1, <1>3, RestartKeeps DEF UnretriedError
<1>4. CASE RetriesExhausted
  BY <1>1, <1>4, RestartKeeps DEF RetriesExhausted
<1>5. CASE RetryRolledBack
  <2>1. /\ BrokerTypeOK' /\ StoreTypeOK' /\ pending' \subseteq Message
        /\ NothingLost' /\ OriginalPreserved'
    BY <1>5, Frame DEF IInv, RetryRolledBack, Retry
  <2>2. WorkerTypeOK'
    BY <1>1, <1>5 DEF IInv, TypeOK, WorkerTypeOK, RetryRolledBack, Retry, recoveryVars
  <2>3. TypeOK'
    BY <1>1, <1>5, <2>1, <2>2 DEF IInv, TypeOK, RetryRolledBack, Retry
  <2>4. HandInv'
    BY <1>5 DEF IInv, HandInv, RetryRolledBack, Retry, recoveryVars, brokerVars,
                storeVars, InHand, StagedIds, StoredIds
  <2> QED
    BY <2>1, <2>3, <2>4 DEF IInv
<1>6. CASE RetryProcessed
  <2>1. PICK m \in Earliest(released) : Persist(m, PassedFlag)
    BY <1>6 DEF RetryProcessed
  <2>2. m \in Message
    BY DEF Earliest, IInv, TypeOK, WorkerTypeOK
  <2>3. /\ BrokerTypeOK' /\ StoreTypeOK' /\ pending' \subseteq Message
        /\ NothingLost' /\ OriginalPreserved'
    BY <1>6, <2>1, <2>2, PersistKeeps DEF RetryProcessed, Retry
  <2>4. WorkerTypeOK'
    BY <1>1, <1>6 DEF IInv, TypeOK, WorkerTypeOK, RetryProcessed, Retry, recoveryVars
  <2>5. TypeOK'
    BY <1>1, <1>6, <2>3, <2>4 DEF IInv, TypeOK, RetryProcessed, Retry
  <2>6. HandInv'
    BY <1>6 DEF HandInv, RetryProcessed, Retry
  <2> QED
    BY <2>3, <2>5, <2>6 DEF IInv
<1>7. CASE RetryStaged
  <2>1. committed < Len(log) /\ InHand \in Message
    BY <1>7 DEF IInv, HandInv, RetryStaged
  <2>2. /\ BrokerTypeOK' /\ StoreTypeOK'
        /\ pending' \subseteq Message /\ idle' \subseteq Engines
        /\ NothingLost' /\ OriginalPreserved'
    BY <1>7, <2>1, StageRowKeeps DEF RetryStaged, Retry
  <2>3. WorkerTypeOK'
    BY <1>1, <1>7 DEF IInv, TypeOK, WorkerTypeOK, RetryStaged, Retry, recoveryVars
  <2>4. TypeOK'
    BY <1>1, <1>7, <2>2, <2>3 DEF TypeOK, RetryStaged, Retry
  <2>5. HandInv'
    BY <1>7, <2>1 DEF HandInv, RetryStaged, Retry, brokerVars, InHand
  <2> QED
    BY <2>2, <2>4, <2>5 DEF IInv
<1> QED
  BY <1>2, <1>3, <1>4, <1>5, <1>6, <1>7 DEF Failure

-----------------------------------------------------------------------------
(* The invariant and what it implies.                                      *)

LEMMA InitIInv == Init => IInv
<1> SUFFICES ASSUME Init PROVE IInv
  OBVIOUS
<1>1. TypeOK
  BY InitType
<1>2. HandInv
  BY DEF Init, HandInv
<1>3. NothingLost
  BY DEF Init, NothingLost
<1>4. OriginalPreserved
  BY DEF Init, StoreInit, OriginalPreserved
<1> QED
  BY <1>1, <1>2, <1>3, <1>4 DEF IInv

(* Every step keeps the invariant.                                         *)
LEMMA NextIInv == IInv /\ [Next]_vars => IInv'
<1> SUFFICES ASSUME IInv, [Next]_vars PROVE IInv'
  OBVIOUS
<1>1. CASE \E m \in Message \cup Malformed : Publish(m)
  BY <1>1, PublishKeeps
<1>2. CASE \E e \in Engines : BecomeIdle(e)
  BY <1>2, BecomeIdleKeeps
<1>3. CASE Recovery
  BY <1>3, LoadKeeps, ObserveRowKeeps, FlushIdleKeeps, KeepWaitingKeeps, ProcessKeeps,
     RecordKeeps, DeleteKeeps, RecoveredKeeps DEF Recovery
<1>4. CASE Consumption
  BY <1>4, PollTimeoutKeeps, PollMessageKeeps, StageKeeps, CommitKeeps,
     PublishDeadLetterKeeps, AcknowledgeKeeps DEF Consumption
<1>5. CASE Failure
  BY <1>5, FailureKeeps
<1>6. CASE UNCHANGED vars
  <2>1. /\ BrokerTypeOK' /\ StoreTypeOK' /\ pending' \subseteq Message
        /\ NothingLost' /\ OriginalPreserved'
    BY <1>6, Frame DEF IInv, vars
  <2>2. WorkerTypeOK'
    BY <1>6 DEF IInv, TypeOK, WorkerTypeOK, vars, recoveryVars
  <2>3. TypeOK'
    BY <1>6, <2>1, <2>2 DEF IInv, TypeOK, vars
  <2>4. HandInv'
    BY <1>6 DEF IInv, HandInv, vars, recoveryVars, brokerVars, storeVars, InHand,
                StagedIds, StoredIds
  <2> QED
    BY <2>1, <2>3, <2>4 DEF IInv
<1> QED
  BY <1>1, <1>2, <1>3, <1>4, <1>5, <1>6 DEF Next

(* The inductive invariant of the worker: types, what it knows at each     *)
(* step, durability and idempotence.                                       *)
THEOREM Invariance == Spec => []IInv
<1>1. Init => IInv
  BY InitIInv
<1>2. IInv /\ [Next]_vars => IInv'
  BY NextIInv
<1> QED
  BY <1>1, <1>2, PTL DEF Spec

(* The worker's state is well typed, whatever it reads back from the       *)
(* broker and the tables after a crash.                                    *)
THEOREM TypeCorrect == Spec => []TypeOK
<1>1. IInv => TypeOK
  BY DEF IInv
<1> QED
  BY <1>1, Invariance, PTL

(* consume_once acknowledges a message only after persist_pending_event or *)
(* publish_dead_letter, and deletes a staged row only after its event is   *)
(* in telemetry_event: no acknowledged message is ever lost.               *)
THEOREM Durability == Spec => []NothingLost
<1>1. IInv => NothingLost
  BY DEF IInv
<1> QED
  BY <1>1, Invariance, PTL

(* Redelivered, republished and retried copies never replace the row of an *)
(* identity, and a refused copy differs from the row it was refused for.   *)
THEOREM Idempotence == Spec => []OriginalPreserved
<1>1. IInv => OriginalPreserved
  BY DEF IInv
<1> QED
  BY <1>1, Invariance, PTL

-----------------------------------------------------------------------------
(* The worker implements DurableIngest.  The invariant reduces the         *)
(* refinement mapping to KnownFate, which only the offset and the stored   *)
(* identities can change: publishing accepts a message, moving the offset  *)
(* acknowledges the next one, storing a new identity settles its held      *)
(* copies, and every other step of the worker, its crashes included,       *)
(* stutters.                                                               *)

KnownFate(o) ==
    IF o > committed THEN "queued"
    ELSE IF log[o] \notin Message THEN "dead"
    ELSE IF log[o].event_id \in StoredIds THEN "settled" ELSE "held"

KnownFates == [o \in DOMAIN log |-> KnownFate(o)]

(* No message is in the state the mapping calls lost.                      *)
LEMMA FateIsKnown == IInv => [o \in DOMAIN log |-> Fate(o)] = KnownFates
<1> SUFFICES ASSUME IInv, NEW o \in DOMAIN log PROVE Fate(o) = KnownFate(o)
  BY DEF KnownFates
<1>1. o \in Nat \ {0} /\ committed \in Nat
  BY DEF IInv, TypeOK, BrokerTypeOK
<1>2. CASE o > committed
  BY <1>2 DEF Fate, KnownFate
<1>3. CASE o <= committed
  <2>1. o \in 1..committed
    BY <1>1, <1>3
  <2>2. IF log[o] \in Message THEN log[o].event_id \in StagedIds \cup StoredIds
                              ELSE o \in dead_letters
    BY <2>1 DEF IInv, NothingLost
  <2> QED
    BY <1>1, <1>3, <2>2 DEF Fate, KnownFate
<1> QED
  BY <1>1, <1>2, <1>3

(* The worker's initial states map to initial states of DurableIngest.     *)
LEMMA InitMaps == Init => Ingest!IngestInit
BY DEF Init, Ingest!IngestInit

-----------------------------------------------------------------------------
(* A new message at the end of the log is an accepted one.                 *)
LEMMA PublishMaps ==
    ASSUME IInv, NEW m \in Message \cup Malformed, Publish(m)
    PROVE  log' = Append(log, m) /\ KnownFates' = Append(KnownFates, "queued")
<1>1. log \in Seq(Message \cup Malformed) /\ committed \in 0..Len(log)
  BY DEF IInv, TypeOK, BrokerTypeOK
<1>2. log' = Append(log, m) /\ committed' = committed /\ StoredIds' = StoredIds
  BY DEF Publish, storeVars, StoredIds
<1>3. PICK n \in Nat : n = Len(log)
  BY <1>1
<1>4. KnownFates = [o \in 1..n |-> KnownFate(o)]
  BY <1>1, <1>3 DEF KnownFates
<1>5. KnownFates' = [o \in 1..(n + 1) |-> KnownFate(o)']
  BY <1>1, <1>2, <1>3 DEF KnownFates
<1>6. /\ \A o \in 1..n : KnownFate(o)' = KnownFate(o)
      /\ KnownFate(n + 1)' = "queued"
  BY <1>1, <1>2, <1>3 DEF KnownFate
<1> DEFINE Known == {"queued", "dead", "settled", "held"}
<1>7. \A o \in 1..n : KnownFate(o) \in Known
  BY DEF KnownFate
<1>8. KnownFates \in [1..n -> Known]
  BY <1>4, <1>7
<1>9. KnownFates \in Seq(Known) /\ Len(KnownFates) = n
  BY <1>3, <1>8
<1>10. LET longer == Append(KnownFates, "queued")
       IN  /\ longer \in Seq(Known) /\ Len(longer) = n + 1
           /\ \A o \in 1..n : longer[o] = KnownFates[o]
           /\ longer[n + 1] = "queued"
  BY <1>9, AppendProperties
<1>11. KnownFates' = Append(KnownFates, "queued")
  BY <1>3, <1>4, <1>5, <1>6, <1>10
<1> QED
  BY <1>2, <1>11

(* Moving the offset acknowledges the next message, valid or not, with a   *)
(* fate DurableIngest allows.                                              *)
LEMMA AdvanceMaps ==
    ASSUME IInv, committed < Len(log), committed' = committed + 1, log' = log,
           StoredIds' = StoredIds,
           [o \in DOMAIN log |-> Fate(o)] = KnownFates,
           [o \in DOMAIN log |-> Fate(o)]' = KnownFates'
    PROVE  Ingest!AcknowledgeNext
<1>1. log \in Seq(Message \cup Malformed) /\ committed \in 0..Len(log)
  BY DEF IInv, TypeOK, BrokerTypeOK
<1>2. PICK next \in Nat : next = committed + 1
  BY <1>1
<1>3. next \in DOMAIN log /\ DOMAIN log = 1..Len(log)
  BY <1>1, <1>2
<1>4. KnownFates[next] = "queued"
  BY <1>1, <1>2, <1>3 DEF KnownFates, KnownFate
<1>5. \A p \in DOMAIN log : p < next => KnownFates[p] # "queued"
  BY <1>1, <1>2, <1>3 DEF KnownFates, KnownFate
<1>6. KnownFates' = [KnownFates EXCEPT ![next] = KnownFate(next)']
  <2>1. \A o \in DOMAIN log : o # next => KnownFate(o)' = KnownFate(o)
    BY <1>1, <1>2, <1>3 DEF KnownFate
  <2>2. KnownFates' = [o \in DOMAIN log |-> KnownFate(o)']
    BY DEF KnownFates
  <2> QED
    BY <1>3, <2>1, <2>2 DEF KnownFates
<1>7. CASE log[next] \notin Message
  <2>1. KnownFate(next)' = "dead"
    BY <1>1, <1>2, <1>7 DEF KnownFate
  <2> QED
    BY <1>3, <1>4, <1>5, <1>6, <1>7, <2>1 DEF Ingest!AcknowledgeNext, Ingest!Fates
<1>8. CASE log[next] \in Message
  <2>1. KnownFate(next)' = IF log[next].event_id \in StoredIds THEN "settled" ELSE "held"
    BY <1>1, <1>2, <1>8 DEF KnownFate
  <2>2. ASSUME NEW p \in DOMAIN log, log[p] \in Message,
               log[p].event_id = log[next].event_id, KnownFates[p] = "settled"
        PROVE  log[next].event_id \in StoredIds
    BY <1>1, <1>3, <2>2 DEF KnownFates, KnownFate
  <2>3. KnownFate(next)' \in Ingest!Fates(next)
    BY <1>8, <2>1, <2>2 DEF Ingest!Fates
  <2> QED
    BY <1>3, <1>4, <1>5, <1>6, <2>3 DEF Ingest!AcknowledgeNext
<1> QED
  BY <1>7, <1>8

(* Storing an identity settles its held copies; if there are none (it was  *)
(* stored already, or its message is not acknowledged yet) nothing changes.*)
LEMMA StoreMaps ==
    ASSUME IInv, NEW m \in Message, UNCHANGED <<log, committed>>,
           StoredIds' = StoredIds \cup {m.event_id},
           [o \in DOMAIN log |-> Fate(o)] = KnownFates,
           [o \in DOMAIN log |-> Fate(o)]' = KnownFates'
    PROVE  Ingest!Settle(m) \/ UNCHANGED Ingest!ingestVars
<1>1. log \in Seq(Message \cup Malformed) /\ committed \in 0..Len(log)
  BY DEF IInv, TypeOK, BrokerTypeOK
<1> DEFINE held(o) == /\ log[o] \in Message
                      /\ log[o].event_id = m.event_id
                      /\ KnownFates[o] = "held"
<1>2. KnownFates' = [o \in DOMAIN log |-> IF held(o) THEN "settled" ELSE KnownFates[o]]
  BY <1>1 DEF KnownFates, KnownFate
<1>3. CASE \E o \in DOMAIN log : held(o)
  BY <1>2, <1>3 DEF Ingest!Settle, Ingest!Held
<1>4. CASE ~\E o \in DOMAIN log : held(o)
  <2>1. KnownFates' = KnownFates
    BY <1>2, <1>4 DEF KnownFates
  <2> QED
    BY <2>1 DEF Ingest!ingestVars
<1> QED
  BY <1>3, <1>4

(* A step that moves neither the log, nor the offset, nor the stored       *)
(* identities is invisible.                                                *)
LEMMA QuietMaps ==
    ASSUME UNCHANGED <<log, committed, StoredIds>>,
           [o \in DOMAIN log |-> Fate(o)] = KnownFates,
           [o \in DOMAIN log |-> Fate(o)]' = KnownFates'
    PROVE  UNCHANGED Ingest!ingestVars
BY DEF KnownFates, KnownFate, Ingest!ingestVars

-----------------------------------------------------------------------------
(* Every step of the worker maps to a step of DurableIngest or a stutter.  *)
LEMMA NextMaps ==
    ASSUME IInv, [Next]_vars,
           [o \in DOMAIN log |-> Fate(o)] = KnownFates,
           [o \in DOMAIN log |-> Fate(o)]' = KnownFates'
    PROVE  [Ingest!IngestNext]_Ingest!ingestVars
<1>1. CASE \E m \in Message \cup Malformed : Publish(m)
  <2>1. PICK m \in Message \cup Malformed : Publish(m)
    BY <1>1
  <2>2. Ingest!Accept(m)
    BY <2>1, PublishMaps DEF Ingest!Accept
  <2> QED
    BY <2>2 DEF Ingest!IngestNext
<1>2. CASE \E e \in Engines : BecomeIdle(e)
  <2>1. UNCHANGED <<log, committed, StoredIds>>
    BY <1>2 DEF BecomeIdle, brokerVars, storeVars, StoredIds
  <2> QED
    BY <2>1, QuietMaps
<1>3. ASSUME NEW m \in Message, NEW flag, Persist(m, flag), UNCHANGED brokerVars
      PROVE  [Ingest!IngestNext]_Ingest!ingestVars
  <2>1. StoredIds' = StoredIds \cup {m.event_id}
    BY <1>3, PersistStores
  <2>2. Ingest!Settle(m) \/ UNCHANGED Ingest!ingestVars
    BY <1>3, <2>1, StoreMaps DEF brokerVars
  <2> QED
    BY <2>2 DEF Ingest!IngestNext
<1>4. ASSUME NEW m \in Earliest(released) PROVE m \in Message
  BY <1>4 DEF Earliest, IInv, TypeOK, WorkerTypeOK
<1>5. CASE Process
  BY <1>3, <1>4, <1>5 DEF Process
<1>6. CASE RetryProcessed
  BY <1>3, <1>4, <1>6 DEF RetryProcessed, Retry
<1>7. CASE Commit \/ Acknowledge
  <2>1. committed < Len(log)
    BY <1>7 DEF IInv, HandInv, Commit, Acknowledge
  <2>2. committed' = committed + 1 /\ log' = log /\ StoredIds' = StoredIds
    BY <1>7 DEF Commit, Acknowledge, storeVars, StoredIds
  <2> QED
    BY <2>1, <2>2, AdvanceMaps DEF Ingest!IngestNext
<1>8. CASE \/ Load \/ ObserveRow \/ \E e \in Engines : FlushIdle(e) \/ KeepWaiting(e)
           \/ Record \/ Delete \/ Recovered
  <2>1. UNCHANGED <<log, committed, StoredIds>>
    BY <1>8 DEF Load, ObserveRow, FlushIdle, KeepWaiting, Record, Delete, Recovered,
                RecordOrderingWindowExpired, brokerVars, storeVars, StoredIds
  <2> QED
    BY <2>1, QuietMaps
<1>9. CASE PollTimeout \/ PollMessage \/ Stage \/ PublishDeadLetter
  <2>1. UNCHANGED <<log, committed, StoredIds>>
    BY <1>9 DEF PollTimeout, PollMessage, Stage, PublishDeadLetter, brokerVars,
                storeVars, StoredIds
  <2> QED
    BY <2>1, QuietMaps
<1>10. CASE \/ Crash \/ UnretriedError \/ RetryRolledBack \/ RetryStaged
            \/ RetriesExhausted \/ UNCHANGED vars
  <2>1. UNCHANGED <<log, committed, StoredIds>>
    BY <1>10 DEF Crash, UnretriedError, RetryRolledBack, RetryStaged,
                 RetriesExhausted, Restart, Retry, vars, brokerVars, storeVars, StoredIds
  <2> QED
    BY <2>1, QuietMaps
<1> QED
  BY <1>1, <1>2, <1>5, <1>6, <1>7, <1>8, <1>9, <1>10
     DEF Next, Recovery, Consumption, Failure

(* Between staging, acknowledging, processing and deleting, whatever fails *)
(* and however often it is retried, the worker does what DurableIngest     *)
(* promises a producer.                                                    *)
THEOREM Refinement == Spec => ImplementsIngest
<1>1. Init => Ingest!IngestInit
  BY InitMaps
<1>2. IInv => [o \in DOMAIN log |-> Fate(o)] = KnownFates
  BY FateIsKnown
<1>3. /\ IInv /\ [Next]_vars
      /\ [o \in DOMAIN log |-> Fate(o)] = KnownFates
      /\ ([o \in DOMAIN log |-> Fate(o)] = KnownFates)'
      => [Ingest!IngestNext]_Ingest!ingestVars
  BY NextMaps
<1> QED
  BY <1>1, <1>2, <1>3, Invariance, PTL DEF Spec, ImplementsIngest, Ingest!IngestSafety
=============================================================================
