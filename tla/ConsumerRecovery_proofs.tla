----------------------- MODULE ConsumerRecovery_proofs -----------------------
(***************************************************************************)
(* What one recovery of the streaming worker guarantees, for every set of  *)
(* events, lateness window and bound: the warning of an idle flush is not  *)
(* lost, predictions agree with the tables they were computed from, and no *)
(* event overtakes an older staged one.                                    *)
(*                                                                         *)
(* None of the three is inductive.  They rest on where a staged row is     *)
(* while recover_pending works (HeldInv): in the rows still to be          *)
(* observed, in its engine's buffer, among the released events or in hand, *)
(* and in one of them only.                                                *)
(***************************************************************************)
EXTENDS TelemetryConsumer_proofs

InRecovery == pc \in {"scan", "process", "record", "delete"}

(* Staged identities are unique, and a recovery's rows, buffers, released  *)
(* events and event in hand are disjoint sets of staged events.            *)
HeldInv ==
    /\ \A m, n \in pending : m.event_id = n.event_id => m = n
    /\ rows \subseteq pending /\ released \subseteq pending
    /\ rows \cap released = {}
    /\ \A e \in Engines : \A b \in buffers[e].pending :
          b \in pending /\ b \notin rows /\ b \notin released /\ b.engine_id = e
    /\ pc \in {"record", "delete"} =>
          /\ current \in pending /\ current \notin rows /\ current \notin released
          /\ \A e \in Engines : current \notin buffers[e].pending
    /\ ~InRecovery => released = {}

-----------------------------------------------------------------------------
(* The reorder buffer: what a call releases and what it leaves is what was *)
(* there and the event observed, and nothing is both released and left.    *)
LEMMA ObserveSplits ==
    ASSUME NEW buffer \in BufferType, NEW m \in Message
    PROVE  /\ ObserveReleases(buffer, m) \subseteq buffer.pending \cup {m}
           /\ ObserveLeaves(buffer, m).pending \subseteq buffer.pending \cup {m}
           /\ ObserveReleases(buffer, m) \cap ObserveLeaves(buffer, m).pending = {}
<1>1. CASE ReorderStatus(buffer, m.cycle) = "buffered"
  BY <1>1 DEF ObserveReleases, ObserveLeaves, Admit, Ripe, Drop
<1>2. CASE ReorderStatus(buffer, m.cycle) # "buffered"
  BY <1>2 DEF ObserveReleases, ObserveLeaves
<1> QED
  BY <1>1, <1>2

(* A flush hands out everything pending and leaves nothing.                *)
LEMMA FlushEmpties ==
    ASSUME NEW buffer \in BufferType
    PROVE  /\ FlushReleases(buffer) = buffer.pending
           /\ FlushLeaves(buffer).pending = {}
BY DEF FlushReleases, FlushLeaves, Drop, BufferType

(* A step that moves no event keeps HeldInv.                               *)
LEMMA HeldFrame ==
    ASSUME HeldInv, UNCHANGED <<pending, rows, buffers, released, current>>,
           pc' \in {"record", "delete"} => pc \in {"record", "delete"},
           ~InRecovery' => ~InRecovery \/ released = {}
    PROVE  HeldInv'
BY DEF HeldInv

(* Restarting drops everything held; the staged rows stay.                 *)
LEMMA RestartHolds == ASSUME HeldInv, Restart PROVE HeldInv'
<1>1. /\ rows' = {} /\ released' = {} /\ ~InRecovery' /\ pending' = pending
      /\ buffers' = [e \in Engines |-> EmptyBuffer]
  BY DEF Restart, InRecovery, NoBuffers
<1>2. \A e \in Engines : buffers'[e].pending = {}
  BY <1>1 DEF EmptyBuffer
<1>3. pc' \notin {"record", "delete"}
  BY DEF Restart
<1> QED
  BY <1>1, <1>2, <1>3 DEF HeldInv

(* Staging adds a row only for a new identity.                             *)
LEMMA StageRowHolds ==
    ASSUME HeldInv, StageRow, UNCHANGED <<rows, buffers, released, current>>,
           pc' \notin {"record", "delete"}, ~InRecovery
    PROVE  HeldInv'
<1>1. CASE InHand.event_id \in StagedIds
  BY <1>1 DEF StageRow, HeldInv
<1>2. CASE InHand.event_id \notin StagedIds
  <2>1. pending' = pending \cup {InHand}
    BY <1>2 DEF StageRow
  <2>2. \A m, n \in pending' : m.event_id = n.event_id => m = n
    BY <1>2, <2>1 DEF StagedIds, HeldInv
  <2> QED
    BY <2>1, <2>2 DEF HeldInv
<1> QED
  BY <1>1, <1>2

(* Observing a row moves it from the rows into its engine's buffer, and    *)
(* some of that buffer into the released events.                           *)
LEMMA ObserveRowHolds == ASSUME IInv, HeldInv, ObserveRow PROVE HeldInv'
<1>1. PICK m \in FirstRows :
          /\ rows' = rows \ {m}
          /\ buffers' = [buffers EXCEPT ![m.engine_id] =
                            ObserveLeaves(buffers[m.engine_id], m)]
          /\ released' = ObserveReleases(buffers[m.engine_id], m)
  BY DEF ObserveRow
<1>2. m \in rows /\ m \in Message /\ m.engine_id \in Engines
  BY DEF FirstRows, IInv, TypeOK, WorkerTypeOK, Engines
<1>3. buffers \in [Engines -> BufferType] /\ buffers[m.engine_id] \in BufferType
  BY <1>2 DEF IInv, TypeOK, WorkerTypeOK
<1> DEFINE old == buffers[m.engine_id]
           new == ObserveLeaves(old, m)
<1>4. /\ released' \subseteq old.pending \cup {m}
      /\ new.pending \subseteq old.pending \cup {m}
      /\ released' \cap new.pending = {}
  BY <1>1, <1>2, <1>3, ObserveSplits
<1>5. /\ buffers'[m.engine_id] = new
      /\ \A e \in Engines : e # m.engine_id => buffers'[e] = buffers[e]
  BY <1>1, <1>2, <1>3
<1> HIDE DEF new
<1>6. /\ pending' = pending /\ pc' \in {"scan", "process"}
      /\ ~InRecovery' => released' = {}
  BY DEF ObserveRow, InRecovery
<1>7. ASSUME NEW e \in Engines, NEW b \in buffers'[e].pending
      PROVE  b \in pending' /\ b \notin rows' /\ b \notin released' /\ b.engine_id = e
  <2>1. CASE e = m.engine_id
    BY <1>1, <1>2, <1>4, <1>5, <1>6, <1>7, <2>1 DEF HeldInv
  <2>2. CASE e # m.engine_id
    <3>1. b \in buffers[e].pending
      BY <1>5, <1>7, <2>2
    <3>2. b # m /\ b \notin old.pending
      BY <1>2, <2>2, <3>1 DEF HeldInv
    <3> QED
      BY <1>1, <1>4, <1>6, <3>1, <3>2 DEF HeldInv
  <2> QED
    BY <2>1, <2>2
<1>8. rows' \subseteq pending' /\ released' \subseteq pending' /\ rows' \cap released' = {}
  BY <1>1, <1>2, <1>4, <1>6 DEF HeldInv
<1> QED
  BY <1>6, <1>7, <1>8 DEF HeldInv

(* A flush moves an engine's buffer into the released events.              *)
LEMMA FlushIdleHolds ==
    ASSUME IInv, HeldInv, NEW e \in Engines, FlushIdle(e) PROVE HeldInv'
<1>1. buffers \in [Engines -> BufferType] /\ buffers[e] \in BufferType
  BY DEF IInv, TypeOK, WorkerTypeOK
<1>2. /\ rows' = {} /\ pending' = pending /\ pc' \in {"scan", "process"}
      /\ ~InRecovery' => released' = {}
  BY DEF FlushIdle, NextEngine, InRecovery
<1>3. released' = buffers[e].pending
  BY <1>1, FlushEmpties DEF FlushIdle
<1>4. /\ buffers'[e].pending = {}
      /\ \A f \in Engines : f # e => buffers'[f] = buffers[f]
  BY <1>1, FlushEmpties DEF FlushIdle
<1>5. ASSUME NEW f \in Engines, NEW b \in buffers'[f].pending
      PROVE  b \in pending' /\ b \notin rows' /\ b \notin released' /\ b.engine_id = f
  BY <1>2, <1>3, <1>4, <1>5 DEF HeldInv
<1>6. released' \subseteq pending'
  BY <1>2, <1>3 DEF HeldInv
<1> QED
  BY <1>2, <1>5, <1>6 DEF HeldInv

(* Processing takes an event out of the released ones into the worker's    *)
(* hand.                                                                   *)
LEMMA ProcessHolds == ASSUME HeldInv, Process PROVE HeldInv'
<1>1. PICK m \in released : released' = released \ {m} /\ current' = m
  BY DEF Process, Earliest
<1>2. /\ UNCHANGED <<rows, buffers, pending>> /\ InRecovery'
  BY DEF Process, InRecovery
<1> QED
  BY <1>1, <1>2 DEF HeldInv

(* Deleting removes the event in hand from the staged rows and, identities *)
(* being unique, nothing else.                                             *)
LEMMA DeleteRemoves ==
    ASSUME HeldInv, Delete PROVE pending' = pending \ {current}
BY DEF HeldInv, Delete

(* ... so that what is held stays staged.                                  *)
LEMMA DeleteHolds == ASSUME HeldInv, Delete PROVE HeldInv'
<1>1. /\ UNCHANGED <<rows, buffers, released>> /\ pc = "delete"
      /\ pc' \in {"scan", "process"} /\ InRecovery'
  BY DEF Delete, InRecovery
<1>2. pending' = pending \ {current}
  BY DeleteRemoves
<1> QED
  BY <1>1, <1>2 DEF HeldInv

(* Every step keeps HeldInv.                                               *)
LEMMA NextHolds == ASSUME IInv, HeldInv, [Next]_vars PROVE HeldInv'
<1>1. CASE \E m \in Message \cup Malformed : Publish(m)
  BY <1>1, HeldFrame DEF Publish, recoveryVars, InRecovery
<1>2. CASE \E e \in Engines : BecomeIdle(e)
  BY <1>2, HeldFrame DEF BecomeIdle, recoveryVars, InRecovery
<1>3. CASE Recovery
  <2>1. CASE Load
    <3>1. released = {}
      BY <2>1 DEF Load, HeldInv, InRecovery
    <3>2. \A e \in Engines : buffers'[e].pending = {}
      BY <2>1 DEF Load, NoBuffers, EmptyBuffer
    <3> QED
      BY <2>1, <3>1, <3>2 DEF Load, HeldInv
  <2>2. CASE ObserveRow
    BY <2>2, ObserveRowHolds
  <2>3. ASSUME NEW e \in Engines, FlushIdle(e) PROVE HeldInv'
    BY <2>3, FlushIdleHolds
  <2>4. ASSUME NEW e \in Engines, KeepWaiting(e) PROVE HeldInv'
    BY <2>4, HeldFrame DEF KeepWaiting, NextEngine, InRecovery
  <2>5. CASE Process
    BY <2>5, ProcessHolds
  <2>6. CASE Record
    BY <2>6, HeldFrame DEF Record, recoveryVars, InRecovery
  <2>7. CASE Delete
    BY <2>7, DeleteHolds
  <2>8. CASE Recovered
    <3>1. \A e \in Engines : buffers'[e].pending = {}
      BY <2>8 DEF Recovered, NoBuffers, EmptyBuffer
    <3> QED
      BY <2>8, <3>1 DEF Recovered, HeldInv
  <2> QED
    BY <1>3, <2>1, <2>2, <2>3, <2>4, <2>5, <2>6, <2>7, <2>8 DEF Recovery
<1>4. CASE Consumption
  <2>1. CASE Stage
    BY <2>1, StageRowHolds DEF Stage, recoveryVars, InRecovery
  <2>2. CASE PollTimeout \/ PollMessage \/ Commit \/ PublishDeadLetter \/ Acknowledge
    BY <2>2, HeldFrame DEF PollTimeout, PollMessage, Commit, PublishDeadLetter,
       Acknowledge, recoveryVars, InRecovery
  <2> QED
    BY <1>4, <2>1, <2>2 DEF Consumption
<1>5. CASE Failure
  <2>1. CASE Crash \/ UnretriedError \/ RetriesExhausted
    BY <2>1, RestartHolds DEF Crash, UnretriedError, RetriesExhausted
  <2>2. CASE RetryRolledBack \/ RetryProcessed
    BY <2>2, HeldFrame DEF RetryRolledBack, RetryProcessed, Retry, recoveryVars, InRecovery
  <2>3. CASE RetryStaged
    BY <2>3, StageRowHolds DEF RetryStaged, Retry, recoveryVars, InRecovery
  <2> QED
    BY <1>5, <2>1, <2>2, <2>3 DEF Failure
<1>6. CASE UNCHANGED vars
  BY <1>6, HeldFrame DEF vars, recoveryVars, InRecovery
<1> QED
  BY <1>1, <1>2, <1>3, <1>4, <1>5, <1>6 DEF Next

(* The worker starts with nothing staged and nothing held.                 *)
LEMMA InitHolds == Init => HeldInv
BY DEF Init, HeldInv, InRecovery, NoBuffers, EmptyBuffer

-----------------------------------------------------------------------------
(* Event-time order.                                                       *)

(* An event of n's engine and cycle is buffered, released or was handled.  *)
StoodFor(n) ==
    \E t \in buffers[n.engine_id].pending \cup released \cup telemetry \cup conflict_issues :
        t.engine_id = n.engine_id /\ t.cycle = n.cycle

(* Rows come sorted, so none is older than what its buffer has seen: no    *)
(* row is ever late, what is still buffered is newer than what was         *)
(* released, and what is still to be observed is no older.                 *)
OrderInv ==
    InRecovery =>
    /\ \A n \in pending : n \in rows \/ StoodFor(n)
    /\ \A n \in rows : n.cycle >= buffers[n.engine_id].max_cycle
    /\ \A r \in released :
          /\ \A b \in buffers[r.engine_id].pending : b.cycle > r.cycle
          /\ \A n \in rows : n.engine_id = r.engine_id => n.cycle >= r.cycle

(* An event as new as the newest of its buffer is not late: it is buffered *)
(* or released, unless one of its cycle is buffered already.               *)
LEMMA ObserveAdmits ==
    ASSUME NEW buffer \in BufferType, NEW m \in Message, m.cycle >= buffer.max_cycle
    PROVE  /\ buffer.pending \subseteq ObserveReleases(buffer, m)
                                       \cup ObserveLeaves(buffer, m).pending
           /\ \E t \in ObserveReleases(buffer, m) \cup ObserveLeaves(buffer, m).pending :
                 t = m \/ (t \in buffer.pending /\ t.cycle = m.cycle)
           /\ ObserveLeaves(buffer, m).max_cycle <= m.cycle
<1>1. /\ m.cycle \in Nat \ {0} /\ AllowedLateness \in Nat /\ buffer.max_cycle \in Nat
  BY StoreAssumption, LatenessAssumption DEF BufferType
<1>2. ReorderStatus(buffer, m.cycle) # "late"
  BY <1>1 DEF ReorderStatus, Watermark
<1>3. CASE ReorderStatus(buffer, m.cycle) = "buffered"
  BY <1>1, <1>3 DEF ObserveReleases, ObserveLeaves, Admit, Drop, Ripe, BufferType
<1>4. CASE ReorderStatus(buffer, m.cycle) = "duplicate"
  <2>1. \E t \in buffer.pending : t.cycle = m.cycle
    BY <1>4 DEF ReorderStatus
  <2> QED
    BY <1>1, <1>4, <2>1 DEF ObserveReleases, ObserveLeaves
<1> QED
  BY <1>2, <1>3, <1>4 DEF ReorderStatus

(* What a call releases is older than what it leaves, and no newer than    *)
(* the newest event.                                                       *)
LEMMA ObserveSeparates ==
    ASSUME NEW buffer \in BufferType, NEW m \in Message
    PROVE  \A r \in ObserveReleases(buffer, m) :
              /\ r.cycle <= ObserveLeaves(buffer, m).max_cycle
              /\ \A b \in ObserveLeaves(buffer, m).pending : b.cycle > r.cycle
<1>1. /\ m.cycle \in Nat \ {0} /\ AllowedLateness \in Nat /\ buffer.max_cycle \in Nat
      /\ \A b \in buffer.pending : b.cycle \in Nat
  BY StoreAssumption, LatenessAssumption DEF BufferType
<1>2. CASE ReorderStatus(buffer, m.cycle) = "buffered"
  <2>1. PICK k \in Nat : k = Admit(buffer, m).max_cycle
    BY <1>1 DEF Admit
  <2>2. /\ \A r \in ObserveReleases(buffer, m) : r.cycle \in Nat /\ r.cycle <= k - AllowedLateness
        /\ \A b \in ObserveLeaves(buffer, m).pending :
              b.cycle \in Nat /\ b.cycle > k - AllowedLateness
    BY <1>1, <1>2, <2>1 DEF ObserveReleases, ObserveLeaves, Admit, Drop, Ripe, Watermark
  <2>3. ObserveLeaves(buffer, m).max_cycle = k
    BY <1>2, <2>1 DEF ObserveLeaves, Drop, Admit
  <2> QED
    BY <1>1, <2>1, <2>2, <2>3
<1>3. CASE ReorderStatus(buffer, m.cycle) # "buffered"
  BY <1>3 DEF ObserveReleases
<1> QED
  BY <1>2, <1>3

(* Observing the next row of the sorted query keeps the order.             *)
LEMMA ObserveRowOrders == ASSUME IInv, HeldInv, OrderInv, ObserveRow PROVE OrderInv'
<1>1. PICK m \in FirstRows :
          /\ rows' = rows \ {m}
          /\ buffers' = [buffers EXCEPT ![m.engine_id] =
                            ObserveLeaves(buffers[m.engine_id], m)]
          /\ released' = ObserveReleases(buffers[m.engine_id], m)
  BY DEF ObserveRow
<1>2. /\ m \in rows /\ m \in Message /\ m.engine_id \in Engines
      /\ rows \subseteq Message /\ pending \subseteq Message
  BY DEF FirstRows, IInv, TypeOK, WorkerTypeOK, Engines
<1>3. /\ buffers \in [Engines -> BufferType] /\ buffers[m.engine_id] \in BufferType
      /\ \A n \in Message : n.engine_id \in Engines /\ n.cycle \in Nat /\ n.engine_id \in Nat
  BY <1>2, StoreAssumption DEF IInv, TypeOK, WorkerTypeOK, Engines
<1> DEFINE old == buffers[m.engine_id]
           new == ObserveLeaves(old, m)
<1>4. /\ buffers'[m.engine_id] = new
      /\ \A e \in Engines : e # m.engine_id => buffers'[e] = buffers[e]
  BY <1>1, <1>2, <1>3
<1>5. /\ \A n \in pending : n \in rows \/ StoodFor(n)
      /\ \A n \in rows : n.cycle >= buffers[n.engine_id].max_cycle
      /\ released = {}
  BY DEF OrderInv, ObserveRow, InRecovery
<1>6. /\ old.pending \subseteq released' \cup new.pending
      /\ \E t \in released' \cup new.pending :
            t = m \/ (t \in old.pending /\ t.cycle = m.cycle)
      /\ new.max_cycle <= m.cycle
  BY <1>1, <1>2, <1>3, <1>5, ObserveAdmits
<1>7. \A r \in released' :
          r.cycle <= new.max_cycle /\ \A b \in new.pending : b.cycle > r.cycle
  BY <1>1, <1>2, <1>3, ObserveSeparates
<1>8. released' \subseteq old.pending \cup {m} /\ new \in BufferType
  BY <1>1, <1>2, <1>3, ObserveSplits, ObserveType
<1> HIDE DEF new
<1>9. pending' = pending /\ telemetry' = telemetry /\ conflict_issues' = conflict_issues
  BY DEF ObserveRow, storeVars
<1>10. \A b \in old.pending : b.engine_id = m.engine_id
  BY <1>2 DEF HeldInv
<1>11. ASSUME NEW n \in pending' PROVE n \in rows' \/ StoodFor(n)'
  <2>1. CASE n = m
    BY <1>1, <1>2, <1>4, <1>6, <1>10, <2>1 DEF StoodFor
  <2>2. CASE n \in rows /\ n # m
    BY <1>1, <2>2
  <2>3. CASE StoodFor(n) /\ n.engine_id = m.engine_id
    BY <1>4, <1>5, <1>6, <1>9, <2>3 DEF StoodFor
  <2>4. CASE StoodFor(n) /\ n.engine_id # m.engine_id
    <3>1. buffers'[n.engine_id] = buffers[n.engine_id]
      BY <1>2, <1>3, <1>4, <1>9, <2>4
    <3> QED
      BY <1>5, <1>9, <2>4, <3>1 DEF StoodFor
  <2> QED
    BY <1>5, <1>9, <2>1, <2>2, <2>3, <2>4
<1>12. ASSUME NEW n \in rows', n.engine_id = m.engine_id PROVE n.cycle >= new.max_cycle
  <2>1. n \in rows /\ n.cycle \in Nat /\ m.cycle \in Nat /\ new.max_cycle \in Nat
    BY <1>1, <1>2, <1>3, <1>8 DEF BufferType
  <2>2. m.cycle <= n.cycle
    BY <1>3, <1>12, <1>2, <2>1 DEF FirstRows
  <2> QED
    BY <1>6, <2>1, <2>2
<1>13. \A n \in rows' : n.cycle >= buffers'[n.engine_id].max_cycle
  BY <1>1, <1>2, <1>3, <1>4, <1>5, <1>12
<1>14. \A r \in released' : r.engine_id = m.engine_id /\ r.cycle \in Nat
  BY <1>2, <1>3, <1>8, <1>10 DEF BufferType
<1>15. ASSUME NEW r \in released'
       PROVE  /\ \A b \in buffers'[r.engine_id].pending : b.cycle > r.cycle
              /\ \A n \in rows' : n.engine_id = r.engine_id => n.cycle >= r.cycle
  <2>1. \A n \in rows' : n.cycle \in Nat
    BY <1>1, <1>2, <1>3
  <2>2. new.max_cycle \in Nat
    BY <1>8 DEF BufferType
  <2> QED
    BY <1>4, <1>7, <1>12, <1>14, <2>1, <2>2
<1> QED
  BY <1>11, <1>13, <1>15 DEF OrderInv

(* A step that moves no row, buffered or released event and forgets        *)
(* nothing handled keeps the order, also when it deletes a staged row.     *)
LEMMA OrderFrame ==
    ASSUME OrderInv, UNCHANGED <<rows, buffers, released>>, pending' \subseteq pending,
           telemetry \subseteq telemetry', conflict_issues \subseteq conflict_issues',
           InRecovery' => InRecovery
    PROVE  OrderInv'
BY DEF OrderInv, StoodFor

(* The processing transaction leaves the event's cycle among the stored or *)
(* the refused events, and forgets neither.                                *)
LEMMA PersistHandles ==
    ASSUME NEW m, NEW expired_, Persist(m, expired_)
    PROVE  /\ telemetry \subseteq telemetry' /\ conflict_issues \subseteq conflict_issues'
           /\ m \in telemetry' \cup conflict_issues'
           /\ telemetry' \ telemetry \subseteq {m}
<1>1. CASE InsertEvent(m, expired_)
  BY <1>1 DEF InsertEvent
<1>2. CASE RepeatEvent(m, expired_)
  <2>1. m \in telemetry
    BY <1>2 DEF RepeatEvent, Outcome
  <2> QED
    BY <1>2, <2>1 DEF RepeatEvent
<1>3. CASE RefuseEvent(m)
  BY <1>3 DEF RefuseEvent
<1> QED
  BY <1>1, <1>2, <1>3 DEF Persist

(* An idle flush releases all of a buffer when no row is left.             *)
LEMMA FlushIdleOrders ==
    ASSUME IInv, HeldInv, OrderInv, NEW e \in Engines, FlushIdle(e) PROVE OrderInv'
<1>1. /\ buffers \in [Engines -> BufferType] /\ buffers[e] \in BufferType
      /\ pending \subseteq Message /\ \A n \in Message : n.engine_id \in Engines
  BY DEF IInv, TypeOK, WorkerTypeOK, Engines
<1>2. /\ rows = {} /\ rows' = {} /\ released = {} /\ pending' = pending
      /\ telemetry' = telemetry /\ conflict_issues' = conflict_issues
      /\ \A n \in pending : StoodFor(n)
  BY DEF FlushIdle, NextEngine, OrderInv, InRecovery, storeVars
<1>3. /\ released' = buffers[e].pending /\ buffers'[e].pending = {}
      /\ \A f \in Engines : f # e => buffers'[f] = buffers[f]
      /\ \A b \in buffers[e].pending : b.engine_id = e
  BY <1>1, FlushEmpties DEF FlushIdle, HeldInv
<1>4. ASSUME NEW n \in pending' PROVE StoodFor(n)'
  BY <1>1, <1>2, <1>3 DEF StoodFor
<1> QED
  BY <1>2, <1>3, <1>4 DEF OrderInv

(* Processing moves an event from the released to the handled ones.        *)
LEMMA ProcessOrders == ASSUME HeldInv, OrderInv, Process PROVE OrderInv'
<1>1. PICK m \in released :
          Persist(m, PassedFlag) /\ released' = released \ {m}
  BY DEF Process, Earliest
<1>2. /\ telemetry \subseteq telemetry' /\ conflict_issues \subseteq conflict_issues'
      /\ m \in telemetry' \cup conflict_issues'
  BY <1>1, PersistHandles
<1>3. UNCHANGED <<rows, buffers, pending>> /\ InRecovery
  BY DEF Process, InRecovery
<1>4. ASSUME NEW n \in pending' PROVE n \in rows' \/ StoodFor(n)'
  BY <1>1, <1>2, <1>3 DEF OrderInv, StoodFor
<1> QED
  BY <1>1, <1>3, <1>4 DEF OrderInv

(* Every step keeps the order.                                             *)
LEMMA NextOrders == ASSUME IInv, HeldInv, OrderInv, [Next]_vars PROVE OrderInv'
<1>1. CASE \E m \in Message \cup Malformed : Publish(m)
  BY <1>1, OrderFrame DEF Publish, storeVars, recoveryVars, InRecovery
<1>2. CASE \E e \in Engines : BecomeIdle(e)
  BY <1>2, OrderFrame DEF BecomeIdle, storeVars, recoveryVars, InRecovery
<1>3. CASE Recovery
  <2>1. CASE Load
    <3>1. /\ rows' = pending /\ pending' = pending /\ released' = {}
          /\ pending \subseteq Message
      BY <2>1 DEF Load, HeldInv, InRecovery, IInv, TypeOK
    <3>2. \A n \in pending : buffers'[n.engine_id].max_cycle = 0 /\ n.cycle \in Nat
      BY <2>1, <3>1, StoreAssumption DEF Load, NoBuffers, EmptyBuffer, Engines
    <3> QED
      BY <3>1, <3>2 DEF OrderInv
  <2>2. CASE ObserveRow
    BY <2>2, ObserveRowOrders
  <2>3. ASSUME NEW e \in Engines, FlushIdle(e) PROVE OrderInv'
    BY <2>3, FlushIdleOrders
  <2>4. ASSUME NEW e \in Engines, KeepWaiting(e) PROVE OrderInv'
    BY <2>4, OrderFrame DEF KeepWaiting, storeVars, InRecovery
  <2>5. CASE Process
    BY <2>5, ProcessOrders
  <2>6. CASE Record
    BY <2>6, OrderFrame DEF Record, RecordOrderingWindowExpired, recoveryVars, InRecovery
  <2>7. CASE Delete
    BY <2>7, OrderFrame, DeleteRemoves DEF Delete, storeVars, InRecovery
  <2>8. CASE Recovered
    BY <2>8 DEF Recovered, OrderInv, InRecovery
  <2> QED
    BY <1>3, <2>1, <2>2, <2>3, <2>4, <2>5, <2>6, <2>7, <2>8 DEF Recovery
<1>4. CASE Consumption
  BY <1>4 DEF Consumption, PollTimeout, PollMessage, Stage, Commit, PublishDeadLetter,
     Acknowledge, OrderInv, InRecovery
<1>5. CASE Failure
  <2>1. CASE Crash \/ UnretriedError \/ RetriesExhausted
    BY <2>1 DEF Crash, UnretriedError, RetriesExhausted, Restart, OrderInv, InRecovery
  <2>2. CASE RetryRolledBack
    BY <2>2, OrderFrame DEF RetryRolledBack, Retry, storeVars, recoveryVars, InRecovery
  <2>3. CASE RetryProcessed
    BY <2>3, OrderFrame, PersistHandles DEF RetryProcessed, Retry, recoveryVars, InRecovery
  <2>4. CASE RetryStaged
    BY <2>4 DEF RetryStaged, Retry, OrderInv, InRecovery
  <2> QED
    BY <1>5, <2>1, <2>2, <2>3, <2>4 DEF Failure
<1>6. CASE UNCHANGED vars
  BY <1>6, OrderFrame DEF vars, storeVars, recoveryVars, InRecovery
<1> QED
  BY <1>1, <1>2, <1>3, <1>4, <1>5, <1>6 DEF Next

(* The transaction of the earliest released event stores nothing ahead of  *)
(* an older staged event of its engine that nobody stood in for: that      *)
(* event would be a row (too new), buffered (too new) or released before.  *)
LEMMA PersistInOrder ==
    ASSUME IInv, HeldInv, OrderInv, InRecovery,
           NEW m \in Earliest(released), Persist(m, PassedFlag),
           NEW n \in pending, n.engine_id = m.engine_id, n.cycle < m.cycle
    PROVE  \E t \in telemetry \cup conflict_issues :
              t.engine_id = n.engine_id /\ t.cycle = n.cycle
<1>1. /\ m \in released /\ \A r \in released : m.cycle <= r.cycle
      /\ m.cycle \in Nat /\ n.cycle \in Nat /\ n.engine_id \in Engines
      /\ buffers \in [Engines -> BufferType]
  BY StoreAssumption DEF Earliest, IInv, TypeOK, WorkerTypeOK, Engines
<1>2. n \notin rows
  BY <1>1 DEF OrderInv
<1>3. \A t \in buffers[n.engine_id].pending : t.cycle # n.cycle
  <2>1. \A t \in buffers[n.engine_id].pending : t.cycle > m.cycle /\ t.cycle \in Nat
    BY <1>1, StoreAssumption DEF OrderInv, BufferType
  <2> QED
    BY <1>1, <2>1
<1>4. \A t \in released : t.cycle # n.cycle
  BY <1>1
<1> QED
  BY <1>2, <1>3, <1>4 DEF OrderInv, StoodFor

(* The inductive invariant behind event-time order.                        *)
LEMMA OrderInvariance == Spec => [](IInv /\ HeldInv /\ OrderInv)
<1>1. Init => HeldInv /\ OrderInv
  BY InitHolds DEF Init, OrderInv, InRecovery
<1>2. IInv /\ (HeldInv /\ OrderInv) /\ [Next]_vars => HeldInv' /\ OrderInv'
  BY NextHolds, NextOrders
<1> QED
  BY <1>1, <1>2, Invariance, PTL DEF Spec

(* Event-time order (recover_pending sorts the staged rows, buffers them   *)
(* per engine and processes what the buffer releases): through crashes and *)
(* retries, an event is stored ahead of an older staged event of its       *)
(* engine only if another event of that cycle was handled in its place.    *)
THEOREM EventTimeOrder == Spec => NeverOvertakes
<1> DEFINE InOrder ==
        \A m \in telemetry' \ telemetry : \A n \in pending :
            n.engine_id = m.engine_id /\ n.cycle < m.cycle
            => \E t \in telemetry \cup conflict_issues :
                  t.engine_id = n.engine_id /\ t.cycle = n.cycle
<1>1. IInv /\ HeldInv /\ OrderInv /\ [Next]_vars => [InOrder]_vars
  <2> SUFFICES ASSUME IInv, HeldInv, OrderInv, Next PROVE InOrder
    BY DEF InOrder
  <2>1. CASE Process \/ RetryProcessed
    <3>1. InRecovery /\ \E m \in Earliest(released) : Persist(m, PassedFlag)
      BY <2>1 DEF Process, RetryProcessed, InRecovery
    <3>2. PICK m \in Earliest(released) : Persist(m, PassedFlag)
      BY <3>1
    <3> QED
      BY <3>1, <3>2, PersistInOrder, PersistHandles DEF InOrder
  <2>2. CASE telemetry' = telemetry
    BY <2>2 DEF InOrder
  <2>3. Process \/ RetryProcessed \/ telemetry' = telemetry
    BY DEF Next, Publish, BecomeIdle, Recovery, Load, ObserveRow, FlushIdle, KeepWaiting,
       Record, RecordOrderingWindowExpired, Delete, Recovered, Consumption, PollTimeout,
       PollMessage, Stage, Commit, PublishDeadLetter, Acknowledge, Failure, Crash,
       UnretriedError, RetryRolledBack, RetryStaged, RetriesExhausted, Restart,
       storeVars
  <2> QED
    BY <2>1, <2>2, <2>3
<1> QED
  BY <1>1, OrderInvariance, PTL DEF Spec, NeverOvertakes

-----------------------------------------------------------------------------
(* Predictions and the tables they were computed from.                     *)

(* Flags and issues are of stored events only: what a first copy is scored *)
(* with is what its own transaction and its flush say.                     *)
ScoreInv ==
    /\ degraded \subseteq StoredIds
    /\ gap_issues \subseteq StoredIds
    /\ expired_issues \subseteq StoredIds
    /\ ~Inference => predictions = {}
    /\ ScoredConsistently

FlagSet(flags) == {flags[i] : i \in DOMAIN flags}

(* Extending a list adds the wanted flag to its flags and nothing else.    *)
LEMMA ExtendFlags ==
    ASSUME NEW flags \in Seq(Flag), NEW wanted, NEW flag \in Flag
    PROVE  FlagSet(Extend(flags, wanted, flag)) =
           IF wanted THEN FlagSet(flags) \cup {flag} ELSE FlagSet(flags)
<1>1. CASE wanted /\ \A i \in DOMAIN flags : flags[i] # flag
  <2>1. Extend(flags, wanted, flag) = Append(flags, flag)
    BY <1>1 DEF Extend
  <2>2. PICK n \in Nat : n = Len(flags) /\ DOMAIN flags = 1..n
    OBVIOUS
  <2>3. /\ DOMAIN Append(flags, flag) = 1..(n + 1)
        /\ \A i \in 1..n : Append(flags, flag)[i] = flags[i]
        /\ Append(flags, flag)[n + 1] = flag
    BY <2>2
  <2>4. 1..(n + 1) = (1..n) \cup {n + 1}
    BY <2>2
  <2>5. FlagSet(Append(flags, flag)) = FlagSet(flags) \cup {flag}
    BY <2>2, <2>3, <2>4 DEF FlagSet
  <2> QED
    BY <1>1, <2>1, <2>5
<1>2. CASE ~(wanted /\ \A i \in DOMAIN flags : flags[i] # flag)
  BY <1>2 DEF Extend, FlagSet
<1> QED
  BY <1>1, <1>2

(* An empty list has no flags, and only an empty list has none.            *)
LEMMA NoFlags ==
    ASSUME NEW flags \in Seq(Flag)
    PROVE  flags = <<>> <=> FlagSet(flags) = {}
<1>1. CASE flags = <<>>
  BY <1>1 DEF FlagSet
<1>2. CASE flags # <<>>
  <2>1. 1 \in DOMAIN flags
    BY <1>2
  <2> QED
    BY <1>2, <2>1 DEF FlagSet
<1> QED
  BY <1>1, <1>2

(* The flags an event is scored with: its stored issues, the flush it came *)
(* from and its gap.                                                       *)
LEMMA QualityFlagsOf ==
    ASSUME NEW m \in Message, NEW expired_
    PROVE  FlagSet(QualityFlags(m, expired_)) =
           {f \in {"cycle_gap", "ordering_window_expired"} :
              IF f = "cycle_gap" THEN m.event_id \in gap_issues \/ HasGap(m)
                                 ELSE m.event_id \in expired_issues \/ expired_}
<1> DEFINE none == <<>>
           gap == m.event_id \in gap_issues
           warned == m.event_id \in expired_issues
           first == Extend(none, gap, "cycle_gap")
           stored == Extend(first, warned, "ordering_window_expired")
           given == Extend(stored, expired_, "ordering_window_expired")
           full == Extend(given, HasGap(m), "cycle_gap")
<1>1. none \in Seq(Flag) /\ "cycle_gap" \in Flag /\ "ordering_window_expired" \in Flag
  BY DEF Flag
<1>2. FlagSet(none) = {}
  BY DEF FlagSet
<1>3. full = QualityFlags(m, expired_)
  BY DEF QualityFlags, StoredFlags
<1> HIDE DEF none, gap, warned
<1>4. first \in Seq(Flag)
  BY <1>1, ExtendType
<1>5. FlagSet(first) = IF gap
                       THEN FlagSet(none) \cup {"cycle_gap"} ELSE FlagSet(none)
  BY <1>1, ExtendFlags
<1> HIDE DEF first
<1>6. stored \in Seq(Flag)
  BY <1>1, <1>4, ExtendType
<1>7. FlagSet(stored) = IF warned
                        THEN FlagSet(first) \cup {"ordering_window_expired"}
                        ELSE FlagSet(first)
  BY <1>1, <1>4, ExtendFlags
<1> HIDE DEF stored
<1>8. given \in Seq(Flag)
  BY <1>1, <1>6, ExtendType
<1>9. FlagSet(given) = IF expired_ THEN FlagSet(stored) \cup {"ordering_window_expired"}
                                   ELSE FlagSet(stored)
  BY <1>1, <1>6, ExtendFlags
<1> HIDE DEF given
<1>10. FlagSet(full) = IF HasGap(m) THEN FlagSet(given) \cup {"cycle_gap"}
                                    ELSE FlagSet(given)
  BY <1>1, <1>8, ExtendFlags
<1> HIDE DEF full
<1> QED
  BY <1>2, <1>3, <1>5, <1>7, <1>9, <1>10 DEF gap, warned

(* A prediction carries the flags its event was scored with and, withheld, *)
(* the build error.                                                        *)
LEMMA PredictionFlags ==
    ASSUME NEW m \in Message, NEW expired_
    PROVE  /\ Prediction(m, expired_).event_id = m.event_id
           /\ FlagSet(Prediction(m, expired_).quality_flags) \ {"feature_build_error"}
              = FlagSet(QualityFlags(m, expired_))
<1>1. QualityFlags(m, expired_) \in Seq(Flag) /\ "feature_build_error" \in Flag
  BY QualityFlagsType DEF Flag
<1>2. FlagSet(Extend(QualityFlags(m, expired_), TRUE, "feature_build_error"))
      = FlagSet(QualityFlags(m, expired_)) \cup {"feature_build_error"}
  BY <1>1, ExtendFlags
<1>3. "feature_build_error" \notin FlagSet(QualityFlags(m, expired_))
  BY QualityFlagsOf
<1>4. CASE m \in Unscorable
  BY <1>2, <1>3, <1>4 DEF Prediction
<1>5. CASE m \notin Unscorable
  BY <1>3, <1>5 DEF Prediction
<1> QED
  BY <1>4, <1>5

(* The processing transaction: a first copy is scored with the flags it    *)
(* commits, a repeated one with what is there already.                     *)
LEMMA PersistKeepsScores ==
    ASSUME ScoreInv, NEW m \in Message, NEW expired_, Persist(m, expired_)
    PROVE  ScoreInv'
<1>1. CASE InsertEvent(m, expired_)
  <2>1. /\ m.event_id \notin StoredIds /\ StoredIds' = StoredIds \cup {m.event_id}
        /\ expired_issues' = expired_issues
    BY <1>1 DEF InsertEvent, Outcome, StoredIds
  <2>2. /\ gap_issues' = IF HasGap(m) THEN gap_issues \cup {m.event_id} ELSE gap_issues
        /\ degraded' = IF IsDegraded(m, expired_)
                       THEN degraded \cup {m.event_id} ELSE degraded
        /\ predictions' = IF Inference THEN predictions \cup {Prediction(m, expired_)}
                                       ELSE predictions
    BY <1>1 DEF InsertEvent, Score
  <2>3. /\ degraded' \subseteq StoredIds' /\ gap_issues' \subseteq StoredIds'
        /\ expired_issues' \subseteq StoredIds' /\ (~Inference => predictions' = {})
    BY <2>1, <2>2 DEF ScoreInv
  <2>4. ScoredConsistently'
    <3> SUFFICES ASSUME Inference PROVE ScoredConsistently'
      BY DEF ScoredConsistently
    <3> DEFINE new == Prediction(m, expired_)
               flags == FlagSet(new.quality_flags)
    <3>1. new.event_id = m.event_id
      BY PredictionFlags
    <3>2. /\ flags \ {"feature_build_error"} = FlagSet(QualityFlags(m, expired_))
          /\ QualityFlags(m, expired_) \in Seq(Flag)
      BY PredictionFlags, QualityFlagsType
    <3>3. "cycle_gap" \in flags <=> m.event_id \in gap_issues'
      <4>1. "cycle_gap" \in FlagSet(QualityFlags(m, expired_)) <=> HasGap(m)
        BY <2>1, QualityFlagsOf DEF ScoreInv
      <4>2. m.event_id \in gap_issues' <=> HasGap(m)
        BY <2>1, <2>2 DEF ScoreInv
      <4> QED
        BY <3>2, <4>1, <4>2
    <3>4. flags \ {"feature_build_error"} # {} <=> m.event_id \in degraded'
      <4>1. m.event_id \in degraded' <=> QualityFlags(m, expired_) # <<>>
        BY <2>1, <2>2 DEF ScoreInv, IsDegraded
      <4> QED
        BY <3>2, <4>1, NoFlags
    <3> HIDE DEF new
    <3>5. predictions' = predictions \cup {new}
      BY <2>2 DEF new
    <3>6. \A p \in predictions : p.event_id # m.event_id
      BY <2>1 DEF ScoreInv, ScoredConsistently
    <3>7. {p.event_id : p \in predictions'} = StoredIds'
      BY <2>1, <3>1, <3>5 DEF ScoreInv, ScoredConsistently
    <3>8. ASSUME NEW p \in predictions'
          PROVE  /\ \A q \in predictions' : p.event_id = q.event_id => p = q
                 /\ "cycle_gap" \in FlagSet(p.quality_flags) <=> p.event_id \in gap_issues'
                 /\ FlagSet(p.quality_flags) \ {"feature_build_error"} # {}
                    <=> p.event_id \in degraded'
      <4>1. CASE p = new
        BY <3>1, <3>3, <3>4, <3>5, <3>6, <4>1
      <4>2. CASE p \in predictions
        <5>1. \A q \in predictions' : p.event_id = q.event_id => p = q
          BY <3>1, <3>5, <3>6, <4>2 DEF ScoreInv, ScoredConsistently
        <5>2. /\ p.event_id \in gap_issues' <=> p.event_id \in gap_issues
              /\ p.event_id \in degraded' <=> p.event_id \in degraded
          BY <2>2, <3>6, <4>2
        <5> QED
          BY <4>2, <5>1, <5>2 DEF ScoreInv, ScoredConsistently, FlagSet
      <4> QED
        BY <3>5, <4>1, <4>2
    <3> QED
      BY <3>7, <3>8 DEF ScoredConsistently, FlagSet
  <2> QED
    BY <2>3, <2>4 DEF ScoreInv
<1>2. CASE RepeatEvent(m, expired_)
  <2>1. UNCHANGED <<telemetry, degraded, gap_issues, expired_issues>>
    BY <1>2 DEF RepeatEvent
  <2>2. predictions' = predictions
    <3>1. CASE Inference
      <4>1. m.event_id \in StoredIds
        BY <1>2 DEF RepeatEvent, Outcome
      <4>2. PICK p \in predictions : p.event_id = m.event_id
        BY <3>1, <4>1 DEF ScoreInv, ScoredConsistently
      <4>3. p = Prediction(m, expired_)
        BY <1>2, <3>1, <4>2 DEF RepeatEvent, ProcessingRaises, PredictionConflicts
      <4> QED
        BY <1>2, <3>1, <4>3 DEF RepeatEvent, Score
    <3>2. CASE ~Inference
      BY <1>2, <3>2 DEF RepeatEvent, Score
    <3> QED
      BY <3>1, <3>2
  <2> QED
    BY <2>1, <2>2 DEF ScoreInv, ScoredConsistently, StoredIds
<1>3. CASE RefuseEvent(m)
  BY <1>3 DEF RefuseEvent, ScoreInv, ScoredConsistently, StoredIds
<1> QED
  BY <1>1, <1>2, <1>3 DEF Persist

(* Every step keeps ScoreInv: only the processing transaction and the      *)
(* flush's issue touch the tables.                                         *)
LEMMA NextScores == ASSUME IInv, ScoreInv, [Next]_vars PROVE ScoreInv'
<1>1. CASE Process \/ RetryProcessed
  <2>1. PICK m \in Earliest(released) : Persist(m, PassedFlag)
    BY <1>1 DEF Process, RetryProcessed
  <2>2. m \in Message
    BY DEF Earliest, IInv, TypeOK, WorkerTypeOK
  <2> QED
    BY <2>1, <2>2, PersistKeepsScores
<1>2. CASE Record
  <2>1. current.event_id \in StoredIds
    BY <1>2 DEF Record, IInv, HandInv
  <2> QED
    BY <1>2, <2>1 DEF Record, RecordOrderingWindowExpired, ScoreInv, ScoredConsistently,
       StoredIds
<1>3. CASE UNCHANGED storeVars
  BY <1>3 DEF storeVars, ScoreInv, ScoredConsistently, StoredIds
<1>4. Process \/ RetryProcessed \/ Record \/ UNCHANGED storeVars
  BY DEF Next, Publish, BecomeIdle, Recovery, Load, ObserveRow, FlushIdle, KeepWaiting,
     Delete, Recovered, Consumption, PollTimeout, PollMessage, Stage, Commit,
     PublishDeadLetter, Acknowledge, Failure, Crash, UnretriedError,
     RetryRolledBack, RetryStaged, RetriesExhausted, Restart, vars
<1> QED
  BY <1>1, <1>2, <1>3, <1>4

(* With inference (TransactionalInferenceProcessor.process commits the     *)
(* telemetry row and its prediction together), each stored event has       *)
(* exactly one prediction, and its flags and status are what the row and   *)
(* its issues say, however often the worker crashed or retried.            *)
THEOREM ConsistentScores == Spec => []ScoredConsistently
<1>1. Init => ScoreInv
  BY DEF Init, StoreInit, ScoreInv, ScoredConsistently, StoredIds
<1>2. IInv /\ ScoreInv /\ [Next]_vars => ScoreInv'
  BY NextScores
<1>3. ScoreInv => ScoredConsistently
  BY DEF ScoreInv
<1> QED
  BY <1>1, <1>2, <1>3, Invariance, PTL DEF Spec

-----------------------------------------------------------------------------
(* The warning of an idle flush.                                           *)

Warned(p) ==
    \E i \in DOMAIN p.quality_flags :
        p.quality_flags[i] = "ordering_window_expired"

(* A warning that is not recorded yet is of a stored event that is still   *)
(* staged, so the event about to be deleted has none.                      *)
WarningInv ==
    /\ \A p \in predictions :
          Warned(p) /\ p.event_id \notin expired_issues
          => \E n \in pending \cap telemetry : n.event_id = p.event_id
    /\ pc = "delete" =>
          \A p \in predictions :
              Warned(p) /\ p.event_id = current.event_id
              => p.event_id \in expired_issues

(* A prediction is warned when its event's issue is open or the flush's    *)
(* flag was passed.                                                        *)
LEMMA PredictionWarned ==
    ASSUME NEW m \in Message, NEW expired_
    PROVE  Warned(Prediction(m, expired_))
           <=> (m.event_id \in expired_issues \/ expired_)
<1>1. FlagSet(Prediction(m, expired_).quality_flags) \ {"feature_build_error"}
      = FlagSet(QualityFlags(m, expired_))
  BY PredictionFlags
<1>2. "ordering_window_expired" \in FlagSet(QualityFlags(m, expired_))
      <=> (m.event_id \in expired_issues \/ expired_)
  BY QualityFlagsOf
<1>3. Warned(Prediction(m, expired_))
      <=> "ordering_window_expired" \in FlagSet(Prediction(m, expired_).quality_flags)
  BY DEF Warned, FlagSet
<1> QED
  BY <1>1, <1>2, <1>3

(* The transaction of a staged event: its warning is recorded, or the      *)
(* event is now stored; and no warning but the flush's is new.             *)
LEMMA PersistWarns ==
    ASSUME IInv, HeldInv, ScoreInv, WarningInv, NEW m \in pending,
           Persist(m, PassedFlag), UNCHANGED pending
    PROVE  /\ expired_issues' = expired_issues
           /\ \A p \in predictions' :
                 Warned(p) /\ p.event_id \notin expired_issues'
                 => \E n \in pending' \cap telemetry' : n.event_id = p.event_id
           /\ ~expired => \A p \in predictions' :
                 Warned(p) /\ p.event_id = m.event_id => p.event_id \in expired_issues'
<1>1. m \in Message
  BY DEF IInv, TypeOK
<1>2. CASE InsertEvent(m, PassedFlag)
  <2>1. /\ m \in telemetry' /\ telemetry \subseteq telemetry'
        /\ expired_issues' = expired_issues /\ m.event_id \notin StoredIds
        /\ predictions' = IF Inference THEN predictions \cup {Prediction(m, PassedFlag)}
                                       ELSE predictions
    BY <1>2 DEF InsertEvent, Score, Outcome
  <2>2. Prediction(m, PassedFlag).event_id = m.event_id
    BY <1>1, PredictionFlags
  <2>3. ~expired => ~Warned(Prediction(m, PassedFlag))
    <3>1. m.event_id \notin expired_issues
      BY <2>1 DEF ScoreInv
    <3> QED
      BY <1>1, <3>1, PredictionWarned DEF PassedFlag
  <2>4. \A p \in predictions : p.event_id # m.event_id
    BY <2>1 DEF ScoreInv, ScoredConsistently
  <2> QED
    BY <2>1, <2>2, <2>3, <2>4 DEF WarningInv
<1>3. CASE RepeatEvent(m, PassedFlag)
  <2>1. UNCHANGED <<telemetry, expired_issues>>
    BY <1>3 DEF RepeatEvent
  <2>2. \A p \in predictions' :
           p \in predictions \/ (p = Prediction(m, PassedFlag) /\ Inference)
    BY <1>3 DEF RepeatEvent, Score
  <2>3. \A p \in predictions' : p.event_id = m.event_id => p = Prediction(m, PassedFlag)
    <3>1. CASE Inference
      BY <1>3, <2>2, <3>1 DEF RepeatEvent, ProcessingRaises, PredictionConflicts
    <3>2. CASE ~Inference
      BY <2>2, <3>2 DEF ScoreInv
    <3> QED
      BY <3>1, <3>2
  <2>4. Prediction(m, PassedFlag).event_id = m.event_id /\ m \in telemetry
    BY <1>1, <1>3, PredictionFlags DEF RepeatEvent, Outcome
  <2>5. ~expired /\ Warned(Prediction(m, PassedFlag)) => m.event_id \in expired_issues
    BY <1>1, PredictionWarned DEF PassedFlag
  <2> QED
    BY <2>1, <2>2, <2>3, <2>4, <2>5 DEF WarningInv
<1>4. CASE RefuseEvent(m)
  <2>1. UNCHANGED <<telemetry, expired_issues, predictions>> /\ m \notin telemetry
    BY <1>4 DEF RefuseEvent, Outcome
  <2>2. \A n \in pending \cap telemetry : n.event_id # m.event_id
    BY <2>1 DEF HeldInv
  <2> QED
    BY <2>1, <2>2 DEF WarningInv
<1> QED
  BY <1>2, <1>3, <1>4 DEF Persist

(* A step that leaves the tables and the event in hand alone and deletes   *)
(* no staged row keeps WarningInv.                                         *)
LEMMA WarningFrame ==
    ASSUME WarningInv, UNCHANGED storeVars, pending \subseteq pending',
           pc' = "delete" => pc = "delete" /\ current' = current
    PROVE  WarningInv'
BY DEF WarningInv, storeVars, Warned

(* Every step keeps WarningInv.                                            *)
LEMMA NextWarns ==
    ASSUME IInv, HeldInv, ScoreInv, WarningInv, [Next]_vars PROVE WarningInv'
<1>1. CASE Process \/ RetryProcessed
  <2>1. PICK m \in Earliest(released) :
            Persist(m, PassedFlag) /\ (Process => current' = m)
    BY <1>1 DEF Process, RetryProcessed
  <2>2. m \in pending /\ pending' = pending
    BY <1>1 DEF Earliest, HeldInv, Process, RetryProcessed
  <2>3. pc' = "delete" => Process /\ ~expired
    BY <1>1 DEF Process, RetryProcessed, Retry
  <2> QED
    BY <2>1, <2>2, <2>3, PersistWarns DEF WarningInv, Warned
<1>2. CASE Record
  <2>1. /\ expired_issues' = expired_issues \cup {current.event_id}
        /\ current' = current /\ pending' = pending
        /\ UNCHANGED <<telemetry, predictions>>
    BY <1>2 DEF Record, RecordOrderingWindowExpired, recoveryVars
  <2> QED
    BY <2>1 DEF WarningInv, Warned
<1>3. CASE Delete
  <2>1. /\ pending' = pending \ {current} /\ pc = "delete" /\ pc' # "delete"
        /\ UNCHANGED storeVars
    BY <1>3, DeleteRemoves DEF Delete
  <2> QED
    BY <2>1 DEF WarningInv, Warned, storeVars
<1>4. CASE /\ UNCHANGED storeVars /\ pending \subseteq pending'
           /\ pc' = "delete" => pc = "delete" /\ current' = current
  BY <1>4, WarningFrame
<1>5. \/ Process \/ RetryProcessed \/ Record \/ Delete
      \/ /\ UNCHANGED storeVars /\ pending \subseteq pending'
         /\ pc' = "delete" => pc = "delete" /\ current' = current
  <2>1. CASE \E m \in Message \cup Malformed : Publish(m)
    BY <2>1 DEF Publish, recoveryVars
  <2>2. CASE \E e \in Engines : BecomeIdle(e)
    BY <2>2 DEF BecomeIdle, recoveryVars
  <2>3. CASE Recovery
    BY <2>3 DEF Recovery, Load, ObserveRow, FlushIdle, KeepWaiting, Recovered, NextEngine
  <2>4. CASE Consumption
    BY <2>4 DEF Consumption, PollTimeout, PollMessage, Stage, StageRow, Commit,
       PublishDeadLetter, Acknowledge, recoveryVars
  <2>5. CASE Failure
    BY <2>5 DEF Failure, Crash, UnretriedError, RetryRolledBack, RetryStaged, Retry,
       StageRow, RetriesExhausted, Restart, recoveryVars
  <2>6. CASE UNCHANGED vars
    BY <2>6 DEF vars, recoveryVars
  <2> QED
    BY <2>1, <2>2, <2>3, <2>4, <2>5, <2>6 DEF Next
<1> QED
  BY <1>1, <1>2, <1>3, <1>4, <1>5

(* The warning of an idle flush (record_ordering_window_expired_issue runs *)
(* after the transaction that used its flag) survives a crash in between:  *)
(* the event of a prediction flagged with it is staged until it is         *)
(* recorded, so the next recovery comes back to it.                        *)
THEOREM WarningKept == Spec => []WarningNotLost
<1>1. Init => ScoreInv /\ WarningInv
  BY DEF Init, StoreInit, ScoreInv, ScoredConsistently, StoredIds, WarningInv
<1>2. IInv /\ HeldInv /\ (ScoreInv /\ WarningInv) /\ [Next]_vars
      => ScoreInv' /\ WarningInv'
  BY NextScores, NextWarns
<1>3. WarningInv => WarningNotLost
  BY DEF WarningInv, WarningNotLost, Warned, StagedIds
<1> QED
  BY <1>1, <1>2, <1>3, OrderInvariance, PTL DEF Spec
=============================================================================
