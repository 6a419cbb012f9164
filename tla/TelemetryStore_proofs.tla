------------------------ MODULE TelemetryStore_proofs ------------------------
(***************************************************************************)
(* What one processing transaction does to the tables, for every set of    *)
(* events: it keeps their types, keeps one row per identity, never removes *)
(* a row, and leaves the event's identity stored.  TelemetryConsumer_proofs*)
(* builds on these lemmas.                                                 *)
(***************************************************************************)
EXTENDS TelemetryStore, SequenceTheorems, TLAPS

(* Extending a list of flags by a flag gives a list of flags.              *)
LEMMA ExtendType ==
    ASSUME NEW flags \in Seq(Flag), NEW wanted, NEW flag \in Flag
    PROVE  Extend(flags, wanted, flag) \in Seq(Flag)
BY DEF Extend

(* The flags handed to inference are a list of flags.                      *)
LEMMA QualityFlagsType ==
    ASSUME NEW m \in Message, NEW expired
    PROVE  QualityFlags(m, expired) \in Seq(Flag)
<1>1. <<>> \in Seq(Flag) /\ "cycle_gap" \in Flag /\ "ordering_window_expired" \in Flag
  BY DEF Flag
<1>2. Extend(<<>>, m.event_id \in gap_issues, "cycle_gap") \in Seq(Flag)
  BY <1>1, ExtendType
<1>3. StoredFlags(m.event_id) \in Seq(Flag)
  BY <1>1, <1>2, ExtendType DEF StoredFlags
<1>4. Extend(StoredFlags(m.event_id), expired, "ordering_window_expired") \in Seq(Flag)
  BY <1>1, <1>3, ExtendType
<1> QED
  BY <1>1, <1>4, ExtendType DEF QualityFlags

(* The prediction computed for an event is a row of the prediction table.  *)
LEMMA PredictionType ==
    ASSUME NEW m \in Message, NEW expired
    PROVE  Prediction(m, expired) \in PredictionRow
<1>1. QualityFlags(m, expired) \in Seq(Flag)
  BY QualityFlagsType
<1>2. "feature_build_error" \in Flag
  BY DEF Flag
<1>3. Extend(QualityFlags(m, expired), TRUE, "feature_build_error") \in Seq(Flag)
  BY <1>1, <1>2, ExtendType
<1>4. m.event_id \in EventIds
  BY DEF EventIds
<1> QED
  BY <1>1, <1>3, <1>4 DEF Prediction, PredictionRow

(* The processing transaction keeps the tables well typed.                 *)
LEMMA PersistType ==
    ASSUME StoreTypeOK, NEW m \in Message, NEW expired, Persist(m, expired)
    PROVE  StoreTypeOK'
<1>1. m.event_id \in EventIds
  BY DEF EventIds
<1>2. Prediction(m, expired) \in PredictionRow
  BY PredictionType
<1>3. CASE InsertEvent(m, expired)
  BY <1>1, <1>2, <1>3 DEF InsertEvent, Score, StoreTypeOK
<1>4. CASE RepeatEvent(m, expired)
  BY <1>1, <1>2, <1>4 DEF RepeatEvent, Score, StoreTypeOK
<1>5. CASE RefuseEvent(m)
  BY <1>5 DEF RefuseEvent, StoreTypeOK
<1> QED
  BY <1>3, <1>4, <1>5 DEF Persist

(* Afterwards the event's identity is stored, and what was stored is still *)
(* there.                                                                  *)
LEMMA PersistStores ==
    ASSUME NEW m, NEW expired, Persist(m, expired)
    PROVE  /\ telemetry \subseteq telemetry'
           /\ StoredIds' = StoredIds \cup {m.event_id}
<1>1. CASE InsertEvent(m, expired)
  BY <1>1 DEF InsertEvent, StoredIds
<1>2. CASE RepeatEvent(m, expired)
  <2>1. m.event_id \in StoredIds
    BY <1>2 DEF RepeatEvent, Outcome
  <2> QED
    BY <1>2, <2>1 DEF RepeatEvent, StoredIds
<1>3. CASE RefuseEvent(m)
  <2>1. m.event_id \in StoredIds
    BY <1>3 DEF RefuseEvent, Outcome
  <2> QED
    BY <1>3, <2>1 DEF RefuseEvent, StoredIds
<1> QED
  BY <1>1, <1>2, <1>3 DEF Persist

(* The transaction never gives an identity a second row, and refuses only  *)
(* copies that differ from the row it keeps.                               *)
LEMMA PersistKeepsOneRow ==
    ASSUME OriginalPreserved, NEW m, NEW expired, Persist(m, expired)
    PROVE  OriginalPreserved'
<1>1. CASE InsertEvent(m, expired)
  <2>1. \A t \in telemetry : t.event_id # m.event_id
    BY <1>1 DEF InsertEvent, Outcome, StoredIds
  <2> QED
    BY <1>1, <2>1 DEF InsertEvent, OriginalPreserved
<1>2. CASE RepeatEvent(m, expired)
  BY <1>2 DEF RepeatEvent, OriginalPreserved
<1>3. CASE RefuseEvent(m)
  <2>1. \E t \in telemetry : t.event_id = m.event_id /\ t # m
    BY <1>3 DEF RefuseEvent, Outcome, StoredIds
  <2> QED
    BY <1>3, <2>1 DEF RefuseEvent, OriginalPreserved
<1> QED
  BY <1>1, <1>2, <1>3 DEF Persist
=============================================================================
