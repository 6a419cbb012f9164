--------------------------- MODULE Operations_proofs ---------------------------
(***************************************************************************)
(* The operational side, for any clients, events and engines.              *)
(*                                                                         *)
(* First the ingest transactions by themselves: the statements of          *)
(* persist_telemetry_event_transaction implement EventRegister, account    *)
(* for every gap and score an event as it is stored.  All three follow     *)
(* from what a transaction in flight knows: an uncommitted row's key is    *)
(* nobody else's, a key found in the table stays there, and what max(cycle)*)
(* showed stays true of the rows, which are never removed.                 *)
(*                                                                         *)
(* Then the whole: this stays true while details are read and monitoring   *)
(* runs, the parts of a detail fit together and agree with the fleet view, *)
(* and the retraining request is made at most once and for two failed      *)
(* windows, however its tasks are killed and repeated.                     *)
(***************************************************************************)
EXTENDS Operations, TelemetryStore_proofs, WellFoundedInduction

HasFlag(flags, flag) == \E i \in DOMAIN flags : flags[i] = flag

(* A flag of an extended list was there before or has just been added.     *)
LEMMA ExtendHas ==
    ASSUME NEW flags \in Seq(Flag), NEW wanted \in BOOLEAN, NEW flag \in Flag, NEW other \in Flag
    PROVE  HasFlag(Extend(flags, wanted, flag), other)
             <=> HasFlag(flags, other) \/ (wanted /\ other = flag)
<1>1. CASE wanted /\ ~HasFlag(flags, flag)
  <2>1. Extend(flags, wanted, flag) = Append(flags, flag)
    BY <1>1 DEF Extend, HasFlag
  <2>2. PICK n \in Nat : n = Len(flags) /\ DOMAIN flags = 1 .. n
    OBVIOUS
  <2>3. /\ DOMAIN Append(flags, flag) = 1 .. n + 1
        /\ \A i \in 1 .. n : Append(flags, flag)[i] = flags[i]
        /\ Append(flags, flag)[n + 1] = flag
    BY <2>2
  <2>4. \A i \in 1 .. n + 1 : i \in 1 .. n \/ i = n + 1
    BY <2>2
  <2>5. HasFlag(Append(flags, flag), other)
          <=> (\E i \in 1 .. n : flags[i] = other) \/ flag = other
    BY <2>2, <2>3, <2>4 DEF HasFlag
  <2> QED
    BY <1>1, <2>1, <2>2, <2>5 DEF HasFlag
<1>2. CASE ~(wanted /\ ~HasFlag(flags, flag))
  <2>1. Extend(flags, wanted, flag) = flags
    BY <1>2 DEF Extend, HasFlag
  <2> QED
    BY <1>2, <2>1 DEF HasFlag
<1> QED
  BY <1>1, <1>2

-----------------------------------------------------------------------------
(* The inductive invariant.                                                *)

TxTypeOK ==
    /\ telemetry \subseteq Message
    /\ tx \in [Clients -> Transaction]
    /\ \A c \in Clients : tx[c].pc = "idle" <=> tx[c].event = NoEvent
    /\ answer \in Answers

KeysHeld ==
    \A c \in Clients : tx[c].pc = "inserted" =>
        /\ tx[c].event.event_id \notin StoredIds
        /\ \A d \in Clients \ {c} :
              tx[d].pc = "inserted" => tx[d].event.event_id # tx[c].event.event_id

KeysFound ==
    \A c \in Clients :
        tx[c].pc \in {"lookup", "record"} => tx[c].event.event_id \in StoredIds

Preceded(m) ==
    \E t \in telemetry : t.engine_id = m.engine_id /\ t.cycle >= m.cycle - 1

GapsKnown ==
    \A c \in Clients :
        tx[c].pc \in {"insert", "inserted", "lookup"} /\ ~tx[c].gap /\ tx[c].event \notin openers
            => Preceded(tx[c].event)

TablesAgree ==
    /\ gap_issues \subseteq degraded
    /\ degraded \subseteq StoredIds
    /\ expired_issues \subseteq StoredIds
    /\ \A p \in predictions : p.event_id \in StoredIds
    /\ Inference => \A id \in StoredIds : \E p \in predictions : p.event_id = id

IngestInv ==
    TxTypeOK /\ KeysHeld /\ KeysFound /\ GapsKnown /\ TablesAgree
        /\ GapAccountable /\ ScoredAsStored

(* The invariant holds while nothing is stored.                            *)
LEMMA IngestInvInit == IngestInit => IngestInv
BY DEF IngestInit, StoreInit, IngestInv, TxTypeOK, KeysHeld, KeysFound, GapsKnown,
       TablesAgree, GapAccountable, ScoredAsStored, NoTransaction, Transaction,
       Answers, StoredIds, NoEventAssumption

(* A client that is in a transaction has an event.                         *)
LEMMA EventInHand ==
    ASSUME TxTypeOK, NEW c \in Clients, tx[c].pc # "idle"
    PROVE  tx[c].event \in Message
BY DEF TxTypeOK, Transaction

(* The cycles of events are numbers.                                       *)
LEMMA CyclesAreNumbers == \A m \in Message : m.cycle \in Nat
BY StoreAssumption

-----------------------------------------------------------------------------
(* Steps that leave the tables alone, but for refused events and recorded  *)
(* flushes.                                                                *)

LEMMA TablesUntouched ==
    ASSUME IngestInv, openers \subseteq openers',
           UNCHANGED <<telemetry, degraded, gap_issues, predictions>>,
           expired_issues' \subseteq StoredIds
    PROVE  TablesAgree' /\ GapAccountable' /\ ScoredAsStored'
BY DEF IngestInv, TablesAgree, GapAccountable, ScoredAsStored, StoredIds

(* Taking a request keeps the invariant.                                   *)
LEMMA RequestKeeps ==
    ASSUME IngestInv, NEW c \in Clients, NEW m \in Message, NEW expired \in BOOLEAN,
           Request(c, m, expired)
    PROVE  IngestInv'
<1>1. TablesAgree' /\ GapAccountable' /\ ScoredAsStored'
  BY TablesUntouched DEF Request, storeVars, IngestInv, TablesAgree
<1>2. TxTypeOK'
  BY NoEventAssumption DEF IngestInv, TxTypeOK, Request, storeVars, Transaction, Answers
<1>3. KeysHeld' /\ KeysFound' /\ GapsKnown'
  BY DEF IngestInv, TxTypeOK, KeysHeld, KeysFound, GapsKnown, Preceded, Request,
         storeVars, StoredIds, Transaction
<1> QED
  BY <1>1, <1>2, <1>3 DEF IngestInv

(* SELECT max(cycle) keeps the invariant: what it found stays true.        *)
LEMMA ReadKeeps ==
    ASSUME IngestInv, NEW c \in Clients, ReadLatestCycle(c)
    PROVE  IngestInv'
<1> DEFINE m == tx[c].event
<1>1. m \in Message /\ m.cycle \in Nat /\ \A t \in telemetry : t.cycle \in Nat
  BY EventInHand, CyclesAreNumbers DEF ReadLatestCycle, IngestInv, TxTypeOK
<1>2. GapFound(m) \in BOOLEAN
  BY DEF GapFound, HasGap
<1>3. openers \subseteq openers'
  BY DEF ReadLatestCycle
<1>4. TablesAgree' /\ GapAccountable' /\ ScoredAsStored'
  BY <1>3, TablesUntouched DEF ReadLatestCycle, storeVars, IngestInv, TablesAgree
<1>5. /\ tx' \in [Clients -> Transaction]
      /\ \A d \in Clients :
            /\ tx'[d].event = tx[d].event
            /\ tx'[d].pc = IF d = c THEN "insert" ELSE tx[d].pc
            /\ tx'[d].gap = IF d = c THEN GapFound(m) ELSE tx[d].gap
  <2>1. PICK t \in Transaction : t = tx[c]
    BY DEF IngestInv, TxTypeOK
  <2> DEFINE next == [t EXCEPT !.pc = "insert", !.gap = GapFound(m)]
  <2>2. /\ next \in Transaction
        /\ next.pc = "insert" /\ next.event = t.event /\ next.gap = GapFound(m)
    BY <1>2 DEF Transaction
  <2>3. tx' = [tx EXCEPT ![c] = next]
    BY <2>1 DEF ReadLatestCycle, IngestInv, TxTypeOK
  <2> HIDE DEF next, m
  <2> QED
    BY <2>1, <2>2, <2>3 DEF IngestInv, TxTypeOK
<1>6. TxTypeOK'
  BY <1>1, <1>5, NoEventAssumption
  DEF ReadLatestCycle, IngestInv, TxTypeOK, storeVars, Answers
<1>7. KeysHeld' /\ KeysFound'
  BY <1>5 DEF ReadLatestCycle, IngestInv, TxTypeOK, KeysHeld, KeysFound, storeVars, StoredIds
<1>8. ~GapFound(m) /\ m \notin openers' => Preceded(m)
  <2> SUFFICES ASSUME ~GapFound(m), RowsOf(m.engine_id) # {} PROVE Preceded(m)
    BY DEF ReadLatestCycle
  <2>1. PICK t \in telemetry : t.engine_id = m.engine_id /\ ~(m.cycle > t.cycle + 1)
    BY DEF GapFound, HasGap, RowsOf
  <2> QED
    BY <1>1, <2>1 DEF Preceded
<1>9. GapsKnown'
  BY <1>3, <1>5, <1>8 DEF ReadLatestCycle, IngestInv, TxTypeOK, GapsKnown, Preceded, storeVars
<1> QED
  BY <1>4, <1>6, <1>7, <1>9 DEF IngestInv

(* The insert keeps the invariant: it waits for an uncommitted key.        *)
LEMMA InsertKeeps ==
    ASSUME IngestInv, NEW c \in Clients, InsertRow(c)
    PROVE  IngestInv'
<1> DEFINE next == IF tx[c].event.event_id \in StoredIds THEN "lookup" ELSE "inserted"
<1>1. TablesAgree' /\ GapAccountable' /\ ScoredAsStored'
  BY TablesUntouched DEF InsertRow, storeVars, IngestInv, TablesAgree
<1>2. /\ tx' \in [Clients -> Transaction]
      /\ \A d \in Clients :
            /\ tx'[d].event = tx[d].event
            /\ tx'[d].pc = IF d = c THEN next ELSE tx[d].pc
            /\ tx'[d].gap = tx[d].gap
  <2>1. PICK t \in Transaction : t = tx[c]
    BY DEF IngestInv, TxTypeOK
  <2>2. [t EXCEPT !.pc = next] \in Transaction
    BY DEF Transaction
  <2>3. [t EXCEPT !.pc = next].event = t.event /\ [t EXCEPT !.pc = next].pc = next
        /\ [t EXCEPT !.pc = next].gap = t.gap
    BY DEF Transaction
  <2>4. tx' = [tx EXCEPT ![c] = [t EXCEPT !.pc = next]]
    BY <2>1 DEF InsertRow
  <2> HIDE DEF next
  <2> QED
    BY <2>1, <2>2, <2>3, <2>4 DEF IngestInv, TxTypeOK
<1>3. tx[c].event \in Message
  BY EventInHand DEF InsertRow, IngestInv
<1>4. TxTypeOK'
  BY <1>2, <1>3, NoEventAssumption
  DEF InsertRow, IngestInv, TxTypeOK, storeVars, Transaction, Answers
<1>5. \A d \in Clients :
          tx[d].pc = "inserted" => tx[d].event.event_id # tx[c].event.event_id
  BY DEF InsertRow, KeyFree
<1>6. KeysHeld' /\ KeysFound'
  BY <1>2, <1>5 DEF InsertRow, IngestInv, TxTypeOK, KeysHeld, KeysFound, storeVars, StoredIds
<1>7. GapsKnown'
  BY <1>2 DEF InsertRow, IngestInv, TxTypeOK, GapsKnown, Preceded, storeVars
<1> QED
  BY <1>1, <1>4, <1>6, <1>7 DEF IngestInv

(* The transaction is over: its client is idle again, or about to record   *)
(* the flush of an event that is stored.                                   *)
LEMMA EndKeeps ==
    ASSUME IngestInv, NEW c \in Clients, tx[c].pc # "idle", NEW next,
           tx' = [tx EXCEPT ![c] = next],
           \/ next = NoTransaction
           \/ /\ next = [tx[c] EXCEPT !.pc = "record"]
              /\ tx[c].event.event_id \in StoredIds',
           answer' \in Answers, telemetry' \subseteq Message, telemetry \subseteq telemetry',
           openers' = openers,
           \A d \in Clients \ {c} : tx[d].pc = "inserted" =>
               tx[d].event.event_id \notin StoredIds'
    PROVE  TxTypeOK' /\ KeysHeld' /\ KeysFound' /\ GapsKnown'
<1>1. \A d \in Clients : tx'[d] = IF d = c THEN next ELSE tx[d]
  BY DEF IngestInv, TxTypeOK
<1>2. /\ next \in Transaction
      /\ \/ next.pc = "idle" /\ next.event = NoEvent
         \/ /\ next.pc = "record" /\ next.event = tx[c].event
            /\ next.event \in Message /\ next.event.event_id \in StoredIds'
  <2>1. CASE next = NoTransaction
    BY <2>1 DEF NoTransaction, Transaction
  <2>2. CASE next # NoTransaction
    <3>1. PICK t \in Transaction : t = tx[c]
      BY DEF IngestInv, TxTypeOK
    <3>2. t.event \in Message
      BY <3>1, EventInHand DEF IngestInv
    <3>3. next = [t EXCEPT !.pc = "record"] /\ t.event.event_id \in StoredIds'
      BY <2>2, <3>1
    <3> QED
      BY <3>1, <3>2, <3>3 DEF Transaction
  <2> QED
    BY <2>1, <2>2
<1>3. TxTypeOK'
  BY <1>1, <1>2, NoEventAssumption DEF IngestInv, TxTypeOK
<1>4. KeysHeld' /\ KeysFound'
  BY <1>1, <1>2 DEF IngestInv, KeysHeld, KeysFound, StoredIds
<1>5. GapsKnown'
  BY <1>1, <1>2 DEF IngestInv, GapsKnown, Preceded
<1> QED
  BY <1>3, <1>4, <1>5

(* EndTransaction is such an end, if the event is stored by then.          *)
LEMMA EndTransactionEnds ==
    ASSUME NEW c \in Clients, NEW outcome, EndTransaction(c, outcome)
    PROVE  \E next \in {NoTransaction, [tx[c] EXCEPT !.pc = "record"]} :
               tx' = [tx EXCEPT ![c] = next]
BY DEF EndTransaction

(* What a transaction answers at its end is an answer.                     *)
LEMMA AnswerType ==
    ASSUME IngestInv, NEW c \in Clients, tx[c].pc # "idle",
           NEW outcome \in {"failed", "inserted", "duplicate", "conflict"},
           answer' \in {NoEvent, [event |-> tx[c].event, outcome |-> outcome]}
    PROVE  answer' \in Answers
BY EventInHand DEF IngestInv, Answers

(* A refusal, a rollback and the record of a flush keep the invariant.     *)
LEMMA RefusalKeeps ==
    ASSUME IngestInv, NEW c \in Clients,
           CommitRefusal(c) \/ Rollback(c) \/ RecordExpired(c) \/ FailToRecord(c)
    PROVE  IngestInv'
<1>1. /\ UNCHANGED <<telemetry, degraded, gap_issues, predictions, openers>>
      /\ expired_issues' \subseteq StoredIds
  BY DEF CommitRefusal, Rollback, RecordExpired, FailToRecord, RecordOrderingWindowExpired,
         storeVars, IngestInv, KeysFound, TablesAgree
<1>2. tx[c].pc # "idle" /\ answer' \in Answers
  BY AnswerType DEF CommitRefusal, Rollback, RecordExpired, FailToRecord, EndTransaction,
                    Answers
<1>3. PICK next \in {NoTransaction, [tx[c] EXCEPT !.pc = "record"]} :
          /\ tx' = [tx EXCEPT ![c] = next]
          /\ next # NoTransaction => tx[c].event.event_id \in StoredIds'
  <2>1. CASE CommitRefusal(c)
    <3>1. tx[c].event.event_id \in StoredIds'
      BY <1>1, <2>1 DEF CommitRefusal, IngestInv, KeysFound, StoredIds
    <3> QED
      BY <2>1, <3>1, EndTransactionEnds DEF CommitRefusal
  <2>2. CASE Rollback(c) \/ RecordExpired(c) \/ FailToRecord(c)
    BY <2>2 DEF Rollback, RecordExpired, FailToRecord
  <2> QED
    BY <2>1, <2>2
<1>4. \A d \in Clients : tx[d].pc = "inserted" => tx[d].event.event_id \notin StoredIds'
  BY <1>1 DEF IngestInv, KeysHeld, StoredIds
<1>5. TxTypeOK' /\ KeysHeld' /\ KeysFound' /\ GapsKnown'
  <2>1. telemetry' \subseteq Message
    BY <1>1 DEF IngestInv, TxTypeOK
  <2> QED
    BY <1>1, <1>2, <1>3, <1>4, <2>1, EndKeeps
<1>6. TablesAgree' /\ GapAccountable' /\ ScoredAsStored'
  BY <1>1, TablesUntouched
<1> QED
  BY <1>5, <1>6 DEF IngestInv

(* A request elsewhere: nothing of this changes but the answer.            *)
LEMMA OutsideKeeps ==
    ASSUME IngestInv, UNCHANGED <<storeVars, tx, openers>>, answer' \in Answers
    PROVE  IngestInv'
BY DEF IngestInv, storeVars, TxTypeOK, KeysHeld, KeysFound, GapsKnown, Preceded,
       TablesAgree, GapAccountable, ScoredAsStored, StoredIds

-----------------------------------------------------------------------------
(* A repeated event is scored as it was scored before, or not at all.      *)
LEMMA RepeatScores ==
    ASSUME IngestInv, NEW c \in Clients, CommitRepeat(c)
    PROVE  predictions' = predictions
<1>1. CASE ~Inference
  BY <1>1 DEF CommitRepeat, ScoreEvent
<1>2. CASE Inference
  <2>1. PICK p \in predictions : p.event_id = tx[c].event.event_id
    BY <1>2 DEF CommitRepeat, IngestInv, TablesAgree, StoredIds
  <2>2. p = ScoreOf(c)
    BY <1>2, <2>1 DEF CommitRepeat, ScoreConflicts
  <2> QED
    BY <1>2, <2>2 DEF CommitRepeat, ScoreEvent
<1> QED
  BY <1>1, <1>2

(* The commit of a repeated event keeps the invariant.                     *)
LEMMA RepeatKeeps ==
    ASSUME IngestInv, NEW c \in Clients, CommitRepeat(c)
    PROVE  IngestInv'
<1>1. predictions' = predictions
  BY RepeatScores
<1>2. UNCHANGED <<telemetry, degraded, gap_issues, expired_issues, predictions, openers>>
  BY <1>1 DEF CommitRepeat
<1>3. tx[c].pc # "idle" /\ answer' \in Answers
  BY AnswerType DEF CommitRepeat, EndTransaction
<1>4. PICK next \in {NoTransaction, [tx[c] EXCEPT !.pc = "record"]} :
          tx' = [tx EXCEPT ![c] = next]
  BY EndTransactionEnds DEF CommitRepeat
<1>5. \A d \in Clients : tx[d].pc = "inserted" => tx[d].event.event_id \notin StoredIds'
  BY <1>2 DEF IngestInv, KeysHeld, StoredIds
<1>6. TxTypeOK' /\ KeysHeld' /\ KeysFound' /\ GapsKnown'
  <2>1. telemetry' \subseteq Message
    BY <1>2 DEF IngestInv, TxTypeOK
  <2>2. tx[c].event.event_id \in StoredIds'
    BY <1>2 DEF CommitRepeat, StoredIds
  <2> QED
    BY <1>2, <1>3, <1>4, <1>5, <2>1, <2>2, EndKeeps
<1>7. TablesAgree' /\ GapAccountable' /\ ScoredAsStored'
  BY <1>2, TablesUntouched DEF IngestInv, TablesAgree
<1> QED
  BY <1>6, <1>7 DEF IngestInv

(* A list of flags has none besides these two and "feature_build_error".   *)
LEMMA QualityFlagged ==
    ASSUME NEW p, p.quality_flags \in Seq(Flag)
    PROVE  /\ "cycle_gap" \in FlagsOf(p) <=> HasFlag(p.quality_flags, "cycle_gap")
           /\ FlagsOf(p) \ {"feature_build_error"} # {} <=>
                 \/ HasFlag(p.quality_flags, "cycle_gap")
                 \/ HasFlag(p.quality_flags, "ordering_window_expired")
<1>1. \A i \in DOMAIN p.quality_flags : p.quality_flags[i] \in Flag
  OBVIOUS
<1> QED
  BY <1>1 DEF FlagsOf, HasFlag, Flag

(* A first copy has no issue yet: its flush and its gap flag its score.    *)
LEMMA FirstScore ==
    ASSUME IngestInv, NEW c \in Clients, tx[c].pc = "inserted"
    PROVE  /\ ScoreOf(c).event_id = tx[c].event.event_id
           /\ ScoreOf(c).quality_flags \in Seq(Flag)
           /\ HasFlag(ScoreOf(c).quality_flags, "cycle_gap") <=> tx[c].gap
           /\ HasFlag(ScoreOf(c).quality_flags, "ordering_window_expired") <=> tx[c].expired
<1> DEFINE m == tx[c].event
<1>1. <<>> \in Seq(Flag) /\ "cycle_gap" \in Flag /\ "ordering_window_expired" \in Flag
      /\ "feature_build_error" \in Flag
  BY DEF Flag
<1>2. m.event_id \notin gap_issues /\ m.event_id \notin expired_issues
  BY DEF IngestInv, KeysHeld, TablesAgree
<1>3. StoredFlags(m.event_id) = <<>>
  BY <1>2 DEF StoredFlags, Extend
<1>4. tx[c].gap \in BOOLEAN /\ tx[c].expired \in BOOLEAN
  BY DEF IngestInv, TxTypeOK, Transaction
<1> DEFINE flushed == Extend(<<>>, tx[c].expired, "ordering_window_expired")
<1>5. flushed \in Seq(Flag) /\ Flags(c) = Extend(flushed, tx[c].gap, "cycle_gap")
  BY <1>1, <1>3, ExtendType DEF Flags
<1>6. Flags(c) \in Seq(Flag)
  BY <1>1, <1>5, ExtendType
<1>7. ASSUME NEW flag \in Flag
      PROVE  HasFlag(Flags(c), flag)
               <=> (\/ tx[c].gap /\ flag = "cycle_gap"
                    \/ tx[c].expired /\ flag = "ordering_window_expired")
  <2>1. ~HasFlag(<<>>, flag)
    BY DEF HasFlag
  <2>2. HasFlag(flushed, flag)
          <=> HasFlag(<<>>, flag) \/ (tx[c].expired /\ flag = "ordering_window_expired")
    BY <1>1, <1>4, ExtendHas
  <2> HIDE DEF flushed
  <2>3. HasFlag(Flags(c), flag)
          <=> HasFlag(flushed, flag) \/ (tx[c].gap /\ flag = "cycle_gap")
    BY <1>1, <1>4, <1>5, ExtendHas
  <2> QED
    BY <2>1, <2>2, <2>3
<1>8. /\ HasFlag(Flags(c), "cycle_gap") <=> tx[c].gap
      /\ HasFlag(Flags(c), "ordering_window_expired") <=> tx[c].expired
  BY <1>1, <1>7
<1>9. Extend(Flags(c), TRUE, "feature_build_error") \in Seq(Flag)
  BY <1>1, <1>6, ExtendType
<1>10. ASSUME NEW flag \in Flag, flag # "feature_build_error"
       PROVE  HasFlag(Extend(Flags(c), TRUE, "feature_build_error"), flag)
                <=> HasFlag(Flags(c), flag)
  BY <1>1, <1>6, <1>10, ExtendHas
<1>11. /\ HasFlag(Extend(Flags(c), TRUE, "feature_build_error"), "cycle_gap")
            <=> tx[c].gap
       /\ HasFlag(Extend(Flags(c), TRUE, "feature_build_error"), "ordering_window_expired")
            <=> tx[c].expired
  BY <1>1, <1>8, <1>10
<1> QED
  BY <1>6, <1>8, <1>9, <1>11 DEF ScoreOf

(* The commit of a new row, its issue and its prediction keeps the         *)
(* invariant.                                                              *)
LEMMA CommitKeeps ==
    ASSUME IngestInv, NEW c \in Clients, CommitInsert(c)
    PROVE  IngestInv'
<1> DEFINE m == tx[c].event
<1>1. m \in Message /\ m.event_id \notin StoredIds /\ tx[c].pc = "inserted"
  BY EventInHand DEF CommitInsert, IngestInv, KeysHeld
<1>2. /\ telemetry' = telemetry \cup {m}
      /\ degraded' = IF tx[c].expired \/ tx[c].gap
                       THEN degraded \cup {m.event_id} ELSE degraded
      /\ gap_issues' = IF tx[c].gap THEN gap_issues \cup {m.event_id} ELSE gap_issues
      /\ expired_issues' = expired_issues
      /\ openers' = openers
      /\ predictions' = IF Inference THEN predictions \cup {ScoreOf(c)} ELSE predictions
  BY DEF CommitInsert, ScoreEvent
<1>3. StoredIds' = StoredIds \cup {m.event_id}
  BY <1>2 DEF StoredIds
<1>4. /\ ScoreOf(c).event_id = m.event_id
      /\ ScoreOf(c).quality_flags \in Seq(Flag)
      /\ HasFlag(ScoreOf(c).quality_flags, "cycle_gap") <=> tx[c].gap
      /\ HasFlag(ScoreOf(c).quality_flags, "ordering_window_expired") <=> tx[c].expired
  BY <1>1, FirstScore
<1>5. m.event_id \notin gap_issues /\ m.event_id \notin degraded
      /\ \A p \in predictions : p.event_id # m.event_id
  BY <1>1 DEF IngestInv, TablesAgree
<1>6. TxTypeOK' /\ KeysHeld' /\ KeysFound' /\ GapsKnown'
  <2>1. answer' \in Answers
    BY <1>1, AnswerType DEF CommitInsert, EndTransaction
  <2>2. telemetry' \subseteq Message /\ telemetry \subseteq telemetry'
    BY <1>1, <1>2 DEF IngestInv, TxTypeOK
  <2>3. \A d \in Clients \ {c} :
            tx[d].pc = "inserted" => tx[d].event.event_id \notin StoredIds'
    BY <1>1, <1>3 DEF IngestInv, KeysHeld
  <2>4. PICK next \in {NoTransaction, [tx[c] EXCEPT !.pc = "record"]} :
            tx' = [tx EXCEPT ![c] = next]
    BY EndTransactionEnds DEF CommitInsert
  <2> QED
    BY <1>1, <1>2, <1>3, <2>1, <2>2, <2>3, <2>4, EndKeeps
<1>7. TablesAgree'
  <2>1. \A p \in predictions' : p.event_id \in StoredIds'
    BY <1>2, <1>3, <1>4 DEF IngestInv, TablesAgree
  <2>2. Inference => \A id \in StoredIds' : \E p \in predictions' : p.event_id = id
    BY <1>2, <1>3, <1>4 DEF IngestInv, TablesAgree
  <2>3. gap_issues' \subseteq degraded' /\ degraded' \subseteq StoredIds'
        /\ expired_issues' \subseteq StoredIds'
    BY <1>2, <1>3 DEF IngestInv, TablesAgree
  <2> QED
    BY <2>1, <2>2, <2>3 DEF TablesAgree
<1>8. ScoredAsStored'
  <2> SUFFICES ASSUME NEW p \in predictions'
               PROVE  /\ "cycle_gap" \in FlagsOf(p) <=> p.event_id \in gap_issues'
                      /\ FlagsOf(p) \ {"feature_build_error"} # {} <=> p.event_id \in degraded'
    BY DEF ScoredAsStored, FlagsOf
  <2>1. CASE p \in predictions
    BY <1>2, <1>5, <2>1 DEF IngestInv, ScoredAsStored
  <2>2. CASE p = ScoreOf(c)
    <3>1. /\ "cycle_gap" \in FlagsOf(p) <=> tx[c].gap
          /\ FlagsOf(p) \ {"feature_build_error"} # {} <=> tx[c].gap \/ tx[c].expired
      BY <1>4, <2>2, QualityFlagged
    <3> QED
      BY <1>2, <1>4, <1>5, <2>2, <3>1
  <2> QED
    BY <1>2, <2>1, <2>2
<1>9. GapAccountable'
  <2> SUFFICES ASSUME NEW n \in telemetry', n.event_id \notin gap_issues', n \notin openers'
               PROVE  \E t \in telemetry' \ {n} :
                          t.engine_id = n.engine_id /\ t.cycle >= n.cycle - 1
    BY DEF GapAccountable
  <2>1. CASE n \in telemetry
    BY <1>2, <2>1 DEF IngestInv, GapAccountable
  <2>2. CASE n = m
    <3>1. ~tx[c].gap /\ m \notin openers
      BY <1>2, <2>2
    <3>2. Preceded(m)
      BY <1>1, <3>1 DEF IngestInv, GapsKnown
    <3>3. m \notin telemetry
      BY <1>1 DEF StoredIds
    <3> QED
      BY <1>2, <2>2, <3>2, <3>3 DEF Preceded
  <2> QED
    BY <1>2, <2>1, <2>2
<1> QED
  BY <1>6, <1>7, <1>8, <1>9 DEF IngestInv

-----------------------------------------------------------------------------
(* Every step keeps the invariant and is a step of the register.           *)

LEMMA StatementKeeps ==
    ASSUME IngestInv, NEW c \in Clients, Statement(c)
    PROVE  IngestInv'
BY ReadKeeps, InsertKeeps, CommitKeeps, RepeatKeeps, RefusalKeeps DEF Statement

(* Every step of a client keeps the invariant.                             *)
LEMMA IngestStepKeeps ==
    ASSUME IngestInv, [IngestNext]_ingestVars
    PROVE  IngestInv'
<1>1. CASE UNCHANGED ingestVars
  <2>1. UNCHANGED <<storeVars, tx, openers>> /\ answer' \in Answers
    BY <1>1 DEF ingestVars, txVars, IngestInv, TxTypeOK
  <2> QED
    BY <2>1, OutsideKeeps
<1>2. CASE IngestNext
  BY <1>2, StatementKeeps, RequestKeeps DEF IngestNext
<1> QED
  BY <1>1, <1>2

(* Whoever was answered before, an answer that is no longer the last one   *)
(* is a step of the register in which nothing is answered.                 *)
LEMMA SilenceRegisters ==
    ASSUME IngestInv, UNCHANGED <<telemetry, conflict_issues>>, answer' = NoEvent
    PROVE  [Register!RegisterNext]_(Register!registerVars)
<1>1. CASE answer = NoEvent
  BY <1>1 DEF Register!registerVars
<1>2. CASE answer # NoEvent
  <2>1. answer.event \in Message
    BY <1>2 DEF IngestInv, TxTypeOK, Answers
  <2>2. Register!Fail(answer.event)
    BY DEF Register!Fail, Register!Answer
  <2> QED
    BY <2>1, <2>2 DEF Register!RegisterNext
<1> QED
  BY <1>1, <1>2

(* Taking a request is invisible in EventRegister.                         *)
LEMMA RequestRegisters ==
    ASSUME IngestInv, NEW c \in Clients, NEW m \in Message, NEW expired \in BOOLEAN,
           Request(c, m, expired)
    PROVE  [Register!RegisterNext]_(Register!registerVars)
BY SilenceRegisters DEF Request, storeVars

(* A statement is a step of EventRegister or invisible in it.              *)
LEMMA StatementRegisters ==
    ASSUME IngestInv, NEW c \in Clients, Statement(c)
    PROVE  [Register!RegisterNext]_(Register!registerVars)
<1> DEFINE m == tx[c].event
<1>1. CASE ReadLatestCycle(c) \/ InsertRow(c) \/ RecordExpired(c) \/ FailToRecord(c)
  BY <1>1, SilenceRegisters
  DEF ReadLatestCycle, InsertRow, RecordExpired, FailToRecord, RecordOrderingWindowExpired,
      storeVars
<1>2. tx[c].pc # "idle" => m \in Message
  BY EventInHand DEF IngestInv
<1>3. CASE CommitInsert(c)
  <2>1. m \in Message /\ m.event_id \notin StoredIds
    BY <1>2, <1>3 DEF CommitInsert, IngestInv, KeysHeld
  <2>2. Register!Insert(m)
    BY <1>3, <2>1 DEF CommitInsert, EndTransaction, StoredIds, Register!Insert, Register!Answer
  <2> QED
    BY <2>1, <2>2 DEF Register!RegisterNext
<1>4. CASE CommitRepeat(c)
  <2>1. Register!Repeat(m)
    BY <1>4 DEF CommitRepeat, EndTransaction, Register!Repeat, Register!Answer
  <2> QED
    BY <1>2, <1>4, <2>1 DEF CommitRepeat, Register!RegisterNext
<1>5. CASE CommitRefusal(c)
  <2>1. m.event_id \in StoredIds /\ m \notin telemetry
    BY <1>5 DEF CommitRefusal, IngestInv, KeysFound
  <2>2. Register!Refuse(m)
    BY <1>5, <2>1 DEF CommitRefusal, EndTransaction, StoredIds, Register!Refuse, Register!Answer
  <2> QED
    BY <1>2, <1>5, <2>2 DEF CommitRefusal, Register!RegisterNext
<1>6. CASE Rollback(c)
  <2>1. Register!Fail(m)
    BY <1>6 DEF Rollback, storeVars, Register!Fail, Register!Answer
  <2> QED
    BY <1>2, <1>6, <2>1 DEF Rollback, Register!RegisterNext
<1> QED
  BY <1>1, <1>3, <1>4, <1>5, <1>6 DEF Statement

(* Every step of a client is a step of EventRegister or a stutter.         *)
LEMMA IngestStepRegisters ==
    ASSUME IngestInv, [IngestNext]_ingestVars
    PROVE  [Register!RegisterNext]_(Register!registerVars)
<1>1. CASE UNCHANGED ingestVars
  BY <1>1 DEF ingestVars, txVars, storeVars, Register!registerVars
<1>2. CASE IngestNext
  BY <1>2, StatementRegisters, RequestRegisters DEF IngestNext
<1> QED
  BY <1>1, <1>2

(* The initial states map to initial states of EventRegister.              *)
LEMMA RegisterStarts == IngestInit => Register!RegisterInit
BY DEF IngestInit, StoreInit, Register!RegisterInit

-----------------------------------------------------------------------------
(* The inductive invariant of concurrent ingestion: types, what each       *)
(* transaction knows at its statement, and that rows, issues and           *)
(* predictions agree.                                                      *)
THEOREM IngestInvariant == IngestSpec => []IngestInv
<1>1. IngestInit => IngestInv
  BY IngestInvInit
<1>2. IngestInv /\ [IngestNext]_ingestVars => IngestInv'
  BY IngestStepKeeps
<1> QED
  BY <1>1, <1>2, PTL DEF IngestSpec

(* persist_telemetry_event_transaction, run by any number of clients at    *)
(* once, behaves as if each request had been one step: no identity is      *)
(* stored twice or replaced, and no answer is wrong.                       *)
THEOREM IngestImplementsRegister == IngestSpec => ImplementsRegister
<1>1. IngestInit => Register!RegisterInit
  BY RegisterStarts
<1>2. IngestInv /\ [IngestNext]_ingestVars => [Register!RegisterNext]_(Register!registerVars)
  BY IngestStepRegisters
<1> QED
  BY <1>1, <1>2, IngestInvariant, PTL DEF IngestSpec, ImplementsRegister, Register!RegisterSpec

-----------------------------------------------------------------------------
(* The whole operational side.                                             *)

(* A step of Operations is a statement or a request of one client, or      *)
(* leaves the tables and the transactions alone and answers nobody.        *)
LEMMA StepsOfIngest ==
    ASSUME [Next]_vars
    PROVE  \/ [IngestNext]_ingestVars
           \/ UNCHANGED <<storeVars, tx, openers>> /\ answer' = NoEvent
<1>1. CASE UNCHANGED vars
  BY <1>1 DEF vars
<1>2. CASE \E c \in Clients : Ingest(c)
  BY <1>2, WatchedAssumption, Zenon DEF Ingest, IngestNext, Offered
<1>3. CASE Read
  BY <1>3 DEF Read, ReadDetail, ReadCurrent, ReadLastValid, ReadIssues, Answered
<1>4. CASE Monitor
  BY <1>4 DEF Monitor
<1> QED
  BY <1>1, <1>2, <1>3, <1>4 DEF Next

(* The ingest invariant is an invariant of the whole.                      *)
LEMMA StepKeepsIngest ==
    ASSUME IngestInv, [Next]_vars
    PROVE  IngestInv' /\ [Register!RegisterNext]_(Register!registerVars)
<1>1. CASE [IngestNext]_ingestVars
  BY <1>1, IngestStepKeeps, IngestStepRegisters
<1>2. CASE UNCHANGED <<storeVars, tx, openers>> /\ answer' = NoEvent
  <2>1. answer' \in Answers
    BY <1>2 DEF Answers
  <2>2. UNCHANGED <<telemetry, conflict_issues>>
    BY <1>2 DEF storeVars
  <2> QED
    BY <1>2, <2>1, <2>2, OutsideKeeps, SilenceRegisters
<1> QED
  BY <1>1, <1>2, StepsOfIngest

(* The invariant of concurrent ingestion survives the reads and the        *)
(* monitoring job beside it, which change none of its tables.              *)
THEOREM OperationsKeepIngest == Spec => []IngestInv
<1>1. OperationsInit => IngestInv
  BY IngestInvInit DEF OperationsInit
<1>2. IngestInv /\ [Next]_vars => IngestInv'
  BY StepKeepsIngest
<1> QED
  BY <1>1, <1>2, PTL DEF Spec

(* Whoever reads and whatever monitoring does meanwhile, concurrent        *)
(* transactions store each identity once and answer truthfully.            *)
THEOREM OperationsImplementRegister == Spec => ImplementsRegister
<1>1. OperationsInit => Register!RegisterInit
  BY RegisterStarts DEF OperationsInit
<1>2. IngestInv /\ [Next]_vars => [Register!RegisterNext]_(Register!registerVars)
  BY StepKeepsIngest
<1> QED
  BY <1>1, <1>2, OperationsKeepIngest, PTL
  DEF Spec, ImplementsRegister, Register!RegisterSpec

(* max(cycle), read before the insert, misses a gap in silence only for an *)
(* event whose transaction found no row of its engine.                     *)
THEOREM OperationsAccountForGaps == Spec => []GapAccountable
<1>1. IngestInv => GapAccountable
  BY DEF IngestInv
<1> QED
  BY <1>1, OperationsKeepIngest, PTL

(* A prediction's gap flag, its row's quality and the open issue agree.    *)
THEOREM OperationsScoreAsStored == Spec => []ScoredAsStored
<1>1. IngestInv => ScoredAsStored
  BY DEF IngestInv
<1> QED
  BY <1>1, OperationsKeepIngest, PTL

-----------------------------------------------------------------------------
(* The request for retraining.  The latch is what makes the second task    *)
(* harmless to repeat: before it is written nothing was triggered, and     *)
(* after it no run reaches the trigger again.                              *)

RunPcs == {"idle", "done"} \cup ReportSteps \cup RequestSteps

RequestInv ==
    /\ run \in [pc : RunPcs, report : FailedChecks]
    /\ history \in Seq(FailedChecks) /\ Len(history) <= HistoryBound
    /\ latch \in BOOLEAN
    /\ requested \in {0, 1}
    /\ At("latch") => ~latch /\ FailingTwice
    /\ At("trigger") => latch /\ requested = 0 /\ FailingTwice
    /\ ~latch => requested = 0

(* The newest reports of a history are at most HistoryBound reports.       *)
LEMMA NewestType ==
    ASSUME NEW reports \in Seq(FailedChecks)
    PROVE  Newest(reports) \in Seq(FailedChecks) /\ Len(Newest(reports)) <= HistoryBound
<1>1. PICK n \in Nat : n = Len(reports)
  OBVIOUS
<1>2. CASE n <= 2
  BY <1>1, <1>2 DEF Newest, HistoryBound
<1>3. CASE n > 2
  <2>1. Newest(reports) = SubSeq(reports, n - 1, n)
    BY <1>1, <1>3 DEF Newest, HistoryBound
  <2>2. /\ SubSeq(reports, n - 1, n) \in Seq(FailedChecks)
        /\ Len(SubSeq(reports, n - 1, n)) = 2
    BY <1>1, <1>3, SubSeqProperties
  <2> QED
    BY <2>1, <2>2 DEF HistoryBound
<1> QED
  BY <1>1, <1>2, <1>3

(* Without a history, a latch or a request, the invariant holds.           *)
LEMMA RequestStarts == OperationsInit => RequestInv
<1> SUFFICES ASSUME MonitoringInit PROVE RequestInv
  BY DEF OperationsInit
<1>1. <<>> \in Seq(FailedChecks) /\ Len(<<>>) = 0
  OBVIOUS
<1>2. {} \in FailedChecks /\ "idle" \in RunPcs
  BY DEF FailedChecks, RunPcs
<1>3. run \in [pc : RunPcs, report : FailedChecks] /\ run.pc = "idle"
  BY <1>2 DEF MonitoringInit
<1>4. history \in Seq(FailedChecks) /\ Len(history) <= HistoryBound
  BY <1>1 DEF MonitoringInit, HistoryBound
<1>5. latch = FALSE /\ requested = 0
  BY DEF MonitoringInit
<1> QED
  BY <1>3, <1>4, <1>5 DEF RequestInv, At

(* A request that is due is for the two reports of the history.            *)
LEMMA DueFailsTwice ==
    ASSUME RequestInv, RequestDue
    PROVE  FailingTwice
<1>1. PICK n \in Nat : n = Len(history) /\ DOMAIN history = 1 .. n
  BY DEF RequestInv
<1>2. n = 2
  BY <1>1 DEF RequestInv, RequestDue, HistoryBound
<1>3. \A i \in 1 .. 2 : Degradation \in history[i]
  BY <1>1, <1>2 DEF RequestDue, FailedWindow, CheckNames
<1> QED
  BY <1>1, <1>2, <1>3 DEF FailingTwice, HistoryBound

(* To go to another step keeps the report.                                 *)
LEMMA GotoMoves ==
    ASSUME RequestInv, NEW pc \in RunPcs, Goto(pc)
    PROVE  run' \in [pc : RunPcs, report : FailedChecks] /\ run'.pc = pc
BY DEF RequestInv, Goto

(* Outside the second task's last two steps, a step that touches neither   *)
(* the latch nor the count keeps the invariant.                            *)
LEMMA QuietKeeps ==
    ASSUME RequestInv, UNCHANGED <<latch, requested>>,
           run' \in [pc : RunPcs, report : FailedChecks],
           run'.pc \notin {"latch", "trigger"},
           history' \in Seq(FailedChecks), Len(history') <= HistoryBound
    PROVE  RequestInv'
BY DEF RequestInv, At

(* Nothing at all happens to the request.                                  *)
LEMMA StillKeeps ==
    ASSUME RequestInv, UNCHANGED <<run, history, latch, requested>>
    PROVE  RequestInv'
BY DEF RequestInv, At, FailingTwice

(* The steps of the report task that write no history keep the invariant.  *)
LEMMA ReportTaskKeeps ==
    ASSUME RequestInv,
           StartRun \/ Load \/ EmptyLatest \/ FillLatest \/ CreateHistoryFile \/ RunFails
    PROVE  RequestInv'
<1>1. UNCHANGED <<history, latch, requested>>
  BY DEF StartRun, Load, EmptyLatest, FillLatest, CreateHistoryFile, RunFails, ReportVars
<1>2. /\ run' \in [pc : RunPcs, report : FailedChecks]
      /\ run'.pc \in {"load", "latest", "fill", "history", "append", "idle"}
  <2>1. {} \in FailedChecks /\ MaeCheck \in FailedChecks
    BY DEF FailedChecks, MaeCheck
  <2>2. {"load", "latest", "fill", "history", "append", "idle"} \subseteq RunPcs
    BY DEF RunPcs, ReportSteps
  <2>3. CASE StartRun \/ Load
    BY <2>1, <2>2, <2>3 DEF StartRun, Load
  <2>4. CASE EmptyLatest \/ FillLatest \/ CreateHistoryFile \/ RunFails
    BY <2>2, <2>4, GotoMoves DEF EmptyLatest, FillLatest, CreateHistoryFile, RunFails
  <2> QED
    BY <2>3, <2>4
<1> QED
  BY <1>1, <1>2, QuietKeeps DEF RequestInv

(* A new report keeps the invariant, since it is added between two         *)
(* request tasks only.                                                     *)
LEMMA AppendKeeps ==
    ASSUME RequestInv, NEW report \in FailedChecks,
           history' = Newest(Append(history, report)), UNCHANGED <<latch, requested>>,
           \/ run' = run /\ run.pc \in {"idle", "done"}
           \/ run' = [pc |-> "decide", report |-> {}]
    PROVE  RequestInv'
<1>1. Append(history, report) \in Seq(FailedChecks)
  BY DEF RequestInv
<1>2. history' \in Seq(FailedChecks) /\ Len(history') <= HistoryBound
  BY <1>1, NewestType
<1>3. /\ run' \in [pc : RunPcs, report : FailedChecks]
      /\ run'.pc \notin {"latch", "trigger"}
  BY DEF RequestInv, RunPcs, RequestSteps, FailedChecks
<1> QED
  BY <1>2, <1>3, QuietKeeps

(* The decision keeps the invariant: the latch is only reached without     *)
(* one, after two failed windows.                                          *)
LEMMA DecideKeeps ==
    ASSUME RequestInv, Decide
    PROVE  RequestInv'
<1> DEFINE next == IF RequestDue /\ ~AlreadyRequested THEN "latch" ELSE "done"
<1>1. UNCHANGED <<history, latch, requested>>
  BY DEF Decide, ReportVars
<1>2. next \in RunPcs
  BY DEF RunPcs, RequestSteps
<1>3. run' \in [pc : RunPcs, report : FailedChecks] /\ run'.pc = next
  BY <1>2, GotoMoves DEF Decide
<1>4. CASE RequestDue /\ ~latch
  <2>1. FailingTwice'
    BY <1>1, <1>4, DueFailsTwice DEF FailingTwice
  <2> QED
    BY <1>1, <1>3, <1>4, <2>1 DEF RequestInv, At, AlreadyRequested
<1>5. CASE ~(RequestDue /\ ~latch)
  BY <1>1, <1>3, <1>5, QuietKeeps DEF RequestInv, AlreadyRequested
<1> QED
  BY <1>4, <1>5

(* Writing the latch keeps the invariant: nothing was requested before.    *)
LEMMA WriteLatchKeeps ==
    ASSUME RequestInv, WriteLatch
    PROVE  RequestInv'
<1>1. run' \in [pc : RunPcs, report : FailedChecks] /\ run'.pc = "trigger"
  BY GotoMoves DEF WriteLatch, RunPcs, RequestSteps
<1>2. requested = 0 /\ FailingTwice
  BY DEF WriteLatch, RequestInv
<1>3. UNCHANGED <<history, requested>> /\ latch' = TRUE
  BY DEF WriteLatch, ReportVars
<1>4. FailingTwice'
  BY <1>2, <1>3 DEF FailingTwice
<1> QED
  BY <1>1, <1>2, <1>3, <1>4 DEF RequestInv, At

(* The trigger keeps the invariant: it is the first.                       *)
LEMMA TriggerKeeps ==
    ASSUME RequestInv, TriggerCandidate
    PROVE  RequestInv'
<1>1. run' \in [pc : RunPcs, report : FailedChecks] /\ run'.pc = "done"
  BY GotoMoves DEF TriggerCandidate, RunPcs
<1>2. requested' = 1 /\ latch' = latch /\ latch /\ history' = history
  BY DEF TriggerCandidate, RequestInv, ReportVars
<1> QED
  BY <1>1, <1>2 DEF RequestInv, At

(* A task that dies keeps the invariant, with the trigger made or not.     *)
LEMMA DeathKeeps ==
    ASSUME RequestInv, TaskDies
    PROVE  RequestInv'
<1>1. /\ run' \in [pc : RunPcs, report : FailedChecks]
      /\ run'.pc \in {"load", "decide", "idle"}
  BY DEF TaskDies, RunPcs, ReportSteps, RequestSteps, FailedChecks
<1>2. UNCHANGED <<history, latch>>
  BY DEF TaskDies
<1>3. \/ requested' = requested
      \/ At("trigger") /\ requested' = requested + 1
  BY DEF TaskDies
<1>4. CASE requested' = requested
  BY <1>1, <1>2, <1>4, QuietKeeps DEF RequestInv
<1>5. CASE At("trigger") /\ requested' = requested + 1
  <2>1. latch' /\ requested' = 1
    BY <1>2, <1>5 DEF RequestInv
  <2> QED
    BY <1>1, <1>2, <2>1 DEF RequestInv, At
<1> QED
  BY <1>3, <1>4, <1>5

(* Every step of the scheduled run and of its surroundings keeps the       *)
(* invariant.                                                              *)
LEMMA ScheduledKeeps ==
    ASSUME RequestInv, Scheduled
    PROVE  RequestInv'
<1>1. CASE RunAdvances
  <2>1. CASE FillHistoryFile
    <3>1. run.report \in FailedChecks
      BY DEF RequestInv
    <3> QED
      BY <2>1, <3>1, AppendKeeps DEF FillHistoryFile
  <2> QED
    BY <1>1, <2>1, ReportTaskKeeps, DecideKeeps, WriteLatchKeeps, TriggerKeeps
    DEF RunAdvances
<1>2. CASE TaskDies
  BY <1>2, DeathKeeps
<1>3. CASE WindowMoves \/ RecordOutcome
  BY <1>3, StillKeeps DEF WindowMoves, RecordOutcome, ReportVars
<1>4. CASE Drill
  <2>1. PICK report \in Drills : history' = Newest(Append(history, report))
    BY <1>4 DEF Drill
  <2>2. report \in FailedChecks
    BY <2>1, DrillAssumption
  <2> QED
    BY <1>4, <2>1, <2>2, AppendKeeps DEF Drill
<1> QED
  BY <1>1, <1>2, <1>3, <1>4 DEF Scheduled, ScheduledRun

(* Who ingests or reads does not touch the monitoring run.                 *)
LEMMA OthersKeep ==
    ASSUME RequestInv, UNCHANGED vars \/ Read \/ \E c \in Clients : Ingest(c)
    PROVE  UNCHANGED <<run, history, latch, requested>>
BY DEF vars, Read, Ingest, monitoringVars, ReportVars

(* The latch makes the trigger reachable once: without it nothing was      *)
(* requested, and with it only the task that wrote it is on the way to     *)
(* the trigger.                                                            *)
THEOREM RequestInvariant == Spec => []RequestInv
<1>1. OperationsInit => RequestInv
  BY RequestStarts
<1>2. RequestInv /\ [Next]_vars => RequestInv'
  BY ScheduledKeeps, OthersKeep, StillKeeps DEF Next, Monitor
<1> QED
  BY <1>1, <1>2, PTL DEF Spec

(* However often its task is killed and repeated, and whatever reports are *)
(* put into the history by hand, one candidate run is triggered.           *)
THEOREM OneRequest == Spec => []RequestedOnce
<1>1. RequestInv => RequestedOnce
  BY DEF RequestInv, RequestedOnce
<1> QED
  BY <1>1, RequestInvariant, PTL

(* It is triggered while the two newest reports both failed.               *)
THEOREM RequestsAreDue == Spec => OnlyRepeatedFailuresRequest
<1>1. RequestInv /\ [Next]_vars => [requested' # requested => FailingTwice]_requested
  <2> SUFFICES ASSUME RequestInv, [Next]_vars, requested' # requested
               PROVE  FailingTwice
    OBVIOUS
  <2>1. Monitor
    BY OthersKeep DEF Next
  <2>2. At("trigger")
    BY <2>1 DEF Monitor, Scheduled, ScheduledRun, RunAdvances, TaskDies, WindowMoves,
                RecordOutcome, Drill, StartRun, Load, EmptyLatest, FillLatest,
                CreateHistoryFile, FillHistoryFile, Decide, WriteLatch,
                TriggerCandidate, RunFails
  <2> QED
    BY <2>2 DEF RequestInv
<1> QED
  BY <1>1, RequestInvariant, PTL DEF Spec, OnlyRepeatedFailuresRequest

-----------------------------------------------------------------------------
(* What is read while others write.  A detail is put together from three   *)
(* statements; its parts fit because rows, issues and predictions are only *)
(* ever added, and because no prediction is degraded whose row is not.     *)

(* The tables between statements.  The bound says that telemetry is        *)
(* finite, as far as its latest row needs it.                              *)
StoredWell ==
    /\ conflict_issues \subseteq Message /\ openers \subseteq Message
    /\ predictions \subseteq PredictionRow
    /\ \A p \in predictions : p.status = "degraded" => p.event_id \in degraded
    /\ \E bound \in Nat : \A t \in telemetry : t.cycle <= bound /\ Timestamp[t] <= bound

(* What a detail in the making has read, and what of it is still true.     *)
DetailRead ==
    /\ DetailTypeOK
    /\ \A t, u \in detail.latest : t = u
    /\ detail.latest \subseteq telemetry
    /\ \A t \in detail.latest : detail.prediction \subseteq PredictionsOf(t)
    /\ detail.latest = {} => detail.prediction = {}

DetailInv ==
    /\ DetailRead
    /\ detail.pc \in {"issues", "done"} =>
          \A t \in detail.latest, p \in detail.prediction :
              Valid(p) => \E u \in detail.last_valid : u.cycle >= t.cycle
    /\ detail.pc = "done" =>
          \A t \in detail.latest, p \in detail.prediction :
              LET gap_listed == <<"cycle_gap", t.event_id>> \in detail.issues IN
              /\ "cycle_gap" \in FlagsOf(p) => gap_listed
              /\ detail.health = "degraded" =>
                    gap_listed \/ "ordering_window_expired" \in FlagsOf(p)

ReadsInv == StoredWell /\ DetailInv

(* Numbers that do not exceed a bound have a greatest one.                 *)
LEMMA GreatestMember ==
    ASSUME NEW S \in SUBSET Nat, S # {}, NEW bound \in Nat, \A s \in S : s <= bound
    PROVE  \E s \in S : \A r \in S : r <= s
<1> DEFINE Bounds == {b \in Nat : \A s \in S : s <= b}
<1>1. PICK b \in Bounds : \A c \in Bounds : b <= c
  <2>1. PICK b \in Bounds : \A c \in Bounds : <<c, b>> \notin OpToRel(<, Nat)
    BY NatLessThanWellFounded, WFMin
  <2>2. \A c \in Bounds : ~(c < b)
    BY <2>1 DEF OpToRel
  <2> QED
    BY <2>2
<1>2. b \in S
  <2> SUFFICES ASSUME b \notin S PROVE FALSE
    OBVIOUS
  <2>1. \A s \in S : s \in Nat /\ s < b
    BY <1>1
  <2>2. PICK s \in S : s \in Nat /\ s < b
    BY <2>1
  <2>3. b - 1 \in Bounds
    <3>1. b \in Nat /\ b - 1 \in Nat
      BY <2>2
    <3>2. \A r \in S : r <= b - 1
      BY <2>1, <3>1
    <3> QED
      BY <3>1, <3>2
  <2> QED
    BY <1>1, <2>3
<1> QED
  BY <1>1, <1>2

(* ORDER BY cycle DESC, event_timestamp DESC finds a row if there is one:  *)
(* what LatestRow chooses exists.                                          *)
LEMMA LatestRowIsLatest ==
    ASSUME telemetry \subseteq Message, StoredWell, NEW e, EngineRows(e) # {}
    PROVE  /\ LatestRow(e) \in EngineRows(e)
           /\ \A u \in EngineRows(e) :
                 \/ LatestRow(e).cycle > u.cycle
                 \/ LatestRow(e).cycle = u.cycle /\ Timestamp[LatestRow(e)] >= Timestamp[u]
<1>1. PICK bound \in Nat : \A t \in telemetry : t.cycle <= bound /\ Timestamp[t] <= bound
  BY DEF StoredWell
<1>2. \A t \in EngineRows(e) :
         /\ t.cycle \in Nat /\ t.cycle <= bound
         /\ Timestamp[t] \in Nat /\ Timestamp[t] <= bound
  BY <1>1, CyclesAreNumbers, TimestampAssumption DEF EngineRows
<1> DEFINE cycles == {t.cycle : t \in EngineRows(e)}
<1>3. PICK top \in cycles : \A c \in cycles : c <= top
  <2>1. cycles \in SUBSET Nat /\ cycles # {} /\ \A c \in cycles : c <= bound
    BY <1>2
  <2> HIDE DEF cycles
  <2> QED
    BY <2>1, GreatestMember
<1> DEFINE times == {Timestamp[t] : t \in {u \in EngineRows(e) : u.cycle = top}}
<1>4. PICK newest \in times : \A time \in times : time <= newest
  <2>1. times \in SUBSET Nat /\ times # {} /\ \A time \in times : time <= bound
    BY <1>2, <1>3
  <2> HIDE DEF times
  <2> QED
    BY <2>1, GreatestMember
<1>5. PICK t \in EngineRows(e) : t.cycle = top /\ Timestamp[t] = newest
  BY <1>4
<1>6. ASSUME NEW u \in EngineRows(e)
      PROVE  t.cycle > u.cycle \/ (t.cycle = u.cycle /\ Timestamp[t] >= Timestamp[u])
  <2>1. u.cycle \in cycles /\ u.cycle <= top
    BY <1>3
  <2>2. CASE u.cycle = top
    <3>1. Timestamp[u] \in times
      BY <2>2
    <3> QED
      BY <1>2, <1>4, <1>5, <2>2, <3>1
  <2>3. CASE u.cycle # top
    BY <1>2, <1>5, <2>1, <2>3
  <2> QED
    BY <2>2, <2>3
<1> QED
  BY <1>5, <1>6 DEF LatestRow

(* What inference returns is a prediction row.                             *)
LEMMA ScoreType ==
    ASSUME NEW c \in Clients, tx[c].event \in Message
    PROVE  ScoreOf(c) \in PredictionRow
<1> DEFINE m == tx[c].event
<1>1. <<>> \in Seq(Flag) /\ "cycle_gap" \in Flag /\ "ordering_window_expired" \in Flag
      /\ "feature_build_error" \in Flag
  BY DEF Flag
<1>2. Extend(<<>>, m.event_id \in gap_issues, "cycle_gap") \in Seq(Flag)
  BY <1>1, ExtendType
<1>3. StoredFlags(m.event_id) \in Seq(Flag)
  BY <1>1, <1>2, ExtendType DEF StoredFlags
<1>4. Flags(c) \in Seq(Flag)
  <2>1. Extend(StoredFlags(m.event_id), tx[c].expired, "ordering_window_expired") \in Seq(Flag)
    BY <1>1, <1>3, ExtendType
  <2> QED
    BY <1>1, <2>1, ExtendType DEF Flags
<1>5. Extend(Flags(c), TRUE, "feature_build_error") \in Seq(Flag)
  BY <1>1, <1>4, ExtendType
<1>6. m.event_id \in EventIds
  BY DEF EventIds
<1> QED
  BY <1>4, <1>5, <1>6 DEF ScoreOf, PredictionRow

(* A first copy is scored as degraded for its flush or its gap.            *)
LEMMA FirstStatus ==
    ASSUME IngestInv, NEW c \in Clients, tx[c].pc = "inserted",
           ScoreOf(c).status = "degraded"
    PROVE  tx[c].expired \/ tx[c].gap
<1> DEFINE m == tx[c].event
<1>1. /\ m.event_id \notin gap_issues /\ m.event_id \notin expired_issues
      /\ m.event_id \notin degraded
  BY DEF IngestInv, KeysHeld, TablesAgree
<1>2. StoredFlags(m.event_id) = <<>>
  BY <1>1 DEF StoredFlags, Extend
<1>3. Flags(c) # <<>>
  BY <1>1 DEF ScoreOf
<1> QED
  BY <1>2, <1>3 DEF Flags, Extend

(* Of two bounds one covers both.                                          *)
LEMMA BoundOfMore ==
    ASSUME telemetry \subseteq Message, NEW m \in Message,
           \E bound \in Nat : \A t \in telemetry : t.cycle <= bound /\ Timestamp[t] <= bound
    PROVE  \E bound \in Nat :
              \A t \in telemetry \cup {m} : t.cycle <= bound /\ Timestamp[t] <= bound
<1>1. PICK bound \in Nat : \A t \in telemetry : t.cycle <= bound /\ Timestamp[t] <= bound
  OBVIOUS
<1>2. \A t \in Message : t.cycle \in Nat /\ Timestamp[t] \in Nat
  BY CyclesAreNumbers, TimestampAssumption
<1> DEFINE more == bound + m.cycle + Timestamp[m]
<1>3. more \in Nat /\ bound <= more /\ m.cycle <= more /\ Timestamp[m] <= more
  BY <1>2
<1> HIDE DEF more
<1>4. \A t \in telemetry \cup {m} : t.cycle <= more /\ Timestamp[t] <= more
  <2> TAKE t \in telemetry \cup {m}
  <2>1. CASE t \in telemetry
    BY <1>1, <1>2, <1>3, <2>1
  <2>2. CASE t = m
    BY <1>3, <2>2
  <2> QED
    BY <2>1, <2>2
<1> QED
  BY <1>3, <1>4

-----------------------------------------------------------------------------
(* The steps.                                                              *)

(* Without rows, the tables are well typed and every detail is to be read. *)
LEMMA ReadsStart == OperationsInit => ReadsInv
<1> SUFFICES ASSUME OperationsInit PROVE ReadsInv
  OBVIOUS
<1>1. StoredWell
  <2>1. 0 \in Nat
    OBVIOUS
  <2> QED
    BY <2>1 DEF OperationsInit, IngestInit, StoreInit, StoredWell
<1>2. DetailInv
  BY DEF OperationsInit, DetailInv, DetailRead, DetailTypeOK, NoDetail
<1> QED
  BY <1>1, <1>2 DEF ReadsInv

(* Only a commit, of a row or of a refusal, changes the tables, and        *)
(* whatever it changes, it adds.                                           *)
LEMMA StatementStores ==
    ASSUME IngestInv, StoredWell, NEW c \in Clients, Statement(c)
    PROVE  /\ StoredWell'
           /\ telemetry \subseteq telemetry' /\ predictions \subseteq predictions'
<1>1. tx[c].pc # "idle" => tx[c].event \in Message
  BY EventInHand DEF IngestInv
<1>2. telemetry \subseteq Message
  BY DEF IngestInv, TxTypeOK
<1>3. CASE ReadLatestCycle(c)
  <2>1. tx[c].event \in Message
    BY <1>1, <1>3 DEF ReadLatestCycle
  <2> QED
    BY <1>3, <2>1 DEF ReadLatestCycle, storeVars, StoredWell
<1>4. CASE InsertRow(c) \/ Rollback(c) \/ RecordExpired(c) \/ FailToRecord(c)
  BY <1>4 DEF InsertRow, Rollback, RecordExpired, FailToRecord, RecordOrderingWindowExpired,
              storeVars, StoredWell
<1>5. CASE CommitRefusal(c)
  <2>1. tx[c].event \in Message
    BY <1>1, <1>5 DEF CommitRefusal
  <2> QED
    BY <1>5, <2>1 DEF CommitRefusal, StoredWell
<1>6. CASE CommitRepeat(c)
  <2>1. predictions' = predictions
    BY <1>6, RepeatScores
  <2> QED
    BY <1>6, <2>1 DEF CommitRepeat, StoredWell
<1>7. CASE CommitInsert(c)
  <2> DEFINE m == tx[c].event
  <2>1. m \in Message /\ tx[c].pc = "inserted"
    BY <1>1, <1>7 DEF CommitInsert
  <2>2. /\ telemetry' = telemetry \cup {m}
        /\ degraded' = IF tx[c].expired \/ tx[c].gap
                         THEN degraded \cup {m.event_id} ELSE degraded
        /\ predictions' = IF Inference THEN predictions \cup {ScoreOf(c)} ELSE predictions
        /\ UNCHANGED <<conflict_issues, openers>>
    BY <1>7 DEF CommitInsert, ScoreEvent
  <2>3. ScoreOf(c) \in PredictionRow
    BY <2>1, ScoreType
  <2>4. ScoreOf(c).status = "degraded" => ScoreOf(c).event_id \in degraded'
    BY <2>1, <2>2, FirstStatus, FirstScore
  <2>5. \E bound \in Nat : \A t \in telemetry' : t.cycle <= bound /\ Timestamp[t] <= bound
    BY <1>2, <2>1, <2>2, BoundOfMore DEF StoredWell
  <2>6. predictions' \subseteq PredictionRow
    BY <2>2, <2>3 DEF StoredWell
  <2>7. \A p \in predictions' : p.status = "degraded" => p.event_id \in degraded'
    BY <2>2, <2>4 DEF StoredWell
  <2> QED
    BY <2>2, <2>5, <2>6, <2>7 DEF StoredWell
<1> QED
  BY <1>3, <1>4, <1>5, <1>6, <1>7 DEF Statement

(* A request changes no table.                                             *)
LEMMA IngestStores ==
    ASSUME IngestInv, StoredWell, NEW c \in Clients, Ingest(c)
    PROVE  /\ StoredWell'
           /\ telemetry \subseteq telemetry' /\ predictions \subseteq predictions'
<1>1. CASE Statement(c)
  BY <1>1, StatementStores
<1>2. CASE \E m \in Offered, expired \in BOOLEAN : Request(c, m, expired)
  BY <1>2 DEF Request, storeVars, StoredWell
<1> QED
  BY <1>1, <1>2 DEF Ingest

(* What has been read of tables that only grow stays true.                 *)
LEMMA DetailSurvives ==
    ASSUME DetailInv, detail' = detail,
           telemetry \subseteq telemetry', predictions \subseteq predictions'
    PROVE  DetailInv'
<1>1. DetailRead'
  BY DEF DetailInv, DetailRead, DetailTypeOK, PredictionsOf
<1> QED
  BY <1>1 DEF DetailInv, Valid, FlagsOf

(* The first statement: the latest row and its prediction.                 *)
LEMMA ReadCurrentKeeps ==
    ASSUME IngestInv, ReadsInv, NEW e \in Engines, ReadCurrent(e)
    PROVE  DetailInv'
<1> DEFINE t == LatestRow(e)
<1>1. UNCHANGED <<telemetry, predictions>>
  BY DEF ReadCurrent, storeVars
<1>2. telemetry \subseteq Message
  BY DEF IngestInv, TxTypeOK
<1>3. t \in EngineRows(e)
  BY <1>2, LatestRowIsLatest DEF ReadCurrent, ReadsInv
<1>4. t \in telemetry
  BY <1>3 DEF EngineRows
<1>5. PredictionsOf(t) \subseteq predictions /\ predictions \subseteq PredictionRow
  BY DEF PredictionsOf, ReadsInv, StoredWell
<1>6. detail' = [pc |-> "last_valid", latest |-> {t}, prediction |-> PredictionsOf(t),
                 last_valid |-> {}, issues |-> {}, health |-> "unavailable"]
  BY DEF ReadCurrent, NoDetail
<1> HIDE DEF t
<1>7. DetailTypeOK'
  BY <1>2, <1>4, <1>5, <1>6 DEF DetailTypeOK
<1>8. DetailRead'
  BY <1>1, <1>4, <1>6, <1>7 DEF DetailRead, PredictionsOf
<1> QED
  BY <1>6, <1>8 DEF DetailInv

(* The second: the last row with a value is not older than the first       *)
(* statement's, if that had one.                                           *)
LEMMA ReadLastValidKeeps ==
    ASSUME IngestInv, ReadsInv, ReadLastValid
    PROVE  DetailInv'
<1>1. UNCHANGED <<telemetry, predictions>>
  BY DEF ReadLastValid, storeVars
<1>2. telemetry \subseteq Message
  BY DEF IngestInv, TxTypeOK
<1>3. PICK e \in Subject :
         \/ ValidRows(e) = {} /\ detail' = [detail EXCEPT !.pc = "issues"]
         \/ \E t \in ValidRows(e) :
               /\ \A u \in ValidRows(e) : t.cycle >= u.cycle
               /\ detail' = [detail EXCEPT !.pc = "issues", !.last_valid = {t}]
  BY DEF ReadLastValid
<1>4. ValidRows(e) \subseteq Message
  BY <1>2 DEF ValidRows, EngineRows
<1>5. /\ detail'.pc = "issues" /\ detail'.latest = detail.latest
      /\ detail'.prediction = detail.prediction
      /\ DetailTypeOK'
  <2>1. DetailTypeOK
    BY DEF ReadsInv, DetailInv, DetailRead
  <2>2. CASE detail' = [detail EXCEPT !.pc = "issues"]
    BY <2>1, <2>2 DEF DetailTypeOK
  <2>3. ASSUME NEW t \in Message,
               detail' = [detail EXCEPT !.pc = "issues", !.last_valid = {t}]
        PROVE  /\ detail'.pc = "issues" /\ detail'.latest = detail.latest
               /\ detail'.prediction = detail.prediction
               /\ DetailTypeOK'
    BY <2>1, <2>3 DEF DetailTypeOK
  <2> QED
    BY <1>3, <1>4, <2>2, <2>3
<1>6. DetailRead'
  BY <1>1, <1>5 DEF ReadsInv, DetailInv, DetailRead, PredictionsOf
<1>7. ASSUME NEW t \in detail.latest, NEW p \in detail.prediction, Valid(p)
      PROVE  \E u \in detail'.last_valid : u.cycle >= t.cycle
  <2>1. t \in telemetry /\ p \in PredictionsOf(t)
    BY <1>7 DEF ReadsInv, DetailInv, DetailRead
  <2>2. t.engine_id = e
    BY <1>3, <1>7 DEF Subject, ReadsInv, DetailInv, DetailRead
  <2>3. t \in ValidRows(e)
    BY <1>7, <2>1, <2>2 DEF ValidRows, EngineRows
  <2>4. PICK u \in ValidRows(e) :
           /\ u.cycle >= t.cycle
           /\ detail' = [detail EXCEPT !.pc = "issues", !.last_valid = {u}]
    BY <1>3, <2>3
  <2>5. u \in detail'.last_valid
    BY <2>4 DEF ReadsInv, DetailInv, DetailRead, DetailTypeOK
  <2> QED
    BY <2>4, <2>5
<1> QED
  BY <1>5, <1>6, <1>7 DEF DetailInv, Valid

(* The third: a flagged prediction's gap issue is listed.                  *)
LEMMA ReadIssuesKeeps ==
    ASSUME IngestInv, ReadsInv, ReadIssues
    PROVE  DetailInv'
<1>1. UNCHANGED storeVars /\ UNCHANGED <<telemetry, predictions>>
  BY DEF ReadIssues, storeVars
<1>2. PICK e \in Subject, stale \in BOOLEAN :
         detail' = [detail EXCEPT !.pc = "done", !.issues = ListedIssues(e),
                                  !.health = Health(detail.prediction, stale)]
  BY DEF ReadIssues
<1> DEFINE health == Health(detail.prediction, stale)
           issues == ListedIssues(e)
<1>3. health \in {"unavailable", "withheld", "stale", "degraded", "current"}
  BY DEF Health
<1>4. issues \subseteq AnyIssue
  <2>1. StoredIds \subseteq EventIds
    BY DEF StoredIds, EventIds, IngestInv, TxTypeOK
  <2>2. IssueRows \subseteq AnyIssue
    BY <2>1 DEF IssueRows, AnyIssue, IngestInv, TablesAgree, ReadsInv, StoredWell
  <2> QED
    BY <2>2 DEF ListedIssues
<1>5. health = "degraded" => \E p \in detail.prediction : p.status = "degraded"
  BY DEF Health
<1>6. ASSUME NEW t \in detail.latest, NEW p \in detail.prediction
      PROVE  /\ "cycle_gap" \in FlagsOf(p) => <<"cycle_gap", t.event_id>> \in issues
             /\ health = "degraded" =>
                   \/ <<"cycle_gap", t.event_id>> \in issues
                   \/ "ordering_window_expired" \in FlagsOf(p)
  <2>1. t \in telemetry
        /\ \A q \in detail.prediction : q \in predictions /\ q.event_id = t.event_id
    BY <1>6 DEF ReadsInv, DetailInv, DetailRead, PredictionsOf
  <2>2. t \in EngineRows(e)
    BY <1>2, <1>6, <2>1 DEF Subject, EngineRows, ReadsInv, DetailInv, DetailRead
  <2>3. t.event_id \in gap_issues => <<"cycle_gap", t.event_id>> \in issues
    BY <2>2 DEF ListedIssues, IssueRows
  <2> HIDE DEF health, issues
  <2>4. "cycle_gap" \in FlagsOf(p) => <<"cycle_gap", t.event_id>> \in issues
    BY <2>1, <2>3 DEF IngestInv, ScoredAsStored
  <2>5. ASSUME health = "degraded"
        PROVE  "cycle_gap" \in FlagsOf(p) \/ "ordering_window_expired" \in FlagsOf(p)
    <3>1. t.event_id \in degraded
      BY <1>5, <2>1, <2>5 DEF ReadsInv, StoredWell
    <3>2. FlagsOf(p) \ {"feature_build_error"} # {}
      BY <2>1, <3>1 DEF IngestInv, ScoredAsStored
    <3>3. p.quality_flags \in Seq(Flag)
      BY <2>1 DEF ReadsInv, StoredWell, PredictionRow
    <3> QED
      BY <3>2, <3>3, QualityFlagged DEF FlagsOf, HasFlag
  <2> QED
    BY <2>4, <2>5
<1>7. /\ detail' = [detail EXCEPT !.pc = "done", !.issues = issues, !.health = health]
      /\ DetailTypeOK
  BY <1>2 DEF ReadsInv, DetailInv, DetailRead
<1> HIDE DEF health, issues
<1>8. /\ detail'.pc = "done" /\ detail'.latest = detail.latest
      /\ detail'.prediction = detail.prediction /\ detail'.last_valid = detail.last_valid
      /\ detail'.issues = issues /\ detail'.health = health
      /\ DetailTypeOK'
  BY <1>3, <1>4, <1>7 DEF DetailTypeOK
<1>9. DetailRead'
  BY <1>1, <1>8 DEF ReadsInv, DetailInv, DetailRead, PredictionsOf
<1>10. detail.pc = "issues"
  BY DEF ReadIssues
<1>11. \A t \in detail'.latest, p \in detail'.prediction :
          Valid(p) => \E u \in detail'.last_valid : u.cycle >= t.cycle
  BY <1>8, <1>10 DEF ReadsInv, DetailInv
<1> QED
  BY <1>6, <1>8, <1>9, <1>11 DEF DetailInv, Valid, FlagsOf

(* Every step keeps what the reads rest on.                                *)
LEMMA StepKeepsReads ==
    ASSUME IngestInv, ReadsInv, [Next]_vars
    PROVE  ReadsInv'
<1>1. CASE UNCHANGED <<storeVars, openers, detail>>
  <2>1. StoredWell'
    BY <1>1 DEF ReadsInv, StoredWell, storeVars
  <2> QED
    BY <1>1, <2>1, DetailSurvives DEF ReadsInv, storeVars
<1>2. ASSUME NEW c \in Clients, Ingest(c) PROVE ReadsInv'
  BY <1>2, IngestStores, DetailSurvives DEF Ingest, ReadsInv
<1>3. CASE Read
  <2>1. StoredWell'
    BY <1>3 DEF Read, ReadDetail, ReadCurrent, ReadLastValid, ReadIssues, Answered,
                storeVars, ReadsInv, StoredWell
  <2>2. CASE Answered
    <3>1. detail' = NoDetail
      BY <2>2 DEF Answered
    <3>2. NoDetail \in [pc : {"idle", "last_valid", "issues", "done"},
                latest : SUBSET Message, prediction : SUBSET PredictionRow,
                last_valid : SUBSET Message, issues : SUBSET AnyIssue,
                health : {"unavailable", "withheld", "stale", "degraded", "current"}]
      BY DEF NoDetail
    <3>3. DetailTypeOK'
      BY <3>1, <3>2 DEF DetailTypeOK
    <3>4. DetailRead'
      BY <3>1, <3>3 DEF DetailRead, NoDetail
    <3>5. DetailInv'
      BY <3>1, <3>4 DEF DetailInv, NoDetail
    <3> QED
      BY <2>1, <3>5 DEF ReadsInv
  <2> QED
    BY <1>3, <2>1, <2>2, ReadCurrentKeeps, ReadLastValidKeeps, ReadIssuesKeeps
    DEF Read, ReadDetail, ReadsInv
<1> QED
  BY <1>1, <1>2, <1>3 DEF Next, Monitor, vars, ingestVars, txVars

(* The reads' invariant holds whoever writes between their statements.     *)
THEOREM ReadsInvariant == Spec => []ReadsInv
<1>1. OperationsInit => ReadsInv
  BY ReadsStart
<1>2. IngestInv /\ ReadsInv /\ [Next]_vars => ReadsInv'
  BY StepKeepsReads
<1> QED
  BY <1>1, <1>2, OperationsKeepIngest, PTL DEF Spec

(* A detail's parts, read one after the other while events are ingested    *)
(* and scored, fit together.                                               *)
THEOREM DetailsFit == Spec => []DetailCoherent
<1>1. ReadsInv => DetailCoherent
  BY DEF ReadsInv, DetailInv, DetailCoherent, Valid
<1> QED
  BY <1>1, ReadsInvariant, PTL

(* The fleet view and the detail show one prediction for an engine whose   *)
(* cycles are distinct, though each finds it in its own way.               *)
THEOREM FleetShowsDetail == Spec => []FleetAgreesWithDetail
<1>1. IngestInv /\ ReadsInv => FleetAgreesWithDetail
  <2> SUFFICES ASSUME IngestInv, ReadsInv, NEW e \in Engines,
                      \A t, u \in EngineRows(e) : t.cycle = u.cycle => t = u,
                      NEW newest \in NewestScored(e)
               PROVE  FleetPrediction(e, newest) = PredictionsOf(LatestRow(e))
    BY DEF FleetAgreesWithDetail
  <2> DEFINE t == LatestRow(e)
  <2>1. newest \in EngineRows(e)
    BY DEF NewestScored
  <2>2. telemetry \subseteq Message
    BY DEF IngestInv, TxTypeOK
  <2>3. /\ t \in EngineRows(e)
        /\ \A u \in EngineRows(e) : t.cycle > u.cycle \/ t.cycle = u.cycle
    BY <2>1, <2>2, LatestRowIsLatest DEF ReadsInv
  <2>4. \A u \in EngineRows(e) : u.cycle \in Nat
    BY <2>2, CyclesAreNumbers DEF EngineRows
  <2> HIDE DEF t
  <2>5. Scored(t) => newest = t
    <3> SUFFICES ASSUME Scored(t) PROVE newest = t
      OBVIOUS
    <3>1. newest.cycle >= t.cycle
      BY <2>3 DEF NewestScored
    <3>2. newest.cycle = t.cycle
      BY <2>1, <2>3, <2>4, <3>1
    <3> QED
      BY <2>1, <2>3, <3>2
  <2>6. ASSUME NEW p \in predictions, p.event_id = t.event_id
        PROVE  newest = t
    BY <2>5, <2>6 DEF Scored
  <2> QED
    BY <2>6 DEF FleetPrediction, PredictionsOf, t
<1> QED
  BY <1>1, OperationsKeepIngest, ReadsInvariant, PTL

-----------------------------------------------------------------------------
(* Types, of what the monitoring run does not decide on.                   *)

Surroundings ==
    /\ window \in [recent : SUBSET EventIds, reference : SUBSET EventIds,
                   issues : SUBSET AnyIssue]
    /\ degraded_mae \in BOOLEAN /\ scheduled \in BOOLEAN /\ torn \in BOOLEAN
    /\ latest \in {"missing", "partial", "complete"}

(* Every step keeps the types of the window and the files.                 *)
LEMMA StepKeepsSurroundings ==
    ASSUME IngestInv', StoredWell', Surroundings, [Next]_vars
    PROVE  Surroundings'
<1>1. CASE UNCHANGED monitoringVars
  BY <1>1 DEF monitoringVars, ReportVars, Surroundings, AnyIssue, EventIds
<1>2. ASSUME NEW c \in Clients, Ingest(c) PROVE Surroundings'
  <2>1. StoredIds' \subseteq EventIds
    BY DEF StoredIds, EventIds, IngestInv, TxTypeOK
  <2>2. IssueRows' \subseteq AnyIssue
    BY <2>1 DEF IssueRows, AnyIssue, IngestInv, TablesAgree, StoredWell
  <2>3. window' = [window EXCEPT !.recent = @ \cup (StoredIds' \ StoredIds),
                                 !.issues = @ \cup (IssueRows' \ IssueRows)]
    BY <1>2 DEF Ingest, WindowFollowsStore
  <2>4. window' \in [recent : SUBSET EventIds, reference : SUBSET EventIds,
                     issues : SUBSET AnyIssue]
    BY <2>1, <2>2, <2>3 DEF Surroundings
  <2> QED
    BY <1>2, <2>4 DEF Ingest, Surroundings, ReportVars
<1>3. CASE Monitor
  <2>1. NextWindow \in [recent : SUBSET EventIds, reference : SUBSET EventIds,
                        issues : SUBSET AnyIssue]
    BY DEF NextWindow, Surroundings
  <2>2. (torn \/ At("append")) \in BOOLEAN
    OBVIOUS
  <2>3. CASE WindowMoves \/ RecordOutcome
    BY <2>1, <2>3 DEF WindowMoves, RecordOutcome, ReportVars, Surroundings
  <2>4. CASE TaskDies
    BY <2>2, <2>4 DEF TaskDies, Surroundings
  <2>5. CASE Drill \/ RunAdvances
    BY <2>5 DEF Drill, RunAdvances, StartRun, Load, EmptyLatest, FillLatest,
                CreateHistoryFile, FillHistoryFile, Decide, WriteLatch, TriggerCandidate,
                RunFails, ReportVars, Surroundings
  <2> QED
    BY <1>3, <2>3, <2>4, <2>5 DEF Monitor, Scheduled, ScheduledRun
<1> QED
  BY <1>1, <1>2, <1>3 DEF Next, Read, vars

(* Every table, transaction, detail and report stays well typed, whoever   *)
(* interleaves: the transactions score, read and count only what is there. *)
THEOREM TypeCorrect == Spec => []OperationsTypeOK
<1>1. OperationsInit => Surroundings
  <2>1. {} \in SUBSET EventIds /\ {} \in SUBSET AnyIssue
    OBVIOUS
  <2>2. MonitoringInit => window \in [recent : SUBSET EventIds, reference : SUBSET EventIds,
                                      issues : SUBSET AnyIssue]
    BY <2>1 DEF MonitoringInit
  <2>3. MonitoringInit =>
           /\ degraded_mae \in BOOLEAN /\ scheduled \in BOOLEAN /\ torn \in BOOLEAN
           /\ latest \in {"missing", "partial", "complete"}
    BY DEF MonitoringInit
  <2> QED
    BY <2>2, <2>3 DEF OperationsInit, Surroundings
<1>2. IngestInv' /\ ReadsInv' /\ Surroundings /\ [Next]_vars => Surroundings'
  BY StepKeepsSurroundings DEF ReadsInv
<1>3. IngestInv /\ ReadsInv /\ RequestInv /\ Surroundings => OperationsTypeOK
  <2> SUFFICES ASSUME IngestInv, ReadsInv, RequestInv, Surroundings
               PROVE  OperationsTypeOK
    OBVIOUS
  <2>1. IngestTypeOK
    <3>1. StoredIds \subseteq EventIds
      BY DEF StoredIds, EventIds, IngestInv, TxTypeOK
    <3>2. StoreTypeOK
      BY <3>1 DEF StoreTypeOK, IngestInv, TxTypeOK, TablesAgree, ReadsInv, StoredWell
    <3> QED
      BY <3>2 DEF IngestTypeOK, IngestInv, TxTypeOK, ReadsInv, StoredWell
  <2>2. DetailTypeOK
    BY DEF ReadsInv, DetailInv, DetailRead
  <2>3. history \in UNION {[1 .. n -> FailedChecks] : n \in 0 .. HistoryBound}
    <3>1. PICK n \in Nat : n = Len(history) /\ n <= HistoryBound
      BY DEF RequestInv
    <3>2. history \in [1 .. n -> FailedChecks] /\ n \in 0 .. HistoryBound
      BY <3>1 DEF RequestInv, HistoryBound
    <3> QED
      BY <3>2
  <2>4. requested \in 0 .. RequestBound
    BY DEF RequestInv, RequestBound
  <2>5. MonitoringTypeOK
    BY <2>3, <2>4 DEF MonitoringTypeOK, RequestInv, RunPcs, Surroundings
  <2> QED
    BY <2>1, <2>2, <2>5 DEF OperationsTypeOK
<1>4. Spec => []Surroundings
  BY <1>1, <1>2, OperationsKeepIngest, ReadsInvariant, PTL DEF Spec
<1> QED
  BY <1>3, <1>4, OperationsKeepIngest, ReadsInvariant, RequestInvariant, PTL

==============================================================================
