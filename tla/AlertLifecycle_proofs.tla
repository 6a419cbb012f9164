------------------------ MODULE AlertLifecycle_proofs ------------------------
(***************************************************************************)
(* What the alert table promises for any predictions, policy and number of *)
(* operators.  What an operator sees is either an old version of the alert *)
(* or the alert itself (ViewsOnce), which is why comparing versions is     *)
(* enough; the partial unique index keeps one active alert per key.        *)
(***************************************************************************)
EXTENDS AlertLifecycle, SequenceTheorems, TLAPS

AtMostOneActive(rows) ==
    \A i, j \in DOMAIN rows : ~rows[i].resolved /\ ~rows[j].resolved => i = j

(* A version of an alert has one content.                                  *)
ViewsOnce ==
    \A o \in Operators : views[o] # NoView =>
        LET row == alerts[views[o].key][views[o].number]
        IN  /\ views[o].row.version <= row.version
            /\ views[o].row.version = row.version => views[o].row = row

(* resolved_at and the state agree on which alerts are closed.             *)
Consistent(row) == row.resolved <=> row.state \in {"dismissed", "resolved"}

ClosedIsResolved ==
    \A k \in Keys : \A n \in DOMAIN alerts[k] : Consistent(alerts[k][n])

IInv == TypeOK /\ OneActivePerKey /\ ViewsOnce /\ ClosedIsResolved

-----------------------------------------------------------------------------
(* Facts about one key.                                                    *)

LEMMA SeverityType ==
    ASSUME NEW p \in Prediction, NEW k \in Keys
    PROVE  Severity(p, k) \in {"NONE", "WARNING", "CRITICAL"}
BY DEF Severity, QualitySeverity, RiskSeverity

(* A refresh makes a new version of the same alert, still active if it was.*)
LEMMA RefreshedRow ==
    ASSUME NEW row \in Row, NEW p \in Prediction,
           NEW severity \in {"WARNING", "CRITICAL"}
    PROVE  /\ Refreshed(row, p, severity) \in Row
           /\ Refreshed(row, p, severity).version = row.version + 1
           /\ Refreshed(row, p, severity).resolved = row.resolved
           /\ Refreshed(row, p, severity).state = row.state
           /\ Refreshed(row, p, severity).acknowledged_by = row.acknowledged_by
<1>1. p.event_id \in EventIds
  BY DEF EventIds
<1>2. row.version \in Nat \ {0} /\ row.version + 1 \in Nat \ {0}
  BY DEF Row
<1> QED
  BY <1>1, <1>2 DEF Refreshed, Row

(* A new alert is a well-typed open row at version 1.                      *)
LEMMA OpenedRow ==
    ASSUME NEW p \in Prediction, NEW severity \in {"WARNING", "CRITICAL"}
    PROVE  Opened(p, severity) \in Row /\ Consistent(Opened(p, severity))
<1>1. p.event_id \in EventIds
  BY DEF EventIds
<1> QED
  BY <1>1 DEF Opened, Row, Consistent

(* An upsert changes active alerts only, each into a newer version, and    *)
(* never makes a second one active.                                        *)
LEMMA UpsertedRows ==
    ASSUME NEW rows \in Seq(Row), NEW p \in Prediction,
           NEW severity \in {"NONE", "WARNING", "CRITICAL"}
    PROVE  LET new == Upserted(rows, p, severity)
           IN  /\ new \in Seq(Row)
               /\ DOMAIN rows \subseteq DOMAIN new
               /\ \A n \in DOMAIN rows :
                     \/ new[n] = rows[n]
                     \/ ~rows[n].resolved /\ new[n].version = rows[n].version + 1
               /\ AtMostOneActive(rows) => AtMostOneActive(new)
               /\ (\A n \in DOMAIN rows : Consistent(rows[n]))
                     => \A n \in DOMAIN new : Consistent(new[n])
<1> DEFINE new == Upserted(rows, p, severity)
<1>1. CASE severity = "NONE"
  <2>1. new = rows
    BY <1>1 DEF Upserted
  <2> QED
    BY <2>1
<1>2. CASE severity # "NONE" /\ \E n \in DOMAIN rows : Conflicting(rows[n])
  <2>1. severity \in {"WARNING", "CRITICAL"}
    BY <1>2
  <2>2. new = [n \in DOMAIN rows |->
                 IF Conflicting(rows[n]) THEN Refreshed(rows[n], p, severity)
                 ELSE rows[n]]
    BY <1>2 DEF Upserted
  <2>3. \A n \in DOMAIN rows :
           /\ rows[n] \in Row /\ new[n] \in Row
           /\ new[n].resolved = rows[n].resolved
           /\ Consistent(rows[n]) => Consistent(new[n])
           /\ \/ new[n] = rows[n]
              \/ ~rows[n].resolved /\ new[n].version = rows[n].version + 1
    <3> TAKE n \in DOMAIN rows
    <3>1. rows[n] \in Row
      OBVIOUS
    <3> QED
      BY <2>1, <2>2, <3>1, RefreshedRow DEF Conflicting, Consistent
  <2>4. DOMAIN rows = 1..Len(rows) /\ Len(rows) \in Nat
    OBVIOUS
  <2>5. new \in Seq(Row) /\ DOMAIN new = DOMAIN rows
    BY <2>2, <2>3, <2>4
  <2> QED
    BY <2>3, <2>5 DEF AtMostOneActive
<1>3. CASE severity # "NONE" /\ ~ \E n \in DOMAIN rows : Conflicting(rows[n])
  <2>1. /\ new = Append(rows, Opened(p, severity))
        /\ Opened(p, severity) \in Row /\ Consistent(Opened(p, severity))
    BY <1>3, OpenedRow DEF Upserted
  <2>2. /\ new \in Seq(Row) /\ DOMAIN new = 1..(Len(rows) + 1)
        /\ DOMAIN rows = 1..Len(rows) /\ Len(rows) \in Nat
        /\ \A n \in 1..Len(rows) : new[n] = rows[n]
        /\ Consistent(new[Len(rows) + 1])
    BY <2>1
  <2>3. \A n \in 1..Len(rows) : rows[n].resolved
    BY <1>3, <2>2 DEF Conflicting
  <2>4. \A n \in DOMAIN new : ~new[n].resolved => n = Len(rows) + 1
    BY <2>2, <2>3
  <2> QED
    BY <2>2, <2>4 DEF AtMostOneActive
<1> QED
  BY <1>1, <1>2, <1>3

(* An action makes a new version of the alert, and opens nothing.          *)
LEMMA TransitionedRow ==
    ASSUME NEW row \in Row, NEW o \in Operators, NEW action \in Actions
    PROVE  /\ Transitioned(row, o, action) \in Row
           /\ Transitioned(row, o, action).version = row.version + 1
           /\ row.resolved => Transitioned(row, o, action).resolved
           /\ ~row.resolved => Consistent(Transitioned(row, o, action))
<1> DEFINE by == IF action = "acknowledge" THEN o ELSE row.acknowledged_by
           closed == row.resolved \/ action \in {"dismiss", "resolve"}
<1>1. NewState[action] \in {"acknowledged", "dismissed", "resolved"}
  BY DEF Actions, NewState
<1>2. /\ by \in Operators \cup {NoOne}
      /\ row.version \in Nat \ {0} /\ row.version + 1 \in Nat \ {0}
  BY DEF Row
<1>3. /\ closed \in BOOLEAN /\ (row.resolved => closed)
      /\ ~row.resolved => (closed <=> NewState[action] \in {"dismissed", "resolved"})
  BY DEF Row, Actions, NewState
<1>4. Transitioned(row, o, action) =
        [row EXCEPT !.state = NewState[action], !.acknowledged_by = by,
                    !.resolved = closed, !.version = row.version + 1]
  BY DEF Transitioned
<1> HIDE DEF by, closed
<1> QED
  BY <1>1, <1>2, <1>3, <1>4 DEF Row, Consistent

(* What an enabled transition does to the alert number n of key k.         *)
TransitionOn(o, action, k, n) ==
    /\ views[o].key = k /\ views[o].number = n
    /\ views[o] # NoView
    /\ alerts[k][n] \in Row
    /\ views[o].row = alerts[k][n]
    /\ alerts[k][n].state \in {"open", "acknowledged"}
    /\ ~alerts[k][n].resolved
    /\ alerts' = [alerts EXCEPT ![k][n] = Transitioned(alerts[k][n], o, action)]
    /\ audit' = Append(audit, AuditEvent(views[o], alerts[k][n], o, action))
    /\ \/ views' = views
       \/ views' = [views EXCEPT ![o].row = Transitioned(alerts[k][n], o, action)]
    /\ evaluations' = evaluations

(* A transition changes one row, the one its operator has seen.            *)
LEMMA TransitionFacts ==
    ASSUME IInv, NEW o \in Operators, NEW action \in Actions, Transition(o, action)
    PROVE  \E k \in Keys : \E n \in DOMAIN alerts[k] : TransitionOn(o, action, k, n)
<1> DEFINE k == views[o].key
           n == views[o].number
<1>1. /\ views[o] # NoView /\ k \in Keys /\ n \in DOMAIN alerts[k]
      /\ alerts[k] \in Seq(Row)
  BY DEF Transition, IInv, TypeOK
<1>2. alerts[k][n] \in Row
  BY <1>1
<1>3. views[o].row.version = alerts[k][n].version
  BY DEF Transition
<1>4. views[o].row = alerts[k][n]
  BY <1>1, <1>3 DEF IInv, ViewsOnce
<1>5. alerts[k][n].state \in {"open", "acknowledged"}
  BY DEF Transition, Allowed
<1>6. ~alerts[k][n].resolved
  BY <1>1, <1>5 DEF IInv, ClosedIsResolved, Consistent
<1>7. /\ alerts' = [alerts EXCEPT ![k][n] = Transitioned(alerts[k][n], o, action)]
      /\ audit' = Append(audit, AuditEvent(views[o], alerts[k][n], o, action))
      /\ \/ views' = views
         \/ views' = [views EXCEPT ![o].row = Transitioned(alerts[k][n], o, action)]
      /\ evaluations' = evaluations
  BY DEF Transition
<1> QED
  BY <1>1, <1>2, <1>4, <1>5, <1>6, <1>7 DEF TransitionOn

-----------------------------------------------------------------------------
(* The inductive invariant.                                                *)

LEMMA InitIInv == Init => IInv
<1> SUFFICES ASSUME Init PROVE IInv
  OBVIOUS
<1>1. /\ alerts \in [Keys -> Seq(Row)] /\ audit \in Seq(AuditRow)
      /\ \A k \in Keys : alerts[k] = <<>>
  BY DEF Init
<1>2. /\ DOMAIN views = Operators /\ \A o \in Operators : views[o] = NoView
      /\ evaluations \in 0..MaxEvaluations
  BY AlertAssumption DEF Init
<1>3. TypeOK
  BY <1>1, <1>2 DEF TypeOK
<1>4. OneActivePerKey
  BY <1>1 DEF OneActivePerKey
<1>5. ClosedIsResolved
  BY <1>1 DEF ClosedIsResolved
<1> QED
  BY <1>2, <1>3, <1>4, <1>5 DEF IInv, ViewsOnce

(* persist_prediction_alerts_transaction keeps the invariant.              *)
LEMMA EvaluateIInv ==
    ASSUME IInv, NEW p \in Prediction, Evaluate(p)
    PROVE  IInv'
<1>1. \A k \in Keys :
         /\ alerts[k] \in Seq(Row)
         /\ alerts'[k] = Upserted(alerts[k], p, Severity(p, k))
         /\ Severity(p, k) \in {"NONE", "WARNING", "CRITICAL"}
  BY SeverityType DEF IInv, TypeOK, Evaluate
<1>2. \A k \in Keys :
         /\ alerts'[k] \in Seq(Row)
         /\ DOMAIN alerts[k] \subseteq DOMAIN alerts'[k]
         /\ \A n \in DOMAIN alerts[k] :
               \/ alerts'[k][n] = alerts[k][n]
               \/ alerts'[k][n].version = alerts[k][n].version + 1
         /\ AtMostOneActive(alerts[k]) => AtMostOneActive(alerts'[k])
         /\ (\A n \in DOMAIN alerts[k] : Consistent(alerts[k][n]))
               => \A n \in DOMAIN alerts'[k] : Consistent(alerts'[k][n])
  <2> TAKE k \in Keys
  <2> DEFINE rows == alerts[k]
             severity == Severity(p, k)
             new == Upserted(rows, p, severity)
  <2>1. alerts'[k] = new /\ rows \in Seq(Row)
        /\ severity \in {"NONE", "WARNING", "CRITICAL"}
    BY <1>1
  <2>2. /\ new \in Seq(Row)
        /\ DOMAIN rows \subseteq DOMAIN new
        /\ \A n \in DOMAIN rows :
              \/ new[n] = rows[n]
              \/ ~rows[n].resolved /\ new[n].version = rows[n].version + 1
        /\ AtMostOneActive(rows) => AtMostOneActive(new)
        /\ (\A n \in DOMAIN rows : Consistent(rows[n]))
              => \A n \in DOMAIN new : Consistent(new[n])
    <3> HIDE DEF rows, severity
    <3> QED
      BY <2>1, UpsertedRows
  <2> HIDE DEF new
  <2> QED
    BY <2>1, <2>2
<1>3. audit' = audit /\ views' = views /\ evaluations' \in 0..MaxEvaluations
  BY AlertAssumption DEF Evaluate, IInv, TypeOK
<1>4. alerts' \in [Keys -> Seq(Row)]
  <2>1. alerts' = [k \in Keys |-> Upserted(alerts[k], p, Severity(p, k))]
    BY DEF Evaluate
  <2> QED
    BY <1>2, <2>1
<1>5. TypeOK'
  BY <1>2, <1>3, <1>4 DEF IInv, TypeOK
<1>6. OneActivePerKey'
  BY <1>2 DEF IInv, OneActivePerKey, AtMostOneActive
<1>7. ViewsOnce'
  <2> SUFFICES ASSUME NEW o \in Operators, views[o] # NoView
               PROVE  LET row == alerts'[views[o].key][views[o].number]
                      IN  /\ views[o].row.version <= row.version
                          /\ views[o].row.version = row.version => views[o].row = row
    BY <1>3 DEF ViewsOnce
  <2> DEFINE old == alerts[views[o].key][views[o].number]
             new == alerts'[views[o].key][views[o].number]
  <2>1. /\ views[o].key \in Keys
        /\ views[o].number \in DOMAIN alerts[views[o].key]
        /\ views[o].row \in Row
    BY DEF IInv, TypeOK
  <2>2. old \in Row
    BY <1>1, <2>1
  <2>3. old.version \in Nat /\ views[o].row.version \in Nat
    BY <2>1, <2>2 DEF Row
  <2>4. /\ views[o].row.version <= old.version
        /\ views[o].row.version = old.version => views[o].row = old
    BY DEF IInv, ViewsOnce
  <2>5. new = old \/ new.version = old.version + 1
    BY <1>2, <2>1
  <2> QED
    BY <2>3, <2>4, <2>5
<1>8. ClosedIsResolved'
  BY <1>2 DEF IInv, ClosedIsResolved
<1> QED
  BY <1>5, <1>6, <1>7, <1>8 DEF IInv

(* Reading an alert keeps the invariant: what is seen is the current row.  *)
LEMMA ReadIInv ==
    ASSUME IInv, NEW o \in Operators, Read(o)
    PROVE  IInv'
<1>0. PICK key \in Keys : \E number \in DOMAIN alerts[key] :
         views' = [views EXCEPT ![o] = View(key, number)]
  BY DEF Read
<1>1. PICK number \in DOMAIN alerts[key] :
         views' = [views EXCEPT ![o] = View(key, number)]
  BY <1>0
<1>2. alerts' = alerts /\ audit' = audit /\ evaluations' = evaluations
  BY DEF Read
<1>3. alerts[key] \in Seq(Row) /\ alerts[key][number] \in Row
  BY DEF IInv, TypeOK
<1>4. number \in Nat \ {0}
  BY <1>3
<1>5. /\ View(key, number) \in [key : Keys, number : Nat \ {0}, row : Row]
      /\ View(key, number).key = key /\ View(key, number).number = number
      /\ View(key, number).row = alerts[key][number]
  BY <1>3, <1>4 DEF View
<1>6. /\ DOMAIN views' = Operators /\ views'[o] = View(key, number)
      /\ \A x \in Operators \ {o} : views'[x] = views[x]
  BY <1>1 DEF IInv, TypeOK
<1>7. TypeOK'
  BY <1>2, <1>5, <1>6 DEF IInv, TypeOK
<1>8. OneActivePerKey'
  BY <1>2 DEF IInv, OneActivePerKey
<1>9. ViewsOnce'
  <2>1. alerts[key][number].version <= alerts[key][number].version
    BY <1>3 DEF Row
  <2> QED
    BY <1>2, <1>5, <1>6, <2>1 DEF IInv, ViewsOnce
<1>10. ClosedIsResolved'
  BY <1>2 DEF IInv, ClosedIsResolved
<1> QED
  BY <1>7, <1>8, <1>9, <1>10 DEF IInv

(* transition_alert keeps the invariant.                                   *)
LEMMA TransitionIInv ==
    ASSUME IInv, NEW o \in Operators, NEW action \in Actions, Transition(o, action)
    PROVE  IInv'
<1>0. PICK k \in Keys : \E n \in DOMAIN alerts[k] : TransitionOn(o, action, k, n)
  BY TransitionFacts
<1>1. PICK n \in DOMAIN alerts[k] : TransitionOn(o, action, k, n)
  BY <1>0
<1>2. /\ views[o].key = k /\ views[o].number = n
      /\ views[o] # NoView
      /\ alerts[k][n] \in Row
      /\ alerts[k][n].state \in {"open", "acknowledged"}
      /\ ~alerts[k][n].resolved
      /\ alerts' = [alerts EXCEPT ![k][n] = Transitioned(alerts[k][n], o, action)]
      /\ audit' = Append(audit, AuditEvent(views[o], alerts[k][n], o, action))
      /\ \/ views' = views
         \/ views' = [views EXCEPT ![o].row = Transitioned(alerts[k][n], o, action)]
      /\ evaluations' = evaluations
  BY <1>1 DEF TransitionOn
<1> DEFINE old == alerts[k][n]
           new == Transitioned(old, o, action)
<1>3. /\ new \in Row /\ new.version = old.version + 1
      /\ old.resolved => new.resolved
      /\ Consistent(new)
      /\ old.version \in Nat \ {0}
  <2>1. old \in Row /\ ~old.resolved
    BY <1>2
  <2> HIDE DEF old
  <2> QED
    BY <2>1, TransitionedRow DEF Row
<1>4. alerts \in [Keys -> Seq(Row)] /\ n \in Nat \ {0}
  <2>1. alerts \in [Keys -> Seq(Row)]
    BY DEF IInv, TypeOK
  <2> QED
    BY <2>1
<1> HIDE DEF new
<1>5. /\ alerts' \in [Keys -> Seq(Row)]
      /\ \A x \in Keys : DOMAIN alerts'[x] = DOMAIN alerts[x]
      /\ alerts'[k][n] = new
      /\ \A x \in Keys : \A i \in DOMAIN alerts[x] :
            x # k \/ i # n => alerts'[x][i] = alerts[x][i]
  <2> DEFINE rows == [alerts[k] EXCEPT ![n] = new]
  <2>1. alerts' = [alerts EXCEPT ![k] = rows]
    BY <1>2 DEF new
  <2>2. /\ rows \in Seq(Row) /\ DOMAIN rows = DOMAIN alerts[k] /\ rows[n] = new
        /\ \A i \in DOMAIN alerts[k] : i # n => rows[i] = alerts[k][i]
    BY <1>3, <1>4
  <2> HIDE DEF rows
  <2> QED
    BY <1>4, <2>1, <2>2
<1>6. audit' \in Seq(AuditRow)
  <2> DEFINE event == AuditEvent(views[o], old, o, action)
  <2>1. NewState[action] \in {"acknowledged", "dismissed", "resolved"}
    BY DEF Actions, NewState
  <2>2. /\ old.version + 1 \in Nat \ {0}
        /\ old.state \in {"open", "acknowledged"}
    BY <1>2, <1>3
  <2>3. event \in AuditRow
    BY <1>2, <1>3, <1>4, <2>1, <2>2 DEF AuditEvent, AuditRow
  <2>4. audit \in Seq(AuditRow) /\ audit' = Append(audit, event)
    BY <1>2 DEF IInv, TypeOK
  <2> HIDE DEF event
  <2> QED
    BY <2>3, <2>4
<1>7. /\ DOMAIN views' = Operators
      /\ \A x \in Operators \ {o} : views'[x] = views[x]
      /\ \/ views'[o] = views[o]
         \/ views'[o] = [views[o] EXCEPT !.row = new]
  <2>1. DOMAIN views = Operators
    BY DEF IInv, TypeOK
  <2> QED
    BY <1>2, <2>1 DEF new
<1>8. /\ views[o] \in [key : Keys, number : Nat \ {0}, row : Row]
      /\ views'[o] \in [key : Keys, number : Nat \ {0}, row : Row]
      /\ views'[o].key = k /\ views'[o].number = n
      /\ views'[o].row = views[o].row \/ views'[o].row = new
  <2>1. views[o] \in [key : Keys, number : Nat \ {0}, row : Row]
    BY <1>2 DEF IInv, TypeOK
  <2> QED
    BY <1>2, <1>3, <1>7, <2>1
<1>9. TypeOK'
  <2>1. \A x \in Operators :
           \/ views'[x] = NoView
           \/ /\ views'[x] \in [key : Keys, number : Nat \ {0}, row : Row]
              /\ views'[x].number \in DOMAIN alerts'[views'[x].key]
    BY <1>5, <1>7, <1>8 DEF IInv, TypeOK
  <2> QED
    BY <1>2, <1>5, <1>6, <1>7, <2>1 DEF IInv, TypeOK
<1>10. OneActivePerKey'
  <2> SUFFICES ASSUME NEW x \in Keys, NEW i \in DOMAIN alerts[x],
                      NEW j \in DOMAIN alerts[x],
                      ~alerts'[x][i].resolved, ~alerts'[x][j].resolved
               PROVE  i = j
    BY <1>5 DEF OneActivePerKey
  <2>1. ~alerts[x][i].resolved /\ ~alerts[x][j].resolved
    BY <1>3, <1>5
  <2> QED
    BY <2>1 DEF IInv, OneActivePerKey
<1>11. ViewsOnce'
  <2> SUFFICES ASSUME NEW x \in Operators, views'[x] # NoView
               PROVE  LET row == alerts'[views'[x].key][views'[x].number]
                      IN  /\ views'[x].row.version <= row.version
                          /\ views'[x].row.version = row.version => views'[x].row = row
    BY DEF ViewsOnce
  <2>1. CASE x = o /\ views'[o].row = new
    BY <1>3, <1>5, <1>8, <2>1
  <2>2. CASE ~(x = o /\ views'[o].row = new)
    <3> DEFINE seen == views[x]
               row == alerts[seen.key][seen.number]
    <3>1. /\ views'[x].key = seen.key /\ views'[x].number = seen.number
          /\ views'[x].row = seen.row /\ seen # NoView
      BY <1>2, <1>7, <1>8, <2>2
    <3>2. /\ seen.key \in Keys /\ seen.number \in DOMAIN alerts[seen.key]
          /\ seen.row.version \in Nat
      BY <3>1 DEF IInv, TypeOK, Row
    <3>3. row \in Row /\ row.version \in Nat
      <4>1. alerts[seen.key] \in Seq(Row)
        BY <1>4, <3>2
      <4>2. row \in Row
        BY <3>2, <4>1
      <4> HIDE DEF row
      <4> QED
        BY <4>2 DEF Row
    <3>4. /\ seen.row.version <= row.version
          /\ seen.row.version = row.version => seen.row = row
      BY <3>1 DEF IInv, ViewsOnce
    <3>5. \/ alerts'[seen.key][seen.number] = row
          \/ alerts'[seen.key][seen.number].version = row.version + 1
      BY <1>3, <1>5, <3>2
    <3> HIDE DEF seen, row
    <3>6. LET now == alerts'[seen.key][seen.number]
          IN  /\ seen.row.version <= now.version
              /\ seen.row.version = now.version => seen.row = now
      BY <3>2, <3>3, <3>4, <3>5
    <3> QED
      BY <3>1, <3>6
  <2> QED
    BY <2>1, <2>2
<1>12. ClosedIsResolved'
  <2> SUFFICES ASSUME NEW x \in Keys, NEW i \in DOMAIN alerts[x]
               PROVE  Consistent(alerts'[x][i])
    BY <1>5 DEF ClosedIsResolved
  <2>1. alerts'[x][i] = new \/ alerts'[x][i] = alerts[x][i]
    BY <1>5
  <2> QED
    BY <1>3, <2>1 DEF IInv, ClosedIsResolved
<1> QED
  BY <1>9, <1>10, <1>11, <1>12 DEF IInv

(* Every step keeps the invariant.                                         *)
LEMMA NextIInv == IInv /\ [Next]_vars => IInv'
<1> SUFFICES ASSUME IInv, [Next]_vars PROVE IInv'
  OBVIOUS
<1>1. ASSUME NEW p \in Prediction, Evaluate(p) PROVE IInv'
  BY <1>1, EvaluateIInv
<1>2. ASSUME NEW o \in Operators, Read(o) PROVE IInv'
  BY <1>2, ReadIInv
<1>3. ASSUME NEW o \in Operators, NEW action \in Actions, Transition(o, action)
      PROVE  IInv'
  BY <1>3, TransitionIInv
<1>4. CASE UNCHANGED vars
  BY <1>4 DEF vars, IInv, TypeOK, OneActivePerKey, ViewsOnce, ClosedIsResolved
<1> QED
  BY <1>1, <1>2, <1>3, <1>4 DEF Next

(* IInv holds in every reachable state, for any predictions, thresholds    *)
(* and operators.                                                          *)
THEOREM Invariance == Spec => []IInv
BY InitIInv, NextIInv, PTL DEF Spec

(* The alert table, its audit trail and the operators' views stay well     *)
(* typed: transition_alert applies no action to a closed alert.            *)
THEOREM TypeCorrect == Spec => []TypeOK
<1>1. IInv => TypeOK
  BY DEF IInv
<1> QED
  BY <1>1, Invariance, PTL

(* Deduplication by the partial unique index: no order of predictions and  *)
(* human actions leaves two active alerts of one key.                      *)
THEOREM Deduplication == Spec => []OneActivePerKey
<1>1. IInv => OneActivePerKey
  BY DEF IInv
<1> QED
  BY <1>1, Invariance, PTL

-----------------------------------------------------------------------------
(* What no step may do.                                                    *)

LEMMA StepsActOnSeen ==
    ASSUME IInv, Next
    PROVE  \A n \in DOMAIN audit' \ DOMAIN audit :
              LET event == audit'[n]
              IN  /\ views[event.actor].key = event.key
                  /\ views[event.actor].number = event.number
                  /\ alerts[event.key][event.number] = views[event.actor].row
<1>1. CASE audit' = audit
  BY <1>1
<1>2. ASSUME NEW o \in Operators, NEW action \in Actions, Transition(o, action)
      PROVE  \A n \in DOMAIN audit' \ DOMAIN audit :
                LET event == audit'[n]
                IN  /\ views[event.actor].key = event.key
                    /\ views[event.actor].number = event.number
                    /\ alerts[event.key][event.number] = views[event.actor].row
  <2>0. PICK k \in Keys : \E n \in DOMAIN alerts[k] : TransitionOn(o, action, k, n)
    BY <1>2, TransitionFacts
  <2>1. PICK n \in DOMAIN alerts[k] : TransitionOn(o, action, k, n)
    BY <2>0
  <2>2. /\ views[o].key = k /\ views[o].number = n
        /\ views[o].row = alerts[k][n]
        /\ audit' = Append(audit, AuditEvent(views[o], alerts[k][n], o, action))
    BY <2>1 DEF TransitionOn
  <2> DEFINE event == AuditEvent(views[o], alerts[k][n], o, action)
  <2>3. event.actor = o /\ event.key = k /\ event.number = n
    BY <2>2 DEF AuditEvent
  <2>4. audit \in Seq(AuditRow)
    BY DEF IInv, TypeOK
  <2> HIDE DEF event
  <2>5. \A i \in DOMAIN audit' \ DOMAIN audit : audit'[i] = event
    BY <2>2, <2>4 DEF event
  <2> QED
    BY <2>2, <2>3, <2>5
<1> QED
  BY <1>1, <1>2 DEF Next, Evaluate, Read

(* transition_alert compares versions; that an operator has therefore seen *)
(* the very row he changes, whoever refreshed or changed the alert since,  *)
(* holds for any number of operators and predictions.                      *)
THEOREM OptimisticConcurrency == Spec => ActedOnSeen
<1>1. IInv /\ [Next]_vars =>
        [\A n \in DOMAIN audit' \ DOMAIN audit :
            LET event == audit'[n]
            IN  /\ views[event.actor].key = event.key
                /\ views[event.actor].number = event.number
                /\ alerts[event.key][event.number] = views[event.actor].row]_vars
  BY StepsActOnSeen
<1> QED
  BY <1>1, Invariance, PTL DEF Spec, ActedOnSeen

(* No step changes a resolved row: predictions miss it, and no action of   *)
(* an operator is allowed on it.                                           *)
LEMMA StepsKeepClosed ==
    ASSUME IInv, Next
    PROVE  \A k \in Keys : \A n \in DOMAIN alerts[k] :
              alerts[k][n].resolved => alerts'[k][n] = alerts[k][n]
<1> SUFFICES ASSUME NEW k \in Keys, NEW n \in DOMAIN alerts[k], alerts[k][n].resolved
             PROVE  alerts'[k][n] = alerts[k][n]
  OBVIOUS
<1>1. alerts \in [Keys -> Seq(Row)] /\ alerts[k] \in Seq(Row)
  BY DEF IInv, TypeOK
<1>2. ASSUME NEW p \in Prediction, Evaluate(p) PROVE alerts'[k][n] = alerts[k][n]
  <2> DEFINE rows == alerts[k]
             severity == Severity(p, k)
  <2>1. /\ alerts'[k] = Upserted(rows, p, severity)
        /\ severity \in {"NONE", "WARNING", "CRITICAL"}
    BY <1>2, SeverityType DEF Evaluate
  <2>2. rows \in Seq(Row) /\ n \in DOMAIN rows /\ rows[n].resolved
    BY <1>1
  <2> HIDE DEF rows, severity
  <2>3. Upserted(rows, p, severity)[n] = rows[n]
    BY <2>1, <2>2, UpsertedRows
  <2> QED
    BY <2>1, <2>3 DEF rows
<1>3. ASSUME NEW o \in Operators, NEW action \in Actions, Transition(o, action)
      PROVE  alerts'[k][n] = alerts[k][n]
  <2>0. PICK key \in Keys : \E number \in DOMAIN alerts[key] :
           TransitionOn(o, action, key, number)
    BY <1>3, TransitionFacts
  <2>1. PICK number \in DOMAIN alerts[key] : TransitionOn(o, action, key, number)
    BY <2>0
  <2>2. /\ ~alerts[key][number].resolved
        /\ alerts' = [alerts EXCEPT ![key][number] =
                          Transitioned(alerts[key][number], o, action)]
    BY <2>1 DEF TransitionOn
  <2> DEFINE new == Transitioned(alerts[key][number], o, action)
  <2>3. key # k \/ number # n
    BY <2>2
  <2>4. alerts' = [alerts EXCEPT ![key] = [alerts[key] EXCEPT ![number] = new]]
    BY <2>2
  <2> HIDE DEF new
  <2> QED
    BY <1>1, <2>3, <2>4
<1> QED
  BY <1>2, <1>3 DEF Next, Read

(* A closed alert is history for any predictions and operators: a later    *)
(* prediction opens a new alert instead, and no action is allowed on it.   *)
THEOREM History == Spec => ClosedForGood
<1>1. IInv /\ [Next]_vars =>
        [\A k \in Keys : \A n \in DOMAIN alerts[k] :
            alerts[k][n].resolved => alerts'[k][n] = alerts[k][n]]_vars
  BY StepsKeepClosed
<1> QED
  BY <1>1, Invariance, PTL DEF Spec, ClosedForGood

-----------------------------------------------------------------------------
(* The audit trail.  AuditExplainsState is inductive beside one more fact: *)
(* an audit event is of an alert that exists, so that a newly opened alert *)
(* does not inherit a history.                                             *)

AuditOfAlerts ==
    \A i \in DOMAIN audit : audit[i].number \in DOMAIN alerts[audit[i].key]

AuditInv == AuditOfAlerts /\ AuditExplainsState

(* EventsOf and LeadTo, and all that is said of one alert, of any trail.   *)
EventsIn(trail, k, n) == {i \in DOMAIN trail : trail[i].key = k /\ trail[i].number = n}

LedTo(trail, events, state, version) ==
    IF events = {} THEN state = "open"
    ELSE \E last \in events :
            /\ \A i \in events : i <= last
            /\ trail[last].new_state = state
            /\ trail[last].new_version <= version

Explained(trail, events, row) ==
    /\ LedTo(trail, events, row.state, row.version)
    /\ \A i \in events :
          LedTo(trail, {j \in events : j < i}, trail[i].old_state, trail[i].old_version)
    /\ row.resolved <=> row.state \in {"dismissed", "resolved"}
    /\ row.acknowledged_by # NoOne <=>
          \E i \in events : trail[i].new_state = "acknowledged"

(* The property, of any trail.                                             *)
LEMMA AuditExplained ==
    AuditExplainsState <=>
        \A k \in Keys : \A n \in DOMAIN alerts[k] :
            Explained(audit, EventsIn(audit, k, n), alerts[k][n])
BY DEF AuditExplainsState, Explained, EventsIn, EventsOf, LeadTo, LedTo

(* A longer trail says the same of the events it had before.               *)
LEMMA LedToLonger ==
    ASSUME NEW trail, NEW longer, NEW size \in Nat,
           \A i \in 1 .. size : longer[i] = trail[i],
           NEW S \in SUBSET (1 .. size), NEW state, NEW version
    PROVE  LedTo(longer, S, state, version) <=> LedTo(trail, S, state, version)
<1>1. \A i \in S : longer[i] = trail[i]
  OBVIOUS
<1> QED
  BY <1>1 DEF LedTo

(* An upsert touches neither the state of an alert nor who acknowledged it,*)
(* and only makes its version grow; what it adds is open.                  *)
LEMMA UpsertedHistory ==
    ASSUME NEW rows \in Seq(Row), NEW p \in Prediction,
           NEW severity \in {"NONE", "WARNING", "CRITICAL"}
    PROVE  LET new == Upserted(rows, p, severity)
           IN  /\ \A n \in DOMAIN rows :
                     /\ n \in DOMAIN new
                     /\ new[n].state = rows[n].state
                     /\ new[n].acknowledged_by = rows[n].acknowledged_by
                     /\ new[n].resolved = rows[n].resolved
                     /\ new[n].version >= rows[n].version
               /\ \A n \in DOMAIN new \ DOMAIN rows :
                     /\ new[n].state = "open" /\ ~new[n].resolved
                     /\ new[n].acknowledged_by = NoOne
<1> DEFINE new == Upserted(rows, p, severity)
<1>0. \A n \in DOMAIN rows : rows[n] \in Row /\ rows[n].version \in Nat
  <2>1. \A n \in DOMAIN rows : rows[n] \in Row
    OBVIOUS
  <2> QED
    BY <2>1 DEF Row
<1>1. CASE severity = "NONE"
  <2>1. new = rows
    BY <1>1 DEF Upserted
  <2> QED
    BY <1>0, <2>1
<1>2. CASE severity # "NONE" /\ \E n \in DOMAIN rows : Conflicting(rows[n])
  <2>1. new = [n \in DOMAIN rows |->
                 IF Conflicting(rows[n]) THEN Refreshed(rows[n], p, severity)
                 ELSE rows[n]]
    BY <1>2 DEF Upserted
  <2>2. \A n \in DOMAIN rows :
           /\ new[n].state = rows[n].state
           /\ new[n].acknowledged_by = rows[n].acknowledged_by
           /\ new[n].resolved = rows[n].resolved
           /\ new[n].version >= rows[n].version
    <3> TAKE n \in DOMAIN rows
    <3>1. rows[n] \in Row /\ rows[n].version \in Nat
      BY <1>0
    <3>2. CASE Conflicting(rows[n])
      <4>1. new[n] = Refreshed(rows[n], p, severity) /\ severity \in {"WARNING", "CRITICAL"}
        BY <1>2, <2>1, <3>2
      <4> HIDE DEF new
      <4> QED
        BY <3>1, <4>1, RefreshedRow
    <3>3. CASE ~Conflicting(rows[n])
      BY <2>1, <3>1, <3>3
    <3> QED
      BY <3>2, <3>3
  <2>3. DOMAIN new = DOMAIN rows
    BY <2>1
  <2> QED
    BY <2>2, <2>3
<1>3. CASE severity # "NONE" /\ ~ \E n \in DOMAIN rows : Conflicting(rows[n])
  <2> DEFINE row == Opened(p, severity)
  <2>1. new = Append(rows, row)
    BY <1>3 DEF Upserted
  <2>2. row.state = "open" /\ ~row.resolved /\ row.acknowledged_by = NoOne
    BY DEF Opened
  <2> HIDE DEF row
  <2>3. /\ DOMAIN new = 1..(Len(rows) + 1)
        /\ DOMAIN rows = 1..Len(rows) /\ Len(rows) \in Nat
        /\ \A n \in 1..Len(rows) : new[n] = rows[n]
        /\ new[Len(rows) + 1] = row
    BY <2>1
  <2>4. \A n \in DOMAIN new \ DOMAIN rows : n = Len(rows) + 1
    BY <2>3
  <2> QED
    BY <1>0, <2>2, <2>3, <2>4
<1> QED
  BY <1>1, <1>2, <1>3

(* A newer version of an alert in the same state is explained by the same  *)
(* events.                                                                 *)
LEMMA LedToNewer ==
    ASSUME audit \in Seq(AuditRow), NEW events \in SUBSET DOMAIN audit,
           NEW state, NEW version \in Nat, NEW newer \in Nat, version <= newer,
           LedTo(audit, events, state, version)
    PROVE  LedTo(audit, events, state, newer)
<1>1. CASE events = {}
  BY <1>1 DEF LedTo
<1>2. CASE events # {}
  <2>1. PICK last \in events :
           /\ \A i \in events : i <= last
           /\ audit[last].new_state = state
           /\ audit[last].new_version <= version
    BY <1>2 DEF LedTo
  <2>2. audit[last] \in AuditRow
    OBVIOUS
  <2>3. audit[last].new_version \in Nat
    BY <2>2 DEF AuditRow
  <2>4. audit[last].new_version <= newer
    BY <2>1, <2>3
  <2> QED
    BY <1>2, <2>1, <2>4 DEF LedTo
<1> QED
  BY <1>1, <1>2

(* persist_prediction_alerts_transaction leaves every alert explained.     *)
LEMMA EvaluateAuditInv ==
    ASSUME IInv, AuditInv, NEW p \in Prediction, Evaluate(p)
    PROVE  AuditInv'
<1>1. audit' = audit /\ audit \in Seq(AuditRow)
  BY DEF Evaluate, IInv, TypeOK
<1>2. \A k \in Keys :
         /\ alerts[k] \in Seq(Row) /\ alerts'[k] \in Seq(Row)
         /\ \A n \in DOMAIN alerts[k] :
               /\ n \in DOMAIN alerts'[k]
               /\ alerts'[k][n].state = alerts[k][n].state
               /\ alerts'[k][n].acknowledged_by = alerts[k][n].acknowledged_by
               /\ alerts'[k][n].resolved = alerts[k][n].resolved
               /\ alerts'[k][n].version >= alerts[k][n].version
         /\ \A n \in DOMAIN alerts'[k] \ DOMAIN alerts[k] :
               /\ alerts'[k][n].state = "open" /\ ~alerts'[k][n].resolved
               /\ alerts'[k][n].acknowledged_by = NoOne
  <2> TAKE k \in Keys
  <2> DEFINE rows == alerts[k]
             severity == Severity(p, k)
             new == Upserted(rows, p, severity)
  <2>1. /\ alerts'[k] = new /\ rows \in Seq(Row)
        /\ severity \in {"NONE", "WARNING", "CRITICAL"}
    BY SeverityType DEF Evaluate, IInv, TypeOK
  <2> HIDE DEF rows, severity
  <2>2. new \in Seq(Row)
    BY <2>1, UpsertedRows
  <2>3. /\ \A n \in DOMAIN rows :
              /\ n \in DOMAIN new
              /\ new[n].state = rows[n].state
              /\ new[n].acknowledged_by = rows[n].acknowledged_by
              /\ new[n].resolved = rows[n].resolved
              /\ new[n].version >= rows[n].version
        /\ \A n \in DOMAIN new \ DOMAIN rows :
              /\ new[n].state = "open" /\ ~new[n].resolved
              /\ new[n].acknowledged_by = NoOne
    BY <2>1, UpsertedHistory
  <2> HIDE DEF new
  <2> QED
    BY <2>1, <2>2, <2>3 DEF rows
<1>3. AuditOfAlerts'
  <2> SUFFICES ASSUME NEW i \in DOMAIN audit
               PROVE  audit[i].number \in DOMAIN alerts'[audit[i].key]
    BY <1>1 DEF AuditOfAlerts
  <2>1. audit[i] \in AuditRow
    BY <1>1
  <2>2. audit[i].key \in Keys
    BY <2>1 DEF AuditRow
  <2> QED
    BY <1>2, <2>2 DEF AuditInv, AuditOfAlerts
<1>4. AuditExplainsState'
  <2> SUFFICES ASSUME NEW k \in Keys, NEW n \in DOMAIN alerts'[k]
               PROVE  Explained(audit, EventsIn(audit, k, n), alerts'[k][n])
    <3>1. AuditExplainsState' <=>
            \A k \in Keys : \A n \in DOMAIN alerts'[k] :
                Explained(audit', EventsIn(audit', k, n), alerts'[k][n])
      BY DEF AuditExplainsState, Explained, EventsIn, EventsOf, LeadTo, LedTo
    <3> QED
      BY <1>1, <3>1
  <2> DEFINE events == EventsIn(audit, k, n)
  <2>1. events \in SUBSET DOMAIN audit
    BY DEF EventsIn
  <2>2. CASE n \in DOMAIN alerts[k]
    <3> DEFINE row == alerts[k][n]
               new == alerts'[k][n]
    <3>1. row \in Row /\ new \in Row
      BY <1>2, <2>2
    <3>2. row.version \in Nat /\ new.version \in Nat
      BY <3>1 DEF Row
    <3>3. Explained(audit, events, row)
      BY <2>2, AuditExplained DEF AuditInv
    <3>4. /\ new.state = row.state /\ new.acknowledged_by = row.acknowledged_by
          /\ new.resolved = row.resolved /\ row.version <= new.version
      BY <1>2, <2>2, <3>2
    <3> HIDE DEF row, new, events
    <3>5. LedTo(audit, events, row.state, new.version)
      BY <1>1, <2>1, <3>2, <3>3, <3>4, LedToNewer DEF Explained
    <3>6. Explained(audit, events, new)
      BY <3>3, <3>4, <3>5 DEF Explained
    <3> QED
      BY <3>6 DEF new, events
  <2>3. CASE n \notin DOMAIN alerts[k]
    <3>1. events = {}
      BY <2>3 DEF AuditInv, AuditOfAlerts, EventsIn
    <3>2. /\ alerts'[k][n].state = "open" /\ ~alerts'[k][n].resolved
          /\ alerts'[k][n].acknowledged_by = NoOne
      BY <1>2, <2>3
    <3> QED
      BY <3>1, <3>2 DEF Explained, LedTo
  <2> QED
    BY <2>2, <2>3
<1> QED
  BY <1>3, <1>4 DEF AuditInv

(* What an action makes of an alert is what its audit event says.          *)
LEMMA TransitionExplained ==
    ASSUME NEW row \in Row, ~row.resolved, NEW o \in Operators, NEW action \in Actions
    PROVE  LET new == Transitioned(row, o, action)
           IN  /\ new.state = NewState[action]
               /\ new.version = row.version + 1
               /\ new.resolved <=> new.state \in {"dismissed", "resolved"}
               /\ new.acknowledged_by # NoOne <=>
                     row.acknowledged_by # NoOne \/ new.state = "acknowledged"
<1> DEFINE by == IF action = "acknowledge" THEN o ELSE row.acknowledged_by
           closed == row.resolved \/ action \in {"dismiss", "resolve"}
<1>1. Transitioned(row, o, action) =
        [row EXCEPT !.state = NewState[action], !.acknowledged_by = by,
                    !.resolved = closed, !.version = row.version + 1]
  BY DEF Transitioned
<1>2. closed <=> NewState[action] \in {"dismissed", "resolved"}
  BY DEF Actions, NewState
<1>3. by # NoOne <=> row.acknowledged_by # NoOne \/ NewState[action] = "acknowledged"
  BY AlertAssumption DEF Actions, NewState
<1> HIDE DEF by, closed
<1>4. LET new == Transitioned(row, o, action)
      IN  /\ new.state = NewState[action] /\ new.acknowledged_by = by
          /\ new.resolved = closed /\ new.version = row.version + 1
  BY <1>1 DEF Row
<1> QED
  BY <1>2, <1>3, <1>4

(* transition_alert appends the event that explains what it did.           *)
LEMMA TransitionAuditInv ==
    ASSUME IInv, AuditInv, NEW o \in Operators, NEW action \in Actions,
           Transition(o, action)
    PROVE  AuditInv'
<1>0. PICK k \in Keys : \E n \in DOMAIN alerts[k] : TransitionOn(o, action, k, n)
  BY TransitionFacts
<1>1. PICK n \in DOMAIN alerts[k] : TransitionOn(o, action, k, n)
  BY <1>0
<1> DEFINE row == alerts[k][n]
           new == Transitioned(row, o, action)
           event == AuditEvent(views[o], row, o, action)
           rows == [alerts[k] EXCEPT ![n] = new]
<1>2. /\ row \in Row /\ ~row.resolved /\ row.version \in Nat
      /\ alerts' = [alerts EXCEPT ![k] = rows]
      /\ audit' = Append(audit, event)
  BY <1>1 DEF TransitionOn, Row
<1>3. /\ event.key = k /\ event.number = n
      /\ event.old_state = row.state /\ event.new_state = NewState[action]
      /\ event.old_version = row.version /\ event.new_version = row.version + 1
  BY <1>1 DEF TransitionOn, AuditEvent
<1>4. /\ new.state = NewState[action] /\ new.version = row.version + 1
      /\ new.resolved <=> new.state \in {"dismissed", "resolved"}
      /\ new.acknowledged_by # NoOne <=>
            row.acknowledged_by # NoOne \/ new.state = "acknowledged"
  <2> HIDE DEF row
  <2> QED
    BY <1>2, TransitionExplained
<1> HIDE DEF new, event
<1>5. /\ alerts \in [Keys -> Seq(Row)]
      /\ audit \in Seq(AuditRow)
  BY DEF IInv, TypeOK
<1>6. /\ DOMAIN rows = DOMAIN alerts[k] /\ rows[n] = new
      /\ \A i \in DOMAIN alerts[k] : i # n => rows[i] = alerts[k][i]
  BY <1>5
<1> HIDE DEF rows
<1>7. /\ \A x \in Keys : DOMAIN alerts'[x] = DOMAIN alerts[x]
      /\ alerts'[k][n] = new
      /\ \A x \in Keys : \A i \in DOMAIN alerts[x] :
            x # k \/ i # n => alerts'[x][i] = alerts[x][i]
  BY <1>2, <1>5, <1>6
<1>8. PICK size \in Nat : size = Len(audit) /\ DOMAIN audit = 1 .. size
  BY <1>5
<1>9. /\ DOMAIN audit' = 1 .. size + 1
      /\ audit'[size + 1] = event
      /\ \A i \in 1 .. size : audit'[i] = audit[i]
  BY <1>2, <1>5, <1>8
<1>10. \A i \in 1 .. size + 1 : i \in 1 .. size \/ i = size + 1
  BY <1>8
<1>11. AuditOfAlerts'
  <2> SUFFICES ASSUME NEW i \in 1 .. size + 1
               PROVE  audit'[i].number \in DOMAIN alerts'[audit'[i].key]
    BY <1>9 DEF AuditOfAlerts
  <2>1. CASE i = size + 1
    BY <1>3, <1>7, <1>9, <2>1
  <2>2. CASE i \in 1 .. size
    <3>1. audit[i] \in AuditRow
      BY <1>5, <1>8, <2>2
    <3>2. audit[i].key \in Keys
      BY <3>1 DEF AuditRow
    <3> QED
      BY <1>7, <1>8, <1>9, <2>2, <3>2 DEF AuditInv, AuditOfAlerts
  <2> QED
    BY <1>10, <2>1, <2>2
<1>12. ASSUME NEW x \in Keys, NEW y \in DOMAIN alerts[x], x # k \/ y # n
       PROVE  EventsIn(audit', x, y) = EventsIn(audit, x, y)
  <2>1. \A i \in 1 .. size + 1 : audit'[i].key = x /\ audit'[i].number = y => i \in 1 .. size
    BY <1>3, <1>9, <1>10, <1>12
  <2>2. \A i \in 1 .. size : i \in 1 .. size + 1
    BY <1>8
  <2> QED
    BY <1>8, <1>9, <2>1, <2>2 DEF EventsIn
<1>13. EventsIn(audit', k, n) = EventsIn(audit, k, n) \cup {size + 1}
  <2>1. size + 1 \in 1 .. size + 1 /\ \A i \in 1 .. size : i \in 1 .. size + 1
    BY <1>8
  <2> QED
    BY <1>3, <1>8, <1>9, <1>10, <2>1 DEF EventsIn
<1>14. ASSUME NEW S \in SUBSET (1 .. size), NEW state, NEW version
       PROVE  LedTo(audit', S, state, version) <=> LedTo(audit, S, state, version)
  BY <1>8, <1>9, LedToLonger
<1>15. ASSUME NEW x \in Keys, NEW y \in DOMAIN alerts[x], x # k \/ y # n
       PROVE  Explained(audit', EventsIn(audit', x, y), alerts'[x][y])
  <2> DEFINE events == EventsIn(audit, x, y)
             other == alerts[x][y]
  <2>1. Explained(audit, events, other)
    BY AuditExplained DEF AuditInv
  <2>2. /\ events \in SUBSET (1 .. size)
        /\ \A i \in events : {j \in events : j < i} \in SUBSET (1 .. size)
    BY <1>8 DEF EventsIn
  <2>3. EventsIn(audit', x, y) = events /\ alerts'[x][y] = other
    BY <1>7, <1>12, <1>15
  <2> HIDE DEF events, other
  <2>4. \A i \in events : audit'[i] = audit[i]
    BY <1>9, <2>2
  <2>5. LedTo(audit', events, other.state, other.version)
    BY <1>14, <2>1, <2>2 DEF Explained
  <2>6. ASSUME NEW i \in events
        PROVE  LedTo(audit', {j \in events : j < i}, audit'[i].old_state, audit'[i].old_version)
    BY <1>14, <2>1, <2>2, <2>4, <2>6 DEF Explained
  <2>7. Explained(audit', events, other)
    BY <2>1, <2>4, <2>5, <2>6 DEF Explained
  <2> QED
    BY <2>3, <2>7
<1>16. Explained(audit', EventsIn(audit', k, n), alerts'[k][n])
  <2> DEFINE before == EventsIn(audit, k, n)
             after == before \cup {size + 1}
  <2>1. Explained(audit, before, row)
    BY AuditExplained DEF AuditInv
  <2>2. /\ before \in SUBSET (1 .. size)
        /\ \A i \in before : {j \in before : j < i} \in SUBSET (1 .. size)
    BY <1>8 DEF EventsIn
  <2>3. EventsIn(audit', k, n) = after /\ alerts'[k][n] = new
    BY <1>7, <1>13
  <2> HIDE DEF before, row
  <2>4. \A i \in before : audit'[i] = audit[i] /\ i < size + 1 /\ ~(size + 1 < i)
    BY <1>8, <1>9, <2>2
  <2>5. LedTo(audit', after, new.state, new.version)
    <3>1. /\ audit'[size + 1].new_state = new.state
          /\ audit'[size + 1].new_version <= new.version
      BY <1>2, <1>3, <1>4, <1>9
    <3>2. \A i \in after : i <= size + 1
      BY <1>8, <2>2
    <3> QED
      BY <3>1, <3>2 DEF LedTo
  <2>6. ASSUME NEW i \in after
        PROVE  LedTo(audit', {j \in after : j < i}, audit'[i].old_state, audit'[i].old_version)
    <3>1. CASE i \in before
      <4>1. {j \in after : j < i} = {j \in before : j < i}
        BY <2>4, <3>1
      <4>2. LedTo(audit, {j \in before : j < i}, audit[i].old_state, audit[i].old_version)
        BY <2>1, <3>1 DEF Explained
      <4>3. {j \in before : j < i} \in SUBSET (1 .. size)
        BY <2>2, <3>1
      <4> QED
        BY <1>14, <2>4, <3>1, <4>1, <4>2, <4>3
    <3>2. CASE i = size + 1
      <4>1. {j \in after : j < i} = before
        BY <1>8, <2>4, <3>2
      <4>2. LedTo(audit, before, row.state, row.version)
        BY <2>1 DEF Explained
      <4> QED
        BY <1>3, <1>9, <1>14, <2>2, <3>2, <4>1, <4>2
    <3> QED
      BY <3>1, <3>2
  <2>7. new.acknowledged_by # NoOne <=> \E i \in after : audit'[i].new_state = "acknowledged"
    <3>1. row.acknowledged_by # NoOne <=> \E i \in before : audit[i].new_state = "acknowledged"
      BY <2>1 DEF Explained
    <3>2. audit'[size + 1].new_state = new.state
      BY <1>3, <1>4, <1>9
    <3> QED
      BY <1>4, <2>4, <3>1, <3>2
  <2>8. Explained(audit', after, new)
    BY <1>4, <2>5, <2>6, <2>7 DEF Explained
  <2> QED
    BY <2>3, <2>8
<1>17. AuditExplainsState'
  <2>1. \A x \in Keys : \A y \in DOMAIN alerts'[x] :
            Explained(audit', EventsIn(audit', x, y), alerts'[x][y])
    BY <1>7, <1>15, <1>16
  <2>2. AuditExplainsState' <=>
          \A x \in Keys : \A y \in DOMAIN alerts'[x] :
              Explained(audit', EventsIn(audit', x, y), alerts'[x][y])
    BY DEF AuditExplainsState, Explained, EventsIn, EventsOf, LeadTo, LedTo
  <2> QED
    BY <2>1, <2>2
<1> QED
  BY <1>11, <1>17 DEF AuditInv

(* Whatever order predictions and human actions come in, an alert's audit  *)
(* events lead from "open" to its state, and nothing else closes it.       *)
THEOREM AuditTrail == Spec => []AuditExplainsState
<1>1. Init => AuditInv
  BY DEF Init, AuditInv, AuditOfAlerts, AuditExplainsState
<1>2. IInv /\ AuditInv /\ [Next]_vars => AuditInv'
  <2> SUFFICES ASSUME IInv, AuditInv, [Next]_vars PROVE AuditInv'
    OBVIOUS
  <2>1. CASE UNCHANGED <<alerts, audit>>
    <3>1. AuditOfAlerts'
      BY <2>1 DEF AuditInv, AuditOfAlerts
    <3>2. \A k \in Keys : \A n \in DOMAIN alerts[k] :
              Explained(audit, EventsIn(audit, k, n), alerts[k][n])
      BY AuditExplained DEF AuditInv
    <3>3. AuditExplainsState' <=>
            \A k \in Keys : \A n \in DOMAIN alerts'[k] :
                Explained(audit', EventsIn(audit', k, n), alerts'[k][n])
      BY DEF AuditExplainsState, Explained, EventsIn, EventsOf, LeadTo, LedTo
    <3> QED
      BY <2>1, <3>1, <3>2, <3>3 DEF AuditInv
  <2> QED
    BY <2>1, EvaluateAuditInv, TransitionAuditInv DEF Next, Read, vars
<1>3. AuditInv => AuditExplainsState
  BY DEF AuditInv
<1> QED
  BY <1>1, <1>2, <1>3, Invariance, PTL DEF Spec
==============================================================================
