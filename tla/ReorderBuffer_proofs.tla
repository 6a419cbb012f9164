------------------------- MODULE ReorderBuffer_proofs -------------------------
(***************************************************************************)
(* Theorems about EventTimeReorderBuffer for every set of engines and      *)
(* cycles, every lateness window and any number of calls in any order.     *)
(*                                                                         *)
(* What the properties say of the events handed out so far is not          *)
(* inductive: the next call may hand out anything the buffer holds.  The   *)
(* invariant therefore compares what was handed out with max_cycle and the *)
(* watermark (HistoryInv), and knows that calls are numbered without gaps, *)
(* so that the event of a call is a new one (CallsInv).                    *)
(***************************************************************************)
EXTENDS ReorderBuffer, FiniteSetTheorems, TLAPS

-----------------------------------------------------------------------------
(* Sorting.                                                                *)

(* Induction over numbers, as the smallest member of a set.                *)
LEMMA SmallestMember ==
    ASSUME NEW T \in SUBSET Nat, T # {}
    PROVE  \E k \in T : \A l \in T : k <= l
<1>1. PICK k \in T : \A l \in T : <<l, k>> \notin OpToRel(<, Nat)
  BY NatLessThanWellFounded, WFMin
<1>2. \A l \in T : ~(l < k)
  BY <1>1 DEF OpToRel
<1> QED
  BY <1>2

Sorts(s, events) ==
    /\ s \in [1..Cardinality(events) -> events]
    /\ IsInjective(s)
    /\ \A i, j \in DOMAIN s : i < j => s[i].cycle <= s[j].cycle

(* The oldest event followed by the others in order is all of them in      *)
(* order.                                                                  *)
LEMMA SortsOnePlus ==
    ASSUME NEW events \in SUBSET Event, IsFiniteSet(events), events # {},
           NEW first \in events, \A ev \in events : first.cycle <= ev.cycle,
           NEW s, Sorts(s, events \ {first})
    PROVE  \E t : Sorts(t, events)
<1>1. PICK n \in Nat : n = Cardinality(events) /\ n # 0
  BY FS_CardinalityType, FS_EmptySet
<1>2. Cardinality(events \ {first}) = n - 1
  BY <1>1, FS_RemoveElement
<1> DEFINE t == [i \in 1..n |-> IF i = 1 THEN first ELSE s[i - 1]]
<1>3. /\ s \in [1..(n - 1) -> events \ {first}]
      /\ \A i, j \in 1..(n - 1) : s[i] = s[j] => i = j
      /\ \A i, j \in 1..(n - 1) : i < j => s[i].cycle <= s[j].cycle
  BY <1>2 DEF Sorts, IsInjective
<1>4. t \in [1..n -> events]
  BY <1>3
<1>5. IsInjective(t)
  BY <1>3 DEF IsInjective
<1>6. \A i, j \in DOMAIN t : i < j => t[i].cycle <= t[j].cycle
  BY <1>3
<1> QED
  BY <1>1, <1>4, <1>5, <1>6 DEF Sorts

(* Every finite set of events can be sorted.                               *)
LEMMA Sortable ==
    ASSUME NEW events \in SUBSET Event, IsFiniteSet(events)
    PROVE  Sorts(InCycleOrder(events), events)
<1> DEFINE Unsorted ==
        {n \in Nat : \E S \in SUBSET Event :
            IsFiniteSet(S) /\ Cardinality(S) = n /\ ~\E s : Sorts(s, S)}
<1>1. Unsorted = {}
  <2> SUFFICES ASSUME Unsorted # {} PROVE FALSE
    OBVIOUS
  <2>1. PICK n \in Unsorted : \A l \in Unsorted : n <= l
    BY SmallestMember
  <2>2. PICK S \in SUBSET Event :
            IsFiniteSet(S) /\ Cardinality(S) = n /\ ~\E s : Sorts(s, S)
    BY <2>1
  <2>3. S # {}
    <3> SUFFICES ASSUME S = {} PROVE FALSE
      OBVIOUS
    <3>1. Sorts(<<>>, S)
      BY FS_EmptySet DEF Sorts, IsInjective
    <3> QED
      BY <2>2, <3>1
  <2>4. \A ev \in S : ev.cycle \in Nat
    BY ReorderAssumption DEF Event
  <2> DEFINE cycles == {ev.cycle : ev \in S}
  <2>5. PICK c \in cycles : \A d \in cycles : c <= d
    <3>1. cycles \in SUBSET Nat /\ cycles # {}
      BY <2>3, <2>4
    <3> QED
      BY <3>1, SmallestMember
  <2>6. PICK first \in S : \A ev \in S : first.cycle <= ev.cycle
    BY <2>5
  <2>7. /\ IsFiniteSet(S \ {first}) /\ Cardinality(S \ {first}) = n - 1
        /\ n \in Nat /\ n # 0
    BY <2>1, <2>2, <2>3, FS_RemoveElement, FS_EmptySet
  <2>8. \E s : Sorts(s, S \ {first})
    <3>1. n - 1 \in Nat /\ n - 1 \notin Unsorted
      BY <2>1, <2>7
    <3> QED
      BY <2>7, <3>1
  <2> QED
    BY <2>2, <2>3, <2>6, <2>8, SortsOnePlus
<1>2. Cardinality(events) \in Nat
  BY FS_CardinalityType
<1>3. \E s : Sorts(s, events)
  BY <1>1, <1>2
<1> QED
  BY <1>3 DEF Sorts, InCycleOrder

(* What is handed out for a set of events is a sequence of exactly them.   *)
LEMMA HandsAll ==
    ASSUME NEW events \in SUBSET Event, IsFiniteSet(events)
    PROVE  LET s == InCycleOrder(events)
           IN  /\ s \in Seq(Event)
               /\ ToSet(s) = events
               /\ IsInjective(s)
               /\ \A i, j \in DOMAIN s : i < j => s[i].cycle <= s[j].cycle
<1> DEFINE s == InCycleOrder(events)
           n == Cardinality(events)
<1>1. /\ s \in [1..n -> events] /\ IsInjective(s)
      /\ \A i, j \in DOMAIN s : i < j => s[i].cycle <= s[j].cycle
  BY Sortable DEF Sorts
<1>2. n \in Nat /\ IsFiniteSet(1..n) /\ Cardinality(1..n) = n
  BY FS_CardinalityType, FS_Interval
<1> HIDE DEF s
<1>3. s \in Injection(1..n, events)
  BY <1>1 DEF Injection
<1>4. s \in Surjection(1..n, events)
  BY <1>2, <1>3, FS_Injection
<1>5. ToSet(s) = events
  BY <1>1, <1>4 DEF Surjection, ToSet
<1>6. s \in Seq(Event)
  BY <1>1, <1>2
<1> QED
  BY <1>1, <1>5, <1>6 DEF s

-----------------------------------------------------------------------------
(* Handing out a batch after what was handed out before.                   *)

(* The members of a concatenation.                                         *)
LEMMA Concatenation ==
    ASSUME NEW r \in Seq(Event), NEW h \in Seq(Event)
    PROVE  /\ r \o h \in Seq(Event)
           /\ ToSet(r \o h) = ToSet(r) \cup ToSet(h)
           /\ \A i \in DOMAIN (r \o h) :
                 \/ i \in DOMAIN r /\ (r \o h)[i] = r[i]
                 \/ i > Len(r) /\ i - Len(r) \in DOMAIN h /\ (r \o h)[i] = h[i - Len(r)]
<1>1. PICK n \in Nat : n = Len(r) /\ DOMAIN r = 1..n
  OBVIOUS
<1>2. PICK l \in Nat : l = Len(h) /\ DOMAIN h = 1..l
  OBVIOUS
<1>3. /\ r \o h \in Seq(Event) /\ DOMAIN (r \o h) = 1..(n + l)
      /\ \A i \in 1..n : (r \o h)[i] = r[i]
      /\ \A i \in (n + 1)..(n + l) : (r \o h)[i] = h[i - n]
  BY <1>1, <1>2
<1> DEFINE c == r \o h
<1> HIDE DEF c
<1>4. ASSUME NEW i \in DOMAIN c
      PROVE  \/ i \in DOMAIN r /\ c[i] = r[i]
             \/ i > Len(r) /\ i - Len(r) \in DOMAIN h /\ c[i] = h[i - Len(r)]
  BY <1>1, <1>2, <1>3 DEF c
<1>5. \A i \in 1..l : n + i \in DOMAIN c /\ c[n + i] = h[i]
  BY <1>1, <1>2, <1>3 DEF c
<1>6. \A i \in 1..n : i \in DOMAIN c /\ c[i] = r[i]
  BY <1>1, <1>2, <1>3 DEF c
<1>7. ToSet(c) = ToSet(r) \cup ToSet(h)
  BY <1>1, <1>2, <1>4, <1>5, <1>6 DEF ToSet
<1> QED
  BY <1>3, <1>4, <1>7 DEF c

(* A batch of new events keeps the history without repetition.             *)
LEMMA HandOnce ==
    ASSUME NEW r \in Seq(Event), IsInjective(r),
           NEW events \in SUBSET Event, IsFiniteSet(events), events \cap ToSet(r) = {}
    PROVE  LET h == r \o InCycleOrder(events)
           IN  h \in Seq(Event) /\ ToSet(h) = ToSet(r) \cup events /\ IsInjective(h)
<1> DEFINE s == InCycleOrder(events)
           h == r \o s
<1>1. s \in Seq(Event) /\ ToSet(s) = events /\ IsInjective(s)
  BY HandsAll
<1> HIDE DEF s
<1>2. /\ h \in Seq(Event) /\ ToSet(h) = ToSet(r) \cup events
      /\ \A i \in DOMAIN h :
            \/ i \in DOMAIN r /\ h[i] = r[i]
            \/ i > Len(r) /\ i - Len(r) \in DOMAIN s /\ h[i] = s[i - Len(r)]
  BY <1>1, Concatenation
<1>3. DOMAIN h \subseteq Nat /\ Len(r) \in Nat
  BY <1>2
<1> HIDE DEF h
<1>4. ASSUME NEW i \in DOMAIN h, NEW j \in DOMAIN h, h[i] = h[j] PROVE i = j
  <2>1. (\A k \in DOMAIN r : r[k] \in ToSet(r)) /\ \A k \in DOMAIN s : s[k] \in events
    BY <1>1 DEF ToSet
  <2>2. CASE i \in DOMAIN r /\ h[i] = r[i] /\ j \in DOMAIN r /\ h[j] = r[j]
    BY <1>4, <2>2 DEF IsInjective
  <2>3. CASE /\ i - Len(r) \in DOMAIN s /\ h[i] = s[i - Len(r)]
             /\ j - Len(r) \in DOMAIN s /\ h[j] = s[j - Len(r)]
    <3>1. i - Len(r) = j - Len(r)
      BY <1>1, <1>4, <2>3 DEF IsInjective
    <3> QED
      BY <1>3, <3>1
  <2> QED
    BY <1>2, <1>4, <2>1, <2>2, <2>3
<1>5. IsInjective(h)
  BY <1>4 DEF IsInjective
<1> QED
  BY <1>2, <1>5 DEF h, s

(* A batch whose events are at most gap cycles older than anything handed  *)
(* out before keeps the history within that gap.                           *)
LEMMA HandWithin ==
    ASSUME NEW r \in Seq(Event), NEW gap \in Nat,
           \A i, j \in DOMAIN r : i < j => r[j].cycle >= r[i].cycle - gap,
           NEW events \in SUBSET Event, IsFiniteSet(events),
           \A old \in ToSet(r), new \in events : new.cycle >= old.cycle - gap
    PROVE  LET h == r \o InCycleOrder(events)
           IN  \A i, j \in DOMAIN h : i < j => h[j].cycle >= h[i].cycle - gap
<1> DEFINE s == InCycleOrder(events)
           h == r \o s
<1>1. /\ s \in Seq(Event) /\ ToSet(s) = events
      /\ \A i, j \in DOMAIN s : i < j => s[i].cycle <= s[j].cycle
  BY HandsAll
<1> HIDE DEF s
<1>2. /\ h \in Seq(Event)
      /\ \A i \in DOMAIN h :
            \/ i \in DOMAIN r /\ h[i] = r[i]
            \/ i > Len(r) /\ i - Len(r) \in DOMAIN s /\ h[i] = s[i - Len(r)]
  BY <1>1, Concatenation
<1>3. DOMAIN h \subseteq Nat /\ Len(r) \in Nat /\ DOMAIN r = 1..Len(r)
  BY <1>2
<1> HIDE DEF h
<1>4. \A i \in DOMAIN h : h[i] \in Event /\ h[i].cycle \in Nat
  <2>1. \A i \in DOMAIN h : h[i] \in Event
    BY <1>2
  <2> QED
    BY <2>1, ReorderAssumption DEF Event
<1>5. ASSUME NEW i \in DOMAIN h, NEW j \in DOMAIN h, i < j
      PROVE  h[j].cycle >= h[i].cycle - gap
  <2>1. CASE j \in DOMAIN r /\ h[j] = r[j]
    <3>1. i \in DOMAIN r /\ h[i] = r[i]
      BY <1>2, <1>3, <1>5, <2>1
    <3> QED
      BY <1>5, <2>1, <3>1
  <2>2. CASE /\ i \in DOMAIN r /\ h[i] = r[i]
             /\ j - Len(r) \in DOMAIN s /\ h[j] = s[j - Len(r)]
    <3>1. h[i] \in ToSet(r) /\ h[j] \in events
      BY <1>1, <2>2 DEF ToSet
    <3> QED
      BY <3>1
  <2>3. CASE /\ i - Len(r) \in DOMAIN s /\ h[i] = s[i - Len(r)]
             /\ j - Len(r) \in DOMAIN s /\ h[j] = s[j - Len(r)]
    <3>1. h[i].cycle <= h[j].cycle
      BY <1>1, <1>3, <1>5, <2>3
    <3> QED
      BY <1>4, <3>1
  <2> QED
    BY <1>2, <2>1, <2>2, <2>3
<1> QED
  BY <1>5 DEF h, s

-----------------------------------------------------------------------------
(* The inductive invariant.                                                *)

(* Calls are numbered without gaps.                                        *)
CallsInv == \E k \in 0..MaxObserved : Calls = 1..k

(* No event is newer than the newest cycle, and as long as an engine was   *)
(* not flushed everything it handed out is behind the watermark.           *)
HistoryInv ==
    \A e \in Engines :
        /\ \A ev \in engines[e].pending \cup ToSet(released[e]) :
              ev.cycle <= engines[e].max_cycle
        /\ e \notin flushed =>
              \A ev \in ToSet(released[e]) : ev.cycle <= Watermark(engines[e])

IInv ==
    /\ TypeOK
    /\ released \in [Engines -> Seq(Event)]
    /\ \A e \in Engines : IsFiniteSet(engines[e].pending)
    /\ CallsInv
    /\ HistoryInv
    /\ OnlyUnripeHeld
    /\ HandedOutOnce
    /\ ReleasedInOrder
    /\ DisorderBounded

(* Initially nothing is held and no call was made.                         *)
LEMMA InitIInv == Init => IInv
<1> SUFFICES ASSUME Init PROVE IInv
  OBVIOUS
<1>1. \A e \in Engines :
          /\ engines[e] = [max_cycle |-> 0, pending |-> {}]
          /\ released[e] = <<>> /\ refused[e] = {}
  BY DEF Init, EmptyBuffer
<1>2. /\ engines \in [Engines -> [max_cycle : Cycles \cup {0}, pending : SUBSET Event]]
      /\ released \in [Engines -> Seq(Event)] /\ refused \in [Engines -> SUBSET Event]
      /\ flushed \subseteq Engines
  BY DEF Init, EmptyBuffer
<1>3. TypeOK
  BY <1>2 DEF TypeOK
<1>4. \A e \in Engines : ToSet(released[e]) = {} /\ IsInjective(released[e])
  BY <1>1 DEF ToSet, IsInjective
<1>5. CallsInv
  <2>1. \A e \in Engines : Observed(e) = {}
    BY <1>1, <1>4 DEF Observed
  <2>2. Calls = {}
    BY <2>1 DEF Calls
  <2>3. 0 \in 0..MaxObserved /\ 1..0 = {}
    BY ReorderAssumption
  <2> QED
    BY <2>2, <2>3 DEF CallsInv
<1>6. HistoryInv /\ OnlyUnripeHeld /\ HandedOutOnce
  BY <1>1, <1>4 DEF HistoryInv, OnlyUnripeHeld, HandedOutOnce, Ripe
<1>7. ReleasedInOrder /\ DisorderBounded
  BY <1>1 DEF ReleasedInOrder, DisorderBounded
<1>8. \A e \in Engines : IsFiniteSet(engines[e].pending)
  <2>1. \A e \in Engines : engines[e].pending = {}
    BY <1>1
  <2> QED
    BY <2>1, FS_EmptySet
<1> QED
  BY <1>2, <1>3, <1>5, <1>6, <1>7, <1>8 DEF IInv

(* The event of a call is new: no engine has observed it.                  *)
LEMMA NewCall ==
    ASSUME IInv, NEW call, call = Cardinality(Calls) + 1, call <= MaxObserved
    PROVE  /\ call \in 1..MaxObserved /\ Calls = 1..(call - 1)
           /\ \A e \in Engines : \A ev \in Observed(e) : ev.call # call
<1>1. PICK k \in 0..MaxObserved : Calls = 1..k
  BY DEF IInv, CallsInv
<1>2. k \in Nat /\ MaxObserved \in Nat
  BY <1>1, ReorderAssumption
<1>3. Cardinality(Calls) = k
  BY <1>1, <1>2, FS_Interval
<1>4. call = k + 1 /\ call \in 1..MaxObserved /\ call - 1 = k
  BY <1>2, <1>3
<1>5. \A e \in Engines : \A ev \in Observed(e) : ev.call \in Calls
  BY DEF Calls
<1> QED
  BY <1>1, <1>2, <1>4, <1>5

-----------------------------------------------------------------------------
(* What observe and flush do to one buffer.                                *)

BufferOK(buffer) ==
    /\ buffer \in [max_cycle : Cycles \cup {0}, pending : SUBSET Event]
    /\ IsFiniteSet(buffer.pending)
    /\ Ripe(buffer) = {}
    /\ \A a, b \in buffer.pending : a.cycle = b.cycle => a = b
    /\ \A ev \in buffer.pending : ev.cycle <= buffer.max_cycle

(* new follows old and rel was released on the way: old's events and       *)
(* perhaps a further one are in exactly one of both, and nothing released  *)
(* was behind the old watermark.                                           *)
Releases(old, further, new, rel) ==
    /\ BufferOK(new)
    /\ new.pending \cup rel = old.pending \cup further
    /\ new.pending \cap rel = {}
    /\ new.max_cycle >= old.max_cycle
    /\ \A ev \in rel :
          /\ ev.cycle <= new.max_cycle
          /\ old.max_cycle # 0 => ev.cycle >= Watermark(old)

(* Cycles and the window are numbers.                                      *)
LEMMA Numbers ==
    /\ AllowedLateness \in Nat /\ MaxObserved \in Nat
    /\ \A ev \in Event : ev.cycle \in Nat /\ ev.cycle >= 1
    /\ \A c \in Cycles \cup {0} : c \in Nat
<1>1. \A c \in Cycles : c \in Nat /\ c >= 1
  BY ReorderAssumption
<1>2. \A ev \in Event : ev.cycle \in Cycles
  BY DEF Event
<1>3. \A ev \in Event : ev.cycle \in Nat /\ ev.cycle >= 1
  BY <1>1, <1>2
<1>4. AllowedLateness \in Nat /\ MaxObserved \in Nat
  BY LatenessAssumption, ReorderAssumption
<1> QED
  BY <1>1, <1>3, <1>4

(* observe() admitting an event.                                           *)
LEMMA ObserveReleasesRipe ==
    ASSUME NEW old, BufferOK(old), NEW event \in Event,
           ReorderStatus(old, event.cycle) = "buffered"
    PROVE  /\ Releases(old, {event}, ObserveLeaves(old, event), ObserveReleases(old, event))
           /\ \A ev \in ObserveReleases(old, event) :
                 ev.cycle <= Watermark(ObserveLeaves(old, event))
<1> DEFINE k == IF event.cycle > old.max_cycle THEN event.cycle ELSE old.max_cycle
           P == old.pending \cup {event}
           rel == {ev \in P : ev.cycle <= k - AllowedLateness}
           new == [max_cycle |-> k, pending |-> P \ rel]
<1>1. /\ old.max_cycle \in Cycles \cup {0} /\ old.pending \in SUBSET Event
      /\ event.cycle \in Cycles
      /\ old \in [max_cycle : Cycles \cup {0}, pending : SUBSET Event]
  BY DEF BufferOK, Event
<1>2. Admit(old, event) = [max_cycle |-> k, pending |-> P]
  BY DEF Admit
<1>3. ObserveReleases(old, event) = rel
  BY <1>2 DEF ObserveReleases, Ripe, Watermark
<1>4. ObserveLeaves(old, event) = new
  BY <1>2, <1>3 DEF ObserveLeaves, Drop
<1>5. /\ k \in Cycles \cup {0} /\ k \in Nat /\ k >= old.max_cycle /\ k >= event.cycle
      /\ old.max_cycle \in Nat /\ event.cycle \in Nat
  BY <1>1, Numbers
<1>6. \A ev \in P : ev.cycle \in Nat /\ ev.cycle <= k
  BY <1>1, <1>5, Numbers DEF BufferOK
<1>7. IsFiniteSet(P \ rel)
  <2>1. IsFiniteSet(P)
    BY FS_AddElement DEF BufferOK
  <2> QED
    BY <2>1, FS_Subset
<1>8. \A a, b \in P : a.cycle = b.cycle => a = b
  BY <1>1 DEF BufferOK, ReorderStatus
<1>9. Ripe(new) = {}
  BY <1>5, <1>6 DEF Ripe, Watermark
<1>10. new \in [max_cycle : Cycles \cup {0}, pending : SUBSET Event]
  BY <1>1, <1>5
<1>11. BufferOK(new)
  BY <1>6, <1>7, <1>8, <1>9, <1>10 DEF BufferOK
<1>12. ASSUME NEW ev \in rel, old.max_cycle # 0 PROVE ev.cycle >= Watermark(old)
  <2>1. CASE ev = event
    BY <1>5, <1>12, <2>1, Numbers DEF ReorderStatus, Watermark
  <2>2. CASE ev \in old.pending
    <3>1. ev.cycle > old.max_cycle - AllowedLateness
      BY <1>5, <1>6, <2>2, Numbers DEF BufferOK, Ripe, Watermark
    <3> QED
      BY <1>5, <1>6, <3>1, Numbers DEF Watermark
  <2> QED
    BY <2>1, <2>2
<1>13. \A ev \in rel : ev.cycle <= Watermark(new)
  BY DEF Watermark
<1>14. new.pending \cup rel = old.pending \cup {event} /\ new.pending \cap rel = {}
  OBVIOUS
<1>15. \A ev \in rel : ev.cycle <= new.max_cycle
  BY <1>6
<1>16. new.max_cycle >= old.max_cycle
  BY <1>5
<1> HIDE DEF new, rel
<1> QED
  BY <1>3, <1>4, <1>11, <1>12, <1>13, <1>14, <1>15, <1>16 DEF Releases

(* observe() answering "late" or "duplicate" changes nothing.              *)
LEMMA ObserveRefuses ==
    ASSUME NEW old, BufferOK(old), NEW event,
           ReorderStatus(old, event.cycle) # "buffered"
    PROVE  /\ Releases(old, {}, ObserveLeaves(old, event), ObserveReleases(old, event))
           /\ ObserveReleases(old, event) = {}
<1>1. ObserveLeaves(old, event) = old /\ ObserveReleases(old, event) = {}
  BY DEF ObserveLeaves, ObserveReleases
<1>2. old.max_cycle \in Nat
  BY Numbers DEF BufferOK
<1> QED
  BY <1>1, <1>2 DEF Releases

(* flush() releases everything, and keeps max_cycle.                       *)
LEMMA FlushReleasesAll ==
    ASSUME NEW old, BufferOK(old)
    PROVE  Releases(old, {}, FlushLeaves(old), FlushReleases(old))
<1> DEFINE new == [max_cycle |-> old.max_cycle, pending |-> {}]
<1>1. /\ old.max_cycle \in Cycles \cup {0} /\ old.pending \in SUBSET Event
      /\ old \in [max_cycle : Cycles \cup {0}, pending : SUBSET Event]
  BY DEF BufferOK
<1>2. FlushLeaves(old) = new /\ FlushReleases(old) = old.pending
  BY <1>1 DEF FlushLeaves, FlushReleases, Drop
<1>3. BufferOK(new)
  BY <1>1, FS_EmptySet DEF BufferOK, Ripe
<1>4. old.max_cycle \in Nat /\ \A ev \in old.pending : ev.cycle \in Nat
  BY <1>1, Numbers
<1>5. \A ev \in old.pending : ev.cycle >= Watermark(old)
  <2>1. \A ev \in old.pending : ~(ev.cycle <= Watermark(old))
    BY DEF BufferOK, Ripe
  <2> QED
    BY <1>4, <2>1, Numbers DEF Watermark
<1>6. \A ev \in old.pending : ev.cycle <= new.max_cycle
  BY DEF BufferOK
<1>7. new.max_cycle >= old.max_cycle /\ new.pending = {}
  BY <1>4
<1> HIDE DEF new
<1> QED
  BY <1>2, <1>3, <1>5, <1>6, <1>7 DEF Releases

-----------------------------------------------------------------------------
(* The steps.                                                              *)

(* The invariant says of every buffer what a call relies on.               *)
LEMMA BuffersOK == ASSUME IInv, NEW e \in Engines PROVE BufferOK(engines[e])
BY DEF IInv, TypeOK, HistoryInv, OnlyUnripeHeld, BufferOK

(* A call that releases rel from engine e's buffer keeps what is said of   *)
(* held events, order and disorder.  further is the event it observed.     *)
LEMMA CallKeeps ==
    ASSUME IInv, NEW e \in Engines, NEW new, NEW rel, NEW further \in SUBSET Event,
           Releases(engines[e], further, new, rel),
           \A f \in Engines : further \cap Observed(f) = {},
           IsFiniteSet(further),
           engines' = [engines EXCEPT ![e] = new],
           Hand(e, rel),
           flushed \subseteq flushed', flushed' \subseteq Engines,
           e \notin flushed' => \A ev \in rel : ev.cycle <= Watermark(new)
    PROVE  /\ engines' \in [Engines -> [max_cycle : Cycles \cup {0}, pending : SUBSET Event]]
           /\ released' \in [Engines -> Seq(Event)]
           /\ \A f \in Engines : IsFiniteSet(engines'[f].pending)
           /\ HistoryInv' /\ OnlyUnripeHeld' /\ ReleasedInOrder' /\ DisorderBounded'
           /\ \A f \in Engines :
                 /\ IsInjective(released'[f])
                 /\ engines'[f].pending \cap ToSet(released'[f]) = {}
           /\ engines'[e].pending \cup ToSet(released'[e])
              = engines[e].pending \cup ToSet(released[e]) \cup further
           /\ \A f \in Engines :
                 f # e => engines'[f] = engines[f] /\ released'[f] = released[f]
<1> DEFINE old == engines[e]
           r == released[e]
           h == r \o InCycleOrder(rel)
<1>1. BufferOK(old) /\ BufferOK(new)
  BY BuffersOK DEF Releases
<1>2. /\ engines \in [Engines -> [max_cycle : Cycles \cup {0}, pending : SUBSET Event]]
      /\ released \in [Engines -> Seq(Event)] /\ r \in Seq(Event)
  BY DEF IInv, TypeOK
<1>3. /\ engines'[e] = new
      /\ \A f \in Engines : f # e => engines'[f] = engines[f]
      /\ engines' \in [Engines -> [max_cycle : Cycles \cup {0}, pending : SUBSET Event]]
  BY <1>1, <1>2 DEF BufferOK
<1>4. rel \in SUBSET Event /\ IsFiniteSet(rel)
  <2>1. rel \in SUBSET (old.pending \cup further) /\ old.pending \in SUBSET Event
    BY <1>1 DEF Releases, BufferOK
  <2>2. IsFiniteSet(old.pending \cup further)
    BY <1>1, FS_Union DEF BufferOK
  <2> QED
    BY <2>1, <2>2, FS_Subset
<1>5. old.pending \cap ToSet(r) = {} /\ further \cap ToSet(r) = {} /\ IsInjective(r)
  BY DEF IInv, HandedOutOnce, Observed
<1>6. rel \cap ToSet(r) = {} /\ new.pending \cap ToSet(r) = {} /\ new.pending \cap rel = {}
  BY <1>5 DEF Releases
<1>7. h \in Seq(Event) /\ ToSet(h) = ToSet(r) \cup rel /\ IsInjective(h)
  BY <1>2, <1>4, <1>5, <1>6, HandOnce
<1>8. /\ released'[e] = h
      /\ \A f \in Engines : f # e => released'[f] = released[f]
      /\ released' \in [Engines -> Seq(Event)]
  BY <1>2, <1>7 DEF Hand
<1>9. /\ old.max_cycle \in Nat /\ new.max_cycle \in Nat
      /\ \A ev \in ToSet(r) \cup rel \cup new.pending : ev.cycle \in Nat /\ ev.cycle >= 1
  <2>1. ToSet(r) \subseteq Event
    BY <1>2 DEF ToSet
  <2>2. old.max_cycle \in Cycles \cup {0} /\ new.max_cycle \in Cycles \cup {0}
        /\ new.pending \subseteq Event
    BY <1>1 DEF BufferOK
  <2> QED
    BY <1>4, <2>1, <2>2, Numbers
<1>10. /\ \A ev \in ToSet(r) : ev.cycle <= old.max_cycle
       /\ e \notin flushed => \A ev \in ToSet(r) : ev.cycle <= Watermark(old)
  BY DEF IInv, HistoryInv
<1>11. /\ new.max_cycle >= old.max_cycle
       /\ \A ev \in rel : ev.cycle <= new.max_cycle
                          /\ (old.max_cycle # 0 => ev.cycle >= Watermark(old))
  BY DEF Releases
<1>12. \A f \in Engines : IsFiniteSet(engines'[f].pending)
  BY <1>1, <1>3 DEF IInv, BufferOK
<1>13. HistoryInv'
  <2>1. ASSUME NEW ev \in new.pending \cup ToSet(h) PROVE ev.cycle <= new.max_cycle
    <3>1. CASE ev \in new.pending
      BY <1>1, <3>1 DEF BufferOK
    <3>2. CASE ev \in ToSet(r)
      BY <1>9, <1>10, <1>11, <3>2
    <3>3. CASE ev \in rel
      BY <1>11, <3>3
    <3> QED
      BY <1>7, <3>1, <3>2, <3>3
  <2>2. ASSUME e \notin flushed', NEW ev \in ToSet(h) PROVE ev.cycle <= Watermark(new)
    <3>1. CASE ev \in ToSet(r)
      BY <1>9, <1>10, <1>11, <2>2, <3>1, Numbers DEF Watermark
    <3>2. CASE ev \in rel
      BY <2>2, <3>2
    <3> QED
      BY <1>7, <2>2, <3>1, <3>2
  <2>3. ASSUME NEW f \in Engines, f # e
        PROVE  /\ \A ev \in engines'[f].pending \cup ToSet(released'[f]) :
                     ev.cycle <= engines'[f].max_cycle
               /\ f \notin flushed' =>
                     \A ev \in ToSet(released'[f]) : ev.cycle <= Watermark(engines'[f])
    BY <1>3, <1>8, <2>3 DEF IInv, HistoryInv
  <2> QED
    BY <1>3, <1>8, <2>1, <2>2, <2>3 DEF HistoryInv
<1>14. OnlyUnripeHeld'
  <2>1. Ripe(new) = {} /\ \A a, b \in new.pending : a.cycle = b.cycle => a = b
    BY <1>1 DEF BufferOK
  <2> QED
    BY <1>3, <2>1 DEF IInv, OnlyUnripeHeld
<1>15. \A before \in ToSet(r), after \in rel :
           /\ after.cycle >= before.cycle - AllowedLateness
           /\ e \notin flushed' => after.cycle >= before.cycle - 0
  BY <1>9, <1>10, <1>11, Numbers DEF Watermark
<1>16. DisorderBounded'
  <2>1. \A i, j \in DOMAIN r : i < j => r[j].cycle >= r[i].cycle - AllowedLateness
    BY DEF IInv, DisorderBounded
  <2>2. \A i, j \in DOMAIN h : i < j => h[j].cycle >= h[i].cycle - AllowedLateness
    BY <1>2, <1>4, <1>15, <2>1, HandWithin, Numbers
  <2> HIDE DEF h
  <2> QED
    BY <1>8, <2>2 DEF IInv, DisorderBounded
<1>17. ReleasedInOrder'
  <2>1. ASSUME e \notin flushed'
        PROVE  \A i, j \in DOMAIN h : i < j => h[i].cycle <= h[j].cycle
    <3>1. \A i \in DOMAIN r : r[i] \in ToSet(r)
      BY DEF ToSet
    <3>2. \A i, j \in DOMAIN r : i < j => r[j].cycle >= r[i].cycle - 0
      BY <1>9, <2>1, <3>1 DEF IInv, ReleasedInOrder
    <3>3. \A i, j \in DOMAIN h : i < j => h[j].cycle >= h[i].cycle - 0
      BY <1>2, <1>4, <1>15, <2>1, <3>2, HandWithin
    <3>4. \A i \in DOMAIN h : h[i] \in ToSet(r) \cup rel
      BY <1>7 DEF ToSet
    <3> HIDE DEF h
    <3> QED
      BY <1>9, <3>3, <3>4
  <2> HIDE DEF h
  <2> QED
    BY <1>8, <2>1 DEF IInv, ReleasedInOrder
<1>18. ASSUME NEW f \in Engines
       PROVE  IsInjective(released'[f]) /\ engines'[f].pending \cap ToSet(released'[f]) = {}
  <2>1. CASE f = e
    BY <1>3, <1>6, <1>7, <1>8, <2>1
  <2>2. CASE f # e
    BY <1>3, <1>8, <2>2 DEF IInv, HandedOutOnce
  <2> QED
    BY <2>1, <2>2
<1>19. engines'[e].pending \cup ToSet(released'[e])
       = engines[e].pending \cup ToSet(released[e]) \cup further
  BY <1>3, <1>7, <1>8 DEF Releases
<1> HIDE DEF h
<1> QED
  BY <1>3, <1>8, <1>12, <1>13, <1>14, <1>16, <1>17, <1>18, <1>19

(* Once the events held, handed out and refused are accounted for, the     *)
(* rest of the invariant follows.                                          *)
LEMMA Accounted ==
    ASSUME IInv, NEW e \in Engines,
           engines' \in [Engines -> [max_cycle : Cycles \cup {0}, pending : SUBSET Event]],
           released' \in [Engines -> Seq(Event)],
           refused' \in [Engines -> SUBSET Event], flushed' \subseteq Engines,
           \A f \in Engines : IsFiniteSet(engines'[f].pending),
           HistoryInv', OnlyUnripeHeld', ReleasedInOrder', DisorderBounded',
           \A f \in Engines :
              /\ IsInjective(released'[f])
              /\ engines'[f].pending \cap ToSet(released'[f]) = {},
           refused'[e] \cap (engines'[e].pending \cup ToSet(released'[e])) = {},
           \A f \in Engines : f # e =>
              /\ engines'[f] = engines[f] /\ released'[f] = released[f]
              /\ refused'[f] = refused[f],
           CallsInv'
    PROVE  IInv'
<1>1. TypeOK'
  BY DEF TypeOK
<1>2. HandedOutOnce'
  <2>1. ASSUME NEW f \in Engines
        PROVE  refused'[f] \cap (engines'[f].pending \cup ToSet(released'[f])) = {}
    BY DEF IInv, HandedOutOnce
  <2> QED
    BY <2>1 DEF HandedOutOnce
<1> QED
  BY <1>1, <1>2 DEF IInv

(* observe() keeps the invariant.                                          *)
LEMMA ObserveKeeps ==
    ASSUME IInv, NEW e \in Engines, NEW cycle \in Cycles, Observe(e, cycle)
    PROVE  IInv'
<1> DEFINE call == Cardinality(Calls) + 1
           event == [cycle |-> cycle, call |-> call]
           new == ObserveLeaves(engines[e], event)
           rel == ObserveReleases(engines[e], event)
<1>1. call <= MaxObserved
  BY DEF Observe
<1>2. /\ call \in 1..MaxObserved /\ Calls = 1..(call - 1)
      /\ \A f \in Engines : \A ev \in Observed(f) : ev.call # call
  BY <1>1, NewCall
<1>3. event \in Event /\ event.call = call /\ event.cycle = cycle
  BY <1>2 DEF Event
<1>4. \A f \in Engines : event \notin Observed(f)
  BY <1>2, <1>3
<1>5. /\ engines' = [engines EXCEPT ![e] = new] /\ Hand(e, rel)
      /\ refused' = IF ReorderStatus(engines[e], event.cycle) = "buffered"
                    THEN refused ELSE [refused EXCEPT ![e] = @ \cup {event}]
      /\ flushed' = flushed
  BY DEF Observe
<1>6. refused \in [Engines -> SUBSET Event] /\ flushed \subseteq Engines
  BY DEF IInv, TypeOK
<1>7. BufferOK(engines[e])
  BY BuffersOK
<1> HIDE DEF call, event, new, rel
<1> DEFINE Moved(further) ==
             /\ engines' \in [Engines -> [max_cycle : Cycles \cup {0}, pending : SUBSET Event]]
             /\ released' \in [Engines -> Seq(Event)]
             /\ \A f \in Engines : IsFiniteSet(engines'[f].pending)
             /\ HistoryInv' /\ OnlyUnripeHeld' /\ ReleasedInOrder' /\ DisorderBounded'
             /\ \A f \in Engines :
                   /\ IsInjective(released'[f])
                   /\ engines'[f].pending \cap ToSet(released'[f]) = {}
             /\ engines'[e].pending \cup ToSet(released'[e])
                = engines[e].pending \cup ToSet(released[e]) \cup further
             /\ \A f \in Engines :
                   f # e => engines'[f] = engines[f] /\ released'[f] = released[f]
<1>8. /\ \E further \in SUBSET {event} : Moved(further)
      /\ refused' \in [Engines -> SUBSET Event]
      /\ refused'[e] \cap (engines'[e].pending \cup ToSet(released'[e])) = {}
      /\ \A f \in Engines : f # e => refused'[f] = refused[f]
      /\ Observed(e)' = Observed(e) \cup {event}
  <2>1. CASE ReorderStatus(engines[e], event.cycle) = "buffered"
    <3>1. Releases(engines[e], {event}, new, rel) /\ \A ev \in rel : ev.cycle <= Watermark(new)
      BY <1>3, <1>7, <2>1, ObserveReleasesRipe DEF new, rel
    <3>2. IsFiniteSet({event}) /\ {event} \in SUBSET Event
      BY <1>3, FS_Singleton
    <3>. DEFINE further == {event}
    <3>6. \A f \in Engines : further \cap Observed(f) = {}
      BY <1>4
    <3>7. /\ flushed \subseteq flushed' /\ flushed' \subseteq Engines
          /\ e \notin flushed' => \A ev \in rel : ev.cycle <= Watermark(new)
      BY <1>5, <1>6, <3>1
    <3>8. /\ Releases(engines[e], further, new, rel)
          /\ IsFiniteSet(further) /\ further \in SUBSET Event
      BY <3>1, <3>2
    <3>9. engines' = [engines EXCEPT ![e] = new] /\ Hand(e, rel)
      BY <1>5
    <3> HIDE DEF further
    <3>10. Moved(further)
      BY <3>6, <3>7, <3>8, <3>9, CallKeeps
    <3>3. Moved({event})
      BY <3>10 DEF further
    <3>4. refused' = refused
      BY <1>5, <2>1
    <3>5. /\ refused[e] \cap (engines[e].pending \cup ToSet(released[e])) = {}
          /\ event \notin refused[e]
      BY <1>4 DEF IInv, HandedOutOnce, Observed
    <3> QED
      BY <1>6, <3>3, <3>4, <3>5 DEF Observed
  <2>2. CASE ReorderStatus(engines[e], event.cycle) # "buffered"
    <3>1. Releases(engines[e], {}, new, rel) /\ rel = {}
      BY <1>7, <2>2, ObserveRefuses DEF new, rel
    <3>2. IsFiniteSet({}) /\ {} \in SUBSET Event
      BY FS_EmptySet
    <3>. DEFINE further == {}
    <3>6. \A f \in Engines : further \cap Observed(f) = {}
      OBVIOUS
    <3>7. /\ flushed \subseteq flushed' /\ flushed' \subseteq Engines
          /\ e \notin flushed' => \A ev \in rel : ev.cycle <= Watermark(new)
      BY <1>5, <1>6, <3>1
    <3>8. /\ Releases(engines[e], further, new, rel)
          /\ IsFiniteSet(further) /\ further \in SUBSET Event
      BY <3>1, <3>2
    <3>9. engines' = [engines EXCEPT ![e] = new] /\ Hand(e, rel)
      BY <1>5
    <3> HIDE DEF further
    <3>10. Moved(further)
      BY <3>6, <3>7, <3>8, <3>9, CallKeeps
    <3>3. Moved({})
      BY <3>10 DEF further
    <3>4. /\ refused' = [refused EXCEPT ![e] = @ \cup {event}]
          /\ refused'[e] = refused[e] \cup {event}
      BY <1>5, <1>6, <2>2
    <3>5. /\ refused[e] \cap (engines[e].pending \cup ToSet(released[e])) = {}
          /\ event \notin engines[e].pending \cup ToSet(released[e])
      BY <1>4 DEF IInv, HandedOutOnce, Observed
    <3> QED
      BY <1>3, <1>6, <3>3, <3>4, <3>5 DEF Observed
  <2> QED
    BY <2>1, <2>2
<1>9. \A f \in Engines : f # e => Observed(f)' = Observed(f)
  BY <1>8 DEF Observed
<1>10. Calls' = Calls \cup {call}
  <2>1. \A c : c \in Calls <=> \E f \in Engines : \E ev \in Observed(f) : c = ev.call
    BY DEF Calls
  <2>2. \A c : c \in Calls' <=> \E f \in Engines : \E ev \in Observed(f)' : c = ev.call
    BY DEF Calls
  <2> HIDE DEF Moved
  <2>3. ASSUME NEW c PROVE c \in Calls' <=> c \in Calls \/ c = call
    BY <1>3, <1>8, <1>9, <2>1, <2>2
  <2> QED
    BY <2>3
<1>11. CallsInv'
  <2>1. Calls' = 1..call
    BY <1>2, <1>10
  <2>2. call \in 0..MaxObserved
    BY <1>2
  <2> QED
    BY <2>1, <2>2 DEF CallsInv
<1> QED
  BY <1>5, <1>6, <1>8, <1>11, Accounted

(* flush() keeps the invariant.                                            *)
LEMMA FlushKeeps ==
    ASSUME IInv, NEW e \in Engines, Flush(e)
    PROVE  IInv'
<1> DEFINE new == FlushLeaves(engines[e])
           rel == FlushReleases(engines[e])
<1>1. /\ engines' = [engines EXCEPT ![e] = new] /\ Hand(e, rel)
      /\ refused' = refused /\ flushed' = flushed \cup {e}
  BY DEF Flush
<1>2. Releases(engines[e], {}, new, rel)
  BY BuffersOK, FlushReleasesAll
<1>3. refused \in [Engines -> SUBSET Event] /\ flushed \subseteq Engines
  BY DEF IInv, TypeOK
<1> HIDE DEF new, rel
<1> DEFINE further == {}
<1>4. /\ IsFiniteSet(further) /\ further \in SUBSET Event
      /\ \A f \in Engines : further \cap Observed(f) = {}
      /\ Releases(engines[e], further, new, rel)
  BY <1>2, FS_EmptySet
<1>9. /\ flushed \subseteq flushed' /\ flushed' \subseteq Engines
      /\ e \notin flushed' => \A ev \in rel : ev.cycle <= Watermark(new)
  BY <1>1, <1>3
<1> HIDE DEF further
<1>5. /\ engines' \in [Engines -> [max_cycle : Cycles \cup {0}, pending : SUBSET Event]]
      /\ released' \in [Engines -> Seq(Event)]
      /\ \A f \in Engines : IsFiniteSet(engines'[f].pending)
      /\ HistoryInv' /\ OnlyUnripeHeld' /\ ReleasedInOrder' /\ DisorderBounded'
      /\ \A f \in Engines :
            /\ IsInjective(released'[f])
            /\ engines'[f].pending \cap ToSet(released'[f]) = {}
      /\ engines'[e].pending \cup ToSet(released'[e])
         = engines[e].pending \cup ToSet(released[e]) \cup further
      /\ \A f \in Engines :
            f # e => engines'[f] = engines[f] /\ released'[f] = released[f]
  BY <1>1, <1>4, <1>9, CallKeeps
<1>6. refused'[e] \cap (engines'[e].pending \cup ToSet(released'[e])) = {}
  BY <1>1, <1>5 DEF IInv, HandedOutOnce, further
<1>7. \A f \in Engines : Observed(f)' = Observed(f)
  BY <1>1, <1>5 DEF Observed, further
<1>8. CallsInv'
  <2>1. Calls' = Calls
    BY <1>7 DEF Calls
  <2> QED
    BY <2>1 DEF IInv, CallsInv
<1> QED
  BY <1>1, <1>3, <1>5, <1>6, <1>8, Accounted

(* A stuttering step keeps the invariant.                                  *)
LEMMA StutterKeeps == ASSUME IInv, UNCHANGED vars PROVE IInv'
BY DEF IInv, vars, TypeOK, CallsInv, Calls, Observed, HistoryInv, OnlyUnripeHeld,
       HandedOutOnce, ReleasedInOrder, DisorderBounded

(* The inductive invariant of the buffer.                                  *)
THEOREM Invariance == Spec => []IInv
<1>1. Init => IInv
  BY InitIInv
<1>2. IInv /\ [Next]_vars => IInv'
  BY ObserveKeeps, FlushKeeps, StutterKeeps DEF Next
<1> QED
  BY <1>1, <1>2, PTL DEF Spec

(* EventTimeReorderBuffer's dictionary holds one buffer of events per      *)
(* engine, and what observe() and flush() return are events.               *)
THEOREM TypeCorrect == Spec => []TypeOK
<1>1. IInv => TypeOK
  BY DEF IInv
<1> QED
  BY <1>1, Invariance, PTL

(* After every observe() and flush(), in any order, nothing held is        *)
(* overdue and no two held events share a cycle.                           *)
THEOREM NothingRipeHeld == Spec => []OnlyUnripeHeld
<1>1. IInv => OnlyUnripeHeld
  BY DEF IInv
<1> QED
  BY <1>1, Invariance, PTL

(* An admitted event is held or handed out once, a refused one never.      *)
THEOREM NeverHandedOutAgain == Spec => []HandedOutOnce
<1>1. IInv => HandedOutOnce
  BY DEF IInv
<1> QED
  BY <1>1, Invariance, PTL

(* Without a flush, observe() hands events out in event-time order, over   *)
(* any number of calls.                                                    *)
THEOREM ReleaseOrder == Spec => []ReleasedInOrder
<1>1. IInv => ReleasedInOrder
  BY DEF IInv
<1> QED
  BY <1>1, Invariance, PTL

(* With flushes (which keep max_cycle but forget the cycles handed out)    *)
(* the order is broken by at most allowed_lateness cycles.                 *)
THEOREM BoundedDisorder == Spec => []DisorderBounded
<1>1. IInv => DisorderBounded
  BY DEF IInv
<1> QED
  BY <1>1, Invariance, PTL
=============================================================================
