---------------------------- MODULE EventRegister ----------------------------
(***************************************************************************)
(* What storing an event promises each of many clients at once, without    *)
(* saying how: an identity keeps the first content that was stored, and    *)
(* every answer is true.  IngestTransactions implements this with several  *)
(* statements per request, at READ COMMITTED.                              *)
(***************************************************************************)
CONSTANTS Message, NoEvent

VARIABLES
    rows,    \* the events stored
    refused, \* the events refused, each for another one of its identity
    answer   \* what the last step answered, to whoever asked, or NoEvent

registerVars == <<rows, refused, answer>>

RegisterInit ==
    /\ rows = {}
    /\ refused = {}
    /\ answer = NoEvent

(* An answer may be lost.                                                  *)
Answer(m, outcome) == answer' \in {NoEvent, [event |-> m, outcome |-> outcome]}

Insert(m) ==
    /\ \A r \in rows : r.event_id # m.event_id
    /\ rows' = rows \cup {m}
    /\ Answer(m, "inserted")
    /\ UNCHANGED refused

Repeat(m) ==
    /\ m \in rows
    /\ Answer(m, "duplicate")
    /\ UNCHANGED <<rows, refused>>

Refuse(m) ==
    /\ \E r \in rows : r.event_id = m.event_id /\ r # m
    /\ refused' = refused \cup {m}
    /\ Answer(m, "conflict")
    /\ UNCHANGED rows

(* A request fails without an effect, or nothing is answered.              *)
Fail(m) == Answer(m, "failed") /\ UNCHANGED <<rows, refused>>

RegisterNext == \E m \in Message : Insert(m) \/ Repeat(m) \/ Refuse(m) \/ Fail(m)

RegisterSpec == RegisterInit /\ [][RegisterNext]_registerVars

=============================================================================
