---------------------------- MODULE DurableIngest ----------------------------
(***************************************************************************)
(* What the platform promises a producer, without saying how: messages are *)
(* accepted in order, acknowledged in order, and no acknowledged message   *)
(* is ever lost.  A malformed one is set aside; a valid one is held until  *)
(* its event is settled, once, for all the copies of it that were          *)
(* accepted.  TelemetryConsumer implements this with a broker offset, a    *)
(* staging table and a store.                                              *)
(***************************************************************************)
EXTENDS Naturals, Sequences

CONSTANTS Message, Malformed

VARIABLES
    inbox,   \* the messages accepted, in order
    fate     \* what became of each of them

ingestVars == <<inbox, fate>>

IngestInit ==
    /\ inbox = <<>>
    /\ fate = <<>>

Accept(m) ==
    /\ inbox' = Append(inbox, m)
    /\ fate' = Append(fate, "queued")

(* The fates message o may get when it is acknowledged.                    *)
Fates(o) ==
    IF inbox[o] \notin Message THEN {"dead"}
    ELSE IF \E p \in DOMAIN inbox :
                /\ inbox[p] \in Message
                /\ inbox[p].event_id = inbox[o].event_id
                /\ fate[p] = "settled"
         THEN {"settled"}
         ELSE {"held", "settled"}

AcknowledgeNext ==
    \E o \in DOMAIN inbox :
        /\ fate[o] = "queued"
        /\ \A p \in DOMAIN inbox : p < o => fate[p] # "queued"
        /\ \E f \in Fates(o) : fate' = [fate EXCEPT ![o] = f]
        /\ UNCHANGED inbox

Held(m, o) ==
    /\ inbox[o] \in Message
    /\ inbox[o].event_id = m.event_id
    /\ fate[o] = "held"

Settle(m) ==
    /\ \E o \in DOMAIN inbox : Held(m, o)
    /\ fate' = [o \in DOMAIN inbox |-> IF Held(m, o) THEN "settled" ELSE fate[o]]
    /\ UNCHANGED inbox

IngestNext ==
    \/ \E m \in Message \cup Malformed : Accept(m)
    \/ AcknowledgeNext
    \/ \E m \in Message : Settle(m)

IngestSafety == IngestInit /\ [][IngestNext]_ingestVars

IngestFairness ==
    /\ WF_ingestVars(AcknowledgeNext)
    /\ \A m \in Message : WF_ingestVars(Settle(m))

IngestSpec == IngestSafety /\ IngestFairness
=============================================================================
