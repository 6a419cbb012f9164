------------------------------ MODULE Operations ------------------------------
(***************************************************************************)
(* The operational side together: clients ingest and score events at once, *)
(* the API reads what they commit, and the scheduled run counts it.        *)
(***************************************************************************)
EXTENDS IngestTransactions, OperationalReads, Monitoring

vars == <<ingestVars, detail, monitoringVars>>

OperationsInit == IngestInit /\ detail = NoDetail /\ MonitoringInit

CONSTANTS
    Watched, \* the events ingested while the DAG runs; the others race
    Flushed  \* the events an idle flush may release

ASSUME WatchedAssumption == Watched \subseteq Message /\ Flushed \subseteq Message

Idle(c) == tx[c].pc = "idle"

(* Bounds.  While the DAG is paused, clients interleave with each other    *)
(* and, once at most one is left, with a detail being read.  While it runs,*)
(* one client at a time is let in, between two runs, events the job raises *)
(* for come while no check failed, and failed checks while there are no    *)
(* such events; a torn history fails every run, whatever else happens.     *)
Troubled == conflict_issues # {} \/ NullMeasured \cap telemetry # {}

Failing ==
    \/ degraded_mae \/ torn \/ latch
    \/ \E i \in DOMAIN history : history[i] # {}

MayBegin ==
    \/ /\ scheduled /\ ~Failing
       /\ run.pc \in {"idle", "done"} /\ \A d \in Clients : Idle(d)
    \/ ~scheduled /\ detail.pc = "idle"

MayRead == ~scheduled /\ \E c \in Clients : \A d \in Clients \ {c} : Idle(d)

MayRun == scheduled /\ \A c \in Clients : Idle(c)

Scheduled == ScheduledRun \/ WindowMoves \/ (~Troubled /\ ~torn /\ (RecordOutcome \/ Drill))

Offered == IF scheduled THEN Watched ELSE Message \ NullMeasured

Ingest(c) ==
    /\ \/ Statement(c)
       \/ /\ MayBegin
          /\ \E m \in Offered, expired \in BOOLEAN :
                (expired => m \in Flushed) /\ Request(c, m, expired)
    /\ WindowFollowsStore
    /\ UNCHANGED <<detail, scheduled, degraded_mae, run, ReportVars, latch, requested>>

Read ==
    /\ MayRead /\ ReadDetail
    /\ answer' = NoEvent
    /\ UNCHANGED <<tx, openers, monitoringVars>>

Monitor ==
    /\ MayRun /\ Scheduled
    /\ answer' = NoEvent
    /\ UNCHANGED <<storeVars, tx, openers, detail>>

Next == (\E c \in Clients : Ingest(c)) \/ Read \/ Monitor

Spec == OperationsInit /\ [][Next]_vars /\ MonitoringFairness

-----------------------------------------------------------------------------
OperationsTypeOK == IngestTypeOK /\ DetailTypeOK /\ MonitoringTypeOK

=============================================================================
