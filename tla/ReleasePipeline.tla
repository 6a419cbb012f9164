-------------------------- MODULE ReleasePipeline --------------------------
(***************************************************************************)
(* The way of a model release: the candidate pipeline prepares data,       *)
(* trains, packages and registers, while operators prepare data by hand,   *)
(* review, approve and promote, and workers resolve and serve the          *)
(* champion.                                                               *)
(***************************************************************************)
EXTENDS CandidatePipeline

ASSUME ReleaseAssumption ==
    /\ {1, 2} \subseteq Releases \ Unnameable
    /\ Releases \subseteq Nat /\ NoRelease = 0
    /\ MaxVersions >= 2 /\ MaxDecisions >= 4  \* the starting situations fit

CONSTANTS
    Sources,     \* contents the pinned archive may have
    NewDecisions \* bound: decisions after the starting situation

ASSUME SourcesAssumption == Sources \subseteq Source

VARIABLE earlier \* decisions of the starting situation (bounds the model)

allVars == <<vars, earlier>>

(* Nothing has been prepared or registered.  A source that no run can be   *)
(* trained on is only tried with tracking on: bounds the model.            *)
EmptyStart ==
    /\ source \in Sources
    /\ NothingPrepared
    /\ RegistryInit
    /\ NothingBuilt
    /\ ~tracking => ValidationStatus(source) = "PASSED"
    /\ earlier = 0

(* Release 1 is the champion, their runs are over, and an operator is      *)
(* promoting release 2: the record is written, no alias is moved yet.      *)
Promoter == CHOOSE o \in Operators : TRUE

Concluded(kind, v, a) ==
    [NewDecision(kind, v, a) EXCEPT !.status = "FINISHED", !.concluded = TRUE]

ChampionStart ==
    /\ source \in {s \in Sources : ValidationStatus(s) = "PASSED"}
    /\ archive = "pinned"
    /\ raw = TRUE
    /\ interim = [status |-> "PASSED", intact |-> TRUE]
    /\ quarantine = "none"
    /\ preparer = [p \in Preparers |-> Idle]
    /\ versions =
         << [CandidateVersion(1) EXCEPT
                !.source = "FINISHED", !.approved = TRUE, !.approval_run = 1,
                !.approval_sha = 1, !.promotion_run = 2, !.promotion_sha = 2],
            [CandidateVersion(2) EXCEPT
                !.source = "FINISHED", !.approved = TRUE, !.approval_run = 3,
                !.approval_sha = 3] >>
    /\ decisions =
         << Concluded("approval", 1, 0), Concluded("promotion", 1, 1),
            Concluded("approval", 2, 0), NewDecision("promotion", 2, 3) >>
    /\ alias = [champion |-> 1, previous |-> 0]
    /\ registration = NoRegistration
    /\ command = [o \in Operators |->
         IF o # Promoter THEN NoCommand
         ELSE [pc |-> "set_previous", version |-> 2, run |-> 4, approval |-> 3,
               old_champion |-> 1, old_previous |-> 0, undisturbed |-> TRUE]]
    /\ worker = [w \in Workers |-> NoResolution]
    /\ dag = NoRun
    /\ started = {1, 2}
    /\ succeeded = {1, 2}
    /\ artifacts = [t \in Publishing |-> {1, 2}]
    /\ tracking = TRUE
    /\ tracked = {1, 2}
    /\ granted = TRUE
    /\ earlier = 3

Init == EmptyStart \/ ChampionStart

-----------------------------------------------------------------------------
(* Bounds of the model: an engineer only starts while there is no          *)
(* publication (a preparer that finds one changes nothing), files are only *)
(* damaged before they are used, and the registry's people wait for the    *)
(* engineer and for the run, with whose last tasks they share nothing.     *)
Engineers == Preparers \ {Scheduler}

EngineerActs ==
    /\ \/ interim = Unpublished /\ \E force \in BOOLEAN : Download(force)
       \/ /\ interim = Unpublished
          /\ \E p \in Engineers, allow \in BOOLEAN : StartPreparing(p, allow)
       \/ \E p \in Engineers : Prepare(p) \/ EndPreparing(p)
    /\ UNCHANGED <<registryVars, pipelineVars>>

FilesDamaged ==
    /\ dag.task \in {"none", "prepare", "train"} /\ versions = <<>>
    /\ DamagePublication
    /\ UNCHANGED <<registryVars, pipelineVars>>

(* Runs are numbered, and start while the registry is empty: bounds the    *)
(* model to one pipeline beside the operators.                             *)
RunStarts == versions = <<>> /\ StartRun(Cardinality(started) + 1)

ReviewerActs == dag.task = "review" /\ \E value \in BOOLEAN : SetGranted(value)

OperatorOrWorker ==
    /\ \A p \in Engineers : At(p, "idle")
    /\ dag.task = "none"
    /\ 2 \in started => earlier > 0
    /\ OperateAndServe
    /\ Len(decisions') <= earlier + NewDecisions
    /\ \A o \in Operators :
          command[o].pc = "idle" /\ command'[o].pc # "idle" =>
             /\ Len(decisions) < earlier + NewDecisions
             /\ earlier > 0 => o # Promoter
    /\ UNCHANGED <<dataVars, pipelineVars>>

Next ==
    /\ \/ EngineerActs
       \/ FilesDamaged
       \/ RunStarts
       \/ PipelineStep
       \/ SchedulerPrepares
       \/ RegistrationStep
       \/ ReviewerActs
       \/ OperatorOrWorker
    /\ UNCHANGED earlier

(* Airflow goes on with a run, and the task's processes run or end; the    *)
(* sensor is poked or times out.                                           *)
PipelineFairness ==
    /\ WF_allVars(PipelineStep /\ UNCHANGED earlier)
    /\ WF_allVars(SchedulerPrepares /\ UNCHANGED earlier)
    /\ WF_allVars(/\ \E p \in Engineers : Prepare(p) \/ EndPreparing(p)
                  /\ UNCHANGED <<registryVars, pipelineVars, earlier>>)
    /\ WF_allVars(RegistrationStep /\ UNCHANGED earlier)

(* A worker is restarted until it serves (compose: unless-stopped), and    *)
(* none of its calls fails forever.                                        *)
ServingFairness ==
    \A w \in Workers :
        \A step \in {"resolve", "verify", "load"} :
            SF_allVars(/\ worker[w].pc = step
                       /\ Resolve(w)
                       /\ UNCHANGED <<dataVars, pipelineVars, earlier>>)

Spec == Init /\ [][Next]_allVars /\ PipelineFairness /\ ServingFairness

AllTypesOK == TypeOK /\ DataTypeOK /\ PipelineTypeOK

=============================================================================
