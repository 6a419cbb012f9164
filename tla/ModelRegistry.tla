--------------------------- MODULE ModelRegistry ---------------------------
(***************************************************************************)
(* The MLflow model registry and the commands that work on it:             *)
(* register_candidate (training/registry.py), approve_candidate            *)
(* (training/approval.py), promote_approved_model (training/promotion.py)  *)
(* and resolve_champion (inference/registry.py).                           *)
(*                                                                         *)
(* MLflow has no transactions: every command is a sequence of calls, each  *)
(* of which may fail, may succeed and lose its answer, or may be the last  *)
(* one before the process is killed.  Reads that only feed a record nobody *)
(* reads again, and calls that only touch an object nobody else refers to  *)
(* yet, are merged with the step before them.                              *)
(***************************************************************************)
EXTENDS Integers, Sequences, FiniteSets

CONSTANTS
    Releases,     \* model release names
    NoRelease,    \* not a release: no registration is running
    Operators,    \* who approve and promote
    Workers,      \* processes that serve the champion
    MaxVersions,  \* bound: model versions
    MaxDecisions  \* bound: approval and promotion runs

ASSUME RegistryAssumption ==
    /\ NoRelease \notin Releases
    /\ MaxVersions \in Nat
    /\ MaxDecisions \in Nat

VARIABLES
    versions,     \* model versions: release, source run's status, tags
    decisions,    \* runs that hold a decision record, approvals and promotions
    alias,        \* the aliases champion and previous; 0 is a missing alias
    registration, \* register_candidate, started by one pipeline at a time
    command,      \* what each operator's command has read and does next
    worker        \* what each worker has read, and the version it serves

registryVars == <<versions, decisions, alias, registration, command, worker>>

RunStatus == {"RUNNING", "FINISHED", "FAILED"}
Aliases == {"champion", "previous"}
VersionIds == 0..MaxVersions    \* 0: none
DecisionIds == 0..MaxDecisions  \* 0: none

(* The tags that decide something.  A decision's checksum stands for its   *)
(* content: its timestamp is in it, so it is as unique as its run.         *)
Version ==
    [release : Releases, source : RunStatus, approved : BOOLEAN,
     approval_run : DecisionIds, approval_sha : DecisionIds,
     promotion_run : DecisionIds, promotion_sha : DecisionIds]

(* approval: the approval a promotion record names.  concluded is history: *)
(* the run was FINISHED at some time.                                      *)
Decision ==
    [kind : {"approval", "promotion"}, version : VersionIds,
     approval : DecisionIds, status : RunStatus, concluded : BOOLEAN]

Registration == [pc : {"idle", "find", "create", "finish", "undo", "ok", "error"},
                 release : Releases \cup {NoRelease}, version : VersionIds]

ApprovalCalls ==
    {"tag_run", "tag_sha", "tag_status", "finish_approval", "fail_approval"}
PromotionReads == {"verify", "read_champion", "read_previous"}
PromotionWrites ==
    {"set_previous", "set_champion", "tag_promotion", "tag_record",
     "finish_promotion"}
Compensations == {"restore_champion", "restore_previous", "fail_promotion"}

(* undisturbed is history: since this promotion read the champion, nobody  *)
(* else moved an alias and no compensation of its own failed.              *)
Command ==
    [pc : {"idle"} \cup ApprovalCalls \cup PromotionReads
              \cup PromotionWrites \cup Compensations,
     version : VersionIds, run : DecisionIds, approval : DecisionIds,
     old_champion : VersionIds, old_previous : VersionIds,
     undisturbed : BOOLEAN]

(* promotion_run and approval_run are the champion's tags as resolve read  *)
(* them, kept until they are verified.                                     *)
Resolution ==
    [pc : {"resolve", "verify", "load", "serving"},
     version : VersionIds, promotion_run : DecisionIds, approval_run : DecisionIds]

NoCommand ==
    [pc |-> "idle", version |-> 0, run |-> 0, approval |-> 0,
     old_champion |-> 0, old_previous |-> 0, undisturbed |-> FALSE]
NoRegistration == [pc |-> "idle", release |-> NoRelease, version |-> 0]
NoResolution ==
    [pc |-> "resolve", version |-> 0, promotion_run |-> 0, approval_run |-> 0]

RegistryInit ==
    /\ versions = <<>>
    /\ decisions = <<>>
    /\ alias = [a \in Aliases |-> 0]
    /\ registration = NoRegistration
    /\ command = [o \in Operators |-> NoCommand]
    /\ worker = [w \in Workers |-> NoResolution]

-----------------------------------------------------------------------------
(* register_candidate.                                                     *)

operatorVars == <<decisions, alias, command, worker>>

VersionsOf(r) == {v \in DOMAIN versions : versions[v].release = r}

CandidateVersion(r) ==
    [release |-> r, source |-> "RUNNING", approved |-> FALSE,
     approval_run |-> 0, approval_sha |-> 0,
     promotion_run |-> 0, promotion_sha |-> 0]

StartRegistration(r) ==
    /\ registration.pc = "idle"
    /\ registration' = [pc |-> "find", release |-> r, version |-> 0]
    /\ UNCHANGED <<versions, operatorVars>>

(* Mutant of Found: looks only for a version whose registration finished.  *)
FoundFinished(r) == {v \in VersionsOf(r) : versions[v].source = "FINISHED"}

(* The versions search_model_versions returns for a release.               *)
Found(r) == VersionsOf(r)

(* One match is returned as it is, more than one is an error.              *)
FindRelease ==
    /\ registration.pc = "find"
    /\ registration' = [registration EXCEPT !.pc =
           CASE Cardinality(Found(registration.release)) = 0 -> "create"
             [] Cardinality(Found(registration.release)) = 1 -> "ok"
             [] OTHER -> "error"]
    /\ UNCHANGED <<versions, operatorVars>>

(* The source run, its evidence and its package are uploaded before; the   *)
(* version's creation is the first thing another command can see.  to is   *)
(* "undo" when the call's answer is lost.                                  *)
CreateVersion(to) ==
    /\ registration.pc = "create"
    /\ Len(versions) < MaxVersions
    /\ versions' = Append(versions, CandidateVersion(registration.release))
    /\ registration' = [registration EXCEPT !.pc = to, !.version = Len(versions) + 1]
    /\ UNCHANGED operatorVars

FinishSource(to) ==
    /\ registration.pc = "finish"
    /\ versions' = [versions EXCEPT ![registration.version].source = "FINISHED"]
    /\ registration' = [registration EXCEPT !.pc = to]
    /\ UNCHANGED operatorVars

(* The exception handler; its own failure is RegistrationBreaks.           *)
MarkSourceFailed ==
    /\ registration.pc = "undo"
    /\ versions' = [versions EXCEPT ![registration.version].source = "FAILED"]
    /\ registration' = [registration EXCEPT !.pc = "error"]
    /\ UNCHANGED operatorVars

(* A call raises without having had an effect (to the handler, if there is *)
(* a version to mark), or the process is killed.                           *)
RegistrationBreaks(to) ==
    /\ registration.pc \in {"find", "create", "finish", "undo"}
    /\ to = "undo" => registration.pc = "finish"
    /\ registration' = [registration EXCEPT !.pc = to]
    /\ UNCHANGED <<versions, operatorVars>>

(* The caller takes the command's exit code.                               *)
EndRegistration ==
    /\ registration.pc \in {"ok", "error"}
    /\ registration' = NoRegistration
    /\ UNCHANGED <<versions, operatorVars>>

Register ==
    \/ FindRelease
    \/ \E to \in {"finish", "undo"} : CreateVersion(to)
    \/ \E to \in {"ok", "undo"} : FinishSource(to)
    \/ MarkSourceFailed
    \/ \E to \in {"undo", "error"} : RegistrationBreaks(to)

-----------------------------------------------------------------------------
(* What a command's call leads to.  Every write either answers, or loses   *)
(* its answer after its effect and leads to the handler (OnError).         *)

After ==
    [tag_run |-> "tag_sha", tag_sha |-> "tag_status",
     tag_status |-> "finish_approval", finish_approval |-> "idle",
     fail_approval |-> "idle",
     set_previous |-> "set_champion", set_champion |-> "tag_promotion",
     tag_promotion |-> "tag_record", tag_record |-> "finish_promotion",
     finish_promotion |-> "idle", restore_champion |-> "restore_previous",
     restore_previous |-> "fail_promotion", fail_promotion |-> "idle"]

OnError(pc) ==
    CASE pc \in ApprovalCalls \ {"fail_approval"} -> "fail_approval"
      [] pc \in PromotionWrites -> "restore_champion"
      [] pc \in Compensations \cup {"fail_approval"} -> After[pc]
      [] OTHER -> "idle"

Moved(cmd, pc) == IF pc = "idle" THEN NoCommand ELSE [cmd EXCEPT !.pc = pc]

Goto(o, pc) == command' = [command EXCEPT ![o] = Moved(command[o], pc)]

(* The effect of a call happened; its answer may be lost.                  *)
Answered(o) ==
    \E pc \in {After[command[o].pc], OnError(command[o].pc)} : Goto(o, pc)

(* A call raises without an effect.  A failed restore is swallowed, and    *)
(* the promotion goes on as if it had worked.                              *)
CallFails(o) ==
    /\ command[o].pc # "idle"
    /\ command' = [command EXCEPT ![o] =
           Moved([command[o] EXCEPT !.undisturbed =
                      @ /\ command[o].pc \notin {"restore_champion", "restore_previous"}],
                 OnError(command[o].pc))]
    /\ UNCHANGED <<versions, decisions, alias, registration, worker>>

Kill(o) ==
    /\ command[o].pc # "idle"
    /\ Goto(o, "idle")
    /\ UNCHANGED <<versions, decisions, alias, registration, worker>>

-----------------------------------------------------------------------------
(* approve_candidate.                                                      *)

NewDecision(kind, v, a) ==
    [kind |-> kind, version |-> v, approval |-> a, status |-> "RUNNING",
     concluded |-> FALSE]

(* A version approved before is answered with its approval and left alone. *)
(* The run and its record are created before anything refers to them.      *)
BeginApproval(o, v) ==
    /\ command[o].pc = "idle"
    /\ ~versions[v].approved
    /\ Len(decisions) < MaxDecisions
    /\ decisions' = Append(decisions, NewDecision("approval", v, 0))
    /\ command' = [command EXCEPT ![o] =
           [NoCommand EXCEPT !.pc = "tag_run", !.version = v, !.run = Len(decisions) + 1]]
    /\ UNCHANGED <<versions, alias, registration, worker>>

(* set_model_version_tag.                                                  *)
SetTag(o, pc, tag, value) ==
    /\ command[o].pc = pc
    /\ versions' = [versions EXCEPT ![command[o].version] =
                       [@ EXCEPT ![tag] = value]]
    /\ Answered(o)
    /\ UNCHANGED <<decisions, alias, registration, worker>>

TagApprovalRun(o) == SetTag(o, "tag_run", "approval_run", command[o].run)
TagApprovalRecord(o) == SetTag(o, "tag_sha", "approval_sha", command[o].run)
TagApproved(o) == SetTag(o, "tag_status", "approved", TRUE)

(* set_terminated on the decision's run.                                   *)
Terminate(o, pc, status) ==
    /\ command[o].pc = pc
    /\ LET d == command[o].run IN
          decisions' = [decisions EXCEPT ![d].status = status,
                                         ![d].concluded = @ \/ status = "FINISHED"]
    /\ Answered(o)
    /\ UNCHANGED <<versions, alias, registration, worker>>

FinishApproval(o) == Terminate(o, "finish_approval", "FINISHED")
FailApproval(o) == Terminate(o, "fail_approval", "FAILED")

Approve(o) ==
    \/ \E v \in DOMAIN versions : BeginApproval(o, v)
    \/ TagApprovalRun(o)
    \/ TagApprovalRecord(o)
    \/ TagApproved(o)
    \/ FinishApproval(o)
    \/ FailApproval(o)

-----------------------------------------------------------------------------
(* promote_approved_model.                                                 *)

(* _verify_target, the decision linkage, and the record's checksum, which  *)
(* is compared later but with tags read here.                              *)
MayPromote(v) ==
    /\ versions[v].approved
    /\ versions[v].approval_run # 0
    /\ versions[v].approval_sha = versions[v].approval_run

BeginPromotion(o, v) ==
    /\ command[o].pc = "idle"
    /\ MayPromote(v)
    /\ command' = [command EXCEPT ![o] =
           [NoCommand EXCEPT !.pc = "verify", !.version = v,
                             !.approval = versions[v].approval_run]]
    /\ UNCHANGED <<versions, decisions, alias, registration, worker>>

(* Mutant of ApprovalStands: does not look at the approval run's status.   *)
ApprovalExists(a) == a # 0

(* _verify_approval_record.                                                *)
ApprovalStands(a) == decisions[a].status = "FINISHED"

VerifyApproval(o) ==
    /\ command[o].pc = "verify"
    /\ Goto(o, IF ApprovalStands(command[o].approval) THEN "read_champion" ELSE "idle")
    /\ UNCHANGED <<versions, decisions, alias, registration, worker>>

(* A target that is the champion already ends the command here.            *)
ReadChampion(o) ==
    /\ command[o].pc = "read_champion"
    /\ IF alias["champion"] = command[o].version
          THEN Goto(o, "idle")
          ELSE command' = [command EXCEPT ![o].pc = "read_previous",
                                          ![o].old_champion = alias["champion"],
                                          ![o].undisturbed = TRUE]
    /\ UNCHANGED <<versions, decisions, alias, registration, worker>>

(* The champion's own approval is checked, and the decision recorded.      *)
ReadPrevious(o) ==
    /\ command[o].pc = "read_previous"
    /\ Len(decisions) < MaxDecisions
    /\ LET old == command[o].old_champion IN
          IF old # 0 /\ ~versions[old].approved
            THEN Goto(o, "idle") /\ UNCHANGED decisions
            ELSE /\ decisions' = Append(decisions,
                        NewDecision("promotion", command[o].version, command[o].approval))
                 /\ command' = [command EXCEPT
                        ![o].pc = IF old = 0 THEN "set_champion" ELSE "set_previous",
                        ![o].old_previous = alias["previous"],
                        ![o].run = Len(decisions) + 1]
    /\ UNCHANGED <<versions, alias, registration, worker>>

(* Alias a is moved to v, or deleted when v is 0.                          *)
MoveAlias(o, pc, a, v) ==
    /\ command[o].pc = pc
    /\ alias' = [alias EXCEPT ![a] = v]
    /\ \E to \in {After[pc], OnError(pc)} :
          command' = [p \in Operators |->
              IF p = o THEN Moved(command[p], to)
                       ELSE [command[p] EXCEPT !.undisturbed = FALSE]]
    /\ UNCHANGED <<versions, decisions, registration, worker>>

SetPrevious(o) == MoveAlias(o, "set_previous", "previous", command[o].old_champion)
SetChampion(o) == MoveAlias(o, "set_champion", "champion", command[o].version)
TagPromotion(o) == SetTag(o, "tag_promotion", "promotion_run", command[o].run)
TagRecord(o) == SetTag(o, "tag_record", "promotion_sha", command[o].run)
FinishPromotion(o) == Terminate(o, "finish_promotion", "FINISHED")

(* Mutant of OldChampion: a first promotion that fails keeps the alias.    *)
KeptChampion(o) ==
    IF command[o].old_champion = 0 THEN alias["champion"] ELSE command[o].old_champion

OldChampion(o) == command[o].old_champion

RestoreChampion(o) == MoveAlias(o, "restore_champion", "champion", OldChampion(o))
RestorePrevious(o) ==
    MoveAlias(o, "restore_previous", "previous", command[o].old_previous)
FailPromotion(o) == Terminate(o, "fail_promotion", "FAILED")

Promote(o) ==
    \/ \E v \in DOMAIN versions : BeginPromotion(o, v)
    \/ VerifyApproval(o)
    \/ ReadChampion(o)
    \/ ReadPrevious(o)
    \/ SetPrevious(o)
    \/ SetChampion(o)
    \/ TagPromotion(o)
    \/ TagRecord(o)
    \/ FinishPromotion(o)
    \/ RestoreChampion(o)
    \/ RestorePrevious(o)
    \/ FailPromotion(o)

-----------------------------------------------------------------------------
(* resolve_champion, by a worker that starts.                              *)

(* The tags' links and the records' contents: what no later call changes.  *)
Linked(v) ==
    LET tags == versions[v] IN
    /\ tags.approved
    /\ tags.promotion_run # 0 /\ tags.promotion_sha = tags.promotion_run
    /\ tags.approval_run # 0 /\ tags.approval_sha = tags.approval_run
    /\ decisions[tags.promotion_run].version = v
    /\ decisions[tags.promotion_run].approval = tags.approval_run
    /\ decisions[tags.approval_run].version = v

ResolveAlias(w) ==
    /\ worker[w].pc = "resolve"
    /\ alias["champion"] # 0
    /\ Linked(alias["champion"])
    /\ worker' = [worker EXCEPT ![w] =
           [pc |-> "verify", version |-> alias["champion"],
            promotion_run |-> versions[alias["champion"]].promotion_run,
            approval_run |-> versions[alias["champion"]].approval_run]]
    /\ UNCHANGED <<versions, decisions, alias, registration, command>>

(* Mutant of RunFinished: any decision record with the right checksum.     *)
RunNotRunning(d) == decisions[d].status # "RUNNING"

(* _download_verified_json.                                                *)
RunFinished(d) == decisions[d].status = "FINISHED"

(* Mutant of VerifyChain: retries the checks it failed, on what it read.   *)
VerifyAgain(w) ==
    /\ worker[w].pc = "verify"
    /\ RunFinished(worker[w].promotion_run) /\ RunFinished(worker[w].approval_run)
    /\ worker' = [worker EXCEPT ![w] =
           [NoResolution EXCEPT !.pc = "load", !.version = worker[w].version]]
    /\ UNCHANGED <<versions, decisions, alias, registration, command>>

(* The runs of both decisions are read.  One step: the approval's run was  *)
(* FINISHED before the promotion was recorded, and never is again once it  *)
(* is not, so reading it later only fails more often.                      *)
VerifyChain(w) ==
    /\ worker[w].pc = "verify"
    /\ worker' = [worker EXCEPT ![w] =
           IF RunFinished(worker[w].promotion_run) /\ RunFinished(worker[w].approval_run)
             THEN [NoResolution EXCEPT !.pc = "load", !.version = worker[w].version]
             ELSE NoResolution]
    /\ UNCHANGED <<versions, decisions, alias, registration, command>>

(* The source run is checked and its package downloaded, unless the cache  *)
(* of this version has it, verified and loaded.                            *)
LoadPackage(w) ==
    /\ worker[w].pc = "load"
    /\ worker' = [worker EXCEPT ![w] =
           IF versions[worker[w].version].source = "FINISHED"
             THEN [worker[w] EXCEPT !.pc = "serving"]
             ELSE NoResolution]
    /\ UNCHANGED <<versions, decisions, alias, registration, command>>

(* A call fails, another worker wins the race for the cache directory, or  *)
(* the process ends: it is started again.                                  *)
WorkerRestarts(w) ==
    /\ worker[w].pc # "resolve"
    /\ worker' = [worker EXCEPT ![w] = NoResolution]
    /\ UNCHANGED <<versions, decisions, alias, registration, command>>

Resolve(w) ==
    \/ ResolveAlias(w)
    \/ VerifyChain(w)
    \/ LoadPackage(w)

OperateAndServe ==
    \/ \E o \in Operators : Approve(o) \/ Promote(o) \/ CallFails(o) \/ Kill(o)
    \/ \E w \in Workers : Resolve(w) \/ WorkerRestarts(w)

(* The registry by itself: any pipeline may register any release.          *)
RegistryNext ==
    \/ \E r \in Releases : StartRegistration(r)
    \/ Register
    \/ EndRegistration
    \/ OperateAndServe

RegistrySpec == RegistryInit /\ [][RegistryNext]_registryVars

-----------------------------------------------------------------------------
(* Properties.                                                             *)

TypeOK ==
    /\ versions \in Seq(Version) /\ Len(versions) <= MaxVersions
    /\ decisions \in Seq(Decision) /\ Len(decisions) <= MaxDecisions
    /\ alias \in [Aliases -> VersionIds]
    /\ registration \in Registration
    /\ command \in [Operators -> Command]
    /\ worker \in [Workers -> Resolution]

Approved(v) == v \in DOMAIN versions /\ versions[v].approved

(* Decision d, of this kind and on version v, was concluded.               *)
ConcludedFor(d, kind, v) ==
    /\ d \in DOMAIN decisions
    /\ decisions[d].kind = kind
    /\ decisions[d].version = v
    /\ decisions[d].concluded

(* A release keeps one version, through lost answers, crashes and retries  *)
(* of its registration (_find_release_version before create).              *)
OneVersionPerRelease ==
    \A r \in Releases : Cardinality(VersionsOf(r)) <= 1

(* Every promotion record names an approval of its own version that had    *)
(* been concluded when the record was written (_verify_approval_record).   *)
PromotedOnConcludedApproval ==
    \A p \in DOMAIN decisions : decisions[p].kind = "promotion" =>
        ConcludedFor(decisions[p].approval, "approval", decisions[p].version)

(* Whatever promotions, their compensations and their crashes do to each   *)
(* other, an alias never names a version that is not approved, by a        *)
(* decision that was concluded.                                            *)
AliasesApproved ==
    \A a \in Aliases : alias[a] # 0 =>
        /\ Approved(alias[a])
        /\ \E d \in DOMAIN decisions : ConcludedFor(d, "approval", alias[a])

(* A worker serves only what a concluded promotion, resting on a concluded *)
(* approval of the same version, made the champion (_verify_decision_chain). *)
ServedIsDecided ==
    \A w \in Workers : worker[w].pc = "serving" =>
        \E p \in DOMAIN decisions :
            /\ ConcludedFor(p, "promotion", worker[w].version)
            /\ ConcludedFor(decisions[p].approval, "approval", worker[w].version)

(* A promotion nobody interfered with is all or nothing for the aliases:   *)
(* when its run is marked FAILED they are what it found, when it is marked *)
(* FINISHED the old champion is the previous one.                          *)
PromotionAllOrNothing ==
    \A o \in Operators :
        LET cmd == command[o] IN
        cmd.undisturbed =>
            /\ cmd.pc = "fail_promotion" =>
                  alias = [champion |-> cmd.old_champion, previous |-> cmd.old_previous]
            /\ cmd.pc = "finish_promotion" =>
                  /\ alias["champion"] = cmd.version
                  /\ alias["previous"] =
                        IF cmd.old_champion = 0 THEN cmd.old_previous ELSE cmd.old_champion

(* The champion a worker could load if nothing changed.                    *)
ChampionComplete ==
    /\ alias["champion"] # 0
    /\ Linked(alias["champion"])
    /\ decisions[versions[alias["champion"]].promotion_run].status = "FINISHED"
    /\ decisions[versions[alias["champion"]].approval_run].status = "FINISHED"
    /\ versions[alias["champion"]].source = "FINISHED"

(* Once the champion's decision chain stays complete, every worker serves, *)
(* again and again, whatever calls fail and however often it restarts.     *)
WorkersServe ==
    \A w \in Workers : <>[]ChampionComplete => []<>(worker[w].pc = "serving")

=============================================================================
