------------------------- MODULE ModelRegistry_proofs -------------------------
(***************************************************************************)
(* For any number of releases, operators and workers, whatever calls fail, *)
(* lose their answers or are the last before a kill, and in whatever order *)
(* the commands interleave: an alias names only approved versions, a       *)
(* promotion is recorded only on a concluded approval, and a worker serves *)
(* only what both decided.                                                 *)
(*                                                                         *)
(* The argument: the registry only grows in what these facts rest on.      *)
(* Decision records are never removed or rewritten, a concluded run stays  *)
(* concluded, an approved version stays approved.  So what a command or a  *)
(* worker has once verified stays true, however late it acts on it.  The   *)
(* operators of the first part take the tables as parameters: the facts    *)
(* they state are about any two contents, one of which extends the other.  *)
(***************************************************************************)
EXTENDS ModelRegistry, SequenceTheorems, FiniteSetTheorems, TLAPS

RecordIn(ds, d, kind, v) ==
    /\ d \in DOMAIN ds
    /\ ds[d].kind = kind
    /\ ds[d].version = v

ConcludedIn(ds, d, kind, v) == RecordIn(ds, d, kind, v) /\ ds[d].concluded

SoundIn(vs, ds, v) ==
    /\ v \in DOMAIN vs
    /\ vs[v].approved
    /\ \E d \in DOMAIN ds : ConcludedIn(ds, d, "approval", v)

ServedIn(ds, v) ==
    \E p \in DOMAIN ds :
        ConcludedIn(ds, p, "promotion", v) /\ ConcludedIn(ds, ds[p].approval, "approval", v)

(* The tags of a version name decisions on it, and the records say what    *)
(* their writers had verified.                                             *)
VersionSound(vs, ds, v) ==
    /\ vs[v].approval_run # 0 => RecordIn(ds, vs[v].approval_run, "approval", v)
    /\ vs[v].promotion_run # 0 => RecordIn(ds, vs[v].promotion_run, "promotion", v)

DecisionSound(ds, d) ==
    /\ ds[d].status = "FINISHED" => ds[d].concluded
    /\ ds[d].kind = "promotion" => ConcludedIn(ds, ds[d].approval, "approval", ds[d].version)

TablesSound(vs, ds) ==
    /\ \A v \in DOMAIN vs : VersionSound(vs, ds, v)
    /\ \A d \in DOMAIN ds : DecisionSound(ds, d)

Late == PromotionWrites \cup Compensations

(* What a command knows at each step.                                      *)
Knows(vs, ds, cmd) ==
    /\ cmd.pc \in ApprovalCalls =>
          cmd.version \in DOMAIN vs /\ RecordIn(ds, cmd.run, "approval", cmd.version)
    /\ cmd.pc \in PromotionReads =>
          /\ cmd.version \in DOMAIN vs /\ vs[cmd.version].approved
          /\ RecordIn(ds, cmd.approval, "approval", cmd.version)
    /\ cmd.pc \in {"read_champion", "read_previous"} =>
          ConcludedIn(ds, cmd.approval, "approval", cmd.version)
    /\ cmd.pc \in Late =>
          /\ SoundIn(vs, ds, cmd.version)
          /\ RecordIn(ds, cmd.run, "promotion", cmd.version)
          /\ cmd.old_previous = 0 \/ SoundIn(vs, ds, cmd.old_previous)
    /\ cmd.pc \in {"read_previous"} \cup Late =>
          cmd.old_champion = 0 \/ SoundIn(vs, ds, cmd.old_champion)

RegistrationKnows(vs, reg) ==
    /\ reg.pc # "idle" => reg.release \in Releases
    /\ reg.pc \in {"finish", "undo"} => reg.version \in DOMAIN vs

(* What a worker knows of the version it resolved.                         *)
Resolved(ds, res) ==
    /\ res.pc = "verify" =>
          /\ RecordIn(ds, res.promotion_run, "promotion", res.version)
          /\ ds[res.promotion_run].approval = res.approval_run
          /\ RecordIn(ds, res.approval_run, "approval", res.version)
    /\ res.pc \in {"load", "serving"} => ServedIn(ds, res.version)

(* Everything in the tables is still there, and decided as it was.         *)
Grows(vs, ds, vs2, ds2) ==
    /\ \A v \in DOMAIN vs : v \in DOMAIN vs2 /\ (vs[v].approved => vs2[v].approved)
    /\ \A d \in DOMAIN ds :
          /\ d \in DOMAIN ds2
          /\ ds2[d].kind = ds[d].kind
          /\ ds2[d].version = ds[d].version
          /\ ds2[d].approval = ds[d].approval
          /\ ds[d].concluded => ds2[d].concluded

-----------------------------------------------------------------------------
(* Facts about tables that grow.                                           *)

LEMMA RecordsStay ==
    ASSUME NEW vs, NEW ds, NEW vs2, NEW ds2, Grows(vs, ds, vs2, ds2),
           NEW d, NEW kind, NEW v
    PROVE  /\ RecordIn(ds, d, kind, v) => RecordIn(ds2, d, kind, v)
           /\ ConcludedIn(ds, d, kind, v) => ConcludedIn(ds2, d, kind, v)
BY DEF Grows, RecordIn, ConcludedIn

(* A version that is soundly approved, or served by decision, stays so     *)
(* while the tables only grow.                                             *)
LEMMA VersionsStay ==
    ASSUME NEW vs, NEW ds, NEW vs2, NEW ds2, Grows(vs, ds, vs2, ds2), NEW v
    PROVE  /\ SoundIn(vs, ds, v) => SoundIn(vs2, ds2, v)
           /\ ServedIn(ds, v) => ServedIn(ds2, v)
<1>1. SoundIn(vs, ds, v) => SoundIn(vs2, ds2, v)
  BY DEF Grows, SoundIn, ConcludedIn, RecordIn
<1>2. ASSUME NEW p \in DOMAIN ds, ConcludedIn(ds, p, "promotion", v),
             ConcludedIn(ds, ds[p].approval, "approval", v)
      PROVE  ServedIn(ds2, v)
  <2>1. p \in DOMAIN ds2 /\ ds2[p].approval = ds[p].approval
    BY DEF Grows
  <2>2. ConcludedIn(ds2, p, "promotion", v) /\ ConcludedIn(ds2, ds[p].approval, "approval", v)
    BY <1>2, RecordsStay
  <2> QED
    BY <2>1, <2>2 DEF ServedIn
<1> QED
  BY <1>1, <1>2 DEF ServedIn

(* What a command knows stays true while the tables only grow.             *)
LEMMA KnowledgeStays ==
    ASSUME NEW vs, NEW ds, NEW vs2, NEW ds2, Grows(vs, ds, vs2, ds2), NEW cmd,
           Knows(vs, ds, cmd)
    PROVE  Knows(vs2, ds2, cmd)
<1>1. \A d, kind, v :
          /\ RecordIn(ds, d, kind, v) => RecordIn(ds2, d, kind, v)
          /\ ConcludedIn(ds, d, kind, v) => ConcludedIn(ds2, d, kind, v)
  BY RecordsStay
<1>2. \A v : SoundIn(vs, ds, v) => SoundIn(vs2, ds2, v)
  BY VersionsStay
<1>3. \A v \in DOMAIN vs : v \in DOMAIN vs2 /\ (vs[v].approved => vs2[v].approved)
  BY DEF Grows
<1> QED
  BY <1>1, <1>2, <1>3 DEF Knows

(* What a worker knows stays true while the tables only grow.              *)
LEMMA ResolutionStays ==
    ASSUME NEW vs, NEW ds, NEW vs2, NEW ds2, Grows(vs, ds, vs2, ds2), NEW res,
           Resolved(ds, res)
    PROVE  Resolved(ds2, res)
<1>1. CASE res.pc = "verify"
  <2>1. /\ RecordIn(ds2, res.promotion_run, "promotion", res.version)
        /\ RecordIn(ds2, res.approval_run, "approval", res.version)
    BY <1>1, RecordsStay DEF Resolved
  <2>2. ds2[res.promotion_run].approval = res.approval_run
    BY <1>1 DEF Resolved, Grows, RecordIn
  <2> QED
    BY <1>1, <2>1, <2>2 DEF Resolved
<1>2. CASE res.pc # "verify"
  BY <1>2, VersionsStay DEF Resolved
<1> QED
  BY <1>1, <1>2

(* A version is added whose tags name nothing.                             *)
LEMMA VersionAdded ==
    ASSUME NEW vs \in Seq(Version), NEW ds, TablesSound(vs, ds), NEW new \in Version,
           new.approval_run = 0, new.promotion_run = 0
    PROVE  /\ Append(vs, new) \in Seq(Version)
           /\ Len(Append(vs, new)) = Len(vs) + 1
           /\ DOMAIN Append(vs, new) = 1 .. Len(vs) + 1
           /\ Grows(vs, ds, Append(vs, new), ds)
           /\ TablesSound(Append(vs, new), ds)
<1>1. PICK n \in Nat : n = Len(vs) /\ DOMAIN vs = 1 .. n
  OBVIOUS
<1> DEFINE vs2 == Append(vs, new)
<1>2. /\ vs2 \in Seq(Version) /\ Len(vs2) = n + 1 /\ DOMAIN vs2 = 1 .. n + 1
      /\ \A v \in 1 .. n : vs2[v] = vs[v]
      /\ vs2[n + 1] = new
  BY <1>1
<1> HIDE DEF vs2
<1>3. \A v \in 1 .. n + 1 : v \in 1 .. n \/ v = n + 1
  BY <1>1
<1>4. Grows(vs, ds, vs2, ds)
  BY <1>1, <1>2 DEF Grows
<1>5. TablesSound(vs2, ds)
  BY <1>1, <1>2, <1>3 DEF TablesSound, VersionSound
<1> QED
  BY <1>1, <1>2, <1>4, <1>5 DEF vs2

(* A version's source run ends or a tag is set, to a decision on it.       *)
LEMMA VersionChanged ==
    ASSUME NEW vs \in Seq(Version), NEW ds, TablesSound(vs, ds), NEW v \in DOMAIN vs,
           NEW new \in Version, vs[v].approved => new.approved,
           new.approval_run # 0 => RecordIn(ds, new.approval_run, "approval", v),
           new.promotion_run # 0 => RecordIn(ds, new.promotion_run, "promotion", v)
    PROVE  /\ [vs EXCEPT ![v] = new] \in Seq(Version)
           /\ Len([vs EXCEPT ![v] = new]) = Len(vs)
           /\ DOMAIN [vs EXCEPT ![v] = new] = DOMAIN vs
           /\ Grows(vs, ds, [vs EXCEPT ![v] = new], ds)
           /\ TablesSound([vs EXCEPT ![v] = new], ds)
<1> DEFINE vs2 == [vs EXCEPT ![v] = new]
<1>1. /\ vs2 \in Seq(Version) /\ Len(vs2) = Len(vs) /\ DOMAIN vs2 = DOMAIN vs
      /\ \A u \in DOMAIN vs : vs2[u] = IF u = v THEN new ELSE vs[u]
  BY ExceptSeq
<1> HIDE DEF vs2
<1>2. Grows(vs, ds, vs2, ds)
  BY <1>1 DEF Grows
<1>3. TablesSound(vs2, ds)
  BY <1>1 DEF TablesSound, VersionSound
<1> QED
  BY <1>1, <1>2, <1>3 DEF vs2

(* What is sound of the tables stays so while the decisions grow.          *)
LEMMA DecisionAdded ==
    ASSUME NEW vs, NEW ds \in Seq(Decision), TablesSound(vs, ds), NEW new \in Decision,
           new.status = "RUNNING",
           new.kind = "promotion" => ConcludedIn(ds, new.approval, "approval", new.version)
    PROVE  /\ Append(ds, new) \in Seq(Decision)
           /\ Len(Append(ds, new)) = Len(ds) + 1
           /\ RecordIn(Append(ds, new), Len(ds) + 1, new.kind, new.version)
           /\ Grows(vs, ds, vs, Append(ds, new))
           /\ TablesSound(vs, Append(ds, new))
<1>1. PICK n \in Nat : n = Len(ds) /\ DOMAIN ds = 1 .. n
  OBVIOUS
<1> DEFINE ds2 == Append(ds, new)
<1>2. /\ ds2 \in Seq(Decision) /\ Len(ds2) = n + 1 /\ DOMAIN ds2 = 1 .. n + 1
      /\ \A d \in 1 .. n : ds2[d] = ds[d]
      /\ ds2[n + 1] = new
  BY <1>1
<1> HIDE DEF ds2
<1>3. \A d \in 1 .. n + 1 : d \in 1 .. n \/ d = n + 1
  BY <1>1
<1>4. Grows(vs, ds, vs, ds2)
  BY <1>1, <1>2 DEF Grows
<1>5. \A v \in DOMAIN vs : VersionSound(vs, ds2, v)
  BY <1>4, RecordsStay DEF TablesSound, VersionSound
<1>6. ASSUME NEW d \in DOMAIN ds2 PROVE DecisionSound(ds2, d)
  <2>1. CASE d \in 1 .. n
    <3>1. DecisionSound(ds, d) /\ ds2[d] = ds[d]
      BY <1>1, <1>2, <2>1 DEF TablesSound
    <3>2. ds[d].kind = "promotion" =>
              ConcludedIn(ds2, ds[d].approval, "approval", ds[d].version)
      BY <1>4, <3>1, RecordsStay DEF DecisionSound
    <3> QED
      BY <3>1, <3>2 DEF DecisionSound
  <2>2. CASE d = n + 1
    BY <1>2, <1>4, <2>2, RecordsStay DEF DecisionSound
  <2> QED
    BY <1>2, <1>3, <2>1, <2>2
<1>7. RecordIn(ds2, n + 1, new.kind, new.version)
  BY <1>1, <1>2 DEF RecordIn
<1> QED
  BY <1>1, <1>2, <1>4, <1>5, <1>6, <1>7 DEF TablesSound, ds2

(* A decision's run ends, which concludes it if it is FINISHED.            *)
LEMMA DecisionEnded ==
    ASSUME NEW vs, NEW ds \in Seq(Decision), TablesSound(vs, ds), NEW d \in DOMAIN ds,
           NEW new \in Decision, new.kind = ds[d].kind, new.version = ds[d].version,
           new.approval = ds[d].approval, ds[d].concluded => new.concluded,
           new.status = "FINISHED" => new.concluded
    PROVE  /\ [ds EXCEPT ![d] = new] \in Seq(Decision)
           /\ Len([ds EXCEPT ![d] = new]) = Len(ds)
           /\ Grows(vs, ds, vs, [ds EXCEPT ![d] = new])
           /\ TablesSound(vs, [ds EXCEPT ![d] = new])
<1> DEFINE ds2 == [ds EXCEPT ![d] = new]
<1>1. /\ ds2 \in Seq(Decision) /\ Len(ds2) = Len(ds) /\ DOMAIN ds2 = DOMAIN ds
      /\ \A e \in DOMAIN ds : ds2[e] = IF e = d THEN new ELSE ds[e]
  BY ExceptSeq
<1> HIDE DEF ds2
<1>2. Grows(vs, ds, vs, ds2)
  BY <1>1 DEF Grows
<1>3. \A v \in DOMAIN vs : VersionSound(vs, ds2, v)
  BY <1>2, RecordsStay DEF TablesSound, VersionSound
<1>4. ASSUME NEW e \in DOMAIN ds2 PROVE DecisionSound(ds2, e)
  <2>1. DecisionSound(ds, e)
    BY <1>1 DEF TablesSound
  <2>2. /\ ds2[e].kind = ds[e].kind /\ ds2[e].version = ds[e].version
        /\ ds2[e].approval = ds[e].approval
        /\ ds2[e].status = "FINISHED" => ds2[e].concluded
    BY <1>1, <2>1 DEF DecisionSound
  <2>3. ds[e].kind = "promotion" => ConcludedIn(ds2, ds[e].approval, "approval", ds[e].version)
    BY <1>2, <2>1, RecordsStay DEF DecisionSound
  <2> QED
    BY <2>2, <2>3 DEF DecisionSound
<1> QED
  BY <1>1, <1>2, <1>3, <1>4 DEF TablesSound, ds2

-----------------------------------------------------------------------------
(* Commands.                                                               *)

CommandPcs == {"idle"} \cup ApprovalCalls \cup PromotionReads \cup Late

(* Moving a command to another call keeps what it has read.                *)
LEMMA MovedTo ==
    ASSUME NEW cmd \in Command, NEW pc \in CommandPcs
    PROVE  /\ Moved(cmd, pc) \in Command
           /\ Moved(cmd, pc).pc = pc
           /\ pc # "idle" =>
                /\ Moved(cmd, pc).version = cmd.version
                /\ Moved(cmd, pc).run = cmd.run
                /\ Moved(cmd, pc).approval = cmd.approval
                /\ Moved(cmd, pc).old_champion = cmd.old_champion
                /\ Moved(cmd, pc).old_previous = cmd.old_previous
<1>1. CASE pc = "idle"
  <2>1. 0 \in VersionIds /\ 0 \in DecisionIds
    BY RegistryAssumption DEF VersionIds, DecisionIds
  <2> QED
    BY <1>1, <2>1 DEF Moved, NoCommand, Command
<1>2. CASE pc # "idle"
  <2>1. Moved(cmd, pc) = [cmd EXCEPT !.pc = pc]
    BY <1>2 DEF Moved
  <2>2. pc \in {"idle"} \cup ApprovalCalls \cup PromotionReads
                 \cup PromotionWrites \cup Compensations
    BY DEF CommandPcs, Late
  <2>3. [cmd EXCEPT !.pc = pc] \in Command
    BY <2>2 DEF Command
  <2> QED
    BY <2>1, <2>3 DEF Command
<1> QED
  BY <1>1, <1>2

(* The steps of approving, of verifying and of writing are different.      *)
LEMMA StepsApart ==
    /\ "idle" \notin ApprovalCalls \cup PromotionReads \cup Late
    /\ ApprovalCalls \cap (PromotionReads \cup Late) = {}
    /\ PromotionReads \cap Late = {}
BY DEF ApprovalCalls, PromotionReads, Late, PromotionWrites, Compensations

(* A command that is not running has nothing to know.                      *)
LEMMA IdleKnows ==
    ASSUME NEW vs, NEW ds, NEW cmd, cmd.pc = "idle"
    PROVE  Knows(vs, ds, cmd)
BY StepsApart DEF Knows, PromotionReads

(* Within an approval, and within the writes of a promotion, a command     *)
(* knows the same at every step.                                           *)
LEMMA MovedKnows ==
    ASSUME NEW vs, NEW ds, NEW cmd \in Command, NEW pc \in CommandPcs, Knows(vs, ds, cmd),
           \/ pc = "idle"
           \/ cmd.pc \in ApprovalCalls /\ pc \in ApprovalCalls
           \/ cmd.pc \in Late /\ pc \in Late
    PROVE  Knows(vs, ds, Moved(cmd, pc))
<1>1. CASE pc = "idle"
  BY <1>1, MovedTo, IdleKnows
<1> DEFINE to == Moved(cmd, pc)
<1>2. pc # "idle" =>
         /\ to.pc = pc /\ to.version = cmd.version /\ to.run = cmd.run
         /\ to.old_champion = cmd.old_champion /\ to.old_previous = cmd.old_previous
  BY MovedTo
<1> HIDE DEF to
<1>3. CASE cmd.pc \in ApprovalCalls /\ pc \in ApprovalCalls
  <2>1. pc # "idle" /\ pc \notin PromotionReads /\ pc \notin Late
    BY <1>3, StepsApart
  <2> QED
    BY <1>2, <1>3, <2>1 DEF Knows, PromotionReads, to
<1>4. CASE cmd.pc \in Late /\ pc \in Late
  <2>1. pc # "idle" /\ pc \notin PromotionReads /\ pc \notin ApprovalCalls
    BY <1>4, StepsApart
  <2> QED
    BY <1>2, <1>4, <2>1 DEF Knows, PromotionReads, to
<1> QED
  BY <1>1, <1>3, <1>4

(* Where a call leads, from every step.                                    *)
LEMMA CallsLead ==
    /\ \A pc \in ApprovalCalls : {After[pc], OnError(pc)} \subseteq ApprovalCalls \cup {"idle"}
    /\ \A pc \in Late : {After[pc], OnError(pc)} \subseteq Late \cup {"idle"}
    /\ \A pc \in PromotionReads : OnError(pc) = "idle"
<1>1. ASSUME NEW pc \in ApprovalCalls
      PROVE  {After[pc], OnError(pc)} \subseteq ApprovalCalls \cup {"idle"}
  BY DEF ApprovalCalls, After, OnError, Compensations, PromotionWrites
<1>2. ASSUME NEW pc \in Late
      PROVE  {After[pc], OnError(pc)} \subseteq Late \cup {"idle"}
  BY DEF ApprovalCalls, After, OnError, Late, Compensations, PromotionWrites
<1>3. ASSUME NEW pc \in PromotionReads PROVE OnError(pc) = "idle"
  BY DEF ApprovalCalls, OnError, Compensations, PromotionWrites, PromotionReads
<1> QED
  BY <1>1, <1>2, <1>3

-----------------------------------------------------------------------------
(* The inductive invariant.                                                *)

RegistryInv ==
    /\ TypeOK
    /\ RegistrationKnows(versions, registration)
    /\ TablesSound(versions, decisions)
    /\ \A a \in Aliases : alias[a] # 0 => SoundIn(versions, decisions, alias[a])
    /\ \A o \in Operators : Knows(versions, decisions, command[o])
    /\ \A w \in Workers : Resolved(decisions, worker[w])

(* The empty registry satisfies the invariant.                             *)
LEMMA RegistryStarts == RegistryInit => RegistryInv
<1> SUFFICES ASSUME RegistryInit PROVE RegistryInv
  OBVIOUS
<1>1. 0 \in VersionIds /\ 0 \in DecisionIds
  BY RegistryAssumption DEF VersionIds, DecisionIds
<1>2. versions \in Seq(Version) /\ Len(versions) <= MaxVersions /\ DOMAIN versions = {}
  BY RegistryAssumption DEF RegistryInit
<1>3. decisions \in Seq(Decision) /\ Len(decisions) <= MaxDecisions /\ DOMAIN decisions = {}
  BY RegistryAssumption DEF RegistryInit
<1>4. alias \in [Aliases -> VersionIds] /\ \A a \in Aliases : alias[a] = 0
  BY <1>1 DEF RegistryInit
<1>5. registration \in Registration /\ registration.pc = "idle"
  BY <1>1 DEF RegistryInit, NoRegistration, Registration
<1>6. NoCommand \in Command /\ NoCommand.pc = "idle"
  BY <1>1 DEF NoCommand, Command
<1>7. NoResolution \in Resolution /\ NoResolution.pc = "resolve"
  BY <1>1 DEF NoResolution, Resolution
<1>8. /\ command \in [Operators -> Command]
      /\ \A o \in Operators : Knows(versions, decisions, command[o])
  BY <1>6, IdleKnows DEF RegistryInit
<1>9. /\ worker \in [Workers -> Resolution]
      /\ \A w \in Workers : Resolved(decisions, worker[w])
  BY <1>7 DEF RegistryInit, Resolved
<1>10. TablesSound(versions, decisions)
  BY <1>2, <1>3 DEF TablesSound
<1> QED
  BY <1>2, <1>3, <1>4, <1>5, <1>8, <1>9, <1>10 DEF RegistryInv, TypeOK, RegistrationKnows

(* What was known of the tables is known of those that replace them.       *)
LEMMA AllStays ==
    ASSUME RegistryInv, Grows(versions, decisions, versions', decisions')
    PROVE  /\ \A a \in Aliases : alias[a] # 0 => SoundIn(versions', decisions', alias[a])
           /\ \A o \in Operators : Knows(versions', decisions', command[o])
           /\ \A w \in Workers : Resolved(decisions', worker[w])
<1>1. \A a \in Aliases : alias[a] # 0 => SoundIn(versions', decisions', alias[a])
  BY VersionsStay DEF RegistryInv
<1>2. \A o \in Operators : Knows(versions', decisions', command[o])
  BY KnowledgeStays DEF RegistryInv
<1>3. \A w \in Workers : Resolved(decisions', worker[w])
  BY ResolutionStays DEF RegistryInv
<1> QED
  BY <1>1, <1>2, <1>3

(* Tables that do not change have not lost anything.                       *)
LEMMA TablesStill ==
    ASSUME UNCHANGED <<versions, decisions>>
    PROVE  Grows(versions, decisions, versions', decisions')
BY DEF Grows

(* One operator's command takes a step.                                    *)
LEMMA CommandSteps ==
    ASSUME RegistryInv, Grows(versions, decisions, versions', decisions'),
           NEW o \in Operators, NEW new \in Command,
           command' = [command EXCEPT ![o] = new], Knows(versions', decisions', new)
    PROVE  /\ command' \in [Operators -> Command]
           /\ \A p \in Operators : Knows(versions', decisions', command'[p])
<1>1. command \in [Operators -> Command]
  BY DEF RegistryInv, TypeOK
<1>2. \A p \in Operators : command'[p] = IF p = o THEN new ELSE command[p]
  BY <1>1
<1>3. \A p \in Operators : Knows(versions', decisions', command[p])
  BY AllStays
<1> QED
  BY <1>1, <1>2, <1>3

-----------------------------------------------------------------------------
(* Registrations.                                                          *)

LEMMA RegistrationMoves ==
    ASSUME RegistryInv, UNCHANGED operatorVars,
           versions' \in Seq(Version), Len(versions') <= MaxVersions,
           Grows(versions, decisions, versions', decisions),
           TablesSound(versions', decisions),
           registration' \in Registration, RegistrationKnows(versions', registration')
    PROVE  RegistryInv'
<1>1. UNCHANGED <<decisions, alias, command, worker>>
  BY DEF operatorVars
<1>2. Grows(versions, decisions, versions', decisions') /\ TablesSound(versions', decisions')
  BY <1>1
<1> QED
  BY <1>1, <1>2, AllStays DEF RegistryInv, TypeOK

(* The steps of a registration that write nothing keep the invariant.      *)
LEMMA RegistrationKeeps ==
    ASSUME RegistryInv,
           \/ \E r \in Releases : StartRegistration(r)
           \/ FindRelease
           \/ \E to \in {"undo", "error"} : RegistrationBreaks(to)
           \/ EndRegistration
    PROVE  RegistryInv'
<1>1. UNCHANGED <<versions, operatorVars>>
  BY DEF StartRegistration, FindRelease, RegistrationBreaks, EndRegistration
<1>2. registration' \in Registration /\ RegistrationKnows(versions, registration')
  <2>1. /\ registration \in Registration /\ RegistrationKnows(versions, registration)
        /\ 0 \in VersionIds
    BY RegistryAssumption DEF RegistryInv, TypeOK, VersionIds
  <2>2. CASE \E r \in Releases : StartRegistration(r)
    BY <2>1, <2>2 DEF StartRegistration, Registration, RegistrationKnows
  <2>3. CASE FindRelease
    <3>1. PICK pc \in {"create", "ok", "error"} :
              registration' = [registration EXCEPT !.pc = pc]
      BY <2>3 DEF FindRelease
    <3> QED
      BY <2>1, <2>3, <3>1 DEF FindRelease, Registration, RegistrationKnows
  <2>4. CASE \E to \in {"undo", "error"} : RegistrationBreaks(to)
    BY <2>1, <2>4 DEF RegistrationBreaks, Registration, RegistrationKnows
  <2>5. CASE EndRegistration
    BY <2>1, <2>5 DEF EndRegistration, NoRegistration, Registration, RegistrationKnows
  <2> QED
    BY <2>2, <2>3, <2>4, <2>5
<1>3. Grows(versions, decisions, versions', decisions)
  BY <1>1 DEF Grows
<1>4. TablesSound(versions', decisions) /\ RegistrationKnows(versions', registration')
  BY <1>1, <1>2 DEF RegistryInv
<1> QED
  BY <1>1, <1>2, <1>3, <1>4, RegistrationMoves DEF RegistryInv, TypeOK

(* create_model_version keeps the invariant: the new version has no tags.  *)
LEMMA CreateVersionKeeps ==
    ASSUME RegistryInv, NEW to \in {"finish", "undo"}, CreateVersion(to)
    PROVE  RegistryInv'
<1> DEFINE new == CandidateVersion(registration.release)
<1>1. /\ registration \in Registration /\ registration.pc = "create"
      /\ registration.release \in Releases
      /\ versions \in Seq(Version) /\ TablesSound(versions, decisions)
  BY DEF CreateVersion, RegistryInv, TypeOK, RegistrationKnows
<1>2. new \in Version /\ new.approval_run = 0 /\ new.promotion_run = 0
  <2>1. 0 \in DecisionIds
    BY RegistryAssumption DEF DecisionIds
  <2> QED
    BY <1>1, <2>1 DEF CandidateVersion, Version, RunStatus
<1>3. versions' = Append(versions, new)
  BY DEF CreateVersion
<1> HIDE DEF new
<1>4. /\ versions' \in Seq(Version)
      /\ Len(versions') = Len(versions) + 1
      /\ DOMAIN versions' = 1 .. Len(versions) + 1
      /\ Grows(versions, decisions, versions', decisions)
      /\ TablesSound(versions', decisions)
  BY <1>1, <1>2, <1>3, VersionAdded
<1>5. Len(versions) \in Nat /\ Len(versions) + 1 \in 1 .. MaxVersions
  BY <1>1, RegistryAssumption DEF CreateVersion
<1>6. registration' \in Registration /\ RegistrationKnows(versions', registration')
  <2>1. registration' = [registration EXCEPT !.pc = to, !.version = Len(versions) + 1]
    BY DEF CreateVersion
  <2>2. Len(versions) + 1 \in VersionIds /\ Len(versions) + 1 \in DOMAIN versions'
    BY <1>4, <1>5 DEF VersionIds
  <2> QED
    BY <1>1, <2>1, <2>2 DEF Registration, RegistrationKnows
<1> QED
  BY <1>4, <1>5, <1>6, RegistrationMoves DEF CreateVersion

(* Ending a version's source run keeps the invariant.                      *)
LEMMA SourceEndsKeeps ==
    ASSUME RegistryInv, MarkSourceFailed \/ \E to \in {"ok", "undo"} : FinishSource(to)
    PROVE  RegistryInv'
<1>1. PICK status \in {"FINISHED", "FAILED"}, to \in {"ok", "undo", "error"} :
          /\ versions' = [versions EXCEPT ![registration.version].source = status]
          /\ registration' = [registration EXCEPT !.pc = to]
  BY DEF MarkSourceFailed, FinishSource
<1> DEFINE v == registration.version
<1>2. /\ registration \in Registration /\ RegistrationKnows(versions, registration)
      /\ registration.pc \in {"finish", "undo"} /\ v \in DOMAIN versions
      /\ versions \in Seq(Version) /\ Len(versions) <= MaxVersions
      /\ TablesSound(versions, decisions)
  BY DEF MarkSourceFailed, FinishSource, RegistryInv, TypeOK, RegistrationKnows
<1>3. PICK old \in Version : old = versions[v]
  BY <1>2
<1> DEFINE new == [old EXCEPT !.source = status]
<1>4. /\ new \in Version /\ new.approved = old.approved
      /\ new.approval_run = old.approval_run /\ new.promotion_run = old.promotion_run
  BY DEF Version, RunStatus
<1>5. versions' = [versions EXCEPT ![v] = new]
  BY <1>1, <1>3
<1> HIDE DEF new
<1>6. /\ new.approval_run # 0 => RecordIn(decisions, new.approval_run, "approval", v)
      /\ new.promotion_run # 0 => RecordIn(decisions, new.promotion_run, "promotion", v)
  BY <1>2, <1>3, <1>4 DEF TablesSound, VersionSound
<1>7. /\ versions' \in Seq(Version) /\ Len(versions') = Len(versions)
      /\ DOMAIN versions' = DOMAIN versions
      /\ Grows(versions, decisions, versions', decisions)
      /\ TablesSound(versions', decisions)
  BY <1>2, <1>3, <1>4, <1>5, <1>6, VersionChanged
<1>8. registration' \in Registration /\ RegistrationKnows(versions', registration')
  BY <1>1, <1>2, <1>7 DEF Registration, RegistrationKnows
<1> QED
  BY <1>2, <1>7, <1>8, RegistrationMoves DEF MarkSourceFailed, FinishSource

-----------------------------------------------------------------------------
(* Commands: the tables, and the knowledge of the one that takes a step.   *)

LEMMA CommandMoves ==
    ASSUME RegistryInv,
           versions' \in Seq(Version), Len(versions') = Len(versions),
           DOMAIN versions' = DOMAIN versions,
           decisions' \in Seq(Decision), Len(decisions') <= MaxDecisions,
           Grows(versions, decisions, versions', decisions'),
           TablesSound(versions', decisions'),
           NEW o \in Operators, NEW new \in Command,
           command' = [command EXCEPT ![o] = new], Knows(versions', decisions', new),
           UNCHANGED <<alias, registration, worker>>
    PROVE  RegistryInv'
<1>1. RegistrationKnows(versions', registration')
  BY DEF RegistryInv, RegistrationKnows
<1>2. /\ command' \in [Operators -> Command]
      /\ \A p \in Operators : Knows(versions', decisions', command'[p])
  BY CommandSteps
<1> QED
  BY <1>1, <1>2, AllStays DEF RegistryInv, TypeOK

(* A step that only reads.                                                 *)
LEMMA CommandReads ==
    ASSUME RegistryInv, NEW o \in Operators, NEW new \in Command,
           command' = [command EXCEPT ![o] = new], Knows(versions, decisions, new),
           UNCHANGED <<versions, decisions, alias, registration, worker>>
    PROVE  RegistryInv'
<1>1. /\ versions' \in Seq(Version) /\ Len(versions') = Len(versions)
      /\ DOMAIN versions' = DOMAIN versions
      /\ decisions' \in Seq(Decision) /\ Len(decisions') <= MaxDecisions
      /\ TablesSound(versions', decisions')
      /\ Knows(versions', decisions', new)
  BY DEF RegistryInv, TypeOK
<1> QED
  BY <1>1, TablesStill, CommandMoves

(* What is known of one command.                                           *)
LEMMA CommandKnown ==
    ASSUME RegistryInv, NEW o \in Operators
    PROVE  command[o] \in Command /\ Knows(versions, decisions, command[o])
BY DEF RegistryInv, TypeOK

(* A call that fails and a kill keep the invariant: what a command knows   *)
(* covers where its handler goes.                                          *)
LEMMA InterruptedKeeps ==
    ASSUME RegistryInv, NEW o \in Operators, CallFails(o) \/ Kill(o)
    PROVE  RegistryInv'
<1>1. command[o] \in Command /\ Knows(versions, decisions, command[o])
  BY CommandKnown
<1>2. UNCHANGED <<versions, decisions, alias, registration, worker>>
  BY DEF CallFails, Kill
<1>3. CASE Kill(o)
  <2>1. "idle" \in CommandPcs
    BY DEF CommandPcs
  <2>2. /\ Moved(command[o], "idle") \in Command
        /\ Knows(versions, decisions, Moved(command[o], "idle"))
    BY <1>1, <2>1, MovedTo, MovedKnows
  <2> QED
    BY <1>2, <1>3, <2>2, CommandReads DEF Kill, Goto
<1>4. CASE CallFails(o)
  <2>1. PICK undisturbed \in BOOLEAN :
            command' = [command EXCEPT ![o] =
                Moved([command[o] EXCEPT !.undisturbed = undisturbed],
                      OnError(command[o].pc))]
    <3>1. command[o].undisturbed \in BOOLEAN
      BY <1>1 DEF Command
    <3> QED
      BY <1>4, <3>1 DEF CallFails
  <2> DEFINE cmd == [command[o] EXCEPT !.undisturbed = undisturbed]
             pc == OnError(command[o].pc)
  <2>2. /\ cmd \in Command /\ cmd.pc = command[o].pc /\ cmd.version = command[o].version
        /\ cmd.run = command[o].run /\ cmd.approval = command[o].approval
        /\ cmd.old_champion = command[o].old_champion
        /\ cmd.old_previous = command[o].old_previous
    BY <1>1 DEF Command
  <2> HIDE DEF cmd
  <2>3. Knows(versions, decisions, cmd)
    BY <1>1, <2>2 DEF Knows
  <2>4. command[o].pc \in ApprovalCalls \cup PromotionReads \cup Late
    BY <1>1, <1>4 DEF CallFails, Command, Late
  <2>5. \/ pc = "idle"
        \/ cmd.pc \in ApprovalCalls /\ pc \in ApprovalCalls
        \/ cmd.pc \in Late /\ pc \in Late
    BY <2>2, <2>4, CallsLead
  <2>6. pc \in CommandPcs
    BY <2>5 DEF CommandPcs
  <2> HIDE DEF pc
  <2>7. Moved(cmd, pc) \in Command /\ Knows(versions, decisions, Moved(cmd, pc))
    BY <2>2, <2>3, <2>5, <2>6, MovedTo, MovedKnows
  <2>8. command' = [command EXCEPT ![o] = Moved(cmd, pc)]
    BY <2>1 DEF cmd, pc
  <2> QED
    BY <1>2, <2>7, <2>8, CommandReads
<1> QED
  BY <1>3, <1>4

(* After a call that had its effect, the command knows what its next call  *)
(* or its handler needs.                                                   *)
LEMMA AnsweredKnows ==
    ASSUME RegistryInv, NEW o \in Operators, command[o].pc \in ApprovalCalls \cup Late,
           Answered(o)
    PROVE  \E new \in Command :
               command' = [command EXCEPT ![o] = new] /\ Knows(versions, decisions, new)
<1>1. command[o] \in Command /\ Knows(versions, decisions, command[o])
  BY CommandKnown
<1>2. PICK pc \in {After[command[o].pc], OnError(command[o].pc)} :
          command' = [command EXCEPT ![o] = Moved(command[o], pc)]
  BY DEF Answered, Goto
<1>3. \/ pc = "idle"
      \/ command[o].pc \in ApprovalCalls /\ pc \in ApprovalCalls
      \/ command[o].pc \in Late /\ pc \in Late
  BY CallsLead
<1>4. pc \in CommandPcs
  BY <1>3 DEF CommandPcs
<1>5. /\ Moved(command[o], pc) \in Command
      /\ Knows(versions, decisions, Moved(command[o], pc))
  BY <1>1, <1>3, <1>4, MovedTo, MovedKnows
<1> QED
  BY <1>2, <1>5

(* set_model_version_tag of a command that knows its version.              *)
LEMMA TagKeeps ==
    ASSUME RegistryInv, NEW o \in Operators, command[o].pc \in ApprovalCalls \cup Late,
           Answered(o), UNCHANGED <<decisions, alias, registration, worker>>,
           NEW new \in Version, NEW v \in DOMAIN versions,
           versions' = [versions EXCEPT ![v] = new],
           versions[v].approved => new.approved,
           new.approval_run = versions[v].approval_run
             \/ RecordIn(decisions, new.approval_run, "approval", v),
           new.promotion_run = versions[v].promotion_run
             \/ RecordIn(decisions, new.promotion_run, "promotion", v)
    PROVE  RegistryInv'
<1>1. versions \in Seq(Version) /\ TablesSound(versions, decisions)
      /\ decisions \in Seq(Decision) /\ Len(decisions) <= MaxDecisions
  BY DEF RegistryInv, TypeOK
<1>2. /\ new.approval_run # 0 => RecordIn(decisions, new.approval_run, "approval", v)
      /\ new.promotion_run # 0 => RecordIn(decisions, new.promotion_run, "promotion", v)
  BY <1>1 DEF TablesSound, VersionSound
<1>3. /\ versions' \in Seq(Version) /\ Len(versions') = Len(versions)
      /\ DOMAIN versions' = DOMAIN versions
      /\ Grows(versions, decisions, versions', decisions)
      /\ TablesSound(versions', decisions)
  <2>1. versions[v].approved => new.approved
    OBVIOUS
  <2>2. /\ [versions EXCEPT ![v] = new] \in Seq(Version)
        /\ Len([versions EXCEPT ![v] = new]) = Len(versions)
        /\ DOMAIN [versions EXCEPT ![v] = new] = DOMAIN versions
        /\ Grows(versions, decisions, [versions EXCEPT ![v] = new], decisions)
        /\ TablesSound([versions EXCEPT ![v] = new], decisions)
    BY <1>1, <1>2, <2>1, VersionChanged, Zenon
  <2> QED
    BY <2>2
<1>4. PICK cmd \in Command :
          command' = [command EXCEPT ![o] = cmd] /\ Knows(versions, decisions, cmd)
  BY AnsweredKnows
<1>5. Knows(versions', decisions', cmd)
  BY <1>3, <1>4, KnowledgeStays
<1> QED
  BY <1>1, <1>3, <1>4, <1>5, CommandMoves

(* The tags of an approval keep the invariant: its record is of this       *)
(* version.                                                                *)
LEMMA ApprovalTagsKeep ==
    ASSUME RegistryInv, NEW o \in Operators,
           TagApprovalRun(o) \/ TagApprovalRecord(o) \/ TagApproved(o)
    PROVE  RegistryInv'
<1> DEFINE v == command[o].version
<1>1. /\ command[o].pc \in ApprovalCalls /\ Answered(o)
      /\ UNCHANGED <<decisions, alias, registration, worker>>
  BY DEF TagApprovalRun, TagApprovalRecord, TagApproved, SetTag, ApprovalCalls
<1>2. /\ v \in DOMAIN versions /\ RecordIn(decisions, command[o].run, "approval", v)
      /\ command[o].run \in DecisionIds
  BY <1>1, CommandKnown DEF Knows, Command
<1>3. PICK old \in Version : old = versions[v]
  BY <1>2 DEF RegistryInv, TypeOK
<1>4. CASE TagApprovalRun(o)
  <2> DEFINE new == [old EXCEPT !.approval_run = command[o].run]
  <2>1. versions' = [versions EXCEPT ![v] = new]
    BY <1>3, <1>4 DEF TagApprovalRun, SetTag
  <2>2. /\ new \in Version /\ new.approved = old.approved
        /\ new.approval_run = command[o].run /\ new.promotion_run = old.promotion_run
    BY <1>2 DEF Version
  <2> HIDE DEF new
  <2> QED
    BY <1>1, <1>2, <1>3, <2>1, <2>2, TagKeeps
<1>5. CASE TagApprovalRecord(o)
  <2> DEFINE new == [old EXCEPT !.approval_sha = command[o].run]
  <2>1. versions' = [versions EXCEPT ![v] = new]
    BY <1>3, <1>5 DEF TagApprovalRecord, SetTag
  <2>2. /\ new \in Version /\ new.approved = old.approved
        /\ new.approval_run = old.approval_run /\ new.promotion_run = old.promotion_run
    BY <1>2 DEF Version
  <2> HIDE DEF new
  <2> QED
    BY <1>1, <1>2, <1>3, <2>1, <2>2, TagKeeps
<1>6. CASE TagApproved(o)
  <2> DEFINE new == [old EXCEPT !.approved = TRUE]
  <2>1. versions' = [versions EXCEPT ![v] = new]
    BY <1>3, <1>6 DEF TagApproved, SetTag
  <2>2. /\ new \in Version /\ new.approved
        /\ new.approval_run = old.approval_run /\ new.promotion_run = old.promotion_run
    BY DEF Version
  <2> HIDE DEF new
  <2> QED
    BY <1>1, <1>2, <1>3, <2>1, <2>2, TagKeeps
<1> QED
  BY <1>4, <1>5, <1>6

(* The tags of a promotion keep the invariant.                             *)
LEMMA PromotionTagsKeep ==
    ASSUME RegistryInv, NEW o \in Operators, TagPromotion(o) \/ TagRecord(o)
    PROVE  RegistryInv'
<1> DEFINE v == command[o].version
<1>1. /\ command[o].pc \in Late /\ Answered(o)
      /\ UNCHANGED <<decisions, alias, registration, worker>>
  BY DEF TagPromotion, TagRecord, SetTag, Late, PromotionWrites
<1>2. /\ v \in DOMAIN versions /\ RecordIn(decisions, command[o].run, "promotion", v)
      /\ command[o].run \in DecisionIds
  BY <1>1, CommandKnown DEF Knows, Command, SoundIn
<1>3. PICK old \in Version : old = versions[v]
  BY <1>2 DEF RegistryInv, TypeOK
<1>4. CASE TagPromotion(o)
  <2> DEFINE new == [old EXCEPT !.promotion_run = command[o].run]
  <2>1. versions' = [versions EXCEPT ![v] = new]
    BY <1>3, <1>4 DEF TagPromotion, SetTag
  <2>2. /\ new \in Version /\ new.approved = old.approved
        /\ new.approval_run = old.approval_run /\ new.promotion_run = command[o].run
    BY <1>2 DEF Version
  <2> HIDE DEF new
  <2> QED
    BY <1>1, <1>2, <1>3, <2>1, <2>2, TagKeeps
<1>5. CASE TagRecord(o)
  <2> DEFINE new == [old EXCEPT !.promotion_sha = command[o].run]
  <2>1. versions' = [versions EXCEPT ![v] = new]
    BY <1>3, <1>5 DEF TagRecord, SetTag
  <2>2. /\ new \in Version /\ new.approved = old.approved
        /\ new.approval_run = old.approval_run /\ new.promotion_run = old.promotion_run
    BY <1>2 DEF Version
  <2> HIDE DEF new
  <2> QED
    BY <1>1, <1>2, <1>3, <2>1, <2>2, TagKeeps
<1> QED
  BY <1>4, <1>5

(* set_terminated.                                                         *)
LEMMA TerminateKeeps ==
    ASSUME RegistryInv, NEW o \in Operators, NEW pc \in ApprovalCalls \cup Late,
           NEW status \in {"FINISHED", "FAILED"}, Terminate(o, pc, status)
    PROVE  RegistryInv'
<1> DEFINE d == command[o].run
<1>1. command[o].pc \in ApprovalCalls \cup Late /\ Answered(o)
  BY DEF Terminate
<1>2. d \in DOMAIN decisions
  BY <1>1, CommandKnown DEF Knows, RecordIn
<1>3. PICK old \in Decision : old = decisions[d]
  BY <1>2 DEF RegistryInv, TypeOK
<1> DEFINE new == [old EXCEPT !.status = status,
                              !.concluded = old.concluded \/ status = "FINISHED"]
<1>4. decisions' = [decisions EXCEPT ![d] = new]
  BY <1>3 DEF Terminate
<1>5. /\ new \in Decision /\ new.kind = old.kind /\ new.version = old.version
      /\ new.approval = old.approval /\ (old.concluded => new.concluded)
      /\ new.status = "FINISHED" => new.concluded
  BY DEF Decision, RunStatus
<1> HIDE DEF new
<1>6. /\ decisions \in Seq(Decision) /\ Len(decisions) <= MaxDecisions
      /\ versions \in Seq(Version) /\ TablesSound(versions, decisions)
  BY DEF RegistryInv, TypeOK
<1>7. /\ decisions' \in Seq(Decision) /\ Len(decisions') = Len(decisions)
      /\ Grows(versions, decisions, versions, decisions')
      /\ TablesSound(versions, decisions')
  BY <1>2, <1>3, <1>4, <1>5, <1>6, DecisionEnded
<1>8. PICK cmd \in Command :
          command' = [command EXCEPT ![o] = cmd] /\ Knows(versions, decisions, cmd)
  BY <1>1, AnsweredKnows
<1>9. Knows(versions, decisions', cmd)
  BY <1>7, <1>8, KnowledgeStays
<1>10. versions' = versions /\ UNCHANGED <<alias, registration, worker>>
  BY DEF Terminate
<1> QED
  BY <1>6, <1>7, <1>8, <1>9, <1>10, CommandMoves

(* A decision's run is created, with its record.                           *)
LEMMA DecisionBegins ==
    ASSUME RegistryInv, NEW o \in Operators, NEW new \in Decision,
           new.status = "RUNNING",
           new.kind = "promotion" =>
               ConcludedIn(decisions, new.approval, "approval", new.version),
           Len(decisions) < MaxDecisions, decisions' = Append(decisions, new),
           NEW cmd \in Command, command' = [command EXCEPT ![o] = cmd],
           RecordIn(decisions', Len(decisions) + 1, new.kind, new.version)
             /\ Grows(versions, decisions, versions, decisions')
               => Knows(versions, decisions', cmd),
           UNCHANGED <<versions, alias, registration, worker>>
    PROVE  RegistryInv'
<1>1. /\ decisions \in Seq(Decision) /\ Len(decisions) \in Nat
      /\ versions \in Seq(Version) /\ TablesSound(versions, decisions)
  BY DEF RegistryInv, TypeOK
<1>2. /\ decisions' \in Seq(Decision) /\ Len(decisions') = Len(decisions) + 1
      /\ RecordIn(decisions', Len(decisions) + 1, new.kind, new.version)
      /\ Grows(versions, decisions, versions, decisions')
      /\ TablesSound(versions, decisions')
  BY <1>1, DecisionAdded
<1>3. Len(decisions') <= MaxDecisions
  BY <1>1, <1>2, RegistryAssumption
<1> QED
  BY <1>1, <1>2, <1>3, CommandMoves

(* A new approval keeps the invariant: its record refers to nothing.       *)
LEMMA BeginApprovalKeeps ==
    ASSUME RegistryInv, NEW o \in Operators, NEW v \in DOMAIN versions, BeginApproval(o, v)
    PROVE  RegistryInv'
<1> DEFINE new == NewDecision("approval", v, 0)
           n == Len(decisions) + 1
           cmd == [NoCommand EXCEPT !.pc = "tag_run", !.version = v, !.run = n]
<1>1. v \in VersionIds /\ n \in DecisionIds /\ 0 \in DecisionIds /\ 0 \in VersionIds
  BY RegistryAssumption DEF BeginApproval, RegistryInv, TypeOK, VersionIds, DecisionIds
<1>2. new \in Decision /\ new.status = "RUNNING" /\ new.kind = "approval" /\ new.version = v
  BY <1>1 DEF NewDecision, Decision, RunStatus
<1>3. cmd \in Command /\ cmd.pc = "tag_run" /\ cmd.version = v /\ cmd.run = n
  BY <1>1 DEF NoCommand, Command, ApprovalCalls
<1>4. decisions' = Append(decisions, new) /\ command' = [command EXCEPT ![o] = cmd]
      /\ Len(decisions) < MaxDecisions
      /\ UNCHANGED <<versions, alias, registration, worker>>
  BY DEF BeginApproval
<1> HIDE DEF new, cmd, n
<1>5. RecordIn(decisions', n, "approval", v) => Knows(versions, decisions', cmd)
  BY <1>3 DEF Knows, PromotionReads, Late, PromotionWrites, Compensations
<1> QED
  BY <1>2, <1>3, <1>4, <1>5, DecisionBegins DEF n

(* Starting a promotion keeps the invariant.                               *)
LEMMA BeginPromotionKeeps ==
    ASSUME RegistryInv, NEW o \in Operators, NEW v \in DOMAIN versions, BeginPromotion(o, v)
    PROVE  RegistryInv'
<1> DEFINE cmd == [NoCommand EXCEPT !.pc = "verify", !.version = v,
                                    !.approval = versions[v].approval_run]
<1>1. /\ v \in VersionIds /\ versions[v] \in Version /\ 0 \in DecisionIds /\ 0 \in VersionIds
      /\ RecordIn(decisions, versions[v].approval_run, "approval", v)
      /\ versions[v].approved
  BY RegistryAssumption
  DEF BeginPromotion, MayPromote, RegistryInv, TypeOK, TablesSound, VersionSound,
      VersionIds, DecisionIds
<1>2. /\ cmd \in Command /\ cmd.pc = "verify" /\ cmd.version = v
      /\ cmd.approval = versions[v].approval_run
  BY <1>1 DEF NoCommand, Command, PromotionReads, Version
<1>3. command' = [command EXCEPT ![o] = cmd]
      /\ UNCHANGED <<versions, decisions, alias, registration, worker>>
  BY DEF BeginPromotion
<1> HIDE DEF cmd
<1>4. Knows(versions, decisions, cmd)
  BY <1>1, <1>2 DEF Knows, ApprovalCalls, Late, PromotionWrites, Compensations
<1> QED
  BY <1>2, <1>3, <1>4, CommandReads

(* The check of the approval's run keeps the invariant: from here on the   *)
(* approval is known to be concluded.                                      *)
LEMMA VerifyApprovalKeeps ==
    ASSUME RegistryInv, NEW o \in Operators, VerifyApproval(o)
    PROVE  RegistryInv'
<1> DEFINE cmd == command[o]
           pc == IF ApprovalStands(cmd.approval) THEN "read_champion" ELSE "idle"
<1>1. /\ cmd \in Command /\ cmd.pc = "verify"
      /\ cmd.version \in DOMAIN versions /\ versions[cmd.version].approved
      /\ RecordIn(decisions, cmd.approval, "approval", cmd.version)
  BY CommandKnown DEF VerifyApproval, Knows, PromotionReads
<1>2. pc \in CommandPcs
  BY DEF CommandPcs, PromotionReads
<1>3. command' = [command EXCEPT ![o] = Moved(cmd, pc)]
      /\ UNCHANGED <<versions, decisions, alias, registration, worker>>
  BY DEF VerifyApproval, Goto
<1>4. /\ Moved(cmd, pc) \in Command /\ Moved(cmd, pc).pc = pc
      /\ pc # "idle" => Moved(cmd, pc).version = cmd.version
                        /\ Moved(cmd, pc).approval = cmd.approval
  BY <1>1, <1>2, MovedTo
<1>5. CASE pc = "idle"
  BY <1>3, <1>4, <1>5, IdleKnows, CommandReads
<1>6. CASE pc = "read_champion"
  <2>1. DecisionSound(decisions, cmd.approval)
    BY <1>1 DEF RegistryInv, TablesSound, RecordIn
  <2>2. ConcludedIn(decisions, cmd.approval, "approval", cmd.version)
    BY <1>1, <1>6, <2>1 DEF ApprovalStands, DecisionSound, ConcludedIn
  <2> DEFINE to == Moved(cmd, pc)
  <2>3. /\ to.pc = "read_champion" /\ to.version = cmd.version
        /\ to.approval = cmd.approval
    BY <1>4, <1>6
  <2> HIDE DEF to
  <2>4. Knows(versions, decisions, to)
    BY <1>1, <2>2, <2>3 DEF Knows, ApprovalCalls, Late, PromotionWrites, Compensations
  <2> QED
    BY <1>3, <1>4, <2>4, CommandReads DEF to
<1> QED
  BY <1>5, <1>6

(* Reading the champion keeps the invariant: what an alias names is        *)
(* sound.                                                                  *)
LEMMA ReadChampionKeeps ==
    ASSUME RegistryInv, NEW o \in Operators, ReadChampion(o)
    PROVE  RegistryInv'
<1> DEFINE cmd == command[o]
<1>1. cmd \in Command /\ cmd.pc = "read_champion" /\ Knows(versions, decisions, cmd)
  BY CommandKnown DEF ReadChampion
<1>2. UNCHANGED <<versions, decisions, alias, registration, worker>>
  BY DEF ReadChampion
<1>3. CASE alias["champion"] = cmd.version
  <2>1. "idle" \in CommandPcs
    BY DEF CommandPcs
  <2>2. command' = [command EXCEPT ![o] = Moved(cmd, "idle")]
    BY <1>3 DEF ReadChampion, Goto
  <2>3. Moved(cmd, "idle") \in Command /\ Knows(versions, decisions, Moved(cmd, "idle"))
    BY <1>1, <2>1, MovedTo, MovedKnows
  <2> QED
    BY <1>2, <2>2, <2>3, CommandReads
<1>4. CASE alias["champion"] # cmd.version
  <2> DEFINE to == [cmd EXCEPT !.pc = "read_previous", !.old_champion = alias["champion"],
                               !.undisturbed = TRUE]
  <2>1. alias["champion"] \in VersionIds
        /\ (alias["champion"] # 0 => SoundIn(versions, decisions, alias["champion"]))
    BY DEF RegistryInv, TypeOK, Aliases
  <2>2. /\ to \in Command /\ to.pc = "read_previous" /\ to.version = cmd.version
        /\ to.approval = cmd.approval /\ to.old_champion = alias["champion"]
    BY <1>1, <2>1 DEF Command, PromotionReads
  <2>3. command' = [command EXCEPT ![o] = to]
    BY <1>4 DEF ReadChampion, RegistryInv, TypeOK
  <2> HIDE DEF to
  <2>4. Knows(versions, decisions, to)
    BY <1>1, <2>1, <2>2
    DEF Knows, ApprovalCalls, PromotionReads, Late, PromotionWrites, Compensations
  <2> QED
    BY <1>2, <2>2, <2>3, <2>4, CommandReads
<1> QED
  BY <1>3, <1>4

(* Reading the previous alias and writing the record keep the invariant.   *)
LEMMA ReadPreviousKeeps ==
    ASSUME RegistryInv, NEW o \in Operators, ReadPrevious(o)
    PROVE  RegistryInv'
<1> DEFINE cmd == command[o]
           old == cmd.old_champion
<1>1. /\ cmd \in Command /\ cmd.pc = "read_previous" /\ Knows(versions, decisions, cmd)
      /\ UNCHANGED <<versions, alias, registration, worker>> /\ Len(decisions) < MaxDecisions
  BY CommandKnown DEF ReadPrevious
<1>2. /\ cmd.version \in DOMAIN versions /\ versions[cmd.version].approved
      /\ ConcludedIn(decisions, cmd.approval, "approval", cmd.version)
      /\ old = 0 \/ SoundIn(versions, decisions, old)
  BY <1>1 DEF Knows, PromotionReads
<1>3. CASE old # 0 /\ ~versions[old].approved
  <2>1. "idle" \in CommandPcs
    BY DEF CommandPcs
  <2>2. command' = [command EXCEPT ![o] = Moved(cmd, "idle")] /\ decisions' = decisions
    BY <1>3 DEF ReadPrevious, Goto
  <2>3. Moved(cmd, "idle") \in Command /\ Knows(versions, decisions, Moved(cmd, "idle"))
    BY <1>1, <2>1, MovedTo, MovedKnows
  <2> QED
    BY <1>1, <2>2, <2>3, CommandReads
<1>4. CASE ~(old # 0 /\ ~versions[old].approved)
  <2> DEFINE n == Len(decisions) + 1
             new == NewDecision("promotion", cmd.version, cmd.approval)
             first == IF old = 0 THEN "set_champion" ELSE "set_previous"
             to == [cmd EXCEPT !.pc = first, !.old_previous = alias["previous"], !.run = n]
  <2>1. /\ alias["previous"] \in VersionIds
        /\ alias["previous"] # 0 => SoundIn(versions, decisions, alias["previous"])
    BY DEF RegistryInv, TypeOK, Aliases
  <2>2. n \in DecisionIds /\ cmd.version \in VersionIds /\ cmd.approval \in DecisionIds
    BY <1>1, RegistryAssumption DEF RegistryInv, TypeOK, DecisionIds, Command
  <2>3. /\ new \in Decision /\ new.status = "RUNNING" /\ new.kind = "promotion"
        /\ new.version = cmd.version /\ new.approval = cmd.approval
    BY <2>2 DEF NewDecision, Decision, RunStatus
  <2>4. first \in PromotionWrites
    BY DEF PromotionWrites
  <2>5. /\ to \in Command /\ to.pc = first /\ to.version = cmd.version /\ to.run = n
        /\ to.old_champion = old /\ to.old_previous = alias["previous"]
    BY <1>1, <2>1, <2>2, <2>4 DEF Command
  <2>6. decisions' = Append(decisions, new) /\ command' = [command EXCEPT ![o] = to]
    BY <1>4 DEF ReadPrevious, RegistryInv, TypeOK
  <2> HIDE DEF new, to, n, first
  <2>7. SoundIn(versions, decisions, cmd.version)
    BY <1>2 DEF SoundIn, ConcludedIn, RecordIn
  <2>8. ASSUME RecordIn(decisions', n, "promotion", cmd.version),
               Grows(versions, decisions, versions, decisions')
        PROVE  Knows(versions, decisions', to)
    <3>1. /\ SoundIn(versions, decisions', cmd.version)
          /\ old = 0 \/ SoundIn(versions, decisions', old)
          /\ alias["previous"] = 0 \/ SoundIn(versions, decisions', alias["previous"])
      BY <1>2, <2>1, <2>7, <2>8, VersionsStay
    <3>2. to.pc \in Late /\ to.pc \notin ApprovalCalls \cup PromotionReads
      BY <2>4, <2>5, StepsApart DEF Late
    <3> QED
      BY <2>5, <2>8, <3>1, <3>2 DEF Knows, PromotionReads
  <2>9. new.kind = "promotion" =>
            ConcludedIn(decisions, new.approval, "approval", new.version)
    BY <1>2, <2>3
  <2>10. RecordIn(decisions', n, new.kind, new.version)
           /\ Grows(versions, decisions, versions, decisions')
             => Knows(versions, decisions', to)
    BY <2>3, <2>8
  <2> QED
    BY <1>1, <2>3, <2>5, <2>6, <2>9, <2>10, DecisionBegins DEF n
<1> QED
  BY <1>3, <1>4

(* An alias is moved to a version that was verified or was named before.   *)
LEMMA AliasKeeps ==
    ASSUME RegistryInv, NEW o \in Operators, NEW pc \in Late, NEW a \in Aliases,
           NEW v \in VersionIds, v = 0 \/ SoundIn(versions, decisions, v),
           MoveAlias(o, pc, a, v)
    PROVE  RegistryInv'
<1> DEFINE cmd == command[o]
<1>1. cmd \in Command /\ cmd.pc = pc /\ Knows(versions, decisions, cmd)
  BY CommandKnown DEF MoveAlias
<1>2. UNCHANGED <<versions, decisions, registration, worker>>
      /\ alias' = [alias EXCEPT ![a] = v]
  BY DEF MoveAlias
<1>3. PICK to \in {After[pc], OnError(pc)} :
          command' = [p \in Operators |->
              IF p = o THEN Moved(command[p], to)
                       ELSE [command[p] EXCEPT !.undisturbed = FALSE]]
  BY DEF MoveAlias
<1>4. to = "idle" \/ to \in Late
  BY CallsLead
<1>5. to \in CommandPcs
  BY <1>4 DEF CommandPcs
<1>6. Moved(cmd, to) \in Command /\ Knows(versions, decisions, Moved(cmd, to))
  BY <1>1, <1>4, <1>5, MovedTo, MovedKnows
<1>7. ASSUME NEW p \in Operators, p # o
      PROVE  /\ [command[p] EXCEPT !.undisturbed = FALSE] \in Command
             /\ Knows(versions, decisions, [command[p] EXCEPT !.undisturbed = FALSE])
  <2>1. PICK other \in Command : other = command[p] /\ Knows(versions, decisions, other)
    BY CommandKnown
  <2> DEFINE same == [other EXCEPT !.undisturbed = FALSE]
  <2>2. /\ same \in Command /\ same.pc = other.pc /\ same.version = other.version
        /\ same.run = other.run /\ same.approval = other.approval
        /\ same.old_champion = other.old_champion
        /\ same.old_previous = other.old_previous
    BY DEF Command
  <2> HIDE DEF same
  <2>3. Knows(versions, decisions, same)
    BY <2>1, <2>2 DEF Knows
  <2> QED
    BY <2>1, <2>2, <2>3 DEF same
<1>8. /\ command' \in [Operators -> Command]
      /\ \A p \in Operators : Knows(versions, decisions, command'[p])
  BY <1>3, <1>6, <1>7
<1>9. /\ alias' \in [Aliases -> VersionIds]
      /\ \A b \in Aliases : alias'[b] # 0 => SoundIn(versions, decisions, alias'[b])
  BY <1>2 DEF RegistryInv, TypeOK
<1> QED
  BY <1>2, <1>8, <1>9 DEF RegistryInv, TypeOK

(* Moving or restoring an alias keeps the invariant: every version a       *)
(* promotion may write into an alias is sound.                             *)
LEMMA AliasesKeep ==
    ASSUME RegistryInv, NEW o \in Operators,
           SetPrevious(o) \/ SetChampion(o) \/ RestoreChampion(o) \/ RestorePrevious(o)
    PROVE  RegistryInv'
<1> DEFINE cmd == command[o]
<1>1. /\ cmd.pc \in {"set_previous", "set_champion", "restore_champion", "restore_previous"}
      /\ cmd \in Command
  BY CommandKnown
  DEF SetPrevious, SetChampion, RestoreChampion, RestorePrevious, MoveAlias
<1>2. cmd.pc \in Late
  BY <1>1 DEF Late, PromotionWrites, Compensations
<1>3. /\ cmd.version \in VersionIds /\ SoundIn(versions, decisions, cmd.version)
      /\ cmd.old_champion \in VersionIds /\ cmd.old_previous \in VersionIds
      /\ cmd.old_champion = 0 \/ SoundIn(versions, decisions, cmd.old_champion)
      /\ cmd.old_previous = 0 \/ SoundIn(versions, decisions, cmd.old_previous)
  BY <1>1, <1>2, CommandKnown DEF Command, Knows
<1>4. /\ "champion" \in Aliases /\ "previous" \in Aliases
      /\ {"set_previous", "set_champion", "restore_champion", "restore_previous"} \subseteq Late
  BY DEF Aliases, Late, PromotionWrites, Compensations
<1> QED
  BY <1>3, <1>4, AliasKeeps
  DEF SetPrevious, SetChampion, RestoreChampion, RestorePrevious, OldChampion

(* Every step of an operator keeps the invariant.                          *)
LEMMA OperatorKeeps ==
    ASSUME RegistryInv, NEW o \in Operators, Approve(o) \/ Promote(o) \/ CallFails(o) \/ Kill(o)
    PROVE  RegistryInv'
<1>1. CASE CallFails(o) \/ Kill(o)
  BY <1>1, InterruptedKeeps
<1>2. CASE FinishApproval(o) \/ FailApproval(o) \/ FinishPromotion(o) \/ FailPromotion(o)
  <2>1. {"finish_approval", "fail_approval"} \subseteq ApprovalCalls
        /\ {"finish_promotion", "fail_promotion"} \subseteq Late
    BY DEF ApprovalCalls, Late, PromotionWrites, Compensations
  <2> QED
    BY <1>2, <2>1, TerminateKeeps
    DEF FinishApproval, FailApproval, FinishPromotion, FailPromotion
<1>3. CASE Approve(o)
  BY <1>2, <1>3, BeginApprovalKeeps, ApprovalTagsKeep DEF Approve
<1>4. CASE Promote(o)
  BY <1>2, <1>4, BeginPromotionKeeps, VerifyApprovalKeeps, ReadChampionKeeps,
     ReadPreviousKeeps, AliasesKeep, PromotionTagsKeep DEF Promote
<1> QED
  BY <1>1, <1>3, <1>4

-----------------------------------------------------------------------------
(* Workers.                                                                *)

LEMMA WorkerMoves ==
    ASSUME RegistryInv, NEW w \in Workers, NEW res \in Resolution, Resolved(decisions, res),
           worker' = [worker EXCEPT ![w] = res],
           UNCHANGED <<versions, decisions, alias, registration, command>>
    PROVE  RegistryInv'
<1>1. /\ worker' \in [Workers -> Resolution]
      /\ \A u \in Workers : Resolved(decisions, worker'[u])
  BY DEF RegistryInv, TypeOK
<1> QED
  BY <1>1 DEF RegistryInv, TypeOK

(* A worker that has read nothing has nothing to know.                     *)
LEMMA NothingResolved ==
    NoResolution \in Resolution /\ \A ds : Resolved(ds, NoResolution)
<1>1. 0 \in VersionIds /\ 0 \in DecisionIds
  BY RegistryAssumption DEF VersionIds, DecisionIds
<1> QED
  BY <1>1 DEF NoResolution, Resolution, Resolved

(* Resolving the alias keeps the invariant: the linked records name this   *)
(* version.                                                                *)
LEMMA ResolveAliasKeeps ==
    ASSUME RegistryInv, NEW w \in Workers, ResolveAlias(w)
    PROVE  RegistryInv'
<1> DEFINE v == alias["champion"]
           tags == versions[v]
           res == [pc |-> "verify", version |-> v, promotion_run |-> tags.promotion_run,
                   approval_run |-> tags.approval_run]
<1>1. /\ v \in VersionIds /\ v \in DOMAIN versions /\ tags \in Version
      /\ VersionSound(versions, decisions, v)
  BY DEF ResolveAlias, RegistryInv, TypeOK, Aliases, SoundIn, TablesSound
<1>2. /\ RecordIn(decisions, tags.promotion_run, "promotion", v)
      /\ RecordIn(decisions, tags.approval_run, "approval", v)
      /\ decisions[tags.promotion_run].approval = tags.approval_run
  BY <1>1 DEF ResolveAlias, Linked, VersionSound
<1>3. worker' = [worker EXCEPT ![w] = res]
      /\ UNCHANGED <<versions, decisions, alias, registration, command>>
  BY DEF ResolveAlias
<1>4. /\ res \in Resolution /\ res.pc = "verify" /\ res.version = v
      /\ res.promotion_run = tags.promotion_run /\ res.approval_run = tags.approval_run
  BY <1>1 DEF Resolution, Version
<1> HIDE DEF res
<1>5. Resolved(decisions, res)
  BY <1>2, <1>4 DEF Resolved
<1> QED
  BY <1>3, <1>4, <1>5, WorkerMoves

(* The check of both decisions' runs keeps the invariant: the version to   *)
(* load is served by decision.                                             *)
LEMMA VerifyChainKeeps ==
    ASSUME RegistryInv, NEW w \in Workers, VerifyChain(w)
    PROVE  RegistryInv'
<1> DEFINE old == worker[w]
           verified == RunFinished(old.promotion_run) /\ RunFinished(old.approval_run)
           loading == [NoResolution EXCEPT !.pc = "load", !.version = old.version]
<1>1. /\ old \in Resolution /\ old.pc = "verify" /\ Resolved(decisions, old)
      /\ UNCHANGED <<versions, decisions, alias, registration, command>>
      /\ worker' = [worker EXCEPT ![w] = IF verified THEN loading ELSE NoResolution]
  BY DEF VerifyChain, RegistryInv, TypeOK
<1>2. CASE verified
  <2>1. loading \in Resolution /\ loading.pc = "load" /\ loading.version = old.version
    BY <1>1, NothingResolved DEF NoResolution, Resolution
  <2>2. /\ RecordIn(decisions, old.promotion_run, "promotion", old.version)
        /\ decisions[old.promotion_run].approval = old.approval_run
        /\ RecordIn(decisions, old.approval_run, "approval", old.version)
    BY <1>1 DEF Resolved
  <2>3. /\ DecisionSound(decisions, old.promotion_run)
        /\ DecisionSound(decisions, old.approval_run)
    BY <2>2 DEF RecordIn, RegistryInv, TablesSound
  <2>4. /\ ConcludedIn(decisions, old.promotion_run, "promotion", old.version)
        /\ ConcludedIn(decisions, old.approval_run, "approval", old.version)
    BY <1>2, <2>2, <2>3 DEF ConcludedIn, DecisionSound, RunFinished
  <2>5. ServedIn(decisions, old.version)
    BY <2>2, <2>4 DEF ServedIn, RecordIn
  <2> HIDE DEF loading
  <2>6. Resolved(decisions, loading)
    BY <2>1, <2>5 DEF Resolved
  <2> QED
    BY <1>1, <1>2, <2>1, <2>6, WorkerMoves
<1>3. CASE ~verified
  BY <1>1, <1>3, NothingResolved, WorkerMoves
<1> QED
  BY <1>2, <1>3

(* Loading, and starting again, keep the invariant.                        *)
LEMMA LoadPackageKeeps ==
    ASSUME RegistryInv, NEW w \in Workers, LoadPackage(w) \/ WorkerRestarts(w)
    PROVE  RegistryInv'
<1> DEFINE serving == [worker[w] EXCEPT !.pc = "serving"]
<1>1. worker[w] \in Resolution /\ Resolved(decisions, worker[w])
      /\ UNCHANGED <<versions, decisions, alias, registration, command>>
  BY DEF LoadPackage, WorkerRestarts, RegistryInv, TypeOK
<1>2. CASE worker' = [worker EXCEPT ![w] = NoResolution]
  BY <1>1, <1>2, NothingResolved, WorkerMoves
<1>3. CASE LoadPackage(w) /\ worker' = [worker EXCEPT ![w] = serving]
  <2>1. /\ serving \in Resolution /\ serving.pc = "serving"
        /\ serving.version = worker[w].version
    BY <1>1 DEF Resolution
  <2>2. ServedIn(decisions, worker[w].version)
    BY <1>1, <1>3 DEF LoadPackage, Resolved
  <2> HIDE DEF serving
  <2>3. Resolved(decisions, serving)
    BY <2>1, <2>2 DEF Resolved
  <2> QED
    BY <1>1, <1>3, <2>1, <2>3, WorkerMoves
<1> QED
  BY <1>2, <1>3 DEF LoadPackage, WorkerRestarts

-----------------------------------------------------------------------------
(* Every step of the registry keeps the invariant.                         *)
LEMMA RegistryStepKeeps ==
    ASSUME RegistryInv, [RegistryNext]_registryVars
    PROVE  RegistryInv'
<1>1. CASE UNCHANGED registryVars
  BY <1>1 DEF registryVars, RegistryInv, TypeOK
<1>2. CASE \E r \in Releases : StartRegistration(r)
  BY <1>2, RegistrationKeeps
<1>3. CASE Register
  BY <1>3, RegistrationKeeps, CreateVersionKeeps, SourceEndsKeeps DEF Register
<1>4. CASE EndRegistration
  BY <1>4, RegistrationKeeps
<1>5. CASE OperateAndServe
  BY <1>5, OperatorKeeps, ResolveAliasKeeps, VerifyChainKeeps, LoadPackageKeeps
  DEF OperateAndServe, Resolve
<1> QED
  BY <1>1, <1>2, <1>3, <1>4, <1>5 DEF RegistryNext

(* The inductive invariant of the registry: types, sound tables, aliases   *)
(* that name sound versions, and what every command and worker knows.      *)
THEOREM RegistryInvariant == RegistrySpec => []RegistryInv
<1>1. RegistryInit => RegistryInv
  BY RegistryStarts
<1>2. RegistryInv /\ [RegistryNext]_registryVars => RegistryInv'
  BY RegistryStepKeeps
<1> QED
  BY <1>1, <1>2, PTL DEF RegistrySpec

(* What the invariant says of the properties.                              *)
LEMMA RegistryInvImplies ==
    RegistryInv => /\ TypeOK
                   /\ AliasesApproved
                   /\ PromotedOnConcludedApproval
                   /\ ServedIsDecided
<1>1. RegistryInv => TypeOK
  BY DEF RegistryInv
<1>2. RegistryInv => AliasesApproved
  BY DEF RegistryInv, AliasesApproved, Approved, SoundIn, ConcludedIn, RecordIn, ConcludedFor
<1>3. RegistryInv => PromotedOnConcludedApproval
  BY DEF RegistryInv, TablesSound, DecisionSound, PromotedOnConcludedApproval,
         ConcludedIn, RecordIn, ConcludedFor
<1>4. RegistryInv => ServedIsDecided
  BY DEF RegistryInv, Resolved, ServedIn, ServedIsDecided, ConcludedIn, RecordIn, ConcludedFor
<1> QED
  BY <1>1, <1>2, <1>3, <1>4

(* The registry's variables keep their types.                              *)
THEOREM RegistryTypes == RegistrySpec => []TypeOK
BY RegistryInvImplies, RegistryInvariant, PTL

(* An alias never names a version that is not approved by a decision that  *)
(* was concluded, whatever promotions, their compensations and their       *)
(* crashes do to each other (promote_approved_model).                      *)
THEOREM AliasesStayApproved == RegistrySpec => []AliasesApproved
BY RegistryInvImplies, RegistryInvariant, PTL

(* Every promotion record names a concluded approval of its own version    *)
(* (_verify_approval_record).                                              *)
THEOREM PromotionsRestOnApprovals == RegistrySpec => []PromotedOnConcludedApproval
BY RegistryInvImplies, RegistryInvariant, PTL

(* A worker serves only a version that a concluded promotion, resting on a *)
(* concluded approval, made the champion (_verify_decision_chain).         *)
THEOREM ServedVersionsAreDecided == RegistrySpec => []ServedIsDecided
BY RegistryInvImplies, RegistryInvariant, PTL

-----------------------------------------------------------------------------
(* One version per release.  There is one registration at a time, and it   *)
(* only creates a version while its release has none.                      *)

Unique ==
    /\ \A u, v \in DOMAIN versions :
          versions[u].release = versions[v].release => u = v
    /\ registration.pc = "create" => VersionsOf(registration.release) = {}

SomeSourceEnds ==
    \E v, status : versions' = [versions EXCEPT ![v].source = status]

SomeTagSet ==
    \E tag \in {"approval_run", "approval_sha", "approved", "promotion_run", "promotion_sha"} :
        \E v, value : versions' = [versions EXCEPT ![v] = [@ EXCEPT ![tag] = value]]

(* What can happen to the versions but for the creation of one.            *)
LEMMA VersionSteps ==
    ASSUME [RegistryNext]_registryVars, ~\E to \in {"finish", "undo"} : CreateVersion(to)
    PROVE  UNCHANGED versions \/ SomeSourceEnds \/ SomeTagSet
<1>1. CASE UNCHANGED registryVars
  BY <1>1 DEF registryVars
<1>2. CASE Register
  BY <1>2 DEF Register, FindRelease, FinishSource, MarkSourceFailed, RegistrationBreaks,
              SomeSourceEnds
<1>3. CASE EndRegistration \/ \E r \in Releases : StartRegistration(r)
  BY <1>3 DEF EndRegistration, StartRegistration
<1>4. ASSUME NEW o \in Operators, Approve(o) PROVE UNCHANGED versions \/ SomeTagSet
  <2>1. CASE TagApprovalRun(o) \/ TagApprovalRecord(o)
    BY <2>1 DEF TagApprovalRun, TagApprovalRecord, SetTag, SomeTagSet
  <2>4. CASE TagApproved(o)
    <3>1. PICK v, value : versions' = [versions EXCEPT ![v] = [@ EXCEPT !["approved"] = value]]
      BY <2>4 DEF TagApproved, SetTag
    <3> QED
      BY <3>1 DEF SomeTagSet
  <2>2. CASE FinishApproval(o) \/ FailApproval(o)
    BY <2>2 DEF FinishApproval, FailApproval, Terminate
  <2>3. CASE \E v \in DOMAIN versions : BeginApproval(o, v)
    BY <2>3 DEF BeginApproval
  <2> QED
    BY <1>4, <2>1, <2>2, <2>3, <2>4 DEF Approve
<1>5. ASSUME NEW o \in Operators, Promote(o) PROVE UNCHANGED versions \/ SomeTagSet
  <2>1. CASE TagPromotion(o) \/ TagRecord(o)
    BY <2>1 DEF TagPromotion, TagRecord, SetTag, SomeTagSet
  <2>2. CASE FinishPromotion(o) \/ FailPromotion(o)
    BY <2>2 DEF FinishPromotion, FailPromotion, Terminate
  <2>3. CASE SetPrevious(o) \/ SetChampion(o) \/ RestoreChampion(o) \/ RestorePrevious(o)
    BY <2>3 DEF SetPrevious, SetChampion, RestoreChampion, RestorePrevious, MoveAlias
  <2>4. CASE \E v \in DOMAIN versions : BeginPromotion(o, v)
    BY <2>4 DEF BeginPromotion
  <2>5. CASE VerifyApproval(o) \/ ReadChampion(o) \/ ReadPrevious(o)
    BY <2>5 DEF VerifyApproval, ReadChampion, ReadPrevious
  <2> QED
    BY <1>5, <2>1, <2>2, <2>3, <2>4, <2>5 DEF Promote
<1>6. ASSUME NEW o \in Operators, CallFails(o) \/ Kill(o) PROVE UNCHANGED versions
  BY <1>6 DEF CallFails, Kill
<1>7. ASSUME NEW w \in Workers, Resolve(w) \/ WorkerRestarts(w) PROVE UNCHANGED versions
  BY <1>7 DEF Resolve, ResolveAlias, VerifyChain, LoadPackage, WorkerRestarts
<1> QED
  BY <1>1, <1>2, <1>3, <1>4, <1>5, <1>6, <1>7 DEF RegistryNext, OperateAndServe

(* Only a creation adds a version; nothing changes a version's release.    *)
LEMMA ReleasesStay ==
    ASSUME RegistryInv, UNCHANGED versions \/ SomeSourceEnds \/ SomeTagSet
    PROVE  /\ DOMAIN versions' = DOMAIN versions
           /\ \A v \in DOMAIN versions : versions'[v].release = versions[v].release
<1>1. CASE UNCHANGED versions
  BY <1>1
<1>2. CASE SomeSourceEnds
  <2>1. PICK v, status : versions' = [versions EXCEPT ![v].source = status]
    BY <1>2 DEF SomeSourceEnds
  <2>2. ASSUME NEW u \in DOMAIN versions PROVE versions'[u].release = versions[u].release
    <3>1. PICK old \in Version : old = versions[u]
      BY DEF RegistryInv, TypeOK
    <3>2. [old EXCEPT !.source = status].release = old.release
      BY DEF Version
    <3> QED
      BY <2>1, <3>1, <3>2
  <2> QED
    BY <2>1, <2>2
<1>3. CASE SomeTagSet
  <2>1. PICK tag \in {"approval_run", "approval_sha", "approved", "promotion_run",
                      "promotion_sha"} :
            \E v, value : versions' = [versions EXCEPT ![v] = [@ EXCEPT ![tag] = value]]
    BY <1>3 DEF SomeTagSet
  <2>2. PICK v, value : versions' = [versions EXCEPT ![v] = [@ EXCEPT ![tag] = value]]
    BY <2>1
  <2>3. ASSUME NEW u \in DOMAIN versions PROVE versions'[u].release = versions[u].release
    <3>1. PICK old \in Version : old = versions[u]
      BY DEF RegistryInv, TypeOK
    <3>2. [old EXCEPT ![tag] = value].release = old.release
      BY DEF Version
    <3> QED
      BY <2>2, <3>1, <3>2
  <2> QED
    BY <2>2, <2>3
<1> QED
  BY <1>1, <1>2, <1>3

(* Operators and workers do not touch a registration.                      *)
LEMMA OperatorsLeaveRegistration == OperateAndServe => UNCHANGED registration
<1>1. ASSUME NEW o \in Operators, Approve(o) PROVE UNCHANGED registration
  BY <1>1 DEF Approve, BeginApproval, TagApprovalRun, TagApprovalRecord, TagApproved, SetTag,
              FinishApproval, FailApproval, Terminate
<1>2. ASSUME NEW o \in Operators, Promote(o) PROVE UNCHANGED registration
  <2>1. CASE TagPromotion(o) \/ TagRecord(o) \/ FinishPromotion(o) \/ FailPromotion(o)
    BY <2>1 DEF TagPromotion, TagRecord, SetTag, FinishPromotion, FailPromotion, Terminate
  <2>2. CASE SetPrevious(o) \/ SetChampion(o) \/ RestoreChampion(o) \/ RestorePrevious(o)
    BY <2>2 DEF SetPrevious, SetChampion, RestoreChampion, RestorePrevious, MoveAlias
  <2>3. CASE \E v \in DOMAIN versions : BeginPromotion(o, v)
    BY <2>3 DEF BeginPromotion
  <2>4. CASE VerifyApproval(o) \/ ReadChampion(o) \/ ReadPrevious(o)
    BY <2>4 DEF VerifyApproval, ReadChampion, ReadPrevious
  <2> QED
    BY <1>2, <2>1, <2>2, <2>3, <2>4 DEF Promote
<1>3. ASSUME NEW o \in Operators, CallFails(o) \/ Kill(o) PROVE UNCHANGED registration
  BY <1>3 DEF CallFails, Kill
<1>4. ASSUME NEW w \in Workers, Resolve(w) \/ WorkerRestarts(w) PROVE UNCHANGED registration
  BY <1>4 DEF Resolve, ResolveAlias, VerifyChain, LoadPackage, WorkerRestarts
<1> QED
  BY <1>1, <1>2, <1>3, <1>4 DEF OperateAndServe

(* A registration is at its creation only after finding no version of its  *)
(* release.                                                                *)
LEMMA CreateIsReached ==
    ASSUME RegistryInv, [RegistryNext]_registryVars, registration'.pc = "create"
    PROVE  UNCHANGED registration \/ FindRelease
<1>1. registration \in Registration
  BY DEF RegistryInv, TypeOK
<1>2. ~EndRegistration /\ ~\E r \in Releases : StartRegistration(r)
  BY DEF EndRegistration, StartRegistration, NoRegistration
<1>3. ASSUME NEW to \in {"finish", "undo", "ok", "error"}
      PROVE  ~CreateVersion(to) /\ ~FinishSource(to) /\ ~RegistrationBreaks(to)
  BY <1>1 DEF CreateVersion, FinishSource, RegistrationBreaks, Registration
<1>4. ~MarkSourceFailed
  BY <1>1 DEF MarkSourceFailed, Registration
<1> QED
  BY <1>2, <1>3, <1>4, OperatorsLeaveRegistration DEF RegistryNext, Register, registryVars

(* A registration only gets to "create" when it finds no version.          *)
LEMMA CreateIsFirst ==
    ASSUME RegistryInv, FindRelease, registration'.pc = "create"
    PROVE  VersionsOf(registration'.release) = {} /\ UNCHANGED versions
<1>1. registration \in Registration
  BY DEF RegistryInv, TypeOK
<1>2. IsFiniteSet(VersionsOf(registration.release))
  <2>1. PICK n \in Nat : DOMAIN versions = 1 .. n
    BY DEF RegistryInv, TypeOK
  <2>2. IsFiniteSet(1 .. n)
    BY FS_Interval
  <2> QED
    BY <2>1, <2>2, FS_Subset DEF VersionsOf
<1>3. PICK pc : pc = CASE Cardinality(Found(registration.release)) = 0 -> "create"
                       [] Cardinality(Found(registration.release)) = 1 -> "ok"
                       [] OTHER -> "error"
  OBVIOUS
<1>4. registration' = [registration EXCEPT !.pc = pc] /\ UNCHANGED versions
  BY <1>3 DEF FindRelease, operatorVars
<1>5. pc = "create" /\ registration'.release = registration.release
  BY <1>1, <1>4 DEF Registration
<1>6. Cardinality(VersionsOf(registration.release)) = 0
  BY <1>3, <1>5 DEF Found
<1> QED
  BY <1>2, <1>4, <1>5, <1>6, FS_EmptySet

(* Versions have distinct releases, and one about to be created is of a    *)
(* release that has none: kept by every step.                              *)
LEMMA UniqueStays ==
    ASSUME RegistryInv, Unique, [RegistryNext]_registryVars
    PROVE  Unique'
<1>1. CASE \E to \in {"finish", "undo"} : CreateVersion(to)
  <2> DEFINE new == CandidateVersion(registration.release)
  <2>1. /\ versions' = Append(versions, new) /\ registration.pc = "create"
        /\ registration'.pc \in {"finish", "undo"}
    BY <1>1 DEF CreateVersion, RegistryInv, TypeOK, Registration
  <2>2. new.release = registration.release
    BY DEF CandidateVersion
  <2>3. PICK n \in Nat : n = Len(versions) /\ DOMAIN versions = 1 .. n
    BY DEF RegistryInv, TypeOK
  <2>4. \A v \in 1 .. n : versions[v].release # new.release
    BY <2>1, <2>2, <2>3 DEF Unique, VersionsOf
  <2> HIDE DEF new
  <2>5. /\ DOMAIN versions' = 1 .. n + 1 /\ versions'[n + 1] = new
        /\ \A v \in 1 .. n : versions'[v] = versions[v]
    BY <2>1, <2>3 DEF RegistryInv, TypeOK
  <2>6. \A v \in 1 .. n + 1 : v \in 1 .. n \/ v = n + 1
    BY <2>3
  <2>7. \A u, v \in DOMAIN versions' : versions'[u].release = versions'[v].release => u = v
    BY <2>3, <2>4, <2>5, <2>6 DEF Unique
  <2> QED
    BY <2>1, <2>7 DEF Unique
<1>2. CASE ~\E to \in {"finish", "undo"} : CreateVersion(to)
  <2>1. /\ DOMAIN versions' = DOMAIN versions
        /\ \A v \in DOMAIN versions : versions'[v].release = versions[v].release
    BY <1>2, VersionSteps, ReleasesStay
  <2>2. \A u, v \in DOMAIN versions' : versions'[u].release = versions'[v].release => u = v
    BY <2>1 DEF Unique
  <2>3. ASSUME registration'.pc = "create" PROVE VersionsOf(registration.release)' = {}
    <3>1. CASE UNCHANGED registration
      BY <2>1, <2>3, <3>1 DEF Unique, VersionsOf
    <3>2. CASE FindRelease
      BY <2>3, <3>2, CreateIsFirst DEF VersionsOf
    <3> QED
      BY <2>3, <3>1, <3>2, CreateIsReached
  <2> QED
    BY <2>2, <2>3 DEF Unique
<1> QED
  BY <1>1, <1>2

(* Versions of distinct releases are at most one per release.              *)
LEMMA UniqueMeansOne == Unique => OneVersionPerRelease
<1> SUFFICES ASSUME Unique, NEW r \in Releases PROVE Cardinality(VersionsOf(r)) <= 1
  BY DEF OneVersionPerRelease
<1>1. CASE VersionsOf(r) = {}
  BY <1>1, FS_EmptySet
<1>2. CASE VersionsOf(r) # {}
  <2>1. PICK v : v \in VersionsOf(r)
    BY <1>2
  <2>2. VersionsOf(r) = {v}
    BY <2>1 DEF Unique, VersionsOf
  <2> QED
    BY <2>2, FS_Singleton
<1> QED
  BY <1>1, <1>2

(* A release keeps one version, through lost answers, crashes and retries  *)
(* of its registrations (_find_release_version before create).             *)
THEOREM ReleasesHaveOneVersion == RegistrySpec => []OneVersionPerRelease
<1>1. RegistryInit => Unique
  BY DEF RegistryInit, Unique, NoRegistration
<1>2. RegistryInv /\ Unique /\ [RegistryNext]_registryVars => Unique'
  BY UniqueStays
<1> QED
  BY <1>1, <1>2, UniqueMeansOne, RegistryInvariant, PTL DEF RegistrySpec

-----------------------------------------------------------------------------
(* All or nothing.  What an undisturbed promotion knows of the aliases at  *)
(* each step: its own writes are the only ones since it read the champion. *)

Tagging == {"tag_promotion", "tag_record", "finish_promotion"}

Displaced(cmd) == IF cmd.old_champion = 0 THEN cmd.old_previous ELSE cmd.old_champion

AsFound(champion, cmd) ==
    cmd.pc \in {"read_previous", "set_previous", "set_champion",
                "restore_previous", "fail_promotion"} => champion = cmd.old_champion

AsMoved(champion, cmd) == cmd.pc \in Tagging => champion = cmd.version

PreviousStands(previous, cmd) ==
    /\ cmd.pc \in {"set_previous", "fail_promotion"} => previous = cmd.old_previous
    /\ cmd.pc \in {"set_champion"} \cup Tagging => previous = Displaced(cmd)
    /\ cmd.pc = "set_previous" => cmd.old_champion # 0

Stands(al, cmd) ==
    /\ AsFound(al["champion"], cmd)
    /\ AsMoved(al["champion"], cmd)
    /\ PreviousStands(al["previous"], cmd)

AliasesStand == \A o \in Operators : command[o].undisturbed => Stands(alias, command[o])

(* A command that is undisturbed after a move was so before it, and runs.  *)
LEMMA MovedUndisturbed ==
    ASSUME NEW cmd \in Command, NEW pc \in CommandPcs, Moved(cmd, pc).undisturbed
    PROVE  pc # "idle" /\ cmd.undisturbed
BY DEF Moved, NoCommand, Command

(* One command moves on and no alias does: what it knows is what matters.  *)
LEMMA CommandStands ==
    ASSUME TypeOK, AliasesStand, NEW o \in Operators, NEW cmd,
           command' = [command EXCEPT ![o] = cmd], UNCHANGED alias,
           cmd.undisturbed => Stands(alias, cmd)
    PROVE  AliasesStand'
<1> SUFFICES ASSUME NEW p \in Operators, command'[p].undisturbed
             PROVE  Stands(alias, command'[p])
  BY DEF AliasesStand
<1>1. CASE p = o
  BY <1>1 DEF TypeOK
<1>2. CASE p # o
  BY <1>2 DEF TypeOK, AliasesStand
<1> QED
  BY <1>1, <1>2

(* Calls that fail, and calls that do not touch an alias.                  *)
LEMMA MovedStands ==
    ASSUME TypeOK, AliasesStand, NEW o \in Operators, NEW pc \in CommandPcs,
           UNCHANGED alias, Goto(o, pc),
           \/ pc \in {"idle", "read_champion", "restore_champion"} \cup ApprovalCalls
           \/ command[o].pc = "tag_promotion" /\ pc = "tag_record"
           \/ command[o].pc = "tag_record" /\ pc = "finish_promotion"
    PROVE  AliasesStand'
<1> DEFINE new == Moved(command[o], pc)
<1>1. command[o] \in Command
  BY DEF TypeOK
<1>2. new.pc = pc /\ (pc # "idle" => /\ new.version = command[o].version
                                    /\ new.old_champion = command[o].old_champion
                                    /\ new.old_previous = command[o].old_previous)
  BY <1>1, MovedTo
<1>3. ASSUME new.undisturbed PROVE Stands(alias, new)
  <2>1. pc # "idle" /\ command[o].undisturbed
    BY <1>1, <1>3, MovedUndisturbed
  <2>2. Stands(alias, command[o])
    BY <2>1 DEF AliasesStand
  <2>3. CASE pc \in {"idle", "read_champion", "restore_champion"} \cup ApprovalCalls
    BY <1>2, <2>3 DEF Stands, AsFound, AsMoved, PreviousStands, Tagging, ApprovalCalls
  <2>4. CASE \/ command[o].pc = "tag_promotion" /\ pc = "tag_record"
             \/ command[o].pc = "tag_record" /\ pc = "finish_promotion"
    BY <1>2, <2>1, <2>2, <2>4
       DEF Stands, AsFound, AsMoved, PreviousStands, Tagging, Displaced
  <2> QED
    BY <2>3, <2>4
<1>4. command' = [command EXCEPT ![o] = new]
  BY DEF Goto
<1> HIDE DEF new
<1> QED
  BY <1>3, <1>4, CommandStands

(* An alias moves: every other promotion is disturbed.                     *)
LEMMA AliasMoveStands ==
    ASSUME TypeOK, AliasesStand, NEW o \in Operators, NEW pc, NEW a \in Aliases,
           NEW v, MoveAlias(o, pc, a, v),
           pc \in {"set_previous", "set_champion", "restore_champion", "restore_previous"},
           pc = "set_previous" => a = "previous" /\ v = command[o].old_champion,
           pc = "set_champion" => a = "champion" /\ v = command[o].version,
           pc = "restore_champion" => a = "champion" /\ v = command[o].old_champion,
           pc = "restore_previous" => a = "previous" /\ v = command[o].old_previous
    PROVE  AliasesStand'
<1>1. PICK to \in {After[pc], OnError(pc)} :
          command' = [p \in Operators |->
              IF p = o THEN Moved(command[p], to)
                       ELSE [command[p] EXCEPT !.undisturbed = FALSE]]
  BY DEF MoveAlias
<1>2. command[o].pc = pc /\ command[o] \in Command /\ alias' = [alias EXCEPT ![a] = v]
  BY DEF MoveAlias, TypeOK
<1>3. \/ pc = "set_previous" /\ to \in {"set_champion", "restore_champion"}
      \/ pc = "set_champion" /\ to \in {"tag_promotion", "restore_champion"}
      \/ pc = "restore_champion" /\ to = "restore_previous"
      \/ pc = "restore_previous" /\ to = "fail_promotion"
  BY DEF After, OnError, ApprovalCalls, PromotionWrites, Compensations
<1>4. to \in CommandPcs /\ to # "idle"
  BY <1>3 DEF CommandPcs, Late, PromotionWrites, Compensations
<1>5. ASSUME NEW p \in Operators, p # o PROVE ~command'[p].undisturbed
  <2>1. PICK old \in Command : old = command[p]
    BY DEF TypeOK
  <2>2. [old EXCEPT !.undisturbed = FALSE].undisturbed = FALSE
    BY DEF Command
  <2>3. command'[p] = [old EXCEPT !.undisturbed = FALSE]
    BY <1>1, <1>5, <2>1
  <2> QED
    BY <2>2, <2>3
<1> DEFINE new == Moved(command[o], to)
<1>6. command'[o] = new
  BY <1>1
<1>7. /\ new.pc = to /\ new.version = command[o].version
      /\ new.old_champion = command[o].old_champion
      /\ new.old_previous = command[o].old_previous
  BY <1>2, <1>4, MovedTo
<1>8. ASSUME new.undisturbed PROVE Stands(alias', new)
  <2>1. Stands(alias, command[o])
    BY <1>2, <1>4, <1>8, MovedUndisturbed DEF AliasesStand
  <2>2. /\ alias'["champion"] = IF a = "champion" THEN v ELSE alias["champion"]
        /\ alias'["previous"] = IF a = "previous" THEN v ELSE alias["previous"]
    BY <1>2 DEF TypeOK, Aliases
  <2> HIDE DEF new
  <2>3. CASE pc = "set_previous" /\ to \in {"set_champion", "restore_champion"}
    BY <1>2, <1>7, <2>1, <2>2, <2>3
       DEF Stands, AsFound, AsMoved, PreviousStands, Tagging, Displaced
  <2>4. CASE pc = "set_champion" /\ to \in {"tag_promotion", "restore_champion"}
    BY <1>2, <1>7, <2>1, <2>2, <2>4
       DEF Stands, AsFound, AsMoved, PreviousStands, Tagging, Displaced
  <2>5. CASE pc = "restore_champion" /\ to = "restore_previous"
    BY <1>2, <1>7, <2>1, <2>2, <2>5
       DEF Stands, AsFound, AsMoved, PreviousStands, Tagging, Displaced
  <2>6. CASE pc = "restore_previous" /\ to = "fail_promotion"
    BY <1>2, <1>7, <2>1, <2>2, <2>6
       DEF Stands, AsFound, AsMoved, PreviousStands, Tagging, Displaced
  <2> QED
    BY <1>3, <2>3, <2>4, <2>5, <2>6
<1> HIDE DEF new
<1> QED
  BY <1>5, <1>6, <1>8 DEF AliasesStand

(* An approval moves no alias.                                             *)
LEMMA ApprovalStandsAside ==
    ASSUME TypeOK, AliasesStand, NEW o \in Operators, Approve(o)
    PROVE  AliasesStand'
<1>1. ASSUME NEW v \in DOMAIN versions, BeginApproval(o, v) PROVE AliasesStand'
  <2> DEFINE new == [NoCommand EXCEPT !.pc = "tag_run", !.version = v,
                                      !.run = Len(decisions) + 1]
  <2>1. command' = [command EXCEPT ![o] = new] /\ UNCHANGED alias
    BY <1>1 DEF BeginApproval
  <2>2. ~new.undisturbed
    BY DEF NoCommand
  <2> HIDE DEF new
  <2> QED
    BY <2>1, <2>2, CommandStands
<1>2. CASE ~\E v \in DOMAIN versions : BeginApproval(o, v)
  <2>1. command[o].pc \in ApprovalCalls /\ Answered(o) /\ UNCHANGED alias
    BY <1>2 DEF Approve, TagApprovalRun, TagApprovalRecord, TagApproved, SetTag,
                FinishApproval, FailApproval, Terminate, ApprovalCalls
  <2>2. PICK pc \in {After[command[o].pc], OnError(command[o].pc)} : Goto(o, pc)
    BY <2>1 DEF Answered
  <2>3. pc \in {"idle"} \cup ApprovalCalls
    BY <2>1, <2>2 DEF After, OnError, ApprovalCalls, PromotionWrites, Compensations
  <2> QED
    BY <2>1, <2>2, <2>3, MovedStands DEF CommandPcs
<1> QED
  BY <1>1, <1>2

(* A promotion's step changes the aliases as the place it moves to says,   *)
(* and disturbs every other promotion if it moves one.                     *)
LEMMA PromotionStands ==
    ASSUME TypeOK, AliasesStand, NEW o \in Operators, Promote(o)
    PROVE  AliasesStand'
<1>1. command[o] \in Command
  BY DEF TypeOK
<1>2. ASSUME NEW v \in DOMAIN versions, BeginPromotion(o, v) PROVE AliasesStand'
  <2> DEFINE new == [NoCommand EXCEPT !.pc = "verify", !.version = v,
                                      !.approval = versions[v].approval_run]
  <2>1. command' = [command EXCEPT ![o] = new] /\ UNCHANGED alias
    BY <1>2 DEF BeginPromotion
  <2>2. ~new.undisturbed
    BY DEF NoCommand
  <2> HIDE DEF new
  <2> QED
    BY <2>1, <2>2, CommandStands
<1>3. CASE VerifyApproval(o)
  <2>1. PICK pc \in {"read_champion", "idle"} : Goto(o, pc)
    BY <1>3 DEF VerifyApproval
  <2>2. UNCHANGED alias /\ pc \in CommandPcs
    BY <1>3 DEF VerifyApproval, CommandPcs, PromotionReads
  <2> QED
    BY <2>1, <2>2, MovedStands
<1>4. CASE ReadChampion(o)
  <2>1. CASE Goto(o, "idle")
    BY <1>4, <2>1, MovedStands DEF ReadChampion, CommandPcs
  <2>2. CASE ~Goto(o, "idle")
    <3>1. PICK old \in Command : old = command[o]
      BY <1>1
    <3> DEFINE new == [old EXCEPT !.pc = "read_previous",
                                  !.old_champion = alias["champion"],
                                  !.undisturbed = TRUE]
    <3>2. command' = [command EXCEPT ![o] = new] /\ UNCHANGED alias
      BY <1>4, <2>2, <3>1 DEF ReadChampion
    <3>3. new.pc = "read_previous" /\ new.old_champion = alias["champion"]
      BY DEF Command
    <3> HIDE DEF new
    <3>4. Stands(alias, new)
      BY <3>3 DEF Stands, AsFound, AsMoved, PreviousStands, Tagging
    <3> QED
      BY <3>2, <3>4, CommandStands
  <2> QED
    BY <2>1, <2>2
<1>5. CASE ReadPrevious(o)
  <2>1. CASE Goto(o, "idle")
    BY <1>5, <2>1, MovedStands DEF ReadPrevious, CommandPcs
  <2>2. CASE ~Goto(o, "idle")
    <3>1. PICK old \in Command : old = command[o]
      BY <1>1
    <3>2. PICK pc : pc = IF old.old_champion = 0 THEN "set_champion" ELSE "set_previous"
      OBVIOUS
    <3> DEFINE new == [old EXCEPT !.pc = pc, !.old_previous = alias["previous"],
                                  !.run = Len(decisions) + 1]
    <3>3. /\ command' = [command EXCEPT ![o] = new] /\ UNCHANGED alias
          /\ old.pc = "read_previous"
      BY <1>5, <2>2, <3>1, <3>2 DEF ReadPrevious
    <3>4. /\ new.pc = pc /\ new.old_champion = old.old_champion
          /\ new.old_previous = alias["previous"]
      BY DEF Command
    <3>5. new.undisturbed = old.undisturbed
      BY DEF Command
    <3> HIDE DEF new
    <3>6. ASSUME old.undisturbed PROVE Stands(alias, new)
      <4>1. alias["champion"] = old.old_champion
        BY <3>1, <3>3, <3>6 DEF AliasesStand, Stands, AsFound
      <4> QED
        BY <3>2, <3>4, <4>1
           DEF Stands, AsFound, AsMoved, PreviousStands, Tagging, Displaced
    <3> QED
      BY <3>3, <3>5, <3>6, CommandStands
  <2> QED
    BY <2>1, <2>2
<1>6. CASE SetPrevious(o) \/ SetChampion(o) \/ RestoreChampion(o) \/ RestorePrevious(o)
  <2>1. CASE SetPrevious(o)
    BY <2>1, AliasMoveStands DEF SetPrevious, Aliases
  <2>2. CASE SetChampion(o)
    BY <2>2, AliasMoveStands DEF SetChampion, Aliases
  <2>3. CASE RestoreChampion(o)
    BY <2>3, AliasMoveStands DEF RestoreChampion, OldChampion, Aliases
  <2>4. CASE RestorePrevious(o)
    BY <2>4, AliasMoveStands DEF RestorePrevious, Aliases
  <2> QED
    BY <1>6, <2>1, <2>2, <2>3, <2>4
<1>7. CASE TagPromotion(o) \/ TagRecord(o) \/ FinishPromotion(o) \/ FailPromotion(o)
  <2>1. /\ command[o].pc \in {"tag_promotion", "tag_record", "finish_promotion",
                              "fail_promotion"}
        /\ Answered(o) /\ UNCHANGED alias
    BY <1>7 DEF TagPromotion, TagRecord, SetTag, FinishPromotion, FailPromotion, Terminate
  <2>2. PICK pc \in {After[command[o].pc], OnError(command[o].pc)} : Goto(o, pc)
    BY <2>1 DEF Answered
  <2>3. /\ pc \in CommandPcs
        /\ \/ pc \in {"idle", "restore_champion"}
           \/ command[o].pc = "tag_promotion" /\ pc = "tag_record"
           \/ command[o].pc = "tag_record" /\ pc = "finish_promotion"
    BY <2>1, <2>2 DEF After, OnError, ApprovalCalls, PromotionWrites, Compensations,
                      CommandPcs, Late
  <2> QED
    BY <2>1, <2>2, <2>3, MovedStands
<1> QED
  BY <1>2, <1>3, <1>4, <1>5, <1>6, <1>7 DEF Promote

(* A failed call and a kill move no alias; a failed restore disturbs its   *)
(* own promotion.                                                          *)
LEMMA FailuresStand ==
    ASSUME TypeOK, AliasesStand, NEW o \in Operators, CallFails(o) \/ Kill(o)
    PROVE  AliasesStand'
<1>1. CASE Kill(o)
  BY <1>1, MovedStands DEF Kill, CommandPcs
<1>2. CASE CallFails(o)
  <2>1. PICK old \in Command : old = command[o]
    BY DEF TypeOK
  <2>2. PICK pc : pc = OnError(old.pc)
    OBVIOUS
  <2> DEFINE kept == [old EXCEPT !.undisturbed =
                          @ /\ old.pc \notin {"restore_champion", "restore_previous"}]
             new == Moved(kept, pc)
  <2>3. command' = [command EXCEPT ![o] = new] /\ UNCHANGED alias
    BY <1>2, <2>1, <2>2 DEF CallFails
  <2>4. /\ kept \in Command /\ kept.version = old.version
        /\ kept.old_champion = old.old_champion /\ kept.old_previous = old.old_previous
    BY DEF Command
  <2>5. kept.undisturbed =>
            old.undisturbed /\ old.pc \notin {"restore_champion", "restore_previous"}
    BY DEF Command
  <2>6. pc \in {"idle", "fail_approval", "restore_champion"}
            \/ old.pc \in {"restore_champion", "restore_previous"}
    BY <2>2 DEF OnError, After, Compensations
  <2>7. pc \in CommandPcs
    BY <2>1, <2>2 DEF OnError, After, Compensations, CommandPcs, Late, ApprovalCalls
  <2>8. new.pc = pc
    BY <2>4, <2>7, MovedTo
  <2>9. new.undisturbed => pc # "idle" /\ kept.undisturbed
    BY <2>4, <2>7, MovedUndisturbed
  <2> HIDE DEF new, kept
  <2>10. new.undisturbed => Stands(alias, new)
    BY <2>5, <2>6, <2>8, <2>9 DEF Stands, AsFound, AsMoved, PreviousStands, Tagging
  <2> QED
    BY <2>3, <2>10, CommandStands
<1> QED
  BY <1>1, <1>2

(* A step of no operator leaves every promotion's aliases as they were.    *)
LEMMA OthersStandAside ==
    ASSUME AliasesStand, UNCHANGED <<alias, command>>
    PROVE  AliasesStand'
BY DEF AliasesStand

(* What undisturbed promotions know of the aliases is kept by every step.  *)
LEMMA StandStays ==
    ASSUME TypeOK, AliasesStand, [RegistryNext]_registryVars
    PROVE  AliasesStand'
<1>1. CASE UNCHANGED registryVars
  BY <1>1, OthersStandAside DEF registryVars
<1>2. CASE Register
  BY <1>2, OthersStandAside
     DEF Register, FindRelease, CreateVersion, FinishSource, MarkSourceFailed,
         RegistrationBreaks, operatorVars
<1>3. CASE EndRegistration \/ \E r \in Releases : StartRegistration(r)
  BY <1>3, OthersStandAside DEF EndRegistration, StartRegistration, operatorVars
<1>4. CASE \E w \in Workers : Resolve(w) \/ WorkerRestarts(w)
  BY <1>4, OthersStandAside
     DEF Resolve, ResolveAlias, VerifyChain, LoadPackage, WorkerRestarts
<1>5. CASE \E o \in Operators : Approve(o) \/ Promote(o) \/ CallFails(o) \/ Kill(o)
  BY <1>5, ApprovalStandsAside, PromotionStands, FailuresStand
<1> QED
  BY <1>1, <1>2, <1>3, <1>4, <1>5 DEF RegistryNext, OperateAndServe

(* What undisturbed promotions know of the aliases makes them all or       *)
(* nothing.                                                                *)
LEMMA StandMeansAllOrNothing == TypeOK /\ AliasesStand => PromotionAllOrNothing
<1> SUFFICES ASSUME TypeOK, AliasesStand, NEW o \in Operators, command[o].undisturbed
             PROVE  /\ command[o].pc = "fail_promotion" =>
                          alias = [champion |-> command[o].old_champion,
                                   previous |-> command[o].old_previous]
                    /\ command[o].pc = "finish_promotion" =>
                          /\ alias["champion"] = command[o].version
                          /\ alias["previous"] = Displaced(command[o])
  BY DEF PromotionAllOrNothing, Displaced
<1>1. Stands(alias, command[o])
  BY DEF AliasesStand
<1>2. alias = [champion |-> alias["champion"], previous |-> alias["previous"]]
  BY DEF TypeOK, Aliases
<1> QED
  BY <1>1, <1>2 DEF Stands, AsFound, AsMoved, PreviousStands, Tagging

(* A promotion nobody interfered with is all or nothing for the aliases,   *)
(* whichever of its calls fail or lose their answers (promotion.py's       *)
(* compensations).                                                         *)
THEOREM PromotionsAreAllOrNothing == RegistrySpec => []PromotionAllOrNothing
<1>1. RegistryInit => AliasesStand
  BY DEF RegistryInit, AliasesStand, NoCommand
<1>2. TypeOK /\ AliasesStand /\ [RegistryNext]_registryVars => AliasesStand'
  BY StandStays
<1> QED
  BY <1>1, <1>2, StandMeansAllOrNothing, RegistryTypes, PTL DEF RegistrySpec

===============================================================================
