------------------------- MODULE DatasetPublication -------------------------
(***************************************************************************)
(* data/download.py, data/extract.py and data/prepare.py: the pinned       *)
(* archive, the extracted raw version and the interim publication.  Both   *)
(* directories are staged and renamed into place, so each appears whole    *)
(* or not at all, whoever is killed; two preparers may stage at once.      *)
(***************************************************************************)
EXTENDS DatasetValidation

CONSTANTS
    Preparers,  \* who runs prepare_fd001: the pipeline's task, operators
    Unattended  \* the preparers that never pass --allow-warnings

ASSUME PreparerAssumption == Unattended \subseteq Preparers

VARIABLES
    source,     \* what the archive with the pinned checksum contains
    archive,    \* the file at the archive's path: none, the pinned one, other
    raw,        \* the extracted raw version exists
    interim,    \* the publication: its status, and whether its files are intact
    quarantine, \* status of the last blocked validation
    preparer    \* where each preparer is, and whether it allows warnings

dataVars == <<source, archive, raw, interim, quarantine, preparer>>

Unpublished == [status |-> "none", intact |-> FALSE]

Idle == [pc |-> "idle", allow |-> FALSE]

DataTypeOK ==
    /\ archive \in {"none", "pinned", "other"}
    /\ raw \in BOOLEAN
    /\ interim \in [status : {"none", "PASSED", "PASSED_WITH_WARNINGS"}, intact : BOOLEAN]
    /\ quarantine \in {"none", "FAILED", "PASSED_WITH_WARNINGS"}
    /\ preparer \in [Preparers ->
          [pc : {"idle", "extract", "stage_raw", "validate", "stage", "ok", "error"},
           allow : BOOLEAN]]

(* Any file may lie at the archive's path.                                 *)
NothingPrepared ==
    /\ archive \in {"none", "pinned", "other"}
    /\ raw = FALSE
    /\ interim = Unpublished
    /\ quarantine = "none"
    /\ preparer = [p \in Preparers |-> Idle]

-----------------------------------------------------------------------------
(* download_archive: the file is verified before it is renamed into place. *)
Download(force) ==
    /\ archive = "none" \/ force
    /\ archive' = "pinned"
    /\ UNCHANGED <<source, raw, interim, quarantine, preparer>>

(* Outside the code: a published file is changed.                          *)
DamagePublication ==
    /\ interim.intact
    /\ interim' = [interim EXCEPT !.intact = FALSE]
    /\ UNCHANGED <<source, archive, raw, quarantine, preparer>>

-----------------------------------------------------------------------------
(* prepare_fd001.                                                          *)

At(p, pc) == preparer[p].pc = pc

Go(p, pc) == preparer' = [preparer EXCEPT ![p].pc = pc]

StartPreparing(p, allow) ==
    /\ At(p, "idle")
    /\ allow => p \notin Unattended
    /\ preparer' = [preparer EXCEPT ![p] = [pc |-> "extract", allow |-> allow]]
    /\ UNCHANGED <<source, archive, raw, interim, quarantine>>

(* The archive's checksum is verified even when it was extracted before.   *)
Extract(p) ==
    /\ At(p, "extract")
    /\ Go(p, IF archive # "pinned" THEN "error" ELSE IF raw THEN "validate" ELSE "stage_raw")
    /\ UNCHANGED <<source, archive, raw, interim, quarantine>>

(* A rename onto a directory that another preparer has put there raises.   *)
PublishRaw(p) ==
    /\ At(p, "stage_raw")
    /\ raw' = TRUE
    /\ Go(p, IF raw THEN "error" ELSE "validate")
    /\ UNCHANGED <<source, archive, interim, quarantine>>

Blocked(status, allow) ==
    status = "FAILED" \/ (status = "PASSED_WITH_WARNINGS" /\ ~allow)

(* An existing publication is verified and returned, whatever its warnings.*)
Validate(p) ==
    /\ At(p, "validate")
    /\ LET status == ValidationStatus(source) IN
         IF interim # Unpublished
           THEN Go(p, IF interim.intact THEN "ok" ELSE "error") /\ UNCHANGED quarantine
           ELSE IF Blocked(status, preparer[p].allow)
             THEN Go(p, "error") /\ quarantine' = status
             ELSE Go(p, "stage") /\ UNCHANGED quarantine
    /\ UNCHANGED <<source, archive, raw, interim>>

(* Mutant of Publish: replaces what another preparer published meanwhile.  *)
PublishOver(p) ==
    /\ At(p, "stage")
    /\ interim' = [status |-> ValidationStatus(source), intact |-> TRUE]
    /\ Go(p, "ok")
    /\ UNCHANGED <<source, archive, raw, quarantine>>

Publish(p) ==
    /\ At(p, "stage")
    /\ IF interim = Unpublished
         THEN interim' = [status |-> ValidationStatus(source), intact |-> TRUE] /\ Go(p, "ok")
         ELSE UNCHANGED interim /\ Go(p, "error")
    /\ UNCHANGED <<source, archive, raw, quarantine>>

(* An I/O error, or a kill: only temporary files are left behind.          *)
PreparerFails(p) ==
    /\ preparer[p].pc \in {"extract", "stage_raw", "validate", "stage"}
    /\ Go(p, "error")
    /\ UNCHANGED <<source, archive, raw, interim, quarantine>>

(* The caller takes the exit code.                                         *)
EndPreparing(p) ==
    /\ preparer[p].pc \in {"ok", "error"}
    /\ preparer' = [preparer EXCEPT ![p] = Idle]
    /\ UNCHANGED <<source, archive, raw, interim, quarantine>>

Prepare(p) ==
    \/ Extract(p)
    \/ PublishRaw(p)
    \/ Validate(p)
    \/ Publish(p)
    \/ PreparerFails(p)

(* load_fd001_training_data and load_fd001_test_data verify the files;     *)
(* features of a row with a missing sensor value are refused by the        *)
(* training.                                                               *)
Trainable ==
    /\ interim.intact
    /\ \A s \in Splits : \A i \in DOMAIN source[s] :
          Rejected(source[s][i]) \/ source[s][i].fault # "sensor"

-----------------------------------------------------------------------------
(* What is published is what the gates promise: every record of the source *)
(* is in it and of an engine of its set, each engine's cycles run from 1   *)
(* without gap or repetition, and engine e of the test set has the label   *)
(* on line e of the file (parse_test_rul_file gives labels by position).   *)
PublicationSound ==
    interim # Unpublished =>
        /\ \A s \in Splits :
              /\ Rows(source[s]) = DOMAIN source[s]
              /\ \A i \in DOMAIN source[s] : source[s][i].engine \in 1..EngineCount[s]
              /\ \A e \in 1..EngineCount[s] :
                    /\ CyclesOf(source[s], e) # {}
                    /\ \A c \in 1..FinalCycle(source[s], e) :
                          Cardinality({i \in DOMAIN source[s] :
                              source[s][i].engine = e /\ source[s][i].cycle = c}) = 1
        /\ DOMAIN source.rul = 1..EngineCount["test"]
        /\ \A e \in 1..EngineCount["test"] :
              LET label == Labels(source.rul, source["test"])[e]
              IN  label.engine = e /\ label.additional = source.rul[e]

(* The publication is immutable: racing or repeated preparers never        *)
(* replace it, whatever state its files are in.                            *)
PublishedOnce ==
    [][interim # Unpublished =>
          /\ interim'.status = interim.status
          /\ interim'.intact => interim.intact]_dataVars

=============================================================================
