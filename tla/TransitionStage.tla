-------------------------- MODULE TransitionStage --------------------------
(* The files a change of the connected installation leaves before it is    *)
(* carried out (internal/connectedstagefs): the evidence it is prepared    *)
(* from, then the journal that makes it binding, each written so that a    *)
(* process that ends, or a machine that loses power, between any two steps *)
(* leaves something internal/connectedtransition can classify.             *)
(* The caller holds the installation lease: one operation at a time.       *)
EXTENDS Naturals, Sequences

(* A proposal is known by the format of its predecessor; every file of a   *)
(* proposal that is written whole holds that value.                        *)
Proposals == {"none", "legacy", "transition"}
Resources == {"ca", "hosts", "collector_unit", "uploader_unit", "config"}
StageNames == {"old_ca", "new_ca", "predecessor", "predecessor_complete", "proposal"}
FileNames == StageNames \union {"preparation", "stage", "temp", "journal", "receipt"}

VARIABLES
  installed,  \* the transition that is installed already, by its format
  visible,      \* what a process reads under each name
  loose,      \* the names whose bytes are not on the disk yet
  durable,       \* the directories the disk may come back with
  operation,       \* the operation under way
  prepared,   \* the proposal PublishAt returned nil for
  published   \* PublishFirstJournalAt returned nil

stageVars == <<installed, visible, loose, durable, operation, prepared, published>>

NoOperation == [at |-> "idle", plan |-> "absent", rest |-> <<>>]

(* The stage holds the predecessor's two files, if there is a predecessor. *)
Members(p) ==
  <<"old_ca", "new_ca">> \o (IF p = "none" THEN <<>> ELSE <<"predecessor", "predecessor_complete">>)
     \o <<"proposal">>

---------------------------------------------------------------------------
(* ext4 (external; PublishAt refuses another file system): a change of a   *)
(* directory is on the disk once a directory is synchronised, in the order *)
(* of the changes; the bytes of a file once the file is.                   *)
Changes(new) == visible' = new /\ durable' = durable \union {new}
SyncDirectory == durable' = {visible} /\ UNCHANGED <<visible, loose>>
SyncFile(name) ==
  /\ loose' = loose \ {name}
  /\ durable' =
       {[d EXCEPT ![name] = IF d[name] = "absent" THEN "absent" ELSE visible[name]] : d \in durable}
  /\ UNCHANGED visible

(* What the machine can find after a loss of power.                        *)
ComesBack ==
  UNION {{[n \in FileNames |-> IF n \in torn /\ d[n] # "absent" THEN "torn" ELSE d[n]]
            : torn \in SUBSET loose} : d \in durable}

---------------------------------------------------------------------------
(* ValidateStage: the proposal whose exact files f holds, if any.          *)
ValidateStage(f) ==
  {p \in Proposals :
     /\ f["preparation"] = p
     /\ \A n \in StageNames :
          f[n] = IF \E i \in DOMAIN Members(p) : Members(p)[i] = n THEN p ELSE "absent"}

(* Classify: every resource is the previous or the next one; with the      *)
(* receipt of the proposal they are all the next ones.                     *)
Classify(p, receipt, replaced) ==
  IF receipt = "absent" THEN "RECOVERY_REQUIRED"
  ELSE IF receipt = p /\ replaced = Resources THEN "RECORD_COMPLETE" ELSE "INVALID"

(* ClassifyStaged: the phase the files show, when the resources in         *)
(* replaced are the next ones and the ledger is the recorded one.          *)
ClassifyStaged(f, replaced) ==
  IF ValidateStage(f) = {} THEN "INVALID"
  ELSE LET p == CHOOSE q \in ValidateStage(f) : TRUE
           chained == p = "transition"
           receipt == IF chained /\ f["receipt"] = "previous" THEN "absent" ELSE f["receipt"]
           result == Classify(p, receipt, replaced)
       IN  IF chained /\ f["journal"] = "previous"
           THEN IF f["receipt"] = "previous" /\ replaced = {} THEN "PREPARATION_PENDING" ELSE "INVALID"
           ELSE IF ~chained /\ f["journal"] = "absent"
           THEN IF f["receipt"] = "absent" /\ replaced = {} THEN "PREPARATION_PENDING" ELSE "INVALID"
           ELSE IF f["journal"] # p \/ (chained /\ f["receipt"] = "absent") THEN "INVALID"
           ELSE CASE result = "RECORD_COMPLETE" -> "COMPLETE_CLEANUP_PENDING"
                  [] result = "RECOVERY_REQUIRED" -> "FORWARD_RECOVERY_REQUIRED"
                  [] OTHER -> "INVALID"

---------------------------------------------------------------------------
(* inspectAt reads every file it finds, so that one that is not whole is   *)
(* refused; ReadAuthorityAt the journal and the receipt.                   *)
inspectAt == ValidateStage(visible)
ReadAuthorityAt == [journal |-> visible["journal"], completion |-> visible["receipt"]]
ReadLegacyAt == IF installed = "legacy" THEN "legacy" ELSE "absent"

(* PublishAt: neither the witness nor the stage may be there.              *)
PublishAt(p) ==
  /\ operation.at = "idle"
  /\ visible["preparation"] = "absent" /\ visible["stage"] = "absent"
  /\ operation' = [at |-> "create", plan |-> p, rest |-> <<"preparation">>]
  /\ UNCHANGED <<installed, visible, loose, durable, prepared, published>>

(* writeFixedStageFile, and the same calls for the temporary journal, in   *)
(* the steps a crash can come between.                                     *)
CreateFile ==
  /\ operation.at = "create"
  /\ visible[Head(operation.rest)] = "absent"
  /\ Changes([visible EXCEPT ![Head(operation.rest)] = "torn"])
  /\ loose' = loose \union {Head(operation.rest)}
  /\ operation' = [operation EXCEPT !.at = "write"]
  /\ UNCHANGED <<installed, prepared, published>>

WriteFile ==
  /\ operation.at = "write"
  /\ Changes([visible EXCEPT ![Head(operation.rest)] = operation.plan])
  /\ operation' = [operation EXCEPT !.at = "sync_file"]
  /\ UNCHANGED <<installed, loose, prepared, published>>

(* The temporary journal is renamed before the directory is synchronised.  *)
SyncsFile ==
  /\ operation.at = "sync_file"
  /\ SyncFile(Head(operation.rest))
  /\ operation' = [operation EXCEPT
       !.at = IF Head(operation.rest) = "temp" THEN "rename" ELSE "sync_parent"]
  /\ UNCHANGED <<installed, prepared, published>>

SyncsParent ==
  /\ operation.at = "sync_parent"
  /\ SyncDirectory
  /\ operation' = CASE Head(operation.rest) = "preparation" -> [operation EXCEPT !.at = "mkdir"]
               [] Len(operation.rest) > 1 -> [operation EXCEPT !.at = "create", !.rest = Tail(operation.rest)]
               [] OTHER -> [operation EXCEPT !.at = "inspect"]
  /\ UNCHANGED <<installed, prepared, published>>

MakesStage ==
  /\ operation.at = "mkdir"
  /\ Changes([visible EXCEPT !["stage"] = "made"])
  /\ operation' = [operation EXCEPT !.at = "sync_stage"]
  /\ UNCHANGED <<installed, loose, prepared, published>>

SyncsStage ==
  /\ operation.at = "sync_stage"
  /\ SyncDirectory
  /\ operation' = [operation EXCEPT !.at = "create", !.rest = Members(operation.plan)]
  /\ UNCHANGED <<installed, prepared, published>>

(* PublishAt reads all of it again.                                        *)
InspectsStage ==
  /\ operation.at = "inspect"
  /\ prepared' = IF inspectAt = {operation.plan} THEN operation.plan ELSE prepared
  /\ operation' = NoOperation
  /\ UNCHANGED <<installed, visible, loose, durable, published>>

---------------------------------------------------------------------------
(* InspectFirstPredecessorAt: a whole stage whose predecessor is the one   *)
(* the legacy names show.                                                  *)
InspectFirstPredecessorAt(p) ==
  /\ p \in inspectAt /\ p # "transition"
  /\ ReadLegacyAt = IF p = "legacy" THEN "legacy" ELSE "absent"

(* PublishFirstJournalAt: no receipt, and no journal but this one.         *)
PublishFirstJournalAt(p) ==
  /\ operation.at = "idle"
  /\ InspectFirstPredecessorAt(p)
  /\ ReadAuthorityAt.completion = "absent" /\ ReadAuthorityAt.journal \in {"absent", p}
  /\ operation' = [at |-> IF visible["temp"] # "absent" THEN "clear"
                     ELSE IF visible["journal"] = p THEN "sync_journal" ELSE "create",
              plan |-> p, rest |-> IF visible["journal"] = p THEN <<>> ELSE <<"temp">>]
  /\ UNCHANGED <<installed, visible, loose, durable, prepared, published>>

(* clearJournalTemp: what an interrupted call left is removed.             *)
ClearsTemp ==
  /\ operation.at = "clear"
  /\ Changes([visible EXCEPT !["temp"] = "absent"])
  /\ loose' = loose \ {"temp"}
  /\ operation' = [operation EXCEPT !.at = "sync_clear"]
  /\ UNCHANGED <<installed, prepared, published>>

SyncsClear ==
  /\ operation.at = "sync_clear"
  /\ SyncDirectory
  /\ operation' = [operation EXCEPT
       !.at = IF visible["journal"] = operation.plan THEN "sync_journal" ELSE "create"]
  /\ UNCHANGED <<installed, prepared, published>>

(* Nothing may have appeared under the two names in the meantime.          *)
Renames ==
  /\ operation.at = "rename"
  /\ ReadAuthorityAt = [journal |-> "absent", completion |-> "absent"]
  /\ Changes([visible EXCEPT !["journal"] = visible["temp"], !["temp"] = "absent"])
  /\ loose' = {IF n = "temp" THEN "journal" ELSE n : n \in loose}
  /\ operation' = [operation EXCEPT !.at = "sync_journal"]
  /\ UNCHANGED <<installed, prepared, published>>

(* Mutant: a journal found in place is taken to be on the disk. *)
SyncsJournalIfRenamed ==
  /\ operation.at = "sync_journal"
  /\ IF operation.rest = <<"temp">> THEN SyncDirectory ELSE UNCHANGED <<visible, loose, durable>>
  /\ operation' = [operation EXCEPT !.at = "confirm"]
  /\ UNCHANGED <<installed, prepared, published>>
(* The directory is synchronised after the rename, and again when a call   *)
(* finds the journal of an earlier one in place.                           *)
SyncsJournal ==
  /\ operation.at = "sync_journal"
  /\ SyncDirectory
  /\ operation' = [operation EXCEPT !.at = "confirm"]
  /\ UNCHANGED <<installed, prepared, published>>

(* confirmFirstJournal                                                     *)
ConfirmsJournal ==
  /\ operation.at = "confirm"
  /\ published' = (published \/ ReadAuthorityAt = [journal |-> operation.plan, completion |-> "absent"])
  /\ operation' = NoOperation
  /\ UNCHANGED <<installed, visible, loose, durable, prepared>>

---------------------------------------------------------------------------
(* A step fails, the call is cancelled, or its process ends.               *)
CallEnds ==
  /\ operation.at # "idle"
  /\ operation' = NoOperation
  /\ UNCHANGED <<installed, visible, loose, durable, prepared, published>>

PowerFails ==
  /\ visible' \in ComesBack
  /\ durable' = {visible'} /\ loose' = {} /\ operation' = NoOperation
  /\ UNCHANGED <<installed, prepared, published>>

(* The installation as it is found: no transition, a completed refresh of  *)
(* the legacy format, or a completed transition.                           *)
StageInit ==
  /\ installed \in Proposals
  /\ visible = [n \in FileNames |->
       IF installed = "transition" /\ n \in {"journal", "receipt"} THEN "previous" ELSE "absent"]
  /\ loose = {} /\ durable = {visible} /\ operation = NoOperation
  /\ prepared = "absent" /\ published = FALSE

StageNext ==
  \/ \E p \in Proposals : PublishAt(p) \/ PublishFirstJournalAt(p)
  \/ CreateFile \/ WriteFile \/ SyncsFile \/ SyncsParent \/ MakesStage \/ SyncsStage \/ InspectsStage
  \/ ClearsTemp \/ SyncsClear \/ Renames \/ SyncsJournal \/ ConfirmsJournal
  \/ CallEnds \/ PowerFails

StageSpec == StageInit /\ [][StageNext]_stageVars

---------------------------------------------------------------------------
(* Whatever moment the power fails at, the machine comes back with the     *)
(* journal it had or a whole one in its place; a proposal that fits what   *)
(* is installed and that PublishAt accepted comes back in a phase that     *)
(* ClassifyStaged knows; and once PublishFirstJournalAt has reported its   *)
(* journal the phase is forward recovery, whichever resources have been    *)
(* replaced since.  (PublishFirstJournalAt also takes a stage that PublishAt *)
(* left without an answer; the bytes of that one need not be on the disk.) *)
SurvivesPowerLoss ==
  \A f \in ComesBack :
    /\ f["journal"] # "torn"
    /\ prepared = installed =>
         \A replaced \in IF published THEN SUBSET Resources ELSE {{}} :
           ClassifyStaged(f, replaced) \in
             {"FORWARD_RECOVERY_REQUIRED"} \union (IF published THEN {} ELSE {"PREPARATION_PENDING"})
===========================================================================
