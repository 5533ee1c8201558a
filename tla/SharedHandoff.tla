--------------------------- MODULE SharedHandoff ---------------------------
(* internal/sharedhandoff: the one-file slot through which one process     *)
(* hands its latest record to another, at the level of the directory.  A   *)
(* writer stages a record, makes it readable, syncs it and renames it over *)
(* the last one; the other process opens and reads without a lock of its   *)
(* own.  The writer may be killed between any two calls and started again, *)
(* a call of it may fail, and the machine may lose power.                  *)
(*                                                                         *)
(* A record is its number; a file is partly written, written or synced.    *)
(* What only an outsider could do to the directory (other owners, links,   *)
(* access lists) is left out: every check on it passes.                    *)
EXTENDS Naturals, FiniteSets

CONSTANTS
  Records,      \* 1..n, published in this order
  MaxRestarts,  \* bound: deaths of the writer
  MaxFailures,  \* bound: calls of the writer that fail
  MaxReads      \* bound: calls of Read

ASSUME HandoffAssumption ==
  /\ Cardinality(Records) \in Nat /\ Records = 1..Cardinality(Records)
  /\ MaxRestarts \in Nat /\ MaxFailures \in Nat /\ MaxReads \in Nat

NoFile == 0
Files == 1..(Cardinality(Records) + MaxRestarts + MaxFailures)
Latest == "snapshot.json"
Stage == ".snapshot-next"

VARIABLES
  entries,   \* the directory: [Latest, Stage -> file]; the lock has no data
  files,     \* [Files -> record, how much of it is written, mode]
  used,      \* the files created so far
  durable,   \* the files a reboot may find under Latest
  writer,    \* [at, record, restarts, failures]
  taker,     \* [at, seen, file, reads]
  outcome    \* what the last Read returned: [result, record]

svars == <<entries, files, used, durable, writer, taker, outcome>>

Linked(f) == f \in {entries[Latest], entries[Stage]}
Present == {n \in {Latest, Stage} : entries[n] # NoFile}
NoOutcome == [result |-> "none", record |-> 0]
Empty == [record |-> 0, data |-> "none", mode |-> "private"]

(* checkEntries: what is under a name that was listed, by the time it is   *)
(* examined.  The name may be gone; the latest record must be readable.    *)
checkEntries(n) ==
  IF entries[n] = NoFile THEN "UNAVAILABLE"
  ELSE IF n = Latest /\ files[entries[n]].mode # "shared" THEN "UNSAFE" ELSE "ok"

DirectoryIsFit == \A n \in Present : checkEntries(n) = "ok"

-----------------------------------------------------------------------------
(* openWithPolicies: the writer's lock excludes every other writer.        *)
OpenWriter ==
  /\ writer.at = "down" /\ DirectoryIsFit
  /\ writer' = [writer EXCEPT !.at = "open"]
  /\ UNCHANGED <<entries, files, used, durable, taker, outcome>>

(* The kernel drops the lock of a dead process.                            *)
WriterDies ==
  /\ writer.at # "down" /\ writer.restarts < MaxRestarts
  /\ writer' = [writer EXCEPT !.at = "down", !.restarts = @ + 1]
  /\ UNCHANGED <<entries, files, used, durable, taker, outcome>>

(* publishData, first half: what a dead writer staged is removed.          *)
RemoveStaged ==
  /\ writer.at = "open" /\ writer.record < Cardinality(Records) /\ DirectoryIsFit
  /\ entries' = [entries EXCEPT ![Stage] = NoFile]
  /\ writer' = [writer EXCEPT !.at = "staging", !.record = @ + 1]
  /\ UNCHANGED <<files, used, durable, taker, outcome>>

(* A new file under the staging name, private to the writer.               *)
CreateStage ==
  /\ writer.at = "staging" /\ used < Cardinality(Files)
  /\ used' = used + 1
  /\ entries' = [entries EXCEPT ![Stage] = used + 1]
  /\ files' = [files EXCEPT ![used + 1] =
                 [record |-> writer.record, data |-> "partial", mode |-> "private"]]
  /\ writer' = [writer EXCEPT !.at = "write"]
  /\ UNCHANGED <<durable, taker, outcome>>

Staged(from, to, field, value) ==
  /\ writer.at = from
  /\ files' = [files EXCEPT ![entries[Stage]][field] = value]
  /\ writer' = [writer EXCEPT !.at = to]
  /\ UNCHANGED <<entries, used, durable, taker, outcome>>
WriteStage == Staged("write", "chmod", "data", "written")
ChmodStage == Staged("chmod", "sync", "mode", "shared")
(* Mutant: the rename is not preceded by a sync of the file. *)
SyncStageSkipped == Staged("sync", "replace", "mode", "shared")
SyncStage == Staged("sync", "replace", "data", "synced")

(* The rename puts a complete record in the place of the last one.         *)
RenameStage ==
  /\ writer.at = "replace" /\ DirectoryIsFit
  /\ entries' = [entries EXCEPT ![Latest] = entries[Stage], ![Stage] = NoFile]
  /\ durable' = durable \union {entries[Stage]}
  /\ writer' = [writer EXCEPT !.at = "syncDir"]
  /\ UNCHANGED <<files, used, taker, outcome>>
SyncDirectory ==
  /\ writer.at = "syncDir"
  /\ durable' = {entries[Latest]}
  /\ writer' = [writer EXCEPT !.at = "open"]
  /\ UNCHANGED <<entries, files, used, taker, outcome>>

(* Any call fails: publishData returns and its caller gives up.            *)
PublishFails ==
  /\ writer.at \notin {"down", "open"} /\ writer.failures < MaxFailures
  /\ writer' = [writer EXCEPT !.at = "down", !.failures = @ + 1]
  /\ UNCHANGED <<entries, files, used, durable, taker, outcome>>

(* Power is lost: the name stands for the record last synced into it or    *)
(* for a later one, and of a file only what was synced is sure to be there.*)
PowerLoss ==
  /\ writer.restarts < MaxRestarts
  /\ \E f \in durable :
       \E s \in ({entries[Stage], entries[Latest]} \ {f}) \union {NoFile} :
         /\ entries' = [entries EXCEPT ![Latest] = f, ![Stage] = s]
         /\ durable' = {f}
  /\ files' = [f \in Files |->
                 IF files[f].data = "written" THEN [files[f] EXCEPT !.data = "partial"]
                 ELSE files[f]]
  /\ writer' = [writer EXCEPT !.at = "down", !.restarts = @ + 1]
  /\ taker' = [taker EXCEPT !.at = "idle", !.seen = {}, !.file = NoFile]
  /\ UNCHANGED <<used, outcome>>

-----------------------------------------------------------------------------
(* Reader.Read.  A refusal is final for a caller that takes it as unsafe,  *)
(* and passing when it says unavailable or missing.                        *)
Moves(s) == taker' = [taker EXCEPT !.at = s]
Returns(r) ==
  /\ taker' = [taker EXCEPT !.at = "idle", !.seen = {}, !.file = NoFile]
  /\ outcome' = [result |-> r, record |-> IF r = "ok" THEN files[taker.file].record ELSE 0]
Untouched == UNCHANGED <<entries, files, used, durable, writer>>

(* checkDirectory lists the names and then examines them one by one.       *)
ListEntries(from, to) ==
  /\ taker.at = from
  /\ taker' = [taker EXCEPT !.at = to, !.seen = Present]
  /\ Untouched /\ UNCHANGED outcome

BeginRead ==
  /\ taker.at = "idle" /\ taker.reads < MaxReads
  /\ taker' = [taker EXCEPT !.at = "first", !.seen = Present, !.reads = @ + 1]
  /\ outcome' = NoOutcome
  /\ Untouched

Examine(at, next) ==
  /\ taker.at = at /\ taker.seen # {}
  /\ \E n \in taker.seen :
       IF checkEntries(n) = "ok"
         THEN /\ taker' = [taker EXCEPT !.seen = @ \ {n},
                              !.at = IF taker.seen = {n} THEN next ELSE at]
              /\ UNCHANGED outcome
         ELSE Returns(checkEntries(n))
  /\ Untouched
ExamineNone(at, next) ==
  /\ taker.at = at /\ taker.seen = {}
  /\ Moves(next)
  /\ Untouched /\ UNCHANGED outcome

(* openFile: the open, and the comparison of what was opened with what the *)
(* name stands for afterwards.                                             *)
OpenLatest ==
  /\ taker.at = "opening"
  /\ IF entries[Latest] = NoFile
       THEN Returns("MISSING")
       ELSE taker' = [taker EXCEPT !.at = "opened", !.file = entries[Latest]]
            /\ UNCHANGED outcome
  /\ Untouched
CompareLatest ==
  /\ taker.at = "opened"
  /\ IF entries[Latest] # taker.file
       THEN Returns("UNAVAILABLE")
       ELSE Moves("handle") /\ UNCHANGED outcome
  /\ Untouched

(* checkHandle of the open file: unlinked means replaced.                  *)
checkHandle(f) ==
  IF files[f].mode # "shared" THEN "UNSAFE"
  ELSE IF Linked(f) THEN "ok" ELSE "UNAVAILABLE"
(* openFile looks at the name again before it calls a file unsafe.         *)
HandleOpened ==
  /\ taker.at = "handle"
  /\ CASE checkHandle(taker.file) = "ok" -> Moves("read") /\ UNCHANGED outcome
       [] checkHandle(taker.file) = "UNSAFE" /\ entries[Latest] = taker.file ->
            Returns("UNSAFE")
       [] OTHER -> Returns("UNAVAILABLE")
  /\ Untouched
HandleAgain ==
  /\ taker.at = "handleAgain"
  /\ IF checkHandle(taker.file) = "ok"
       THEN Moves("list") /\ UNCHANGED outcome
       ELSE Returns(checkHandle(taker.file))
  /\ Untouched

(* The bytes, and the decoder that takes only a canonical record.          *)
ReadData ==
  /\ taker.at = "read"
  /\ IF files[taker.file].data \in {"written", "synced"}
       THEN Moves("handleAgain") /\ UNCHANGED outcome
       ELSE Returns("INVALID")
  /\ Untouched
ReadReturns ==
  /\ taker.at = "done"
  /\ Returns("ok")
  /\ Untouched
(* The caller's context ends.                                              *)
ReadCanceled ==
  /\ taker.at # "idle"
  /\ Returns("UNAVAILABLE")
  /\ Untouched

-----------------------------------------------------------------------------
HandoffInit ==
  /\ entries = [n \in {Latest, Stage} |-> NoFile]
  /\ files = [f \in Files |-> Empty]
  /\ used = 0 /\ durable = {NoFile}
  /\ writer = [at |-> "down", record |-> 0, restarts |-> 0, failures |-> 0]
  /\ taker = [at |-> "idle", seen |-> {}, file |-> NoFile, reads |-> 0]
  /\ outcome = NoOutcome

WriterStep ==
  \/ OpenWriter \/ WriterDies \/ RemoveStaged \/ CreateStage \/ WriteStage
  \/ ChmodStage \/ SyncStage \/ RenameStage \/ SyncDirectory \/ PublishFails
  \/ PowerLoss
ReaderStep ==
  \/ BeginRead \/ Examine("first", "opening") \/ ExamineNone("first", "opening")
  \/ OpenLatest \/ CompareLatest \/ HandleOpened \/ ReadData
  \/ HandleAgain \/ ListEntries("list", "last")
  \/ Examine("last", "done") \/ ExamineNone("last", "done")
  \/ ReadReturns \/ ReadCanceled

HandoffNext == WriterStep \/ ReaderStep
HandoffSpec == HandoffInit /\ [][HandoffNext]_svars

-----------------------------------------------------------------------------
(* checkEntries, openFile and checkHandle: a publication under way, a      *)
(* writer that died or a power loss never makes Read report the directory  *)
(* as unsafe or the record as invalid: what it meets is passing.           *)
PublicationIsNeverUnsafe == outcome.result \notin {"UNSAFE", "INVALID"}

(* The slot as its users see it: a file counts as its record only when it  *)
(* is whole, so that a torn or staged one would be no step of the register.*)
RecordOf(f) ==
  IF f = NoFile THEN 0
  ELSE IF files[f].data \in {"written", "synced"} THEN files[f].record
  ELSE Cardinality(Records) + 1
Slot == INSTANCE HandoffSlot WITH
  latest <- RecordOf(entries[Latest]),
  kept <- {RecordOf(f) : f \in durable},
  taken <- RecordOf(taker.file),
  got <- outcome.record

(* publishData and Reader.Read: the directory behaves as a register with   *)
(* one writer; what a Read returns is whole, was the latest record while   *)
(* it ran, and a reboot leaves a whole record behind.                      *)
ImplementsSlot == Slot!SlotSpec
=============================================================================
