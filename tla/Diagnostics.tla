----------------------------- MODULE Diagnostics -----------------------------
(* The bounded diagnostics of a managed observer (internal/diagnostics):   *)
(* records appended to a file that is rotated by renames, one process      *)
(* after the other, each of which may die at any step.  A record is its    *)
(* place in the order of writing, its time and its size.                   *)
EXTENDS Naturals, Sequences, SequencesExt

CONSTANTS
  MaxFiles, MaxFileBytes, MaxAge,   \* the limits of the package, scaled down
  Sizes,                            \* sizes of records
  MaxRecords, MaxClock, MaxDeaths   \* bounds of the model

ASSUME DiagnosticsAssumption ==
  /\ MaxFiles \in Nat \ {0, 1} /\ MaxFileBytes \in Nat /\ MaxAge \in Nat
  /\ Sizes \subseteq 1 .. MaxFileBytes

VARIABLES
  disk,      \* the files by index: the records, and whether the last one is cut off
  writer,    \* the step, the index it is at, and the size of the record at hand
  health,    \* DISABLED, AVAILABLE or UNAVAILABLE; dropped records
  written,   \* records written by all processes
  clock,     \* the wall clock
  setBack,   \* history: the wall clock was set back
  deaths

dvars == <<disk, writer, health, written, clock, setBack, deaths>>
time == <<clock, setBack>>

Indices == 0 .. MaxFiles - 1
NoFile == [records |-> << >>, torn |-> FALSE, there |-> FALSE]
Bytes(file) == FoldSeq(LAMBDA r, sum : r.size + sum, 0, file.records)
NoWriter == [pc |-> "off", at |-> 0, size |-> 0, time |-> 0]
Dying == deaths < MaxDeaths /\ deaths' = deaths + 1

(* A record that cannot be written is dropped.                             *)
Drop ==
  /\ writer' = [writer EXCEPT !.pc = "idle"]
  /\ health' = "UNAVAILABLE"

---------------------------------------------------------------------------
(* New: the limits are enforced before the writer is available.            *)
NewWriter ==
  /\ writer.pc = "off"
  /\ writer' = [NoWriter EXCEPT !.pc = "maintain", !.time = clock]
  /\ health' = "DISABLED"
  /\ UNCHANGED <<disk, written, time, deaths>>

(* Record and housekeep: both maintain first.                              *)
Record(size) ==
  /\ writer.pc = "idle" /\ written < MaxRecords
  /\ writer' = [pc |-> "maintain", at |-> 0, size |-> size, time |-> clock]
  /\ UNCHANGED <<disk, health, written, time, deaths>>
Housekeep ==
  /\ writer.pc = "idle"
  /\ writer' = [NoWriter EXCEPT !.pc = "maintain", !.time = clock]
  /\ UNCHANGED <<disk, health, written, time, deaths>>

(* oldestRecordTime: a file with a record that is cut off is not one.      *)
Readable(file) == ~file.torn
Expired(file) ==
  \E k \in DOMAIN file.records : file.records[k].at + MaxAge < writer.time
(* maintainLocked, one file at a time in the order of the names, against   *)
(* one cutoff.                                                             *)
Maintain ==
  /\ writer.pc = "maintain"
  /\ IF writer.at = MaxFiles
     THEN /\ writer' = [writer EXCEPT !.pc = IF writer.size = 0 THEN "idle" ELSE "rotate"]
          /\ health' = "AVAILABLE"
          /\ UNCHANGED disk
     ELSE IF ~Readable(disk[writer.at]) THEN Drop /\ UNCHANGED disk
     ELSE /\ disk' = [disk EXCEPT ![writer.at] = IF Expired(@) THEN NoFile ELSE @]
          /\ writer' = [writer EXCEPT !.at = @ + 1]
          /\ UNCHANGED health
  /\ UNCHANGED <<written, time, deaths>>

(* rotateForLocked: when the record does not fit, the oldest file goes.    *)
Rotate ==
  /\ writer.pc = "rotate"
  /\ IF Bytes(disk[0]) + writer.size <= MaxFileBytes
     THEN UNCHANGED disk /\ writer' = [writer EXCEPT !.pc = "append"]
     ELSE /\ disk' = [disk EXCEPT ![MaxFiles - 1] = NoFile]
          /\ writer' = [writer EXCEPT !.pc = "rename", !.at = MaxFiles - 2]
  /\ UNCHANGED <<health, written, time, deaths>>

Renamed(i) == IF disk[i].there THEN [disk EXCEPT ![i] = NoFile, ![i + 1] = disk[i]] ELSE disk
(* Mutant: the newest file is left where it is. *)
RenameButNewest ==
  /\ writer.pc = "rename"
  /\ disk' = IF writer.at = 0 THEN disk ELSE Renamed(writer.at)
  /\ writer' = IF writer.at = 0 THEN [writer EXCEPT !.pc = "append"] ELSE [writer EXCEPT !.at = @ - 1]
  /\ UNCHANGED <<health, written, time, deaths>>
(* The renames, from the oldest file to the newest.                        *)
RenameFile ==
  /\ writer.pc = "rename"
  /\ disk' = Renamed(writer.at)
  /\ writer' = IF writer.at = 0 THEN [writer EXCEPT !.pc = "append"] ELSE [writer EXCEPT !.at = @ - 1]
  /\ UNCHANGED <<health, written, time, deaths>>

(* The write: whole, or cut off by a full disk or by a death.  A whole     *)
(* write whose file does not close well stays, and counts as dropped.      *)
Append1 ==
  /\ writer.pc = "append"
  /\ disk' = [disk EXCEPT ![0] = [records |-> Append(@.records, [id |-> written + 1, at |-> writer.time,
                                                                size |-> writer.size]),
                                  torn |-> FALSE, there |-> TRUE]]
  /\ written' = written + 1
  /\ \/ writer' = [NoWriter EXCEPT !.pc = "idle"] /\ health' = "AVAILABLE" /\ UNCHANGED deaths
     \/ Dying /\ Drop
  /\ UNCHANGED time
ShortWrite ==
  /\ writer.pc = "append" /\ Dying
  /\ disk' = [disk EXCEPT ![0].torn = TRUE, ![0].there = TRUE]
  /\ Drop
  /\ UNCHANGED <<written, time>>

(* A step of maintenance or of a rotation fails, or the process dies.      *)
StepFails ==
  /\ writer.pc \in {"maintain", "rotate", "rename", "append"} /\ Dying
  /\ Drop
  /\ UNCHANGED <<disk, written, time>>
Die ==
  /\ writer.pc # "off" /\ Dying
  /\ writer' = NoWriter /\ health' = "DISABLED"
  /\ UNCHANGED <<disk, written, time>>

CloseWriter ==
  /\ writer.pc = "idle"
  /\ writer' = NoWriter
  /\ UNCHANGED <<disk, health, written, time, deaths>>

(* The clock goes on, or is set back (bound: once).                        *)
Clock ==
  /\ \/ clock < MaxClock /\ clock' = clock + 1 /\ UNCHANGED setBack
     \/ ~setBack /\ clock' \in 0 .. clock - 1 /\ setBack' = TRUE
  /\ UNCHANGED <<disk, writer, health, written, deaths>>

DiagnosticsInit ==
  /\ disk = [i \in Indices |-> NoFile]
  /\ writer = NoWriter /\ health = "DISABLED" /\ written = 0 /\ deaths = 0
  /\ clock = 0 /\ setBack = FALSE
DiagnosticsNext ==
  \/ NewWriter \/ (\E size \in Sizes : Record(size)) \/ Housekeep \/ Maintain \/ Rotate \/ RenameFile
  \/ Append1 \/ ShortWrite \/ StepFails \/ Die \/ CloseWriter \/ Clock

---------------------------------------------------------------------------
Kept == FlattenSeq([i \in 1 .. MaxFiles |-> disk[MaxFiles - i].records])

(* Whenever the writer is at rest and available, the files, oldest first,  *)
(* hold what was written in the order of writing, each within its limit.   *)
(* They are a gapless run of it until the wall clock is set back:          *)
(* rotation, retention and a death between two removals or renames lose    *)
(* records only at the old end (maintainLocked, rotateForLocked).          *)
KeptIsGapless ==
  /\ writer.pc = "idle" /\ health = "AVAILABLE" =>
       \A k \in 1 .. Len(Kept) - 1 :
         /\ Kept[k + 1].id > Kept[k].id
         /\ setBack \/ Kept[k + 1].id = Kept[k].id + 1
  /\ \A i \in Indices : Bytes(disk[i]) <= MaxFileBytes
=============================================================================
