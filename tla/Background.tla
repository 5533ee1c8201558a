----------------------------- MODULE Background -----------------------------
(* The background profile of the local observer: enable, start, stop,      *)
(* restart and disable of internal/background, run by processes of their   *)
(* own that can die at any step, beside the program installer and the      *)
(* user-session manager of the platform (systemd, launchd or the Windows   *)
(* Task Scheduler).  A file appears, is renamed or removed in a step of    *)
(* its own.  The contents of a file are what the code tells apart: the     *)
(* stored settings, and the mark of a complete guard.                      *)
EXTENDS Naturals, Sequences

CONSTANTS
  Calls,       \* processes that run one operation at a time
  Profiles,    \* the settings an owner may enable
  Systems,     \* the platforms
  MaxRuns,     \* bound: operations started
  MaxFaults,   \* bound: deaths, failed commands and failures of the service
  None

ASSUME BackgroundAssumption ==
  /\ MaxRuns \in Nat /\ MaxFaults \in Nat
  /\ Systems \subseteq {"linux", "darwin", "windows"}
  /\ Profiles # {} /\ None \notin Profiles \union Calls

VARIABLES
  os,       \* the platform
  guard,    \* .install-lock: whether it exists, and its owner file
  owner,    \* the owner files, linked or not: complete, and locked by whom
  area,     \* the names in the background directory, itself included
  temps,    \* the names in it that have a .next file
  stored,   \* the contents of settings.json
  oplock,   \* who holds .operation-lock
  mgr,      \* the user-session manager
  call,     \* the operations
  inst,     \* the installer: idle, working, or done with an uninstall
  told,     \* history: Enable has returned success, no Disable since
  runs,
  faults

files == <<area, temps, stored>>
guards == <<guard, owner, oplock>>
bookkeeping == <<os, runs>>
vars == <<os, guard, owner, area, temps, stored, oplock, mgr, call, inst, told, runs, faults>>

(* Every lock an operation takes makes an owner file; Disable takes two.   *)
Owners == 1 .. 2 * MaxRuns
Managed == {"marker", "settings", "reg"}

NoCall == [pc |-> "idle", op |-> "none", run |-> 0, arg |-> None, force |-> FALSE, seen |-> 0,
           body |-> "none", after |-> "idle", todo |-> << >>, registered |-> FALSE,
           unloaded |-> FALSE]

Goto(c, pc) == call' = [call EXCEPT ![c].pc = pc]
At(c, pc) == call[c].pc = pc
Fault == faults < MaxFaults /\ faults' = faults + 1

---------------------------------------------------------------------------
(* The install guard, shared with the program installer.                   *)

(* An operation begins.  Disable first takes the lock to look for a        *)
(* disable that was interrupted, unless there is nothing at all.           *)
Begin(c, op, arg, force) ==
  /\ At(c, "idle") /\ runs < MaxRuns /\ inst # "gone"
  /\ runs' = runs + 1
  /\ op = "disable" => "dir" \in area
  /\ call' = [call EXCEPT ![c] =
       [NoCall EXCEPT !.pc = "mkdir", !.op = op, !.run = runs + 1, !.arg = arg, !.force = force,
                      !.body = CASE op = "enable" -> "enable" [] op = "disable" -> "resume"
                                 [] OTHER -> "load",
                      !.after = IF op = "disable" THEN "disable" ELSE "idle"]]
  /\ UNCHANGED <<os, guards, files, mgr, inst, told, faults>>

(* acquireInstallGuard: a guard that exists may be one left behind.        *)
MakeGuard(c) ==
  /\ At(c, "mkdir")
  /\ IF inst = "gone" THEN call' = [call EXCEPT ![c] = NoCall] /\ UNCHANGED guard
     ELSE IF guard.dir THEN Goto(c, "recover") /\ UNCHANGED guard
     ELSE Goto(c, "own") /\ guard' = [dir |-> TRUE, owner |-> 0]
  /\ UNCHANGED <<bookkeeping, owner, oplock, files, mgr, inst, told, faults>>

(* recoverBackgroundInstallGuard: only a guard with an owner file is       *)
(* opened, and only one that nobody holds is locked.                       *)
OpenOwner(c) ==
  /\ At(c, "recover")
  /\ call' = [call EXCEPT ![c] = IF guard.dir /\ guard.owner # 0
                                 THEN [@ EXCEPT !.pc = "lockowner", !.seen = guard.owner]
                                 ELSE NoCall]
  /\ UNCHANGED <<bookkeeping, guards, files, mgr, inst, told, faults>>

LockOwner(c) ==
  /\ At(c, "lockowner")
  /\ IF owner[call[c].seen].lock = None
     THEN /\ owner' = [owner EXCEPT ![call[c].seen].lock = c]
          /\ Goto(c, "readowner")
     ELSE UNCHANGED owner /\ call' = [call EXCEPT ![c] = NoCall]
  /\ UNCHANGED <<bookkeeping, guard, oplock, files, mgr, inst, told, faults>>

(* Mutant: the mark of the guard is left in the file. *)
ReadOwnerKeepsMark(c) ==
  /\ At(c, "readowner")
  /\ owner' = [owner EXCEPT ![call[c].seen].lock = None]
  /\ call' = [call EXCEPT ![c] = IF owner[call[c].seen].mark THEN [@ EXCEPT !.pc = "unlinkowner"]
                                 ELSE NoCall]
  /\ UNCHANGED <<bookkeeping, guard, oplock, files, mgr, inst, told, faults>>
(* The mark is invalidated while the lock is held, then the lock is given  *)
(* up and the guard is taken apart by name.                                *)
ReadOwner(c) ==
  /\ At(c, "readowner")
  /\ owner' = [owner EXCEPT ![call[c].seen] = [mark |-> FALSE, lock |-> None]]
  /\ call' = [call EXCEPT ![c] = IF owner[call[c].seen].mark THEN [@ EXCEPT !.pc = "unlinkowner"]
                                 ELSE NoCall]
  /\ UNCHANGED <<bookkeeping, guard, oplock, files, mgr, inst, told, faults>>

UnlinkOwner(c) ==
  /\ At(c, "unlinkowner")
  /\ IF guard.owner = 0 THEN UNCHANGED guard /\ call' = [call EXCEPT ![c] = NoCall]
     ELSE guard' = [guard EXCEPT !.owner = 0] /\ Goto(c, "rmguard")
  /\ UNCHANGED <<bookkeeping, owner, oplock, files, mgr, inst, told, faults>>

RemoveGuard(c) ==
  /\ At(c, "rmguard")
  /\ IF guard.dir /\ guard.owner = 0
     THEN guard' = [dir |-> FALSE, owner |-> 0] /\ Goto(c, "mkagain")
     ELSE UNCHANGED guard /\ call' = [call EXCEPT ![c] = NoCall]
  /\ UNCHANGED <<bookkeeping, owner, oplock, files, mgr, inst, told, faults>>

MakeGuardAgain(c) ==
  /\ At(c, "mkagain")
  /\ IF guard.dir \/ inst = "gone" THEN UNCHANGED guard /\ call' = [call EXCEPT ![c] = NoCall]
     ELSE guard' = [dir |-> TRUE, owner |-> 0] /\ Goto(c, "own")
  /\ UNCHANGED <<bookkeeping, owner, oplock, files, mgr, inst, told, faults>>

(* The owner file: created, locked and only then marked.  When it cannot   *)
(* be created the guard is removed again.                                  *)
CreateOwner(c) ==
  /\ At(c, "own")
  /\ \/ /\ guard.dir /\ guard.owner = 0
        /\ guard' = [guard EXCEPT !.owner = call[c].run] /\ Goto(c, "lockown")
        /\ UNCHANGED faults
     \/ /\ IF guard.dir /\ guard.owner = 0 THEN Fault ELSE UNCHANGED faults
        /\ call' = [call EXCEPT ![c].pc = "rmown", ![c].after = "idle"]
        /\ UNCHANGED guard
  /\ UNCHANGED <<bookkeeping, owner, oplock, files, mgr, inst, told>>

LockOwn(c) ==
  /\ At(c, "lockown")
  /\ IF owner[call[c].run].lock = None
     THEN /\ owner' = [owner EXCEPT ![call[c].run].lock = c]
          /\ Goto(c, "mark")
     ELSE UNCHANGED owner /\ call' = [call EXCEPT ![c].pc = "unlinkown", ![c].after = "idle"]
  /\ UNCHANGED <<bookkeeping, guard, oplock, files, mgr, inst, told, faults>>

MarkOwn(c) ==
  /\ At(c, "mark")
  /\ owner' = [owner EXCEPT ![call[c].run].mark = TRUE]
  /\ Goto(c, "lock")
  /\ UNCHANGED <<bookkeeping, guard, oplock, files, mgr, inst, told, faults>>

(* The rest of lock: the directory, which only Enable makes, and the       *)
(* operation lock in it.                                                   *)
LockOperation(c) ==
  /\ At(c, "lock")
  /\ area' = area \union (IF call[c].op = "enable" THEN {"dir", "lock"}
                          ELSE IF "dir" \in area THEN {"lock"} ELSE {})
  /\ IF "dir" \in area' /\ oplock = None
     THEN oplock' = c /\ Goto(c, call[c].body)
     ELSE UNCHANGED oplock /\ call' = [call EXCEPT ![c].pc = "release", ![c].after = "idle"]
  /\ UNCHANGED <<bookkeeping, guard, owner, temps, stored, mgr, inst, told, faults>>

(* unlock: the mark, the locks, and the guard by name.                     *)
Release(c) ==
  /\ At(c, "release")
  /\ oplock' = IF oplock = c THEN None ELSE oplock
  /\ owner' = [owner EXCEPT ![call[c].run] = [mark |-> FALSE, lock |-> None]]
  /\ Goto(c, "unlinkown")
  /\ UNCHANGED <<bookkeeping, guard, files, mgr, inst, told, faults>>

UnlinkOwn(c) ==
  /\ At(c, "unlinkown")
  /\ guard' = [guard EXCEPT !.owner = 0]
  /\ Goto(c, "rmown")
  /\ UNCHANGED <<bookkeeping, owner, oplock, files, mgr, inst, told, faults>>

RemoveOwn(c) ==
  /\ At(c, "rmown")
  /\ guard' = IF guard.owner = 0 THEN [dir |-> FALSE, owner |-> 0] ELSE guard
  /\ call' = [call EXCEPT ![c] = IF call[c].after = "idle" THEN NoCall
                                 ELSE [@ EXCEPT !.pc = call[c].after, !.after = "idle",
                                               !.run = call[c].run + MaxRuns]]
  /\ UNCHANGED <<bookkeeping, owner, oplock, files, mgr, inst, told, faults>>

Guarding(c) ==
  \/ MakeGuard(c) \/ OpenOwner(c) \/ LockOwner(c) \/ ReadOwner(c) \/ UnlinkOwner(c)
  \/ RemoveGuard(c) \/ MakeGuardAgain(c) \/ CreateOwner(c) \/ LockOwn(c) \/ MarkOwn(c)
  \/ LockOperation(c) \/ Release(c) \/ UnlinkOwn(c) \/ RemoveOwn(c)

---------------------------------------------------------------------------
(* The user-session manager: whether it answers, the registration in it    *)
(* and a half-written one, what it has loaded, what it starts at login,    *)
(* and the service.  A service that failed waits to be started again.      *)

NoManager == [up |-> TRUE, file |-> FALSE, temp |-> FALSE, loaded |-> FALSE, enabled |-> FALSE,
              override |-> FALSE, service |-> "off"]

(* inspect of the adapters: on systemd and launchd a job that is loaded    *)
(* without its file is a mismatch, and on systemd a unit with overrides.   *)
inspectLinux == IF mgr.file THEN ~mgr.override ELSE ~mgr.loaded
inspectDarwin == mgr.file \/ ~mgr.loaded
inspectWindows == TRUE
Inspectable ==
  mgr.up /\ CASE os = "linux" -> inspectLinux [] os = "darwin" -> inspectDarwin
              [] os = "windows" -> inspectWindows
Registered == mgr.file
Running == mgr.service = "up"

StartsAtLogin == mgr.file /\ (os = "linux" => mgr.enabled)

Starting(m) == [m EXCEPT !.loaded = TRUE, !.service = "up"]
Ended(m) == [m EXCEPT !.service = "off"]
(* What each command of register, start, stop and unregister does.         *)
Effect(m, command) ==
  CASE command = "temp" -> [m EXCEPT !.temp = TRUE]
    [] command = "file" -> [m EXCEPT !.temp = FALSE, !.file = TRUE]
    [] command = "create" -> [m EXCEPT !.file = TRUE]
    [] command = "reload" -> [m EXCEPT !.loaded = m.file]
    [] command = "enable" -> [m EXCEPT !.enabled = TRUE]
    [] command \in {"bootstrap", "start"} -> Starting(m)
    [] command = "stop" -> [m EXCEPT !.service = IF m.service = "waiting" THEN "off" ELSE m.service]
    [] command = "kill" -> Ended(m)
    [] command = "bootout" -> [Ended(m) EXCEPT !.loaded = FALSE]
    [] command = "disable" -> [m EXCEPT !.enabled = FALSE]
    [] command = "unlink" -> [m EXCEPT !.file = FALSE]
    [] command = "delete" -> [m EXCEPT !.file = FALSE]
(* What can be carried out at all: a .next file is never overwritten, a    *)
(* job that is not loaded cannot be unloaded, and nothing but a file can   *)
(* be changed while the manager does not answer.                           *)
Possible(m, command) ==
  CASE command = "temp" -> ~m.temp
    [] command \in {"file", "unlink"} -> TRUE
    [] command = "bootout" -> m.up /\ m.loaded
    [] command \in {"bootstrap", "start", "delete"} -> m.up /\ m.file
    [] OTHER -> m.up
(* What a command that reports an error may have done.                     *)
Failed(m, command) ==
  IF command \in {"temp", "file"} THEN {[m EXCEPT !.temp = FALSE]} ELSE {m, Effect(m, command)}

registerLinux == <<"temp", "file", "reload", "enable">>
registerDarwin == <<"temp", "file", "bootstrap">>
registerWindows == <<"create">>
register == CASE os = "linux" -> registerLinux [] os = "darwin" -> registerDarwin
              [] os = "windows" -> registerWindows

stopLinux == <<"stop", "kill">>
stopDarwin == <<"bootout">>
stopWindows == <<"kill">>
stopForced == CASE os = "linux" -> stopLinux [] os = "darwin" -> stopDarwin
                [] os = "windows" -> stopWindows

(* launchd has already let go of a job that was stopped with force.        *)
unregisterLinux == IF mgr.file THEN <<"disable", "unlink", "reload">> ELSE << >>
unregisterDarwin(unloaded) == IF unloaded THEN <<"unlink">> ELSE <<"bootout", "unlink">>
unregisterWindows == IF mgr.file THEN <<"delete">> ELSE << >>
unregister(unloaded) ==
  CASE os = "linux" -> unregisterLinux [] os = "darwin" -> unregisterDarwin(unloaded)
    [] os = "windows" -> unregisterWindows

Refuse(c) == Goto(c, "release")

(* One command of the queue: it is carried out, it fails, or it is carried *)
(* out and the answer is lost.                                             *)
Command(c, pc, next) ==
  LET command == Head(call[c].todo)
      possible == Possible(mgr, command) IN
  /\ At(c, pc)
  /\ \/ /\ possible
        /\ mgr' = Effect(mgr, command)
        /\ call' = [call EXCEPT ![c].todo = Tail(@),
                                ![c].pc = IF Len(call[c].todo) = 1 THEN next ELSE pc,
                                ![c].unloaded = @ \/ command = "bootout"]
        /\ UNCHANGED faults
     \/ /\ ~possible
        /\ Refuse(c)
        /\ UNCHANGED <<mgr, faults>>
     \/ /\ possible /\ Fault
        /\ mgr' \in Failed(mgr, command)
        /\ Refuse(c)
  /\ UNCHANGED <<bookkeeping, guards, files, inst, told>>

---------------------------------------------------------------------------
(* The files of the profile.                                               *)

(* validateManagedFiles: nothing but the files of a profile.               *)
KnownFiles == area \subseteq Managed \union {"dir", "lock", "disabling"} /\ temps = {}
(* loadManaged.                                                            *)
Loadable == "marker" \in area /\ stored # None /\ "reg" \in area /\ KnownFiles
(* hasManagedState of a directory without a marker.                        *)
Empty == area \subseteq {"dir", "lock"} /\ temps = {}

(* Mutant: the temporary of the marker is not expected. *)
PartialWithoutMarker ==
  /\ "marker" \notin area /\ "disabling" \notin area
  /\ temps \subseteq {"settings", "reg"}
(* recoverPartialEnable: what an interrupted Enable can have left.         *)
Partial ==
  /\ "marker" \notin area /\ "disabling" \notin area
  /\ temps \subseteq {"settings", "reg", "marker"}
(* resumeInterruptedDisable: what an interrupted Disable can have left.    *)
Interrupted == "marker" \notin area /\ "disabling" \in area

(* Enable under the lock: a profile with these settings is kept, anything  *)
(* an interrupted Enable left is removed first.                            *)
EnableAccepts(s) ==
  /\ "disabling" \notin area
  /\ \/ "marker" \in area /\ stored = s /\ Loadable
     \/ Partial
Enable(c) ==
  /\ At(c, "enable")
  /\ IF EnableAccepts(call[c].arg)
     THEN Goto(c, IF "marker" \in area THEN "inspect" ELSE "recoverfiles")
     ELSE Refuse(c)
  /\ UNCHANGED <<bookkeeping, guards, files, mgr, inst, told, faults>>

RecoverFiles(c) ==
  /\ At(c, "recoverfiles")
  /\ \/ /\ \E name \in area \ {"dir", "lock"} :
             area' = area \ {name} /\ stored' = IF name = "settings" THEN None ELSE stored
        /\ UNCHANGED <<temps, call>>
     \/ /\ \E name \in temps : temps' = temps \ {name}
        /\ UNCHANGED <<area, stored, call>>
     \/ /\ Empty
        /\ call' = [call EXCEPT ![c].pc = "write", ![c].todo = <<"settings", "reg", "marker">>]
        /\ UNCHANGED files
  /\ UNCHANGED <<bookkeeping, guards, mgr, inst, told, faults>>

(* writePrivateAtomic: a temporary and its rename; a write that fails      *)
(* leaves nothing.                                                         *)
WriteNext(c) ==
  /\ At(c, "write")
  /\ \/ /\ temps' = temps \union {Head(call[c].todo)} /\ Goto(c, "rename")
        /\ UNCHANGED faults
     \/ Fault /\ Refuse(c) /\ UNCHANGED temps
  /\ UNCHANGED <<bookkeeping, guards, area, stored, mgr, inst, told>>

(* Mutant: the service is registered before the marker is written. *)
RenameRegistersFirst(c) ==
  LET name == Head(call[c].todo) IN
  /\ At(c, "rename")
  /\ temps' = temps \ {name}
  /\ area' = area \union {name}
  /\ stored' = IF name = "settings" THEN call[c].arg ELSE stored
  /\ call' = [call EXCEPT ![c].todo = Tail(@),
       ![c].pc = CASE name = "disabling" -> "unregister" [] name = "reg" -> "inspect"
                   [] OTHER -> "write"]
  /\ UNCHANGED <<bookkeeping, guards, mgr, inst, told, faults>>
Rename(c) ==
  LET name == Head(call[c].todo) IN
  /\ At(c, "rename")
  /\ temps' = temps \ {name}
  /\ area' = area \union {name}
  /\ stored' = IF name = "settings" THEN call[c].arg ELSE stored
  /\ call' = [call EXCEPT ![c].todo = Tail(@),
       ![c].pc = CASE name = "disabling" -> "unregister" [] name = "marker" -> "inspect"
                   [] OTHER -> "write"]
  /\ UNCHANGED <<bookkeeping, guards, mgr, inst, told, faults>>

(* Enable and the manager: register what is not registered.                *)
Inspect(c) ==
  /\ At(c, "inspect")
  /\ IF ~Inspectable THEN Refuse(c)
     ELSE call' = [call EXCEPT ![c].pc = IF Registered THEN "again" ELSE "register",
                               ![c].todo = IF Registered THEN << >> ELSE register]
  /\ UNCHANGED <<bookkeeping, guards, files, mgr, inst, told, faults>>

InspectAgain(c) ==
  /\ At(c, "again")
  /\ call' = [call EXCEPT ![c].pc = IF ~Inspectable THEN "release"
                                    ELSE IF Running THEN "status" ELSE "start",
                          ![c].todo = <<"start">>]
  /\ UNCHANGED <<bookkeeping, guards, files, mgr, inst, told, faults>>

(* statusLocked, and the answer, which a manager that is not there does    *)
(* not make an error.                                                      *)
ReportStatus(c) ==
  /\ At(c, "status")
  /\ told' = (told \/ (call[c].op = "enable" /\ (mgr.up => Inspectable)))
  /\ Goto(c, "release")
  /\ UNCHANGED <<bookkeeping, guards, files, mgr, inst, faults>>

---------------------------------------------------------------------------
(* Start, Stop, Restart and Disable of a managed profile.                  *)

Load(c) ==
  /\ At(c, "load")
  /\ IF Loadable /\ ("disabling" \in area => call[c].op = "disable")
     THEN Goto(c, "view") ELSE Refuse(c)
  /\ UNCHANGED <<bookkeeping, guards, files, mgr, inst, told, faults>>

View(c) ==
  /\ At(c, "view")
  /\ call' = [call EXCEPT ![c].registered = Registered,
       ![c].todo = IF call[c].op = "start" THEN <<"start">>
                   ELSE IF call[c].force THEN stopForced ELSE << >>,
       ![c].pc = IF ~Inspectable \/ (~Registered /\ call[c].op # "disable") THEN "release"
                 ELSE IF call[c].op = "start" THEN IF Running THEN "status" ELSE "start"
                 ELSE IF ~Running THEN "stopped" ELSE IF call[c].force THEN "stop" ELSE "ask"]
  /\ UNCHANGED <<bookkeeping, guards, files, mgr, inst, told, faults>>

(* lifecycle.RequestStop: the instance ends, or the request fails.         *)
RequestStop(c) ==
  /\ At(c, "ask")
  /\ \/ ~Running /\ Goto(c, "wait") /\ UNCHANGED faults
     \/ Fault /\ Refuse(c)
  /\ UNCHANGED <<bookkeeping, guards, files, mgr, inst, told>>

(* waitForStopped: one look suffices, or the wait runs out.                *)
WaitForStopped(c) ==
  /\ At(c, "wait")
  /\ IF Inspectable /\ ~(Registered /\ Running) THEN Goto(c, "stopped") ELSE Refuse(c)
  /\ UNCHANGED <<bookkeeping, guards, files, mgr, inst, told, faults>>

(* What follows the stop: a registration is marked as being removed before *)
(* it is touched.                                                          *)
Stopped(c) ==
  /\ At(c, "stopped")
  /\ told' = (told /\ call[c].op # "disable")
  /\ call' = [call EXCEPT
       ![c].pc = IF call[c].op = "stop" THEN "status" ELSE IF call[c].op = "restart" THEN "start"
                 ELSE IF call[c].registered THEN "write" ELSE "remove",
       ![c].todo = IF call[c].op = "stop" THEN << >> ELSE IF call[c].op = "restart" THEN <<"start">>
                   ELSE IF call[c].registered THEN <<"disabling">>
                   ELSE <<"marker", "settings", "reg", "disabling">>]
  /\ UNCHANGED <<bookkeeping, guards, files, mgr, inst, faults>>

(* unregister, which leaves a registration it does not know alone.         *)
Unregister(c) ==
  LET todo == unregister(call[c].unloaded) IN
  /\ At(c, "unregister")
  /\ call' = [call EXCEPT ![c].pc = IF todo = << >> THEN "remove" ELSE "unregistering",
       ![c].todo = IF todo = << >> THEN <<"marker", "settings", "reg", "disabling">> ELSE todo]
  /\ UNCHANGED <<bookkeeping, guards, files, mgr, inst, told, faults>>

Unregistered(c) ==
  /\ At(c, "unregistered")
  /\ call' = [call EXCEPT ![c].pc = "remove",
                          ![c].todo = <<"marker", "settings", "reg", "disabling">>]
  /\ UNCHANGED <<bookkeeping, guards, files, mgr, inst, told, faults>>

(* removeManagedState, and the removals of resumeInterruptedDisable.       *)
RemoveFile(c) ==
  LET name == Head(call[c].todo) IN
  /\ At(c, "remove")
  /\ area' = area \ {name}
  /\ stored' = IF name = "settings" THEN None ELSE stored
  /\ call' = [call EXCEPT ![c].todo = Tail(@),
                          ![c].pc = IF Len(call[c].todo) = 1 THEN "release" ELSE "remove",
                          ![c].after = "idle"]
  /\ UNCHANGED <<bookkeeping, guards, temps, mgr, inst, told, faults>>

(* Disable, first part: what an earlier Disable left is cleared away.      *)
Resume(c) ==
  /\ At(c, "resume")
  /\ call' = [call EXCEPT
       ![c] = IF ~Interrupted THEN [@ EXCEPT !.pc = "release"]
              ELSE IF temps # {} THEN [@ EXCEPT !.pc = "release", !.after = "idle"]
              ELSE [@ EXCEPT !.pc = "remove", !.todo = <<"settings", "reg", "disabling">>]]
  /\ UNCHANGED <<bookkeeping, guards, files, mgr, inst, told, faults>>

(* Disable, second part: the profile is looked at without the lock, which  *)
(* is then taken again.                                                    *)
Disable(c) ==
  /\ At(c, "disable")
  /\ call' = [call EXCEPT ![c] = IF "marker" \in area
                                 THEN [@ EXCEPT !.pc = "mkdir", !.body = "load"] ELSE NoCall]
  /\ UNCHANGED <<bookkeeping, guards, files, mgr, inst, told, faults>>

Operating(c) ==
  \/ Enable(c) \/ RecoverFiles(c) \/ WriteNext(c) \/ Rename(c) \/ Inspect(c) \/ InspectAgain(c)
  \/ ReportStatus(c) \/ Load(c) \/ View(c) \/ RequestStop(c) \/ WaitForStopped(c) \/ Stopped(c)
  \/ Unregister(c) \/ RemoveFile(c) \/ Resume(c) \/ Disable(c)
  \/ Command(c, "register", "again") \/ Command(c, "start", "status") \/ Command(c, "stop", "wait")
  \/ Command(c, "unregistering", "unregistered") \/ Unregistered(c)

---------------------------------------------------------------------------
(* What goes on around an operation.                                       *)

(* The process of an operation dies: its locks go, its files stay.         *)
Crash(c) ==
  /\ ~At(c, "idle") /\ Fault
  /\ owner' = [o \in Owners |-> [owner[o] EXCEPT !.lock = IF @ = c THEN None ELSE @]]
  /\ oplock' = IF oplock = c THEN None ELSE oplock
  /\ call' = [call EXCEPT ![c] = NoCall]
  /\ UNCHANGED <<bookkeeping, guard, files, mgr, inst, told>>

(* The service stops by itself (a stop request included), fails, or is     *)
(* started again after a failure; it runs only a profile that loads.       *)
Service ==
  /\ \/ Running /\ mgr' = [mgr EXCEPT !.service = "off"] /\ UNCHANGED faults
     \/ Running /\ mgr' = [mgr EXCEPT !.service = "waiting"] /\ Fault
     \/ /\ mgr.service = "waiting" /\ UNCHANGED faults
        /\ mgr' = [mgr EXCEPT !.service = IF mgr.loaded /\ Loadable THEN "up" ELSE "off"]
  /\ UNCHANGED <<bookkeeping, guards, files, call, inst, told>>

(* The owner logs out, which ends the manager and the service, and in.     *)
Session ==
  /\ \/ mgr.up /\ Fault
        /\ mgr' = [mgr EXCEPT !.up = FALSE, !.loaded = FALSE, !.service = "off"]
     \/ ~mgr.up /\ UNCHANGED faults
        /\ mgr' = [mgr EXCEPT !.up = TRUE, !.loaded = mgr.file,
                              !.service = IF StartsAtLogin /\ Loadable THEN "up" ELSE "off"]
  /\ UNCHANGED <<bookkeeping, guards, files, call, inst, told>>

(* The owner adds a drop-in to the unit, or takes it away.                 *)
Override ==
  /\ os = "linux" /\ Fault
  /\ mgr' = [mgr EXCEPT !.override = ~mgr.override]
  /\ UNCHANGED <<bookkeeping, guards, files, call, inst, told>>

(* The program installer makes the same guard, without an owner file.      *)
Install ==
  /\ inst = "idle" /\ runs < MaxRuns /\ ~guard.dir
  /\ inst' = "working" /\ runs' = runs + 1
  /\ guard' = [dir |-> TRUE, owner |-> 0]
  /\ UNCHANGED <<os, owner, oplock, files, mgr, call, told, faults>>

(* An uninstall takes a background area without a profile only, and leaves *)
(* nothing; an install or a rollback leaves the area alone.                *)
Uninstallable == "marker" \notin area /\ temps = {} /\ area \subseteq {"dir", "lock"}
Installed ==
  /\ inst = "working"
  /\ \/ /\ Uninstallable /\ inst' = "gone"
        /\ area' = {} /\ UNCHANGED <<temps, stored>>
     \/ inst' = "idle" /\ UNCHANGED files
  /\ guard' = [guard EXCEPT !.dir = FALSE]
  /\ UNCHANGED <<bookkeeping, owner, oplock, mgr, call, told, faults>>

Init ==
  /\ os \in Systems
  /\ guard = [dir |-> FALSE, owner |-> 0]
  /\ owner = [o \in Owners |-> [mark |-> FALSE, lock |-> None]]
  /\ area = {} /\ temps = {} /\ stored = None /\ oplock = None
  /\ mgr = NoManager
  /\ call = [c \in Calls |-> NoCall]
  /\ inst = "idle" /\ told = FALSE /\ runs = 0 /\ faults = 0

BeginAny(c) ==
  \/ \E s \in Profiles : Begin(c, "enable", s, FALSE)
  \/ Begin(c, "start", None, FALSE)
  \/ \E op \in {"stop", "restart", "disable"}, force \in BOOLEAN : Begin(c, op, None, force)
Next ==
  \/ \E c \in Calls : BeginAny(c) \/ Guarding(c) \/ Operating(c) \/ Crash(c)
  \/ Service \/ Session \/ Override \/ Install \/ Installed

Spec == Init /\ [][Next]_vars

---------------------------------------------------------------------------
Holds(c) == call[c].pc \notin {"idle", "mkdir", "recover", "lockowner", "readowner", "unlinkowner",
                              "rmguard", "mkagain", "own", "disable", "unlinkown", "rmown"}
Quiet == inst = "idle" /\ \A c \in Calls : At(c, "idle")

(* At most one of the background operations and the installer works at a   *)
(* time (lock, acquireInstallGuard and recoverBackgroundInstallGuard), even*)
(* when a guard a dead process left behind is taken over by several        *)
(* operations at once.                                                     *)
OperationsExclude ==
  /\ \A c, d \in Calls : Holds(c) /\ Holds(d) => c = d
  /\ inst = "working" => \A c \in Calls : ~Holds(c)

(* The user-session manager never has a registration that the managed      *)
(* files do not answer for, so an uninstall never leaves one behind: the   *)
(* marker is written before register and removed after unregister, and a   *)
(* crash or a failed command between them does not change that.            *)
RegistrationIsOwned ==
  mgr.file => "marker" \in area /\ stored # None /\ inst # "gone"

(* Whatever step an operation dies at, its files are ones that a later     *)
(* Enable or Disable takes up, the temporary of .disabling excepted.       *)
InterruptedIsRecoverable ==
  Quiet /\ "disabling" \notin temps =>
    \/ \E s \in Profiles : EnableAccepts(s)
    \/ Loadable
    \/ Interrupted /\ temps = {}

(* What Enable reports (docs/background-operation.md): the observer starts *)
(* at every future login.                                                  *)
EnableMeansLogin == told /\ Quiet => StartsAtLogin
=============================================================================
