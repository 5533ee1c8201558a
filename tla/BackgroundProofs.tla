-------------------------- MODULE BackgroundProofs --------------------------
(* The rest of the proofs about the background profile: what an operation  *)
(* does under the lock, and the theorems.                                  *)
EXTENDS BackgroundInvariant

---------------------------------------------------------------------------
(* The work under the lock.                                                *)

(* An operation at work, or about to be, goes on or is done with it.       *)
LEMMA WorkMove ==
  ASSUME BackgroundInv, NEW c \in Calls, call[c].pc \in MarkedPcs,
         NEW r \in CallRecord, call' = [call EXCEPT ![c] = r],
         r.pc \in WorkPcs \union {"release"}, r.run = call[c].run, r.body = call[c].body,
         r.after = call[c].after \/ r.after = "idle",
         UNCHANGED <<bookkeeping, guard, owner, inst>>,
         area' \subseteq FileNames, temps' \subseteq Managed \union {"disabling"},
         stored' \in Profiles \union {None}, mgr' \in ManagerRecord,
         FilesFit', Fitting(r, area', temps', mgr')
  PROVE  BackgroundInv'
<1>1. Claims(c) /\ r.pc \in MarkedPcs /\ r.pc \in ClaimPcs
  BY Places DEF Claims, MarkedPcs
<1>2. /\ \A d \in Calls \ {c} : ~Claims(d)
      /\ inst = "idle" /\ inst' = inst /\ guard.dir
      /\ \A o \in Owners : owner[o].mark => call[c].run = o
  BY <1>1, ClaimIsAlone DEF BackgroundInv
<1>3. guard.owner = call[c].run /\ owner[call[c].run].lock = c
  BY CallFacts, Places DEF Guarded
<1>4. Numbered(r)
  BY <1>1, CallFacts DEF Numbered, MarkedPcs, WorkPcs
<1>5. Guarded(c, r, guard', owner')
  BY <1>1, <1>2, <1>3 DEF Guarded, MarkedPcs, WorkPcs
<1>6. Types'
  BY Moved DEF BackgroundInv, Types, bookkeeping
<1>7. GuardInv'
  BY <1>1, <1>2, <1>3, <1>4, <1>5, ClaimMove, Zenon DEF BackgroundInv
<1>8. FilesInv'
  BY FilesWork, Zenon DEF BackgroundInv
<1> QED  BY <1>6, <1>7, <1>8 DEF BackgroundInv

(* Of the files and the manager, what the types say.                       *)
LEMMA FileFacts ==
  ASSUME BackgroundInv
  PROVE  /\ area \subseteq FileNames /\ temps \subseteq Managed \union {"disabling"}
         /\ stored \in Profiles \union {None} /\ mgr \in ManagerRecord /\ FilesFit
         /\ os \in {"linux", "darwin", "windows"}
  BY BackgroundAssumption DEF BackgroundInv, Types, FilesInv

(* The files are as they were, and so is the registration.                 *)
LEMMA FilesKept ==
  ASSUME BackgroundInv, UNCHANGED <<area, temps, stored, inst>>, mgr' = mgr
  PROVE  FilesFit'
  BY FileFacts DEF FilesFit

(* An operation at work is at work alone: the installer is not.            *)
LEMMA WorkIsAlone ==
  ASSUME BackgroundInv, NEW c \in Calls, call[c].pc \in MarkedPcs
  PROVE  inst = "idle"
  BY ClaimIsAlone, Places DEF BackgroundInv, Claims

(* An operation at work moves to another place, and only that.             *)
LEMMA WorkPlace ==
  ASSUME BackgroundInv, NEW c \in Calls, call[c].pc \in WorkPcs,
         NEW x \in WorkPcs \union {"release"}, Goto(c, x),
         UNCHANGED <<bookkeeping, guard, owner, inst, files, mgr>>,
         \A r \in CallRecord :
           /\ r.pc = x /\ r.op = call[c].op /\ r.body = call[c].body /\ r.arg = call[c].arg
           /\ r.todo = call[c].todo /\ r.registered = call[c].registered
           => Fitting(r, area, temps, mgr)
  PROVE  BackgroundInv'
<1>1. call[c].pc \in MarkedPcs /\ x \in OutsidePcs \union ClaimPcs
  BY Places DEF MarkedPcs
<1>2. PICK r \in CallRecord :
        /\ call' = [call EXCEPT ![c] = r]
        /\ r.pc = x /\ r.op = call[c].op /\ r.run = call[c].run /\ r.arg = call[c].arg
        /\ r.seen = call[c].seen /\ r.body = call[c].body /\ r.after = call[c].after
        /\ r.todo = call[c].todo /\ r.registered = call[c].registered
  BY <1>1, NewPlace, CallFacts
<1>3. Fitting(r, area', temps', mgr')
  BY <1>2 DEF files
<1>4. FilesFit'
  BY FilesKept DEF files
<1> QED  BY <1>1, <1>2, <1>3, <1>4, FileFacts, WorkMove, Zenon DEF files

(* Refusing fits every state of the files.                                 *)
LEMMA ReleaseFits ==
  ASSUME NEW r, r.pc = "release", r.body = "enable" => r.arg \in Profiles, NEW a, NEW t, NEW m
  PROVE  Fitting(r, a, t, m)
  BY DEF Fitting

(* An operation at work is over, whatever it has done to the manager.      *)
LEMMA Refused ==
  ASSUME BackgroundInv, NEW c \in Calls, call[c].pc \in MarkedPcs, Goto(c, "release"),
         UNCHANGED <<bookkeeping, guard, owner, inst, files>>, mgr' \in ManagerRecord, FilesFit'
  PROVE  BackgroundInv'
<1>1. "release" \in WorkPcs \union {"release"} /\ "release" \in OutsidePcs \union ClaimPcs
  BY DEF ClaimPcs, LinkedPcs, LockedPcs, MarkedPcs
<1>2. PICK r \in CallRecord :
        /\ call' = [call EXCEPT ![c] = r]
        /\ r.pc = "release" /\ r.op = call[c].op /\ r.run = call[c].run /\ r.arg = call[c].arg
        /\ r.seen = call[c].seen /\ r.body = call[c].body /\ r.after = call[c].after
  BY <1>1, NewPlace, CallFacts
<1>3. Fitting(r, area', temps', mgr')
  BY <1>2, CallFacts, ReleaseFits
<1> QED  BY <1>1, <1>2, <1>3, FileFacts, WorkMove, Zenon DEF files

(* Records of an operation that has moved.                                 *)
LEMMA ReleasePlace == "release" \in OutsidePcs \union ClaimPcs
  BY DEF ClaimPcs, LinkedPcs, LockedPcs, MarkedPcs
LEMMA RecordDone ==
  ASSUME NEW r \in CallRecord, NEW x \in OutsidePcs \union ClaimPcs, NEW a \in {"idle", "disable"}
  PROVE  [r EXCEPT !.pc = x, !.after = a] \in CallRecord
  BY Zenon DEF CallRecord
LEMMA RecordRemoved ==
  ASSUME NEW r \in CallRecord, NEW x \in OutsidePcs \union ClaimPcs, NEW t \in Todos,
         NEW a \in {"idle", "disable"}
  PROVE  [r EXCEPT !.todo = t, !.pc = x, !.after = a] \in CallRecord
  BY Zenon DEF CallRecord
LEMMA RecordViewed ==
  ASSUME NEW r \in CallRecord, NEW x \in OutsidePcs \union ClaimPcs, NEW t \in Todos,
         NEW g \in BOOLEAN
  PROVE  [r EXCEPT !.registered = g, !.todo = t, !.pc = x] \in CallRecord
  BY Zenon DEF CallRecord
LEMMA RecordCommanded ==
  ASSUME NEW r \in CallRecord, NEW x \in OutsidePcs \union ClaimPcs, NEW t \in Todos,
         NEW u \in BOOLEAN
  PROVE  [r EXCEPT !.todo = t, !.pc = x, !.unloaded = u] \in CallRecord
  BY Zenon DEF CallRecord

LEMMA LockOperationStep ==
  ASSUME BackgroundInv, NEW c \in Calls, LockOperation(c)
  PROVE  BackgroundInv'
<1>1. call[c].pc = "lock" /\ call[c].pc \in MarkedPcs /\ call[c].body \in {"none", "enable", "resume", "load"}
  BY CallFacts DEF LockOperation, At, MarkedPcs, CallRecord
<1>2. /\ area' \subseteq FileNames /\ area \subseteq area'
      /\ \A f \in {"marker", "settings", "reg", "disabling"} : f \in area' <=> f \in area
      /\ UNCHANGED <<bookkeeping, guard, owner, temps, stored, mgr, inst>>
  BY FileFacts DEF LockOperation, FileNames
<1>3. FilesFit'
  BY <1>2, FileFacts DEF FilesFit
<1>4. CASE "dir" \in area' /\ oplock = None
  <2> DEFINE r == [call[c] EXCEPT !.pc = call[c].body]
  <2>0. call[c].body # "none"
    BY <1>1, CallFacts DEF Numbered
  <2>1. r \in CallRecord
    BY <1>1, <2>0, CallFacts DEF CallRecord, ClaimPcs, LinkedPcs, LockedPcs, MarkedPcs, WorkPcs
  <2>2. call' = [call EXCEPT ![c] = r]
    BY <1>4 DEF LockOperation, Goto
  <2>3. /\ r.pc = call[c].body /\ r.run = call[c].run /\ r.after = call[c].after
        /\ r.body = call[c].body /\ r.arg = call[c].arg
    BY CallFacts DEF CallRecord
  <2> HIDE DEF r
  <2>4. Fitting(r, area', temps', mgr')
    BY <1>1, <2>0, <2>3, CallFacts DEF Fitting
  <2>5. r.pc \in WorkPcs \union {"release"}
    BY <1>1, <2>0, <2>3 DEF WorkPcs
  <2> QED  BY <1>1, <1>2, <1>3, <2>1, <2>2, <2>3, <2>4, <2>5, FileFacts, WorkMove, Zenon
<1>5. CASE ~("dir" \in area' /\ oplock = None)
  <2> DEFINE r == [call[c] EXCEPT !.pc = "release", !.after = "idle"]
  <2>1. r \in CallRecord
    BY CallFacts, ReleasePlace, RecordDone, Zenon
  <2>2. call' = [call EXCEPT ![c] = r]
    BY <1>5, CallFacts, Zenon DEF LockOperation
  <2>3. /\ r.pc = "release" /\ r.run = call[c].run /\ r.after = "idle"
        /\ r.body = call[c].body /\ r.arg = call[c].arg
    BY CallFacts DEF CallRecord
  <2> HIDE DEF r
  <2>4. Fitting(r, area', temps', mgr')
    BY <2>3, CallFacts, ReleaseFits
  <2> QED  BY <1>1, <1>2, <1>3, <2>1, <2>2, <2>3, <2>4, FileFacts, WorkMove, Zenon
<1> QED  BY <1>4, <1>5

LEMMA TodoSets ==
  /\ EnableTodos \subseteq Todos /\ RemoveTodos \subseteq Todos /\ RegisterTodos \subseteq Todos
  /\ StartTodos \subseteq Todos /\ StopTodos \subseteq Todos /\ UnregisterTodos \subseteq Todos
  /\ DisablingTodo \in Todos /\ << >> \in Todos
  BY DEF Todos, RemoveTodos

(* The place and the list of the operation have changed.                   *)
Turns(c, x, t) == call' = [call EXCEPT ![c].pc = x, ![c].todo = t]
LEMMA NewTodo ==
  ASSUME NEW c \in Calls, NEW x \in OutsidePcs \union ClaimPcs, NEW t \in Todos,
         call \in [Calls -> CallRecord], Turns(c, x, t)
  PROVE  \E r \in CallRecord :
           /\ call' = [call EXCEPT ![c] = r]
           /\ r.pc = x /\ r.op = call[c].op /\ r.run = call[c].run /\ r.arg = call[c].arg
           /\ r.seen = call[c].seen /\ r.body = call[c].body /\ r.after = call[c].after
           /\ r.todo = t /\ r.registered = call[c].registered
<1> DEFINE r == [call[c] EXCEPT !.pc = x, !.todo = t]
<1>1. call[c] \in CallRecord
  OBVIOUS
<1>2. r \in CallRecord
  BY <1>1, Zenon DEF CallRecord
<1>3. call' = [call EXCEPT ![c] = r]
  BY Zenon DEF Turns
<1>4. /\ r.pc = x /\ r.op = call[c].op /\ r.run = call[c].run /\ r.arg = call[c].arg
      /\ r.seen = call[c].seen /\ r.body = call[c].body /\ r.after = call[c].after
      /\ r.todo = t /\ r.registered = call[c].registered
  BY <1>1 DEF CallRecord
<1> QED  BY <1>2, <1>3, <1>4, Zenon

(* An operation at work takes another place and another list.              *)
LEMMA WorkTodo ==
  ASSUME BackgroundInv, NEW c \in Calls, call[c].pc \in WorkPcs,
         NEW x \in WorkPcs \union {"release"}, NEW t \in Todos,
         Turns(c, x, t),
         UNCHANGED <<bookkeeping, guard, owner, inst>>,
         area' \subseteq FileNames, temps' \subseteq Managed \union {"disabling"},
         stored' \in Profiles \union {None}, mgr' \in ManagerRecord, FilesFit',
         \A r \in CallRecord :
           /\ r.pc = x /\ r.op = call[c].op /\ r.body = call[c].body /\ r.arg = call[c].arg
           /\ r.todo = t /\ r.registered = call[c].registered
           => Fitting(r, area', temps', mgr')
  PROVE  BackgroundInv'
<1>1. call[c].pc \in MarkedPcs /\ x \in OutsidePcs \union ClaimPcs
  BY Places DEF MarkedPcs
<1>2. PICK r \in CallRecord :
        /\ call' = [call EXCEPT ![c] = r]
        /\ r.pc = x /\ r.op = call[c].op /\ r.run = call[c].run /\ r.arg = call[c].arg
        /\ r.seen = call[c].seen /\ r.body = call[c].body /\ r.after = call[c].after
        /\ r.todo = t /\ r.registered = call[c].registered
  BY <1>1, NewTodo, CallFacts
<1>3. Fitting(r, area', temps', mgr')
  BY <1>2
<1> QED  BY <1>1, <1>2, <1>3, WorkMove, Zenon

(* The same when the files and the manager are left as they are.           *)
LEMMA WorkTodoKept ==
  ASSUME BackgroundInv, NEW c \in Calls, call[c].pc \in WorkPcs,
         NEW x \in WorkPcs \union {"release"}, NEW t \in Todos, Turns(c, x, t),
         UNCHANGED <<bookkeeping, guard, owner, inst>>, UNCHANGED <<area, temps, stored, inst, mgr>>,
         \A r \in CallRecord :
           /\ r.pc = x /\ r.body = call[c].body /\ r.arg = call[c].arg /\ r.todo = t
           => Fitting(r, area, temps, mgr)
  PROVE  BackgroundInv'
<1>1. /\ area' \subseteq FileNames /\ temps' \subseteq Managed \union {"disabling"}
      /\ stored' \in Profiles \union {None} /\ mgr' \in ManagerRecord /\ FilesFit'
  BY FileFacts, FilesKept
<1>2. \A r \in CallRecord :
        /\ r.pc = x /\ r.op = call[c].op /\ r.body = call[c].body /\ r.arg = call[c].arg
        /\ r.todo = t /\ r.registered = call[c].registered
        => Fitting(r, area', temps', mgr')
  OBVIOUS
<1> QED  BY <1>1, <1>2, WorkTodo

LEMMA EnableStep ==
  ASSUME BackgroundInv, NEW c \in Calls, Enable(c)
  PROVE  BackgroundInv'
<1>1. /\ call[c].pc = "enable" /\ call[c].pc \in WorkPcs /\ call[c].pc \in MarkedPcs
      /\ UNCHANGED <<bookkeeping, guard, owner, inst, files, mgr>>
  BY DEF Enable, At, WorkPcs, MarkedPcs, guards
<1>2. call[c].arg \in Profiles
  BY <1>1, CallFacts DEF Fitting
<1>3. CASE EnableAccepts(call[c].arg) /\ "marker" \in area
  <2>1. Goto(c, "inspect")
    BY <1>3 DEF Enable
  <2>2. ASSUME NEW r \in CallRecord, r.pc = "inspect", r.arg = call[c].arg
        PROVE  Fitting(r, area, temps, mgr)
    BY <1>2, <1>3, <2>2 DEF Fitting
  <2>3. "inspect" \in WorkPcs \union {"release"}
    BY DEF WorkPcs
  <2> QED  BY <1>1, <2>1, <2>2, <2>3, WorkPlace
<1>4. CASE EnableAccepts(call[c].arg) /\ "marker" \notin area
  <2>1. Goto(c, "recoverfiles") /\ "disabling" \notin area
    BY <1>4 DEF Enable, EnableAccepts
  <2>2. ASSUME NEW r \in CallRecord, r.pc = "recoverfiles", r.arg = call[c].arg
        PROVE  Fitting(r, area, temps, mgr)
    BY <1>2, <1>4, <2>1, <2>2 DEF Fitting
  <2>3. "recoverfiles" \in WorkPcs \union {"release"}
    BY DEF WorkPcs
  <2> QED  BY <1>1, <2>1, <2>2, <2>3, WorkPlace
<1>5. CASE ~EnableAccepts(call[c].arg)
  BY <1>1, <1>5, Refused, FileFacts, FilesKept DEF Enable, Refuse, files
<1> QED  BY <1>3, <1>4, <1>5

LEMMA RecoverFilesStep ==
  ASSUME BackgroundInv, NEW c \in Calls, RecoverFiles(c)
  PROVE  BackgroundInv'
<1>1. /\ call[c].pc = "recoverfiles" /\ call[c].pc \in WorkPcs /\ call[c].pc \in MarkedPcs
      /\ UNCHANGED <<bookkeeping, guard, owner, inst, mgr>>
  BY DEF RecoverFiles, At, WorkPcs, MarkedPcs, guards
<1>2. /\ call[c].arg \in Profiles /\ "marker" \notin area /\ "disabling" \notin area
      /\ call[c] \in CallRecord
  BY <1>1, CallFacts DEF Fitting
<1>3. CASE Empty /\ call' = [call EXCEPT ![c].pc = "write", ![c].todo = <<"settings", "reg", "marker">>]
           /\ UNCHANGED files
  <2> DEFINE t == <<"settings", "reg", "marker">>
  <2>1. t \in EnableTodos /\ Head(t) = "settings"
    BY List3 DEF EnableTodos
  <2> HIDE DEF t
  <2>2. ASSUME NEW r \in CallRecord, r.pc = "write", r.arg = call[c].arg, r.todo = t
        PROVE  Fitting(r, area', temps', mgr')
    BY <1>2, <1>3, <2>1, <2>2, DisablingList DEF Fitting, Empty, files
  <2>3. "write" \in WorkPcs \union {"release"} /\ t \in Todos
    BY <2>1, TodoSets DEF WorkPcs
  <2>4. FilesFit'
    BY <1>1, <1>3, FilesKept DEF files
  <2>5. Turns(c, "write", t)
    BY <1>3 DEF t, Turns
  <2> QED  BY <1>1, <1>3, <2>2, <2>3, <2>4, <2>5, WorkTodo, FileFacts DEF files
<1>4. CASE UNCHANGED call
  <2>1. call' = [call EXCEPT ![c] = call[c]]
    BY <1>4, CallFacts
  <2>2. /\ area' \subseteq area /\ temps' \subseteq temps
        /\ stored' \in {stored, None} /\ (stored' # None <=> "settings" \in area')
    BY <1>4, FileFacts DEF RecoverFiles, files, FilesFit
  <2>3. FilesFit'
    BY <1>1, <1>2, <2>2, FileFacts DEF FilesFit
  <2>4. Fitting(call[c], area', temps', mgr')
    BY <1>1, <1>2, <2>2 DEF Fitting
  <2> QED  BY <1>1, <1>2, <2>1, <2>2, <2>3, <2>4, FileFacts, WorkMove, Zenon
<1> QED  BY <1>3, <1>4 DEF RecoverFiles

LEMMA WriteNextStep ==
  ASSUME BackgroundInv, NEW c \in Calls, WriteNext(c)
  PROVE  BackgroundInv'
<1>1. /\ call[c].pc = "write" /\ call[c].pc \in WorkPcs /\ call[c].pc \in MarkedPcs
      /\ UNCHANGED <<bookkeeping, guard, owner, inst, area, stored, mgr>>
  BY DEF WriteNext, At, WorkPcs, MarkedPcs, guards
<1> DEFINE t == call[c].todo
<1>2. temps = {} /\ t \in EnableTodos \union {DisablingTodo}
  BY <1>1, CallFacts DEF Fitting
<1>3. CASE Goto(c, "release") /\ UNCHANGED temps
  BY <1>1, <1>3, Refused, FileFacts, FilesKept DEF files
<1>4. CASE temps' = temps \union {Head(t)} /\ Goto(c, "rename")
  <2>1. /\ temps' = {Head(t)} /\ Head(t) \in Managed \union {"disabling"}
        /\ t = DisablingTodo => Head(t) = "disabling"
    BY <1>2, <1>4, EnableList, DisablingList
  <2>2. PICK r \in CallRecord :
          /\ call' = [call EXCEPT ![c] = r]
          /\ r.pc = "rename" /\ r.op = call[c].op /\ r.run = call[c].run /\ r.arg = call[c].arg
          /\ r.seen = call[c].seen /\ r.body = call[c].body /\ r.after = call[c].after
          /\ r.todo = t /\ r.registered = call[c].registered
    BY <1>4, NewPlace, CallFacts DEF ClaimPcs, LinkedPcs, LockedPcs, MarkedPcs, WorkPcs
  <2>3. FilesFit'
    BY <1>1, <1>2, <2>1, CallFacts, FileFacts, Zenon DEF FilesFit, Fitting
  <2>4. Fitting(r, area', temps', mgr')
    BY <1>1, <1>2, <2>1, <2>2, CallFacts, Zenon DEF Fitting
  <2>5. r.pc \in WorkPcs
    BY <2>2 DEF WorkPcs
  <2> QED  BY <1>1, <2>1, <2>2, <2>3, <2>4, <2>5, FileFacts, WorkMove, Zenon
<1> QED  BY <1>3, <1>4 DEF WriteNext, Refuse

LEMMA RenameStep ==
  ASSUME BackgroundInv, NEW c \in Calls, Rename(c)
  PROVE  BackgroundInv'
<1> DEFINE t == call[c].todo
           x == CASE Head(t) = "disabling" -> "unregister" [] Head(t) = "marker" -> "inspect"
                  [] OTHER -> "write"
<1>0. call[c].pc \in WorkPcs /\ UNCHANGED <<bookkeeping, guard, owner, inst>>
  BY DEF Rename, At, WorkPcs, guards
<1>1. /\ call[c].pc = "rename" /\ UNCHANGED <<inst, mgr>>
      /\ temps' = temps \ {Head(t)} /\ area' = area \union {Head(t)}
      /\ stored' = IF Head(t) = "settings" THEN call[c].arg ELSE stored
  BY DEF Rename, At
<1>2. Turns(c, x, Tail(t))
  BY CallFacts, Zenon DEF Rename, Turns
<1>3. /\ t \in EnableTodos \union {DisablingTodo} /\ temps \subseteq {Head(t)}
      /\ t \in EnableTodos =>
           /\ call[c].arg \in Profiles /\ "marker" \notin area /\ "disabling" \notin area
           /\ Head(t) # "settings" => "settings" \in area
           /\ Head(t) = "marker" => "reg" \in area
      /\ t = DisablingTodo => "marker" \in area
      /\ call[c].body = "enable" => call[c].arg \in Profiles
  BY <1>1, CallFacts, Zenon DEF Fitting
<1>4. temps' = {} /\ temps' \subseteq Managed \union {"disabling"}
  BY <1>1, <1>3
<1>5. CASE t = DisablingTodo
  <2>1. Head(t) = "disabling" /\ Tail(t) = << >> /\ x = "unregister"
    BY <1>5, DisablingList
  <2> HIDE DEF x
  <2>2. area' = area \union {"disabling"} /\ stored' = stored /\ "marker" \in area
    BY <1>1, <1>3, <1>5, <2>1
  <2>3. FilesFit'
    BY <1>1, <1>4, <2>2, FileFacts DEF FilesFit
  <2>4. ASSUME NEW r \in CallRecord, r.pc = "unregister", r.body = call[c].body, r.arg = call[c].arg
        PROVE  Fitting(r, area', temps', mgr')
    BY <1>3, <1>4, <2>2, <2>4 DEF Fitting
  <2>5. "unregister" \in WorkPcs \union {"release"} /\ area' \subseteq FileNames /\ << >> \in Todos
        /\ Turns(c, "unregister", << >>)
    BY <1>2, <2>1, <2>2, FileFacts, TodoSets, Zenon DEF WorkPcs, FileNames
  <2>6. stored' \in Profiles \union {None} /\ mgr' \in ManagerRecord
    BY <1>1, <2>2, FileFacts
  <2> QED  BY <1>0, <1>4, <2>3, <2>4, <2>5, <2>6, WorkTodo
<1>6. CASE t \in EnableTodos
  <2>1. /\ Head(t) \in {"settings", "reg", "marker"}
        /\ Head(t) = "settings" => Tail(t) \in EnableTodos /\ Head(Tail(t)) = "reg"
        /\ Head(t) = "reg" => Tail(t) \in EnableTodos /\ Head(Tail(t)) = "marker"
        /\ Head(t) = "marker" => Tail(t) = << >>
    BY <1>6, EnableList, Zenon DEF Managed
  <2>2. Tail(t) \in Todos /\ x = IF Head(t) = "marker" THEN "inspect" ELSE "write"
    BY <2>1, TodoSets, Zenon
  <2> HIDE DEF x
  <2>3. x \in WorkPcs \union {"release"} /\ area' \subseteq FileNames
        /\ stored' \in Profiles \union {None}
    BY <1>1, <1>3, <1>6, <2>1, <2>2, FileFacts DEF WorkPcs, FileNames, Managed
  <2>4. FilesFit'
    BY <1>1, <1>3, <1>4, <1>6, <2>1, FileFacts, BackgroundAssumption DEF FilesFit
  <2>5. ASSUME NEW r \in CallRecord, r.pc = x, r.body = call[c].body, r.arg = call[c].arg,
               r.todo = Tail(t)
        PROVE  Fitting(r, area', temps', mgr')
    <3>1. CASE Head(t) = "marker"
      BY <1>1, <1>3, <1>6, <2>2, <2>5, <3>1 DEF Fitting
    <3>2. CASE Head(t) # "marker"
      BY <1>1, <1>3, <1>4, <1>6, <2>1, <2>2, <2>5, <3>2, DisablingList, Zenon DEF Fitting
    <3> QED  BY <3>1, <3>2
  <2>6. mgr' \in ManagerRecord
    BY <1>1, FileFacts
  <2>7. PICK u \in Todos : u = Tail(t)
    BY <2>2, Zenon
  <2>8. Turns(c, x, u)
    BY <1>2, <2>7
  <2>9. ASSUME NEW r \in CallRecord, r.pc = x, r.body = call[c].body, r.arg = call[c].arg, r.todo = u
        PROVE  Fitting(r, area', temps', mgr')
    BY <2>5, <2>7, <2>9
  <2> QED  BY <1>0, <1>4, <2>3, <2>4, <2>6, <2>8, <2>9, WorkTodo
<1> QED  BY <1>3, <1>5, <1>6

LEMMA InspectStep ==
  ASSUME BackgroundInv, NEW c \in Calls, Inspect(c)
  PROVE  BackgroundInv'
<1>0. call[c].pc \in WorkPcs /\ UNCHANGED <<bookkeeping, guard, owner, inst>>
  BY DEF Inspect, At, WorkPcs, guards
<1>1. call[c].pc = "inspect" /\ UNCHANGED <<area, temps, stored, inst, mgr>>
  BY DEF Inspect, At, files
<1>2. /\ "marker" \in area
      /\ call[c].body = "enable" => call[c].arg \in Profiles
  BY <1>1, CallFacts DEF Fitting
<1>3. register \in RegisterTodos
  BY FileFacts DEF register, registerLinux, registerDarwin, registerWindows, RegisterTodos
<1>4. CASE ~Inspectable
  <2>1. call[c].pc \in MarkedPcs /\ Goto(c, "release") /\ UNCHANGED files
    BY <1>0, <1>1, <1>4, Places DEF Inspect, Refuse, files
  <2>2. mgr' \in ManagerRecord /\ FilesFit'
    BY <1>1, FileFacts, FilesKept
  <2> QED  BY <1>0, <2>1, <2>2, Refused
<1>5. CASE Inspectable /\ Registered
  <2>1. Turns(c, "again", << >>)
    BY <1>5 DEF Inspect, Turns
  <2>2. ASSUME NEW r \in CallRecord, r.pc = "again", r.body = call[c].body, r.arg = call[c].arg
        PROVE  Fitting(r, area, temps, mgr)
    BY <1>2, <2>2 DEF Fitting
  <2>3. "again" \in WorkPcs \union {"release"} /\ << >> \in Todos
    BY TodoSets DEF WorkPcs
  <2> QED  BY <1>0, <1>1, <2>1, <2>2, <2>3, WorkTodoKept
<1>6. CASE Inspectable /\ ~Registered
  <2>1. PICK t \in RegisterTodos : t = register
    BY <1>3
  <2>2. Turns(c, "register", t)
    BY <1>6, <2>1 DEF Inspect, Turns
  <2>3. ASSUME NEW r \in CallRecord, r.pc = "register", r.body = call[c].body,
               r.arg = call[c].arg, r.todo = t
        PROVE  Fitting(r, area, temps, mgr)
    BY <1>2, <2>3 DEF Fitting
  <2>4. "register" \in WorkPcs \union {"release"} /\ t \in Todos
    BY TodoSets DEF WorkPcs
  <2> QED  BY <1>0, <1>1, <2>2, <2>3, <2>4, WorkTodoKept
<1> QED  BY <1>4, <1>5, <1>6

LEMMA InspectAgainStep ==
  ASSUME BackgroundInv, NEW c \in Calls, InspectAgain(c)
  PROVE  BackgroundInv'
<1> DEFINE x == IF ~Inspectable THEN "release" ELSE IF Running THEN "status" ELSE "start"
           t == <<"start">>
<1>1. /\ call[c].pc \in WorkPcs /\ UNCHANGED <<bookkeeping, guard, owner, inst>>
      /\ UNCHANGED <<area, temps, stored, inst, mgr>> /\ Turns(c, x, t)
  BY DEF InspectAgain, At, WorkPcs, guards, files, Turns
<1>2. x \in {"release", "status", "start"} /\ t \in StartTodos
  BY DEF StartTodos
<1> HIDE DEF x, t
<1>3. x \in WorkPcs \union {"release"} /\ t \in Todos
  BY <1>2, TodoSets DEF WorkPcs
<1>4. ASSUME NEW r \in CallRecord, r.pc = x, r.body = call[c].body, r.arg = call[c].arg, r.todo = t
      PROVE  Fitting(r, area, temps, mgr)
  BY <1>2, <1>4, CallFacts, Zenon DEF Fitting
<1> QED  BY <1>1, <1>3, <1>4, WorkTodoKept

LEMMA ReportStatusStep ==
  ASSUME BackgroundInv, NEW c \in Calls, ReportStatus(c)
  PROVE  BackgroundInv'
<1>1. /\ call[c].pc \in MarkedPcs /\ UNCHANGED <<bookkeeping, guard, owner, inst, files, mgr>>
      /\ Goto(c, "release")
  BY DEF ReportStatus, At, WorkPcs, MarkedPcs, guards
<1> QED  BY <1>1, Refused, FileFacts, FilesKept DEF files

LEMMA LoadStep ==
  ASSUME BackgroundInv, NEW c \in Calls, Load(c)
  PROVE  BackgroundInv'
<1>1. /\ call[c].pc = "load" /\ call[c].pc \in WorkPcs /\ call[c].pc \in MarkedPcs
      /\ UNCHANGED <<bookkeeping, guard, owner, inst, files, mgr>>
  BY DEF Load, At, WorkPcs, MarkedPcs, guards
<1>2. CASE Goto(c, "release")
  BY <1>1, <1>2, Refused, FileFacts, FilesKept DEF files
<1>3. CASE Loadable /\ Goto(c, "view")
  <2>1. ASSUME NEW r \in CallRecord, r.pc = "view", r.body = call[c].body, r.arg = call[c].arg
        PROVE  Fitting(r, area, temps, mgr)
    BY <1>3, <2>1, CallFacts, Zenon DEF Fitting, Loadable, KnownFiles
  <2>2. "view" \in WorkPcs \union {"release"}
    BY DEF WorkPcs
  <2> QED  BY <1>1, <1>3, <2>1, <2>2, WorkPlace
<1> QED  BY <1>2, <1>3 DEF Load, Refuse

LEMMA ViewStep ==
  ASSUME BackgroundInv, NEW c \in Calls, View(c)
  PROVE  BackgroundInv'
<1> DEFINE t == IF call[c].op = "start" THEN <<"start">>
                ELSE IF call[c].force THEN stopForced ELSE << >>
           x == IF ~Inspectable \/ (~Registered /\ call[c].op # "disable") THEN "release"
                ELSE IF call[c].op = "start" THEN IF Running THEN "status" ELSE "start"
                ELSE IF ~Running THEN "stopped" ELSE IF call[c].force THEN "stop" ELSE "ask"
           r == [call[c] EXCEPT !.registered = Registered, !.todo = t, !.pc = x]
<1>0. call[c].pc \in MarkedPcs /\ UNCHANGED <<bookkeeping, guard, owner, inst>>
  BY DEF View, At, MarkedPcs, WorkPcs, guards
<1>1. /\ call[c].pc = "view" /\ UNCHANGED <<area, temps, stored, inst, mgr>>
      /\ call' = [call EXCEPT ![c] = r]
  BY Zenon DEF View, At, files
<1>2. /\ x = "start" => t \in StartTodos
      /\ x = "stop" => t \in StopTodos
      /\ t \in Todos
      /\ x \in {"release", "status", "start", "stopped", "stop", "ask"}
  <2>1. stopForced \in StopTodos
    BY FileFacts DEF stopForced, stopLinux, stopDarwin, stopWindows, StopTodos
  <2>2. <<"start">> \in StartTodos /\ << >> \in Todos
    BY TodoSets DEF StartTodos
  <2>3. t \in Todos
    BY <2>1, <2>2, TodoSets
  <2> QED  BY <2>1, <2>2, <2>3, Zenon
<1>3. Registered \in BOOLEAN /\ (mgr.file => Registered)
  BY FileFacts DEF ManagerRecord, Registered
<1> HIDE DEF t, x
<1>4. x \in OutsidePcs \union ClaimPcs /\ x \in WorkPcs \union {"release"}
  BY <1>2 DEF ClaimPcs, LinkedPcs, LockedPcs, MarkedPcs, WorkPcs
<1>5. r \in CallRecord
  BY <1>2, <1>3, <1>4, CallFacts, RecordViewed, Zenon
<1>6. /\ r.pc = x /\ r.run = call[c].run /\ r.body = call[c].body /\ r.after = call[c].after
      /\ r.arg = call[c].arg /\ r.todo = t /\ r.registered = Registered
  BY CallFacts DEF CallRecord
<1> HIDE DEF r
<1>7. "marker" \in area /\ temps = {} /\ FilesFit'
      /\ (call[c].body = "enable" => call[c].arg \in Profiles)
  BY <1>1, CallFacts, FilesKept, Zenon DEF Fitting
<1>8. Fitting(r, area', temps', mgr')
  BY <1>1, <1>2, <1>3, <1>6, <1>7, Zenon DEF Fitting
<1> QED  BY <1>0, <1>1, <1>4, <1>5, <1>6, <1>7, <1>8, FileFacts, WorkMove, Zenon

LEMMA RequestStopStep ==
  ASSUME BackgroundInv, NEW c \in Calls, RequestStop(c) \/ WaitForStopped(c)
  PROVE  BackgroundInv'
<1>1. /\ call[c].pc \in {"ask", "wait"} /\ call[c].pc \in WorkPcs /\ call[c].pc \in MarkedPcs
      /\ UNCHANGED <<bookkeeping, guard, owner, inst, files, mgr>>
  BY DEF RequestStop, WaitForStopped, At, WorkPcs, MarkedPcs, guards
<1>2. CASE Goto(c, "release")
  BY <1>1, <1>2, Refused, FileFacts, FilesKept DEF files
<1>3. ASSUME NEW x \in {"wait", "stopped"}, Goto(c, x)
      PROVE  BackgroundInv'
  <2>1. ASSUME NEW r \in CallRecord, r.pc = x, r.body = call[c].body, r.arg = call[c].arg,
               r.registered = call[c].registered
        PROVE  Fitting(r, area, temps, mgr)
    BY <1>1, <1>3, <2>1, CallFacts, Zenon DEF Fitting
  <2>2. x \in WorkPcs \union {"release"}
    BY DEF WorkPcs
  <2> QED  BY <1>1, <1>3, <2>1, <2>2, WorkPlace
<1> QED  BY <1>2, <1>3 DEF RequestStop, WaitForStopped, Refuse

LEMMA StoppedStep ==
  ASSUME BackgroundInv, NEW c \in Calls, Stopped(c)
  PROVE  BackgroundInv'
<1> DEFINE x == IF call[c].op = "stop" THEN "status" ELSE IF call[c].op = "restart" THEN "start"
                ELSE IF call[c].registered THEN "write" ELSE "remove"
           t == IF call[c].op = "stop" THEN << >> ELSE IF call[c].op = "restart" THEN <<"start">>
                ELSE IF call[c].registered THEN <<"disabling">>
                ELSE <<"marker", "settings", "reg", "disabling">>
<1>0. call[c].pc \in WorkPcs /\ UNCHANGED <<bookkeeping, guard, owner, inst>>
  BY DEF Stopped, At, WorkPcs, guards
<1>1. call[c].pc = "stopped" /\ UNCHANGED <<area, temps, stored, inst, mgr>>
  BY DEF Stopped, At, files
<1>2. Turns(c, x, t)
  BY DEF Stopped, Turns
<1>3. /\ "marker" \in area /\ temps = {} /\ (mgr.file => call[c].registered)
      /\ call[c].body = "enable" => call[c].arg \in Profiles
  BY <1>1, CallFacts, Zenon DEF Fitting
<1>4. /\ x \in {"status", "start", "write", "remove"}
      /\ x = "start" => t \in StartTodos
      /\ x = "write" => t = DisablingTodo
      /\ x = "remove" => t \in RemoveTodos /\ Head(t) = "marker" /\ ~call[c].registered
      /\ t \in Todos
  <2>1. <<"start">> \in StartTodos /\ <<"disabling">> = DisablingTodo
    BY DEF StartTodos, DisablingTodo
  <2> DEFINE u == <<"marker", "settings", "reg", "disabling">>
  <2>2. u \in RemoveTodos /\ Head(u) = "marker"
    BY List4 DEF RemoveTodos
  <2> HIDE DEF u
  <2>3. t = IF call[c].op = "stop" THEN << >> ELSE IF call[c].op = "restart" THEN <<"start">>
            ELSE IF call[c].registered THEN <<"disabling">> ELSE u
    BY DEF u
  <2> HIDE DEF t
  <2>4. t \in Todos
    BY <2>1, <2>2, <2>3, TodoSets
  <2> QED  BY <2>1, <2>2, <2>3, <2>4
<1> HIDE DEF x, t
<1>5. x \in WorkPcs \union {"release"} /\ t \in Todos
  BY <1>4 DEF WorkPcs
<1>6. ASSUME NEW r \in CallRecord, r.pc = x, r.body = call[c].body, r.arg = call[c].arg, r.todo = t
      PROVE  Fitting(r, area, temps, mgr)
  BY <1>3, <1>4, <1>6, DisablingList DEF Fitting
<1>7. PICK y \in WorkPcs \union {"release"}, u \in Todos : y = x /\ u = t
  BY <1>5, Zenon
<1>8. /\ Turns(c, y, u)
      /\ \A r \in CallRecord :
           /\ r.pc = y /\ r.body = call[c].body /\ r.arg = call[c].arg /\ r.todo = u
           => Fitting(r, area, temps, mgr)
  BY <1>2, <1>6, <1>7, Zenon
<1> QED  BY <1>0, <1>1, <1>8, WorkTodoKept

(* The files are removed once nothing is registered any more.              *)
LEMMA RemovalBegins ==
  ASSUME BackgroundInv, NEW c \in Calls, call[c].pc \in WorkPcs,
         UNCHANGED <<bookkeeping, guard, owner, inst>>, UNCHANGED <<area, temps, stored, inst, mgr>>,
         ~mgr.file, temps = {}, Turns(c, "remove", <<"marker", "settings", "reg", "disabling">>)
  PROVE  BackgroundInv'
<1> DEFINE u == <<"marker", "settings", "reg", "disabling">>
<1>1. u \in RemoveTodos /\ Head(u) = "marker" /\ u \in Todos
  BY List4, TodoSets DEF RemoveTodos
<1>2. Turns(c, "remove", u)
  OBVIOUS
<1> HIDE DEF u
<1>3. /\ "remove" \in WorkPcs \union {"release"}
      /\ call[c].body = "enable" => call[c].arg \in Profiles
  BY CallFacts DEF WorkPcs
<1>4. ASSUME NEW r \in CallRecord, r.pc = "remove", r.body = call[c].body, r.arg = call[c].arg,
             r.todo = u
      PROVE  Fitting(r, area, temps, mgr)
  BY <1>1, <1>3, <1>4, Zenon DEF Fitting
<1> QED  BY <1>1, <1>2, <1>3, <1>4, WorkTodoKept

LEMMA UnregisteredStep ==
  ASSUME BackgroundInv, NEW c \in Calls, Unregistered(c)
  PROVE  BackgroundInv'
<1>1. /\ call[c].pc = "unregistered" /\ call[c].pc \in WorkPcs
      /\ UNCHANGED <<bookkeeping, guard, owner, inst>> /\ UNCHANGED <<area, temps, stored, inst, mgr>>
      /\ Turns(c, "remove", <<"marker", "settings", "reg", "disabling">>)
  BY DEF Unregistered, At, WorkPcs, guards, files, Turns
<1>2. ~mgr.file /\ temps = {}
  BY <1>1, CallFacts, Zenon DEF Fitting
<1> QED  BY <1>1, <1>2, RemovalBegins

LEMMA UnregisterStep ==
  ASSUME BackgroundInv, NEW c \in Calls, Unregister(c)
  PROVE  BackgroundInv'
<1> DEFINE t == unregister(call[c].unloaded)
<1>1. /\ call[c].pc = "unregister" /\ call[c].pc \in WorkPcs
      /\ UNCHANGED <<bookkeeping, guard, owner, inst>> /\ UNCHANGED <<area, temps, stored, inst, mgr>>
  BY DEF Unregister, At, WorkPcs, guards, files
<1>2. /\ "marker" \in area /\ temps = {}
      /\ call[c].body = "enable" => call[c].arg \in Profiles
  BY <1>1, CallFacts, Zenon DEF Fitting
<1>3. t \in UnregisterTodos \/ (t = << >> /\ ~mgr.file)
  <2>1. CASE os = "linux"
    BY <2>1 DEF unregister, unregisterLinux, UnregisterTodos
  <2>2. CASE os = "windows"
    BY <2>2 DEF unregister, unregisterWindows, UnregisterTodos
  <2>3. CASE os = "darwin"
    BY <2>3 DEF unregister, unregisterDarwin, UnregisterTodos
  <2> QED  BY <2>1, <2>2, <2>3, FileFacts
<1>4. CASE t = << >>
  <2>1. Turns(c, "remove", <<"marker", "settings", "reg", "disabling">>)
    BY <1>4 DEF Unregister, Turns
  <2>2. ~mgr.file
    BY <1>3, <1>4, List1, List2, List3 DEF UnregisterTodos
  <2> QED  BY <1>1, <1>2, <2>1, <2>2, RemovalBegins
<1>5. CASE t # << >>
  <2>1. Turns(c, "unregistering", t)
    BY <1>5 DEF Unregister, Turns
  <2>2. PICK u \in UnregisterTodos : u = t
    BY <1>3, <1>5
  <2>3. u # <<"reload">>
    <3>1. CASE os = "linux"
      BY <2>2, <3>1, <1>5 DEF unregister, unregisterLinux
    <3>2. CASE os = "windows"
      BY <2>2, <3>2, <1>5 DEF unregister, unregisterWindows
    <3>3. CASE os = "darwin"
      BY <2>2, <3>3 DEF unregister, unregisterDarwin
    <3> QED  BY <3>1, <3>2, <3>3, FileFacts
  <2>4. Turns(c, "unregistering", u) /\ u \in Todos
    BY <2>1, <2>2, TodoSets
  <2>5. "unregistering" \in WorkPcs \union {"release"}
    BY DEF WorkPcs
  <2>6. ASSUME NEW r \in CallRecord, r.pc = "unregistering", r.body = call[c].body,
               r.arg = call[c].arg, r.todo = u
        PROVE  Fitting(r, area, temps, mgr)
    BY <1>2, <2>3, <2>6 DEF Fitting
  <2> QED  BY <1>1, <2>4, <2>5, <2>6, WorkTodoKept, SMTT(20)
<1> QED  BY <1>4, <1>5

LEMMA RemoveFileStep ==
  ASSUME BackgroundInv, NEW c \in Calls, RemoveFile(c)
  PROVE  BackgroundInv'
<1> DEFINE t == call[c].todo
           x == IF Len(t) = 1 THEN "release" ELSE "remove"
           r == [call[c] EXCEPT !.todo = Tail(t), !.pc = x, !.after = "idle"]
<1>0. call[c].pc \in MarkedPcs /\ UNCHANGED <<bookkeeping, guard, owner, inst>>
  BY DEF RemoveFile, At, MarkedPcs, WorkPcs, guards
<1>1. /\ call[c].pc = "remove" /\ UNCHANGED <<temps, inst, mgr>>
      /\ area' = area \ {Head(t)} /\ stored' = IF Head(t) = "settings" THEN None ELSE stored
      /\ call' = [call EXCEPT ![c] = r]
  BY Zenon DEF RemoveFile, At
<1>2. /\ t \in RemoveTodos /\ ~mgr.file /\ temps = {} /\ (Head(t) # "marker" => "marker" \notin area)
      /\ call[c].body = "enable" => call[c].arg \in Profiles
  BY <1>1, CallFacts DEF Fitting
<1>3. /\ Tail(t) \in Todos
      /\ x = "remove" => Tail(t) \in RemoveTodos /\ Head(Tail(t)) # "marker"
      /\ x \in {"release", "remove"}
  <2>1. /\ Len(t) = 1 => Tail(t) = << >>
        /\ Len(t) # 1 => Tail(t) \in RemoveTodos /\ Head(Tail(t)) # "marker"
    BY <1>2, RemoveList, Zenon
  <2>2. Tail(t) \in Todos
    BY <2>1, TodoSets, Zenon
  <2> QED  BY <2>1, <2>2, Zenon
<1> HIDE DEF x
<1>4. r \in CallRecord
  <2>1. x \in OutsidePcs \union ClaimPcs
    BY <1>3 DEF ClaimPcs, LinkedPcs, LockedPcs, MarkedPcs, WorkPcs
  <2> QED  BY <1>3, <2>1, CallFacts, RecordRemoved, Zenon
<1>5. /\ r.pc = x /\ r.run = call[c].run /\ r.body = call[c].body /\ r.after = "idle"
      /\ r.arg = call[c].arg /\ r.todo = Tail(t)
  BY CallFacts DEF CallRecord
<1> HIDE DEF r
<1>6. "marker" \notin area' /\ area' \subseteq FileNames /\ stored' \in Profiles \union {None}
  BY <1>1, <1>2, FileFacts
<1>7. FilesFit'
  BY <1>1, <1>2, <1>6, FileFacts DEF FilesFit
<1>8. Fitting(r, area', temps', mgr')
  BY <1>1, <1>2, <1>3, <1>5, <1>6 DEF Fitting
<1>9. r.pc \in WorkPcs \union {"release"} /\ temps' \subseteq Managed \union {"disabling"}
      /\ mgr' \in ManagerRecord
  BY <1>1, <1>3, <1>5, FileFacts DEF WorkPcs
<1> QED  BY <1>0, <1>1, <1>4, <1>5, <1>6, <1>7, <1>8, <1>9, WorkMove, Zenon

LEMMA ResumeStep ==
  ASSUME BackgroundInv, NEW c \in Calls, Resume(c)
  PROVE  BackgroundInv'
<1>1. /\ call[c].pc = "resume" /\ call[c].pc \in MarkedPcs /\ call[c].pc \in WorkPcs
      /\ UNCHANGED <<bookkeeping, guard, owner, inst>> /\ UNCHANGED <<area, temps, stored, inst, mgr>>
  BY DEF Resume, At, MarkedPcs, WorkPcs, guards, files
<1>2. FilesFit' /\ call[c] \in CallRecord /\ (call[c].body = "enable" => call[c].arg \in Profiles)
  BY <1>1, FilesKept, CallFacts, Zenon
<1>3. CASE ~Interrupted
  <2>1. Goto(c, "release")
    BY <1>3, <1>2 DEF Resume, Goto, CallRecord
  <2> QED  BY <1>1, <1>2, <2>1, Refused, FileFacts, Zenon DEF files
<1>4. CASE Interrupted /\ temps # {}
  <2> DEFINE r == [call[c] EXCEPT !.pc = "release", !.after = "idle"]
  <2>1. call' = [call EXCEPT ![c] = r]
    BY <1>4 DEF Resume
  <2>2. r \in CallRecord
    BY <1>2, ReleasePlace, RecordDone, Zenon
  <2>3. /\ r.pc = "release" /\ r.run = call[c].run /\ r.body = call[c].body /\ r.after = "idle"
        /\ r.arg = call[c].arg
    BY <1>2 DEF CallRecord
  <2> HIDE DEF r
  <2>4. Fitting(r, area', temps', mgr')
    BY <1>2, <2>3, ReleaseFits, ZenonT(30)
  <2> QED  BY <1>1, <1>2, <2>1, <2>2, <2>3, <2>4, FileFacts, WorkMove, Zenon
<1>5. CASE Interrupted /\ temps = {}
  <2> DEFINE u == <<"settings", "reg", "disabling">>
  <2>1. u \in RemoveTodos /\ Head(u) = "settings" /\ u \in Todos
    BY List3, TodoSets DEF RemoveTodos
  <2>2. Turns(c, "remove", u)
    BY <1>5, <1>2, Zenon DEF Resume, Turns, CallRecord
  <2> HIDE DEF u
  <2>3. "marker" \notin area /\ ~mgr.file
    BY <1>5, FileFacts DEF Interrupted, FilesFit
  <2>4. ASSUME NEW r \in CallRecord, r.pc = "remove", r.body = call[c].body,
               r.arg = call[c].arg, r.todo = u
        PROVE  Fitting(r, area, temps, mgr)
    BY <1>2, <1>5, <2>1, <2>3, <2>4 DEF Fitting
  <2>5. "remove" \in WorkPcs \union {"release"}
    BY DEF WorkPcs
  <2>6. PICK v \in Todos : v = u
    BY <2>1, Zenon
  <2>7. /\ Turns(c, "remove", v)
        /\ \A r \in CallRecord :
             /\ r.pc = "remove" /\ r.body = call[c].body /\ r.arg = call[c].arg /\ r.todo = v
             => Fitting(r, area, temps, mgr)
    BY <2>2, <2>4, <2>6, Zenon
  <2>8. PICK x \in WorkPcs \union {"release"} : x = "remove"
    BY <2>5
  <2>9. /\ Turns(c, x, v)
        /\ \A r \in CallRecord :
             /\ r.pc = x /\ r.body = call[c].body /\ r.arg = call[c].arg /\ r.todo = v
             => Fitting(r, area, temps, mgr)
    BY <2>7, <2>8, Zenon
  <2> QED  BY <1>1, <2>9, WorkTodoKept
<1> QED  BY <1>3, <1>4, <1>5

(* What the commands do to the registration.                               *)
Commands == {"temp", "file", "create", "reload", "enable", "bootstrap", "start", "stop",
             "kill", "bootout", "disable", "unlink", "delete"}
LEMMA EffectFacts ==
  ASSUME NEW m \in ManagerRecord, NEW command \in Commands
  PROVE  /\ Effect(m, command) \in ManagerRecord
         /\ command \notin {"file", "create", "unlink", "delete"} => Effect(m, command).file = m.file
         /\ command \in {"unlink", "delete"} => ~Effect(m, command).file
<1> USE DEF ManagerRecord, Effect, Starting, Ended
<1>1. CASE command \in {"temp", "file", "create", "reload", "enable"}
  BY <1>1, Zenon
<1>2. CASE command \in {"bootstrap", "start", "stop", "kill", "bootout"}
  BY <1>2, Zenon
<1>3. CASE command \in {"disable", "unlink", "delete"}
  BY <1>3, Zenon
<1> QED  BY <1>1, <1>2, <1>3, Zenon DEF Commands

LEMMA FailedFacts ==
  ASSUME NEW m \in ManagerRecord, NEW command \in Commands, NEW n \in Failed(m, command)
  PROVE  n \in ManagerRecord /\ n.file \in {m.file, Effect(m, command).file}
<1>1. CASE command \in {"temp", "file"}
  BY <1>1, Zenon DEF Failed, ManagerRecord
<1>2. CASE command \notin {"temp", "file"}
  BY <1>2, EffectFacts DEF Failed
<1> QED  BY <1>1, <1>2

(* The list of an operation that runs commands.                            *)
LEMMA CommandList ==
  ASSUME BackgroundInv, NEW c \in Calls,
         call[c].pc \in {"register", "start", "stop", "unregistering"}
  PROVE  LET t == call[c].todo IN
         /\ Head(t) \in Commands /\ Tail(t) \in Todos
         /\ Len(t) # 1 => call[c].pc \in {"register", "stop", "unregistering"}
         /\ call[c].pc \in {"start", "stop"} => Head(t) \in {"start", "stop", "kill", "bootout"}
         /\ call[c].pc = "stop" /\ Len(t) # 1 => Tail(t) \in StopTodos
         /\ call[c].pc # "start" => "marker" \in area
<1> DEFINE t == call[c].todo
<1>1. CASE call[c].pc = "register"
  <2>1. t \in RegisterTodos /\ "marker" \in area
    BY <1>1, CallFacts, Zenon DEF Fitting
  <2> QED  BY <1>1, <2>1, RegisterList, TodoSets, Zenon DEF Commands
<1>2. CASE call[c].pc = "unregistering"
  <2>1. t \in UnregisterTodos /\ "marker" \in area
    BY <1>2, CallFacts, Zenon DEF Fitting
  <2> QED  BY <1>2, <2>1, UnregisterList, TodoSets, Zenon DEF Commands
<1>3. CASE call[c].pc = "start"
  <2>1. t = <<"start">>
    BY <1>3, CallFacts, Zenon DEF Fitting, StartTodos
  <2> QED  BY <1>3, <2>1, List1, TodoSets DEF Commands
<1>4. CASE call[c].pc = "stop"
  <2>1. t \in {<<"stop", "kill">>, <<"kill">>, <<"bootout">>} /\ "marker" \in area
    BY <1>4, CallFacts, Zenon DEF Fitting, StopTodos
  <2>2. CASE t = <<"stop", "kill">>
    <3>1. Head(t) = "stop" /\ Tail(t) = <<"kill">> /\ Len(t) # 1
      BY <2>2, List2
    <3>2. <<"kill">> \in StopTodos
      BY DEF StopTodos
    <3> QED  BY <1>4, <2>1, <3>1, <3>2, TodoSets, Zenon DEF Commands
  <2>3. CASE t \in {<<"kill">>, <<"bootout">>}
    <3>1. Head(t) \in {"kill", "bootout"} /\ Tail(t) = << >> /\ Len(t) = 1
      BY <2>3, List1, Zenon
    <3> QED  BY <1>4, <2>1, <3>1, TodoSets, Zenon DEF Commands
  <2> QED  BY <2>1, <2>2, <2>3
<1> QED  BY <1>1, <1>2, <1>3, <1>4

(* One command: the registration appears only beside its files, and the    *)
(* operation that removes one goes on when it is gone.                     *)
LEMMA CommandStep ==
  ASSUME BackgroundInv, NEW c \in Calls, NEW p, NEW next,
         Command(c, p, next),
         \/ p = "register" /\ next = "again"
         \/ p = "start" /\ next = "status"
         \/ p = "stop" /\ next = "wait"
         \/ p = "unregistering" /\ next = "unregistered"
  PROVE  BackgroundInv'
<1> DEFINE t == call[c].todo
           command == Head(t)
           x == IF Len(t) = 1 THEN next ELSE p
<1>0. call[c].pc = p /\ call[c].pc \in {"register", "start", "stop", "unregistering"}
  BY DEF Command, At
<1>1. /\ call[c].pc \in MarkedPcs /\ UNCHANGED <<bookkeeping, guard, owner, inst>>
      /\ UNCHANGED <<area, temps, stored>> /\ UNCHANGED files
  BY <1>0 DEF Command, MarkedPcs, WorkPcs, guards, files
<1>2. /\ command \in Commands /\ Tail(t) \in Todos
      /\ Len(t) # 1 => p \in {"register", "stop", "unregistering"}
      /\ p \in {"start", "stop"} => command \in {"start", "stop", "kill", "bootout"}
      /\ p = "stop" /\ Len(t) # 1 => Tail(t) \in StopTodos
      /\ p # "start" => "marker" \in area
  BY <1>0, CommandList
<1>3. inst = "idle" /\ mgr \in ManagerRecord
  BY <1>1, WorkIsAlone, FileFacts
<1>4. ASSUME mgr'.file \in {mgr.file, Effect(mgr, command).file}
      PROVE  FilesFit'
  <2>1. mgr'.file => mgr.file \/ "marker" \in area
    BY <1>2, <1>3, <1>4, EffectFacts, Zenon
  <2> QED  BY <1>1, <1>3, <2>1, FileFacts DEF FilesFit
<1>5. CASE Goto(c, "release") /\ mgr' \in {mgr} \union Failed(mgr, command)
  <2>1. mgr' \in ManagerRecord /\ mgr'.file \in {mgr.file, Effect(mgr, command).file}
    BY <1>2, <1>3, <1>5, FailedFacts
  <2> QED  BY <1>1, <1>4, <1>5, <2>1, Refused
<1>6. CASE /\ mgr' = Effect(mgr, command)
           /\ call' = [call EXCEPT ![c].todo = Tail(@), ![c].pc = x,
                                   ![c].unloaded = @ \/ command = "bootout"]
  <2> DEFINE r == [call[c] EXCEPT !.todo = Tail(t), !.pc = x,
                                  !.unloaded = call[c].unloaded \/ command = "bootout"]
  <2>1. call' = [call EXCEPT ![c] = r]
    BY <1>6, Zenon
  <2>2. (call[c].unloaded \/ command = "bootout") \in BOOLEAN
    OBVIOUS
  <2>3. /\ x \in {"register", "stop", "unregistering", "again", "status", "wait", "unregistered"}
        /\ x = p \/ (x = next /\ Len(t) = 1)
        /\ x = p => Len(t) # 1
    BY <1>2
  <2> HIDE DEF x
  <2>4. x \in WorkPcs
    BY <2>3 DEF WorkPcs
  <2>5. x \in OutsidePcs \union ClaimPcs
    BY <2>4, Places
  <2>6. r \in CallRecord
    BY <1>2, <2>2, <2>5, CallFacts, RecordCommanded, Zenon
  <2>7. /\ r.pc = x /\ r.run = call[c].run /\ r.body = call[c].body /\ r.after = call[c].after
        /\ r.arg = call[c].arg /\ r.todo = Tail(t) /\ r.registered = call[c].registered
    BY CallFacts DEF CallRecord
  <2> HIDE DEF r
  <2>8. mgr' \in ManagerRecord /\ FilesFit'
    BY <1>2, <1>3, <1>4, <1>6, EffectFacts
  <2>9. call[c].body = "enable" => call[c].arg \in Profiles
    BY CallFacts, Zenon
  <2>10. Fitting(r, area', temps', mgr')
    <3>1. CASE p = "register"
      <4>1. t \in RegisterTodos /\ "marker" \in area /\ x \in {"register", "again"}
        BY <1>0, <2>3, <3>1, CallFacts, Zenon DEF Fitting
      <4>2. x = "register" => Tail(t) \in RegisterTodos
        BY <2>3, <3>1, <4>1, RegisterList
      <4> QED  BY <1>1, <2>7, <2>9, <4>1, <4>2 DEF Fitting
    <3>2. CASE p = "start"
      <4>1. x = "status"
        BY <1>2, <2>3, <3>2
      <4> QED  BY <2>7, <2>9, <4>1 DEF Fitting
    <3>3. CASE p = "stop"
      <4>1. mgr'.file = mgr.file
        BY <1>2, <1>3, <1>6, <3>3, EffectFacts
      <4>2. "marker" \in area /\ temps = {} /\ (mgr.file => call[c].registered)
        BY <1>0, <3>3, CallFacts, Zenon DEF Fitting
      <4>3. x = "wait" \/ (x = "stop" /\ Tail(t) \in StopTodos)
        BY <1>2, <2>3, <3>3
      <4> QED  BY <1>1, <2>7, <2>9, <4>1, <4>2, <4>3 DEF Fitting
    <3>4. CASE p = "unregistering"
      <4>1. /\ "marker" \in area /\ temps = {} /\ t \in UnregisterTodos
            /\ t = <<"reload">> => ~mgr.file
        BY <1>0, <3>4, CallFacts, Zenon DEF Fitting
      <4>2. CASE x = "unregistered"
        <5>1. command \in {"unlink", "delete"} \/ t = <<"reload">>
          BY <2>3, <3>4, <4>1, <4>2, UnregisterList
        <5>2. t = <<"reload">> => command = "reload"
          BY List1
        <5>3. ~mgr'.file
          BY <1>2, <1>3, <1>6, <4>1, <5>1, <5>2, EffectFacts
        <5> QED  BY <1>1, <2>7, <2>9, <4>1, <4>2, <5>3, Zenon DEF Fitting
      <4>3. CASE x = "unregistering"
        <5>1. Tail(t) \in UnregisterTodos /\ (Tail(t) = <<"reload">> => command = "unlink")
          BY <2>3, <3>4, <4>1, <4>3, UnregisterList
        <5>2. Tail(t) = <<"reload">> => ~mgr'.file
          BY <1>2, <1>3, <1>6, <5>1, EffectFacts
        <5> QED  BY <1>1, <2>7, <2>9, <4>1, <4>3, <5>1, <5>2, Zenon DEF Fitting
      <4> QED  BY <2>3, <3>4, <4>2, <4>3
    <3> QED  BY <3>1, <3>2, <3>3, <3>4
  <2>11. /\ area' \subseteq FileNames /\ temps' \subseteq Managed \union {"disabling"}
         /\ stored' \in Profiles \union {None}
    BY <1>1, FileFacts
  <2> QED  BY <1>1, <2>1, <2>4, <2>6, <2>7, <2>8, <2>10, <2>11, WorkMove, Zenon
<1> QED  BY <1>5, <1>6, Zenon DEF Command, Refuse

---------------------------------------------------------------------------
(* The theorems.                                                           *)

(* What the invariant speaks of has not changed.                           *)
LEMMA StutterStep ==
  ASSUME BackgroundInv, UNCHANGED vars
  PROVE  BackgroundInv'
<1>1. Types'
  BY DEF vars, BackgroundInv, Types
<1>2. GuardInv'
  BY Zenon DEF vars, BackgroundInv, GuardInv, MarkIsOwn, Claims
<1>3. FilesInv'
  BY DEF vars, BackgroundInv, FilesInv, FilesFit
<1> QED  BY <1>1, <1>2, <1>3 DEF BackgroundInv

LEMMA InitStep ==
  ASSUME Init
  PROVE  BackgroundInv
<1>1. Types
  <2>1. guard \in GuardRecord /\ runs \in 0 .. MaxRuns /\ os \in Systems
    BY BackgroundAssumption DEF Init, GuardRecord, Runs0
  <2>2. owner \in [Owners -> OwnerRecord]
    BY DEF Init, OwnerRecord
  <2>3. mgr \in ManagerRecord
    BY DEF Init, NoManager, ManagerRecord
  <2>4. call \in [Calls -> CallRecord]
    BY NoCallFacts DEF Init
  <2> QED  BY <2>1, <2>2, <2>3, <2>4, Zenon DEF Init, Types
<1>2. \A c \in Calls : call[c] = NoCall /\ ~Claims(c)
  BY NoCallFacts, Zenon DEF Init, Claims, ClaimPcs, LinkedPcs, LockedPcs, MarkedPcs, WorkPcs
<1>3. GuardInv
  <2>1. \A c \in Calls : Numbered(call[c]) /\ Guarded(c, call[c], guard, owner)
    BY <1>2, NoCallFacts, Zenon DEF Numbered, Guarded, ClaimPcs, LinkedPcs, LockedPcs, MarkedPcs, WorkPcs
  <2>2. MarkIsOwn
    BY DEF Init, MarkIsOwn
  <2> QED  BY <1>2, <2>1, <2>2, Zenon DEF Init, GuardInv
<1>4. FilesInv
  <2>1. FilesFit
    BY DEF Init, NoManager, FilesFit
  <2>2. \A c \in Calls : Fitting(call[c], area, temps, mgr)
    BY <1>2, NoCallFacts, Zenon DEF Fitting
  <2> QED  BY <2>1, <2>2 DEF FilesInv
<1> QED  BY <1>1, <1>3, <1>4 DEF BackgroundInv

(* The inductive invariant: the guard has one claimant, a mark belongs to  *)
(* the guard it lies in, and the files and the registration fit together   *)
(* at every step, for any number of processes, operations and faults       *)
(* (acquireInstallGuard, recoverBackgroundInstallGuard, lock, Enable,      *)
(* Disable and the adapters).                                              *)
THEOREM BackgroundInvariantHolds == Spec => []BackgroundInv
<1>1. Init => BackgroundInv
  BY InitStep
<1>2. BackgroundInv /\ [Next]_vars => BackgroundInv'
  <2> SUFFICES ASSUME BackgroundInv, [Next]_vars
               PROVE  BackgroundInv'
    OBVIOUS
  <2>1. ASSUME NEW c \in Calls, Guarding(c)
        PROVE  BackgroundInv'
    BY <2>1, MakeGuardStep, OpenOwnerStep, LockOwnerStep, ReadOwnerStep, UnlinkOwnerStep,
       RemoveGuardStep, MakeGuardAgainStep, CreateOwnerStep, LockOwnStep, MarkOwnStep,
       LockOperationStep, ReleaseStep, UnlinkOwnStep, RemoveOwnStep DEF Guarding
  <2>2. ASSUME NEW c \in Calls, Operating(c)
        PROVE  BackgroundInv'
    <3>1. CASE \/ Command(c, "register", "again") \/ Command(c, "start", "status")
               \/ Command(c, "stop", "wait") \/ Command(c, "unregistering", "unregistered")
      BY <3>1, CommandStep
    <3> QED
      BY <2>2, <3>1, EnableStep, RecoverFilesStep, WriteNextStep, RenameStep, InspectStep,
         InspectAgainStep, ReportStatusStep, LoadStep, ViewStep, RequestStopStep, StoppedStep,
         UnregisterStep, RemoveFileStep, ResumeStep, DisableStep, UnregisteredStep DEF Operating
  <2>3. ASSUME NEW c \in Calls, BeginAny(c) \/ Crash(c)
        PROVE  BackgroundInv'
    BY <2>3, BeginStep, CrashStep
  <2>4. CASE Service \/ Session \/ Override \/ Install \/ Installed
    BY <2>4, WorldStep, InstallerStep
  <2>5. CASE UNCHANGED vars
    BY <2>5, StutterStep
  <2> QED  BY <2>1, <2>2, <2>3, <2>4, <2>5 DEF Next
<1> QED  BY <1>1, <1>2, PTL DEF Spec

(* At most one of the background operations and the program installer      *)
(* works at a time, also when any number of them find the guard a dead     *)
(* process left and take it over at once (acquireInstallGuard,             *)
(* recoverBackgroundInstallGuard, lock).                                   *)
THEOREM ExclusionHolds == Spec => []OperationsExclude
<1>1. BackgroundInv => OperationsExclude
  <2> SUFFICES ASSUME BackgroundInv
               PROVE  OperationsExclude
    OBVIOUS
  <2>1. ASSUME NEW c \in Calls, Holds(c)
        PROVE  Claims(c)
    <3>1. call[c].pc \in OutsidePcs \union ClaimPcs
      BY CallFacts DEF CallRecord
    <3> QED  BY <2>1, <3>1 DEF Holds, Claims, OutsidePcs
  <2> QED  BY <2>1 DEF OperationsExclude, BackgroundInv, GuardInv
<1> QED  BY <1>1, BackgroundInvariantHolds, PTL

(* The user-session manager never has a registration that the managed      *)
(* files do not answer for, whatever command fails and whoever dies        *)
(* (register, unregister and the marker around them; the uninstaller).     *)
THEOREM RegistrationHolds == Spec => []RegistrationIsOwned
<1>1. BackgroundInv => RegistrationIsOwned
  BY DEF BackgroundInv, FilesInv, FilesFit, RegistrationIsOwned
<1> QED  BY <1>1, BackgroundInvariantHolds, PTL

(* Whatever step an operation dies at, a later Enable or Disable takes its *)
(* files up, the temporary of .disabling excepted (recoverPartialEnable,   *)
(* resumeInterruptedDisable, loadManaged).                                 *)
THEOREM RecoverableHolds == Spec => []InterruptedIsRecoverable
<1>1. BackgroundInv => InterruptedIsRecoverable
  <2> SUFFICES ASSUME BackgroundInv, "disabling" \notin temps
               PROVE  (\E s \in Profiles : EnableAccepts(s)) \/ Loadable
                        \/ (Interrupted /\ temps = {})
    BY DEF InterruptedIsRecoverable
  <2>1. CASE "marker" \in area
    BY <2>1, FileFacts DEF FilesFit, Loadable, KnownFiles, FileNames, Managed
  <2>2. CASE "marker" \notin area /\ "disabling" \in area
    BY <2>2, FileFacts DEF FilesFit, Interrupted
  <2>3. CASE "marker" \notin area /\ "disabling" \notin area
    <3>1. Partial
      BY <2>3, FileFacts DEF Partial, Managed
    <3>2. PICK s \in Profiles : TRUE
      BY BackgroundAssumption
    <3> QED  BY <2>3, <3>1, <3>2 DEF EnableAccepts
  <2> QED  BY <2>1, <2>2, <2>3
<1> QED  BY <1>1, BackgroundInvariantHolds, PTL
=============================================================================
